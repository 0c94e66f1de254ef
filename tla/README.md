# Verification of momo-rs

TLA+ models of the parts of momo-rs whose correctness depends on the order in
which tasks, threads and peers act, the TLC configurations that check them, and
TLAPS proofs of what they promise for every value of their constants. Paths are
relative to the repository (`momo/src/…`, `momo-moq/src/…`).

## 1. The system

The repository builds two programs. `momo` is a WebRTC client with three modes
(P2P, Ayame, Sora); `momo-moq` publishes and subscribes media over MOQT.

| Component | State it keeps | Operations | Works together with |
|---|---|---|---|
| Ayame client: `ayame.rs`, `ayame/*.rs` | retry counter; per attempt: two bounded channels (commands 32, notifications 64), WebSocket state, PeerConnection, watchdog deadline | `run`, `connect_once`, the signaling task, the watchdog task, PeerConnection callbacks | channels both ways with the signaling task; `blocking_send` from a WebRTC thread; stats requests |
| Metrics: `metrics.rs` | the providers, under a Mutex | `register`, `collect_stats` | a channel of capacity 1 and a oneshot to every session |
| P2P session: `p2p*.rs`, `html/webrtc.js` | the current peer of each WebSocket; in the page: connection, candidate buffer, `hasReceivedSdp` | the session's select, `process_offer`, observer callbacks; the page's handlers | WebSocket; stats |
| Serial bridge: `serial.rs` | one task and one unbounded queue per DataChannel; the tty they share | open, read, write, close | DataChannel callbacks, the device |
| Sora client: `sora.rs`, `sora/*.rs` | retry counter, `connected`, track registry | `run`, `connect`, event handler | display thread, metrics, `stop` |
| Display: `display.rs`, `main.rs` | cells of the window | add, remove, draw, close | command channel, shutdown and result channels |
| Audio device module: `adm.rs`, `fake.rs` | recording and playout flags, WebRTC's transport and the playback device, each under a mutex | callbacks of WebRTC's worker and of both devices | audio threads, the engines that own it |
| Camera and hardware encoder: `libcamera.rs`, `v4l2_encoder.rs` | one request for each buffer, `dmabuf_map`, jobs in the hardware | completed requests, the capture thread, `encode` and its callback | WebRTC's encoder threads, the camera |
| Codecs: `openh264.rs`, `codec.rs`, `video_codec_factory.rs` | none | `encode`, `decode`, selection | libraries |
| MoQ client: `momo-moq/src/client.rs`, `transport.rs` | the Session (sans I/O) under a Mutex, send halves by request, three queues of events | `next_event`, `pump_once`, `drain_events`, `tick`, requests and replies | receiving tasks of the streams, the relay |
| MoQ publisher: `publisher.rs` | writers of three tracks, catalog pending | frames in, requests served, `finish` | client, media threads |
| MoQ subscriber: `subscriber.rs` | permits, backlogs, decoder tasks | catalog fetch, subscribe, streams in, player | client, decoders, player |
| Start-up: `main.rs`, `cli.rs`, `config.rs` | none after start | parse, construct | – |

### What is hard here

- **Bounded channels in circles.** The Ayame signaling task waits for room in the
  notification channel while `connect_once` waits for room in the command channel;
  the device waits for momo to read while momo's bridge waits for the device;
  `request_stop_sending` waits for a task that waits for its caller.
- **Callbacks on foreign threads.** WebRTC observers queue commands with
  `blocking_send`, at any moment relative to the tasks.
- **Await with state in the hand.** `collect_stats` drains the registry, awaits, and
  writes it back; `process_offer` makes a peer over three awaits; `drain_events`
  removes a send half over an await.
- **Reconnects.** A late message, task, bridge or flag of one attempt meets the next.
- **Timeouts.** The watchdog fires once; `tick` runs only in some of the loops; a camera
  buffer is given back after one second, whoever still reads it.
- **Loans.** A camera buffer passes from the camera to a thread, a map, an encoder and the
  hardware, and must come back along every path; permits and the backlog of the subscriber
  likewise; the transport of WebRTC is lent to threads that outlive calls.

### What makes each component correct

- Ayame: description before candidate, register before everything, no attempt is
  stuck for good, the back-off counts what it says it counts.
- Metrics: no running session drops off the list or out of a response; sessions that
  are over leave; one stalled client is the only thing that can block.
- P2P: candidates and answers go to the peer of their own offer, none is lost; no peer
  outlives the page's connection.
- Serial: what is sent arrives in whole messages; a bridge whose channel is closed
  ends as soon as it gets to read again.
- Sora and display: the window shows the tracks there are; the end of one thread ends
  the other; the back-off as documented.
- MoQ: each request is answered exactly once; a stream that stalls delays only itself;
  timestamps increase; what waits to be shown is bounded; shutdown says goodbye on every
  track and ends the program.
- Camera: the hardware reads the frame it was asked for; no buffer is lost.
- Audio devices: no callback meets a transport that is gone, no call waits for ever.

## 2. Modules

| Module | Kind | Models |
|---|---|---|
| `ReconnectLoop` | abstract | what a reconnecting client promises |
| `AyameClient` | detailed | the whole Ayame mode |
| `AyameReconnect` | refinement | `AyameClient` implements `ReconnectLoop` |
| `AyameClient_proofs` | proofs | types, both orders, the refinement |
| `SoraClient` | detailed | Sora mode with `--player`; contains its refinement mapping to `ReconnectLoop` |
| `SoraClient_proofs` | proofs | types, the window, the refinement |
| `Metrics` | detailed | the registry and the sessions of all modes that answer it |
| `Metrics_proofs` | proofs | types and three safety properties |
| `SubscribeRun` | abstract | the life of the subscriber's `run`, as the rest of the program relies on it |
| `MoqSubscriber` | detailed | `run` of `momo-moq subscribe` with its client; shown to implement `SubscribeRun` |
| `MoqStreams` | composition | the tasks of the data streams and the player, on top of `SubscribeRun` |
| `MoqSubscriber_proofs` | proofs | types, `SubscribeRun`, the exact count and the bound of the frames that wait |
| `CaptureBuffers` | detailed | camera, capture thread, `dmabuf_map`, V4L2 encoders |
| `CaptureBuffers_proofs` | proofs | types, the map, what the hardware reads |
| `AudioDevice` | detailed | the audio device module, its devices, WebRTC's worker, its owners |
| `AudioDevice_proofs` | proofs | types, the life of the transport, the flag of the playout |
| `P2PSession` | detailed | the page, one session, its WebRTC thread |
| `SerialBridge` | detailed | several bridges, one tty, a device |
| `P2PSession_proofs` | proofs | types, the three safety properties of the session; types of the bridges |
| `MoqClient` | part | queues between the MOQT session, the streams and the task; extended by `MoqPublisher` and `MoqSubscriber` |
| `MoqPublisher` | detailed | `momo-moq publish` with the relay and the capture threads |
| `MoqPublisher_proofs` | proofs | types and all six safety properties of the publisher |

Operators that bear the name of an action with a suffix, and are introduced by
"Mutant of", are not part of any specification: each is a plausible slip in that
action, and replacing the action by it must make TLC find a property violated.

### 2.1 `AyameClient`

`main` is the place of `run`/`connect_once`, one value per await or per call that can
block; `sig` the place of `run_signaling_loop`, `held` the notifications it is sending
(a `notify_tx.send().await` that has not got its room); `dog` and `expired` the watchdog;
`cpp` the command the WebRTC thread is blocked on. `Return(base)` is the end of
`connect_once` with the drop of everything the attempt owned, plus the computation of
the wait from the counter, as it stands in `run`. `CmdSend` needs room, and
`CmdSendOrIgnore` is `let _ = tx.send(…)`, which also succeeds on a closed channel.
`CmdClosed` from `sig = "ending"` on: `run_signaling_loop` owns the receiver and has
returned. SDP operations need the WebRTC thread (`WebRtcReady`).

Abstracted: frames are their kinds, `ReadFrame` chooses among all of them at any time
(the server may say anything); a deadline expires whenever it likes, so the arithmetic
of `Watchdog` is left out. The WebSocket library is taken to end a stream with an error
or an end, to refuse data outside the open state, and to answer `close` as its callers
assume. Not modelled: a write to the socket that blocks, the ping/pong timers, the error
of an URL that does not parse, and a signaling task that is still in its handshake when
`connect_once` has returned (it owns nothing of the next attempt).

### 2.2 `SoraClient`

`loop` is the thread "sora": `prepare`, the check of `stop`, `connect`, the wait, and the
two sends that tell the main thread. The handler's callbacks run one at a time while
`connect` runs, as the comment on `SoraEventHandler` says, and go with it. A sink
is identified by its channel: `registry` holds (track id, sending end), `cells` (track id,
receiving end), `cmds` the commands between. `main` is the display loop, then `stop`,
then `result_rx.recv()`. `orphans` is a history variable: sinks of connections that are
over. The 500 ms slices of a wait are one step that may come at any time.

The window is never told that a connection is over: cells of its tracks stay, with their
last frame, unless the same ids come back. No text of the repository promises otherwise;
`CellsShowTracks` is stated so that it names them.

### 2.3 `Metrics`

`collect_stats` is `Lock`, one `Ask` per provider (await room in its channel with the lock
held, or find it closed), `Unlock`, one `Collect` per reply, `Respond`. A session is
`ready` at its select, `busy` elsewhere; a oneshot it has received is `reporting` until
the callback of `get_stats` comes. A Sora provider (`Detached`) has a stats task of its
own, whose receiver outlives the session. `Stalled` are sessions whose client may stop
reading for ever, so that a write in the session never ends.

### 2.4 `P2PSession`

Connections are numbered by the page's `connect()`; messages carry the number for the
properties only. The page's promises are the stages `creating`, `setting`, `offered`,
`stable`; `chain` holds answers whose `setRemoteDescription` waits in the connection's
operation queue. Promises of a connection do not settle after `close()` (WebRTC). The session
reads nothing between `TakeOffer` and `SendAnswer`/`OfferRefused`, since `handle_signaling`
is awaited; `making` is its local peer, `peer` the stored one. Left out: the `register` and
`answer` branches (the page never sends them), static files, the WebSocket's own timers.

### 2.5 `SerialBridge`

One tty, several bridges: each "serial" DataChannel opens the device anew. A message is
`Parts` writes. `Break` is the end of the task in all its forms; that of a channel which is closed
is a send that fails, since `on_state_change` does nothing. The device is one thread that may
answer each write at once, for which it needs room on the line.

### 2.6 `MoqClient` and `MoqPublisher`

`MoqClient` has the state of `MoqtClient` and one operator per thing it does; it has no
`Next` of its own, because the task that calls it is the publisher's or the subscriber's. `bidi` is `bidi_rx`,
filled by one receiving task per stream, which waits when the channel is full; `halves`
is `bidi_sends`, `closed` is `closed_request_streams`, and `requests`, `updates` and
`goaway` are the three queues of `next_event`, emptied in that order. `own` is what the
Session says of a subscription of ours. `Pump` is `pump_once`; every call into the session
ends with `drain_events`, the last step of which is `cleanup_closed_requests` (`Drained`:
which of the closed streams are through is the Session's choice). Histories: `asked`;
`replied`, what has an answer on the wire; `dropped`, answers of the application that were thrown away;
`refused`, requests the Session has refused by itself, `lost` those of them whose refusal never
reached the wire; `rejected`, requests the application has answered with the last word.

The Session of the `moqt` library is external: the model takes from its use in `client.rs`
that it may refuse a request by itself, refuses a second answer, and may close the session at
a `tick`. An await within `drain_events` inside a `select!` may be dropped: the third case of
`RecvRequest` is the refusal that is `lost` then. The request is queued for the application before that
await, and what the application answers to it later is an error that ends `run`.

`MoqPublisher` has the task of `run` in `pc`: `setup` and `await` are `publish_track` of each
track (`awaiting`), `idle` is the select, `send`, `packets` and `fetch` are handlers that
have I/O left to do, `finish` is `finish` with the calls that are `left`. A handler runs to its end
before the next select; only `publish_track` takes messages meanwhile. `streams` are the
subgroup streams in the order of their opening, with what the writer keeps (`prev`,
`skipped`) and what the wire shows (`header`, `objects`, `end`); `passed` is the history of
the filter. The filter may say either for any object, since it depends on the relay.
`TimestampConverter` is `Convert` and `Advance`, with None as -1.

Abstracted: payloads, names and properties; capture times and lengths are small numbers.
The video encoder gives one frame, or none, for each it is given; the audio encoder gives one for
each packet. Reply to a FETCH is one step on a stream of its own. `Fail` stands for any
error of an encoder or a stream; it ends `run` without `finish`, as in the code.
Not modelled: `establish`, the building of encoders and devices, the bytes of `transport.rs`
and `quic.rs`, and that a write to a stream can block.

### 2.7 `SubscribeRun`, `MoqSubscriber` and `MoqStreams`

The subscriber is modelled in two parts that meet in `SubscribeRun`, since their product is
too large to check and neither looks into the other. `SubscribeRun` has the phase of `run`,
whether the connection is open, and whether the session has closed without `run` knowing.

`MoqSubscriber` is `run`: `todo` are its own requests still to be made and waited for or, in
the end, to be stopped; `pc` is `await` (the wait for an answer), `catalog` (the streams
`receive_catalog` takes), `loop`, `stop` and `ack` (`stop_sending` and its wait for the
receiving task), `done` or `failed`. `task` has the receiving task of each request: `holding` is
`tx.send` on a full channel, in which no command is heard, so that only `GiveUp` (one second)
ends the wait. The select of that task is biased, hence `Commanded`.

`MoqStreams` has `accept_streams` in `acceptor`, the task of each stream in `mode`: `accepted` waits
for a permit, `head` for type and header, `decode` reads objects, `hold` has counted a frame and not
sent it yet, `drain` reads for nothing. A failed `run` leaves the acceptor behind (`RunFails`), one
that ends well aborts it. `SendersAlive` is what keeps `video_rx` from being disconnected.
Which frame the player draws when is left out; that a frame was taken and not yet counted off
is not (`count`). After `Exit` the runtime, and all with it, is gone.

### 2.8 `CaptureBuffers`

`at` says who has the request of each buffer: the camera, the channel to the capture thread,
the thread, or nobody any more (`forgotten`: reported without a frame; `cancelled`; `refused`:
`requeue_request` failed). `native` is the mode, chosen at the start. A frame is its time stamp. The
thread is in `check` where it looks at `stop`, in `recv` while it waits up to 100 ms for a completed
request (a `stop` set meanwhile is seen in the next turn), in `feed` after it has put the entry into the map, in `wait` at `recv_timeout`, in
`back` before it takes out what is left and queues the request. `pending` is the frame that
WebRTC will ask an encoder to encode: any encoder may get it, skip it, or come late. `jobs` is what
the hardware reads; `late` is a history of waits that were given up. Jobs that are dropped with their encoder
count as ended: the library is taken to stop the hardware first.

### 2.9 `AudioDevice`

`rec` and `play` are the callbacks of microphone and loudspeaker, `call` the call WebRTC's worker is
in; calls come one at a time. `Locked` is the mutex of the transport, which only the loudspeaker holds for
long. `owner` is an engine (p2p, Ayame), whose fields are dropped in the order of their
declaration, or `connect` (Sora), which drops its devices after the client. External, and taken
from how the code uses it: WebRTC opens a playout device only while it is not playing, and a
device that is dropped waits for its callback; `waits` is whether stopping one does, for which both
answers are checked.

## 3. Runs

All instances are small on purpose; the constants that bound them are commented
in the modules. Deadlock checking is off only where the modelled system may really come
to rest (finite users' input is spent, the program has ended, or, in `Ayame`, the
blockage that the properties name).

| Run | Question | Bounds and why they are enough |
|---|---|---|
| `Ayame` | With a server that answers and may flood: order on the wire, is `connect_once` ever stuck, does each way to lose a connection lead to a new attempt, is `ReconnectLoop` implemented? | both channels 1 and 2 frames, so that both channels and `held` are full at once; 1 candidate; counter to 3, so that the wait reaches its limit of 30 s and the saturation |
| `AyameStalledHandshake` (violation) | Is a connection past its deadline closed? | no frames needed |
| `SoraClient` | Does the window show the tracks; do both threads end; does the loop implement `ReconnectLoop`? | two tracks, four sinks (a replacement while another connection's cells are left), two commands under way |
| `Metrics` | Is a session lost, left out or kept; what can block? | one session that may stall, one detached, two requests: a head-of-line block needs two |
| `P2PSession` | Crossed exchanges over reconnects | three connections, one candidate per side and connection: an old answer, a stale candidate and a new offer at the same time |
| `SerialBridge` | Two bridges and a device | two messages of two writes per channel, a line of two chunks and one write: both lines full while both bridges write |
| `MoqPublisher` | Do streams tell the truth about their groups, is each question settled once, does PUBLISH_DONE come last? | one request and one update, a channel of 2 messages (an update may overtake the end of its stream only in `next_event`, never in the channel), capture channels of 1 (always nearly full), pieces of 1 and 3 samples with packets of 2 (a piece may give none, one or two packets), capture times 0 and 1 (equal and out of order), three inputs shared by frames, questions, ended streams and GOAWAY |
| `MoqSubscriber` | Does `run` keep `SubscribeRun`, is the relay answered? | one track and the FETCH, one question and one update, a channel of one message: the task that must be stopped is blocked on it |
| `MoqStreams` | Is the backlog exact and bounded, what does a stalled stream cost, does the program end? | three groups of video and one of audio, two permits, one stream that may stall, a limit of 0 and one object in a group: a third group meets both permits taken, and two groups exceed the limit together |
| `CaptureBuffers` | What does the hardware read, do buffers come back? | two buffers, two encoders, three frames: a late encoder meets a buffer that has been filled again |
| `CameraStall` (violation) | Is the buffer of a start-up frame queued again? | one encoder |
| `AudioDevice` | Transport, calls and drops | no bounds: one device of each kind |

### Properties

- `SdpBeforeCandidate`: order on the wire of one attempt, with three writers.
- `ConnectOnceComesBackUnlessFull`, `FiredWatchdogReconnectsUnlessFull`,
  `EndedTaskReconnects`: progress with a server that may flood. The only way to be stuck, or to lose a
  fired watchdog, is both channels full, for good. The flood therefore can stop the client;
  TLC shows it if the exception is taken out.
- `Reconnects` (Ayame, Sora): the refinement, including that every wait ends.
- `CellsShowTracks`, `ClosedWindowEndsProgram`, `EndedLoopEndsProgram`.
- `NoProviderLost`, `EveryoneAsked`, `EndedProvidersLeave`, `RegistersUnlessHeadOfLine`,
  `AnsweredUnlessStalled`.
- `CandidateToItsPeer`, `PeerIsCurrent`, `CandidatesKept`,
  `AnsweredUnlessHurried`. The last one's exception is real: a user who reconnects while
  an offer is under way may be given the old answer.
- `BacklogWrittenUnlessBothFull`: the device and the bridges block each other only if both lines are
  full. `ClosedBridgeEndsUnlessUnread`: a bridge whose channel is closed, by a reconnect or a page that
  is gone, ends. It may stay only if it never gets to read again: the device is silent for good,
  a bridge whose channel is open takes what it says, or both lines are full. The first
  exceptions are real, against `serial.rs:145`.
- `GroupsClosedHonestly`: whatever the filter drops, the receiver computes the right object
  ids, the header is right about object 0, and FIN means that the group is complete.
- `VideoInOrder`: catalog first, and timestamps that grow over groups, over the frames that
  waited for the catalog and over equal capture times. `AudioConfigFirst`: as it says, with a
  filter that drops the first packets.
- `EachAnsweredOnce`: each question of the relay is in one place, on its way, in a queue, answered or
  its answer thrown away. It holds of those the session has refused by itself as well: if the refusal is
  lost in a dropped future, the request is still in the queue. `AnswersReachOpenStreams`: the
  application's answer is thrown away only when the relay has ended the stream, or when the question
  is an update of a request that momo's side has refused and so closed. `SettledUnlessSilent`:
  a question is settled or the program ends. A lost refusal settles nothing, so that the program must
  end then, and does: its own answer to that request fails. The exception is real: a relay that
  never answers a PUBLISH stops everything else.
- `DoneAfterStreams`: the last word of a track, also when the last stream fails to finish.
- `RunAsPromised`: the subscriber's goodbyes end although they wait for tasks that wait for
  `run`. `RelayIsAnswered`: what the relay asks for in the loop is answered.
- `BacklogIsExact`, `BacklogIsBounded`: what several tasks and the player count without a lock
  never drifts, and the limit that is looked at once in a group bounds it together with
  the permits. `StreamsServed`: fewer stalled streams than permits delay nobody else.
  `ProgramEnds`: with the exception of a failed `run` whose acceptor lives on with its
  connection, which is real.
- `ReadsItsFrame`: no buffer is written while the hardware reads it, except after the wait of one
  second was given up, which is real too. `FramesReturn`: in the code as it is, for
  frames; not for reports without one (finding 2).
- `TransportOutlivesUse`: the loudspeaker is safe by its mutex, the microphone by the order of the
  drops, which `connect` of the Sora mode does not keep: there a late delivery is possible.
  `CallsReturn`, `PlaybackReleased`: no circle of mutexes and callbacks, none of references.

A type invariant or another invariant that is proved for every value of the constants
(section 4) takes no part in the runs: `RegisterFirst`, `MapHoldsFrameAtHand`, `PlayingPlays`
and the type invariants of most modules with a proof module.

### Findings

1. `AyameStalledHandshake`: the watchdog cannot end a TLS handshake that hangs, since its
   Close is read only after it (`ayame/signaling.rs:334`, against `ayame.rs:405-407`).
2. `CameraStall`: a completed request without a usable frame, which the comment at
   `libcamera.rs:184` says is only queued again, is not (`libcamera.rs:242` has no else): each takes a
   buffer out of the camera for good.

Met while modelling, and not the subject of a run that refutes them: the stats task of a Sora connection
outlives it, so that its provider is never removed (`sora.rs:779`, against `metrics.rs:49`); a
closed DataChannel does not end its bridge while the device is silent, or while another bridge takes
what it says (`serial.rs:135`, where `on_state_change` is empty, against `serial.rs:145`), which are the
exceptions `ClosedBridgeEndsUnlessUnread` names; the refusal of the MOQT session may be lost in a
dropped future, which ends the publisher; the first audio packet bears the first capture time plus one packet, as
`advance` adds before it returns (`publisher.rs:684`, against `publisher.rs:670`); the wait for the
answer to a PUBLISH has no time limit, since `tick` runs only in the select of `run`
(`client.rs:706`, against `publisher.rs:60`); each reconnect of the Sora mode with the fake device
leaves a rendering thread behind (`fake.rs:380`). Met while reading: an error between the upgrade and the
accept of an Ayame connection is counted as a failure (`ayame.rs:266`), which
`docs/MOMO.md:90` and the comment at `ayame.rs:131` read differently; and a REQUEST_UPDATE that
arrives while `publish_track` waits is handed out before the request it updates
(`client.rs:752-757`, comment at `client.rs:65-68`).

### Fairness

Weak fairness of each task and thread: tokio and the operating system schedule what is
ready. Strong fairness only where the code says `select!`, which takes a ready branch at random:
the stats branch (`TakeRequest`), the reads of a session and `Forward`, `TakeMessage` of a bridge;
the branches of the publisher's select (`NextEvent`, `TakeVideo`, `TakeAudio`);
and for the device, which goes on taking whenever it again and again can. The task of the
publisher is weakly fair in its handlers (`Handler`). Nothing is assumed of users, the relay,
capture threads, the camera, the hardware encoder, candidates, failures or the end of a connection.
In `MoqStreams` a stream outside `Stalling`, or one whose connection is gone, comes to an end; in
`CaptureBuffers` the capture thread runs and its timer does. In `AudioDevice`, who waits for
the mutex of the transport gets it when it is free again and again (strong fairness):
`std::sync::Mutex` promises no order, but both devices leave it alone for most of ten milliseconds.
Of an Ayame server it is
assumed that it answers the handshake and ends a stream it was asked to close, unless the constant
`Stalls` takes that away (`connect_once` reads on until that end without a limit of its own, so that
with "close" in `Stalls` it may wait for ever, and TLC shows it); the runs take away what their question is about.

## 4. Proofs

Assumptions are those the modules state of their constants (capacities at least 1, bounds
natural numbers, `Detached` and `Stalled` disjoint); TLC evaluates them in the runs.

- **`AyameClient_proofs`**: `TypeCorrect`; then `SdpGoesFirst` and `RegisterGoesFirst` from one
  inductive invariant, `OrderInv`. The wire alone is not inductive: it needs that a
  candidate in the queue has a description in the queue before it or on the wire already
  (and likewise the register), that a candidate held by the WebRTC thread exists only
  after a description was queued, and that nothing is queued once the receiver is gone.
  `BacksOff`: initial states and steps of `ReconnectLoop`, with a lemma for the end of an attempt
  and one for the steps within.
- **`SoraClient_proofs`**: `WindowShowsTracks` from `WindowInv`: for each id, the last command
  under way about it decides what will be in the window, and the cells do if there is none;
  either must agree with the registry. `BacksOff` as above.
- **`Metrics_proofs`**: one inductive invariant of seven parts: types, the histories, who holds
  the lock and what is empty while nobody does (`LockInv`), `NoProviderLost`, what an asking
  request has asked so far (`AskingInv`), and the two properties that follow.
  `ProvidersKept`, `ResponseComplete`, `EndedRemoved`.
- **`P2PSession_proofs`**: none of the three safety properties is inductive: a candidate that
  reaches the wrong peer was put on its way many steps before. The invariant (`Inv`) describes
  the whole socket. Nothing in it is of a connection still to come (`Numbered`); each candidate
  of the page follows its offer or another candidate of it, and one at the head belongs to the
  offer momo took last (`CandidatesFollow`); the last message says what the page is at, so that
  momo's peer agrees with the page as soon as the socket is empty (`LastWord`); only an offered
  connection gathers (`Gathers`); a session that is over has nothing left (`Silent`). Of the way
  back, the page holds candidates only until it has the answer (`Buffered`), and those of
  momo's peer are counted wherever they are: on the wire, held or added (`Counted`).
  `CandidatesReachTheirPeer`, `PeerFollowsPage` and `NoCandidateLost` follow.
  The bridges of the serial mode share nothing with the session; that their types are right
  (`SerialTypeCorrect`) stands in the same module.
- **`MoqPublisher_proofs`**: `TypeCorrect` has the bounds of the capture channels and, among its
  conjuncts, that a handler which sends has something to send and that the writer's index
  is a stream. `DoneComesLast` is not inductive: it rests on `EndInv`, which says that no
  stream but the writer's is open unless an error has ended the program (`ClosedInv`), that
  nothing is done before `finish`, and that `finish` puts the writer before the tracks, so that
  it is gone when the first PUBLISH_DONE is sent. `ConfigComesFirst` from `ConfigInv`:
  `configSent` says exactly whether a sent audio object exists, and writes to the
  stream under way never touch an audio stream (`WriterInv`).
  `AnsweredOnce` from `OnceInv`: for every question, asked or not, the number of places it is in
  (the channel, the two queues, answered, thrown away) is one if it was asked and none if not;
  the lemmas on `Amount` say how many elements of a queue are in a set when one comes or goes.
  `AnswersDelivered` is an action property: what is thrown away was for a stream that is over, or
  an update of a request that was refused, by the session or by the application.
  It rests on `HeldInv` (the stream of whatever waits in a queue of the application is `known`: its
  half is still there, or it is over, `refused` or `rejected`, and cleanup is offered only
  streams that are over) and, for that, on `BidiInv`: an update in the channel stands behind
  the request that opens its stream.
  `VideoGrows` from `OrderInv`: the frames that wait, in `pending` or in the handler's `todo`,
  are in order, newer than all that were sent and no newer than the last one encoded; `pending`
  is empty once the catalog is out, so that only one of the two is in use.
  `GroupsTrue` from `HonestInv`: a stream is honest from its first byte on (`Honest`), which needs,
  beyond the property, that `prev` is the id of the last object, `skipped` tells whether the filter or
  a failed write has left one out, and only the writer's stream is appended to. The ids a receiver computes
  are a function that satisfies the rule of the deltas (`Decodes`), and the proof
  gives the next one of them, so that no induction over the objects is needed.
- **`MoqSubscriber_proofs`**: `RunKeepsItsPromise` shows, action by action, that `run` implements the
  safety part of `SubscribeRun`; it needs the types, and that `expired` is a Boolean (`RunInv`). The
  theorems on the streams start from `SubscribeRun`. The bound on the backlog is not inductive: a group that was taken
  may still turn all its objects into frames. `RoomIsLeft` adds the objects that streams being
  decoded have not read (`Unread`, a set of pairs, so that their number is a cardinality):
  each frame that is counted takes one away, and a group is taken with at most `Limit` frames
  waiting, when at most `Permits * MaxObjects` objects are unread (`PermitsHeld`). `BacklogCounts`
  from the same invariant.
- **`CaptureBuffers_proofs`**: `ReadsItsOwnFrame` rests on where the frame at hand may be: in the
  map, with one encoder or in one job, never in two (`OnePlace`), so that an answered wait leaves
  nothing behind; what an encoder or the hardware still has after it is `late` (`TakenIsHeld`).
  `FramesAreFresh`: time stamps are not reused, `ChannelIsHeld`: no buffer is reported twice.
- **`AudioDevice_proofs`**: `TransportOutlives` from what is registered exists
  (`TransportExists`) and the order of the drops (`MicrophoneFirst`).

All safety properties of the runs are theorems. Model-checked only: everything under fairness, the
liveness half of the refinements among it, and the `ENABLED` that fairness and
leads-to rest on (out of the prover's reach). These are the answers that come in the end
(`AnsweredUnlessHurried`, `SettledUnlessSilent`, `RelayIsAnswered`, `AnsweredUnlessStalled`), the ends of
programs, tasks and calls, and the frames and buffers that return. `MoqPublisher` and
`MoqSubscriber` make different assumptions on `Own` (what their program asks for), so that the lemmas on
the client they share are stated for each where they are needed.

## 5. Not modelled

- Start-up, arguments, URLs and configuration (`main.rs`, `cli.rs`, `config.rs`, `url.rs`):
  sequential, no state afterwards. The parsing of camera controls, more than half of `libcamera.rs`,
  likewise.
- Codec selection (`codec.rs`, `video_codec_factory.rs`): pure functions of capability lists.
- OpenH264, `h264.rs`, `opus.rs`, `catalog.rs`: conversions of data by libraries and parsers.
- The two atomic steps of `Watchdog::arm` (`ayame.rs:428`), which race with `on_connected`: the 30
  seconds a ping has loaded may be stored over the 60 of `on_connected`, until the next ping. The
  deadline of `AyameClient` is a free step, which allows both.
- Frames and layout of the window; the frame channel of `display.rs`, whose `try_send` keeps the
  oldest frame.
- The callback of the V4L2 encoder into WebRTC: whether it may run during `release`
  (`v4l2_encoder.rs:383`) is decided by a library.
- Whether the WebRTC thread that starts a serial bridge has a tokio context is outside this
  repository; the model takes the comment at `serial.rs:169` for it.

## 6. Plan

1. Done: `ReconnectLoop`, `AyameClient` with its refinement, `Metrics`, `P2PSession`,
   `SerialBridge`, `SoraClient` and their proofs.
2. Done: `MoqClient`, `MoqPublisher`; `SubscribeRun`, `MoqSubscriber`, `MoqStreams`;
   `CaptureBuffers`; `AudioDevice`, each with proofs.
3. Done: the safety properties of `P2PSession`, `MoqPublisher` and the subscriber's `run`, for
   every value of the constants.
4. The watchdog's two atomics; the frame channel of `display.rs`; `establish` of the MoQ client.
