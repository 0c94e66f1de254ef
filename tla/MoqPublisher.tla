------------------------------ MODULE MoqPublisher -----------------------------
(***************************************************************************)
(* momo-moq publish (momo-moq/src/publisher.rs): the capture threads, the  *)
(* one task of run with its encoders and subgroup streams, and the relay   *)
(* at the other end.                                                       *)
(*                                                                         *)
(* The task is a loop over a select of four branches; the handler of a     *)
(* branch runs to its end before the next select, and only publish_track,  *)
(* which waits for the relay, lets it take messages meanwhile.  Payloads   *)
(* are left out; a timestamp is a number, in units of the timescale.       *)
(***************************************************************************)
EXTENDS MoqClient, Integers

CONSTANTS
  VideoCap, AudioCap,  \* capacities of the capture channels
  PacketLen,           \* audio_samples_per_frame
  Pieces,              \* the lengths a captured piece of audio may have
  MaxInputs,           \* bound: frames captured, questions, closed streams and GOAWAYs
  MaxTime              \* bound: capture time, in units of the timescale

ASSUME PublisherAssumption ==
  /\ Own = {"video", "audio", "catalog"}
  /\ {VideoCap, AudioCap, PacketLen} \subseteq Nat \ {0}
  /\ Pieces \subseteq Nat
  /\ {MaxInputs, MaxTime} \subseteq Nat

VARIABLES
  sources,    \* what publish was asked for (config.video, config.audio)
  pc,         \* where the task of run stands
  awaiting,   \* the track publish_track was last called for
  captured,   \* frames captured, by kind
  videoCh,    \* video_rx: capture times
  audioCh,    \* audio_rx: capture times and lengths
  codec,      \* video_codec is known
  ready,      \* catalog.ready, and with it catalog.bytes and request_id
  pending,    \* pending_video
  todo,       \* encoded frames the handler has still to send
  videoLast,  \* video_timestamps.last
  audioLast,  \* audio_timestamps.last
  pcm,        \* samples in audio_pcm
  configSent, \* audio_config_sent
  writer,     \* video_writer: an index of streams; 0 is None
  streams,    \* the subgroup streams, in the order they were opened
  left,       \* what finish has still to do
  done        \* PUBLISH_DONE sent, by track, with its stream count

queues == <<videoCh, audioCh>>
video == <<codec, pending, todo, videoLast>>
audio == <<audioLast, pcm, configSent>>
vars == <<clientVars, sources, pc, awaiting, captured, queues, ready, video, audio, writer,
          streams, left, done>>

Tracks == {"video", "audio", "catalog"}
None == -1
Times == 0..MaxTime
Outputs == [ts : Nat, key : BOOLEAN]
\* A stream as SubgroupWriter keeps it (prev, header, skipped) and as the wire shows
\* it (header, objects, end); `passed` is the history of what the filter said.
StreamRecords ==
  [track : Tracks, prev : Int, skipped : BOOLEAN, header : {"none", "first", "later"},
   objects : Seq([delta : Int, ts : Int, config : BOOLEAN]),
   passed : Seq(BOOLEAN), end : {"open", "fin", "reset", "failed"}]

PublisherTypeOK ==
  /\ sources \subseteq {"video", "audio"}
  /\ pc \in {"await", "setup", "idle", "send", "packets", "fetch", "finish", "ended", "failed"}
  /\ awaiting \in Tracks \cup {"none"}
  /\ captured \in [{"video", "audio"} -> Nat]
  /\ videoCh \in Seq(Times) /\ Len(videoCh) <= VideoCap
  /\ audioCh \in Seq([at : Times, len : Pieces]) /\ Len(audioCh) <= AudioCap
  /\ {codec, ready, configSent} \subseteq BOOLEAN
  /\ pending \in Seq(Outputs) /\ todo \in Seq(Outputs)
  /\ {videoLast, audioLast} \subseteq Nat \cup {None}
  /\ pcm \in Nat
  /\ writer \in 0..Len(streams)
  /\ streams \in Seq(StreamRecords)
  /\ left \in Seq(Tracks \cup {"writer", "goaway", "close"})
  /\ pc = "send" => todo # <<>>
  /\ pc = "packets" => pcm >= PacketLen
  /\ pc = "finish" => left # <<>>
  /\ done \in [Tracks -> Nat \cup {None}]

TypeOK == ClientTypeOK /\ PublisherTypeOK

Over == pc \in {"ended", "failed"}

--------------------------------------------------------------------------------
(* TimestampConverter.                                                     *)

\* Mutant of Convert: the time is taken as it comes.
ConvertPlain(last, t) == t
Convert(last, t) == IF last # None /\ t <= last THEN last + 1 ELSE t

Advance(last, delta) == IF last = None THEN 0 ELSE last + delta

--------------------------------------------------------------------------------
(* SubgroupWriter.                                                         *)

NewStream(t) ==
  [track |-> t, prev |-> None, skipped |-> FALSE, header |-> "none", objects |-> <<>>,
   passed |-> <<>>, end |-> "open"]

\* Mutant of Write: the delta is counted from the objects that were sent.
WriteCountingSent(s, pass, ts, config) ==
  LET id == Len(s.passed)
  IN IF pass
     THEN [s EXCEPT !.passed = Append(@, TRUE), !.prev = id,
                    !.header = IF @ = "none" THEN IF id = 0 THEN "first" ELSE "later" ELSE @,
                    !.objects = Append(@, [delta |-> 0, ts |-> ts, config |-> config])]
     ELSE [s EXCEPT !.passed = Append(@, FALSE), !.skipped = TRUE]

\* write_object: next_object_id is the number of objects offered so far, and with
\* None as -1 both cases of object_id_delta are one.
Write(s, pass, ts, config) ==
  LET id == Len(s.passed)
  IN IF pass
     THEN [s EXCEPT !.passed = Append(@, TRUE), !.prev = id,
                    !.header = IF @ = "none" THEN IF id = 0 THEN "first" ELSE "later" ELSE @,
                    !.objects = Append(@, [delta |-> id - s.prev - 1, ts |-> ts,
                                           config |-> config])]
     ELSE [s EXCEPT !.passed = Append(@, FALSE), !.skipped = TRUE]

Close(s) ==
  [s EXCEPT !.end = IF s.header = "none" \/ s.skipped THEN "reset" ELSE "fin"]

--------------------------------------------------------------------------------
(* The relay and the capture threads.                                      *)

Environment == UNCHANGED <<sources, pc, awaiting, ready, video, audio, writer, streams, left, done>>

MoreInputs ==
  captured["video"] + captured["audio"] + Cardinality(asked) + Cardinality(over)
    + (IF control = "none" THEN 0 ELSE 1) < MaxInputs

Peer ==
  /\ ~Over
  /\ \/ \E o \in Own : PeerAnswers(o)
     \/ /\ MoreInputs
        /\ \/ \E r \in Requests : PeerAsks(r)
           \/ \E u \in Updates, s \in Streams : PeerUpdates(u, s)
           \/ \E s \in Streams : PeerEnds(s)
           \/ PeerControls
  /\ Environment /\ UNCHANGED <<captured, queues>>

\* A full channel drops the new frame (try_send).
Offer(ch, cap, x) == IF Len(ch) < cap THEN Append(ch, x) ELSE ch

Capturing == pc \in {"idle", "send", "packets", "fetch"} \/ (pc = "await" /\ awaiting = "catalog")

CaptureVideo ==
  /\ "video" \in sources /\ Capturing /\ MoreInputs
  /\ captured' = [captured EXCEPT !["video"] = @ + 1]
  /\ \E t \in Times : videoCh' = Offer(videoCh, VideoCap, t)
  /\ Environment /\ UNCHANGED <<clientVars, audioCh>>

CaptureAudio ==
  /\ "audio" \in sources /\ Capturing /\ MoreInputs
  /\ captured' = [captured EXCEPT !["audio"] = @ + 1]
  /\ \E t \in Times, n \in Pieces : audioCh' = Offer(audioCh, AudioCap, [at |-> t, len |-> n])
  /\ Environment /\ UNCHANGED <<clientVars, videoCh>>

--------------------------------------------------------------------------------
(* publish_track: connect publishes video and audio, publish_catalog the   *)
(* catalog.  While it waits messages are taken, but nothing is answered    *)
(* and no timer runs.                                                      *)

Init ==
  /\ ClientInit
  /\ sources \in SUBSET {"video", "audio"} \ {{}}
  /\ pc = "setup" /\ awaiting = "none"
  /\ captured = [k \in {"video", "audio"} |-> 0]
  /\ videoCh = <<>> /\ audioCh = <<>>
  /\ codec = FALSE /\ ready = FALSE /\ pending = <<>> /\ todo = <<>>
  /\ videoLast = None /\ audioLast = None /\ pcm = 0 /\ configSent = FALSE
  /\ writer = 0 /\ streams = <<>> /\ left = <<>>
  /\ done = [t \in Tracks |-> None]

media == <<sources, captured, queues, ready, video, audio, writer, streams>>
PublishTrack(t) ==
  /\ OpenRequest(t)
  /\ pc' = "await" /\ awaiting' = t

\* Without video the catalog is known from the start.
NextTrack ==
  IF awaiting = "none" /\ "video" \in sources THEN "video"
  ELSE IF awaiting \in {"none", "video"} /\ "audio" \in sources THEN "audio"
  ELSE IF "video" \in sources \/ awaiting = "catalog" THEN "none" ELSE "catalog"

SetUp ==
  /\ pc = "setup"
  /\ IF NextTrack = "none"
       THEN pc' = "idle" /\ UNCHANGED <<clientVars, awaiting>>
       ELSE PublishTrack(NextTrack)
  /\ UNCHANGED <<media, left, done>>

\* wait_subscription_resolved: a request the session has forgotten is waited for too.
Wait ==
  /\ pc = "await" /\ own[awaiting] \in {"pending", "forgotten"}
  /\ Pump(FALSE)
  /\ UNCHANGED <<pc, awaiting, media, left, done>>

Established ==
  /\ pc = "await" /\ own[awaiting] = "established" /\ awaiting # "catalog"
  /\ pc' = "setup"
  /\ UNCHANGED <<clientVars, awaiting, media, left, done>>

\* The rest of publish_catalog, and the frames that waited for it.  A filter that
\* drops the catalog ends the program.
PublishCatalog ==
  /\ pc = "await" /\ awaiting = "catalog" /\ own["catalog"] = "established"
  /\ \/ /\ streams' = Append(streams, Close(Write(NewStream("catalog"), TRUE, None, FALSE)))
        /\ ready' = TRUE
        /\ todo' = pending /\ pending' = <<>>
        /\ pc' = IF pending = <<>> THEN "idle" ELSE "send"
     \/ /\ streams' = Append(streams, Write(NewStream("catalog"), FALSE, None, FALSE))
        /\ pc' = "failed"
        /\ UNCHANGED <<ready, todo, pending>>
  /\ UNCHANGED <<clientVars, awaiting, sources, captured, queues, codec, videoLast, audio, writer,
                 left, done>>

--------------------------------------------------------------------------------
(* Video.                                                                  *)

\* handle_video_frame: a frame of a wrong size is dropped, and the encoder may keep
\* one; the first key frame makes the codec known and the catalog due.
TakeVideo ==
  /\ pc = "idle" /\ videoCh # <<>>
  /\ videoCh' = Tail(videoCh)
  /\ \/ UNCHANGED <<clientVars, pc, awaiting, video>>
     \/ \E key \in BOOLEAN :
          LET ts == Convert(videoLast, Head(videoCh))
              output == [ts |-> ts, key |-> key]
          IN /\ videoLast' = ts
             /\ codec' = (codec \/ key)
             /\ CASE ready ->
                       /\ todo' = <<output>> /\ pc' = "send"
                       /\ UNCHANGED <<clientVars, awaiting, pending>>
                  [] ~ready /\ codec' ->
                       /\ pending' = Append(pending, output)
                       /\ PublishTrack("catalog")
                       /\ UNCHANGED todo
                  [] OTHER ->
                       /\ pending' = Append(pending, output)
                       /\ UNCHANGED <<clientVars, pc, awaiting, todo>>
  /\ UNCHANGED <<sources, captured, audioCh, ready, audio, writer, streams, left, done>>

\* Mutant of Regroup: the stream of the group before is left as it is.
RegroupWithoutFinish(key) ==
  IF key THEN Append(streams, NewStream("video")) ELSE streams

\* A key frame finishes the stream of its group and opens the next one.
Regroup(key) ==
  LET finished == IF writer = 0 THEN streams ELSE [streams EXCEPT ![writer] = Close(@)]
  IN IF key THEN Append(finished, NewStream("video")) ELSE streams

\* send_video_object: before the first key frame there is no group.
SendVideo ==
  /\ pc = "send" /\ ~expired /\ own["video"] = "established"
  /\ LET o == Head(todo)
         opened == Regroup(o.key)
         w == IF o.key THEN Len(opened) ELSE writer
     IN /\ writer' = w
        /\ \E pass \in BOOLEAN :
             streams' = IF w = 0 THEN opened
                        ELSE [opened EXCEPT ![w] = Write(@, pass, o.ts, o.key)]
  /\ todo' = Tail(todo)
  /\ pc' = IF Len(todo) = 1 THEN "idle" ELSE "send"
  /\ UNCHANGED <<clientVars, awaiting, sources, captured, queues, codec, ready, pending, videoLast,
                 audio, left, done>>

--------------------------------------------------------------------------------
(* Audio.                                                                  *)

\* handle_audio_frame up to its loop; a piece of another format is dropped.  The
\* first piece sets the clock, the clock then counts packets.
TakeAudio ==
  /\ pc = "idle" /\ audioCh # <<>>
  /\ audioCh' = Tail(audioCh)
  /\ LET piece == Head(audioCh)
     IN \/ UNCHANGED <<pc, audioLast, pcm>>
        \/ /\ audioLast' = IF audioLast = None THEN Convert(None, piece.at) ELSE audioLast
           /\ pcm' = pcm + piece.len
           /\ pc' = IF pcm' >= PacketLen THEN "packets" ELSE "idle"
  /\ UNCHANGED <<clientVars, awaiting, sources, captured, videoCh, ready, video, configSent, writer,
                 streams, left, done>>

\* Mutant of SendAudio: the config counts as sent though the filter dropped it.
SendAudioOnce ==
  /\ pc = "packets" /\ ~expired /\ own["audio"] = "established"
  /\ audioLast' = Advance(audioLast, PacketLen)
  /\ pcm' = pcm - PacketLen
  /\ \E pass \in BOOLEAN :
       streams' = Append(streams, Close(Write(NewStream("audio"), pass, audioLast', ~configSent)))
  /\ configSent' = TRUE
  /\ pc' = IF pcm' >= PacketLen THEN "packets" ELSE "idle"
  /\ UNCHANGED <<clientVars, awaiting, sources, captured, queues, ready, video, writer, left,
                 done>>

\* One round of the loop, with send_audio_object: a packet is a group of its own.
SendAudio ==
  /\ pc = "packets" /\ ~expired /\ own["audio"] = "established"
  /\ audioLast' = Advance(audioLast, PacketLen)
  /\ pcm' = pcm - PacketLen
  /\ \E pass \in BOOLEAN :
       /\ streams' = Append(streams,
                            Close(Write(NewStream("audio"), pass, audioLast', ~configSent)))
       /\ configSent' = (configSent \/ pass)
  /\ pc' = IF pcm' >= PacketLen THEN "packets" ELSE "idle"
  /\ UNCHANGED <<clientVars, awaiting, sources, captured, queues, ready, video, writer, left,
                 done>>

--------------------------------------------------------------------------------
(* next_event and the timer.                                               *)

TakeMessage ==
  /\ pc = "idle" /\ NothingQueued
  /\ Pump(TRUE)
  /\ UNCHANGED <<pc, awaiting, media, left, done>>

\* Mutant of ServeUpdate: the answer closes the stream.
ServeUpdateLast ==
  /\ pc = "idle" /\ UpdateFirst
  /\ Reply(Head(updates).id, Head(updates).on, TRUE)
  /\ updates' = Tail(updates)
  /\ UNCHANGED <<requests, pc, awaiting, media, left, done>>

ServeUpdate ==
  /\ pc = "idle" /\ UpdateFirst
  /\ Reply(Head(updates).id, Head(updates).on, FALSE)
  /\ updates' = Tail(updates)
  /\ UNCHANGED <<requests, pc, awaiting, media, left, done>>

\* serve_request: a track is subscribed to, the catalog fetched once there is one,
\* anything else refused.
ServeRequest ==
  /\ pc = "idle" /\ RequestNext
  /\ LET r == Head(requests)
         ok == r.kind = "track" \/ (r.kind = "catalog" /\ ready)
     IN /\ Reply(r.on, r.on, ~ok)
        /\ pc' = IF ok /\ r.kind = "catalog" THEN "fetch" ELSE "idle"
  /\ requests' = Tail(requests)
  /\ UNCHANGED <<updates, awaiting, media, left, done>>

\* send_fetch_response: the object on a stream of its own.
SendFetched ==
  /\ pc = "fetch" /\ ~expired
  /\ pc' = "idle"
  /\ UNCHANGED <<clientVars, awaiting, media, left, done>>

RunTimer ==
  /\ pc = "idle" /\ Tick
  /\ UNCHANGED <<pc, awaiting, media, left, done>>

--------------------------------------------------------------------------------
(* The end.                                                                *)

\* An error ends run without finish: a call the session refuses, a message that
\* closes it, a rejected track.
Refused ==
  CASE pc = "await" -> control = "close" \/ own[awaiting] = "terminated"
    [] pc = "idle" -> \/ control = "close" /\ NothingQueued
                      \/ expired /\ (UpdateFirst \/ RequestNext)
                      \/ RequestNext /\ Head(requests).on \in refused
    [] pc = "send" -> expired \/ own["video"] # "established"
    [] pc = "packets" -> expired \/ own["audio"] # "established"
    [] pc = "fetch" -> expired
    [] pc = "setup" -> expired
    [] OTHER -> FALSE

Break ==
  /\ Refused
  /\ pc' = "failed"
  /\ UNCHANGED <<clientVars, awaiting, media, left, done>>

\* The same for an encoder or a stream that fails, at any time.
Fail ==
  /\ ~Over /\ pc # "finish"
  /\ pc' = "failed"
  /\ UNCHANGED <<clientVars, awaiting, media, left, done>>

\* GOAWAY, or a session its timer has closed.
Stop ==
  /\ pc = "idle" /\ EventLast
  /\ pc' = "finish"
  /\ left' = (IF writer = 0 THEN <<>> ELSE <<"writer">>)
               \o (IF ready THEN <<"catalog">> ELSE <<>>)
               \o (IF "video" \in sources THEN <<"video">> ELSE <<>>)
               \o (IF "audio" \in sources THEN <<"audio">> ELSE <<>>) \o <<"goaway", "close">>
  /\ UNCHANGED <<clientVars, awaiting, media, done>>

Count(t) == Cardinality({i \in 1..Len(streams) : streams[i].track = t})

\* finish: a call that fails is logged, and the next one is made.
Finish ==
  /\ pc = "finish"
  /\ left' = Tail(left)
  /\ LET call == Head(left)
     IN \/ /\ call = "writer" /\ writer # 0
           /\ \E s \in {Close(streams[writer]), [streams[writer] EXCEPT !.end = "failed"]} :
                streams' = [streams EXCEPT ![writer] = s]
           /\ writer' = 0
           /\ UNCHANGED done
        \/ /\ call \in Tracks /\ own[call] = "established" /\ ~expired
           /\ done' = [done EXCEPT ![call] = Count(call)]
           /\ UNCHANGED <<writer, streams>>
        \/ /\ call # "writer"
           /\ UNCHANGED <<done, writer, streams>>
  /\ pc' = IF Len(left) = 1 THEN "ended" ELSE "finish"
  /\ UNCHANGED <<clientVars, awaiting, sources, captured, queues, ready, video, audio>>

--------------------------------------------------------------------------------
NextEvent == TakeMessage \/ ServeUpdate \/ ServeRequest \/ Stop
Handler == SetUp \/ Wait \/ Established \/ PublishCatalog \/ SendVideo \/ SendAudio
             \/ SendFetched \/ Break \/ Finish

Next ==
  \/ Peer \/ CaptureVideo \/ CaptureAudio
  \/ TakeVideo \/ TakeAudio \/ NextEvent \/ RunTimer
  \/ Handler \/ Fail

\* select! starts at a random branch: none of its branches is passed over for ever.
Fairness == WF_vars(Handler) /\ SF_vars(NextEvent) /\ SF_vars(TakeVideo) /\ SF_vars(TakeAudio)

Spec == Init /\ [][Next]_vars /\ Fairness

--------------------------------------------------------------------------------
(* Properties.                                                             *)

Indices == 1..Len(streams)

\* ids are the object ids that a receiver of the stream computes.
Decodes(s, ids) ==
  \A k \in DOMAIN s.objects :
    ids[k] = IF k = 1 THEN s.objects[1].delta ELSE ids[k - 1] + s.objects[k].delta + 1

\* What a stream says of itself is true: the ids a receiver computes are those of the
\* objects the filter let through, in order; the header tells whether object 0 is the
\* first of them; and a stream ends with FIN only if the group is complete.
GroupsClosedHonestly ==
  \A i \in Indices :
    LET s == streams[i]
        through == {j \in DOMAIN s.passed : s.passed[j]}
    IN /\ \E ids \in [DOMAIN s.objects -> 0..Len(s.passed)] :
            /\ Decodes(s, ids)
            /\ {ids[k] : k \in DOMAIN ids} = {j - 1 : j \in through}
            /\ \A k, l \in DOMAIN ids : k < l => ids[k] < ids[l]
       /\ s.objects # <<>> => (s.header = "first" <=> s.passed[1])
       /\ s.end = "fin" => s.passed # <<>> /\ through = DOMAIN s.passed
       /\ s.end = "reset" => s.passed = <<>> \/ through # DOMAIN s.passed

\* Video starts after the complete catalog, and the timestamps of its objects grow from
\* each to the next, over the groups, the frames that waited and equal capture times.
VideoInOrder ==
  LET VideoStreams == {i \in Indices : streams[i].track = "video"}
  IN /\ \A i \in VideoStreams :
          \E j \in 1..(i - 1) : streams[j].track = "catalog" /\ streams[j].end = "fin"
     /\ \A i, j \in VideoStreams :
          \A k \in DOMAIN streams[i].objects, l \in DOMAIN streams[j].objects :
            i < j \/ (i = j /\ k < l) => streams[i].objects[k].ts < streams[j].objects[l].ts

\* The first audio object a subscriber is sent carries the Audio Config, and no other.
AudioConfigFirst ==
  LET Sent == {i \in Indices : streams[i].track = "audio" /\ streams[i].objects # <<>>}
  IN \A i \in Sent : streams[i].objects[1].config <=> \A j \in Sent : i <= j

\* Every question of the relay is in one place: on its way, queued, answered or its
\* answer thrown away, never in two and never nowhere.  One that the session has refused
\* by itself is queued all the same, even if that refusal was lost, and stays there.
EachAnsweredOnce ==
  \A q \in asked :
    Cardinality({i \in 1..Len(bidi) : \/ bidi[i].what = "request" /\ bidi[i].on = q
                                      \/ bidi[i].what = "update" /\ bidi[i].id = q})
      + Cardinality({i \in 1..Len(requests) : requests[i].on = q})
      + Cardinality({i \in 1..Len(updates) : updates[i].id = q})
      + Cardinality({q} \cap (replied \ refused)) + Cardinality({q} \cap dropped) = 1

\* An answer of the application is thrown away only if the stream it belongs to was over
\* by then, or if momo's side had closed it with a refusal, the session's or its own;
\* never one for a stream in use: one still to be answered, accepted, or of momo's own.
AnswersReachOpenStreams ==
  [][\A q \in dropped' \ dropped :
       \/ q \in over
       \/ \E i \in 1..Len(updates) : /\ updates[i].id = q
                                     /\ updates[i].on \in over \cup refused \cup rejected]_vars

\* PUBLISH_DONE of a track comes after the end of all its streams, and counts them all.
DoneAfterStreams ==
  \A t \in Tracks : done[t] # None =>
    done[t] = Count(t) /\ \A i \in Indices : streams[i].track = t => streams[i].end # "open"

\* A question is settled in the end, unless the program ends or the relay never answers
\* a request of ours: nothing limits that wait.  A refusal that was lost settles nothing:
\* the program has to end then, rather than leave the relay without an answer.
SettledUnlessSilent ==
  \A q \in Requests \cup Updates :
    (q \in asked ~> q \in replied \cup dropped \/ Over) \/ <>[](pc = "await")

================================================================================
