------------------------------ MODULE AyameClient ------------------------------
(***************************************************************************)
(* The Ayame mode of momo: `run` and `connect_once` (ayame.rs), the        *)
(* signaling task (ayame/signaling.rs), the watchdog task, and the WebRTC  *)
(* signaling thread whose observer callbacks block on the command channel  *)
(* (ayame/webrtc.rs).  They meet at two bounded channels:                  *)
(*                                                                         *)
(*   cmd     connect_once, watchdog, WebRTC thread --> signaling task      *)
(*   notify  signaling task --> connect_once                               *)
(*                                                                         *)
(* A read of the socket that yields k frames is k consecutive ReadFrame    *)
(* steps.  A channel end that is dropped when connect_once returns takes   *)
(* its contents with it, so Return clears the state of the attempt.        *)
(***************************************************************************)
EXTENDS Naturals, Sequences

CONSTANTS
  CmdCap,      \* capacity of the command channel (32)
  NotifyCap,   \* capacity of the notification channel (64)
  MaxFrames,   \* bound: text frames the server sends in one attempt
  MaxCands,    \* bound: ICE candidates one SetLocalDescription yields
  RetryMax,    \* where the retry counter saturates (u32::MAX)
  Stalls       \* what the server may do for ever, of StallKinds

StallKinds == {"handshake", \* accept TCP, then never finish TLS or the upgrade
               "flood",     \* send although NotifyCap notifications are unread
               "close"}     \* never end the stream after our Close frame

ASSUME AyameAssumption ==
  /\ CmdCap \in Nat \ {0}
  /\ NotifyCap \in Nat \ {0}
  /\ MaxFrames \in Nat
  /\ MaxCands \in Nat
  /\ RetryMax \in Nat \ {0}
  /\ Stalls \subseteq StallKinds

VARIABLES
  main,     \* where run / connect_once stands
  retry,    \* `retry` of run
  wait,     \* seconds run sleeps before the next attempt; 0 while it does not
  cmd,      \* the command channel
  notify,   \* the notification channel
  sig,      \* where the signaling task stands
  held,     \* notifications the signaling task is sending, in order
  dog,      \* where the watchdog task stands
  expired,  \* the watchdog's deadline has passed
  exist,    \* accept.is_exist_user
  ice,      \* state of the PeerConnection; "none" before its local description
  cpp,      \* the command the WebRTC signaling thread is blocked on, or "idle"
  cands,    \* candidates still to be gathered
  wire,     \* kinds of text frames written to the socket of this attempt
  frames    \* text frames the server may still send in this attempt

channels == <<cmd, notify>>
signaling == <<sig, held, wire, frames>>
watchdog == <<dog, expired>>
webrtc == <<ice, cpp, cands>>
loop == <<retry, wait>>
vars == <<main, loop, channels, signaling, watchdog, exist, webrtc>>

--------------------------------------------------------------------------------
(* Messages and types.                                                     *)

Sdp == {"offer", "answer"}
Texts == Sdp \cup {"register", "candidate", "pong"}
Commands == Texts \cup {"close"}

\* The text frames of the server; "junk" is what parse_received_message refuses.
Frames == Sdp \cup {"accept_first", "accept_second", "reject", "candidate",
                    "ping", "bye", "junk"}
Notification(f) == IF f = "junk" THEN "error" ELSE f
Notifications == {"connected", "closed"} \cup {Notification(f) : f \in Frames}

HandshakeStates == {"tcp", "tls", "upgrade"}
PeerStates == {"register_stats", "send_offer", "set_local", "loop", "create_answer",
               "send_answer", "set_answer", "add_candidate", "send_pong",
               "send_close", "drop_peer"}

TypeOK ==
  /\ main \in PeerStates \cup {"wait_connected", "send_register", "wait_accept", "sleep"}
  /\ retry \in 0..RetryMax
  /\ wait \in Nat
  /\ cmd \in Seq(Commands) /\ Len(cmd) <= CmdCap
  /\ notify \in Seq(Notifications) /\ Len(notify) <= NotifyCap
  /\ sig \in HandshakeStates \cup {"open", "closing", "shut", "ending", "off"}
  /\ held \in Seq(Notifications)
  /\ dog \in {"poll", "send", "done", "off"}
  /\ expired \in BOOLEAN
  /\ exist \in BOOLEAN
  /\ ice \in {"none", "new", "connected", "failed"}
  /\ cpp \in {"idle", "candidate", "close"}
  /\ cands \in Nat
  /\ wire \subseteq Texts
  /\ frames \in 0..MaxFrames

--------------------------------------------------------------------------------
(* run: the reconnect loop.                                                *)

WaitSeconds(r) ==
  IF 10 * r < 1 THEN 1 ELSE IF 10 * r > 30 THEN 30 ELSE 10 * r

Saturating(r) == IF r < RetryMax THEN r + 1 ELSE RetryMax

Init ==
  /\ main = "wait_connected"
  /\ retry = 0 /\ wait = 0
  /\ cmd = <<>> /\ notify = <<>>
  /\ sig = "tcp" /\ held = <<>> /\ wire = {} /\ frames = MaxFrames
  /\ dog = "poll" /\ expired = FALSE
  /\ exist = FALSE
  /\ ice = "none" /\ cpp = "idle" /\ cands = 0

\* connect_once returns; the wait is computed from the counter `base`.
Return(base) ==
  /\ main' = "sleep"
  /\ wait' = WaitSeconds(base)
  /\ retry' = Saturating(base)
  /\ cmd' = <<>> /\ notify' = <<>>
  /\ sig' = "off" /\ held' = <<>> /\ wire' = {}
  /\ dog' = "off" /\ expired' = FALSE
  /\ exist' = FALSE
  /\ ice' = "none" /\ cands' = 0
  /\ UNCHANGED <<cpp, frames>>

ReconnectNow == Return(0)
ReconnectLater == Return(retry)

\* The sleep is over: a new watchdog, a new signaling task, new channels.
StartAttempt ==
  /\ main = "sleep"
  /\ main' = "wait_connected"
  /\ wait' = 0
  /\ sig' = "tcp" /\ frames' = MaxFrames
  /\ dog' = "poll"
  /\ UNCHANGED <<retry, channels, held, wire, expired, exist, webrtc>>

--------------------------------------------------------------------------------
(* The channels.  run_signaling_loop owns the receiver of cmd: once it has *)
(* returned, what is queued is gone and every send fails at once.          *)

CmdClosed == sig \in {"ending", "off"}

CmdSend(c) ==
  /\ ~CmdClosed
  /\ Len(cmd) < CmdCap
  /\ cmd' = Append(cmd, c)

\* Mutant of CmdSendOrIgnore: waits for room, also when nobody will make any.
CmdSendOrHang(c) == CmdSend(c)

\* `let _ = cmd_tx.send(..)`: a failed send is ignored.
CmdSendOrIgnore(c) == CmdSend(c) \/ (CmdClosed /\ UNCHANGED cmd)

Incoming(kinds) == notify # <<>> /\ Head(notify) \in kinds
Receive(kinds) == Incoming(kinds) /\ notify' = Tail(notify)

Goto(state) == main' = state /\ UNCHANGED loop

--------------------------------------------------------------------------------
(* connect_once up to the accept.                                          *)

RecvConnected ==
  /\ main = "wait_connected"
  /\ Receive({"connected"})
  /\ Goto("send_register")
  /\ UNCHANGED <<cmd, signaling, watchdog, exist, webrtc>>

\* Mutant of RecvNotConnected: the count starts over without a WebSocket.
RecvNotConnectedNow ==
  /\ main = "wait_connected"
  /\ Incoming(Notifications \ {"connected"})
  /\ ReconnectNow

RecvNotConnected ==
  /\ main = "wait_connected"
  /\ Incoming(Notifications \ {"connected"})
  /\ ReconnectLater

SendRegister ==
  /\ main = "send_register"
  /\ \/ /\ CmdSend("register")
        /\ Goto("wait_accept")
        /\ UNCHANGED <<notify, signaling, watchdog, exist, webrtc>>
     \/ CmdClosed /\ ReconnectNow

\* The accept makes the PeerConnection, unless create_peer fails.
RecvAccept ==
  /\ main = "wait_accept"
  /\ \/ /\ Receive({"accept_first", "accept_second"})
        /\ exist' = (Head(notify) = "accept_second")
        /\ Goto("register_stats")
        /\ UNCHANGED <<cmd, signaling, watchdog, webrtc>>
     \/ Incoming({"accept_first", "accept_second"}) /\ ReconnectNow

RecvReject == main = "wait_accept" /\ Incoming({"reject"}) /\ ReconnectLater
RecvErrorBeforeAccept == main = "wait_accept" /\ Incoming({"error"}) /\ ReconnectLater
RecvClosedBeforeAccept == main = "wait_accept" /\ Incoming({"closed"}) /\ ReconnectNow

SkipBeforeAccept ==
  /\ main = "wait_accept"
  /\ Receive(Sdp \cup {"connected", "candidate", "ping", "bye"})
  /\ UNCHANGED <<main, loop, cmd, signaling, watchdog, exist, webrtc>>

--------------------------------------------------------------------------------
(* connect_once with a PeerConnection.  Its SDP and ICE operations run on  *)
(* the WebRTC signaling thread, so they wait until that thread is idle.    *)

WebRtcReady == cpp = "idle"

\* Mutant of RegisterStats: SetLocalDescription before the offer is sent.
RegisterStatsAndSetLocal ==
  /\ main = "register_stats"
  /\ \/ ~exist /\ Goto("loop") /\ UNCHANGED <<ice, cands>>
     \/ exist /\ Goto("send_offer") /\ ice' = "new" /\ cands' = MaxCands
  /\ UNCHANGED <<channels, signaling, watchdog, exist, cpp>>

\* The stats provider is registered; the side that finds a user makes an offer.
RegisterStats ==
  /\ main = "register_stats"
  /\ \/ ~exist /\ Goto("loop")
     \/ exist /\ Goto("send_offer")
     \/ exist /\ Goto("drop_peer")    \* add_transceivers or create_offer failed
  /\ UNCHANGED <<channels, signaling, watchdog, exist, webrtc>>

\* SetRemoteDescription, add_track and CreateAnswer of handle_offer.
CreateAnswer ==
  /\ main = "create_answer"
  /\ WebRtcReady
  /\ \E next \in {"send_answer", "drop_peer"} : Goto(next)
  /\ UNCHANGED <<channels, signaling, watchdog, exist, webrtc>>

\* The description goes to the signaling task before it is applied.
SendSdp ==
  /\ \/ main = "send_offer" /\ CmdSend("offer") /\ Goto("set_local")
     \/ main = "send_answer" /\ CmdSend("answer") /\ Goto("set_local")
     \/ /\ main \in {"send_offer", "send_answer"}
        /\ CmdClosed
        /\ Goto("drop_peer")
        /\ UNCHANGED cmd
  /\ UNCHANGED <<notify, signaling, watchdog, exist, webrtc>>

\* SetLocalDescription starts the gathering of candidates.
SetLocal ==
  /\ main = "set_local"
  /\ WebRtcReady
  /\ \/ /\ Goto("loop")
        /\ cands' = MaxCands
        /\ ice' = IF ice = "none" THEN "new" ELSE ice
     \/ Goto("drop_peer") /\ UNCHANGED <<ice, cands>>
  /\ UNCHANGED <<channels, signaling, watchdog, exist, cpp>>

\* One notification of the message loop.
RecvMessage ==
  /\ main = "loop"
  /\ \/ Receive({"offer"}) /\ Goto("create_answer")
     \/ Receive({"answer"}) /\ Goto("set_answer")
     \/ Receive({"candidate"}) /\ Goto("add_candidate")
     \/ Receive({"bye", "error", "closed"}) /\ Goto("send_close")
     \/ Receive({"connected", "accept_first", "accept_second", "reject"}) /\ Goto("loop")
  /\ UNCHANGED <<cmd, signaling, watchdog, exist, webrtc>>

RecvPing ==
  /\ main = "loop"
  /\ Receive({"ping"})
  /\ expired' = FALSE                      \* watchdog.arm()
  /\ Goto("send_pong")
  /\ UNCHANGED <<cmd, signaling, dog, exist, webrtc>>

SendPong ==
  /\ main = "send_pong"
  /\ CmdSendOrIgnore("pong")
  /\ Goto("loop")
  /\ UNCHANGED <<notify, signaling, watchdog, exist, webrtc>>

SetAnswer ==
  /\ main = "set_answer"
  /\ WebRtcReady
  /\ \E next \in {"loop", "drop_peer"} : Goto(next)
  /\ UNCHANGED <<channels, signaling, watchdog, exist, webrtc>>

AddCandidate ==
  /\ main = "add_candidate"
  /\ WebRtcReady
  /\ Goto("loop")
  /\ UNCHANGED <<channels, signaling, watchdog, exist, webrtc>>

SendClose ==
  /\ main = "send_close"
  /\ CmdSendOrIgnore("close")
  /\ Goto("drop_peer")
  /\ UNCHANGED <<notify, signaling, watchdog, exist, webrtc>>

\* The PeerConnection is dropped before the channels are.
DropPeer ==
  /\ main = "drop_peer"
  /\ WebRtcReady
  /\ ReconnectNow

--------------------------------------------------------------------------------
(* The WebRTC signaling thread: observer callbacks with blocking_send.     *)

Gather ==
  /\ cpp = "idle" /\ cands > 0
  /\ cpp' = "candidate" /\ cands' = cands - 1
  /\ UNCHANGED <<main, loop, channels, signaling, watchdog, exist, ice>>

PcConnected ==
  /\ cpp = "idle" /\ ice = "new"
  /\ ice' = "connected"
  /\ expired' = FALSE                      \* watchdog.on_connected()
  /\ UNCHANGED <<main, loop, channels, signaling, dog, exist, cpp, cands>>

PcFailed ==
  /\ cpp = "idle" /\ ice \in {"new", "connected"}
  /\ ice' = "failed" /\ cpp' = "close"
  /\ UNCHANGED <<main, loop, channels, signaling, watchdog, exist, cands>>

CppSend ==
  /\ cpp # "idle"
  /\ CmdSendOrIgnore(cpp)
  /\ cpp' = "idle"
  /\ UNCHANGED <<main, loop, notify, signaling, watchdog, exist, ice, cands>>

--------------------------------------------------------------------------------
(* The watchdog task: poll the deadline, close once, stop.                 *)

Expire ==
  /\ main # "sleep" /\ ~expired
  /\ expired' = TRUE
  /\ UNCHANGED <<main, loop, channels, signaling, dog, exist, webrtc>>

DogPoll ==
  /\ dog = "poll" /\ expired
  /\ dog' = "send"
  /\ UNCHANGED <<main, loop, channels, signaling, expired, exist, webrtc>>

DogSend ==
  /\ dog = "send"
  /\ CmdSendOrIgnore("close")
  /\ dog' = "done"
  /\ UNCHANGED <<main, loop, notify, signaling, expired, exist, webrtc>>

--------------------------------------------------------------------------------
(* The signaling task.                                                     *)

Idle == held = <<>>
Reading == Idle /\ sig \in {"upgrade", "open", "closing", "shut"}

\* run_signaling_loop returns: cmd_rx is dropped, the notifications follow.
EndTask(notes) ==
  /\ sig' = "ending"
  /\ held' = notes
  /\ cmd' = <<>>
  /\ UNCHANGED <<wire, frames>>

Handshake ==
  /\ \/ sig = "tcp" /\ sig' \in {"tls", "upgrade"} /\ UNCHANGED held
     \/ sig = "tls" /\ sig' = "upgrade" /\ UNCHANGED held
     \/ sig = "upgrade" /\ Idle /\ sig' = "open" /\ held' = <<"connected">>
  /\ UNCHANGED <<main, loop, channels, wire, frames, watchdog, exist, webrtc>>

\* A text frame is parsed and goes to connect_once.
ReadFrame ==
  /\ Reading /\ sig \in {"open", "closing"}
  /\ frames > 0 /\ frames' = frames - 1
  /\ "flood" \in Stalls \/ Len(notify) < NotifyCap
  /\ \E f \in Frames : held' = <<Notification(f)>>
  /\ UNCHANGED <<main, loop, channels, sig, wire, watchdog, exist, webrtc>>

\* Mutant of ReadEnd: the task ends without its Closed.
ReadEndSilently ==
  /\ Reading
  /\ EndTask(<<>>)
  /\ UNCHANGED <<main, loop, notify, watchdog, exist, webrtc>>

\* End of stream, or the closing handshake is complete.
ReadEnd ==
  /\ Reading
  /\ EndTask(<<"closed">>)
  /\ UNCHANGED <<main, loop, notify, watchdog, exist, webrtc>>

\* An I/O, TLS or WebSocket error: Error, then Closed.
Fails ==
  /\ Reading \/ sig \in {"tcp", "tls"}
  /\ EndTask(<<"error", "closed">>)
  /\ UNCHANGED <<main, loop, notify, watchdog, exist, webrtc>>

\* SendText is written out; outside an open WebSocket it is an error.
TakeText ==
  /\ Reading /\ cmd # <<>> /\ Head(cmd) # "close"
  /\ \/ /\ sig = "open"
        /\ cmd' = Tail(cmd)
        /\ wire' = wire \cup {Head(cmd)}
        /\ UNCHANGED <<sig, held, frames>>
     \/ sig # "open" /\ EndTask(<<"error", "closed">>)
  /\ UNCHANGED <<main, loop, notify, watchdog, exist, webrtc>>

\* Mutant of TakeClose: Close is dropped.
TakeCloseIgnored ==
  /\ Reading /\ cmd # <<>> /\ Head(cmd) = "close"
  /\ cmd' = Tail(cmd)
  /\ UNCHANGED <<main, loop, notify, sig, held, wire, frames, watchdog, exist, webrtc>>

\* Close starts the closing handshake.  Its error is ignored when it is under way
\* already, and so it is if the library refuses it before the upgrade is answered.
TakeClose ==
  /\ Reading /\ cmd # <<>> /\ Head(cmd) = "close"
  /\ cmd' = Tail(cmd)
  /\ sig' \in CASE sig = "open" -> {"closing"}
              [] sig = "upgrade" -> {"upgrade", "closing"}
              [] OTHER -> {sig}
  /\ UNCHANGED <<main, loop, notify, held, wire, frames, watchdog, exist, webrtc>>

\* CloseTimeout: the socket is shut down; the events of the WebSocket are
\* only polled after a read, so the task goes on reading.
CloseTimer ==
  /\ Idle /\ sig = "closing"
  /\ sig' = "shut"
  /\ UNCHANGED <<main, loop, channels, held, wire, frames, watchdog, exist, webrtc>>

NotifySend ==
  /\ ~Idle
  /\ Len(notify) < NotifyCap
  /\ notify' = Append(notify, Head(held))
  /\ held' = Tail(held)
  /\ sig' = IF sig = "ending" /\ Len(held) = 1 THEN "off" ELSE sig
  /\ UNCHANGED <<main, loop, cmd, wire, frames, watchdog, exist, webrtc>>

--------------------------------------------------------------------------------
MainStep ==
  \/ StartAttempt
  \/ RecvConnected \/ RecvNotConnected \/ SendRegister
  \/ RecvAccept \/ RecvReject \/ RecvErrorBeforeAccept \/ RecvClosedBeforeAccept
  \/ SkipBeforeAccept
  \/ RegisterStats \/ CreateAnswer \/ SendSdp \/ SetLocal
  \/ RecvMessage \/ RecvPing \/ SendPong \/ SetAnswer \/ AddCandidate
  \/ SendClose \/ DropPeer

CppStep == Gather \/ PcConnected \/ PcFailed \/ CppSend
DogStep == Expire \/ DogPoll \/ DogSend
SigStep ==
  \/ Handshake \/ ReadFrame \/ ReadEnd \/ Fails
  \/ TakeText \/ TakeClose \/ CloseTimer \/ NotifySend

Next == MainStep \/ CppStep \/ DogStep \/ SigStep

\* Tasks and threads are scheduled.  Of the server: it finishes the handshake or
\* the stream ends, and it ends the stream it was asked to close, unless Stalls.
HandshakeAnswered == "handshake" \notin Stalls /\ sig # "tcp" /\ Handshake
CloseAnswered == "close" \notin Stalls /\ sig \in {"closing", "shut"} /\ ReadEnd

Fairness ==
  /\ WF_vars(MainStep)
  /\ WF_vars(CppSend)
  /\ WF_vars(DogPoll) /\ WF_vars(DogSend)
  /\ WF_vars(TakeText) /\ WF_vars(TakeClose)
  /\ WF_vars(CloseTimer) /\ WF_vars(NotifySend)
  /\ WF_vars(sig = "tcp" /\ Handshake)
  /\ WF_vars(HandshakeAnswered) /\ WF_vars(CloseAnswered)

Spec == Init /\ [][Next]_vars
FairSpec == Spec /\ Fairness

--------------------------------------------------------------------------------
(* Properties.                                                             *)

\* The other side never sees a candidate before the offer or answer it belongs
\* to, although candidates come from another thread: create_and_send_offer and
\* handle_offer queue the description before SetLocalDescription is called.
SdpBeforeCandidate == "candidate" \in wire => wire \cap Sdp # {}

\* Nothing reaches the server before the register, whichever of connect_once,
\* the watchdog and the WebRTC thread queued it.
RegisterFirst == wire # {} => "register" \in wire

\* However the signaling task ends, run gets to sleep before a new attempt.
EndedTaskReconnects == sig = "ending" ~> main = "sleep"

\* A server that floods can make it all stop, but only with both channels full:
\* the signaling task waits for connect_once, and that for the command channel.
BothChannelsFull == Len(cmd) = CmdCap /\ Len(notify) = NotifyCap /\ ~Idle

\* Otherwise connect_once always comes back to its notifications or to the sleep of
\* run: it is never stuck on a full command channel alone, nor on a WebRTC thread
\* that is.
ConnectOnceComesBackUnlessFull ==
  main \notin {"wait_connected", "wait_accept", "loop"}
    ~> (main \in {"wait_connected", "wait_accept", "loop"} \/ []BothChannelsFull)

\* A watchdog that fires on an open WebSocket leads to a new attempt, even
\* though it sends one Close and then stops watching.
FiredWatchdogReconnectsUnlessFull ==
  (dog = "send" /\ sig \in {"open", "closing", "shut"})
    ~> (main = "sleep" \/ []BothChannelsFull)

\* ayame.rs:405-407: past its deadline a connection is closed and put on the path
\* to a reconnect; here, one whose TLS handshake is still outstanding.
ExpiredHandshakeIsClosed == (dog = "done" /\ sig = "tls") ~> sig # "tls"
================================================================================
