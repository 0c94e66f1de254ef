-------------------------- MODULE AyameClient_proofs ---------------------------
(***************************************************************************)
(* For every capacity of the channels and every bound of AyameClient: its  *)
(* types, the order of what is written to the socket, and that it          *)
(* implements the safety part of ReconnectLoop.                            *)
(***************************************************************************)
EXTENDS AyameReconnect, TLAPS

\* One step of a channel keeps its type.
LEMMA AppendType ==
  ASSUME NEW S, NEW q \in Seq(S), NEW e \in S, NEW n \in Nat, Len(q) < n
  PROVE  Append(q, e) \in Seq(S) /\ Len(Append(q, e)) <= n
OBVIOUS

LEMMA TailType ==
  ASSUME NEW S, NEW q \in Seq(S), q # <<>>, NEW n \in Nat, Len(q) <= n
  PROVE  Tail(q) \in Seq(S) /\ Len(Tail(q)) <= n /\ Head(q) \in S
OBVIOUS

\* A send leaves the command channel within its type and capacity.
LEMMA CmdSendType ==
  ASSUME TypeOK, NEW c \in Commands, CmdSendOrIgnore(c)
  PROVE  cmd' \in Seq(Commands) /\ Len(cmd') <= CmdCap
<1>1. CASE CmdSend(c)
  BY <1>1, AppendType, AyameAssumption DEF TypeOK, CmdSend
<1>2. CASE CmdClosed /\ UNCHANGED cmd
  BY <1>2 DEF TypeOK
<1> QED BY <1>1, <1>2 DEF CmdSendOrIgnore

\* The end of an attempt leaves every variable in its type.
LEMMA ReturnType ==
  ASSUME TypeOK, NEW base \in 0..RetryMax, Return(base)
  PROVE  TypeOK'
<1>1. wait' \in Nat /\ retry' \in 0..RetryMax
  BY AyameAssumption DEF Return, WaitSeconds, Saturating
<1>2. cmd' = <<>> /\ notify' = <<>> /\ held' = <<>>
  BY DEF Return
<1>3. /\ cmd' \in Seq(Commands) /\ Len(cmd') <= CmdCap
      /\ notify' \in Seq(Notifications) /\ Len(notify') <= NotifyCap
      /\ held' \in Seq(Notifications)
  BY <1>2, AyameAssumption
<1>4. /\ main' = "sleep" /\ sig' = "off" /\ wire' = {} /\ dog' = "off"
      /\ expired' = FALSE /\ exist' = FALSE /\ ice' = "none" /\ cands' = 0
      /\ cpp' = cpp /\ frames' = frames
  BY DEF Return
<1> QED BY <1>1, <1>3, <1>4 DEF TypeOK

\* Ending the signaling task leaves what it changes in its type.
LEMMA EndTaskType ==
  ASSUME TypeOK, NEW notes \in Seq(Notifications), EndTask(notes)
  PROVE  /\ sig' = "ending" /\ held' \in Seq(Notifications)
         /\ cmd' \in Seq(Commands) /\ Len(cmd') <= CmdCap
         /\ wire' \subseteq Texts /\ frames' \in 0..MaxFrames
BY AyameAssumption DEF TypeOK, EndTask

LEMMA ReceiveType ==
  ASSUME TypeOK, NEW kinds, Receive(kinds)
  PROVE  notify' \in Seq(Notifications) /\ Len(notify') <= NotifyCap
BY TailType, AyameAssumption DEF TypeOK, Receive, Incoming

USE DEF channels, signaling, watchdog, webrtc, loop

LEMMA MainType == TypeOK /\ MainStep => TypeOK'
<1> SUFFICES ASSUME TypeOK, MainStep PROVE TypeOK'
  OBVIOUS
<1> USE DEF Goto
<1>1. CASE StartAttempt
  BY <1>1, AyameAssumption DEF StartAttempt, TypeOK, HandshakeStates
<1>2. CASE RecvConnected
  <2>1. notify' \in Seq(Notifications) /\ Len(notify') <= NotifyCap
    BY <1>2, ReceiveType DEF RecvConnected
  <2> QED BY <1>2, <2>1 DEF RecvConnected, TypeOK
<1>3. CASE \/ RecvNotConnected \/ RecvReject \/ RecvErrorBeforeAccept
           \/ RecvClosedBeforeAccept \/ DropPeer
  <2>1. \E base \in 0..RetryMax : Return(base)
    BY <1>3, AyameAssumption DEF RecvNotConnected, RecvReject, RecvErrorBeforeAccept,
       RecvClosedBeforeAccept, DropPeer, ReconnectNow, ReconnectLater, TypeOK
  <2> QED BY <2>1, ReturnType
<1>4. CASE SendRegister
  <2>1. CASE CmdClosed /\ ReconnectNow
    BY <2>1, ReturnType, AyameAssumption DEF ReconnectNow
  <2>2. CASE CmdSend("register") /\ Goto("wait_accept")
             /\ UNCHANGED <<notify, signaling, watchdog, exist, webrtc>>
    <3>1. cmd' \in Seq(Commands) /\ Len(cmd') <= CmdCap
      BY <2>2, CmdSendType DEF CmdSendOrIgnore, Commands, Texts
    <3> QED BY <2>2, <3>1 DEF TypeOK
  <2> QED BY <1>4, <2>1, <2>2 DEF SendRegister
<1>5. CASE RecvAccept
  <2>1. CASE ReconnectNow
    BY <2>1, ReturnType, AyameAssumption DEF ReconnectNow
  <2>2. CASE ~ReconnectNow
    <3>1. notify' \in Seq(Notifications) /\ Len(notify') <= NotifyCap
      BY <1>5, <2>2, ReceiveType DEF RecvAccept
    <3>2. exist' = (Head(notify) = "accept_second")
      BY <1>5, <2>2 DEF RecvAccept
    <3>3. exist' \in BOOLEAN
      BY <3>2, Zenon
    <3>4. /\ main' = "register_stats"
          /\ UNCHANGED <<cmd, loop, signaling, watchdog, webrtc>>
      BY <1>5, <2>2 DEF RecvAccept
    <3> QED BY <3>1, <3>3, <3>4 DEF TypeOK, PeerStates
  <2> QED BY <2>1, <2>2, <1>5 DEF RecvAccept
<1>6. CASE SkipBeforeAccept
  <2>1. notify' \in Seq(Notifications) /\ Len(notify') <= NotifyCap
    BY <1>6, ReceiveType DEF SkipBeforeAccept
  <2> QED BY <1>6, <2>1 DEF SkipBeforeAccept, TypeOK
<1>7. CASE RegisterStats \/ CreateAnswer \/ SetAnswer \/ AddCandidate
  BY <1>7 DEF RegisterStats, CreateAnswer, SetAnswer, AddCandidate, TypeOK, PeerStates
<1>8. CASE SendSdp
  <2>1. cmd' \in Seq(Commands) /\ Len(cmd') <= CmdCap
    BY <1>8, CmdSendType DEF SendSdp, CmdSendOrIgnore, Commands, Texts, Sdp, TypeOK
  <2> QED BY <1>8, <2>1 DEF SendSdp, TypeOK, PeerStates
<1>9. CASE SetLocal
  BY <1>9, AyameAssumption DEF SetLocal, TypeOK, PeerStates
<1>10. CASE RecvMessage \/ RecvPing
  <2>1. notify' \in Seq(Notifications) /\ Len(notify') <= NotifyCap
    BY <1>10, ReceiveType DEF RecvMessage, RecvPing
  <2>2. CASE RecvMessage
    BY <2>1, <2>2 DEF RecvMessage, TypeOK, PeerStates
  <2>3. CASE RecvPing
    BY <2>1, <2>3 DEF RecvPing, TypeOK, PeerStates
  <2> QED BY <1>10, <2>2, <2>3
<1>11. CASE SendPong \/ SendClose
  <2>1. cmd' \in Seq(Commands) /\ Len(cmd') <= CmdCap
    BY <1>11, CmdSendType DEF SendPong, SendClose, Commands, Texts
  <2> QED BY <1>11, <2>1 DEF SendPong, SendClose, TypeOK, PeerStates
<1> QED BY <1>1, <1>2, <1>3, <1>4, <1>5, <1>6, <1>7, <1>8, <1>9, <1>10, <1>11
        DEF MainStep

LEMMA CppType == TypeOK /\ CppStep => TypeOK'
<1> SUFFICES ASSUME TypeOK, CppStep PROVE TypeOK'
  OBVIOUS
<1>1. CASE Gather
  BY <1>1 DEF Gather, TypeOK
<1>2. CASE PcConnected \/ PcFailed
  BY <1>2 DEF PcConnected, PcFailed, TypeOK
<1>3. CASE CppSend
  <2>1. cpp \in Commands
    BY <1>3 DEF CppSend, TypeOK, Commands, Texts
  <2>2. cmd' \in Seq(Commands) /\ Len(cmd') <= CmdCap
    BY <1>3, <2>1, CmdSendType DEF CppSend
  <2> QED BY <1>3, <2>2 DEF CppSend, TypeOK
<1> QED BY <1>1, <1>2, <1>3 DEF CppStep

LEMMA DogType == TypeOK /\ DogStep => TypeOK'
<1> SUFFICES ASSUME TypeOK, DogStep PROVE TypeOK'
  OBVIOUS
<1>1. CASE Expire \/ DogPoll
  BY <1>1 DEF Expire, DogPoll, TypeOK
<1>2. CASE DogSend
  <2>1. cmd' \in Seq(Commands) /\ Len(cmd') <= CmdCap
    BY <1>2, CmdSendType DEF DogSend, Commands
  <2> QED BY <1>2, <2>1 DEF DogSend, TypeOK
<1> QED BY <1>1, <1>2 DEF DogStep

LEMMA SigType == TypeOK /\ SigStep => TypeOK'
<1> SUFFICES ASSUME TypeOK, SigStep PROVE TypeOK'
  OBVIOUS
<1>1. CASE Handshake
  <2>1. held' \in Seq(Notifications)
    <3>1. <<"connected">> \in Seq(Notifications)
      <4>1. "connected" \in Notifications
        BY DEF Notifications
      <4> QED BY <4>1
    <3> QED BY <1>1, <3>1 DEF Handshake, TypeOK
  <2> QED BY <1>1, <2>1 DEF Handshake, TypeOK, HandshakeStates
<1>2. CASE ReadFrame
  <2>1. held' \in Seq(Notifications)
    <3>1. PICK f \in Frames : held' = <<Notification(f)>>
      BY <1>2 DEF ReadFrame
    <3>2. Notification(f) \in Notifications
      BY DEF Notifications
    <3> QED BY <3>1, <3>2
  <2>2. frames' \in 0..MaxFrames
    BY <1>2, AyameAssumption DEF ReadFrame, TypeOK
  <2> QED BY <1>2, <2>1, <2>2 DEF ReadFrame, TypeOK
<1>3. ASSUME NEW notes \in Seq(Notifications), EndTask(notes),
             UNCHANGED <<main, loop, notify, watchdog, exist, webrtc>>
      PROVE  TypeOK'
  BY <1>3, EndTaskType DEF TypeOK
<1>4. <<"closed">> \in Seq(Notifications) /\ <<"error", "closed">> \in Seq(Notifications)
  <2>1. {"error", "closed"} \subseteq Notifications
    BY DEF Notifications, Notification, Frames
  <2> QED BY <2>1
<1>5. CASE ReadEnd
  BY <1>3, <1>4, <1>5 DEF ReadEnd
<1>6. CASE Fails
  BY <1>3, <1>4, <1>6 DEF Fails
<1>7. CASE TakeText
  <2>1. CASE EndTask(<<"error", "closed">>)
    BY <1>3, <1>4, <1>7, <2>1 DEF TakeText
  <2>2. CASE ~EndTask(<<"error", "closed">>)
    <3>1. cmd' \in Seq(Commands) /\ Len(cmd') <= CmdCap /\ Head(cmd) \in Commands
      <4>1. cmd # <<>> /\ cmd' = Tail(cmd)
        BY <1>7, <2>2 DEF TakeText
      <4> QED BY <4>1, TailType, AyameAssumption DEF TypeOK
    <3>2. Head(cmd) \in Texts
      BY <1>7, <3>1 DEF TakeText, Commands
    <3> QED BY <1>7, <2>2, <3>1, <3>2 DEF TakeText, TypeOK
  <2> QED BY <2>1, <2>2
<1>8. CASE TakeClose
  <2>1. cmd' \in Seq(Commands) /\ Len(cmd') <= CmdCap
    BY <1>8, TailType, AyameAssumption DEF TakeClose, TypeOK
  <2> QED BY <1>8, <2>1 DEF TakeClose, TypeOK, HandshakeStates
<1>9. CASE CloseTimer
  BY <1>9 DEF CloseTimer, TypeOK
<1>10. CASE NotifySend
  <2>1. held # <<>> /\ Head(held) \in Notifications /\ held' \in Seq(Notifications)
    BY <1>10, TailType DEF NotifySend, Idle, TypeOK
  <2>2. notify' \in Seq(Notifications) /\ Len(notify') <= NotifyCap
    BY <1>10, <2>1, AppendType, AyameAssumption DEF NotifySend, TypeOK
  <2> QED BY <1>10, <2>1, <2>2 DEF NotifySend, TypeOK
<1> QED BY <1>1, <1>2, <1>5, <1>6, <1>7, <1>8, <1>9, <1>10 DEF SigStep

LEMMA TypeInit == Init => TypeOK
<1> SUFFICES ASSUME Init PROVE TypeOK
  OBVIOUS
<1>1. cmd = <<>> /\ notify = <<>> /\ held = <<>>
  BY DEF Init
<1>2. /\ cmd \in Seq(Commands) /\ Len(cmd) <= CmdCap
      /\ notify \in Seq(Notifications) /\ Len(notify) <= NotifyCap
      /\ held \in Seq(Notifications)
  BY <1>1, AyameAssumption
<1>3. /\ retry \in 0..RetryMax /\ wait \in Nat /\ cands \in Nat
      /\ frames \in 0..MaxFrames
  BY AyameAssumption DEF Init
<1> QED BY <1>2, <1>3 DEF Init, TypeOK, HandshakeStates

LEMMA TypeNext == TypeOK /\ [Next]_vars => TypeOK'
<1>1. TypeOK /\ UNCHANGED vars => TypeOK'
  BY DEF TypeOK, vars
<1> QED BY <1>1, MainType, CppType, DogType, SigType DEF Next

\* Every variable keeps its type; the channels never exceed their capacity.
THEOREM TypeCorrect == Spec => []TypeOK
BY TypeInit, TypeNext, PTL DEF Spec

--------------------------------------------------------------------------------
(* The order of the frames on the socket.  The inductive invariant speaks  *)
(* of the command channel: what is queued behind what, and who may still   *)
(* queue something.                                                        *)

Written(K) == wire \cap K # {}
Queued(K) == \E i \in 1..Len(cmd) : cmd[i] \in K
OnItsWay(K) == Written(K) \/ Queued(K)

\* Before every queued member of C there is a member of K, queued or written.
Follows(C, K) ==
  \A i \in 1..Len(cmd) :
    cmd[i] \in C => Written(K) \/ \E j \in 1..(i - 1) : cmd[j] \in K

Register == {"register"}
AfterRegister == Texts \ Register
Candidate == {"candidate"}

\* The WebRTC thread is only busy while a PeerConnection exists.
PeerInv == cands > 0 \/ cpp # "idle" \/ ice # "none" => main \in PeerStates

\* A signaling task that has returned, and an attempt that is over, hold no command;
\* the watchdog is aborted with the attempt.
EmptyInv ==
  /\ CmdClosed => cmd = <<>>
  /\ main = "sleep" => cmd = <<>> /\ wire = {} /\ dog = "off"

SdpInv ==
  /\ SdpBeforeCandidate
  /\ Follows(Candidate, Sdp)
  /\ (main = "set_local" \/ cands > 0 \/ cpp = "candidate") /\ ~CmdClosed
       => OnItsWay(Sdp)

RegisterInv ==
  /\ RegisterFirst
  /\ Follows(AfterRegister, Register)
  /\ main \in PeerStates \cup {"wait_accept"} /\ ~CmdClosed => OnItsWay(Register)

OrderInv == TypeOK /\ PeerInv /\ EmptyInv /\ SdpInv /\ RegisterInv

\* Nothing is sent or written: the order is what it was.
LEMMA SameOrder ==
  ASSUME NEW C, NEW K, UNCHANGED <<cmd, wire>>
  PROVE  /\ Follows(C, K) => Follows(C, K)'
         /\ OnItsWay(K) => OnItsWay(K)'
BY DEF Follows, OnItsWay, Queued, Written

\* A command is queued.
LEMMA AppendOrder ==
  ASSUME NEW C, NEW K, NEW S, cmd \in Seq(S), NEW c \in S, Follows(C, K),
         cmd' = Append(cmd, c), UNCHANGED wire, c \in C => OnItsWay(K)
  PROVE  /\ Follows(C, K)'
         /\ OnItsWay(K) \/ c \in K => OnItsWay(K)'
<1>1. Len(cmd') = Len(cmd) + 1 /\ Len(cmd) \in Nat
  OBVIOUS
<1>2. \A i \in 1..Len(cmd) : cmd'[i] = cmd[i]
  OBVIOUS
<1>3. cmd'[Len(cmd) + 1] = c
  OBVIOUS
<1>4. OnItsWay(K) \/ c \in K => OnItsWay(K)'
  BY <1>1, <1>2, <1>3 DEF OnItsWay, Queued, Written
<1>5. Follows(C, K)'
  <2> SUFFICES ASSUME NEW i \in 1..Len(cmd'), cmd'[i] \in C, ~Written(K)
               PROVE  \E j \in 1..(i - 1) : cmd'[j] \in K
    BY DEF Follows, Written
  <2>1. CASE i \in 1..Len(cmd)
    <3>1. PICK j \in 1..(i - 1) : cmd[j] \in K
      BY <1>2, <2>1 DEF Follows
    <3>2. j \in 1..Len(cmd)
      BY <1>1, <2>1
    <3> QED BY <1>2, <3>1, <3>2
  <2>2. CASE i = Len(cmd) + 1
    <3>1. PICK j \in 1..Len(cmd) : cmd[j] \in K
      BY <1>3, <2>2 DEF OnItsWay, Queued
    <3>2. j \in 1..(i - 1)
      BY <1>1, <2>2
    <3> QED BY <1>2, <3>1, <3>2
  <2> QED BY <1>1, <2>1, <2>2
<1> QED BY <1>4, <1>5

\* The oldest command is taken; if it is a text frame it is written.
LEMMA TakeOrder ==
  ASSUME NEW C, NEW K, NEW S, cmd \in Seq(S), cmd # <<>>, Follows(C, K),
         cmd' = Tail(cmd), wire \subseteq wire', wire' \subseteq wire \cup {Head(cmd)},
         Head(cmd) \in K => Head(cmd) \in wire'
  PROVE  /\ Follows(C, K)'
         /\ OnItsWay(K) => OnItsWay(K)'
         /\ Head(cmd) \in C => Written(K)
<1>1. /\ Len(cmd) \in Nat /\ Len(cmd) >= 1
      /\ Len(cmd') = Len(cmd) - 1
      /\ Head(cmd) = cmd[1]
  OBVIOUS
<1>2. \A i \in 1..Len(cmd') : cmd'[i] = cmd[i + 1]
  OBVIOUS
<1>3. Written(K) => Written(K)'
  BY DEF Written
<1>4. \A i \in 1..Len(cmd) :
        cmd[i] \in K => Written(K)' \/ (i - 1 \in 1..Len(cmd') /\ cmd'[i - 1] \in K)
  <2> SUFFICES ASSUME NEW i \in 1..Len(cmd), cmd[i] \in K
               PROVE  Written(K)' \/ (i - 1 \in 1..Len(cmd') /\ cmd'[i - 1] \in K)
    OBVIOUS
  <2>1. CASE i = 1
    BY <1>1, <2>1 DEF Written
  <2>2. CASE i # 1
    <3>1. i - 1 \in 1..Len(cmd')
      BY <1>1, <2>2
    <3> QED BY <1>2, <3>1
  <2> QED BY <2>1, <2>2
<1>5. OnItsWay(K) => OnItsWay(K)'
  BY <1>3, <1>4 DEF OnItsWay, Queued
<1>6. Head(cmd) \in C => Written(K)
  BY <1>1 DEF Follows
<1>7. Follows(C, K)'
  <2> SUFFICES ASSUME NEW i \in 1..Len(cmd'), cmd'[i] \in C, ~Written(K)'
               PROVE  \E j \in 1..(i - 1) : cmd'[j] \in K
    BY DEF Follows
  <2>1. i + 1 \in 1..Len(cmd) /\ cmd[i + 1] \in C
    BY <1>1, <1>2
  <2>2. PICK j \in 1..i : cmd[j] \in K
    BY <1>3, <2>1 DEF Follows
  <2>3. j \in 1..Len(cmd)
    BY <2>1, <2>2
  <2>4. j - 1 \in 1..Len(cmd') /\ cmd'[j - 1] \in K
    BY <1>4, <2>2, <2>3
  <2>5. j - 1 \in 1..(i - 1)
    BY <2>2, <2>4, <1>1
  <2> QED BY <2>4, <2>5
<1> QED BY <1>5, <1>6, <1>7

\* The two orders together, as they change with the command channel.
Orders == /\ SdpBeforeCandidate /\ RegisterFirst
          /\ Follows(Candidate, Sdp) /\ Follows(AfterRegister, Register)

LEMMA SameOrders ==
  ASSUME Orders, UNCHANGED <<cmd, wire>>
  PROVE  /\ Orders'
         /\ OnItsWay(Sdp) => OnItsWay(Sdp)'
         /\ OnItsWay(Register) => OnItsWay(Register)'
BY SameOrder DEF Orders, SdpBeforeCandidate, RegisterFirst

\* An attempt without queued commands has nothing out of order.
LEMMA EmptyOrders ==
  ASSUME SdpBeforeCandidate', RegisterFirst', cmd' = <<>>
  PROVE  Orders'
BY DEF Orders, Follows

\* A send that fails, or that queues c where c may come next, keeps the orders.
LEMMA SendOrders ==
  ASSUME TypeOK, Orders, NEW c \in Commands, CmdSendOrIgnore(c), UNCHANGED wire,
         c = "candidate" /\ ~CmdClosed => OnItsWay(Sdp),
         c \in AfterRegister /\ ~CmdClosed => OnItsWay(Register)
  PROVE  /\ Orders'
         /\ OnItsWay(Sdp) \/ (c \in Sdp /\ ~CmdClosed) => OnItsWay(Sdp)'
         /\ OnItsWay(Register) \/ (c \in Register /\ ~CmdClosed) => OnItsWay(Register)'
<1>1. CASE CmdSend(c)
  <2>1. /\ cmd' = Append(cmd, c) /\ ~CmdClosed
        /\ cmd \in Seq(Commands)
        /\ c \in Candidate => OnItsWay(Sdp)
        /\ c \in AfterRegister => OnItsWay(Register)
        /\ Follows(Candidate, Sdp) /\ Follows(AfterRegister, Register)
    BY <1>1 DEF CmdSend, TypeOK, Orders, Candidate
  <2>2. /\ Follows(Candidate, Sdp)'
        /\ OnItsWay(Sdp) \/ c \in Sdp => OnItsWay(Sdp)'
    BY <2>1, AppendOrder
  <2>3. /\ Follows(AfterRegister, Register)'
        /\ OnItsWay(Register) \/ c \in Register => OnItsWay(Register)'
    BY <2>1, AppendOrder
  <2>4. SdpBeforeCandidate' /\ RegisterFirst'
    BY DEF Orders, SdpBeforeCandidate, RegisterFirst
  <2> QED BY <2>2, <2>3, <2>4 DEF Orders
<1>2. CASE CmdClosed /\ UNCHANGED cmd
  BY <1>2, SameOrders
<1> QED BY <1>1, <1>2 DEF CmdSendOrIgnore

USE DEF Goto

\* What the steps of connect_once, the WebRTC thread and the watchdog do to the
\* invariant while the attempt goes on: they send at most one command.
LEMMA SendersKeepOrder ==
  ASSUME OrderInv, NEW c \in Commands, CmdSendOrIgnore(c), UNCHANGED <<wire, sig>>,
         c = "candidate" /\ ~CmdClosed => OnItsWay(Sdp),
         c \in AfterRegister /\ ~CmdClosed => OnItsWay(Register),
         main # "sleep", main' # "sleep", PeerInv',
         main' = "set_local" => main = "set_local" \/ c \in Sdp \/ CmdClosed,
         cands' > 0 => cands > 0 \/ main = "set_local",
         cpp' = "candidate" => cpp = "candidate" \/ cands > 0,
         main' \in PeerStates \cup {"wait_accept"}
           => main \in PeerStates \cup {"wait_accept"} \/ c = "register"
  PROVE  PeerInv' /\ EmptyInv' /\ SdpInv' /\ RegisterInv'
<1>1. Orders
  BY DEF OrderInv, SdpInv, RegisterInv, Orders
<1>2. /\ Orders'
      /\ OnItsWay(Sdp) \/ (c \in Sdp /\ ~CmdClosed) => OnItsWay(Sdp)'
      /\ OnItsWay(Register) \/ (c \in Register /\ ~CmdClosed) => OnItsWay(Register)'
  BY <1>1, SendOrders DEF OrderInv
<1>3. CmdClosed' <=> CmdClosed
  BY DEF CmdClosed
<1>4. EmptyInv'
  BY <1>3 DEF OrderInv, EmptyInv, CmdSendOrIgnore, CmdSend
<1>5. SdpInv'
  BY <1>2, <1>3 DEF OrderInv, SdpInv, Orders
<1>6. RegisterInv'
  BY <1>2, <1>3 DEF OrderInv, RegisterInv, Orders, Register
<1> QED BY <1>4, <1>5, <1>6

\* The same for a step that sends nothing.
LEMMA OthersKeepOrder ==
  ASSUME OrderInv, UNCHANGED <<cmd, wire>>, CmdClosed' <=> CmdClosed,
         main # "sleep", main' # "sleep", PeerInv',
         main' = "set_local" => main = "set_local" \/ CmdClosed,
         cands' > 0 => cands > 0 \/ main = "set_local",
         cpp' = "candidate" => cpp = "candidate" \/ cands > 0,
         main' \in PeerStates \cup {"wait_accept"}
           => main \in PeerStates \cup {"wait_accept"}
  PROVE  EmptyInv' /\ SdpInv' /\ RegisterInv'
<1>1. Orders
  BY DEF OrderInv, SdpInv, RegisterInv, Orders
<1>2. /\ Orders'
      /\ OnItsWay(Sdp) => OnItsWay(Sdp)'
      /\ OnItsWay(Register) => OnItsWay(Register)'
  BY <1>1, SameOrders
<1>3. EmptyInv'
  BY DEF OrderInv, EmptyInv
<1>4. SdpInv'
  BY <1>2 DEF OrderInv, SdpInv, Orders
<1>5. RegisterInv'
  BY <1>2 DEF OrderInv, RegisterInv, Orders
<1> QED BY <1>3, <1>4, <1>5

\* connect_once returns: it does so without a PeerConnection, and empties everything.
LEMMA ReturnKeepsOrder ==
  ASSUME NEW base, Return(base), cpp = "idle"
  PROVE  PeerInv' /\ EmptyInv' /\ SdpInv' /\ RegisterInv'
<1>1. /\ cmd' = <<>> /\ wire' = {} /\ main' = "sleep" /\ sig' = "off"
      /\ dog' = "off" /\ cands' = 0 /\ cpp' = "idle" /\ ice' = "none"
  BY DEF Return
<1>2. SdpBeforeCandidate' /\ RegisterFirst'
  BY <1>1 DEF SdpBeforeCandidate, RegisterFirst
<1>3. Orders'
  BY <1>1, <1>2, EmptyOrders
<1>4. CmdClosed'
  BY <1>1 DEF CmdClosed
<1> QED BY <1>1, <1>3, <1>4 DEF PeerInv, EmptyInv, SdpInv, RegisterInv, Orders, PeerStates

\* The signaling task returns: no command is left.
LEMMA EndTaskKeepsOrder ==
  ASSUME OrderInv, NEW notes, EndTask(notes),
         UNCHANGED <<main, cpp, cands, ice, dog>>
  PROVE  PeerInv' /\ EmptyInv' /\ SdpInv' /\ RegisterInv'
<1>1. /\ cmd' = <<>> /\ sig' = "ending"
      /\ UNCHANGED <<wire, main, cpp, cands, ice, dog>>
  BY DEF EndTask
<1>2. SdpBeforeCandidate' /\ RegisterFirst'
  BY <1>1 DEF OrderInv, SdpInv, RegisterInv, SdpBeforeCandidate, RegisterFirst
<1>3. Orders'
  BY <1>1, <1>2, EmptyOrders
<1>4. CmdClosed'
  BY <1>1 DEF CmdClosed
<1> QED BY <1>1, <1>3, <1>4 DEF OrderInv, PeerInv, EmptyInv, SdpInv, RegisterInv, Orders

\* The signaling task takes a command: a text frame goes to the socket.
LEMMA TakeKeepsOrder ==
  ASSUME OrderInv, cmd # <<>>, cmd' = Tail(cmd),
         UNCHANGED <<main, cpp, cands, ice, dog>>, CmdClosed' => CmdClosed,
         wire' = wire \cup (IF Head(cmd) = "close" THEN {} ELSE {Head(cmd)})
  PROVE  PeerInv' /\ EmptyInv' /\ SdpInv' /\ RegisterInv'
<1>1. /\ cmd \in Seq(Commands) /\ Head(cmd) \in Commands
      /\ wire \subseteq wire' /\ wire' \subseteq wire \cup {Head(cmd)}
      /\ Follows(Candidate, Sdp) /\ Follows(AfterRegister, Register)
  BY TailType DEF OrderInv, TypeOK, SdpInv, RegisterInv
<1>2. /\ Head(cmd) \in Sdp => Head(cmd) \in wire'
      /\ Head(cmd) \in Register => Head(cmd) \in wire'
  BY DEF Sdp, Register
<1>3. /\ Follows(Candidate, Sdp)'
      /\ OnItsWay(Sdp) => OnItsWay(Sdp)'
      /\ Head(cmd) \in Candidate => Written(Sdp)
  BY <1>1, <1>2, TakeOrder
<1>4. /\ Follows(AfterRegister, Register)'
      /\ OnItsWay(Register) => OnItsWay(Register)'
      /\ Head(cmd) \in AfterRegister => Written(Register)
  BY <1>1, <1>2, TakeOrder
<1>5. SdpBeforeCandidate'
  BY <1>1, <1>3 DEF OrderInv, SdpInv, SdpBeforeCandidate, Written, Candidate
<1>6. RegisterFirst'
  <2>1. CASE wire' = wire
    BY <2>1 DEF OrderInv, RegisterInv, RegisterFirst
  <2>2. CASE Head(cmd) \in AfterRegister
    BY <1>1, <1>4, <2>2 DEF RegisterFirst, Written, Register
  <2>3. CASE Head(cmd) = "register"
    BY <2>3, <1>2 DEF RegisterFirst, Register
  <2> QED BY <1>1, <2>1, <2>2, <2>3 DEF Commands, AfterRegister, Register
<1>7. EmptyInv' /\ PeerInv'
  BY DEF OrderInv, EmptyInv, PeerInv
<1>8. SdpInv' /\ RegisterInv'
  <2>1. ~CmdClosed' => ~CmdClosed
    BY DEF OrderInv, EmptyInv
  <2> QED BY <2>1, <1>3, <1>4, <1>5, <1>6 DEF OrderInv, SdpInv, RegisterInv
<1> QED BY <1>7, <1>8

LEMMA MainOrder == OrderInv /\ MainStep => PeerInv' /\ EmptyInv' /\ SdpInv' /\ RegisterInv'
<1> SUFFICES ASSUME OrderInv, MainStep
             PROVE  PeerInv' /\ EmptyInv' /\ SdpInv' /\ RegisterInv'
  OBVIOUS
<1>1. CASE StartAttempt
  <2>1. /\ cmd' = <<>> /\ wire' = {} /\ main' = "wait_connected" /\ main = "sleep"
        /\ UNCHANGED <<cpp, cands, ice>>
    BY <1>1 DEF StartAttempt, OrderInv, EmptyInv
  <2>2. ~(cands > 0) /\ cpp = "idle" /\ ice = "none"
    BY <2>1 DEF OrderInv, PeerInv, PeerStates
  <2>3. Orders'
    BY <2>1, EmptyOrders DEF SdpBeforeCandidate, RegisterFirst
  <2> QED BY <2>1, <2>2, <2>3 DEF PeerInv, EmptyInv, SdpInv, RegisterInv, Orders, PeerStates
<1>2. CASE \/ RecvNotConnected \/ RecvReject \/ RecvErrorBeforeAccept
           \/ RecvClosedBeforeAccept \/ DropPeer
           \/ (SendRegister \/ RecvAccept) /\ ReconnectNow
  <2>1. cpp = "idle"
    BY <1>2 DEF RecvNotConnected, RecvReject, RecvErrorBeforeAccept,
       RecvClosedBeforeAccept, DropPeer, SendRegister, RecvAccept, WebRtcReady,
       OrderInv, PeerInv, PeerStates
  <2>2. Return(retry) \/ Return(0)
    BY <1>2 DEF RecvNotConnected, RecvReject, RecvErrorBeforeAccept,
       RecvClosedBeforeAccept, DropPeer, ReconnectNow, ReconnectLater
  <2> QED BY <2>1, <2>2, ReturnKeepsOrder
<1>3. CASE \/ RecvConnected \/ SkipBeforeAccept
           \/ RecvAccept /\ ~ReconnectNow
  <2>1. /\ UNCHANGED <<cmd, wire, sig, cpp, cands, ice>>
        /\ main \in {"wait_connected", "wait_accept"}
        /\ main' \in {"send_register", "wait_accept", "register_stats"}
        /\ main = "wait_connected" => main' = "send_register"
    BY <1>3 DEF RecvConnected, SkipBeforeAccept, RecvAccept
  <2>2. PeerInv' /\ (CmdClosed' <=> CmdClosed)
    BY <2>1 DEF OrderInv, PeerInv, PeerStates, CmdClosed
  <2>3. main' \in PeerStates \cup {"wait_accept"} => main \in PeerStates \cup {"wait_accept"}
    BY <2>1 DEF PeerStates
  <2> QED BY <2>1, <2>2, <2>3, OthersKeepOrder
<1>4. CASE RegisterStats \/ CreateAnswer \/ SetAnswer \/ AddCandidate \/ SetLocal
           \/ RecvMessage \/ RecvPing
  <2>1. /\ UNCHANGED <<cmd, wire, sig, cpp>>
        /\ main \in PeerStates /\ main' \in PeerStates /\ main' # "set_local"
        /\ cands' = cands \/ main = "set_local"
    BY <1>4 DEF RegisterStats, CreateAnswer, SetAnswer, AddCandidate, SetLocal,
       RecvMessage, RecvPing, PeerStates
  <2>2. PeerInv' /\ (CmdClosed' <=> CmdClosed)
    BY <2>1 DEF PeerInv, CmdClosed
  <2>3. main # "sleep" /\ main' # "sleep"
    BY <2>1 DEF PeerStates
  <2> QED BY <2>1, <2>2, <2>3, OthersKeepOrder
<1>5. CASE SendRegister /\ ~ReconnectNow
  <2>1. /\ CmdSendOrIgnore("register")
        /\ UNCHANGED <<wire, sig, cpp, cands, ice>>
        /\ main = "send_register" /\ main' = "wait_accept"
    BY <1>5 DEF SendRegister, CmdSendOrIgnore
  <2>2. PeerInv'
    BY <2>1 DEF OrderInv, PeerInv, PeerStates
  <2>3. "register" \in Commands /\ "register" \notin AfterRegister
    BY DEF Commands, Texts, AfterRegister, Register
  <2> QED BY <2>1, <2>2, <2>3, SendersKeepOrder
<1>6. CASE SendSdp \/ SendPong \/ SendClose
  <2>1. /\ UNCHANGED <<wire, sig, cpp, cands, ice>>
        /\ main \in PeerStates /\ main' \in PeerStates
        /\ main # "sleep" /\ main' # "sleep"
    BY <1>6 DEF SendSdp, SendPong, SendClose, PeerStates
  <2>2. PICK c \in {"offer", "answer", "pong", "close"} :
          /\ CmdSendOrIgnore(c)
          /\ main' = "set_local" => c \in Sdp
    BY <1>6 DEF SendSdp, SendPong, SendClose, CmdSendOrIgnore, Sdp
  <2>3. PeerInv' /\ c \in Commands
    BY <2>1 DEF PeerInv, Commands, Texts, Sdp
  <2>4. ~CmdClosed => OnItsWay(Register)
    BY <2>1 DEF OrderInv, RegisterInv
  <2> QED BY <2>1, <2>2, <2>3, <2>4, SendersKeepOrder
<1> QED BY <1>1, <1>2, <1>3, <1>4, <1>5, <1>6 DEF MainStep

LEMMA CppOrder == OrderInv /\ CppStep => PeerInv' /\ EmptyInv' /\ SdpInv' /\ RegisterInv'
<1> SUFFICES ASSUME OrderInv, CppStep
             PROVE  PeerInv' /\ EmptyInv' /\ SdpInv' /\ RegisterInv'
  OBVIOUS
<1>1. CASE Gather
  <2>1. /\ UNCHANGED <<main, cmd, wire, sig>> /\ cands > 0 /\ main \in PeerStates
    BY <1>1 DEF Gather, OrderInv, PeerInv
  <2>2. PeerInv' /\ (CmdClosed' <=> CmdClosed) /\ main # "sleep"
    BY <2>1 DEF PeerInv, CmdClosed, PeerStates
  <2> QED BY <2>1, <2>2, OthersKeepOrder
<1>2. CASE PcConnected \/ PcFailed
  <2>1. /\ UNCHANGED <<main, cmd, wire, sig, cands>> /\ cpp = "idle"
        /\ cpp' \in {"idle", "close"} /\ ice \in {"new", "connected"}
    BY <1>2 DEF PcConnected, PcFailed
  <2>2. main \in PeerStates
    BY <2>1 DEF OrderInv, PeerInv
  <2>3. PeerInv' /\ (CmdClosed' <=> CmdClosed) /\ main # "sleep"
    BY <2>1, <2>2 DEF PeerInv, CmdClosed, PeerStates
  <2> QED BY <2>1, <2>3, OthersKeepOrder
<1>3. CASE CppSend
  <2>1. /\ UNCHANGED <<main, wire, sig, cands>> /\ CmdSendOrIgnore(cpp) /\ cpp' = "idle"
        /\ main \in PeerStates /\ cpp \in {"candidate", "close"}
    BY <1>3 DEF CppSend, OrderInv, PeerInv, TypeOK
  <2>2. PeerInv' /\ cpp \in Commands /\ main # "sleep"
    BY <2>1 DEF PeerInv, Commands, Texts, PeerStates
  <2>3. /\ cpp = "candidate" /\ ~CmdClosed => OnItsWay(Sdp)
        /\ ~CmdClosed => OnItsWay(Register)
    BY <2>1 DEF OrderInv, SdpInv, RegisterInv
  <2> QED BY <2>1, <2>2, <2>3, SendersKeepOrder
<1> QED BY <1>1, <1>2, <1>3 DEF CppStep

LEMMA DogOrder == OrderInv /\ DogStep => PeerInv' /\ EmptyInv' /\ SdpInv' /\ RegisterInv'
<1> SUFFICES ASSUME OrderInv, DogStep
             PROVE  PeerInv' /\ EmptyInv' /\ SdpInv' /\ RegisterInv'
  OBVIOUS
<1>1. CASE Expire \/ DogPoll
  <2>1. UNCHANGED <<main, cmd, wire, sig, cpp, cands, ice>>
    BY <1>1 DEF Expire, DogPoll
  <2>2. PeerInv' /\ (CmdClosed' <=> CmdClosed) /\ (dog = "off" => dog' = "off")
    BY <1>1, <2>1 DEF OrderInv, PeerInv, CmdClosed, DogPoll, Expire
  <2>3. Orders /\ UNCHANGED <<cmd, wire>>
    BY <2>1 DEF OrderInv, SdpInv, RegisterInv, Orders
  <2> QED BY <2>1, <2>2, <2>3, SameOrders
          DEF OrderInv, EmptyInv, SdpInv, RegisterInv, Orders
<1>2. CASE DogSend
  <2>1. /\ UNCHANGED <<main, wire, sig, cpp, cands, ice>> /\ CmdSendOrIgnore("close")
        /\ main # "sleep"
    BY <1>2 DEF DogSend, OrderInv, EmptyInv
  <2>2. PeerInv' /\ "close" \in Commands /\ "close" \notin AfterRegister
    BY <2>1 DEF OrderInv, PeerInv, Commands, AfterRegister, Texts, Sdp
  <2> QED BY <2>1, <2>2, SendersKeepOrder DEF Sdp
<1> QED BY <1>1, <1>2 DEF DogStep

LEMMA SigOrder == OrderInv /\ SigStep => PeerInv' /\ EmptyInv' /\ SdpInv' /\ RegisterInv'
<1> SUFFICES ASSUME OrderInv, SigStep
             PROVE  PeerInv' /\ EmptyInv' /\ SdpInv' /\ RegisterInv'
  OBVIOUS
<1>1. CASE Handshake \/ ReadFrame \/ CloseTimer \/ NotifySend
  <2>1. /\ UNCHANGED <<main, cmd, wire, cpp, cands, ice, dog>>
        /\ CmdClosed' <=> CmdClosed
    BY <1>1 DEF Handshake, ReadFrame, CloseTimer, NotifySend, CmdClosed
  <2>2. Orders /\ UNCHANGED <<cmd, wire>>
    BY <2>1 DEF OrderInv, SdpInv, RegisterInv, Orders
  <2> QED BY <2>1, <2>2, SameOrders
          DEF OrderInv, PeerInv, EmptyInv, SdpInv, RegisterInv, Orders
<1>2. CASE ReadEnd \/ Fails
  BY <1>2, EndTaskKeepsOrder DEF ReadEnd, Fails
<1>3. CASE TakeText \/ TakeClose
  <2>1. CASE EndTask(<<"error", "closed">>)
    BY <1>3, <2>1, EndTaskKeepsOrder DEF TakeText, TakeClose
  <2>2. CASE ~EndTask(<<"error", "closed">>)
    <3>1. /\ cmd # <<>> /\ cmd' = Tail(cmd)
          /\ UNCHANGED <<main, cpp, cands, ice, dog>>
          /\ wire' = wire \cup (IF Head(cmd) = "close" THEN {} ELSE {Head(cmd)})
      BY <1>3, <2>2 DEF TakeText, TakeClose
    <3>2. CmdClosed' => CmdClosed
      BY <1>3, <2>2 DEF TakeText, TakeClose, CmdClosed
    <3> QED BY <3>1, <3>2, TakeKeepsOrder
  <2> QED BY <2>1, <2>2
<1> QED BY <1>1, <1>2, <1>3 DEF SigStep

LEMMA OrderInit == Init => OrderInv
<1> SUFFICES ASSUME Init PROVE OrderInv
  OBVIOUS
<1>1. cmd = <<>> /\ wire = {} /\ main = "wait_connected" /\ sig = "tcp"
      /\ cands = 0 /\ cpp = "idle" /\ ice = "none"
  BY DEF Init
<1>2. TypeOK
  BY TypeInit
<1> QED BY <1>1, <1>2 DEF OrderInv, PeerInv, EmptyInv, SdpInv, RegisterInv,
           SdpBeforeCandidate, RegisterFirst, Follows, CmdClosed, PeerStates

LEMMA OrderNext == OrderInv /\ [Next]_vars => OrderInv'
<1> SUFFICES ASSUME OrderInv, [Next]_vars PROVE OrderInv'
  OBVIOUS
<1>1. TypeOK'
  BY TypeNext DEF OrderInv
<1>2. CASE UNCHANGED vars
  <2>1. Orders /\ UNCHANGED <<cmd, wire>>
    BY <1>2 DEF OrderInv, SdpInv, RegisterInv, Orders, vars
  <2> QED BY <1>1, <1>2, <2>1, SameOrders
          DEF OrderInv, PeerInv, EmptyInv, SdpInv, RegisterInv, Orders, vars, CmdClosed
<1>3. CASE Next
  <2>1. PeerInv' /\ EmptyInv' /\ SdpInv' /\ RegisterInv'
    BY <1>3, MainOrder, CppOrder, DogOrder, SigOrder DEF Next
  <2> QED BY <1>1, <2>1 DEF OrderInv
<1> QED BY <1>2, <1>3

\* However its threads and tasks interleave, an attempt never writes a candidate
\* before a description.
THEOREM SdpGoesFirst == Spec => []SdpBeforeCandidate
<1>1. OrderInv => SdpBeforeCandidate
  BY DEF OrderInv, SdpInv
<1> QED BY <1>1, OrderInit, OrderNext, PTL DEF Spec

\* However its threads and tasks interleave, an attempt writes its register first.
THEOREM RegisterGoesFirst == Spec => []RegisterFirst
<1>1. OrderInv => RegisterFirst
  BY DEF OrderInv, RegisterInv
<1> QED BY <1>1, OrderInit, OrderNext, PTL DEF Spec

--------------------------------------------------------------------------------
(* Refinement: every step of the client is a step of ReconnectLoop or a    *)
(* stutter.                                                                *)

\* The end of an attempt is Fail before the WebSocket is open and Lose after.
LEMMA ReturnImplements ==
  ASSUME TypeOK, NEW base \in {0, retry}, Return(base), main # "sleep",
         main = "wait_connected" => base = retry
  PROVE  Loop!Next
<1>1. base \in 0..RetryMax
  BY AyameAssumption DEF TypeOK
<1>2. Loop!WaitFrom(base)
  <2>1. Phase' = "waiting"
    BY DEF Return, Phase
  <2>2. wait' = [r \in 0..RetryMax |-> WaitSeconds(r)][base]
    BY <1>1 DEF Return
  <2>3. retry' = Loop!Saturating(base)
    BY DEF Return, Saturating, Loop!Saturating
  <2> QED BY <2>1, <2>2, <2>3 DEF Loop!WaitFrom
<1>3. CASE main = "wait_connected"
  <2>1. Phase = "connecting"
    BY <1>3 DEF Phase
  <2> QED BY <1>2, <1>3, <2>1 DEF Loop!Next, Loop!Fail
<1>4. CASE main # "wait_connected"
  <2>1. Phase = "established"
    BY <1>4 DEF Phase
  <2> QED BY <1>2, <2>1 DEF Loop!Next, Loop!Lose
<1> QED BY <1>3, <1>4

\* A step within an attempt that leaves the counter and the wait alone.
LEMMA WithinImplements ==
  ASSUME UNCHANGED loop,
         \/ main' = main
         \/ main' # "wait_connected" /\ main' # "sleep" /\ main # "sleep"
  PROVE  [Loop!Next]_(Loop!vars)
<1>1. UNCHANGED <<retry, wait>>
  OBVIOUS
<1>2. CASE main = "wait_connected" /\ main' # main
  <2>1. Phase = "connecting" /\ Phase' = "established"
    BY <1>2 DEF Phase
  <2> QED BY <1>1, <2>1 DEF Loop!Next, Loop!Establish
<1>3. CASE main' = main \/ main # "wait_connected"
  <2>1. Phase' = Phase
    BY <1>3 DEF Phase
  <2> QED BY <1>1, <2>1 DEF Loop!vars
<1> QED BY <1>2, <1>3

LEMMA StepImplements == TypeOK /\ [Next]_vars => [Loop!Next]_(Loop!vars)
<1> SUFFICES ASSUME TypeOK, [Next]_vars PROVE [Loop!Next]_(Loop!vars)
  OBVIOUS
<1>1. CASE StartAttempt
  <2>1. Phase = "waiting" /\ Phase' = "connecting" /\ wait' = 0 /\ retry' = retry
    BY <1>1 DEF StartAttempt, Phase
  <2> QED BY <2>1 DEF Loop!Next, Loop!Again
<1>2. CASE RecvNotConnected
  BY <1>2, ReturnImplements DEF RecvNotConnected, ReconnectLater
<1>3. CASE \/ RecvReject \/ RecvErrorBeforeAccept \/ RecvClosedBeforeAccept
           \/ DropPeer
           \/ (SendRegister \/ RecvAccept) /\ ReconnectNow
  <2>1. main \in {"wait_accept", "drop_peer", "send_register"}
    BY <1>3 DEF RecvReject, RecvErrorBeforeAccept, RecvClosedBeforeAccept, DropPeer,
       SendRegister, RecvAccept
  <2>2. Return(retry) \/ Return(0)
    BY <1>3 DEF RecvReject, RecvErrorBeforeAccept, RecvClosedBeforeAccept, DropPeer,
       ReconnectNow, ReconnectLater
  <2> QED BY <2>1, <2>2, ReturnImplements
<1>4. CASE \/ RecvConnected \/ SkipBeforeAccept
           \/ (SendRegister \/ RecvAccept) /\ ~ReconnectNow
           \/ RegisterStats \/ CreateAnswer \/ SendSdp \/ SetLocal
           \/ RecvMessage \/ RecvPing \/ SendPong \/ SetAnswer \/ AddCandidate
           \/ SendClose
  <2>1. UNCHANGED loop
    BY <1>4 DEF RecvConnected, SkipBeforeAccept, SendRegister, RecvAccept,
       RegisterStats, CreateAnswer, SendSdp, SetLocal, RecvMessage, RecvPing, SendPong,
       SetAnswer, AddCandidate, SendClose
  <2>2. main' # "wait_connected" /\ main' # "sleep" /\ main # "sleep"
    BY <1>4 DEF RecvConnected, SkipBeforeAccept, SendRegister, RecvAccept,
       RegisterStats, CreateAnswer, SendSdp, SetLocal, RecvMessage, RecvPing, SendPong,
       SetAnswer, AddCandidate, SendClose
  <2> QED BY <2>1, <2>2, WithinImplements
<1>5. CASE CppStep \/ DogStep \/ SigStep \/ UNCHANGED vars
  <2>1. UNCHANGED <<main, retry, wait>>
    BY <1>5 DEF CppStep, Gather, PcConnected, PcFailed, CppSend, DogStep, Expire,
       DogPoll, DogSend, SigStep, Handshake, ReadFrame, ReadEnd, Fails, TakeText,
       TakeClose, CloseTimer, NotifySend, vars
  <2> QED BY <2>1, WithinImplements
<1> QED BY <1>1, <1>2, <1>3, <1>4, <1>5 DEF Next, MainStep

\* The client backs off as ReconnectLoop says: attempts that never open their
\* WebSocket wait along WaitSeconds, and only an open one starts the count over.
THEOREM BacksOff == Spec => Loop!Init /\ [][Loop!Next]_(Loop!vars)
<1>1. Init => Loop!Init
  BY DEF Init, Loop!Init, Phase
<1>2. TypeOK /\ [Next]_vars => [Loop!Next]_(Loop!vars)
  BY StepImplements
<1> QED BY <1>1, <1>2, TypeCorrect, PTL DEF Spec
================================================================================
