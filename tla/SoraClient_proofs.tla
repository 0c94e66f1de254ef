--------------------------- MODULE SoraClient_proofs ---------------------------
(***************************************************************************)
(* Proofs about SoraClient: its types, that the window shows the tracks of *)
(* the connection, and that its reconnect loop is ReconnectLoop.           *)
(***************************************************************************)
EXTENDS SoraClient, TLAPS

\* What the queue of commands will make of the cells, id by id: the last command
\* about an id decides, and the cells do where there is none.
Live(entries) == {e \in entries : e.sink \notin orphans}
NoneAbout(id) == \A i \in 1..Len(cmds) : cmds[i].id # id
LastAbout(i, id) ==
  /\ i \in 1..Len(cmds)
  /\ cmds[i].id = id
  /\ \A j \in 1..Len(cmds) : j > i => cmds[j].id # id
Outcome(c) == IF c.op = "add" THEN Live({[id |-> c.id, sink |-> c.sink]}) ELSE {}

Settled(id) ==
  /\ NoneAbout(id) => Live(WithId(cells, id)) = WithId(registry, id)
  /\ \A i \in 1..Len(cmds) : LastAbout(i, id) => Outcome(cmds[i]) = WithId(registry, id)

WindowInv == main = "display" => \A id \in Tracks : Settled(id)

--------------------------------------------------------------------------------
(* Types.                                                                  *)

\* What Tell leaves in the queue while the window is open.
LEMMA Told ==
  ASSUME TypeOK, NEW c \in Commands, Tell(c)
  PROVE  /\ cmds' \in Seq(Commands)
         /\ main = "display" =>
              /\ Len(cmds') = Len(cmds) + 1
              /\ \A i \in 1..Len(cmds) : cmds'[i] = cmds[i]
              /\ cmds'[Len(cmds) + 1] = c
<1>1. cmds \in Seq(Commands)
  BY DEF TypeOK
<1>2. CASE main = "display"
  <2>1. cmds' = Append(cmds, c)
    BY <1>2 DEF Tell
  <2> QED BY <1>1, <2>1
<1>3. CASE main # "display"
  BY <1>1, <1>3 DEF Tell
<1> QED BY <1>2, <1>3

\* What is left of the queue when a command is taken.
LEMMA Taken ==
  ASSUME TypeOK, cmds # <<>>, cmds' = Tail(cmds)
  PROVE  /\ cmds' \in Seq(Commands)
         /\ Len(cmds) \in Nat /\ Len(cmds) >= 1
         /\ Len(cmds') = Len(cmds) - 1
         /\ \A i \in 1..Len(cmds') : cmds'[i] = cmds[i + 1]
         /\ Head(cmds) = cmds[1] /\ Head(cmds) \in Commands
<1>1. cmds \in Seq(Commands)
  BY DEF TypeOK
<1> QED BY <1>1

LEMMA TypeInit == Init => TypeOK
<1> SUFFICES ASSUME Init PROVE TypeOK
  OBVIOUS
<1>1. registry = {} /\ cells = {} /\ orphans = {}
  BY DEF Init
<1>2. cmds \in Seq(Commands) /\ retry \in 0..RetryMax /\ wait \in Nat
  BY SoraAssumption DEF Init
<1>3. connected = FALSE /\ stop = FALSE /\ shutdown = FALSE /\ result = FALSE
  BY DEF Init
<1>4. loop = "prepare" /\ main = "display"
  BY DEF Init
<1> QED BY <1>1, <1>2, <1>3, <1>4 DEF TypeOK

\* Ids stay unique: an entry is put in only where none of its id is.
LEMMA OneEach ==
  ASSUME NEW entries, entries \subseteq Entries, NEW id \in Tracks, NEW s \in Sinks,
         \A e, f \in entries : e.id = f.id => e = f,
         NEW new, new = (entries \ WithId(entries, id)) \cup {[id |-> id, sink |-> s]}
  PROVE  new \subseteq Entries /\ \A e, f \in new : e.id = f.id => e = f
BY DEF WithId, Entries

LEMMA SoraTypes ==
  ASSUME TypeOK, SoraStep \/ ConnectEnds \/ MarkConnected
  PROVE  TypeOK'
<1>1. WaitSeconds(0) \in Nat /\ WaitSeconds(retry) \in Nat
  BY SoraAssumption DEF TypeOK, WaitSeconds
<1>2. Saturating(0) \in 0..RetryMax /\ Saturating(retry) \in 0..RetryMax
  BY SoraAssumption DEF TypeOK, Saturating
<1>3. CASE ConnectEnds
  <2>1. retry' \in 0..RetryMax /\ wait' \in Nat
    BY <1>1, <1>2, <1>3 DEF ConnectEnds, WaitFrom, TypeOK
  <2>2. {e.sink : e \in registry} \subseteq Sinks
    BY DEF TypeOK, Entries
  <2> QED BY <1>3, <2>1, <2>2 DEF ConnectEnds, TypeOK, display
<1>4. CASE MarkConnected
  BY <1>4 DEF MarkConnected, TypeOK, display
<1>5. CASE SoraStep
  <2>1. UNCHANGED <<retry, connected, registry, cmds, main, cells, stop, orphans>>
    BY <1>5 DEF SoraStep, Prepare, Check, WaitOver, Notify, Finish, display
  <2>2. /\ loop' \in {"check", "connect", "over", "notified", "exited"}
        /\ ~connected /\ wait' \in Nat
    BY <1>5 DEF SoraStep, Prepare, Check, WaitOver, Notify, Finish, TypeOK
  <2>3. shutdown' \in BOOLEAN /\ result' \in BOOLEAN
    BY <1>5 DEF SoraStep, Prepare, Check, WaitOver, Notify, Finish, TypeOK
  <2> QED BY <2>1, <2>2, <2>3 DEF TypeOK
<1> QED BY <1>3, <1>4, <1>5

LEMMA CallbackTypes ==
  ASSUME TypeOK, NEW id \in Tracks, OnTrack(id) \/ OnRemoveTrack(id)
  PROVE  TypeOK'
<1>1. CASE OnTrack(id)
  <2>1. PICK s \in Sinks \ Used :
          /\ registry' = (registry \ WithId(registry, id)) \cup {[id |-> id, sink |-> s]}
          /\ Tell([op |-> "add", id |-> id, sink |-> s])
          /\ orphans' = orphans \ {s}
    BY <1>1 DEF OnTrack
  <2>2. cmds' \in Seq(Commands)
    BY <2>1, Told DEF Commands
  <2>3. registry' \subseteq Entries /\ \A e, f \in registry' : e.id = f.id => e = f
    BY <2>1, OneEach, SMTT(30) DEF TypeOK
  <2>4. loop' = "connect" /\ connected' = TRUE
    BY <1>1 DEF OnTrack
  <2> QED BY <1>1, <2>1, <2>2, <2>3, <2>4 DEF OnTrack, TypeOK, display
<1>2. CASE OnRemoveTrack(id)
  <2>1. cmds' \in Seq(Commands)
    BY <1>2, Told DEF OnRemoveTrack, Commands
  <2>2. registry' \subseteq registry
    BY <1>2 DEF OnRemoveTrack
  <2> QED BY <1>2, <2>1, <2>2 DEF OnRemoveTrack, TypeOK, sora, display
<1> QED BY <1>1, <1>2

LEMMA MainTypes ==
  ASSUME TypeOK, MainStep \/ CloseWindow
  PROVE  TypeOK'
<1>1. CASE HandleCommand
  <2>1. cmds' \in Seq(Commands) /\ Head(cmds) \in Commands
    BY <1>1, Taken DEF HandleCommand
  <2>2. cells' \subseteq Entries /\ \A c, d \in cells' : c.id = d.id => c = d
    <3>1. CASE Head(cmds).op = "remove"
      <4>1. cells' \subseteq cells
        BY <1>1, <3>1 DEF HandleCommand
      <4> QED BY <4>1 DEF TypeOK
    <3>2. CASE Head(cmds).op # "remove"
      <4>1. Head(cmds).id \in Tracks /\ Head(cmds).sink \in Sinks
        BY <2>1, <3>2 DEF Commands
      <4>2. cells' = (cells \ WithId(cells, Head(cmds).id))
                       \cup {[id |-> Head(cmds).id, sink |-> Head(cmds).sink]}
        BY <1>1, <3>2 DEF HandleCommand
      <4>3. cells \subseteq Entries /\ \A c, d \in cells : c.id = d.id => c = d
        BY DEF TypeOK
      <4> QED BY <4>1, <4>2, <4>3, OneEach
    <3> QED BY <3>1, <3>2
  <2> QED BY <1>1, <2>1, <2>2 DEF HandleCommand, TypeOK, sora
<1>2. CASE Break
  <2>1. cmds' \in Seq(Commands)
    BY <1>2 DEF Break
  <2> QED BY <1>2, <2>1 DEF Break, TypeOK, sora
<1>3. CASE SetStop \/ Return
  <2>1. UNCHANGED <<loop, retry, wait, connected, shutdown, result, registry, cmds, cells, orphans>>
    BY <1>3 DEF SetStop, Return, sora
  <2>2. main' \in {"recv", "exited"} /\ stop' \in BOOLEAN
    BY <1>3 DEF SetStop, Return, TypeOK
  <2> QED BY <2>1, <2>2 DEF TypeOK
<1> QED BY <1>1, <1>2, <1>3 DEF MainStep, CloseWindow, SeeShutdown

LEMMA TypeNext == TypeOK /\ [Next]_vars => TypeOK'
<1> SUFFICES ASSUME TypeOK, [Next]_vars PROVE TypeOK'
  OBVIOUS
<1>1. CASE UNCHANGED vars
  BY <1>1 DEF TypeOK, vars, sora, display
<1>2. CASE Next
  BY <1>2, SoraTypes, CallbackTypes, MainTypes DEF Next
<1> QED BY <1>1, <1>2

\* The states of both threads have their types: among them, the registry and the
\* window hold one entry for each id.
THEOREM TypeCorrect == Spec => []TypeOK
BY TypeInit, TypeNext, PTL DEF Spec

--------------------------------------------------------------------------------
(* The window.                                                             *)

LEMMA WindowInit == Init => WindowInv
BY DEF Init, WindowInv, Settled, NoneAbout, LastAbout, Live, WithId

\* The handler goes: all its sinks are orphans, and no id has an entry left.
LEMMA ConnectEndsSettled ==
  ASSUME TypeOK, WindowInv, ConnectEnds, main = "display", NEW id \in Tracks
  PROVE  Settled(id)'
<1>1. UNCHANGED <<cmds, cells>> /\ registry' = {}
  BY DEF ConnectEnds, display
<1>2. orphans \subseteq orphans' /\ \A e \in registry : e.sink \in orphans'
  BY DEF ConnectEnds
<1>3. Settled(id)
  BY DEF WindowInv
<1>4. NoneAbout(id)' => Live(WithId(cells, id))' = {}
  BY <1>1, <1>2, <1>3 DEF Settled, NoneAbout, Live, WithId
<1>5. \A i \in 1..Len(cmds) : LastAbout(i, id)' => Outcome(cmds[i])' = {}
  BY <1>1, <1>2, <1>3 DEF Settled, LastAbout, Outcome, Live, WithId
<1>6. WithId(registry, id)' = {}
  BY <1>1 DEF WithId
<1> QED BY <1>1, <1>4, <1>5, <1>6 DEF Settled

\* A command is queued about tid, and the registry changes at tid accordingly; a
\* sink that is no orphan any more was nobody's before.
LEMMA ToldSettled ==
  ASSUME TypeOK, WindowInv, main = "display", NEW tid \in Tracks, NEW c \in Commands,
         c.id = tid, Tell(c), UNCHANGED cells, orphans' \subseteq orphans,
         \A s \in orphans \ orphans' : s \notin Used,
         \A id \in Tracks \ {tid} : WithId(registry', id) = WithId(registry, id),
         Outcome(c)' = WithId(registry', tid),
         NEW id \in Tracks
  PROVE  Settled(id)'
<1>1. /\ Len(cmds') = Len(cmds) + 1 /\ Len(cmds) \in Nat
      /\ \A i \in 1..Len(cmds) : cmds'[i] = cmds[i]
      /\ cmds'[Len(cmds) + 1] = c
  BY Told DEF TypeOK
<1>2. Settled(id)
  BY DEF WindowInv
<1>3. CASE id = tid
  <2>1. ~NoneAbout(id)'
    BY <1>1, <1>3 DEF NoneAbout
  <2>2. ASSUME NEW i \in 1..Len(cmds'), LastAbout(i, id)' PROVE cmds'[i] = c
    BY <1>1, <1>3, <2>2 DEF LastAbout
  <2> QED BY <1>3, <2>1, <2>2 DEF Settled
<1>4. CASE id # tid
  <2>1. WithId(registry, id)' = WithId(registry, id)
    BY <1>4 DEF WithId
  <2>2. NoneAbout(id)' => NoneAbout(id)
    BY <1>1 DEF NoneAbout
  <2>3. Live(WithId(cells, id))' = Live(WithId(cells, id))
    BY DEF Live, WithId, Used
  <2>4. ASSUME NEW i \in 1..Len(cmds'), LastAbout(i, id)'
        PROVE  Outcome(cmds[i])' = WithId(registry, id)
    <3>1. i \in 1..Len(cmds) /\ LastAbout(i, id) /\ cmds'[i] = cmds[i]
      BY <1>1, <1>4, <2>4 DEF LastAbout
    <3>2. cmds[i].op = "add" => cmds[i].sink \in Used
      BY <3>1, <1>1 DEF Used, TypeOK
    <3>3. cmds[i].op = "add" => (cmds[i].sink \in orphans' <=> cmds[i].sink \in orphans)
      BY <3>2
    <3>4. Outcome(cmds[i])' = Outcome(cmds[i])
      <4>1. CASE cmds[i].op # "add"
        BY <3>1, <4>1 DEF Outcome
      <4>2. CASE cmds[i].op = "add"
        <5> DEFINE e == [id |-> cmds[i].id, sink |-> cmds[i].sink]
        <5>1. Live({e})' = Live({e})
          BY <3>1, <3>3, <4>2 DEF Live
        <5> QED BY <3>1, <4>2, <5>1 DEF Outcome
      <4> QED BY <4>1, <4>2
    <3> QED BY <1>2, <3>1, <3>4 DEF Settled
  <2> QED BY <1>2, <2>1, <2>2, <2>3, <2>4 DEF Settled
<1> QED BY <1>3, <1>4

LEMMA CallbackSettled ==
  ASSUME TypeOK, WindowInv, main = "display", NEW tid \in Tracks,
         OnTrack(tid) \/ OnRemoveTrack(tid), NEW id \in Tracks
  PROVE  Settled(id)'
<1>1. CASE OnTrack(tid)
  <2>1. PICK s \in Sinks \ Used :
          /\ registry' = (registry \ WithId(registry, tid)) \cup {[id |-> tid, sink |-> s]}
          /\ Tell([op |-> "add", id |-> tid, sink |-> s])
          /\ orphans' = orphans \ {s}
    BY <1>1 DEF OnTrack
  <2> DEFINE c == [op |-> "add", id |-> tid, sink |-> s]
  <2>2. c \in Commands /\ c.id = tid
    BY DEF Commands
  <2>3. UNCHANGED cells
    BY <1>1 DEF OnTrack, display
  <2>4. \A i \in Tracks \ {tid} : WithId(registry', i) = WithId(registry, i)
    BY <2>1 DEF WithId
  <2>5. WithId(registry', tid) = {[id |-> tid, sink |-> s]}
    BY <2>1 DEF WithId
  <2>6. Outcome(c)' = {[id |-> tid, sink |-> s]}
    BY <2>1 DEF Outcome, Live
  <2> QED BY <2>1, <2>2, <2>3, <2>4, <2>5, <2>6, ToldSettled
<1>2. CASE OnRemoveTrack(tid)
  <2> DEFINE c == [op |-> "remove", id |-> tid]
  <2>1. c \in Commands /\ c.id = tid /\ Tell(c)
    BY <1>2 DEF Commands, OnRemoveTrack
  <2>2. UNCHANGED <<cells, orphans>> /\ registry' = registry \ WithId(registry, tid)
    BY <1>2 DEF OnRemoveTrack, display
  <2>3. \A i \in Tracks \ {tid} : WithId(registry', i) = WithId(registry, i)
    BY <2>2 DEF WithId
  <2>4. Outcome(c)' = {} /\ WithId(registry', tid) = {}
    BY <2>2 DEF Outcome, WithId
  <2> QED BY <2>1, <2>2, <2>3, <2>4, ToldSettled
<1> QED BY <1>1, <1>2

LEMMA HandleSettled ==
  ASSUME TypeOK, WindowInv, HandleCommand, NEW id \in Tracks
  PROVE  Settled(id)'
<1>1. main = "display" /\ cmds # <<>> /\ cmds' = Tail(cmds)
  BY DEF HandleCommand
<1>2. /\ Len(cmds) \in Nat /\ Len(cmds) >= 1 /\ Len(cmds') = Len(cmds) - 1
      /\ \A i \in 1..Len(cmds') : cmds'[i] = cmds[i + 1]
      /\ Head(cmds) = cmds[1] /\ Head(cmds) \in Commands
  BY <1>1, Taken
<1>3. Settled(id) /\ UNCHANGED <<registry, orphans>>
  BY <1>1 DEF WindowInv, HandleCommand
<1>4. ASSUME NEW i \in 1..Len(cmds'), LastAbout(i, id)'
      PROVE  Outcome(cmds[i])' = WithId(registry, id)
  <2>1. i + 1 \in 1..Len(cmds) /\ LastAbout(i + 1, id) /\ cmds'[i] = cmds[i + 1]
    <3>1. \A j \in 1..Len(cmds) : j > i + 1 => cmds[j].id # id
      <4>1. ASSUME NEW j \in 1..Len(cmds), j > i + 1 PROVE cmds[j].id # id
        <5>1. j - 1 \in 1..Len(cmds') /\ j - 1 > i /\ cmds'[j - 1] = cmds[j]
          BY <1>2, <4>1
        <5> QED BY <1>4, <5>1 DEF LastAbout
      <4> QED BY <4>1
    <3> QED BY <1>2, <1>4, <3>1 DEF LastAbout
  <2> QED BY <1>3, <2>1 DEF Settled, Outcome, Live
<1>5. ASSUME NoneAbout(id)' PROVE Live(WithId(cells, id))' = WithId(registry, id)
  <2>1. \A j \in 2..Len(cmds) : cmds[j].id # id
    <3>1. ASSUME NEW j \in 2..Len(cmds) PROVE cmds[j].id # id
      <4>1. j - 1 \in 1..Len(cmds') /\ cmds'[j - 1] = cmds[j]
        BY <1>2, <3>1
      <4> QED BY <1>5, <4>1 DEF NoneAbout
    <3> QED BY <3>1
  <2>2. CASE Head(cmds).id # id
    <3>1. NoneAbout(id)
      BY <1>2, <2>1, <2>2 DEF NoneAbout
    <3>2. WithId(cells, id)' = WithId(cells, id)
      BY <2>2 DEF HandleCommand, WithId
    <3> QED BY <1>3, <3>1, <3>2 DEF Settled, Live
  <2>3. CASE Head(cmds).id = id
    <3>1. LastAbout(1, id)
      BY <1>2, <2>1, <2>3 DEF LastAbout
    <3>2. Outcome(Head(cmds)) = WithId(registry, id)
      BY <1>2, <1>3, <3>1 DEF Settled
    <3>3. CASE Head(cmds).op = "remove"
      <4>1. WithId(cells, id)' = {}
        BY <2>3, <3>3 DEF HandleCommand, WithId
      <4> QED BY <3>2, <3>3, <4>1 DEF Outcome, Live
    <3>4. CASE Head(cmds).op # "remove"
      <4>1. Head(cmds).op = "add"
        BY <1>2, <3>4 DEF Commands
      <4>2. WithId(cells, id)' = {[id |-> id, sink |-> Head(cmds).sink]}
        BY <2>3, <3>4 DEF HandleCommand, WithId
      <4> QED BY <1>3, <2>3, <3>2, <4>1, <4>2 DEF Outcome, Live
    <3> QED BY <3>3, <3>4
  <2> QED BY <2>2, <2>3
<1>6. WithId(registry, id)' = WithId(registry, id)
  BY <1>3 DEF WithId
<1> QED BY <1>4, <1>5, <1>6 DEF Settled

LEMMA WindowNext == TypeOK /\ WindowInv /\ [Next]_vars => WindowInv'
<1> SUFFICES ASSUME TypeOK, WindowInv, [Next]_vars, main' = "display", NEW id \in Tracks
             PROVE  Settled(id)'
  BY DEF WindowInv
<1>1. CASE SoraStep \/ MarkConnected \/ UNCHANGED vars
  <2>1. UNCHANGED <<main, cells, cmds, registry, orphans>>
    BY <1>1 DEF SoraStep, Prepare, Check, WaitOver, Notify, Finish, MarkConnected,
       vars, display
  <2> QED BY <2>1 DEF WindowInv, Settled, NoneAbout, LastAbout, Outcome, Live, WithId
<1>2. CASE ConnectEnds
  BY <1>2, ConnectEndsSettled DEF ConnectEnds, display
<1>3. ASSUME NEW tid \in Tracks, OnTrack(tid) \/ OnRemoveTrack(tid) PROVE Settled(id)'
  BY <1>3, CallbackSettled DEF OnTrack, OnRemoveTrack, display
<1>4. CASE HandleCommand
  BY <1>4, HandleSettled
<1>5. CASE SeeShutdown \/ CloseWindow \/ SetStop \/ Return
  BY <1>5 DEF SeeShutdown, CloseWindow, Break, SetStop, Return
<1> QED BY <1>1, <1>2, <1>3, <1>4, <1>5 DEF Next, MainStep

\* Whatever the tracks, renegotiations and reconnects: a window that has read all
\* its commands shows the tracks of the connection, each with its own sink.
THEOREM WindowShowsTracks == Spec => []CellsShowTracks
<1>1. TypeOK /\ WindowInv => CellsShowTracks
  <2> SUFFICES ASSUME TypeOK, WindowInv, main = "display", cmds = <<>>
               PROVE  {c \in cells : c.sink \notin orphans} = registry
    BY DEF CellsShowTracks
  <2>1. \A id \in Tracks : Live(WithId(cells, id)) = WithId(registry, id)
    <3>1. \A id \in Tracks : NoneAbout(id)
      BY DEF NoneAbout
    <3> QED BY <3>1 DEF WindowInv, Settled
  <2>2. \A e \in cells \cup registry : e.id \in Tracks
    BY DEF TypeOK, Entries
  <2>3. \A e : e \in {c \in cells : c.sink \notin orphans} <=> e \in registry
    BY <2>1, <2>2 DEF Live, WithId
  <2> QED BY <2>3
<1> QED BY <1>1, TypeInit, TypeNext, WindowInit, WindowNext, PTL DEF Spec

--------------------------------------------------------------------------------
(* Refinement of the reconnect loop.                                       *)

LEMMA StepImplements == TypeOK /\ [Next]_vars => [Loop!Next]_(Loop!vars)
<1> SUFFICES ASSUME TypeOK, [Next]_vars PROVE [Loop!Next]_(Loop!vars)
  OBVIOUS
<1>1. CASE ConnectEnds
  <2>1. Phase' = "waiting" /\ Phase = IF connected THEN "established" ELSE "connecting"
    BY <1>1 DEF ConnectEnds, Phase
  <2>2. PICK base \in {0, retry} :
          WaitFrom(base) /\ (~connected => base = retry)
    BY <1>1 DEF ConnectEnds
  <2>3. base \in 0..RetryMax
    BY SoraAssumption DEF TypeOK
  <2>4. Loop!WaitFrom(base)
    BY <2>1, <2>2, <2>3 DEF Loop!WaitFrom, WaitFrom, Saturating, Loop!Saturating
  <2> QED BY <2>1, <2>2, <2>4 DEF Loop!Next, Loop!Fail, Loop!Lose
<1>2. CASE Check
  <2>1. CASE stop
    BY <1>2, <2>1 DEF Check, Phase, Loop!Next, Loop!Stop
  <2>2. CASE ~stop
    BY <1>2, <2>2 DEF Check, Phase, Loop!Next, Loop!Again, TypeOK
  <2> QED BY <2>1, <2>2
<1>3. CASE Prepare
  BY <1>3 DEF Prepare, Phase, Loop!Next, Loop!Stop, Loop!vars
<1>4. CASE MarkConnected \/ \E id \in Tracks : OnTrack(id)
  <2>1. /\ Phase \in {"connecting", "established"} /\ Phase' = "established"
        /\ UNCHANGED <<retry, wait>>
    BY <1>4 DEF MarkConnected, OnTrack, Phase
  <2> QED BY <2>1 DEF Loop!Next, Loop!Establish, Loop!vars
<1>5. CASE WaitOver \/ Notify \/ Finish
  <2>1. Phase' = Phase /\ UNCHANGED <<retry, wait>>
    BY <1>5 DEF WaitOver, Notify, Finish, Phase
  <2> QED BY <2>1 DEF Loop!vars
<1>6. CASE \/ \E id \in Tracks : OnRemoveTrack(id)
           \/ MainStep \/ CloseWindow \/ UNCHANGED vars
  <2>1. UNCHANGED <<loop, connected, retry, wait>>
    BY <1>6 DEF OnRemoveTrack, MainStep, HandleCommand, SeeShutdown, CloseWindow,
       Break, SetStop, Return, vars, sora
  <2>2. Phase' = Phase
    BY <2>1 DEF Phase
  <2> QED BY <2>1, <2>2 DEF Loop!vars
<1> QED BY <1>1, <1>2, <1>3, <1>4, <1>5, <1>6 DEF Next, SoraStep

\* The Sora client backs off as ReconnectLoop says, with 5, 15, 25, ... seconds.
THEOREM BacksOff == Spec => Loop!Init /\ [][Loop!Next]_(Loop!vars)
<1>1. Init => Loop!Init
  BY DEF Init, Loop!Init, Phase
<1>2. TypeOK /\ [Next]_vars => [Loop!Next]_(Loop!vars)
  BY StepImplements
<1> QED BY <1>1, <1>2, TypeCorrect, PTL DEF Spec
================================================================================
