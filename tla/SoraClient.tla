------------------------------- MODULE SoraClient ------------------------------
(***************************************************************************)
(* The Sora mode with --player: the thread "sora" with the reconnect loop  *)
(* (sora.rs), the event handler of its connection                          *)
(* (sora/event_handler.rs), and the main thread with the display loop      *)
(* (display.rs) and its end (main.rs).  The threads share the flag `stop`, *)
(* the queue of display commands and two channels that carry the end.      *)
(*                                                                         *)
(* A sink is a VideoSink with its frame channel: the sending end is in the *)
(* registry of the handler, the receiving end in a cell of the window.     *)
(* The frames themselves are left out.                                     *)
(***************************************************************************)
EXTENDS Naturals, Sequences

CONSTANTS
  Tracks,     \* ids of remote video tracks
  Sinks,      \* bound: sinks in use at a time
  MaxQueue,   \* bound: display commands under way
  RetryMax    \* where the retry counter saturates (u32::MAX)

ASSUME SoraAssumption == MaxQueue \in Nat /\ RetryMax \in Nat

VARIABLES
  loop,       \* where sora::run and its thread stand
  retry,      \* `retry` of run
  wait,       \* wait_seconds; 0 before the first attempt ends and during attempts
  connected,  \* the flag the callbacks set
  registry,   \* track_registry of the connection
  cmds,       \* the channel of DisplayCommand
  main,       \* where the main thread stands
  cells,      \* cells of the window
  stop,       \* the flag that ends the reconnect loop
  shutdown, result,   \* the channels to the main thread: has something been sent?
  orphans     \* history: sinks in use of connections that are over

sora == <<loop, retry, wait, connected, shutdown, result>>
display == <<main, cells, stop>>
vars == <<sora, registry, cmds, display, orphans>>

Entries == [id : Tracks, sink : Sinks]
Commands == [op : {"add"}, id : Tracks, sink : Sinks] \cup [op : {"remove"}, id : Tracks]

TypeOK ==
  /\ loop \in {"prepare", "check", "connect", "wait", "over", "notified", "exited"}
  /\ retry \in 0..RetryMax
  /\ wait \in Nat
  /\ connected \in BOOLEAN /\ (connected => loop = "connect")
  /\ registry \subseteq Entries /\ (registry # {} => connected)
  /\ \A e, f \in registry : e.id = f.id => e = f
  /\ cmds \in Seq(Commands)
  /\ main \in {"display", "closed", "recv", "exited"}
  /\ cells \subseteq Entries
  /\ \A c, d \in cells : c.id = d.id => c = d
  /\ stop \in BOOLEAN /\ shutdown \in BOOLEAN /\ result \in BOOLEAN
  /\ orphans \subseteq Sinks

Init ==
  /\ loop = "prepare"
  /\ retry = 0 /\ wait = 0 /\ connected = FALSE
  /\ registry = {} /\ cmds = <<>> /\ cells = {}
  /\ main = "display"
  /\ stop = FALSE /\ shutdown = FALSE /\ result = FALSE
  /\ orphans = {}

--------------------------------------------------------------------------------
(* The thread "sora": run and connect.                                     *)

WaitSeconds(r) == 5 * (2 * r + 1)

Saturating(r) == IF r < RetryMax THEN r + 1 ELSE RetryMax

\* prepare refuses the configuration, or there is no runtime; or else the loop.
Prepare ==
  /\ loop = "prepare"
  /\ loop' \in {"check", "over"}
  /\ UNCHANGED <<retry, wait, connected, shutdown, result, registry, cmds, display, orphans>>

\* Mutant of Check: `stop` is only looked at while waiting.
CheckNothing ==
  /\ loop = "check"
  /\ loop' = "connect" /\ wait' = 0
  /\ UNCHANGED <<retry, connected, shutdown, result, registry, cmds, display, orphans>>

Check ==
  /\ loop = "check"
  /\ loop' = IF stop THEN "over" ELSE "connect"
  /\ wait' = 0
  /\ UNCHANGED <<retry, connected, shutdown, result, registry, cmds, display, orphans>>

WaitFrom(base) == wait' = WaitSeconds(base) /\ retry' = Saturating(base)

\* Mutant of ConnectEnds: the flag is read, but not taken back.
ConnectEndsFlagged ==
  /\ loop = "connect"
  /\ loop' = "wait"
  /\ WaitFrom(IF connected THEN 0 ELSE retry)
  /\ registry' = {}
  /\ orphans' = orphans \cup {e.sink : e \in registry}
  /\ UNCHANGED <<connected, cmds, shutdown, result, display>>

\* connect returns, and the handler goes with its registry.  The counter starts
\* over if a callback said that the connection had been there.
ConnectEnds ==
  /\ loop = "connect"
  /\ loop' = "wait"
  /\ connected' = FALSE
  /\ WaitFrom(IF connected THEN 0 ELSE retry)
  /\ registry' = {}
  /\ orphans' = orphans \cup {e.sink : e \in registry}
  /\ UNCHANGED <<cmds, shutdown, result, display>>

\* wait_before_retry: the time is up, or `stop` is seen at the end of a slice.
WaitOver ==
  /\ loop = "wait"
  /\ loop' = "check"
  /\ UNCHANGED <<retry, wait, connected, shutdown, result, registry, cmds, display, orphans>>

\* Mutant of Notify: the window is not told.
NotifyNobody ==
  /\ loop = "over"
  /\ loop' = "notified"
  /\ UNCHANGED <<retry, wait, connected, shutdown, result, registry, cmds, display, orphans>>

\* run has returned: shutdown_tx.try_send, then result_tx.send.
Notify ==
  /\ loop = "over"
  /\ loop' = "notified" /\ shutdown' = TRUE
  /\ UNCHANGED <<retry, wait, connected, result, registry, cmds, display, orphans>>

Finish ==
  /\ loop = "notified"
  /\ loop' = "exited" /\ result' = TRUE
  /\ UNCHANGED <<retry, wait, connected, shutdown, registry, cmds, display, orphans>>

--------------------------------------------------------------------------------
(* The callbacks of the connection, one at a time, from connect's client.  *)

\* The window is there to read commands until run_display_loop returns.
Tell(c) ==
  IF main = "display" THEN Len(cmds) < MaxQueue /\ cmds' = Append(cmds, c)
                      ELSE UNCHANGED cmds

\* on_notify, on_push, on_switched, on_websocket_close, on_track with audio.
MarkConnected ==
  /\ loop = "connect"
  /\ connected' = TRUE
  /\ UNCHANGED <<loop, retry, wait, shutdown, result, registry, cmds, display, orphans>>

Used == {e.sink : e \in registry \cup cells}
          \cup {cmds[i].sink : i \in {j \in DOMAIN cmds : cmds[j].op = "add"}}

WithId(entries, id) == {e \in entries : e.id = id}

\* Mutant of OnTrack: an id that is known is taken for a repetition.
OnTrackOnce(id) ==
  /\ loop = "connect"
  /\ connected' = TRUE
  /\ \E s \in Sinks \ Used :
       /\ registry' = IF WithId(registry, id) = {}
                        THEN registry \cup {[id |-> id, sink |-> s]} ELSE registry
       /\ Tell([op |-> "add", id |-> id, sink |-> s])
       /\ orphans' = orphans \ {s}
  /\ UNCHANGED <<loop, retry, wait, shutdown, result, display>>

\* on_track: a new sink takes the place of one with the same id.
OnTrack(id) ==
  /\ loop = "connect"
  /\ connected' = TRUE
  /\ \E s \in Sinks \ Used :
       /\ registry' = (registry \ WithId(registry, id)) \cup {[id |-> id, sink |-> s]}
       /\ Tell([op |-> "add", id |-> id, sink |-> s])
       /\ orphans' = orphans \ {s}
  /\ UNCHANGED <<loop, retry, wait, shutdown, result, display>>

\* The window is told of any id, also of one that is not in the registry.
OnRemoveTrack(id) ==
  /\ loop = "connect"
  /\ registry' = registry \ WithId(registry, id)
  /\ Tell([op |-> "remove", id |-> id])
  /\ UNCHANGED <<sora, display, orphans>>

--------------------------------------------------------------------------------
(* The main thread: run_display_loop, and what follows it.                 *)

HandleCommand ==
  /\ main = "display" /\ cmds # <<>>
  /\ cmds' = Tail(cmds)
  /\ cells' = (cells \ WithId(cells, Head(cmds).id)) \cup
                IF Head(cmds).op = "remove" THEN {}
                ELSE {[id |-> Head(cmds).id, sink |-> Head(cmds).sink]}
  /\ UNCHANGED <<sora, registry, main, stop, orphans>>

\* The loop breaks: the cells and the receiver of the commands are dropped.
Break ==
  /\ main = "display"
  /\ main' = "closed"
  /\ cells' = {} /\ cmds' = <<>>
  /\ UNCHANGED <<sora, registry, stop, orphans>>

SeeShutdown == shutdown /\ Break
CloseWindow == Break         \* or SDL fails

SetStop ==
  /\ main = "closed"
  /\ main' = "recv" /\ stop' = TRUE
  /\ UNCHANGED <<sora, registry, cmds, cells, orphans>>

Return ==
  /\ main = "recv" /\ result
  /\ main' = "exited"
  /\ UNCHANGED <<sora, registry, cmds, cells, stop, orphans>>

--------------------------------------------------------------------------------
SoraStep == Prepare \/ Check \/ WaitOver \/ Notify \/ Finish
MainStep == HandleCommand \/ SeeShutdown \/ SetStop \/ Return

Next ==
  \/ SoraStep \/ ConnectEnds \/ MarkConnected
  \/ \E id \in Tracks : OnTrack(id) \/ OnRemoveTrack(id)
  \/ MainStep \/ CloseWindow

\* Both threads run.  The connection need not end, nor the user close the window.
Fairness == WF_vars(SoraStep) /\ WF_vars(HandleCommand) /\ WF_vars(SeeShutdown)
              /\ WF_vars(SetStop) /\ WF_vars(Return)

Spec == Init /\ [][Next]_vars
FairSpec == Spec /\ Fairness

--------------------------------------------------------------------------------
(* Properties.                                                             *)

Phase ==
  CASE loop = "connect" -> IF connected THEN "established" ELSE "connecting"
    [] loop \in {"prepare", "check", "wait"} -> "waiting"
    [] OTHER -> "stopped"

Loop == INSTANCE ReconnectLoop
          WITH phase <- Phase,
               delay <- IF Phase = "stopped" THEN 0 ELSE wait,
               Delay <- [r \in 0..RetryMax |-> WaitSeconds(r)]

\* The reconnect loop of run, with its flag in the hands of another thread, is the
\* one ReconnectLoop describes: only a connection that was there starts the waits
\* over, and nothing but `stop` keeps a wait from ending in another attempt.
Reconnects == Loop!Spec

\* Closing the window ends the program, however often it was reconnecting, but for
\* a connection that is up and does not end by itself.
ClosedWindowEndsProgram ==
  main = "recv" ~> (main = "exited" \/ [](loop = "connect"))

\* When run returns the program ends, whether the window is still open or not.
EndedLoopEndsProgram == loop = "over" ~> main = "exited"

\* When the window has read all its commands, its cells of this connection are the
\* tracks of this connection, each with the other end of the sink that is attached
\* to its track.  Cells of earlier connections may be left over: nobody sends a
\* RemoveTrack for them.
CellsShowTracks ==
  (main = "display" /\ cmds = <<>>)
    => {c \in cells : c.sink \notin orphans} = registry
================================================================================
