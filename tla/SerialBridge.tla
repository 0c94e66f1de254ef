------------------------------ MODULE SerialBridge -----------------------------
(***************************************************************************)
(* The bridges of serial.rs.  Every "serial" DataChannel that arrives      *)
(* opens the device once more and gets a task of its own, so after a       *)
(* reconnect, or with two browsers, several bridges share one tty.  What   *)
(* the device sends goes to whichever bridge reads it first.               *)
(*                                                                         *)
(* A message of a channel is Parts writes long; a chunk from the device is *)
(* one read.  The contents of either are left out.                         *)
(***************************************************************************)
EXTENDS Naturals

CONSTANTS
  Channels,   \* the "serial" DataChannels that arrive
  MaxMsgs,    \* bound: messages the browser sends on one channel
  Parts,      \* writes one message takes
  RxCap,      \* chunks the tty holds for momo
  TxCap       \* writes the tty holds for the device

ASSUME SerialAssumption ==
  /\ MaxMsgs \in Nat
  /\ Parts \in Nat \ {0}
  /\ RxCap \in Nat \ {0}
  /\ TxCap \in Nat \ {0}

VARIABLES
  dc,         \* dc[c]: state of DataChannel c
  bridge,     \* bridge[c]: where the task of c stands; "none" without a task
  unsent,     \* unsent[c]: messages the browser may still send
  queue,      \* queue[c]: messages in the unbounded channel of DcHandler
  left,       \* left[c]: writes left of the message in write_all_async
  rx, tx      \* the two directions of the tty

serialVars == <<dc, bridge, unsent, queue, left, rx, tx>>

SerialTypeOK ==
  /\ dc \in [Channels -> {"new", "open", "closed"}]
  /\ bridge \in [Channels -> {"none", "select", "writing", "over"}]
  /\ unsent \in [Channels -> 0..MaxMsgs]
  /\ queue \in [Channels -> 0..MaxMsgs]
  /\ left \in [Channels -> 0..Parts]
  /\ \A c \in Channels : bridge[c] = "writing" <=> left[c] > 0
  /\ rx \in 0..RxCap
  /\ tx \in 0..TxCap

SerialInit ==
  /\ dc = [c \in Channels |-> "new"]
  /\ bridge = [c \in Channels |-> "none"]
  /\ unsent = [c \in Channels |-> MaxMsgs]
  /\ queue = [c \in Channels |-> 0]
  /\ left = [c \in Channels |-> 0]
  /\ rx = 0 /\ tx = 0

--------------------------------------------------------------------------------
(* The DataChannel.                                                        *)

\* start_serial_bridge: without the device there is no bridge, and the channel
\* is left open.
Start(c) ==
  /\ dc[c] = "new"
  /\ dc' = [dc EXCEPT ![c] = "open"]
  /\ \/ bridge' = [bridge EXCEPT ![c] = "select"]
     \/ UNCHANGED bridge                           \* open_serial failed
  /\ UNCHANGED <<unsent, queue, left, rx, tx>>

\* DcHandler::on_message.
OnMessage(c) ==
  /\ dc[c] = "open" /\ unsent[c] > 0
  /\ unsent' = [unsent EXCEPT ![c] = @ - 1]
  /\ queue' = IF bridge[c] \in {"select", "writing"}
                THEN [queue EXCEPT ![c] = @ + 1] ELSE queue
  /\ UNCHANGED <<dc, bridge, left, rx, tx>>

\* The browser closes the channel, or the PeerConnection goes:
\* DcHandler::on_state_change does nothing, and the task owns the only sender
\* of its own queue, so it is not told.
Closed(c) ==
  /\ dc[c] = "open"
  /\ dc' = [dc EXCEPT ![c] = "closed"]
  /\ UNCHANGED <<bridge, unsent, queue, left, rx, tx>>

--------------------------------------------------------------------------------
(* The task of a bridge.                                                   *)

\* The loop is left: the channel is closed and the queue goes with the task.
Break(c) ==
  /\ bridge' = [bridge EXCEPT ![c] = "over"]
  /\ dc' = [dc EXCEPT ![c] = "closed"]
  /\ queue' = [queue EXCEPT ![c] = 0]
  /\ left' = [left EXCEPT ![c] = 0]
  /\ UNCHANGED <<unsent, tx>>

\* Mutant of ReadChunk: a send that fails is only logged.
ReadOn(c) ==
  /\ bridge[c] = "select" /\ rx > 0
  /\ rx' = rx - 1
  /\ UNCHANGED <<dc, bridge, unsent, queue, left, tx>>

\* A chunk is read and sent on; send fails on a channel that is not open, and
\* may fail on an open one whose buffer is full.
ReadChunk(c) ==
  /\ bridge[c] = "select" /\ rx > 0
  /\ rx' = rx - 1
  /\ \/ /\ dc[c] = "open"
        /\ UNCHANGED <<dc, bridge, unsent, queue, left, tx>>
     \/ Break(c)

\* End of file, or an error of readable, read, writable or write.
IoFails(c) ==
  /\ bridge[c] \in {"select", "writing"}
  /\ Break(c)
  /\ UNCHANGED rx

TakeMessage(c) ==
  /\ bridge[c] = "select" /\ queue[c] > 0
  /\ queue' = [queue EXCEPT ![c] = @ - 1]
  /\ bridge' = [bridge EXCEPT ![c] = "writing"]
  /\ left' = [left EXCEPT ![c] = Parts]
  /\ UNCHANGED <<dc, unsent, rx, tx>>

\* Mutant of WritePart: the wrong readiness is awaited.
WritePartWhenReadable(c) ==
  /\ bridge[c] = "writing"
  /\ rx > 0
  /\ tx < TxCap /\ tx' = tx + 1
  /\ left' = [left EXCEPT ![c] = @ - 1]
  /\ bridge' = IF left[c] = 1 THEN [bridge EXCEPT ![c] = "select"] ELSE bridge
  /\ UNCHANGED <<dc, unsent, queue, rx>>

\* One write of write_all_async; meanwhile the bridge does not read.
WritePart(c) ==
  /\ bridge[c] = "writing"
  /\ tx < TxCap /\ tx' = tx + 1
  /\ left' = [left EXCEPT ![c] = @ - 1]
  /\ bridge' = IF left[c] = 1 THEN [bridge EXCEPT ![c] = "select"] ELSE bridge
  /\ UNCHANGED <<dc, unsent, queue, rx>>

--------------------------------------------------------------------------------
(* The device, with one thread: it speaks, or takes a write and may answer *)
(* it at once, for which it needs room on the line.                        *)

DeviceSpeaks ==
  /\ rx < RxCap /\ rx' = rx + 1
  /\ UNCHANGED <<dc, bridge, unsent, queue, left, tx>>

DeviceTakes ==
  /\ tx > 0 /\ tx' = tx - 1
  /\ rx < RxCap /\ rx' \in {rx, rx + 1}
  /\ UNCHANGED <<dc, bridge, unsent, queue, left>>

--------------------------------------------------------------------------------
BridgeStep(c) ==
  \/ Start(c) \/ OnMessage(c) \/ Closed(c)
  \/ ReadChunk(c) \/ IoFails(c) \/ TakeMessage(c) \/ WritePart(c)

SerialNext == DeviceSpeaks \/ DeviceTakes \/ \E c \in Channels : BridgeStep(c)

\* The tasks run, and select takes a ready branch at random (SF).  The device goes
\* on taking whenever it again and again can (SF).  Nobody has to speak or close.
SerialFairness ==
  /\ SF_serialVars(DeviceTakes)
  /\ \A c \in Channels :
       WF_serialVars(ReadChunk(c)) /\ SF_serialVars(TakeMessage(c)) /\ WF_serialVars(WritePart(c))

SerialSpec == SerialInit /\ [][SerialNext]_serialVars
SerialFairSpec == SerialSpec /\ SerialFairness

--------------------------------------------------------------------------------
(* Properties.                                                             *)

\* Everybody waits: the device for room on the line to momo before it takes more,
\* the bridges, which do not read while they write, for room on the other one.
BothFull == rx = RxCap /\ tx = TxCap

Backlog(c) == queue[c] > 0 \/ bridge[c] = "writing"

\* What the browser sent reaches the tty, or the bridge ends, unless the device
\* and the bridges block each other for good.
BacklogWrittenUnlessBothFull ==
  \A c \in Channels :
    Backlog(c) ~> (~Backlog(c) \/ []BothFull)

InUse(c) == bridge[c] \in {"select", "writing"}

\* A bridge whose channel was closed ends, after a reconnect too, as start_serial_bridge
\* promises; but only by a send of its own that fails.  So it stays as long as it never
\* gets to read again: the device is silent for good, a bridge whose channel is open
\* takes what it says, or both lines are full.
ClosedBridgeEndsUnlessUnread ==
  \A c \in Channels :
    (dc[c] = "closed" /\ InUse(c)) ~>
      \/ ~InUse(c)
      \/ [](rx = 0)
      \/ [](\E d \in Channels \ {c} : dc[d] = "open" /\ InUse(d))
      \/ []BothFull

================================================================================
