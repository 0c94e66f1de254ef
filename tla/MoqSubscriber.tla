----------------------------- MODULE MoqSubscriber -----------------------------
(***************************************************************************)
(* run of momo-moq subscribe (momo-moq/src/subscriber.rs) with the client  *)
(* and the receiving tasks of its own requests (client.rs): the FETCH of   *)
(* the catalog, the subscriptions, the loop, and the goodbyes.  The        *)
(* streams of the tracks are in MoqStreams, which relies on SubscribeRun;  *)
(* run is shown to implement that.                                         *)
(***************************************************************************)
EXTENDS MoqClient

VARIABLES
  pc,      \* where run is
  todo,    \* own requests still to be made and waited for, or to be stopped
  task,    \* receiving task of each own request
  stream,  \* the kind of the stream receive_catalog is at
  catalog, \* the full catalog has been read
  conn     \* the QUIC connection is open

ASSUME SubscriberAssumption == "fetch" \in Own /\ Own \subseteq {"fetch", "video", "audio"}

\* The tracks the program knows what to do with.
Tracks == Own \ {"fetch"}

vars == <<clientVars, pc, todo, task, stream, catalog, conn>>

\* Video comes first, wherever run goes through the tracks.
TrackLists == {<<>>, <<"video">>, <<"audio">>, <<"video", "audio">>}
InOrder(T) == CHOOSE l \in TrackLists : {l[i] : i \in DOMAIN l} = T

Over == pc \in {"done", "failed"}

Init ==
  /\ ClientInit
  /\ pc = "await" /\ todo = <<"fetch">>
  /\ task = [r \in Own |-> "none"]
  /\ stream = "none" /\ catalog = FALSE /\ conn = TRUE

--------------------------------------------------------------------------------
(* The relay and the receiving tasks.                                      *)

\* PUBLISH_DONE, which MoqClient does not know of.
PeerIsDone(r) ==
  /\ r \in Tracks /\ own[r] = "established" /\ r \notin over
  /\ Tell([what |-> "done", on |-> r])
  /\ UNCHANGED <<own, peer, halves, closed, requests, updates, goaway, expired, vanished>>

\* The select of a task is biased: a command to stop comes before the next message.
Commanded(r) == pc = "ack" /\ Head(todo) = r
Delivers(r) == task[r] = "holding" \/ (task[r] = "reading" /\ ~Commanded(r))

RelaySays(r) ==
  /\ conn /\ Delivers(r)
  /\ \/ /\ PeerAnswers(r) \/ PeerIsDone(r) \/ \E u \in Updates : PeerUpdates(u, r)
        /\ task' = [task EXCEPT ![r] = "reading"]
     \/ PeerEnds(r) /\ task' = [task EXCEPT ![r] = "gone"]
  /\ UNCHANGED <<pc, todo, stream, catalog, conn>>

\* tx.send finds bidi_rx full, and the task no longer listens to commands.
TaskBlocks(r) ==
  /\ conn /\ task[r] = "reading" /\ ~Commanded(r)
  /\ Len(bidi) = MaxInbox /\ r \notin over
  /\ task' = [task EXCEPT ![r] = "holding"]
  /\ UNCHANGED <<clientVars, pc, todo, stream, catalog, conn>>

RelayAsks ==
  /\ conn
  /\ \/ \E r \in Requests : PeerAsks(r) \/ PeerEnds(r) \/ \E u \in Updates : PeerUpdates(u, r)
     \/ PeerControls
  /\ UNCHANGED <<pc, todo, task, stream, catalog, conn>>

\* The relay or an idle time-out closes the connection.
Disconnect ==
  /\ conn /\ conn' = FALSE
  /\ UNCHANGED <<clientVars, pc, todo, task, stream, catalog>>

--------------------------------------------------------------------------------
(* run: the catalog and the subscriptions.                                 *)

\* PUBLISH_DONE is an event for the loop.
RecvDone ==
  /\ Next1("done")
  /\ goaway' = TRUE
  /\ Drained([own EXCEPT ![Head(bidi).on] = "terminated"], halves, closed)
  /\ UNCHANGED <<peer, requests, updates, expired, vanished>>

Listen(inSelect) == Pump(inSelect) \/ (~expired /\ RecvDone)

\* fetch and subscribe_track.
Ask ==
  /\ pc = "await" /\ own[Head(todo)] = "unsent"
  /\ OpenRequest(Head(todo))
  /\ task' = [task EXCEPT ![Head(todo)] = "reading"]
  /\ UNCHANGED <<pc, todo, stream, catalog, conn>>

\* wait_fetch_resolved, wait_subscription_resolved: no timer, and a request that the
\* session has forgotten is waited for too.
Wait ==
  /\ pc = "await" /\ own[Head(todo)] \in {"pending", "forgotten"}
  /\ Listen(FALSE)
  /\ UNCHANGED <<pc, todo, task, stream, catalog, conn>>

\* With the last track the acceptor is started.
Established ==
  /\ pc = "await" /\ own[Head(todo)] = "established"
  /\ todo' = Tail(todo)
  /\ pc' = IF Head(todo) = "fetch" THEN "catalog" ELSE IF todo' = <<>> THEN "loop" ELSE "await"
  /\ UNCHANGED <<clientVars, task, stream, catalog, conn>>

\* receive_catalog takes the streams of the relay one by one.
TakeStream ==
  /\ pc = "catalog" /\ stream = "none" /\ conn
  /\ stream' \in {"fetch", "padding", "other"}
  /\ UNCHANGED <<clientVars, pc, todo, task, catalog, conn>>

\* An entry is a full catalog, a change to one, or empty.
ReadEntry ==
  /\ pc = "catalog" /\ stream = "fetch"
  /\ \/ catalog' = TRUE /\ UNCHANGED pc
     \/ UNCHANGED <<catalog, pc>>
     \/ ~catalog /\ pc' = "failed" /\ UNCHANGED catalog
  /\ UNCHANGED <<clientVars, todo, task, stream, conn>>

\* Mutant of StreamEnds: a catalog without a track that can be shown is taken too.
StreamEndsWithoutTracks ==
  /\ pc = "catalog" /\ stream' = "none"
  /\ \/ stream = "padding" /\ UNCHANGED <<pc, todo>>
     \/ stream = "other" /\ pc' = "failed" /\ UNCHANGED todo
     \/ stream = "fetch" /\ ~catalog /\ pc' = "failed" /\ UNCHANGED todo
     \/ /\ stream = "fetch" /\ catalog
        /\ \E T \in SUBSET Tracks : todo' = InOrder(T) /\ pc' = "await"
  /\ UNCHANGED <<clientVars, task, catalog, conn>>

\* Padding is skipped; the catalog must name a track that can be shown.
StreamEnds ==
  /\ pc = "catalog" /\ stream' = "none"
  /\ \/ stream = "padding" /\ UNCHANGED <<pc, todo>>
     \/ stream = "other" /\ pc' = "failed" /\ UNCHANGED todo
     \/ stream = "fetch" /\ ~catalog /\ pc' = "failed" /\ UNCHANGED todo
     \/ /\ stream = "fetch" /\ catalog
        /\ \E T \in SUBSET Tracks :
             todo' = InOrder(T) /\ pc' = IF T = {} THEN "failed" ELSE "await"
  /\ UNCHANGED <<clientVars, task, catalog, conn>>

--------------------------------------------------------------------------------
(* run: the loop.                                                          *)

TakeMessage ==
  /\ pc = "loop" /\ NothingQueued
  /\ Listen(TRUE)
  /\ UNCHANGED <<pc, todo, task, stream, catalog, conn>>

ServeUpdate ==
  /\ pc = "loop" /\ UpdateFirst
  /\ Reply(Head(updates).id, Head(updates).on, FALSE)
  /\ updates' = Tail(updates)
  /\ UNCHANGED <<requests, pc, todo, task, stream, catalog, conn>>

\* Whatever the relay asks for is refused.
ServeRequest ==
  /\ pc = "loop" /\ RequestNext
  /\ Reply(Head(requests).on, Head(requests).on, TRUE)
  /\ requests' = Tail(requests)
  /\ UNCHANGED <<updates, pc, todo, task, stream, catalog, conn>>

\* Besides tick, a data stream against the protocol closes the Session.
RunTimer ==
  /\ pc = "loop" /\ Tick
  /\ UNCHANGED <<pc, todo, task, stream, catalog, conn>>

\* CloseSession, GOAWAY and PUBLISH_DONE, of whichever track, end the loop.
Stop ==
  /\ pc = "loop" /\ EventLast
  /\ pc' = "stop"
  /\ todo' = InOrder({t \in Tracks : own[t] # "unsent"})
  /\ UNCHANGED <<clientVars, task, stream, catalog, conn>>

\* What ends run through `?` without a goodbye: a Session that is closed or refuses, a
\* rejected request, a connection that is gone.
Refused ==
  CASE pc = "await" -> control = "close" \/ own[Head(todo)] = "terminated" \/ ~conn
    [] pc = "catalog" -> ~conn
    [] pc = "loop" -> \/ (control = "close" \/ ~conn) /\ NothingQueued
                      \/ expired /\ (UpdateFirst \/ RequestNext)
                      \/ RequestNext /\ Head(requests).on \in refused
    [] OTHER -> FALSE

Break ==
  /\ Refused
  /\ pc' = "failed" /\ conn' \in {conn, FALSE}
  /\ UNCHANGED <<clientVars, todo, task, stream, catalog>>

\* The same for a message that cannot be read, or a catalog, at any time.
Fail ==
  /\ pc \in {"await", "catalog", "loop"}
  /\ pc' = "failed" /\ conn' \in {conn, FALSE}
  /\ UNCHANGED <<clientVars, todo, task, stream, catalog>>

--------------------------------------------------------------------------------
(* run: the goodbyes.                                                      *)

\* stop_sending: a Session that refuses, a connection or a receiving task that is gone
\* leave nothing to wait for.
StopTrack ==
  /\ pc = "stop" /\ todo # <<>>
  /\ LET r == Head(todo)
     IN \/ /\ expired \/ ~conn \/ own[r] # "established" \/ task[r] = "gone"
           /\ todo' = Tail(todo)
           /\ UNCHANGED <<pc, own, halves, closed>>
        \/ /\ ~expired /\ own[r] # "forgotten" /\ task[r] # "gone"
           /\ Drained(own, halves \ {r}, closed \cup {r})
           /\ pc' = "ack" /\ UNCHANGED todo
  /\ UNCHANGED <<peer, bidi, requests, updates, goaway, expired, vanished, task, stream,
                 catalog, conn>>

NextTrack == pc' = "stop" /\ todo' = Tail(todo)

\* The task sends STOP_SENDING, says so, and ends.
Acknowledge ==
  /\ pc = "ack" /\ task[Head(todo)] = "reading"
  /\ task' = [task EXCEPT ![Head(todo)] = "gone"]
  /\ NextTrack
  /\ UNCHANGED <<clientVars, stream, catalog, conn>>

\* Mutant of GiveUp: only a task that has ended is given up.
GiveUpNever ==
  /\ pc = "ack" /\ task[Head(todo)] = "gone"
  /\ NextTrack
  /\ UNCHANGED <<clientVars, task, stream, catalog, conn>>

\* One second without a word from the task, or the task has dropped the command.
GiveUp ==
  /\ pc = "ack"
  /\ NextTrack
  /\ UNCHANGED <<clientVars, task, stream, catalog, conn>>

\* send_goaway, close, abort.  A Session that was closed before may yield no second event,
\* and then the connection stays.
Leave ==
  /\ pc = "stop" /\ todo = <<>>
  /\ pc' = "done" /\ conn' \in IF expired THEN {conn, FALSE} ELSE {FALSE}
  /\ UNCHANGED <<clientVars, todo, task, stream, catalog>>

--------------------------------------------------------------------------------
SetUp == Ask \/ Wait \/ Established \/ TakeStream \/ ReadEntry \/ StreamEnds

Next ==
  /\ ~Over
  /\ \/ \E r \in Own : RelaySays(r) \/ TaskBlocks(r)
     \/ RelayAsks \/ Disconnect
     \/ SetUp
     \/ TakeMessage \/ ServeUpdate \/ ServeRequest \/ RunTimer \/ Stop
     \/ Break \/ Fail
     \/ StopTrack \/ Acknowledge \/ GiveUp \/ Leave

\* run is scheduled, and so are its tasks and the timer of one second; the relay owes
\* nothing.
Fairness ==
  /\ WF_vars(TakeMessage) /\ WF_vars(ServeUpdate) /\ WF_vars(ServeRequest)
  /\ WF_vars(Stop) /\ WF_vars(Break)
  /\ WF_vars(StopTrack) /\ WF_vars(Acknowledge) /\ WF_vars(GiveUp) /\ WF_vars(Leave)

Spec == Init /\ [][Next]_vars /\ Fairness

--------------------------------------------------------------------------------
(* Properties.                                                             *)

TypeOK ==
  /\ own \in [Own -> OwnStates]
  /\ pc \in {"await", "catalog", "loop", "stop", "ack", "done", "failed"}
  /\ todo \in TrackLists \cup {<<"fetch">>}
  /\ pc \in {"await", "ack"} => todo # <<>>
  /\ task \in [Own -> {"none", "reading", "holding", "gone"}]
  /\ stream \in {"none", "fetch", "padding", "other"}
  /\ {catalog, conn} \subseteq BOOLEAN

Phase ==
  CASE pc \in {"await", "catalog"} -> "setup"
    [] pc \in {"stop", "ack"} -> "leaving"
    [] OTHER -> pc

Run == INSTANCE SubscribeRun WITH phase <- Phase, link <- conn, spent <- expired

\* run keeps the promise that the tasks of the data streams and the player rely on: it
\* says goodbye before it closes, and the goodbyes end although the tasks it waits for
\* may themselves be waiting for room in the channel that run no longer reads.
RunAsPromised == Run!RunSpec

\* Whatever the relay asks for in the loop is answered, unless the relay takes the stream
\* back or the loop ends: no request is left behind updates, events or a full channel.
RelayIsAnswered ==
  \A r \in Requests :
    (r \in asked /\ pc = "loop") ~> (r \in replied \/ r \in over \/ pc # "loop")
================================================================================
