------------------------------ MODULE SubscribeRun ------------------------------
(***************************************************************************)
(* The life of run (momo-moq/src/subscriber.rs) as the rest of the program *)
(* sees it: it sets the subscriptions up, runs its loop, and then says     *)
(* goodbye and closes the connection, or fails and does not.  MoqStreams   *)
(* is built on it, MoqSubscriber is shown to implement it.                 *)
(***************************************************************************)
VARIABLES
  phase,  \* of run
  link,   \* the QUIC connection is open
  spent   \* the Session is closed, and run has not been told yet

run == <<phase, link, spent>>

RunTypeOK ==
  /\ phase \in {"setup", "loop", "leaving", "done", "failed"}
  /\ {link, spent} \subseteq BOOLEAN

RunInit == phase = "setup" /\ link = TRUE /\ spent = FALSE

RunOver == phase \in {"done", "failed"}

\* Every track is subscribed to; accept_streams is started.
Enter == phase = "setup" /\ phase' = "loop" /\ UNCHANGED <<link, spent>>

\* CloseSession, GOAWAY or PUBLISH_DONE.
Turn == phase = "loop" /\ phase' = "leaving" /\ UNCHANGED <<link, spent>>

\* stop_sending, send_goaway and close are behind it.  A Session that was closed before may
\* yield no second event, and then the connection stays.
Goodbye ==
  /\ phase = "leaving" /\ phase' = "done"
  /\ link' \in IF spent THEN {link, FALSE} ELSE {FALSE}
  /\ UNCHANGED spent

\* An error that `?` hands out of run.  If it is that of a Session which has closed, the
\* connection is closed; otherwise it is left to those who still hold it.
Abandon ==
  /\ phase \in {"setup", "loop"} /\ phase' = "failed"
  /\ link' \in {link, FALSE}
  /\ UNCHANGED spent

\* tick, or a message or a data stream against the protocol, closes the Session.
Expire == spent' = TRUE /\ UNCHANGED <<phase, link>>

\* The relay or an idle time-out closes the connection.
LoseLink == link /\ link' = FALSE /\ UNCHANGED <<phase, spent>>

RunNext == Enter \/ Turn \/ Goodbye \/ Abandon \/ Expire \/ LoseLink

\* Goodbyes end; nothing is promised of the rest, which depends on the relay.
RunSpec == RunInit /\ [][RunNext]_run /\ WF_run(Goodbye)
================================================================================
