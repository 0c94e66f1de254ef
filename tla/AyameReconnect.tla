---------------------------- MODULE AyameReconnect -----------------------------
(***************************************************************************)
(* The Ayame client implements ReconnectLoop: an attempt is connecting     *)
(* until its WebSocket is open, established until connect_once returns,    *)
(* and waiting while run sleeps.                                           *)
(***************************************************************************)
EXTENDS AyameClient

Phase == IF main = "wait_connected" THEN "connecting"
         ELSE IF main = "sleep" THEN "waiting" ELSE "established"

Loop == INSTANCE ReconnectLoop
          WITH phase <- Phase,
               delay <- wait,
               Delay <- [r \in 0..RetryMax |-> WaitSeconds(r)]

\* The back-off of the reconnect loop: attempts that never open their WebSocket
\* wait longer and longer, only an open one may start the count over, and the
\* wait always ends in another attempt.
Reconnects == Loop!Spec
================================================================================
