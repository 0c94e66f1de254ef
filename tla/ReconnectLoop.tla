----------------------------- MODULE ReconnectLoop -----------------------------
(***************************************************************************)
(* What a reconnecting client promises, whatever the protocol under it:    *)
(* it is connecting, established or waiting; a failed attempt backs off    *)
(* along Delay, and only an attempt that was established may start the     *)
(* back-off over.  It may be stopped between attempts.  The Ayame client   *)
(* and the Sora client implement this specification, each with its Delay.  *)
(***************************************************************************)
EXTENDS Naturals

CONSTANTS RetryMax,  \* where the retry counter saturates (u32::MAX in the code)
          Delay      \* Delay[r]: seconds to wait when the counter is r, for r in 0..RetryMax

VARIABLES phase,  \* "connecting", "established", "waiting" or "stopped"
          retry,  \* the retry counter of the loop
          delay   \* the wait in force; 0 outside "waiting"

vars == <<phase, retry, delay>>

TypeOK ==
  /\ phase \in {"connecting", "established", "waiting", "stopped"}
  /\ retry \in 0..RetryMax
  /\ delay \in Nat

Saturating(r) == IF r < RetryMax THEN r + 1 ELSE RetryMax

WaitFrom(base) ==
  /\ phase' = "waiting"
  /\ delay' = Delay[base]
  /\ retry' = Saturating(base)

Init ==
  /\ phase \in {"connecting", "waiting"}
  /\ retry = 0
  /\ delay = 0

Establish ==
  /\ phase = "connecting"
  /\ phase' = "established"
  /\ UNCHANGED <<retry, delay>>

\* The attempt ends before the connection exists: the counter goes on.
Fail ==
  /\ phase = "connecting"
  /\ WaitFrom(retry)

\* The connection ends: the counter starts over, or the end counts as a failure.
Lose ==
  /\ phase = "established"
  /\ \E base \in {0, retry} : WaitFrom(base)

Again ==
  /\ phase = "waiting"
  /\ phase' = "connecting"
  /\ delay' = 0
  /\ UNCHANGED retry

Stop ==
  /\ phase = "waiting"
  /\ phase' = "stopped"
  /\ delay' = 0
  /\ UNCHANGED retry

Next == Establish \/ Fail \/ Lose \/ Again \/ Stop

Spec == Init /\ [][Next]_vars /\ WF_vars(Again)
================================================================================
