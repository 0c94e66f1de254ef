----------------------------- MODULE Metrics_proofs ----------------------------
(***************************************************************************)
(* For any sessions and any requests: the registry keeps its types, a      *)
(* channel holds one request at most, and no running session is lost or    *)
(* left out by a request.                                                  *)
(***************************************************************************)
EXTENDS Metrics, TLAPS

Listed == providers \cup todo \cup alive

\* A session that was up, or over, when a request came will not come up again.
HistoryInv ==
  \A r \in Requests :
    /\ \A s \in seen[r] : sess[s] \in {"ready", "busy", "gone"}
    /\ ended[r] \subseteq Ended

\* Only the holder of the lock is asking, and its lists are empty without one.
LockInv ==
  /\ \A r \in Requests : req[r] = "asking" <=> lock = r
  /\ lock = NoOne => todo = {} /\ alive = {}
  /\ lock # NoOne => providers = {}

\* While a request asks, a session it has to ask is still to do or was asked, and a
\* session that was over stands among those to do, if anywhere.
AskingInv ==
  \A r \in Requests :
    req[r] = "asking" =>
      /\ \A s \in seen[r] \cap Registered : s \in todo \/ reply[r][s] # "none"
      /\ (ended[r] \ Detached) \cap alive = {}

Inv ==
  TypeOK /\ HistoryInv /\ LockInv /\ NoProviderLost /\ AskingInv /\ EveryoneAsked
    /\ EndedProvidersLeave

USE MetricsAssumption DEF SessionUnchanged

LEMMA InitInv == Init => Inv
BY DEF Init, Inv, TypeOK, HistoryInv, LockInv, NoProviderLost, AskingInv, EveryoneAsked,
   EndedProvidersLeave, Registered, Ended, SessionStates, RequestStates, ReplyStates

LEMMA TypeNext == TypeOK /\ [Next]_vars => TypeOK'
<1> SUFFICES ASSUME TypeOK, [Next]_vars PROVE TypeOK'
  OBVIOUS
<1> USE DEF TypeOK, SessionStates, RequestStates, ReplyStates
<1>1. ASSUME NEW s \in Sessions, Open(s) \/ Register(s) \/ Work(s) \/ Resume(s)
      PROVE  TypeOK'
  BY <1>1 DEF Open, Register, Work, Resume
<1>2. ASSUME NEW s \in Sessions, Finish(s)
      PROVE  TypeOK'
  <2>1. reply' \in [Requests -> [Sessions -> ReplyStates]]
    BY <1>2 DEF Finish
  <2>2. \A r \in Requests, t \in Sessions : reply'[r][t] = "queued" => reply[r][t] = "queued"
    BY <1>2 DEF Finish
  <2>3. sess' \in [Sessions -> SessionStates]
    BY <1>2 DEF Finish
  <2> QED BY <1>2, <2>1, <2>2, <2>3 DEF Finish
<1>3. ASSUME NEW r \in Requests, NEW s \in Sessions, TakeRequest(r, s) \/ Report(r, s)
      PROVE  TypeOK'
  <2>1. PICK x \in ReplyStates \ {"queued"} : reply' = [reply EXCEPT ![r][s] = x]
    BY <1>3 DEF TakeRequest, Report
  <2>2. /\ reply' \in [Requests -> [Sessions -> ReplyStates]]
        /\ \A q \in Requests, t \in Sessions :
             reply'[q][t] = "queued" => reply[q][t] = "queued"
    BY <2>1
  <2>3. UNCHANGED <<sess, lock, providers, todo, alive, req, seen, ended>>
    BY <1>3 DEF TakeRequest, Report
  <2> QED BY <2>2, <2>3
<1>4. ASSUME NEW r \in Requests, Get(r) \/ Lock(r) \/ Unlock(r)
      PROVE  TypeOK'
  <2>1. CASE Get(r)
    BY <2>1 DEF Get, Registered, Ended
  <2>2. CASE Lock(r)
    BY <2>2 DEF Lock
  <2>3. CASE Unlock(r)
    BY <2>3 DEF Unlock
  <2> QED BY <1>4, <2>1, <2>2, <2>3
<1>5. ASSUME NEW r \in Requests, Respond(r)
      PROVE  TypeOK'
  BY <1>5 DEF Respond
<1>6. ASSUME NEW r \in Requests, NEW s \in Sessions, Ask(r, s)
      PROVE  TypeOK'
  BY <1>6 DEF Ask, Full
<1>7. ASSUME NEW r \in Requests, NEW s \in Sessions, Collect(r, s)
      PROVE  TypeOK'
  BY <1>7 DEF Collect
<1>8. CASE UNCHANGED vars
  BY <1>8 DEF vars
<1> QED BY <1>1, <1>2, <1>3, <1>4, <1>5, <1>6, <1>7, <1>8
        DEF Next, SessionStep, ReplyStep, RequestStep

\* A step that only moves replies on, none of them back to "none".
LEMMA RepliesKeepInv ==
  ASSUME Inv, TypeOK',
         UNCHANGED <<sess, lock, providers, todo, alive, req, seen, ended>>,
         \A r \in Requests, s \in Sessions : reply[r][s] # "none" => reply'[r][s] # "none"
  PROVE  Inv'
BY DEF Inv, TypeOK, HistoryInv, LockInv, NoProviderLost, AskingInv, EveryoneAsked,
   EndedProvidersLeave, Registered, Ended

\* The steps of a session.
LEMMA SessionKeepsInv ==
  ASSUME Inv, TypeOK', NEW s \in Sessions, SessionStep(s)
  PROVE  Inv'
<1> USE DEF Inv, TypeOK, SessionStates
<1>1. CASE Register(s)
  <2>1. HistoryInv' /\ LockInv' /\ NoProviderLost'
    BY <1>1 DEF Register, HistoryInv, LockInv, NoProviderLost, Registered, Ended
  <2>2. AskingInv' /\ EveryoneAsked'
    BY <1>1 DEF Register, AskingInv, EveryoneAsked, HistoryInv, LockInv, Registered
  <2>3. EndedProvidersLeave'
    BY <1>1 DEF Register, EndedProvidersLeave, HistoryInv, Ended
  <2> QED BY <2>1, <2>2, <2>3
<1>2. CASE Open(s) \/ Work(s) \/ Resume(s) \/ Finish(s)
  <2>1. /\ UNCHANGED <<lock, providers, todo, alive, req, seen, ended>>
        /\ Registered' \subseteq Registered /\ Ended \subseteq Ended'
        /\ \A t \in Sessions : sess[t] \in {"ready", "busy", "gone"}
             => sess'[t] \in {"ready", "busy", "gone"}
        /\ \A r \in Requests, t \in Sessions :
             reply[r][t] # "none" => reply'[r][t] # "none"
    BY <1>2 DEF Open, Work, Resume, Finish, Registered, Ended
  <2>2. HistoryInv' /\ LockInv' /\ NoProviderLost'
    BY <2>1 DEF HistoryInv, LockInv, NoProviderLost
  <2>3. AskingInv' /\ EveryoneAsked' /\ EndedProvidersLeave'
    BY <2>1 DEF AskingInv, EveryoneAsked, EndedProvidersLeave, Registered
  <2> QED BY <2>2, <2>3
<1> QED BY <1>1, <1>2 DEF SessionStep

\* The steps of a request.
LEMMA RequestKeepsInv ==
  ASSUME Inv, TypeOK', NEW r \in Requests, RequestStep(r)
  PROVE  Inv'
<1> USE DEF Inv, TypeOK, RequestStates
<1>1. CASE Get(r)
  <2>1. HistoryInv' /\ LockInv' /\ NoProviderLost'
    BY <1>1 DEF Get, HistoryInv, LockInv, NoProviderLost, Registered, Ended
  <2>2. AskingInv' /\ EveryoneAsked' /\ EndedProvidersLeave'
    BY <1>1 DEF Get, AskingInv, EveryoneAsked, EndedProvidersLeave, Registered, Ended
  <2> QED BY <2>1, <2>2
<1>2. CASE Lock(r)
  <2>1. HistoryInv' /\ LockInv' /\ NoProviderLost'
    BY <1>2 DEF Lock, HistoryInv, LockInv, NoProviderLost, Registered, Ended
  <2>2. AskingInv'
    BY <1>2 DEF Lock, AskingInv, LockInv, NoProviderLost, Registered
  <2>3. EveryoneAsked' /\ EndedProvidersLeave'
    BY <1>2 DEF Lock, EveryoneAsked, EndedProvidersLeave, Registered
  <2> QED BY <2>1, <2>2, <2>3
<1>3. CASE Unlock(r)
  <2>1. HistoryInv' /\ LockInv' /\ NoProviderLost'
    BY <1>3 DEF Unlock, HistoryInv, LockInv, NoProviderLost, Registered, Ended
  <2>2. AskingInv' /\ EveryoneAsked'
    BY <1>3 DEF Unlock, AskingInv, EveryoneAsked, LockInv, Registered
  <2>3. EndedProvidersLeave'
    BY <1>3 DEF Unlock, EndedProvidersLeave, AskingInv, LockInv
  <2> QED BY <2>1, <2>2, <2>3
<1>4. ASSUME NEW s \in Sessions, Ask(r, s)
      PROVE  Inv'
  <2>1. /\ UNCHANGED <<sess, lock, providers, req, seen, ended>>
        /\ s \in todo /\ todo' = todo \ {s} /\ lock = r
        /\ \/ Closed(s) /\ UNCHANGED <<alive, reply>>
           \/ ~Closed(s) /\ alive' = alive \cup {s} /\ reply'[r][s] = "queued"
        /\ \A q \in Requests, t \in Sessions :
             reply[q][t] # "none" => reply'[q][t] # "none"
    BY <1>4 DEF Ask, LockInv
  <2>2. HistoryInv' /\ LockInv' /\ NoProviderLost'
    BY <2>1 DEF HistoryInv, LockInv, NoProviderLost, Registered, Ended, Closed
  <2>3. AskingInv'
    BY <2>1 DEF AskingInv, HistoryInv, LockInv, Registered, Ended, Closed
  <2>4. EveryoneAsked' /\ EndedProvidersLeave'
    BY <2>1 DEF EveryoneAsked, EndedProvidersLeave, Registered
  <2> QED BY <2>2, <2>3, <2>4
<1>5. ASSUME NEW s \in Sessions, Collect(r, s)
      PROVE  Inv'
  <2>1. \A q \in Requests, t \in Sessions : reply[q][t] # "none" => reply'[q][t] # "none"
    BY <1>5 DEF Collect
  <2> QED BY <1>5, <2>1, RepliesKeepInv DEF Collect
<1>6. CASE Respond(r)
  <2>1. /\ UNCHANGED <<sess, lock, providers, todo, alive>>
        /\ req' = [req EXCEPT ![r] = "done"] /\ req[r] = "awaiting"
        /\ \A q \in Requests : q # r => /\ reply'[q] = reply[q] /\ seen'[q] = seen[q]
                                        /\ ended'[q] = ended[q]
        /\ seen'[r] = {} /\ ended'[r] = {}
    BY <1>6 DEF Respond
  <2>2. HistoryInv' /\ LockInv' /\ NoProviderLost'
    BY <2>1 DEF HistoryInv, LockInv, NoProviderLost, Registered, Ended
  <2>3. AskingInv' /\ EveryoneAsked' /\ EndedProvidersLeave'
    BY <2>1 DEF AskingInv, EveryoneAsked, EndedProvidersLeave, Registered
  <2> QED BY <2>2, <2>3
<1> QED BY <1>1, <1>2, <1>3, <1>4, <1>5, <1>6 DEF RequestStep

LEMMA NextInv == Inv /\ [Next]_vars => Inv'
<1> SUFFICES ASSUME Inv, [Next]_vars PROVE Inv'
  OBVIOUS
<1>1. TypeOK'
  BY TypeNext DEF Inv
<1>2. CASE UNCHANGED vars
  BY <1>1, <1>2, RepliesKeepInv DEF vars
<1>3. ASSUME NEW r \in Requests, NEW s \in Sessions, ReplyStep(r, s)
      PROVE  Inv'
  <2>1. \A q \in Requests, t \in Sessions : reply[q][t] # "none" => reply'[q][t] # "none"
    BY <1>3 DEF ReplyStep, TakeRequest, Report, Inv, TypeOK
  <2> QED BY <1>1, <1>3, <2>1, RepliesKeepInv DEF ReplyStep, TakeRequest, Report
<1> QED BY <1>1, <1>2, <1>3, SessionKeepsInv, RequestKeepsInv DEF Next

\* Every variable keeps its type, and no stats channel ever holds two requests.
THEOREM TypeCorrect == Spec => []TypeOK
<1>1. Inv => TypeOK
  BY DEF Inv
<1> QED BY <1>1, InitInv, NextInv, PTL DEF Spec

\* The write-back of the living providers loses no session, whatever registers and
\* ends meanwhile.
THEOREM ProvidersKept == Spec => []NoProviderLost
<1>1. Inv => NoProviderLost
  BY DEF Inv
<1> QED BY <1>1, InitInv, NextInv, PTL DEF Spec

\* A response leaves out no session that was up all the time.
THEOREM ResponseComplete == Spec => []EveryoneAsked
<1>1. Inv => EveryoneAsked
  BY DEF Inv
<1> QED BY <1>1, InitInv, NextInv, PTL DEF Spec

\* A request takes the sessions off the list that were over before it came.
THEOREM EndedRemoved == Spec => []EndedProvidersLeave
<1>1. Inv => EndedProvidersLeave
  BY DEF Inv
<1> QED BY <1>1, InitInv, NextInv, PTL DEF Spec
================================================================================
