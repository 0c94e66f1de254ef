-------------------------------- MODULE Metrics --------------------------------
(***************************************************************************)
(* The metrics registry (metrics.rs) and the sessions that answer it: the  *)
(* select loops of the P2P and Ayame sessions (p2p/websocket.rs, ayame.rs) *)
(* and the detached stats task of a Sora session (sora.rs).                *)
(*                                                                         *)
(* GET /metrics locks the list of providers, sends one oneshot to each     *)
(* over its channel of capacity 1, unlocks, and awaits the replies.  A     *)
(* session registers under the same lock.  The order of the list only      *)
(* orders the JSON and is left out: the list is a set.                     *)
(***************************************************************************)
CONSTANTS
  Sessions,   \* sessions that come up while the program runs
  Detached,   \* those of them with a stats task of their own (Sora)
  Requests,   \* GET /metrics requests
  Stalled,    \* sessions whose client may stop reading for ever
  NoOne       \* the lock is free

ASSUME MetricsAssumption ==
  /\ Detached \subseteq Sessions
  /\ Stalled \subseteq Sessions \ Detached
  /\ NoOne \notin Requests

VARIABLES
  sess,       \* sess[s]: where session s stands
  lock,       \* holder of the Mutex of `providers`
  providers,  \* the registered providers, but for those being asked
  todo,       \* of the lock's holder: providers not asked yet
  alive,      \* of the lock's holder: providers asked
  req,        \* req[r]: where request r stands
  reply,      \* reply[r][s]: the oneshot r sent to s
  seen,       \* history: sessions registered when r arrived
  ended       \* history: sessions over when r arrived

vars == <<sess, lock, providers, todo, alive, req, reply, seen, ended>>

SessionStates == {"new", "registering", "ready", "busy", "gone"}
RequestStates == {"new", "waiting", "asking", "awaiting", "done"}

\* "queued": in the channel; "reporting": with get_stats; "over": sent, or its
\* sender dropped; "taken": collected by the request.
ReplyStates == {"none", "queued", "reporting", "over", "taken"}

TypeOK ==
  /\ sess \in [Sessions -> SessionStates]
  /\ lock \in Requests \cup {NoOne}
  /\ providers \subseteq Sessions
  /\ todo \subseteq Sessions
  /\ alive \subseteq Sessions
  /\ req \in [Requests -> RequestStates]
  /\ reply \in [Requests -> [Sessions -> ReplyStates]]
  /\ \A s \in Sessions, q, r \in Requests :
       reply[q][s] = "queued" /\ reply[r][s] = "queued" => q = r
  /\ seen \in [Requests -> SUBSET Sessions]
  /\ ended \in [Requests -> SUBSET Sessions]

Registered == {s \in Sessions : sess[s] \in {"ready", "busy"}}
Ended == {s \in Sessions : sess[s] = "gone"}

Init ==
  /\ sess = [s \in Sessions |-> "new"]
  /\ lock = NoOne
  /\ providers = {} /\ todo = {} /\ alive = {}
  /\ req = [r \in Requests |-> "new"]
  /\ reply = [r \in Requests |-> [s \in Sessions |-> "none"]]
  /\ seen = [r \in Requests |-> {}]
  /\ ended = [r \in Requests |-> {}]

--------------------------------------------------------------------------------
(* Sessions.                                                               *)

SessionUnchanged == UNCHANGED <<lock, todo, alive, req, seen, ended>>

\* The session is up and asks for the lock of the registry.
Open(s) ==
  /\ sess[s] = "new"
  /\ sess' = [sess EXCEPT ![s] = "registering"]
  /\ UNCHANGED <<providers, reply>> /\ SessionUnchanged

Register(s) ==
  /\ sess[s] = "registering"
  /\ lock = NoOne
  /\ providers' = providers \cup {s}
  /\ sess' = [sess EXCEPT ![s] = "ready"]
  /\ UNCHANGED reply /\ SessionUnchanged

\* The session leaves its select for a message or a write, and comes back.
Work(s) ==
  /\ sess[s] = "ready" /\ s \notin Detached
  /\ sess' = [sess EXCEPT ![s] = "busy"]
  /\ UNCHANGED <<providers, reply>> /\ SessionUnchanged

Resume(s) ==
  /\ sess[s] = "busy"
  /\ sess' = [sess EXCEPT ![s] = "ready"]
  /\ UNCHANGED <<providers, reply>> /\ SessionUnchanged

\* Whoever owns the receiving end of the stats channel of s is at its recv.
Receiving(s) ==
  IF s \in Detached
    THEN /\ sess[s] \in {"ready", "gone"}
         /\ \A r \in Requests : reply[r][s] # "reporting"
    ELSE sess[s] = "ready"

\* get_stats is called, or "[]" sent at once when there is no PeerConnection.
TakeRequest(r, s) ==
  /\ Receiving(s)
  /\ reply[r][s] = "queued"
  /\ \/ reply' = [reply EXCEPT ![r][s] = "reporting"]
     \/ s \notin Detached /\ reply' = [reply EXCEPT ![r][s] = "over"]
  /\ UNCHANGED <<sess, providers>> /\ SessionUnchanged

\* The report comes, or its callback is dropped with the PeerConnection.
Report(r, s) ==
  /\ reply[r][s] = "reporting"
  /\ reply' = [reply EXCEPT ![r][s] = "over"]
  /\ UNCHANGED <<sess, providers>> /\ SessionUnchanged

\* Mutant of Finish: the receiver outlives its session, unread.
FinishKeepingQueue(s) ==
  /\ sess[s] \in {"ready", "busy"}
  /\ sess' = [sess EXCEPT ![s] = "gone"]
  /\ UNCHANGED <<providers, reply>> /\ SessionUnchanged

\* The session is over.  Its receiver is dropped with what is queued in it, but
\* a detached stats task lives on.
Finish(s) ==
  /\ sess[s] \in {"ready", "busy"}
  /\ sess' = [sess EXCEPT ![s] = "gone"]
  /\ reply' = [r \in Requests |->
                 IF reply[r][s] = "queued" /\ s \notin Detached
                   THEN [reply[r] EXCEPT ![s] = "over"] ELSE reply[r]]
  /\ UNCHANGED providers /\ SessionUnchanged

--------------------------------------------------------------------------------
(* GET /metrics: collect_stats.                                            *)

Get(r) ==
  /\ req[r] = "new"
  /\ req' = [req EXCEPT ![r] = "waiting"]
  /\ seen' = [seen EXCEPT ![r] = Registered]
  /\ ended' = [ended EXCEPT ![r] = Ended]
  /\ UNCHANGED <<sess, lock, providers, todo, alive, reply>>

\* Mutant of Lock: the guard is dropped after the drain, before the sends.
LockForDrainOnly(r) ==
  /\ req[r] = "waiting"
  /\ lock = NoOne
  /\ todo' = providers /\ providers' = {}
  /\ req' = [req EXCEPT ![r] = "asking"]
  /\ UNCHANGED <<sess, lock, alive, reply, seen, ended>>

Lock(r) ==
  /\ req[r] = "waiting"
  /\ lock = NoOne
  /\ lock' = r
  /\ todo' = providers /\ providers' = {}
  /\ req' = [req EXCEPT ![r] = "asking"]
  /\ UNCHANGED <<sess, alive, reply, seen, ended>>

\* The receiver of the stats channel of s is gone, and so is every later send.
Closed(s) == sess[s] = "gone" /\ s \notin Detached
Full(s) == \E r \in Requests : reply[r][s] = "queued"

\* Mutant of Ask: a full channel is skipped, like one that is closed.
TryAsk(r, s) ==
  /\ req[r] = "asking" /\ s \in todo
  /\ todo' = todo \ {s}
  /\ IF Closed(s) \/ Full(s)
       THEN UNCHANGED <<alive, reply>>
       ELSE /\ alive' = alive \cup {s}
                /\ reply' = [reply EXCEPT ![r][s] = "queued"]
  /\ UNCHANGED <<sess, lock, providers, req, seen, ended>>

\* Mutant of Ask: what the send returned makes no difference to the list.
AskKeepingDead(r, s) ==
  /\ req[r] = "asking" /\ s \in todo
  /\ todo' = todo \ {s}
  /\ alive' = alive \cup {s}
  /\ \/ Closed(s) /\ UNCHANGED reply
     \/ ~Closed(s) /\ ~Full(s) /\ reply' = [reply EXCEPT ![r][s] = "queued"]
  /\ UNCHANGED <<sess, lock, providers, req, seen, ended>>

\* provider.send(tx).await, with the lock held.
Ask(r, s) ==
  /\ req[r] = "asking" /\ s \in todo
  /\ todo' = todo \ {s}
  /\ \/ Closed(s) /\ UNCHANGED <<alive, reply>>
     \/ /\ ~Closed(s) /\ ~Full(s)
        /\ alive' = alive \cup {s}
        /\ reply' = [reply EXCEPT ![r][s] = "queued"]
  /\ UNCHANGED <<sess, lock, providers, req, seen, ended>>

\* Mutant of Unlock: the replies are awaited with the lock held.
UnlockAfterReplies(r) ==
  /\ req[r] = "asking" /\ todo = {}
  /\ \A s \in alive : reply[r][s] = "over"
  /\ providers' = alive /\ alive' = {}
  /\ lock' = NoOne
  /\ req' = [req EXCEPT ![r] = "awaiting"]
  /\ UNCHANGED <<sess, todo, reply, seen, ended>>

Unlock(r) ==
  /\ req[r] = "asking" /\ todo = {}
  /\ providers' = alive /\ alive' = {}
  /\ lock' = NoOne
  /\ req' = [req EXCEPT ![r] = "awaiting"]
  /\ UNCHANGED <<sess, todo, reply, seen, ended>>

\* A reply is there, or its sender was dropped.
Collect(r, s) ==
  /\ req[r] = "awaiting"
  /\ reply[r][s] = "over"
  /\ reply' = [reply EXCEPT ![r][s] = "taken"]
  /\ UNCHANGED <<sess, lock, providers, todo, alive, req, seen, ended>>

\* The response is written; the history of r ends here.
Respond(r) ==
  /\ req[r] = "awaiting"
  /\ \A s \in Sessions : reply[r][s] \in {"none", "taken"}
  /\ req' = [req EXCEPT ![r] = "done"]
  /\ reply' = [reply EXCEPT ![r] = [s \in Sessions |-> "none"]]
  /\ seen' = [seen EXCEPT ![r] = {}] /\ ended' = [ended EXCEPT ![r] = {}]
  /\ UNCHANGED <<sess, lock, providers, todo, alive>>

--------------------------------------------------------------------------------
SessionStep(s) == Open(s) \/ Register(s) \/ Work(s) \/ Resume(s) \/ Finish(s)
ReplyStep(r, s) == TakeRequest(r, s) \/ Report(r, s)
RequestStep(r) ==
  \/ Get(r) \/ Lock(r) \/ Unlock(r) \/ Respond(r)
  \/ \E s \in Sessions : Ask(r, s) \/ Collect(r, s)

Next ==
  \/ \E s \in Sessions : SessionStep(s)
  \/ \E r \in Requests, s \in Sessions : ReplyStep(r, s)
  \/ \E r \in Requests : RequestStep(r)

\* A session works for a while only, unless its client stalls it; its select takes
\* the branches that are ready at random, so the stats branch gets its turn (SF).
Fairness ==
  /\ \A s \in Sessions :
       /\ WF_vars(Register(s))
       /\ WF_vars(s \notin Stalled /\ Resume(s))
  /\ \A r \in Requests :
       /\ WF_vars(Lock(r)) /\ WF_vars(Unlock(r)) /\ WF_vars(Respond(r))
       /\ \A s \in Sessions :
            /\ WF_vars(Ask(r, s)) /\ WF_vars(Collect(r, s))
            /\ SF_vars(TakeRequest(r, s)) /\ WF_vars(Report(r, s))

Spec == Init /\ [][Next]_vars
FairSpec == Spec /\ Fairness

--------------------------------------------------------------------------------
(* Properties.                                                             *)

\* Whatever registers while a request asks the others, the write-back of the
\* living providers loses no session that is still running.
NoProviderLost == Registered \subseteq providers \cup todo \cup alive

\* A response leaves out no session that was registered when the request came
\* and that is still running: a full channel is waited for, not skipped.
EveryoneAsked ==
  \A r \in Requests :
    req[r] = "awaiting" =>
      \A s \in seen[r] \cap Registered : reply[r][s] # "none"

\* A session that was over when a request came is off the list after it, if its
\* channel ends with it.
EndedProvidersLeave ==
  \A r \in Requests :
    req[r] = "awaiting" =>
      (ended[r] \ Detached) \cap (providers \cup todo \cup alive) = {}

\* What holds the registry up for good: a stalled session that has not taken the
\* oneshot of an earlier request keeps the next one waiting, with the lock held.
HeadOfLine ==
  /\ lock # NoOne
  /\ \E s \in todo \cap Stalled : sess[s] = "busy" /\ Full(s)

\* One client that stops reading can keep all the other sessions from coming up,
\* but only with two requests, the second of them in possession of the lock.
RegistersUnlessHeadOfLine ==
  \A s \in Sessions :
    sess[s] = "registering" ~> (sess[s] # "registering" \/ []HeadOfLine)

\* A request is answered, however sessions come and go, unless it waits for a
\* stalled session.
StalledSession == \E s \in Stalled : sess[s] = "busy" /\ Full(s)
AnsweredUnlessStalled ==
  \A r \in Requests : req[r] = "waiting" ~> (req[r] = "done" \/ []StalledSession)

================================================================================
