------------------------------- MODULE MoqClient -------------------------------
(***************************************************************************)
(* MoqtClient (momo-moq/src/client.rs): the queues between the MOQT        *)
(* session, the QUIC streams and the one task that owns them.  The module  *)
(* has no program of its own; MoqPublisher extends it and says when its    *)
(* task is in next_event and when it waits for the answer to a request.    *)
(*                                                                         *)
(* The Session of the moqt library is external.  What it hands back for a  *)
(* message (poll_event) is drained before the next message is taken, so    *)
(* that no queue of it is kept here; a timer of it may close the session.  *)
(***************************************************************************)
EXTENDS Naturals, Sequences, FiniteSets

CONSTANTS
  Own,       \* requests of this side, each with its stream
  Requests,  \* requests the relay may make, each with its stream
  Updates,   \* REQUEST_UPDATEs the relay may send
  MaxInbox   \* bound: messages in bidi_rx (64 in the code)

ASSUME ClientAssumption ==
  /\ MaxInbox \in Nat
  /\ Own \cap Requests = {} /\ Own \cap Updates = {} /\ Requests \cap Updates = {}

VARIABLES
  own,       \* state of the subscription of each own request
  control,   \* the one message the relay may send on the control stream
  bidi,      \* bidi_rx
  asked,     \* questions the relay has sent: requests and updates
  over,      \* streams whose sending side the relay has closed
  halves,    \* bidi_sends: the streams an answer can still be written to
  closed,    \* closed_request_streams
  requests,  \* incoming_requests
  updates,   \* incoming_updates
  goaway,    \* notable_events holds an event
  expired,   \* tick has closed the session, and nobody has polled it yet
  replied,   \* history: questions answered on the wire
  dropped,   \* history: questions whose answer by the application was thrown away
  refused,   \* history: requests the Session has refused by itself
  lost,      \* history: those of them whose refusal went with a dropped future
  rejected   \* history: requests answered with the last word on their stream

peer == <<control, asked, over>>
vanished == <<replied, dropped, refused, lost, rejected>>
clientVars == <<own, control, bidi, asked, over, halves, closed, requests, updates,
                goaway, expired, replied, dropped, refused, lost, rejected>>

Streams == Own \cup Requests
Kinds == {"track", "catalog", "other"}
OwnStates == {"unsent", "pending", "established", "terminated", "forgotten"}
BidiMessages ==
  [what : {"answer"}, on : Own, ok : BOOLEAN]
    \cup [what : {"request"}, on : Requests, kind : Kinds]
    \cup [what : {"update"}, on : Streams, id : Updates]
    \cup [what : {"end"}, on : Streams]

ClientTypeOK ==
  /\ own \in [Own -> OwnStates]
  /\ control \in {"none", "goaway", "close", "read"}
  /\ bidi \in Seq(BidiMessages)
  /\ asked \subseteq Requests \cup Updates
  /\ over \subseteq Streams
  /\ halves \subseteq Streams
  /\ closed \subseteq Streams
  /\ requests \in Seq([on : Requests, kind : Kinds])
  /\ updates \in Seq([on : Streams, id : Updates])
  /\ {goaway, expired} \subseteq BOOLEAN
  /\ replied \cup dropped \subseteq Requests \cup Updates
  /\ refused \cup lost \cup rejected \subseteq Requests

ClientInit ==
  /\ own = [o \in Own |-> "unsent"]
  /\ control = "none" /\ bidi = <<>> /\ asked = {} /\ over = {}
  /\ halves = {} /\ closed = {}
  /\ requests = <<>> /\ updates = <<>> /\ goaway = FALSE /\ expired = FALSE
  /\ replied = {} /\ dropped = {} /\ refused = {} /\ lost = {} /\ rejected = {}

--------------------------------------------------------------------------------
(* The relay.  The receiving task of a stream keeps its messages in order.  *)

\* A task that finds the channel full waits, and its stream with it.
Tell(m) == Len(bidi) < MaxInbox /\ bidi' = Append(bidi, m)

PeerAnswers(o) ==
  /\ own[o] = "pending" /\ o \notin over
  /\ \A i \in 1..Len(bidi) : ~(bidi[i].what = "answer" /\ bidi[i].on = o)
  /\ \E ok \in BOOLEAN : Tell([what |-> "answer", on |-> o, ok |-> ok])
  /\ UNCHANGED <<own, peer, halves, closed, requests, updates, goaway, expired, vanished>>

PeerAsks(r) ==
  /\ r \notin asked
  /\ asked' = asked \cup {r}
  /\ \E k \in Kinds : Tell([what |-> "request", on |-> r, kind |-> k])
  /\ UNCHANGED <<own, control, over, halves, closed, requests, updates, goaway,
                 expired, vanished>>

PeerUpdates(u, s) ==
  /\ u \notin asked /\ s \notin over
  /\ s \in asked \/ (s \in Own /\ own[s] = "established")
  /\ asked' = asked \cup {u}
  /\ Tell([what |-> "update", on |-> s, id |-> u])
  /\ UNCHANGED <<own, control, over, halves, closed, requests, updates, goaway,
                 expired, vanished>>

PeerEnds(s) ==
  /\ s \notin over
  /\ s \in asked \/ (s \in Own /\ own[s] # "unsent")
  /\ over' = over \cup {s}
  /\ Tell([what |-> "end", on |-> s])
  /\ UNCHANGED <<own, control, asked, halves, closed, requests, updates, goaway,
                 expired, vanished>>

\* GOAWAY, or an error that closes the session.
PeerControls ==
  /\ control = "none"
  /\ control' \in {"goaway", "close"}
  /\ UNCHANGED <<own, bidi, asked, over, halves, closed, requests, updates, goaway,
                 expired, vanished>>

--------------------------------------------------------------------------------
(* The owning task.                                                        *)

\* cleanup_closed_requests, the end of every drain_events: the Session says which of
\* the closed streams are through, and those are forgotten.
Drained(state, sending, ended) ==
  \E F \in SUBSET ended :
    /\ own' = [o \in Own |-> IF o \in F THEN "forgotten" ELSE state[o]]
    /\ halves' = sending \ F
    /\ closed' = ended \ F

\* send_publish and the SendRequest it yields: the stream is open.
OpenRequest(o) ==
  /\ ~expired
  /\ Drained([own EXCEPT ![o] = "pending"], halves \cup {o}, closed)
  /\ UNCHANGED <<peer, bidi, requests, updates, goaway, expired, vanished>>

Next1(what) == bidi # <<>> /\ Head(bidi).what = what /\ bidi' = Tail(bidi)

RecvAnswer ==
  /\ Next1("answer")
  /\ LET m == Head(bidi)
     IN Drained(IF own[m.on] = "pending"
                THEN [own EXCEPT ![m.on] = IF m.ok THEN "established" ELSE "terminated"]
                ELSE own,
                halves, closed)
  /\ UNCHANGED <<peer, requests, updates, goaway, expired, vanished>>

RecvUpdate ==
  /\ Next1("update")
  /\ updates' = Append(updates, [on |-> Head(bidi).on, id |-> Head(bidi).id])
  /\ Drained(own, halves, closed)
  /\ UNCHANGED <<peer, requests, goaway, expired, vanished>>

\* Mutant of RecvRequest: the request is queued only when the session's answers are
\* written, so that a dropped future loses it too.
RecvRequestAfterDrain(inSelect) ==
  /\ Next1("request")
  /\ LET r == Head(bidi).on
         queued == Append(requests, [on |-> r, kind |-> Head(bidi).kind])
     IN /\ \/ /\ requests' = queued /\ Drained(own, halves \cup {r}, closed)
              /\ UNCHANGED <<replied, refused, lost>>
           \/ /\ requests' = queued /\ Drained(own, halves, closed)
              /\ refused' = refused \cup {r} /\ replied' = replied \cup {r}
              /\ UNCHANGED lost
           \/ /\ inSelect
              /\ refused' = refused \cup {r} /\ lost' = lost \cup {r}
              /\ UNCHANGED <<own, halves, closed, replied, requests>>
        /\ UNCHANGED <<dropped, rejected>>
  /\ UNCHANGED <<peer, updates, goaway, expired>>

\* A new stream of the relay.  The Session may refuse the request by itself; the
\* application is given it all the same.  The refusal is written in drain_events,
\* under an await: in a select (inSelect) another branch may drop the future there,
\* and the answer is gone together with the half it was to be written to.
RecvRequest(inSelect) ==
  /\ Next1("request")
  /\ LET r == Head(bidi).on
     IN /\ requests' = Append(requests, [on |-> r, kind |-> Head(bidi).kind])
        /\ \/ /\ Drained(own, halves \cup {r}, closed)
              /\ UNCHANGED <<replied, refused, lost>>
           \/ /\ refused' = refused \cup {r} /\ replied' = replied \cup {r}
              /\ Drained(own, halves, closed)
              /\ UNCHANGED lost
           \/ /\ inSelect
              /\ refused' = refused \cup {r} /\ lost' = lost \cup {r}
              /\ UNCHANGED <<own, halves, closed, replied>>
        /\ UNCHANGED <<dropped, rejected>>
  /\ UNCHANGED <<peer, updates, goaway, expired>>

\* A request whose stream ends before the answer has come is terminated.  Whether the
\* stream is kept for cleanup depends on what the Session knows of it.
RecvEnd ==
  /\ Next1("end")
  /\ LET s == Head(bidi).on
         state == [o \in Own |-> IF o = s /\ own[o] = "pending" THEN "terminated" ELSE own[o]]
     IN \E ended \in {closed, closed \cup {s}} : Drained(state, halves, ended)
  /\ UNCHANGED <<peer, requests, updates, goaway, expired, vanished>>

RecvGoaway ==
  /\ control = "goaway"
  /\ control' = "read" /\ goaway' = TRUE
  /\ Drained(own, halves, closed)
  /\ UNCHANGED <<bidi, asked, over, requests, updates, expired, vanished>>

\* pump_once, for every message but the one that closes the session.
Pump(inSelect) ==
  /\ ~expired
  /\ \/ RecvAnswer \/ RecvUpdate \/ RecvRequest(inSelect) \/ RecvEnd \/ RecvGoaway

Tick ==
  /\ ~expired
  /\ expired' \in BOOLEAN
  /\ Drained(own, halves, closed)
  /\ UNCHANGED <<peer, bidi, requests, updates, goaway, vanished>>

\* send_request_ok and its like: the Session refuses a second answer, and
\* drain_events drops one whose half is gone.  `last` closes the half.
Reply(q, s, last) ==
  /\ ~expired /\ q \notin refused
  /\ IF s \in halves
       THEN /\ replied' = replied \cup {q}
            /\ rejected' = IF last THEN rejected \cup {q} ELSE rejected
            /\ UNCHANGED dropped
       ELSE dropped' = dropped \cup {q} /\ UNCHANGED <<replied, rejected>>
  /\ Drained(own, IF last THEN halves \ {s} ELSE halves, closed)
  /\ UNCHANGED <<peer, bidi, goaway, expired, refused, lost>>

\* Mutant of RequestNext: requests wait for the first GOAWAY or time-out.
RequestAfterEvents == updates = <<>> /\ requests # <<>> /\ goaway

\* What next_event returns, in its order.
UpdateFirst == updates # <<>>
RequestNext == updates = <<>> /\ requests # <<>>
EventLast == updates = <<>> /\ requests = <<>> /\ (goaway \/ expired)
NothingQueued == updates = <<>> /\ requests = <<>> /\ ~goaway /\ ~expired
================================================================================
