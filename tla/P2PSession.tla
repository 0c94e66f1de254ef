------------------------------- MODULE P2PSession ------------------------------
(***************************************************************************)
(* One WebSocket session of the P2P mode: the page (html/webrtc.js), the   *)
(* session task (p2p/websocket.rs, p2p/signaling.rs) and the WebRTC        *)
(* signaling thread of its peer (p2p/webrtc.rs).                           *)
(*                                                                         *)
(* Every connect() makes a new RTCPeerConnection, and every offer a new    *)
(* peer in momo; both are numbered by generation.  Messages carry the      *)
(* generation they belong to for the sake of the properties only: no       *)
(* action looks at it, since neither side sends any such number.           *)
(***************************************************************************)
EXTENDS Naturals, Sequences, FiniteSets

CONSTANTS
  MaxGen,     \* bound: calls of connect() on the page
  MaxCands    \* bound: ICE candidates of one PeerConnection, on either side

ASSUME P2PAssumption == MaxGen \in Nat /\ MaxCands \in Nat

VARIABLES
  pc,         \* peerConnection of the page, by generation; 0 is null
  gen,        \* the last generation made
  stage,      \* where the exchange of pc stands
  chain,      \* answers whose setRemoteDescription waits in pc
  remote,     \* whose answer pc has been given; 0 is none
  hasSdp,     \* hasReceivedSdp
  buffer,     \* `candidates` of the page
  gathering,  \* gathering[g]: candidates connection g of the page may still send
  sess,       \* where the session task stands
  peer,       \* `peer` of the session, by generation; 0 is None
  making,     \* `new_peer` of handle_signaling; 0 outside of it
  up, sig, down,  \* the socket to momo, the channel sig_tx, the socket to the page
  emitted,    \* emitted[g]: candidates momo's peer of generation g has found
  added,      \* history: candidates of its own peer added to pc
  refused,    \* history: generations whose offer or answer failed
  hurried     \* history: pc was made while an earlier offer was under way

page == <<pc, gen, stage, chain, remote, hasSdp, buffer, gathering, added, hurried>>
session == <<sess, peer, making>>
vars == <<page, session, up, sig, down, emitted, refused>>

Gens == 1..MaxGen
Messages == [type : {"offer", "answer", "candidate", "close"}, gen : Gens]
Message(t, g) == [type |-> t, gen |-> g]

\* How many elements of a sequence are in the set.
Among(set, queue) == Cardinality({i \in DOMAIN queue : queue[i] \in set})

TypeOK ==
  /\ pc \in {0, gen} /\ gen \in 0..MaxGen
  /\ stage \in {"none", "creating", "setting", "offered", "stable", "stuck"}
  /\ stage = "none" <=> pc = 0
  /\ chain \in Seq(Gens)
  /\ remote \in 0..gen
  /\ hasSdp \in BOOLEAN
  /\ buffer \in Seq(Gens)
  /\ gathering \in [Gens -> 0..MaxCands]
  /\ sess \in {"select", "srd", "create_answer", "sld", "over"}
  /\ making # 0 <=> sess \in {"srd", "create_answer", "sld"}
  /\ making # 0 => peer = 0
  /\ {peer, making} \subseteq 0..gen
  /\ {up, sig, down} \subseteq Seq(Messages)
  /\ emitted \in [Gens -> 0..MaxCands]
  /\ added \in 0..MaxCands
  /\ refused \subseteq Gens
  /\ hurried \in BOOLEAN

Init ==
  /\ pc = 0 /\ gen = 0 /\ stage = "none" /\ chain = <<>> /\ remote = 0
  /\ hasSdp = FALSE /\ buffer = <<>> /\ added = 0 /\ hurried = FALSE
  /\ gathering = [g \in Gens |-> 0]
  /\ sess = "select" /\ peer = 0 /\ making = 0
  /\ up = <<>> /\ sig = <<>> /\ down = <<>>
  /\ emitted = [g \in Gens |-> 0]
  /\ refused = {}

--------------------------------------------------------------------------------
(* The page.                                                               *)

\* ws.send: nothing arrives once the session is over.
Send(t, g) == up' = IF sess = "over" THEN up ELSE Append(up, Message(t, g))

Has(queue, t) == \E i \in 1..Len(queue) : queue[i].type = t

\* connect, and makeOffer up to its first await.
Connect ==
  /\ pc = 0 /\ gen < MaxGen
  /\ gen' = gen + 1 /\ pc' = gen + 1
  /\ stage' = "creating"
  /\ buffer' = <<>> /\ hasSdp' = FALSE
  /\ added' = 0
  /\ hurried' = (making # 0 \/ Has(up, "offer") \/ Has(sig \o down, "answer"))
  /\ UNCHANGED <<chain, remote, gathering, session, up, sig, down, emitted, refused>>

\* createOffer or setLocalDescription failed, and makeOffer is given up.
OfferFails ==
  /\ stage \in {"creating", "setting"}
  /\ stage' = "stuck" /\ chain' = <<>>
  /\ UNCHANGED <<pc, gen, remote, hasSdp, buffer, gathering, added, hurried,
                 session, up, sig, down, emitted, refused>>

OfferCreated ==
  /\ stage = "creating"
  /\ stage' = "setting"
  /\ UNCHANGED <<pc, gen, chain, remote, hasSdp, buffer, gathering, added, hurried,
                 session, up, sig, down, emitted, refused>>

\* setLocalDescription is done: the offer is sent, and candidates may follow.
SendOffer ==
  /\ stage = "setting"
  /\ stage' = "offered"
  /\ gathering' = [gathering EXCEPT ![pc] = MaxCands]
  /\ Send("offer", pc)
  /\ UNCHANGED <<pc, gen, chain, remote, hasSdp, buffer, added, hurried,
                 session, sig, down, emitted, refused>>

PageCandidate(g) ==
  /\ gathering[g] > 0
  /\ gathering' = [gathering EXCEPT ![g] = @ - 1]
  /\ Send("candidate", g)
  /\ UNCHANGED <<pc, gen, stage, chain, remote, hasSdp, buffer, added, hurried,
                 session, sig, down, emitted, refused>>

\* Mutant of Disconnect: the old RTCPeerConnection is dropped, but not closed.
DisconnectWithoutClose ==
  /\ pc # 0
  /\ pc' = 0 /\ stage' = "none" /\ chain' = <<>> /\ remote' = 0
  /\ Send("close", pc)
  /\ buffer' = <<>> /\ hasSdp' = FALSE
  /\ UNCHANGED <<gen, gathering, added, hurried, session, sig, down, emitted, refused>>

\* disconnect closes the connection, so that none of its promises settles and none
\* of its candidates follows, and tells momo.
Disconnect ==
  /\ pc # 0
  /\ pc' = 0 /\ stage' = "none" /\ chain' = <<>> /\ remote' = 0
  /\ gathering' = [gathering EXCEPT ![pc] = 0]
  /\ Send("close", pc)
  /\ buffer' = <<>> /\ hasSdp' = FALSE
  /\ UNCHANGED <<gen, added, hurried, session, sig, down, emitted, refused>>

\* setAnswer up to its await: setRemoteDescription waits for setLocalDescription
\* if need be, and is refused without an offer.
RecvAnswer ==
  /\ down # <<>> /\ Head(down).type = "answer"
  /\ down' = Tail(down)
  /\ chain' = IF stage \in {"setting", "offered"} THEN Append(chain, Head(down).gen)
                                                  ELSE chain
  /\ UNCHANGED <<pc, gen, stage, remote, hasSdp, buffer, gathering, added, hurried,
                 session, up, sig, emitted, refused>>

Own(queue) == Among({pc}, queue)

\* setRemoteDescription settles; then drainCandidate.  An answer that comes second
\* is refused, as the exchange is over.
SetAnswer ==
  /\ stage = "offered" /\ chain # <<>>
  /\ \/ /\ stage' = "stable" /\ chain' = <<>> /\ remote' = Head(chain)
        /\ hasSdp' = TRUE
        /\ buffer' = <<>> /\ added' = added + Own(buffer)
        /\ UNCHANGED refused
     \/ /\ chain' = Tail(chain)
        /\ refused' = refused \cup {Head(chain)}
        /\ UNCHANGED <<stage, remote, hasSdp, buffer, added>>
  /\ UNCHANGED <<pc, gen, gathering, hurried, session, up, sig, down, emitted>>

\* Mutant of RecvCandidate: a candidate that comes before the answer is dropped.
RecvCandidateOrDrop ==
  /\ down # <<>> /\ Head(down).type = "candidate"
  /\ down' = Tail(down)
  /\ added' = IF hasSdp /\ Head(down).gen = pc THEN added + 1 ELSE added
  /\ UNCHANGED <<pc, gen, stage, chain, remote, hasSdp, buffer, gathering, hurried,
                 session, up, sig, emitted, refused>>

RecvCandidate ==
  /\ down # <<>> /\ Head(down).type = "candidate"
  /\ down' = Tail(down)
  /\ IF hasSdp
       THEN /\ added' = IF Head(down).gen = pc THEN added + 1 ELSE added
            /\ UNCHANGED buffer
       ELSE buffer' = Append(buffer, Head(down).gen) /\ UNCHANGED added
  /\ UNCHANGED <<pc, gen, stage, chain, remote, hasSdp, gathering, hurried,
                 session, up, sig, emitted, refused>>

--------------------------------------------------------------------------------
(* The session task.                                                       *)

\* At the select, with a text of type t to read: handle_signaling is awaited
\* before anything else is read.
Read(t) ==
  /\ sess = "select"
  /\ up # <<>> /\ Head(up).type = t
  /\ up' = Tail(up)
  /\ UNCHANGED <<page, sig, down, emitted>>

\* Mutant of TakeClose: only "bye" is known.
TakeCloseUnknown == Read("close") /\ UNCHANGED <<session, refused>>

TakeClose == Read("close") /\ peer' = 0 /\ UNCHANGED <<sess, making, refused>>

\* Mutant of TakeOffer: the new peer is stored before the offer is processed.
TakeOfferAndStore ==
  /\ Read("offer")
  /\ \/ /\ sess' = "srd" /\ making' = Head(up).gen /\ peer' = Head(up).gen
        /\ UNCHANGED refused
     \/ /\ refused' = refused \cup {Head(up).gen} /\ peer' = 0
        /\ UNCHANGED <<sess, making>>

\* The old peer goes before the new one is made.
TakeOffer ==
  /\ Read("offer")
  /\ peer' = 0
  /\ \/ sess' = "srd" /\ making' = Head(up).gen /\ UNCHANGED refused
     \/ refused' = refused \cup {Head(up).gen} /\ UNCHANGED <<sess, making>>

\* add_ice_candidate, or a warning without a peer.
TakeCandidate == Read("candidate") /\ UNCHANGED <<session, refused>>

\* process_offer: its three awaits, any of which may fail.
OfferStep ==
  /\ \/ sess = "srd" /\ sess' = "create_answer"
     \/ sess = "create_answer" /\ sess' = "sld"
  /\ UNCHANGED <<page, peer, making, up, sig, down, emitted, refused>>

OfferRefused ==
  /\ sess \in {"srd", "create_answer", "sld"}
  /\ sess' = "select" /\ making' = 0
  /\ refused' = refused \cup {making}
  /\ UNCHANGED <<page, peer, up, sig, down, emitted>>

\* Mutant of SendAnswer: the answer is left out.
StorePeerOnly ==
  /\ sess = "sld"
  /\ sess' = "select" /\ making' = 0 /\ peer' = making
  /\ UNCHANGED <<page, up, sig, down, emitted, refused>>

\* SetLocalDescription is done: only now the answer is sent and the peer stored.
SendAnswer ==
  /\ sess = "sld"
  /\ sess' = "select" /\ making' = 0 /\ peer' = making
  /\ sig' = Append(sig, Message("answer", making))
  /\ UNCHANGED <<page, up, down, emitted, refused>>

\* sig_rx.recv at the select.
Forward ==
  /\ sess = "select" /\ sig # <<>>
  /\ down' = Append(down, Head(sig)) /\ sig' = Tail(sig)
  /\ UNCHANGED <<page, session, up, emitted, refused>>

\* The WebSocket ends: the peer is dropped, and the page is told nothing.
SessionOver ==
  /\ sess = "select"
  /\ sess' = "over" /\ peer' = 0
  /\ up' = <<>> /\ sig' = <<>>
  /\ UNCHANGED <<page, making, down, emitted, refused>>

\* on_ice_candidate: from SetLocalDescription on, until the peer is dropped.
MomoCandidate(g) ==
  /\ g = peer \/ (g = making /\ sess = "sld")
  /\ emitted[g] < MaxCands
  /\ emitted' = [emitted EXCEPT ![g] = @ + 1]
  /\ sig' = Append(sig, Message("candidate", g))
  /\ UNCHANGED <<page, session, up, down, refused>>

--------------------------------------------------------------------------------
PageStep == OfferCreated \/ SendOffer \/ RecvAnswer \/ SetAnswer \/ RecvCandidate
SessionStep ==
  \/ TakeClose \/ TakeOffer \/ TakeCandidate
  \/ OfferStep \/ SendAnswer \/ Forward

Next ==
  \/ PageStep \/ SessionStep
  \/ Connect \/ Disconnect \/ OfferFails \/ OfferRefused \/ SessionOver
  \/ \E g \in Gens : PageCandidate(g) \/ MomoCandidate(g)

\* The page and the session go on; the select takes ready branches at random (SF).
\* Users, candidates, failures and the end of the socket come or do not come.
Fairness ==
  /\ WF_vars(OfferCreated) /\ WF_vars(SendOffer) /\ WF_vars(SetAnswer)
  /\ WF_vars(RecvAnswer) /\ WF_vars(RecvCandidate)
  /\ SF_vars(TakeClose) /\ SF_vars(TakeOffer) /\ SF_vars(TakeCandidate)
  /\ WF_vars(OfferStep) /\ WF_vars(SendAnswer) /\ SF_vars(Forward)

Spec == Init /\ [][Next]_vars
FairSpec == Spec /\ Fairness

--------------------------------------------------------------------------------
(* Properties.                                                             *)

\* A candidate of the page is only ever given to the peer made for the offer of
\* the same connection, although neither side numbers them: offers are handled to
\* the end before the next message is read, and a failed one leaves no peer.
CandidateToItsPeer ==
  (sess = "select" /\ up # <<>> /\ Head(up).type = "candidate" /\ peer # 0)
    => Head(up).gen = peer

\* momo streams to nobody who left: with nothing left to read, its peer is the one
\* of the connection that the page has now.
PeerIsCurrent == (sess = "select" /\ up = <<>>) => peer \in {0, pc}

\* momo's candidates may overtake its answer, but none of them is lost.
UnderWay(g) ==
  Among({Message("candidate", g)}, sig) + Among({Message("candidate", g)}, down)
CandidatesKept ==
  (stage = "stable" /\ remote = pc /\ sess # "over")
    => emitted[pc] = added + UnderWay(pc)

\* A page that did not hurry gets its own answer, unless it disconnects, one side
\* refuses or the socket ends.  One that reconnects while an earlier offer is under
\* way may be given the answer to that.
AnsweredUnlessHurried ==
  \A g \in Gens :
    (pc = g /\ stage = "offered" /\ ~hurried)
      ~> (pc # g \/ remote = g \/ g \in refused \/ sess = "over")
================================================================================
