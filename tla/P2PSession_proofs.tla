--------------------------- MODULE P2PSession_proofs ---------------------------
(***************************************************************************)
(* Proofs about the P2P mode, for any number of connections, candidates,   *)
(* DataChannels and messages: the session of P2PSession, and the bridges   *)
(* of SerialBridge that its DataChannels may start.  The two share nothing *)
(* and have names of their own, so that one module can hold both.          *)
(***************************************************************************)
EXTENDS P2PSession, SerialBridge, FiniteSetTheorems, SequenceTheorems, TLAPS

--------------------------------------------------------------------------------
(* How many elements of a sequence are in a set.                           *)

LEMMA AmongType ==
  ASSUME NEW S, NEW s \in Seq(S), NEW T
  PROVE  /\ IsFiniteSet({i \in DOMAIN s : s[i] \in T})
         /\ Among(T, s) \in Nat
<1>1. DOMAIN s = 1..Len(s) /\ Len(s) \in Nat
  OBVIOUS
<1>2. IsFiniteSet(DOMAIN s)
  BY <1>1, FS_Interval
<1>3. {i \in DOMAIN s : s[i] \in T} \in SUBSET DOMAIN s
  OBVIOUS
<1>4. IsFiniteSet({i \in DOMAIN s : s[i] \in T})
  BY <1>2, <1>3, FS_Subset
<1> QED BY <1>4, FS_CardinalityType DEF Among

LEMMA AmongNone ==
  ASSUME NEW S, NEW s \in Seq(S), NEW T, \A i \in DOMAIN s : s[i] \notin T
  PROVE  Among(T, s) = 0
<1>1. {i \in DOMAIN s : s[i] \in T} = {}
  OBVIOUS
<1> QED BY <1>1, FS_EmptySet DEF Among

LEMMA AmongAppend ==
  ASSUME NEW S, NEW s \in Seq(S), NEW x \in S, NEW T
  PROVE  Among(T, Append(s, x)) = Among(T, s) + IF x \in T THEN 1 ELSE 0
<1> DEFINE n == Len(s) + 1
           old == {i \in DOMAIN s : s[i] \in T}
           new == {i \in DOMAIN Append(s, x) : Append(s, x)[i] \in T}
<1>1. /\ DOMAIN s = 1..Len(s) /\ DOMAIN Append(s, x) = (1..Len(s)) \cup {n} /\ n \notin DOMAIN s
      /\ \A i \in 1..Len(s) : Append(s, x)[i] = s[i]
      /\ Append(s, x)[n] = x
  OBVIOUS
<1>2. new = IF x \in T THEN old \cup {n} ELSE old
  BY <1>1
<1>3. IsFiniteSet(old) /\ Cardinality(old) \in Nat
  BY AmongType DEF Among
<1>4. n \notin old
  BY <1>1
<1> HIDE DEF n, old, new
<1>5. Cardinality(old \cup {n}) = Cardinality(old) + 1
  BY <1>3, <1>4, FS_AddElement
<1>6. Cardinality(new) = Cardinality(old) + IF x \in T THEN 1 ELSE 0
  BY <1>2, <1>3, <1>5
<1> QED BY <1>6 DEF Among, old, new

LEMMA AmongTail ==
  ASSUME NEW S, NEW s \in Seq(S), s # <<>>, NEW T
  PROVE  Among(T, s) = Among(T, Tail(s)) + IF Head(s) \in T THEN 1 ELSE 0
<1> DEFINE all == {i \in DOMAIN s : s[i] \in T}
           later == all \ {1}
           rest == {i \in DOMAIN Tail(s) : Tail(s)[i] \in T}
           f == [i \in rest |-> i + 1]
<1>1. /\ DOMAIN s = 1..Len(s) /\ DOMAIN Tail(s) = 1..(Len(s) - 1) /\ Len(s) \in Nat \ {0}
      /\ \A i \in 1..(Len(s) - 1) : Tail(s)[i] = s[i + 1]
      /\ Head(s) = s[1] /\ Tail(s) \in Seq(S)
  OBVIOUS
<1>2. IsFiniteSet(all) /\ IsFiniteSet(rest)
  BY <1>1, AmongType
<1>3. f \in Bijection(rest, later)
  <2>1. \A i \in rest : i + 1 \in later
    BY <1>1
  <2>2. \A j \in later : j - 1 \in rest /\ (j - 1) + 1 = j
    <3> TAKE j \in later
    <3>1. j \in 2..Len(s) /\ s[j] \in T
      BY <1>1
    <3>2. j - 1 \in 1..(Len(s) - 1) /\ (j - 1) + 1 = j
      BY <1>1, <3>1
    <3>3. Tail(s)[j - 1] = s[j]
      BY <1>1, <3>2
    <3> QED BY <1>1, <3>1, <3>2, <3>3
  <2>3. \A i, k \in rest : i + 1 = k + 1 => i = k
    BY <1>1
  <2> HIDE DEF rest, later
  <2>4. f \in [rest -> later]
    BY <2>1
  <2> QED BY <2>2, <2>3, <2>4 DEF Bijection, Injection, Surjection, IsInjective
<1>4. Cardinality(later) = Cardinality(rest)
  BY <1>2, <1>3, FS_Bijection, ZenonT(30) DEF ExistsBijection
<1>5. Cardinality(later) = IF 1 \in all THEN Cardinality(all) - 1 ELSE Cardinality(all)
  BY <1>2, FS_RemoveElement
<1>6. 1 \in all <=> Head(s) \in T
  BY <1>1
<1>7. Cardinality(all) \in Nat /\ Cardinality(rest) \in Nat
  BY <1>2, FS_CardinalityType
<1> HIDE DEF all, later, rest, f
<1>8. Cardinality(all) = Cardinality(rest) + IF Head(s) \in T THEN 1 ELSE 0
  BY <1>4, <1>5, <1>6, <1>7
<1> QED BY <1>8 DEF Among, all, rest

--------------------------------------------------------------------------------
(* The inductive invariant of the session.  The socket to momo holds, for  *)
(* each connection in turn, its offer, its candidates and its close; the   *)
(* first candidates of it may belong to an offer that is handled already.  *)

\* The peer that the last offer has led to, made or still being made.
Hold == IF making # 0 THEN making ELSE peer

\* setLocalDescription of the page's connection is done.
Offered == stage \in {"offered", "stable"}

\* Nothing bears the number of a connection that is still to come.
Numbered ==
  /\ \A i \in DOMAIN up : up[i].gen <= gen
  /\ \A i \in DOMAIN sig : sig[i].gen <= gen
  /\ \A i \in DOMAIN down : down[i].gen <= gen
  /\ \A i \in DOMAIN chain : chain[i] <= gen
  /\ \A g \in Gens : g > gen => emitted[g] = 0

\* A candidate follows its offer or another candidate of it, and the first message of
\* the socket, if it is one, belongs to the offer that momo has taken last.
CandidatesFollow ==
  /\ \A i \in 2..Len(up) :
       up[i].type = "candidate" =>
         up[i - 1].gen = up[i].gen /\ up[i - 1].type \in {"offer", "candidate"}
  /\ up # <<>> /\ up[1].type = "candidate" => Hold \in {0, up[1].gen}

\* What the page has said last: something of the connection it has now, if that one is
\* offered, and otherwise a close.  Once all is read, momo's peer agrees with it.
LastWord ==
  /\ up = <<>> => Hold \in IF Offered THEN {0, pc} ELSE {0}
  /\ up # <<>> => IF Offered
                  THEN up[Len(up)].gen = pc /\ up[Len(up)].type \in {"offer", "candidate"}
                  ELSE up[Len(up)].type = "close"

Gathers == \A g \in Gens : gathering[g] > 0 => g = pc /\ Offered

Silent == sess = "over" => up = <<>> /\ sig = <<>> /\ Hold = 0

Buffered ==
  /\ hasSdp <=> stage = "stable"
  /\ hasSdp => buffer = <<>>

\* Every candidate of momo's current peer is on its way, in the buffer or added, but
\* for those that went with the session.
Counted ==
  pc # 0 =>
    /\ added + Own(buffer) + UnderWay(pc) <= emitted[pc]
    /\ sess # "over" => emitted[pc] = added + Own(buffer) + UnderWay(pc)

Inv ==
  /\ TypeOK /\ Numbered /\ CandidatesFollow /\ LastWord /\ Gathers /\ Silent
  /\ Buffered /\ Counted

LEMMA InvInit == Init => Inv
<1> SUFFICES ASSUME Init PROVE Inv
  OBVIOUS
<1> USE P2PAssumption DEF Init
<1>1. TypeOK
  <2>1. /\ <<>> \in Seq(Gens) /\ <<>> \in Seq(Messages)
        /\ [g \in Gens |-> 0] \in [Gens -> 0..MaxCands]
    OBVIOUS
  <2>2. {up, sig, down} \subseteq Seq(Messages) /\ {peer, making} \subseteq 0..gen
    BY <2>1
  <2>3. /\ chain \in Seq(Gens) /\ buffer \in Seq(Gens)
        /\ gathering \in [Gens -> 0..MaxCands] /\ emitted \in [Gens -> 0..MaxCands]
    BY <2>1
  <2>4. /\ pc \in {0, gen} /\ gen \in 0..MaxGen /\ remote \in 0..gen /\ added \in 0..MaxCands
        /\ stage = "none" /\ pc = 0 /\ sess = "select" /\ making = 0 /\ peer = 0
    BY DEF Init
  <2>5. hasSdp \in BOOLEAN /\ hurried \in BOOLEAN /\ refused \subseteq Gens
    BY DEF Init
  <2> QED BY ONLY <2>2, <2>3, <2>4, <2>5 DEF TypeOK
<1>2. Numbered /\ CandidatesFollow /\ LastWord /\ Gathers /\ Silent
  BY DEF Numbered, CandidatesFollow, LastWord, Gathers, Silent, Hold, Offered, Gens
<1>3. Buffered /\ Counted
  BY DEF Buffered, Counted
<1> QED BY <1>1, <1>2, <1>3 DEF Inv

--------------------------------------------------------------------------------
(* The types, and what a step does to a queue.                             *)

\* The types in the form the provers use best.
LEMMA Types ==
  ASSUME TypeOK
  PROVE  /\ up \in Seq(Messages) /\ sig \in Seq(Messages) /\ down \in Seq(Messages)
         /\ Len(up) \in Nat /\ chain \in Seq(Gens) /\ buffer \in Seq(Gens)
         /\ gen \in 0..MaxGen /\ pc \in {0, gen} /\ making \in 0..gen /\ peer \in 0..gen
         /\ Gens \subseteq Nat \ {0} /\ MaxGen \in Nat /\ MaxCands \in Nat
         /\ pc # 0 => pc \in Gens
         /\ making # 0 => making \in Gens
         /\ peer # 0 => peer \in Gens
<1>1. /\ up \in Seq(Messages) /\ sig \in Seq(Messages) /\ down \in Seq(Messages)
      /\ chain \in Seq(Gens) /\ buffer \in Seq(Gens)
      /\ gen \in 0..MaxGen /\ pc \in {0, gen} /\ making \in 0..gen /\ peer \in 0..gen
  BY DEF TypeOK
<1> QED BY <1>1, P2PAssumption DEF Gens

LEMMA MessageIs ==
  ASSUME NEW t \in {"offer", "answer", "candidate", "close"}, NEW g \in Gens
  PROVE  Message(t, g) \in Messages /\ Message(t, g).type = t /\ Message(t, g).gen = g
BY DEF Message, Messages

LEMMA HeadIs ==
  ASSUME NEW q \in Seq(Messages), q # <<>>
  PROVE  /\ Head(q) = q[1] /\ Head(q) \in Messages /\ Head(q).gen \in Gens
         /\ Tail(q) \in Seq(Messages) /\ Len(Tail(q)) = Len(q) - 1 /\ Len(q) \in Nat \ {0}
         /\ \A i \in 1..Len(Tail(q)) : Tail(q)[i] = q[i + 1]
         /\ \A i \in DOMAIN Tail(q) : i + 1 \in DOMAIN q /\ Tail(q)[i] = q[i + 1]
<1>1. Head(q) = q[1] /\ Head(q) \in Messages
  OBVIOUS
<1> QED BY <1>1 DEF Messages

LEMMA AppendIs ==
  ASSUME NEW S, NEW q \in Seq(S), NEW m \in S
  PROVE  /\ Append(q, m) \in Seq(S) /\ Len(Append(q, m)) = Len(q) + 1 /\ Append(q, m) # <<>>
         /\ Append(q, m)[Len(q) + 1] = m
         /\ \A i \in 1..Len(q) : Append(q, m)[i] = q[i]
         /\ \A i \in DOMAIN Append(q, m) :
              i = Len(q) + 1 \/ (i \in DOMAIN q /\ Append(q, m)[i] = q[i])
OBVIOUS

LEMMA RestIs ==
  ASSUME NEW S, NEW q \in Seq(S), q # <<>>
  PROVE  /\ Head(q) \in S /\ Tail(q) \in Seq(S) /\ <<>> \in Seq(S)
         /\ 1 \in DOMAIN q /\ Head(q) = q[1]
         /\ \A i \in DOMAIN Tail(q) : i + 1 \in DOMAIN q /\ Tail(q)[i] = q[i + 1]
OBVIOUS

\* ws.send of the page, with the session there or gone.
LEMMA Sent ==
  ASSUME TypeOK, NEW t \in {"offer", "answer", "candidate", "close"}, NEW g \in Gens, Send(t, g)
  PROVE  /\ up' \in Seq(Messages)
         /\ sess = "over" => up' = up
         /\ sess # "over" => /\ up' = Append(up, Message(t, g))
                             /\ Len(up') = Len(up) + 1 /\ up' # <<>>
                             /\ up'[Len(up) + 1].type = t /\ up'[Len(up) + 1].gen = g
                             /\ \A i \in 1..Len(up) : up'[i] = up[i]
         /\ g <= gen /\ (\A i \in DOMAIN up : up[i].gen <= gen)
              => \A i \in DOMAIN up' : up'[i].gen <= gen
<1>1. up \in Seq(Messages)
  BY Types
<1>2. Message(t, g) \in Messages /\ Message(t, g).type = t /\ Message(t, g).gen = g
  BY MessageIs
<1> DEFINE m == Message(t, g)
<1> HIDE DEF m
<1>3. CASE sess = "over"
  BY <1>1, <1>3 DEF Send
<1>4. CASE sess # "over"
  <2>1. up' = Append(up, m)
    BY <1>4 DEF Send, m
  <2>2. m \in Messages /\ m.type = t /\ m.gen = g
    BY <1>2 DEF m
  <2> QED BY <1>1, <1>4, <2>1, <2>2, AppendIs DEF m
<1> QED BY <1>3, <1>4

--------------------------------------------------------------------------------
(* The types hold on.  `added` is bounded by what momo's peer has found, and    *)
(* `remote` by the connections made.                                            *)

LEMMA TypeNext ==
  ASSUME Inv, [Next]_vars
  PROVE  TypeOK'
<1> USE DEF Inv
<1>t. TypeOK
  OBVIOUS
<1>1. /\ up \in Seq(Messages) /\ sig \in Seq(Messages) /\ down \in Seq(Messages)
      /\ chain \in Seq(Gens) /\ buffer \in Seq(Gens)
      /\ MaxGen \in Nat /\ MaxCands \in Nat /\ gen \in Nat
      /\ \A g \in Gens : g \in Nat /\ g # 0
      /\ \A n \in Nat : n # 0 /\ n <= MaxGen => n \in Gens
      /\ gathering \in [Gens -> 0..MaxCands] /\ emitted \in [Gens -> 0..MaxCands]
      /\ pc # 0 => pc \in Gens
      /\ making # 0 => making \in Gens
  BY Types, SMTT(30) DEF TypeOK, Gens
<1>2. \A q \in Seq(Messages) : q # <<>> => Tail(q) \in Seq(Messages) /\ Head(q).gen \in Gens
  BY HeadIs
<1>3. \A t \in {"offer", "answer", "candidate", "close"}, g \in Gens :
        /\ Append(sig, Message(t, g)) \in Seq(Messages)
        /\ Send(t, g) => up' \in Seq(Messages)
  BY <1>1, MessageIs, Sent
<1>4. pc # 0 => added + Own(buffer) + UnderWay(pc) <= emitted[pc]
  BY DEF Counted
<1>5. \A g \in Gens : /\ Own(buffer) \in Nat /\ UnderWay(g) \in Nat
                      /\ Among({Message("candidate", g)}, sig) \in Nat
                      /\ Among({Message("candidate", g)}, down) \in Nat
  <2> TAKE g \in Gens
  <2> HIDE DEF Gens, Messages
  <2>1. Among({pc}, buffer) \in Nat
    BY <1>1, AmongType
  <2>2. /\ Among({Message("candidate", g)}, sig) \in Nat
        /\ Among({Message("candidate", g)}, down) \in Nat
    BY <1>1, AmongType
  <2> QED BY <2>1, <2>2 DEF Own, UnderWay
<1> HIDE DEF Inv, Gens, Messages
<1>a1. CASE Connect
  <2>1. gen' = gen + 1 /\ gen' \in 1..MaxGen /\ pc' = gen' /\ 0..gen \subseteq 0..gen'
    BY <1>1, <1>a1, <1>t DEF Connect, TypeOK
  <2>2. buffer' \in Seq(Gens) /\ stage' = "creating" /\ hasSdp' = FALSE
    BY <1>a1 DEF Connect
  <2>3. added' \in 0..MaxCands /\ hurried' \in BOOLEAN
    BY <1>1, <1>a1 DEF Connect
  <2>4. UNCHANGED <<chain, remote, gathering, session, up, sig, down, emitted, refused>>
    BY <1>a1 DEF Connect
  <2>5. gen' \in 0..MaxGen /\ pc' # 0
    BY <2>1, <1>1
  <2> QED BY <1>t, <2>1, <2>2, <2>3, <2>4, <2>5 DEF TypeOK, session
<1>a2. CASE OfferFails
  <2>1. chain' \in Seq(Gens)
    BY <1>a2 DEF OfferFails
  <2> QED BY <2>1, <1>a2, <1>t DEF OfferFails, TypeOK, session
<1>a3. CASE OfferCreated
  BY <1>1, <1>a3, <1>t DEF OfferCreated, TypeOK, session
<1>a4. CASE SendOffer
  <2>1. pc \in Gens /\ up' \in Seq(Messages)
    BY <1>1, <1>3, <1>a4, <1>t DEF SendOffer, TypeOK
  <2> QED BY <1>1, <1>a4, <1>t, <2>1 DEF SendOffer, TypeOK, session
<1>a5. CASE Disconnect
  <2>1. pc \in Gens /\ up' \in Seq(Messages)
    BY <1>1, <1>3, <1>a5, <1>t DEF Disconnect, TypeOK
  <2>2. <<>> \in Seq(Gens) /\ gathering' \in [Gens -> 0..MaxCands] /\ 0 \in 0..gen
    BY <1>1, <1>a5, <2>1 DEF Disconnect
  <2> QED BY <1>a5, <1>t, <2>1, <2>2 DEF Disconnect, TypeOK, session
<1>a6. CASE RecvAnswer
  <2>1. Head(down).gen \in Gens /\ down' \in Seq(Messages)
    BY <1>1, <1>2, <1>a6 DEF RecvAnswer
  <2>2. chain' \in Seq(Gens)
    BY <1>1, <2>1, <1>a6, AppendIs DEF RecvAnswer
  <2> QED BY <1>a6, <1>t, <2>1, <2>2 DEF RecvAnswer, TypeOK, session
<1>a7. CASE SetAnswer
  <2>1. Head(chain) \in Gens /\ Tail(chain) \in Seq(Gens) /\ <<>> \in Seq(Gens)
    BY <1>1, <1>a7, RestIs DEF SetAnswer
  <2>2. Head(chain) = chain[1] /\ 1 \in DOMAIN chain
    BY <1>1, <1>a7, RestIs DEF SetAnswer
  <2>3. Head(chain) \in 0..gen
    BY <1>1, <2>1, <2>2 DEF Numbered, Inv
  <2>4. pc \in Gens /\ emitted[pc] <= MaxCands /\ emitted[pc] \in Nat
    BY <1>1, <1>a7, <1>t DEF SetAnswer, TypeOK
  <2>5. added + Own(buffer) \in 0..MaxCands
    <3>1. added \in Nat
      BY <1>t DEF TypeOK
    <3>2. Own(buffer) \in Nat /\ UnderWay(pc) \in Nat
      BY <1>5, <2>4
    <3>3. pc # 0
      BY <1>1, <2>4
    <3>4. added + Own(buffer) + UnderWay(pc) <= emitted[pc]
      BY <1>4, <3>3
    <3> QED BY <1>1, <2>4, <3>1, <3>2, <3>4
  <2>6. chain' \in Seq(Gens) /\ buffer' \in Seq(Gens) /\ added' \in 0..MaxCands
    BY <1>1, <1>a7, <1>t, <2>1, <2>5 DEF SetAnswer, TypeOK
  <2>7. refused' \subseteq Gens /\ remote' \in 0..gen /\ hasSdp' \in BOOLEAN
    BY <1>a7, <1>t, <2>1, <2>3 DEF SetAnswer, TypeOK
  <2>8. stage' \in {"stable", "offered"} /\ stage = "offered"
    BY <1>a7 DEF SetAnswer
  <2> QED BY <1>a7, <1>t, <2>6, <2>7, <2>8 DEF SetAnswer, TypeOK, session
<1>a8. CASE RecvCandidate
  <2>1. Head(down).gen \in Gens /\ down' \in Seq(Messages)
    BY <1>1, <1>2, <1>a8 DEF RecvCandidate
  <2>2. buffer' \in Seq(Gens)
    <3>1. Append(buffer, Head(down).gen) \in Seq(Gens)
      BY <1>1, <2>1, AppendIs
    <3> QED BY <1>1, <1>a8, <3>1 DEF RecvCandidate
  <2>3. added' \in 0..MaxCands
    <3>1. CASE hasSdp /\ Head(down).gen = pc
      <4>1. pc \in Gens /\ pc # 0
        BY <1>1, <2>1, <3>1 DEF Gens
      <4>2. Head(down) = Message("candidate", pc)
        BY <1>1, <1>a8, <3>1, HeadIs DEF RecvCandidate, Message, Messages
      <4>3. Among({Message("candidate", pc)}, down)
              = Among({Message("candidate", pc)}, Tail(down)) + 1
        BY <1>1, <1>a8, <4>2, AmongTail DEF RecvCandidate
      <4>4. Among({Message("candidate", pc)}, Tail(down)) \in Nat
        BY <1>1, <1>2, <1>a8, AmongType DEF RecvCandidate
      <4>5. added + 1 <= emitted[pc] /\ emitted[pc] \in 0..MaxCands
        <5>1. added \in Nat /\ emitted[pc] \in 0..MaxCands
          BY <1>1, <1>t, <4>1 DEF TypeOK
        <5>2. Own(buffer) \in Nat /\ Among({Message("candidate", pc)}, sig) \in Nat
          BY <1>5, <4>1
        <5>3. added + Own(buffer) + (Among({Message("candidate", pc)}, sig)
                                     + Among({Message("candidate", pc)}, down)) <= emitted[pc]
          BY <1>4, <4>1 DEF UnderWay
        <5> QED BY <1>1, <4>3, <4>4, <5>1, <5>2, <5>3, SMTT(30)
      <4> QED BY <1>1, <1>a8, <1>t, <3>1, <4>5 DEF RecvCandidate, TypeOK
    <3>2. CASE ~(hasSdp /\ Head(down).gen = pc)
      BY <1>a8, <1>t, <3>2 DEF RecvCandidate, TypeOK
    <3> QED BY <3>1, <3>2
  <2> QED BY <1>a8, <1>t, <2>1, <2>2, <2>3 DEF RecvCandidate, TypeOK, session
<1>a9. CASE TakeClose \/ TakeOffer \/ TakeCandidate
  <2>0. up # <<>> /\ up' = Tail(up) /\ sess = "select" /\ UNCHANGED <<page, sig, down, emitted>>
    BY <1>a9 DEF TakeClose, TakeOffer, TakeCandidate, Read
  <2>1. up' \in Seq(Messages) /\ Head(up).gen \in Gens /\ Head(up) = up[1] /\ 1 \in DOMAIN up
    BY <1>1, <1>2, <2>0, RestIs
  <2>2. Head(up).gen \in 0..gen /\ Head(up).gen # 0
    BY <1>1, <2>1 DEF Numbered, Inv
  <2>3. /\ {peer', making'} \subseteq 0..gen /\ refused' \subseteq Gens
        /\ sess' \in {"select", "srd"} /\ (sess' = "srd" => making' # 0)
        /\ (sess' = "select" => making' = making) /\ (making' # making => peer' = 0)
        /\ peer' \in {0, peer}
    <3>t. /\ {peer, making} \subseteq 0..gen /\ refused \subseteq Gens /\ 0 \in 0..gen
          /\ making = 0
      BY <1>1, <1>t, <2>0 DEF TypeOK
    <3>1. CASE TakeClose \/ TakeCandidate
      BY <2>0, <3>1, <3>t DEF TakeClose, TakeCandidate, session
    <3>2. CASE TakeOffer
      BY <2>0, <2>1, <2>2, <3>2, <3>t DEF TakeOffer
    <3> QED BY <1>a9, <3>1, <3>2
  <2> QED BY <1>t, <2>0, <2>1, <2>3 DEF TypeOK, page
<1>a10. CASE OfferStep
  BY <1>a10, <1>t DEF OfferStep, TypeOK, page
<1>a11. CASE OfferRefused
  <2>1. making \in Gens
    BY <1>1, <1>a11, <1>t DEF OfferRefused, TypeOK
  <2> QED BY <1>a11, <1>t, <2>1 DEF OfferRefused, TypeOK, page
<1>a12. CASE SendAnswer
  <2>1. making \in Gens
    BY <1>1, <1>a12, <1>t DEF SendAnswer, TypeOK
  <2>2. sig' \in Seq(Messages)
    BY <1>3, <1>a12, <2>1 DEF SendAnswer
  <2> QED BY <1>a12, <1>t, <2>1, <2>2 DEF SendAnswer, TypeOK, page
<1>a13. CASE Forward
  <2>1. Head(sig) \in Messages /\ Tail(sig) \in Seq(Messages)
    BY <1>1, <1>a13 DEF Forward
  <2>2. sig' \in Seq(Messages) /\ down' \in Seq(Messages)
    BY <1>1, <1>a13, <2>1 DEF Forward
  <2> QED BY <1>a13, <1>t, <2>2 DEF Forward, TypeOK, page, session
<1>a14. CASE SessionOver
  <2>1. <<>> \in Seq(Messages)
    OBVIOUS
  <2>2. gen \in Nat
    BY <1>t, <1>1 DEF TypeOK
  <2> QED BY <1>a14, <1>t, <2>1, <2>2 DEF SessionOver, TypeOK, page
<1>a15. ASSUME NEW g \in Gens, PageCandidate(g)
        PROVE  TypeOK'
  <2>1. up' \in Seq(Messages)
    BY <1>3, <1>a15 DEF PageCandidate
  <2>2. gathering' \in [Gens -> 0..MaxCands]
    BY <1>1, <1>a15 DEF PageCandidate
  <2> QED BY <1>a15, <1>t, <2>1, <2>2 DEF PageCandidate, TypeOK, session
<1>a16. ASSUME NEW g \in Gens, MomoCandidate(g)
        PROVE  TypeOK'
  <2>1. sig' \in Seq(Messages)
    BY <1>3, <1>a16 DEF MomoCandidate
  <2>2. emitted' \in [Gens -> 0..MaxCands]
    BY <1>1, <1>a16 DEF MomoCandidate
  <2> QED BY <1>a16, <1>t, <2>1, <2>2 DEF MomoCandidate, TypeOK, page, session
<1>a17. CASE UNCHANGED vars
  BY <1>a17, <1>t DEF vars, page, session, TypeOK
<1> QED
  BY <1>a1, <1>a2, <1>a3, <1>a4, <1>a5, <1>a6, <1>a7, <1>a8, <1>a9, <1>a10, <1>a11,
     <1>a12, <1>a13, <1>a14, <1>a15, <1>a16, <1>a17 DEF Next, PageStep, SessionStep

LEMMA NumberedNext ==
  ASSUME Inv, [Next]_vars
  PROVE  Numbered'
<1> USE DEF Inv
<1>1. /\ up \in Seq(Messages) /\ sig \in Seq(Messages) /\ down \in Seq(Messages)
      /\ chain \in Seq(Gens)
      /\ MaxGen \in Nat /\ gen \in Nat
      /\ pc <= gen /\ making <= gen /\ peer <= gen
      /\ pc # 0 => pc \in Gens
      /\ making # 0 => making \in Gens
      /\ emitted \in [Gens -> 0..MaxCands]
  BY Types DEF TypeOK, Gens
<1>2. /\ \A i \in DOMAIN up : up[i].gen <= gen
      /\ \A i \in DOMAIN sig : sig[i].gen <= gen
      /\ \A i \in DOMAIN down : down[i].gen <= gen
      /\ \A i \in DOMAIN chain : chain[i] <= gen
      /\ \A g \in Gens : g > gen => emitted[g] = 0
  BY DEF Numbered
<1>3. \A q \in {up, sig, down} :
        q # <<>> => /\ Head(q).gen <= gen /\ Head(q).gen \in Gens
                    /\ \A i \in DOMAIN Tail(q) : Tail(q)[i].gen <= gen
  <2> SUFFICES ASSUME NEW q \in {up, sig, down}, q # <<>>
               PROVE  /\ Head(q).gen <= gen /\ Head(q).gen \in Gens
                      /\ \A i \in DOMAIN Tail(q) : Tail(q)[i].gen <= gen
    OBVIOUS
  <2>1. q \in Seq(Messages) /\ \A i \in DOMAIN q : q[i].gen <= gen
    BY <1>1, <1>2
  <2>2. 1 \in DOMAIN q
    BY <2>1
  <2> QED BY <2>1, <2>2, HeadIs
<1>4. \A t \in {"offer", "candidate", "close"}, g \in Gens :
        g <= gen /\ Send(t, g) => \A i \in DOMAIN up' : up'[i].gen <= gen
  BY <1>2, Sent
<1>5. \A t \in {"answer", "candidate"}, g \in Gens :
        g <= gen => LET q == Append(sig, Message(t, g))
                    IN \A i \in DOMAIN q : q[i].gen <= gen
  <2> TAKE t \in {"answer", "candidate"}, g \in Gens
  <2> DEFINE m == Message(t, g)
  <2>1. m \in Messages /\ m.gen = g
    BY MessageIs
  <2> HIDE DEF m
  <2>2. \A i \in DOMAIN Append(sig, m) :
          i = Len(sig) + 1 \/ (i \in DOMAIN sig /\ Append(sig, m)[i] = sig[i])
    BY <1>1, <2>1, AppendIs
  <2>3. Append(sig, m)[Len(sig) + 1] = m
    BY <1>1, <2>1, AppendIs
  <2> QED BY <1>2, <2>1, <2>2, <2>3 DEF m
<1> HIDE DEF Inv, Gens, Messages
<1>a1. CASE Connect
  <2>1. gen' = gen + 1 /\ UNCHANGED <<chain, up, sig, down, emitted>>
    BY <1>a1 DEF Connect
  <2>2. /\ \A g \in Gens : g > gen' => g > gen
        /\ \A g \in Gens : g <= gen => g <= gen'
    BY <1>1, <2>1 DEF Gens
  <2>3. /\ \A i \in DOMAIN up : up[i].gen \in Gens
        /\ \A i \in DOMAIN sig : sig[i].gen \in Gens
        /\ \A i \in DOMAIN down : down[i].gen \in Gens
        /\ \A i \in DOMAIN chain : chain[i] \in Gens
    <3>1. \A q \in Seq(Messages) : \A i \in DOMAIN q : q[i] \in Messages
      OBVIOUS
    <3>2. \A m \in Messages : m.gen \in Gens
      BY DEF Messages
    <3> QED BY <1>1, <3>1, <3>2
  <2> QED BY <1>2, <2>1, <2>2, <2>3 DEF Numbered
<1>a2. CASE OfferFails \/ OfferCreated
  <2>1. UNCHANGED <<gen, up, sig, down, emitted>> /\ chain' \in {<<>>, chain}
    BY <1>a2 DEF OfferFails, OfferCreated
  <2> QED BY <1>2, <2>1 DEF Numbered
<1>a4. CASE SendOffer \/ Disconnect \/ \E g \in Gens : PageCandidate(g)
  <2>1. /\ \A i \in DOMAIN up' : up'[i].gen <= gen
        /\ UNCHANGED <<gen, sig, down, emitted>> /\ chain' \in {<<>>, chain}
    <3>1. CASE SendOffer
      BY <1>1, <1>4, <3>1 DEF SendOffer, Inv, TypeOK
    <3>2. CASE Disconnect
      BY <1>1, <1>4, <3>2 DEF Disconnect
    <3>3. CASE \E g \in Gens : PageCandidate(g)
      <4> PICK g \in Gens : PageCandidate(g)
        BY <3>3
      <4>1. g = pc
        BY <1>1 DEF PageCandidate, Inv, Gathers, TypeOK
      <4> QED BY <1>1, <1>4, <4>1 DEF PageCandidate
    <3> QED BY <1>a4, <3>1, <3>2, <3>3
  <2> QED BY <1>2, <2>1 DEF Numbered
<1>a6. CASE RecvAnswer \/ RecvCandidate
  <2>1. down # <<>> /\ down' = Tail(down) /\ UNCHANGED <<gen, up, sig, emitted>>
    BY <1>a6 DEF RecvAnswer, RecvCandidate
  <2>2. Head(down).gen \in Gens /\ Head(down).gen <= gen
    BY <1>3, <2>1
  <2>3. chain' \in {chain, Append(chain, Head(down).gen)}
    BY <1>a6 DEF RecvAnswer, RecvCandidate
  <2>4. \A i \in DOMAIN chain' : chain'[i] <= gen
    <3> DEFINE g == Head(down).gen
    <3> HIDE DEF g
    <3>1. g \in Gens /\ g <= gen /\ chain' \in {chain, Append(chain, g)}
      BY <2>2, <2>3 DEF g
    <3>2. /\ \A i \in DOMAIN Append(chain, g) :
               i = Len(chain) + 1 \/ (i \in DOMAIN chain /\ Append(chain, g)[i] = chain[i])
          /\ Append(chain, g)[Len(chain) + 1] = g
      BY <1>1, <3>1, AppendIs
    <3> QED BY <1>2, <3>1, <3>2
  <2> QED BY <1>2, <1>3, <2>1, <2>4 DEF Numbered
<1>a7. CASE SetAnswer
  <2>1. chain # <<>> /\ chain' \in {<<>>, Tail(chain)}
    BY <1>a7 DEF SetAnswer
  <2>2. \A i \in DOMAIN Tail(chain) : Tail(chain)[i] <= gen
    BY <1>1, <1>2, <2>1, RestIs
  <2> QED BY <1>2, <1>a7, <2>1, <2>2 DEF SetAnswer, Numbered
<1>a9. CASE TakeClose \/ TakeOffer \/ TakeCandidate
  <2>1. up # <<>> /\ up' = Tail(up) /\ UNCHANGED <<page, sig, down, emitted>>
    BY <1>a9 DEF TakeClose, TakeOffer, TakeCandidate, Read
  <2> QED BY <1>2, <1>3, <2>1 DEF Numbered, page
<1>a10. CASE OfferStep \/ OfferRefused \/ UNCHANGED vars
  BY <1>2, <1>a10 DEF OfferStep, OfferRefused, Numbered, page, vars
<1>a12. CASE SendAnswer
  <2>1. making \in Gens /\ making <= gen
    BY <1>1, <1>a12 DEF SendAnswer, Inv, TypeOK
  <2> QED BY <1>2, <1>5, <1>a12, <2>1 DEF SendAnswer, Numbered, page
<1>a13. CASE Forward
  <2>1. Head(sig) \in Messages /\ Head(sig).gen <= gen
    BY <1>1, <1>3, <1>a13 DEF Forward
  <2>2. \A i \in DOMAIN down' : down'[i].gen <= gen
    <3> DEFINE m == Head(sig)
    <3> HIDE DEF m
    <3>1. down' = Append(down, m) /\ m \in Messages /\ m.gen <= gen
      BY <1>a13, <2>1 DEF Forward, m
    <3>2. /\ \A i \in DOMAIN Append(down, m) :
               i = Len(down) + 1 \/ (i \in DOMAIN down /\ Append(down, m)[i] = down[i])
          /\ Append(down, m)[Len(down) + 1] = m
      BY <1>1, <3>1, AppendIs
    <3> QED BY <1>2, <3>1, <3>2
  <2> QED BY <1>2, <1>3, <1>a13, <2>2 DEF Forward, Numbered, page
<1>a14. CASE SessionOver
  BY <1>2, <1>a14 DEF SessionOver, Numbered, page
<1>a16. ASSUME NEW g \in Gens, MomoCandidate(g)
        PROVE  Numbered'
  <2>1. g <= gen
    BY <1>1, <1>a16 DEF MomoCandidate
  <2>2. \A h \in Gens : h > gen => emitted'[h] = 0
    BY <1>1, <1>2, <1>a16, <2>1 DEF MomoCandidate, Gens
  <2>3. \A i \in DOMAIN sig' : sig'[i].gen <= gen
    BY <1>5, <1>a16, <2>1 DEF MomoCandidate
  <2> QED BY <1>2, <1>a16, <2>2, <2>3 DEF MomoCandidate, Numbered, page
<1> QED
  BY <1>a1, <1>a2, <1>a4, <1>a6, <1>a7, <1>a9, <1>a10, <1>a12, <1>a13, <1>a14, <1>a16
  DEF Next, PageStep, SessionStep

--------------------------------------------------------------------------------
(* The socket to momo.                                                          *)

LEMMA SocketNext ==
  ASSUME Inv, [Next]_vars
  PROVE  CandidatesFollow' /\ LastWord' /\ Gathers' /\ Silent'
<1> USE DEF Inv
<1>1. /\ up \in Seq(Messages) /\ Len(up) \in Nat
      /\ DOMAIN up = 1..Len(up)
      /\ \A g \in Gens : g \in Nat /\ g # 0
      /\ gathering \in [Gens -> 0..MaxCands]
      /\ pc # 0 => pc \in Gens
      /\ making # 0 <=> sess \in {"srd", "create_answer", "sld"}
      /\ making # 0 => peer = 0
      /\ stage = "none" <=> pc = 0
      /\ up = <<>> <=> Len(up) = 0
  BY Types DEF TypeOK, Gens
<1>2. /\ \A i \in 2..Len(up) :
           up[i].type = "candidate" =>
             up[i - 1].gen = up[i].gen /\ up[i - 1].type \in {"offer", "candidate"}
      /\ up # <<>> /\ up[1].type = "candidate" => Hold \in {0, up[1].gen}
      /\ up = <<>> => Hold \in IF Offered THEN {0, pc} ELSE {0}
      /\ up # <<>> => IF Offered
                      THEN up[Len(up)].gen = pc /\ up[Len(up)].type \in {"offer", "candidate"}
                      ELSE up[Len(up)].type = "close"
      /\ \A g \in Gens : gathering[g] > 0 => g = pc /\ Offered
      /\ sess = "over" => up = <<>> /\ sig = <<>> /\ Hold = 0
  BY DEF CandidatesFollow, LastWord, Gathers, Silent
<1>t. TypeOK
  OBVIOUS
<1> HIDE DEF Inv, Gens, Messages
\* Whatever is sent joins the end of the socket.
<1>3. ASSUME NEW t \in {"offer", "candidate", "close"}, NEW g \in Gens, Send(t, g),
             UNCHANGED <<sess, peer, making, sig>>, Gathers',
             t = "candidate" => /\ up # <<>> => up[Len(up)].gen = g
                                              /\ up[Len(up)].type \in {"offer", "candidate"}
                                /\ up = <<>> => Hold \in {0, g},
             Offered' <=> t # "close",
             t # "close" => pc' = g
      PROVE  CandidatesFollow' /\ LastWord' /\ Gathers' /\ Silent'
  <2>1. Hold' = Hold
    BY <1>3 DEF Hold
  <2>2. CASE sess = "over"
    <3>1. up' = <<>> /\ up = <<>> /\ Hold' = 0 /\ sig' = <<>>
      BY <1>2, <1>3, <2>1, <2>2 DEF Send
    <3>2. Len(up') = 0
      BY <3>1
    <3>3. CandidatesFollow' /\ LastWord' /\ Silent'
      BY <3>1, <3>2 DEF CandidatesFollow, LastWord, Silent
    <3> QED BY <1>3, <3>3
  <2>3. CASE sess # "over"
    <3>1. /\ Len(up') = Len(up) + 1 /\ up' # <<>>
          /\ up'[Len(up) + 1].type = t /\ up'[Len(up) + 1].gen = g
          /\ \A i \in 1..Len(up) : up'[i] = up[i]
      BY <1>3, <1>t, <2>3, Sent
    <3>2. CandidatesFollow'
      <4>1. ASSUME NEW i \in 2..Len(up'), up'[i].type = "candidate"
            PROVE  up'[i - 1].gen = up'[i].gen /\ up'[i - 1].type \in {"offer", "candidate"}
        <5>1. CASE i \in 2..Len(up)
          <6>1. i \in 1..Len(up) /\ i - 1 \in 1..Len(up)
            BY <1>1, <5>1
          <6> QED BY <1>2, <3>1, <4>1, <5>1, <6>1
        <5>2. CASE i = Len(up) + 1
          <6>1. i - 1 = Len(up) /\ Len(up) \in 1..Len(up) /\ up # <<>>
            BY <1>1, <5>2
          <6>2. t = "candidate"
            BY <3>1, <4>1, <5>2
          <6> QED BY <1>3, <3>1, <5>2, <6>1, <6>2
        <5> QED BY <1>1, <3>1, <5>1, <5>2
      <4>2. ASSUME up'[1].type = "candidate"
            PROVE  Hold' \in {0, up'[1].gen}
        <5>1. CASE up = <<>>
          BY <1>1, <1>3, <2>1, <3>1, <4>2, <5>1
        <5>2. CASE up # <<>>
          <6>1. 1 \in 1..Len(up)
            BY <1>1, <5>2
          <6> QED BY <1>2, <2>1, <3>1, <4>2, <5>2, <6>1
        <5> QED BY <5>1, <5>2
      <4> QED BY <4>1, <4>2 DEF CandidatesFollow
    <3>3. LastWord'
      BY <1>3, <3>1 DEF LastWord
    <3>4. Silent'
      BY <1>3, <2>3 DEF Silent
    <3> QED BY <1>3, <3>2, <3>3, <3>4
  <2> QED BY <2>2, <2>3
\* What leaves the socket, the peer and the state of the offer alone.
<1>4. ASSUME UNCHANGED <<up, gathering>>, Hold' = Hold, sess' = "over" => sess = "over",
             sess = "over" => sig' = sig, Offered' <=> Offered, Offered => pc' = pc
      PROVE  CandidatesFollow' /\ LastWord' /\ Gathers' /\ Silent'
  <2>1. CandidatesFollow' /\ Silent'
    BY <1>2, <1>4 DEF CandidatesFollow, Silent
  <2>2. LastWord' /\ Gathers'
    BY <1>2, <1>4 DEF LastWord, Gathers
  <2> QED BY <2>1, <2>2
<1>a1. CASE Connect \/ OfferFails \/ OfferCreated \/ RecvAnswer \/ SetAnswer \/ RecvCandidate
  <2>1. UNCHANGED <<up, gathering, sess, peer, making>> /\ sig' = sig
    BY <1>a1 DEF Connect, OfferFails, OfferCreated, RecvAnswer, SetAnswer, RecvCandidate, session
  <2>2. Hold' = Hold
    BY <2>1 DEF Hold
  <2>3. (Offered' <=> Offered) /\ (Offered => pc' = pc)
    BY <1>1, <1>a1
    DEF Connect, OfferFails, OfferCreated, RecvAnswer, SetAnswer, RecvCandidate, Offered
  <2> QED BY <1>4, <2>1, <2>2, <2>3
<1>a2. CASE SendOffer
  <2>1. pc \in Gens /\ ~Offered /\ Offered' /\ pc' = pc /\ Send("offer", pc)
        /\ UNCHANGED <<sess, peer, making, sig>>
    BY <1>1, <1>a2 DEF SendOffer, Offered, session
  <2>2. Gathers'
    BY <1>1, <1>2, <1>a2, <2>1 DEF SendOffer, Gathers
  <2> QED BY <1>3, <2>1, <2>2
<1>a3. CASE Disconnect
  <2>1. pc \in Gens /\ ~Offered' /\ Send("close", pc) /\ UNCHANGED <<sess, peer, making, sig>>
    BY <1>1, <1>a3 DEF Disconnect, Offered, session
  <2>2. Gathers'
    BY <1>1, <1>2, <1>a3, <2>1 DEF Disconnect, Gathers
  <2> QED BY <1>3, <2>1, <2>2
<1>a4. ASSUME NEW g \in Gens, PageCandidate(g)
       PROVE  CandidatesFollow' /\ LastWord' /\ Gathers' /\ Silent'
  <2>1. g = pc /\ Offered
    BY <1>2, <1>a4 DEF PageCandidate
  <2>2. pc' = pc /\ Offered' /\ Send("candidate", g) /\ UNCHANGED <<sess, peer, making, sig>>
    BY <1>a4, <2>1 DEF PageCandidate, Offered, session
  <2>3. Gathers'
    BY <1>1, <1>2, <1>a4, <2>1, <2>2 DEF PageCandidate, Gathers
  <2>4. /\ up # <<>> => up[Len(up)].gen = g /\ up[Len(up)].type \in {"offer", "candidate"}
        /\ up = <<>> => Hold \in {0, g}
    BY <1>2, <2>1
  <2> QED BY <1>3, <2>1, <2>2, <2>3, <2>4
<1>a5. CASE TakeClose \/ TakeOffer \/ TakeCandidate
  <2>1. /\ sess = "select" /\ sess' # "over" /\ up # <<>> /\ up' = Tail(up)
        /\ UNCHANGED <<pc, stage, gathering, sig>>
        /\ making = 0 /\ Hold = peer
    BY <1>1, <1>a5 DEF TakeClose, TakeOffer, TakeCandidate, Read, page, session, Hold
  <2>2. /\ Head(up) = up[1] /\ Len(up') = Len(up) - 1 /\ Len(up) \in Nat \ {0}
        /\ \A i \in 1..Len(up') : up'[i] = up[i + 1]
        /\ Head(up).gen \in Gens
        /\ up' = <<>> <=> Len(up') = 0
    BY <1>1, <2>1, HeadIs
  <2>3. \/ up[1].type = "close" /\ Hold' = 0
        \/ up[1].type = "offer" /\ Hold' \in {0, up[1].gen}
        \/ up[1].type = "candidate" /\ Hold' = Hold /\ Hold \in {0, up[1].gen}
    <3>1. CASE TakeClose
      BY <2>1, <2>2, <3>1 DEF TakeClose, Read, Hold
    <3>2. CASE TakeOffer
      BY <1>1, <2>1, <2>2, <3>2 DEF TakeOffer, Read, Hold
    <3>3. CASE TakeCandidate
      BY <1>2, <2>1, <2>2, <3>3 DEF TakeCandidate, Read, Hold, session
    <3> QED BY <1>a5, <3>1, <3>2, <3>3
  <2>4. CandidatesFollow'
    <3>1. ASSUME NEW i \in 2..Len(up'), up'[i].type = "candidate"
          PROVE  up'[i - 1].gen = up'[i].gen /\ up'[i - 1].type \in {"offer", "candidate"}
      <4>1. /\ i \in 1..Len(up') /\ i - 1 \in 1..Len(up') /\ i + 1 \in 2..Len(up)
            /\ (i + 1) - 1 = i /\ (i - 1) + 1 = i
        BY <2>2
      <4> QED BY <1>2, <2>2, <3>1, <4>1, SMTT(30)
    <3>2. ASSUME up' # <<>>, up'[1].type = "candidate"
          PROVE  Hold' \in {0, up'[1].gen}
      <4>1. 1 \in 1..Len(up') /\ 2 \in 2..Len(up) /\ 2 - 1 = 1 /\ up'[1] = up[2]
        BY <2>2, <3>2
      <4>2. up[1].gen = up[2].gen /\ up[1].type \in {"offer", "candidate"}
        BY <1>2, <3>2, <4>1
      <4> QED BY <2>3, <4>1, <4>2
    <3> QED BY <3>1, <3>2 DEF CandidatesFollow
  <2>5. LastWord'
    <3>1. Offered' <=> Offered
      BY <2>1 DEF Offered
    <3>2. CASE up' = <<>>
      <4>1. Len(up) = 1
        BY <2>2, <3>2
      <4>2. IF Offered THEN up[1].gen = pc /\ up[1].type \in {"offer", "candidate"}
                       ELSE up[1].type = "close"
        BY <1>2, <2>1, <4>1
      <4> QED BY <2>1, <2>3, <3>1, <3>2, <4>2 DEF LastWord
    <3>3. CASE up' # <<>>
      <4>1. Len(up') \in 1..Len(up') /\ Len(up') + 1 = Len(up)
        BY <2>2, <3>3
      <4>2. up'[Len(up')] = up[Len(up)]
        BY <2>2, <4>1
      <4> QED BY <1>2, <2>1, <3>1, <3>3, <4>2 DEF LastWord
    <3> QED BY <3>2, <3>3
  <2>6. Gathers' /\ Silent'
    BY <1>2, <2>1 DEF Gathers, Silent, Offered
  <2> QED BY <2>4, <2>5, <2>6
<1>a6. CASE OfferStep \/ SendAnswer \/ Forward \/ \E g \in Gens : MomoCandidate(g)
  <2>1. UNCHANGED <<up, gathering, pc, stage>> /\ sess # "over" /\ sess' # "over"
    <3>1. CASE OfferStep \/ SendAnswer \/ Forward
      BY <3>1 DEF OfferStep, SendAnswer, Forward, page, session
    <3>2. CASE \E g \in Gens : MomoCandidate(g)
      <4> PICK g \in Gens : MomoCandidate(g)
        BY <3>2
      <4>1. g # 0 /\ (g = peer \/ (g = making /\ sess = "sld"))
        BY <1>1 DEF MomoCandidate
      <4>2. sess # "over"
        BY <1>1, <1>2, <4>1 DEF Hold
      <4> QED BY <4>2 DEF MomoCandidate, page, session
    <3> QED BY <1>a6, <3>1, <3>2
  <2>2. Hold' = Hold
    <3>1. CASE OfferStep \/ Forward \/ \E g \in Gens : MomoCandidate(g)
      BY <3>1 DEF OfferStep, Forward, MomoCandidate, session, Hold
    <3>2. CASE SendAnswer
      BY <1>1, <3>2 DEF SendAnswer, Hold
    <3> QED BY <1>a6, <3>1, <3>2
  <2>3. Offered' <=> Offered
    BY <2>1 DEF Offered
  <2> QED BY <1>4, <2>1, <2>2, <2>3
<1>a7. CASE OfferRefused
  <2>1. UNCHANGED <<up, gathering, pc, stage>> /\ Hold' = 0 /\ sess' = "select"
    BY <1>1, <1>a7 DEF OfferRefused, page, Hold
  <2>2. CandidatesFollow' /\ Silent'
    BY <1>2, <2>1 DEF CandidatesFollow, Silent
  <2>3. LastWord' /\ Gathers'
    BY <1>2, <2>1 DEF LastWord, Gathers, Offered
  <2> QED BY <2>2, <2>3
<1>a8. CASE SessionOver
  <2>1. up' = <<>> /\ sig' = <<>> /\ UNCHANGED <<gathering, pc, stage>> /\ Hold' = 0
    BY <1>1, <1>a8 DEF SessionOver, page, Hold
  <2>2. Len(up') = 0
    BY <2>1
  <2>3. CandidatesFollow' /\ LastWord' /\ Silent'
    BY <2>1, <2>2 DEF CandidatesFollow, LastWord, Silent
  <2>4. Gathers'
    BY <1>2, <2>1 DEF Gathers, Offered
  <2> QED BY <2>3, <2>4
<1>a9. CASE UNCHANGED vars
  <2>1. UNCHANGED <<up, gathering, pc, stage, sess, peer, making, sig>>
    BY <1>a9 DEF vars, page, session
  <2>2. Hold' = Hold /\ (Offered' <=> Offered)
    BY <2>1 DEF Hold, Offered
  <2> QED BY <1>4, <2>1, <2>2
<1> QED
  BY <1>a1, <1>a2, <1>a3, <1>a4, <1>a5, <1>a6, <1>a7, <1>a8, <1>a9
  DEF Next, PageStep, SessionStep

--------------------------------------------------------------------------------
(* The candidates of momo's peer.                                               *)

LEMMA CountNext ==
  ASSUME Inv, [Next]_vars
  PROVE  Buffered' /\ Counted'
<1> USE DEF Inv
<1>1. /\ sig \in Seq(Messages) /\ down \in Seq(Messages) /\ buffer \in Seq(Gens)
      /\ \A g \in Gens : g \in Nat /\ g # 0
      /\ emitted \in [Gens -> 0..MaxCands] /\ MaxCands \in Nat /\ added \in Nat
      /\ pc # 0 => pc \in Gens
      /\ making # 0 => making \in Gens
      /\ stage = "none" <=> pc = 0
  BY Types DEF TypeOK, Gens
<1>2. /\ hasSdp <=> stage = "stable"
      /\ hasSdp => buffer = <<>>
      /\ pc # 0 => /\ added + Own(buffer) + UnderWay(pc) <= emitted[pc]
                   /\ sess # "over" => emitted[pc] = added + Own(buffer) + UnderWay(pc)
  BY DEF Buffered, Counted
<1>t. TypeOK
  OBVIOUS
<1>3. \A g \in Gens, q \in Seq(Messages) : Among({Message("candidate", g)}, q) \in Nat
  BY AmongType
<1>4. \A g \in Gens, q \in Seq(Gens) : Among({g}, q) \in Nat
  BY AmongType
<1>5. Own(<<>>) = 0
  <2>1. <<>> \in Seq(Gens) /\ DOMAIN <<>> = {}
    OBVIOUS
  <2> QED BY <2>1, AmongNone DEF Own
<1>6. \A m \in Messages, g \in Gens : m = Message("candidate", g) <=> m.type = "candidate" /\ m.gen = g
  BY DEF Message, Messages
<1> HIDE DEF Inv, Gens, Messages
\* What leaves the candidates alone.
<1>7. ASSUME UNCHANGED <<pc, added, buffer, sig, down, emitted>>, sess' # "over" => sess # "over"
      PROVE  Counted'
  <2>1. Own(buffer)' = Own(buffer)
    BY <1>7 DEF Own, Among
  <2>2. UnderWay(pc)' = UnderWay(pc)
    BY <1>7 DEF UnderWay, Among, Message
  <2> QED BY <1>2, <1>7, <2>1, <2>2 DEF Counted
\* Tells the candidates of g from the rest of a queue.
<1> DEFINE Is(m, g) == IF m.type = "candidate" /\ m.gen = g THEN 1 ELSE 0
           In(g, q) == Among({Message("candidate", g)}, q)
           Of(g, q) == Among({g}, q)
<1>8. \A g \in Gens, q \in Seq(Messages), m \in Messages :
        In(g, Append(q, m)) = In(g, q) + Is(m, g)
  <2> TAKE g \in Gens, q \in Seq(Messages), m \in Messages
  <2>1. In(g, Append(q, m)) = In(g, q) + IF m \in {Message("candidate", g)} THEN 1 ELSE 0
    BY AmongAppend
  <2> QED BY <1>6, <2>1
<1>9. \A g \in Gens, q \in Seq(Messages) :
        q # <<>> => In(g, q) = In(g, Tail(q)) + Is(Head(q), g)
  <2> TAKE g \in Gens, q \in Seq(Messages)
  <2>1. q # <<>> => In(g, q) = In(g, Tail(q)) + IF Head(q) \in {Message("candidate", g)} THEN 1 ELSE 0
    BY AmongTail
  <2>2. q # <<>> => Head(q) \in Messages
    BY RestIs
  <2> QED BY <1>6, <2>1, <2>2
<1>10. /\ \A g : UnderWay(g) = In(g, sig) + In(g, down)
       /\ \A g : UnderWay(g)' = In(g, sig') + In(g, down')
       /\ Own(buffer) = Of(pc, buffer)
       /\ Own(buffer)' = Of(pc', buffer')
  BY DEF UnderWay, Own, Among, Message
<1>11. \A g \in Gens : /\ In(g, sig) \in Nat /\ In(g, down) \in Nat
                       /\ emitted[g] \in Nat /\ Of(g, buffer) \in Nat
  <2> TAKE g \in Gens
  <2>1. In(g, sig) \in Nat /\ In(g, down) \in Nat
    BY <1>1, <1>3
  <2>2. emitted[g] \in Nat
    BY <1>1
  <2>3. Of(g, buffer) \in Nat
    BY <1>1, <1>4
  <2> HIDE DEF In, Of
  <2> QED BY <2>1, <2>2, <2>3
<1>12. pc # 0 => /\ added + Of(pc, buffer) + (In(pc, sig) + In(pc, down)) <= emitted[pc]
                 /\ sess # "over" =>
                      emitted[pc] = added + Of(pc, buffer) + (In(pc, sig) + In(pc, down))
  BY <1>2, <1>10
\* What has to be shown, in the same form.
<1>13. ASSUME pc' # 0 =>
                 /\ added' + Of(pc', buffer') + (In(pc', sig') + In(pc', down')) <= emitted'[pc']
                 /\ sess' # "over" =>
                      emitted'[pc'] =
                        added' + Of(pc', buffer') + (In(pc', sig') + In(pc', down'))
       PROVE  Counted'
  <2>1. Counted' <=> (pc' # 0 =>
                 /\ added' + Own(buffer)' + UnderWay(pc)' <= emitted'[pc']
                 /\ sess' # "over" => emitted'[pc'] = added' + Own(buffer)' + UnderWay(pc)')
    BY DEF Counted
  <2>2. UnderWay(pc)' = In(pc', sig') + In(pc', down')
    BY DEF UnderWay, Among, Message
  <2> QED BY <1>10, <1>13, <2>1, <2>2
<1>14. \A g \in Gens : Is(Head(down), g) \in Nat /\ Is(Head(sig), g) \in Nat
  OBVIOUS
<1>15. /\ added \in Nat
       /\ pc # 0 => /\ In(pc, sig) \in Nat /\ In(pc, down) \in Nat
                    /\ emitted[pc] \in Nat /\ Of(pc, buffer) \in Nat
  BY <1>1, <1>11
<1> HIDE DEF In, Of
<1>a1. CASE Connect
  <2>1. /\ pc' = gen + 1 /\ pc' # 0 /\ added' = 0 /\ buffer' = <<>> /\ hasSdp' = FALSE
        /\ stage' = "creating" /\ UNCHANGED <<sig, down, emitted, sess>>
        /\ pc' \in Gens /\ pc' > gen
    BY <1>t, P2PAssumption, <1>a1 DEF Connect, TypeOK, session, Gens
  <2>2. emitted[pc'] = 0
    BY <2>1, <1>t DEF Inv, Numbered
  <2>3. In(pc', sig) = 0 /\ In(pc', down) = 0
    <3>1. \A q \in {sig, down} : \A i \in DOMAIN q : q[i].gen <= gen /\ q[i] \in Messages
      BY <1>1 DEF Inv, Numbered
    <3>2. Message("candidate", pc').gen = pc'
      BY DEF Message
    <3>3. \A q \in {sig, down} : \A i \in DOMAIN q : q[i] \notin {Message("candidate", pc')}
      <4>1. ~(pc' <= gen)
        BY <2>1, <1>t, P2PAssumption DEF TypeOK
      <4> QED BY <3>1, <3>2, <4>1
    <3> QED BY <1>1, <3>3, AmongNone DEF In
  <2>4. Of(pc', buffer') = 0
    <3>1. <<>> \in Seq(Gens) /\ DOMAIN <<>> = {}
      OBVIOUS
    <3> QED BY <2>1, <3>1, AmongNone DEF Of
  <2>5. Buffered'
    BY <2>1 DEF Buffered
  <2> QED BY <1>13, <2>1, <2>2, <2>3, <2>4, <2>5
<1>a2. CASE Disconnect
  BY <1>13, <1>a2 DEF Disconnect, Buffered
<1>a3. CASE SetAnswer
  <2>1. pc' = pc /\ UNCHANGED <<sig, down, emitted, sess>> /\ stage = "offered"
    BY <1>a3 DEF SetAnswer, session
  <2>2. CASE UNCHANGED <<stage, hasSdp, buffer, added>>
    <3>1. Buffered'
      BY <1>2, <2>2 DEF Buffered
    <3> QED BY <1>7, <2>1, <2>2, <3>1
  <2>3. CASE stage' = "stable" /\ hasSdp' = TRUE /\ buffer' = <<>> /\ added' = added + Own(buffer)
    <3>1. Buffered'
      BY <2>3 DEF Buffered
    <3>2. Of(pc', buffer') = 0 /\ Own(buffer) = Of(pc, buffer)
      <4>1. <<>> \in Seq(Gens) /\ DOMAIN <<>> = {}
        OBVIOUS
      <4>2. Of(pc', <<>>) = 0
        BY <4>1, AmongNone DEF Of
      <4> QED BY <1>10, <2>3, <4>2
    <3>3. pc \in Gens /\ pc # 0
      BY <1>1, <2>1
    <3> QED BY <1>1, <1>11, <1>12, <1>13, <2>1, <2>3, <3>1, <3>2, <3>3
  <2> QED BY <1>a3, <2>2, <2>3 DEF SetAnswer
<1>a4. CASE RecvCandidate
  <2>1. /\ down # <<>> /\ Head(down).type = "candidate" /\ down' = Tail(down)
        /\ UNCHANGED <<pc, stage, hasSdp, sig, emitted, sess>>
    BY <1>a4 DEF RecvCandidate, session
  <2>2. Head(down).gen \in Gens /\ Tail(down) \in Seq(Messages)
    BY <1>1, <2>1, HeadIs
  <2>3. Buffered'
    BY <1>2, <1>a4, <2>1 DEF RecvCandidate, Buffered
  <2>4. SUFFICES ASSUME pc # 0 PROVE Counted'
    BY <1>13, <2>1, <2>3
  <2>5. /\ In(pc, down) = In(pc, Tail(down)) + Is(Head(down), pc) /\ In(pc, Tail(down)) \in Nat
        /\ pc \in Gens
    BY <1>1, <1>3, <1>9, <2>1, <2>2, <2>4 DEF In
  <2>6. added' + Of(pc, buffer') = added + Of(pc, buffer) + Is(Head(down), pc)
    <3>1. CASE hasSdp
      <4>1. added' = (IF Head(down).gen = pc THEN added + 1 ELSE added) /\ buffer' = buffer
        BY <1>a4, <3>1 DEF RecvCandidate
      <4>2. added' = added + Is(Head(down), pc)
        BY <1>1, <2>1, <4>1
      <4>3. Is(Head(down), pc) \in Nat
        BY <1>14, <2>5
      <4> HIDE DEF Is
      <4> QED BY <1>15, <2>4, <4>1, <4>2, <4>3
    <3>2. CASE ~hasSdp
      <4>1. added' = added /\ buffer' = Append(buffer, Head(down).gen)
        BY <1>a4, <3>2 DEF RecvCandidate
      <4>2. Of(pc, buffer') = Of(pc, buffer) + IF Head(down).gen \in {pc} THEN 1 ELSE 0
        BY <1>1, <2>2, <4>1, AmongAppend DEF Of
      <4>3. Of(pc, buffer') = Of(pc, buffer) + Is(Head(down), pc)
        BY <2>1, <4>2
      <4>4. Is(Head(down), pc) \in Nat
        BY <1>14, <2>5
      <4> HIDE DEF Is
      <4> QED BY <1>15, <2>4, <4>1, <4>3, <4>4
    <3> QED BY <3>1, <3>2
  <2>7. added' \in Nat /\ Of(pc, buffer') \in Nat
    <3>1. TypeOK'
      BY TypeNext
    <3>2. added' \in Nat /\ buffer' \in Seq(Gens)
      BY <3>1, P2PAssumption DEF TypeOK
    <3> QED BY <3>2, AmongType DEF Of
  <2>8. Is(Head(down), pc) \in Nat
    BY <1>14, <2>5
  <2> HIDE DEF Is
  <2>9. /\ added' + Of(pc, buffer') + (In(pc, sig) + In(pc, Tail(down)))
             = added + Of(pc, buffer) + (In(pc, sig) + In(pc, down))
    BY <1>15, <2>4, <2>5, <2>6, <2>7, <2>8
  <2> QED BY <1>12, <1>13, <2>1, <2>4, <2>9
<1>a5. CASE RecvAnswer
  <2>1. /\ down # <<>> /\ Head(down).type = "answer" /\ down' = Tail(down)
        /\ UNCHANGED <<pc, stage, hasSdp, sig, emitted, sess, added, buffer>>
    BY <1>a5 DEF RecvAnswer, session
  <2>2. Buffered'
    BY <1>2, <2>1 DEF Buffered
  <2>3. pc # 0 => In(pc, down') = In(pc, down)
    <3>1. Tail(down) \in Seq(Messages)
      BY <1>1, <2>1, RestIs
    <3>2. pc # 0 => In(pc, Tail(down)) \in Nat
      BY <1>1, <1>3, <3>1 DEF In
    <3>3. pc # 0 => In(pc, down) = In(pc, Tail(down)) + 0
      BY <1>1, <1>9, <2>1
    <3> QED BY <2>1, <3>2, <3>3
  <2> QED BY <1>12, <1>13, <2>1, <2>2, <2>3
<1>a6. CASE Forward
  <2>1. /\ sig # <<>> /\ down' = Append(down, Head(sig)) /\ sig' = Tail(sig) /\ sess # "over"
        /\ UNCHANGED <<pc, stage, hasSdp, emitted, sess, added, buffer>>
    BY <1>a6 DEF Forward, page, session
  <2>2. Head(sig) \in Messages /\ Tail(sig) \in Seq(Messages)
    BY <1>1, <2>1, RestIs
  <2>3. pc # 0 => /\ In(pc, down') = In(pc, down) + Is(Head(sig), pc)
                  /\ In(pc, sig) = In(pc, sig') + Is(Head(sig), pc)
                  /\ In(pc, sig') \in Nat
    <3>1. pc # 0 => In(pc, Tail(sig)) \in Nat
      BY <1>1, <1>3, <2>2 DEF In
    <3> QED BY <1>1, <1>8, <1>9, <2>1, <2>2, <3>1
  <2>4. Buffered'
    BY <1>2, <2>1 DEF Buffered
  <2>5. pc # 0 => Is(Head(sig), pc) \in Nat
    BY <1>1, <1>14
  <2> HIDE DEF Is
  <2>6. pc # 0 => In(pc, sig') + In(pc, down') = In(pc, sig) + In(pc, down)
    BY <1>15, <2>3, <2>5
  <2> QED BY <1>12, <1>13, <2>1, <2>4, <2>6
<1>a7. CASE SendAnswer
  <2>1. /\ sig' = Append(sig, Message("answer", making)) /\ sess # "over" /\ making # 0
        /\ UNCHANGED <<pc, stage, hasSdp, emitted, added, buffer, down>>
    BY <1>t, <1>a7 DEF SendAnswer, page, TypeOK
  <2>2. Message("answer", making) \in Messages /\ Message("answer", making).type = "answer"
    BY <1>1, <2>1, MessageIs
  <2>3. pc # 0 => In(pc, sig') = In(pc, sig)
    <3>1. pc # 0 => In(pc, sig') = In(pc, sig) + 0
      BY <1>1, <1>8, <2>1, <2>2
    <3> QED BY <1>15, <3>1
  <2>4. Buffered'
    BY <1>2, <2>1 DEF Buffered
  <2> QED BY <1>12, <1>13, <2>1, <2>3, <2>4
<1>a8. CASE SessionOver
  <2>1. /\ sess # "over" /\ sess' = "over" /\ sig' = <<>>
        /\ UNCHANGED <<pc, stage, hasSdp, emitted, added, buffer, down>>
    BY <1>a8 DEF SessionOver, page
  <2>2. Buffered'
    BY <1>2, <2>1 DEF Buffered
  <2>3. In(pc, <<>>) = 0
    <3>1. <<>> \in Seq(Messages) /\ DOMAIN <<>> = {}
      OBVIOUS
    <3> QED BY <3>1, AmongNone DEF In
  <2>4. pc # 0 => added + Of(pc, buffer) + (0 + In(pc, down)) <= emitted[pc]
    BY <1>12, <1>15
  <2> QED BY <1>13, <2>1, <2>2, <2>3, <2>4
<1>a9. ASSUME NEW g \in Gens, MomoCandidate(g)
       PROVE  Buffered' /\ Counted'
  <2>1. /\ sig' = Append(sig, Message("candidate", g)) /\ emitted' = [emitted EXCEPT ![g] = @ + 1]
        /\ UNCHANGED <<pc, stage, hasSdp, added, buffer, down, sess>>
    BY <1>a9 DEF MomoCandidate, page, session
  <2>2. /\ Message("candidate", g) \in Messages /\ Message("candidate", g).type = "candidate"
        /\ Message("candidate", g).gen = g
    BY MessageIs
  <2>3. pc # 0 => In(pc, sig') = In(pc, sig) + IF pc = g THEN 1 ELSE 0
    BY <1>1, <1>8, <2>1, <2>2
  <2>4. pc # 0 => emitted'[pc] = emitted[pc] + IF pc = g THEN 1 ELSE 0
    BY <1>1, <1>11, <2>1
  <2>5. Buffered'
    BY <1>2, <2>1 DEF Buffered
  <2> QED BY <1>12, <1>13, <1>15, <2>1, <2>3, <2>4, <2>5
<1>a10. CASE \/ OfferFails \/ OfferCreated \/ SendOffer \/ (\E g \in Gens : PageCandidate(g))
             \/ TakeClose \/ TakeOffer \/ TakeCandidate \/ OfferStep \/ OfferRefused
             \/ UNCHANGED vars
  <2>1. UNCHANGED <<pc, added, buffer, hasSdp, sig, down, emitted>>
    BY <1>a10 DEF OfferFails, OfferCreated, SendOffer, PageCandidate, Read, TakeClose, TakeOffer,
                  TakeCandidate, OfferStep, OfferRefused, page, vars
  <2>2. sess' # "over" => sess # "over"
    BY <1>a10 DEF OfferFails, OfferCreated, SendOffer, PageCandidate, Read, TakeClose, TakeOffer,
                  TakeCandidate, OfferStep, OfferRefused, session, vars
  <2>3. stage' = "stable" <=> stage = "stable"
    BY <1>a10 DEF OfferFails, OfferCreated, SendOffer, PageCandidate, Read, TakeClose, TakeOffer,
                  TakeCandidate, OfferStep, OfferRefused, page, vars
  <2>4. Buffered'
    BY <1>2, <2>1, <2>3 DEF Buffered
  <2> QED BY <1>7, <2>1, <2>2, <2>4
<1> QED
  BY <1>a1, <1>a2, <1>a3, <1>a4, <1>a5, <1>a6, <1>a7, <1>a8, <1>a9, <1>a10
  DEF Next, PageStep, SessionStep

--------------------------------------------------------------------------------
(* The theorems of the session.                                                 *)

THEOREM Inductive == Spec => []Inv
<1>1. Inv /\ [Next]_vars => Inv'
  BY TypeNext, NumberedNext, SocketNext, CountNext DEF Inv
<1> QED BY InvInit, <1>1, PTL DEF Spec

\* The variables of the page, the session and the queues keep their types; no peer is
\* kept while another is made.
THEOREM TypeCorrect == Spec => []TypeOK
<1>1. Inv => TypeOK
  BY DEF Inv
<1> QED BY <1>1, Inductive, PTL

\* handle_signaling gives a candidate of the page only to the peer that was made for
\* the offer of the same connection.
THEOREM CandidatesReachTheirPeer == Spec => []CandidateToItsPeer
<1>1. Inv => CandidateToItsPeer
  <2> SUFFICES ASSUME Inv, sess = "select", up # <<>>, Head(up).type = "candidate", peer # 0
               PROVE  Head(up).gen = peer
    BY DEF CandidateToItsPeer
  <2>1. Head(up) = up[1]
    BY Types DEF Inv
  <2>2. Hold = peer
    BY DEF Inv, TypeOK, Hold
  <2> QED BY <2>1, <2>2 DEF Inv, CandidatesFollow
<1> QED BY <1>1, Inductive, PTL

\* Once the session has read all that the page has sent, its peer is the one of the
\* page's present connection, or there is none.
THEOREM PeerFollowsPage == Spec => []PeerIsCurrent
<1>1. Inv => PeerIsCurrent
  BY DEF Inv, TypeOK, LastWord, Hold, PeerIsCurrent
<1> QED BY <1>1, Inductive, PTL

\* What momo's peer has found is added to the page's connection or on its way there,
\* whichever of candidate and answer came first.
THEOREM NoCandidateLost == Spec => []CandidatesKept
<1>1. Inv => CandidatesKept
  <2> SUFFICES ASSUME Inv, stage = "stable", sess # "over"
               PROVE  emitted[pc] = added + UnderWay(pc)
    BY DEF CandidatesKept
  <2>1. pc # 0 /\ pc \in Gens /\ added \in Nat
    BY Types DEF Inv, TypeOK
  <2>2. Own(buffer) = 0
    <3>1. buffer = <<>> /\ <<>> \in Seq(Gens) /\ DOMAIN <<>> = {}
      BY DEF Inv, Buffered
    <3> QED BY <3>1, AmongNone DEF Own
  <2>3. emitted[pc] = added + 0 + UnderWay(pc)
    BY <2>1, <2>2 DEF Inv, Counted
  <2>4. added + 0 = added
    BY <2>1
  <2> QED BY <2>3, <2>4
<1> QED BY <1>1, Inductive, PTL

--------------------------------------------------------------------------------
(* The bridges: the types of SerialBridge.                                       *)

\* A channel that has not arrived has no task, and the browser sends MaxMsgs at most.
Fresh ==
  \A c \in Channels :
    /\ dc[c] = "new" => bridge[c] = "none"
    /\ queue[c] + unsent[c] <= MaxMsgs

SerialInv == SerialTypeOK /\ Fresh

LEMMA SerialInvNext == SerialInv /\ [SerialNext]_serialVars => SerialInv'
<1> SUFFICES ASSUME SerialInv, [SerialNext]_serialVars PROVE SerialInv'
  OBVIOUS
<1> USE SerialAssumption DEF SerialInv, SerialTypeOK, Fresh
<1>1. CASE DeviceSpeaks \/ DeviceTakes
  BY <1>1 DEF DeviceSpeaks, DeviceTakes
<1>2. ASSUME NEW c \in Channels, Start(c)
      PROVE  SerialInv'
  BY <1>2 DEF Start
<1>3. ASSUME NEW c \in Channels, OnMessage(c)
      PROVE  SerialInv'
  <2>1. CASE bridge[c] \in {"select", "writing"}
    BY <1>3, <2>1 DEF OnMessage
  <2>2. CASE bridge[c] \notin {"select", "writing"}
    BY <1>3, <2>2 DEF OnMessage
  <2> QED BY <2>1, <2>2
<1>4. ASSUME NEW c \in Channels, Closed(c)
      PROVE  SerialInv'
  BY <1>4 DEF Closed
<1>5. ASSUME NEW c \in Channels, ReadChunk(c)
      PROVE  SerialInv'
  BY <1>5 DEF ReadChunk, Break
<1>6. ASSUME NEW c \in Channels, IoFails(c)
      PROVE  SerialInv'
  BY <1>6 DEF IoFails, Break
<1>7. ASSUME NEW c \in Channels, TakeMessage(c)
      PROVE  SerialInv'
  BY <1>7 DEF TakeMessage
<1>8. ASSUME NEW c \in Channels, WritePart(c)
      PROVE  SerialInv'
  BY <1>8 DEF WritePart
<1>9. CASE UNCHANGED serialVars
  BY <1>9 DEF serialVars
<1> QED BY <1>1, <1>2, <1>3, <1>4, <1>5, <1>6, <1>7, <1>8, <1>9 DEF SerialNext, BridgeStep

LEMMA SerialInductive == SerialSpec => []SerialInv
<1>1. SerialInit => SerialInv
  BY SerialAssumption DEF SerialInit, SerialInv, SerialTypeOK, Fresh
<1> QED BY <1>1, SerialInvNext, PTL DEF SerialSpec

\* The types hold in every behaviour; in particular a task is in write_all_async
\* exactly while it has something left to write.
THEOREM SerialTypeCorrect == SerialSpec => []SerialTypeOK
BY SerialInductive, PTL DEF SerialInv
================================================================================
