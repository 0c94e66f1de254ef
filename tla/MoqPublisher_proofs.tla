--------------------------- MODULE MoqPublisher_proofs -------------------------
(***************************************************************************)
(* Proofs about MoqPublisher, for any relay, any capacities and any length *)
(* of a packet.                                                            *)
(***************************************************************************)
EXTENDS MoqPublisher, FiniteSetTheorems, SequenceTheorems, TLAPS

--------------------------------------------------------------------------------
(* Types of the client's queues.                                           *)

LEMMA DrainedTypes ==
  ASSUME NEW state \in [Own -> OwnStates], NEW sending \in SUBSET Streams,
         NEW ended \in SUBSET Streams, Drained(state, sending, ended)
  PROVE  own' \in [Own -> OwnStates] /\ halves' \subseteq Streams /\ closed' \subseteq Streams
BY DEF Drained, OwnStates

LEMMA MessageTypes ==
  ASSUME NEW m \in BidiMessages
  PROVE  /\ m.what = "answer" => m.on \in Own /\ m.ok \in BOOLEAN
         /\ m.what = "request" => m.on \in Requests /\ m.kind \in Kinds
         /\ m.what = "update" => m.on \in Streams /\ m.id \in Updates
         /\ m.what = "end" => m.on \in Streams
BY DEF BidiMessages

LEMMA PeerTypes ==
  ASSUME ClientTypeOK, Peer
  PROVE  ClientTypeOK'
<1> USE DEF ClientTypeOK
<1>1. ASSUME NEW o \in Own, PeerAnswers(o)
      PROVE  ClientTypeOK'
  <2>1. PICK ok \in BOOLEAN : Tell([what |-> "answer", on |-> o, ok |-> ok])
    BY <1>1 DEF PeerAnswers
  <2>2. [what |-> "answer", on |-> o, ok |-> ok] \in BidiMessages
    BY DEF BidiMessages
  <2>3. bidi' \in Seq(BidiMessages)
    BY <2>1, <2>2 DEF Tell
  <2> QED BY <1>1, <2>3 DEF PeerAnswers, peer, vanished
<1>2. ASSUME NEW r \in Requests, PeerAsks(r)
      PROVE  ClientTypeOK'
  <2>1. PICK k \in Kinds : Tell([what |-> "request", on |-> r, kind |-> k])
    BY <1>2 DEF PeerAsks
  <2>2. [what |-> "request", on |-> r, kind |-> k] \in BidiMessages
    BY DEF BidiMessages
  <2>3. bidi' \in Seq(BidiMessages)
    BY <2>1, <2>2 DEF Tell
  <2> QED BY <1>2, <2>3 DEF PeerAsks, vanished
<1>3. ASSUME NEW u \in Updates, NEW s \in Streams, PeerUpdates(u, s)
      PROVE  ClientTypeOK'
  <2>1. [what |-> "update", on |-> s, id |-> u] \in BidiMessages
    BY DEF BidiMessages
  <2>2. bidi' \in Seq(BidiMessages)
    BY <1>3, <2>1 DEF PeerUpdates, Tell
  <2> QED BY <1>3, <2>2 DEF PeerUpdates, vanished
<1>4. ASSUME NEW s \in Streams, PeerEnds(s)
      PROVE  ClientTypeOK'
  <2>1. [what |-> "end", on |-> s] \in BidiMessages
    BY DEF BidiMessages
  <2>2. bidi' \in Seq(BidiMessages)
    BY <1>4, <2>1 DEF PeerEnds, Tell
  <2> QED BY <1>4, <2>2 DEF PeerEnds, vanished
<1>5. CASE PeerControls
  BY <1>5 DEF PeerControls, vanished
<1> QED BY <1>1, <1>2, <1>3, <1>4, <1>5 DEF Peer

\* The next message, and what is left of the queue.
LEMMA NextMessage ==
  ASSUME ClientTypeOK, NEW what, Next1(what)
  PROVE  /\ Head(bidi) \in BidiMessages /\ Head(bidi).what = what
         /\ bidi' \in Seq(BidiMessages)
BY DEF Next1, ClientTypeOK

LEMMA PumpTypes ==
  ASSUME ClientTypeOK, NEW inSelect \in BOOLEAN, Pump(inSelect)
  PROVE  ClientTypeOK'
<1> USE DEF ClientTypeOK
<1>1. CASE RecvAnswer
  <2> DEFINE m == Head(bidi)
             state == IF own[m.on] = "pending"
                      THEN [own EXCEPT ![m.on] = IF m.ok THEN "established" ELSE "terminated"]
                      ELSE own
  <2>1. bidi' \in Seq(BidiMessages)
    BY <1>1, NextMessage DEF RecvAnswer
  <2>2. state \in [Own -> OwnStates]
    BY DEF OwnStates
  <2>3. Drained(state, halves, closed)
    BY <1>1 DEF RecvAnswer
  <2> HIDE DEF state
  <2> QED BY <1>1, <2>1, <2>2, <2>3, DrainedTypes DEF RecvAnswer, peer, vanished
<1>2. CASE RecvUpdate
  <2>1. Head(bidi) \in BidiMessages /\ Head(bidi).what = "update" /\ bidi' \in Seq(BidiMessages)
    BY <1>2, NextMessage DEF RecvUpdate
  <2>2. updates' \in Seq([on : Streams, id : Updates])
    BY <1>2, <2>1, MessageTypes DEF RecvUpdate
  <2> QED BY <1>2, <2>1, <2>2, DrainedTypes DEF RecvUpdate, peer, vanished
<1>3. CASE RecvRequest(inSelect)
  <2> DEFINE r == Head(bidi).on
  <2>1. Head(bidi) \in BidiMessages /\ Head(bidi).what = "request" /\ bidi' \in Seq(BidiMessages)
    BY <1>3, NextMessage DEF RecvRequest
  <2>2. r \in Requests /\ Head(bidi).kind \in Kinds
    BY <2>1, MessageTypes
  <2>3. requests' \in Seq([on : Requests, kind : Kinds])
    BY <1>3, <2>2 DEF RecvRequest
  <2>4. halves \cup {r} \in SUBSET Streams
    BY <2>2 DEF Streams
  <2>5. own' \in [Own -> OwnStates] /\ halves' \subseteq Streams /\ closed' \subseteq Streams
    <3>1. CASE Drained(own, halves \cup {r}, closed)
      BY <2>4, <3>1, DrainedTypes
    <3>2. CASE Drained(own, halves, closed)
      BY <3>2, DrainedTypes
    <3>3. CASE UNCHANGED <<own, halves, closed>>
      BY <3>3
    <3> QED BY <1>3, <3>1, <3>2, <3>3 DEF RecvRequest
  <2>6. /\ replied' \cup dropped' \subseteq Requests \cup Updates
        /\ refused' \cup lost' \cup rejected' \subseteq Requests
    BY <1>3, <2>2 DEF RecvRequest, vanished
  <2> QED BY <1>3, <2>1, <2>3, <2>5, <2>6 DEF RecvRequest, peer
<1>4. CASE RecvEnd
  <2> DEFINE s == Head(bidi).on
             state == [o \in Own |-> IF o = s /\ own[o] = "pending" THEN "terminated" ELSE own[o]]
  <2>1. Head(bidi) \in BidiMessages /\ Head(bidi).what = "end" /\ bidi' \in Seq(BidiMessages)
    BY <1>4, NextMessage DEF RecvEnd
  <2>2. s \in Streams
    BY <2>1, MessageTypes
  <2>3. state \in [Own -> OwnStates]
    BY DEF OwnStates
  <2>4. PICK ended \in {closed, closed \cup {s}} : Drained(state, halves, ended)
    BY <1>4 DEF RecvEnd
  <2>5. ended \in SUBSET Streams
    BY <2>2, <2>4
  <2> HIDE DEF state
  <2> QED BY <1>4, <2>1, <2>3, <2>4, <2>5, DrainedTypes DEF RecvEnd, peer, vanished
<1>5. CASE RecvGoaway
  BY <1>5, DrainedTypes DEF RecvGoaway, vanished
<1> QED BY <1>1, <1>2, <1>3, <1>4, <1>5 DEF Pump

LEMMA TickTypes ==
  ASSUME ClientTypeOK, Tick
  PROVE  ClientTypeOK'
BY DrainedTypes DEF Tick, ClientTypeOK, peer, vanished

LEMMA OpenTypes ==
  ASSUME ClientTypeOK, NEW o \in Own, OpenRequest(o)
  PROVE  ClientTypeOK'
<1>1. [own EXCEPT ![o] = "pending"] \in [Own -> OwnStates]
  BY DEF ClientTypeOK, OwnStates
<1>2. halves \cup {o} \in SUBSET Streams
  BY DEF ClientTypeOK, Streams
<1> QED BY <1>1, <1>2, DrainedTypes DEF OpenRequest, ClientTypeOK, peer, vanished

LEMMA ReplyTypes ==
  ASSUME ClientTypeOK, NEW q \in Requests \cup Updates, NEW s \in Streams, NEW last \in BOOLEAN,
         Reply(q, s, last), last => q \in Requests,
         requests' \in Seq([on : Requests, kind : Kinds]),
         updates' \in Seq([on : Streams, id : Updates])
  PROVE  ClientTypeOK'
<1>1. (IF last THEN halves \ {s} ELSE halves) \in SUBSET Streams
  BY DEF ClientTypeOK
<1>2. own' \in [Own -> OwnStates] /\ halves' \subseteq Streams /\ closed' \subseteq Streams
  BY <1>1, DrainedTypes DEF Reply, ClientTypeOK
<1>3. /\ replied' \cup dropped' \subseteq Requests \cup Updates
      /\ rejected' \subseteq Requests
  BY DEF Reply, ClientTypeOK
<1> QED BY <1>2, <1>3 DEF Reply, ClientTypeOK, peer

--------------------------------------------------------------------------------
(* Types of the publisher.                                                 *)

LEMMA NewStreamTypes ==
  ASSUME NEW t \in Tracks
  PROVE  NewStream(t) \in StreamRecords /\ NewStream(t).track = t
BY DEF NewStream, StreamRecords, None

LEMMA WriteTypes ==
  ASSUME NEW s \in StreamRecords, NEW pass \in BOOLEAN, NEW ts \in Int, NEW c \in BOOLEAN
  PROVE  Write(s, pass, ts, c) \in StreamRecords
<1> DEFINE id == Len(s.passed)
           o == [delta |-> id - s.prev - 1, ts |-> ts, config |-> c]
<1>1. /\ s.passed \in Seq(BOOLEAN) /\ id \in Nat /\ s.prev \in Int
      /\ s.objects \in Seq([delta : Int, ts : Int, config : BOOLEAN])
  BY DEF StreamRecords
<1>2. Append(s.passed, TRUE) \in Seq(BOOLEAN) /\ Append(s.passed, FALSE) \in Seq(BOOLEAN)
  BY <1>1
<1>3. o \in [delta : Int, ts : Int, config : BOOLEAN]
  BY <1>1
<1>4. Append(s.objects, o) \in Seq([delta : Int, ts : Int, config : BOOLEAN])
  BY <1>1, <1>3
<1>5. CASE pass
  <2> DEFINE h == IF s.header = "none" THEN IF id = 0 THEN "first" ELSE "later" ELSE s.header
             p == Append(s.passed, TRUE)
             os == Append(s.objects, o)
  <2>1. Write(s, pass, ts, c) =
          [track |-> s.track, prev |-> id, skipped |-> s.skipped, header |-> h,
           objects |-> os, passed |-> p, end |-> s.end]
    BY <1>5 DEF Write, StreamRecords
  <2>2. h \in {"none", "first", "later"}
    BY DEF StreamRecords
  <2>3. /\ p \in Seq(BOOLEAN) /\ id \in Int
        /\ os \in Seq([delta : Int, ts : Int, config : BOOLEAN])
    BY <1>1, <1>2, <1>4
  <2>4. s.track \in Tracks /\ s.skipped \in BOOLEAN /\ s.end \in {"open", "fin", "reset", "failed"}
    BY DEF StreamRecords
  <2> HIDE DEF o, id, h, p, os
  <2> QED BY <2>1, <2>2, <2>3, <2>4 DEF StreamRecords
<1>6. CASE ~pass
  BY <1>6, <1>2 DEF Write, StreamRecords
<1> QED BY <1>5, <1>6

LEMMA CloseTypes ==
  ASSUME NEW s \in StreamRecords
  PROVE  Close(s) \in StreamRecords /\ Close(s).track = s.track
BY DEF Close, StreamRecords

LEMMA RegroupTypes ==
  ASSUME PublisherTypeOK, NEW key \in BOOLEAN
  PROVE  /\ Regroup(key) \in Seq(StreamRecords)
         /\ Len(Regroup(key)) = IF key THEN Len(streams) + 1 ELSE Len(streams)
<1> DEFINE finished == IF writer = 0 THEN streams ELSE [streams EXCEPT ![writer] = Close(@)]
<1>1. streams \in Seq(StreamRecords) /\ writer \in 0..Len(streams)
  BY DEF PublisherTypeOK
<1>2. finished \in Seq(StreamRecords) /\ Len(finished) = Len(streams)
  <2>1. CASE writer = 0
    BY <1>1, <2>1
  <2>2. CASE writer # 0
    <3>1. Close(streams[writer]) \in StreamRecords
      BY <1>1, <2>2, CloseTypes
    <3> QED BY <1>1, <2>2, <3>1
  <2> QED BY <2>1, <2>2
<1>3. NewStream("video") \in StreamRecords
  BY NewStreamTypes DEF Tracks
<1> HIDE DEF finished
<1>4. Regroup(key) = IF key THEN Append(finished, NewStream("video")) ELSE streams
  BY DEF Regroup, finished
<1> QED BY <1>1, <1>2, <1>3, <1>4

LEMMA TypeInit == Init => TypeOK
<1> SUFFICES ASSUME Init PROVE TypeOK
  OBVIOUS
<1>1. ClientTypeOK
  <2>1. own \in [Own -> OwnStates]
    BY DEF Init, ClientInit, OwnStates
  <2>2. bidi = <<>> /\ requests = <<>> /\ updates = <<>>
    BY DEF Init, ClientInit
  <2>3. /\ control = "none" /\ ~goaway /\ ~expired
        /\ {asked, over, halves, closed, replied, dropped, refused, lost, rejected} = {{}}
    BY DEF Init, ClientInit
  <2>4. goaway \in BOOLEAN /\ expired \in BOOLEAN
    BY DEF Init, ClientInit
  <2> QED BY <2>1, <2>2, <2>3, <2>4 DEF ClientTypeOK
<1>2. PublisherTypeOK
  <2>1. /\ sources \subseteq {"video", "audio"} /\ pc = "setup" /\ awaiting = "none"
        /\ captured \in [{"video", "audio"} -> Nat]
        /\ done \in [Tracks -> Nat \cup {None}]
    BY DEF Init
  <2>2. /\ videoCh = <<>> /\ audioCh = <<>> /\ pending = <<>> /\ todo = <<>>
        /\ streams = <<>> /\ left = <<>>
    BY DEF Init
  <2>3. /\ videoLast = None /\ audioLast = None /\ pcm = 0 /\ writer = 0
        /\ codec = FALSE /\ ready = FALSE /\ configSent = FALSE
    BY DEF Init
  <2>4. Len(<<>>) = 0 /\ VideoCap \in Nat /\ AudioCap \in Nat
    BY PublisherAssumption
  <2>5. /\ videoCh \in Seq(Times) /\ Len(videoCh) <= VideoCap
        /\ audioCh \in Seq([at : Times, len : Pieces]) /\ Len(audioCh) <= AudioCap
        /\ pending \in Seq(Outputs) /\ todo \in Seq(Outputs) /\ streams \in Seq(StreamRecords)
        /\ left \in Seq(Tracks \cup {"writer", "goaway", "close"}) /\ writer \in 0..Len(streams)
    BY <2>2, <2>3, <2>4
  <2>6. {codec, ready, configSent} \subseteq BOOLEAN
    BY <2>3
  <2>7. {videoLast, audioLast} \subseteq Nat \cup {None} /\ pcm \in Nat
    BY <2>3
  <2> QED BY <2>1, <2>5, <2>6, <2>7 DEF PublisherTypeOK
<1> QED BY <1>1, <1>2 DEF TypeOK

LEMMA OfferTypes ==
  ASSUME NEW S, NEW ch \in Seq(S), NEW cap \in Nat, NEW x \in S, Len(ch) <= cap
  PROVE  Offer(ch, cap, x) \in Seq(S) /\ Len(Offer(ch, cap, x)) <= cap
BY DEF Offer

LEMMA CaptureTypes ==
  ASSUME PublisherTypeOK, CaptureVideo \/ CaptureAudio
  PROVE  PublisherTypeOK'
<1> USE DEF PublisherTypeOK
<1>1. CASE CaptureVideo
  <2>1. PICK t \in Times : videoCh' = Offer(videoCh, VideoCap, t)
    BY <1>1 DEF CaptureVideo
  <2>2. videoCh' \in Seq(Times) /\ Len(videoCh') <= VideoCap
    BY <2>1, OfferTypes, PublisherAssumption
  <2>3. captured' \in [{"video", "audio"} -> Nat]
    BY <1>1 DEF CaptureVideo
  <2> QED BY <1>1, <2>2, <2>3 DEF CaptureVideo, Environment, video, audio
<1>2. CASE CaptureAudio
  <2>1. PICK t \in Times, n \in Pieces :
          audioCh' = Offer(audioCh, AudioCap, [at |-> t, len |-> n])
    BY <1>2 DEF CaptureAudio
  <2>2. audioCh' \in Seq([at : Times, len : Pieces]) /\ Len(audioCh') <= AudioCap
    <3>1. [at |-> t, len |-> n] \in [at : Times, len : Pieces]
      OBVIOUS
    <3> HIDE DEF PublisherTypeOK
    <3>2. /\ audioCh \in Seq([at : Times, len : Pieces]) /\ Len(audioCh) <= AudioCap
          /\ AudioCap \in Nat
      BY PublisherAssumption DEF PublisherTypeOK
    <3> QED BY <2>1, <3>1, <3>2, OfferTypes
  <2>3. captured' \in [{"video", "audio"} -> Nat]
    BY <1>2 DEF CaptureAudio
  <2> QED BY <1>2, <2>2, <2>3 DEF CaptureAudio, Environment, video, audio
<1> QED BY <1>1, <1>2

\* The steps that leave the media and the end alone.
LEMMA QuietTypes ==
  ASSUME PublisherTypeOK, UNCHANGED <<media, left, done>>,
         awaiting' \in Tracks \cup {"none"},
         pc' \in {"await", "setup", "idle", "fetch", "ended", "failed"} \cup {pc}
  PROVE  PublisherTypeOK'
BY DEF PublisherTypeOK, media, queues, video, audio

LEMMA VideoTypes ==
  ASSUME PublisherTypeOK, TakeVideo \/ SendVideo \/ PublishCatalog
  PROVE  PublisherTypeOK'
<1> USE DEF PublisherTypeOK
<1>1. CASE TakeVideo
  <2>1. videoCh' \in Seq(Times) /\ Len(videoCh') <= VideoCap /\ Head(videoCh) \in Times
    BY <1>1, PublisherAssumption, SMTT(30) DEF TakeVideo
  <2>2. CASE UNCHANGED <<clientVars, pc, awaiting, video>>
    BY <1>1, <2>1, <2>2 DEF TakeVideo, video, audio
  <2>3. ASSUME NEW key \in BOOLEAN,
               videoLast' = Convert(videoLast, Head(videoCh)),
               codec' = (codec \/ key),
               \/ /\ todo' = <<[ts |-> videoLast', key |-> key]>> /\ pc' = "send"
                  /\ UNCHANGED <<awaiting, pending>>
               \/ /\ pending' = Append(pending, [ts |-> videoLast', key |-> key])
                  /\ pc' = "await" /\ awaiting' = "catalog"
                  /\ UNCHANGED todo
               \/ /\ pending' = Append(pending, [ts |-> videoLast', key |-> key])
                  /\ UNCHANGED <<pc, awaiting, todo>>
        PROVE  PublisherTypeOK'
    <3>1. videoLast' \in Nat
      <4> HIDE DEF PublisherTypeOK
      <4>1. videoLast \in Nat \cup {None} /\ Head(videoCh) \in Nat
        BY <2>1, PublisherAssumption DEF PublisherTypeOK, Times
      <4> QED BY <2>3, <4>1 DEF Convert
    <3>2. [ts |-> videoLast', key |-> key] \in Outputs
      BY <3>1 DEF Outputs
    <3>3. /\ pending' \in Seq(Outputs) /\ todo' \in Seq(Outputs)
          /\ pc' = "send" => todo' # <<>>
      <4> HIDE DEF PublisherTypeOK
      <4>1. pending \in Seq(Outputs) /\ todo \in Seq(Outputs) /\ pc = "idle"
        BY <1>1 DEF PublisherTypeOK, TakeVideo
      <4> DEFINE out == [ts |-> videoLast', key |-> key]
      <4>2. <<out>> \in Seq(Outputs) /\ <<out>> # <<>> /\ Append(pending, out) \in Seq(Outputs)
        BY <3>2, <4>1
      <4> HIDE DEF out
      <4> QED BY <2>3, <4>1, <4>2 DEF out
    <3>4. pc' \in {"send", "await", pc} /\ awaiting' \in Tracks \cup {"none"} /\ pc = "idle"
      BY <1>1, <2>3 DEF TakeVideo, Tracks
    <3> QED BY <1>1, <2>1, <2>3, <3>1, <3>3, <3>4 DEF TakeVideo, audio
  <2>4. QED
    BY <1>1, <2>2, <2>3 DEF TakeVideo, PublishTrack
<1>2. CASE SendVideo
  <2> DEFINE o == Head(todo)
             opened == Regroup(o.key)
             w == IF o.key THEN Len(opened) ELSE writer
  <2>1. o \in Outputs /\ todo' \in Seq(Outputs) /\ Len(todo') = Len(todo) - 1
    BY <1>2 DEF SendVideo
  <2>2. o.key \in BOOLEAN /\ o.ts \in Int
    BY <2>1 DEF Outputs
  <2>3. /\ opened \in Seq(StreamRecords)
        /\ Len(opened) = IF o.key THEN Len(streams) + 1 ELSE Len(streams)
    BY <2>2, RegroupTypes
  <2>4. w \in 0..Len(opened)
    BY <2>2, <2>3
  <2>5. PICK pass \in BOOLEAN :
          streams' = IF w = 0 THEN opened
                     ELSE [opened EXCEPT ![w] = Write(@, pass, o.ts, o.key)]
    BY <1>2 DEF SendVideo
  <2> HIDE DEF opened, w
  <2>6. w # 0 => Write(opened[w], pass, o.ts, o.key) \in StreamRecords
    BY <2>2, <2>3, <2>4, WriteTypes, SMTT(30)
  <2>7. streams' \in Seq(StreamRecords) /\ Len(streams') = Len(opened)
    BY <2>3, <2>4, <2>5, <2>6
  <2>8. writer' \in 0..Len(streams')
    BY <1>2, <2>4, <2>7 DEF SendVideo, opened, w
  <2>9. pc' \in {"idle", "send"} /\ (pc' = "send" => todo' # <<>>)
    <3> HIDE DEF PublisherTypeOK
    <3>1. todo \in Seq(Outputs) /\ todo # <<>>
      BY <1>2 DEF PublisherTypeOK, SendVideo
    <3>2. pc' = IF Len(todo) = 1 THEN "idle" ELSE "send"
      BY <1>2 DEF SendVideo
    <3> QED BY <2>1, <3>1, <3>2
  <2> QED BY <1>2, <2>1, <2>7, <2>8, <2>9 DEF SendVideo, queues, audio
<1>3. CASE PublishCatalog
  <2>1. NewStream("catalog") \in StreamRecords
    BY NewStreamTypes DEF Tracks
  <2>2. /\ Write(NewStream("catalog"), FALSE, None, FALSE) \in StreamRecords
        /\ Close(Write(NewStream("catalog"), TRUE, None, FALSE)) \in StreamRecords
    <3> HIDE DEF PublisherTypeOK
    <3>1. None \in Int
      BY DEF None
    <3> QED BY <2>1, <3>1, WriteTypes, CloseTypes
  <2>3. streams' \in Seq(StreamRecords) /\ Len(streams') = Len(streams) + 1
    <3> DEFINE x == Write(NewStream("catalog"), FALSE, None, FALSE)
               y == Close(Write(NewStream("catalog"), TRUE, None, FALSE))
    <3>1. streams' = Append(streams, x) \/ streams' = Append(streams, y)
      BY <1>3 DEF PublishCatalog
    <3>2. x \in StreamRecords /\ y \in StreamRecords /\ streams \in Seq(StreamRecords)
      BY <2>2
    <3> HIDE DEF x, y, PublisherTypeOK
    <3> QED BY <3>1, <3>2
  <2>4. /\ pending' \in Seq(Outputs) /\ todo' \in Seq(Outputs) /\ ready' \in BOOLEAN
        /\ pc' \in {"idle", "send", "failed"} /\ (pc' = "send" => todo' # <<>>)
    <3> HIDE DEF PublisherTypeOK
    <3>1. pending \in Seq(Outputs) /\ todo \in Seq(Outputs) /\ ready \in BOOLEAN
      BY DEF PublisherTypeOK
    <3>2. CASE ready' = TRUE /\ todo' = pending /\ pending' = <<>>
                 /\ pc' = IF pending = <<>> THEN "idle" ELSE "send"
      BY <3>1, <3>2
    <3>3. CASE pc' = "failed" /\ UNCHANGED <<ready, todo, pending>>
      BY <3>1, <3>3
    <3> QED BY <1>3, <3>2, <3>3 DEF PublishCatalog
  <2> QED BY <1>3, <2>3, <2>4 DEF PublishCatalog, queues, audio
<1> QED BY <1>1, <1>2, <1>3

LEMMA AudioTypes ==
  ASSUME PublisherTypeOK, TakeAudio \/ SendAudio
  PROVE  PublisherTypeOK'
<1> USE DEF PublisherTypeOK
<1>1. CASE TakeAudio
  <2>1. /\ audioCh' \in Seq([at : Times, len : Pieces]) /\ Len(audioCh') <= AudioCap
        /\ Head(audioCh).at \in Nat /\ Head(audioCh).len \in Nat
    <3> HIDE DEF PublisherTypeOK
    <3>1. audioCh \in Seq([at : Times, len : Pieces]) /\ Len(audioCh) <= AudioCap
      BY DEF PublisherTypeOK
    <3>2. audioCh # <<>> /\ audioCh' = Tail(audioCh)
      BY <1>1 DEF TakeAudio
    <3>3. Head(audioCh).at \in Nat /\ Head(audioCh).len \in Nat
      <4>1. Head(audioCh) \in [at : Times, len : Pieces]
        BY <3>1, <3>2, HeadTailProperties
      <4>2. Times \subseteq Nat /\ Pieces \subseteq Nat
        BY PublisherAssumption DEF Times
      <4> QED BY <4>1, <4>2
    <3>4. AudioCap \in Nat
      BY PublisherAssumption
    <3>5. /\ Tail(audioCh) \in Seq([at : Times, len : Pieces])
          /\ Len(Tail(audioCh)) = Len(audioCh) - 1 /\ Len(audioCh) \in Nat
      BY <3>1, <3>2, HeadTailProperties, LenProperties
    <3> QED BY <3>1, <3>2, <3>3, <3>4, <3>5
  <2>2. audioLast' \in Nat \cup {None} /\ pcm' \in Nat
    <3> HIDE DEF PublisherTypeOK
    <3>1. /\ audioLast \in Nat \cup {None}
          /\ pcm \in Nat
      BY DEF PublisherTypeOK
    <3>2. pcm + Head(audioCh).len \in Nat /\ Convert(None, Head(audioCh).at) = Head(audioCh).at
      BY <2>1, <3>1 DEF Convert
    <3>3. \/ UNCHANGED <<audioLast, pcm>>
          \/ /\ audioLast' \in {Convert(None, Head(audioCh).at), audioLast}
             /\ pcm' = pcm + Head(audioCh).len
      BY <1>1 DEF TakeAudio
    <3> QED BY <2>1, <3>1, <3>2, <3>3
  <2>3. pc' \in {"packets", "idle"} /\ (pc' = "packets" => pcm' >= PacketLen)
    BY <1>1 DEF TakeAudio
  <2> QED BY <1>1, <2>1, <2>2, <2>3 DEF TakeAudio, video
<1>2. CASE SendAudio
  <2>1. pcm' \in Nat
    BY <1>2, PublisherAssumption, SMTT(30) DEF SendAudio
  <2>2. audioLast' \in Nat
    <3> HIDE DEF PublisherTypeOK
    <3>1. audioLast \in Nat \cup {None} /\ PacketLen \in Nat
      BY PublisherAssumption DEF PublisherTypeOK
    <3> QED BY <1>2, <3>1 DEF SendAudio, Advance
  <2>3. PICK pass \in BOOLEAN :
          /\ streams' = Append(streams,
                               Close(Write(NewStream("audio"), pass, audioLast', ~configSent)))
          /\ configSent' = (configSent \/ pass)
    BY <1>2 DEF SendAudio
  <2>4. Close(Write(NewStream("audio"), pass, audioLast', ~configSent)) \in StreamRecords
    <3> HIDE DEF PublisherTypeOK
    <3>1. NewStream("audio") \in StreamRecords
      BY NewStreamTypes DEF Tracks
    <3>2. audioLast' \in Int /\ (~configSent) \in BOOLEAN
      <4>1. audioLast' \in Int
        BY <2>2
      <4>2. (~configSent) \in BOOLEAN
        OBVIOUS
      <4> QED BY <4>1, <4>2
    <3>3. Write(NewStream("audio"), pass, audioLast', ~configSent) \in StreamRecords
      BY <3>1, <3>2, WriteTypes
    <3> QED BY <3>3, CloseTypes
  <2>5. streams' \in Seq(StreamRecords) /\ Len(streams') = Len(streams) + 1
    BY <2>3, <2>4
  <2>6. pc' \in {"packets", "idle"} /\ (pc' = "packets" => pcm' >= PacketLen)
    BY <1>2 DEF SendAudio
  <2> QED BY <1>2, <2>1, <2>2, <2>3, <2>5, <2>6 DEF SendAudio, queues, video
<1> QED BY <1>1, <1>2

LEMMA EndTypes ==
  ASSUME PublisherTypeOK, Stop \/ Finish
  PROVE  PublisherTypeOK'
<1> USE DEF PublisherTypeOK
<1>1. CASE Stop
  <2> DEFINE Calls == Tracks \cup {"writer", "goaway", "close"}
             a == IF writer = 0 THEN <<>> ELSE <<"writer">>
             b == IF ready THEN <<"catalog">> ELSE <<>>
             c == IF "video" \in sources THEN <<"video">> ELSE <<>>
             d == IF "audio" \in sources THEN <<"audio">> ELSE <<>>
             e == <<"goaway", "close">>
  <2>1. a \in Seq(Calls) /\ b \in Seq(Calls) /\ c \in Seq(Calls) /\ d \in Seq(Calls)
          /\ e \in Seq(Calls) /\ Len(e) = 2
    <3> HIDE DEF PublisherTypeOK
    <3>1. {"video", "audio", "catalog", "writer", "goaway", "close"} \subseteq Calls
      BY DEF Tracks
    <3> HIDE DEF Calls
    <3>2. <<>> \in Seq(Calls) /\ \A x \in Calls : <<x>> \in Seq(Calls)
      OBVIOUS
    <3>3. <<"goaway", "close">> \in Seq(Calls)
      BY <3>1
    <3> QED BY <3>1, <3>2, <3>3
  <2>2. left' = a \o b \o c \o d \o e
    BY <1>1 DEF Stop
  <2>3. left' \in Seq(Calls) /\ left' # <<>>
    <3> HIDE DEF PublisherTypeOK, Calls, a, b, c, d, e
    <3> DEFINE f == a \o b \o c \o d
    <3>1. f \in Seq(Calls)
      <4>1. a \o b \in Seq(Calls)
        BY <2>1
      <4>2. a \o b \o c \in Seq(Calls)
        BY <2>1, <4>1
      <4> QED BY <2>1, <4>2
    <3> HIDE DEF f
    <3>2. f \o e \in Seq(Calls) /\ Len(f \o e) = Len(f) + 2 /\ Len(f) \in Nat
      <4>1. e \in Seq(Calls) /\ Len(e) = 2
        BY <2>1
      <4>2. f \o e \in Seq(Calls) /\ Len(f \o e) = Len(f) + Len(e)
        BY <3>1, <4>1, ConcatProperties
      <4>3. Len(f) \in Nat
        BY <3>1, LenProperties
      <4> QED BY <4>1, <4>2, <4>3
    <3>3. f \o e # <<>>
      BY <3>2
    <3> QED BY <2>2, <3>2, <3>3 DEF f
  <2> QED BY <1>1, <2>3 DEF Stop, media, queues, video, audio
<1>2. CASE Finish
  <2>1. left' \in Seq(Tracks \cup {"writer", "goaway", "close"}) /\ Len(left') = Len(left) - 1
    BY <1>2 DEF Finish
  <2>2. pc' \in {"ended", "finish"} /\ (pc' = "finish" => left' # <<>>)
    <3> HIDE DEF PublisherTypeOK
    <3>1. /\ left \in Seq(Tracks \cup {"writer", "goaway", "close"}) /\ left # <<>>
          /\ pc' = IF Len(left) = 1 THEN "ended" ELSE "finish"
      BY <1>2 DEF Finish, PublisherTypeOK
    <3> QED BY <2>1, <3>1
  <2>3. streams' \in Seq(StreamRecords) /\ writer' \in 0..Len(streams')
    <3>1. CASE UNCHANGED <<writer, streams>>
      BY <3>1
    <3>2. ASSUME writer # 0, writer' = 0,
                 NEW s \in {Close(streams[writer]), [streams[writer] EXCEPT !.end = "failed"]},
                 streams' = [streams EXCEPT ![writer] = s]
          PROVE  streams' \in Seq(StreamRecords) /\ writer' \in 0..Len(streams')
      <4>1. streams[writer] \in StreamRecords
        BY <3>2
      <4>2. s \in StreamRecords
        <5> HIDE DEF PublisherTypeOK
        <5>1. [streams[writer] EXCEPT !.end = "failed"] \in StreamRecords
          BY <4>1 DEF StreamRecords
        <5> QED BY <3>2, <4>1, <5>1, CloseTypes
      <4> QED BY <3>2, <4>2
    <3> QED BY <1>2, <3>1, <3>2 DEF Finish
  <2>4. \A t \in Tracks : Count(t) \in Nat
    <3> TAKE t \in Tracks
    <3>1. IsFiniteSet(1..Len(streams))
      BY FS_Interval
    <3>2. IsFiniteSet({i \in 1..Len(streams) : streams[i].track = t})
      BY <3>1, FS_Subset
    <3> QED BY <3>2, FS_CardinalityType DEF Count
  <2>5. done' \in [Tracks -> Nat \cup {None}]
    BY <1>2, <2>4 DEF Finish
  <2> QED BY <1>2, <2>1, <2>2, <2>3, <2>5 DEF Finish, queues, video, audio
<1> QED BY <1>1, <1>2

LEMMA PublishTrackTypes ==
  ASSUME ClientTypeOK, NEW t \in Tracks, PublishTrack(t)
  PROVE  ClientTypeOK'
BY PublisherAssumption, OpenTypes DEF PublishTrack, Tracks

LEMMA ServeTypes ==
  ASSUME ClientTypeOK, ServeUpdate \/ ServeRequest
  PROVE  ClientTypeOK'
<1> DEFINE R == [on : Requests, kind : Kinds]
           U == [on : Streams, id : Updates]
<1>1. requests \in Seq(R) /\ updates \in Seq(U)
  BY DEF ClientTypeOK
<1>2. CASE ServeUpdate
  <2>1. updates # <<>> /\ updates' = Tail(updates) /\ requests' = requests
    BY <1>2 DEF ServeUpdate, UpdateFirst
  <2>2. Head(updates) \in U /\ updates' \in Seq(U)
    BY <1>1, <2>1, HeadTailProperties
  <2>3. Head(updates).id \in Requests \cup Updates /\ Head(updates).on \in Streams
    BY <2>2
  <2> QED BY <1>1, <1>2, <2>1, <2>2, <2>3, ReplyTypes DEF ServeUpdate
<1>3. CASE ServeRequest
  <2> DEFINE r == Head(requests)
             ok == r.kind = "track" \/ (r.kind = "catalog" /\ ready)
  <2>1. requests # <<>> /\ requests' = Tail(requests) /\ updates' = updates
    BY <1>3 DEF ServeRequest, RequestNext
  <2>2. r \in R /\ requests' \in Seq(R)
    BY <1>1, <2>1, HeadTailProperties
  <2>3. r.on \in Requests /\ r.on \in Requests \cup Updates /\ r.on \in Streams
    BY <2>2 DEF Streams
  <2>4. Reply(r.on, r.on, ~ok)
    BY <1>3 DEF ServeRequest
  <2>5. (~ok) \in BOOLEAN
    OBVIOUS
  <2> HIDE DEF r, ok
  <2> QED BY <1>1, <2>1, <2>2, <2>3, <2>4, <2>5, ReplyTypes
<1> QED BY <1>2, <1>3

\* Types are kept by every step.
LEMMA TypeNext == TypeOK /\ [Next]_vars => TypeOK'
<1> SUFFICES ASSUME TypeOK, [Next]_vars PROVE TypeOK'
  OBVIOUS
<1>0. ClientTypeOK /\ PublisherTypeOK
  BY DEF TypeOK
<1>a. UNCHANGED clientVars => ClientTypeOK'
  BY <1>0 DEF clientVars, ClientTypeOK
<1>1. CASE Peer
  <2>1. ClientTypeOK'
    BY <1>0, <1>1, PeerTypes
  <2>2. PublisherTypeOK'
    BY <1>0, <1>1 DEF Peer, Environment, PublisherTypeOK, queues, video, audio
  <2> QED BY <2>1, <2>2 DEF TypeOK
<1>2. CASE CaptureVideo \/ CaptureAudio
  BY <1>0, <1>a, <1>2, CaptureTypes DEF CaptureVideo, CaptureAudio, TypeOK
<1>3. CASE TakeVideo \/ SendVideo \/ PublishCatalog
  <2>1. ClientTypeOK'
    <3>1. UNCHANGED clientVars \/ PublishTrack("catalog")
      BY <1>3 DEF TakeVideo, SendVideo, PublishCatalog
    <3>2. "catalog" \in Tracks
      BY DEF Tracks
    <3> QED BY <1>0, <1>a, <3>1, <3>2, PublishTrackTypes
  <2> QED BY <1>0, <1>3, <2>1, VideoTypes DEF TypeOK
<1>4. CASE TakeAudio \/ SendAudio
  BY <1>0, <1>a, <1>4, AudioTypes DEF TakeAudio, SendAudio, TypeOK
<1>5. CASE Stop \/ Finish
  BY <1>0, <1>a, <1>5, EndTypes DEF Stop, Finish, TypeOK
<1>6. CASE SetUp
  <2>1. NextTrack \in Tracks \cup {"none"} /\ awaiting \in Tracks \cup {"none"}
    BY <1>0 DEF NextTrack, Tracks, PublisherTypeOK
  <2>2. CASE NextTrack = "none"
    BY <1>0, <1>a, <1>6, <2>1, <2>2, QuietTypes DEF SetUp, TypeOK
  <2>3. CASE NextTrack # "none"
    BY <1>0, <1>6, <2>1, <2>3, QuietTypes, PublishTrackTypes DEF SetUp, PublishTrack, TypeOK
  <2> QED BY <2>2, <2>3
<1>7. CASE Wait \/ TakeMessage \/ RunTimer
  <2>1. ClientTypeOK'
    BY <1>0, <1>7, PumpTypes, TickTypes DEF Wait, TakeMessage, RunTimer
  <2>2. awaiting \in Tracks \cup {"none"}
    BY <1>0 DEF PublisherTypeOK
  <2> QED BY <1>0, <1>7, <2>1, <2>2, QuietTypes DEF Wait, TakeMessage, RunTimer, TypeOK
<1>8. CASE ServeUpdate \/ ServeRequest
  <2>1. awaiting \in Tracks \cup {"none"}
    BY <1>0 DEF PublisherTypeOK
  <2>2. pc' \in {"idle", "fetch", pc} /\ UNCHANGED <<awaiting, media, left, done>>
    BY <1>8 DEF ServeUpdate, ServeRequest
  <2> QED BY <1>0, <1>8, <2>1, <2>2, ServeTypes, QuietTypes DEF TypeOK
<1>9. CASE Established \/ SendFetched \/ Break \/ Fail
  <2>1. awaiting \in Tracks \cup {"none"}
    BY <1>0 DEF PublisherTypeOK
  <2>2. /\ pc' \in {"setup", "idle", "failed"} /\ UNCHANGED <<awaiting, media, left, done>>
        /\ UNCHANGED clientVars
    BY <1>9 DEF Established, SendFetched, Break, Fail
  <2> QED BY <1>0, <1>a, <2>1, <2>2, QuietTypes DEF TypeOK
<1>10. CASE UNCHANGED vars
  <2>1. PublisherTypeOK'
    BY <1>0, <1>10 DEF vars, PublisherTypeOK, queues, video, audio
  <2> QED BY <1>a, <1>10, <2>1 DEF vars, TypeOK
<1> QED BY <1>1, <1>2, <1>3, <1>4, <1>5, <1>6, <1>7, <1>8, <1>9, <1>10
    DEF Next, NextEvent, Handler

\* The types of the program and of its client, for any relay and any constants: among
\* them that the capture channels keep their bounds, and that a handler which sends
\* always has something to send.
THEOREM TypeCorrect == Spec => []TypeOK
<1> QED BY TypeInit, TypeNext, PTL DEF Spec

--------------------------------------------------------------------------------
(* What each step does to the streams: those that were there stay as they  *)
(* are, but for the video stream under way; a new one is of one of three   *)
(* kinds.                                                                  *)

\* The stream under way, if there is one, carries video.
WriterInv == writer # 0 => streams[writer].track = "video"

\* Every other stream is over, as long as no error has ended the program.
ClosedInv == pc # "failed" => \A i \in Indices : i # writer => streams[i].end # "open"

\* An audio stream, opened, written and closed at once.
AudioStream(pass, ts) == Close(Write(NewStream("audio"), pass, ts, ~configSent))

LEMMA WriteKeeps ==
  ASSUME NEW s \in StreamRecords, NEW pass \in BOOLEAN, NEW ts \in Int, NEW c \in BOOLEAN
  PROVE  /\ Write(s, pass, ts, c).track = s.track
         /\ Write(s, pass, ts, c).end = s.end
         /\ Write(s, pass, ts, c).objects =
              IF pass THEN Append(s.objects, [delta |-> Len(s.passed) - s.prev - 1,
                                              ts |-> ts, config |-> c])
              ELSE s.objects
BY DEF Write, StreamRecords

LEMMA CloseKeeps ==
  ASSUME NEW s \in StreamRecords
  PROVE  /\ Close(s).track = s.track /\ Close(s).objects = s.objects
         /\ Close(s).end \in {"fin", "reset"}
BY DEF Close, StreamRecords

LEMMA AudioStreamIs ==
  ASSUME TypeOK, NEW pass \in BOOLEAN, NEW ts \in Int
  PROVE  /\ AudioStream(pass, ts) \in StreamRecords
         /\ AudioStream(pass, ts).track = "audio"
         /\ AudioStream(pass, ts).end \in {"fin", "reset"}
         /\ ~pass => AudioStream(pass, ts).objects = <<>>
         /\ pass => /\ Len(AudioStream(pass, ts).objects) = 1
                    /\ AudioStream(pass, ts).objects[1].config = ~configSent
<1> DEFINE n == NewStream("audio")
           w == Write(n, pass, ts, ~configSent)
<1>1. n \in StreamRecords /\ n.track = "audio"
  BY NewStreamTypes DEF Tracks
<1>2. n.objects = <<>>
  BY DEF NewStream
<1>3. (~configSent) \in BOOLEAN
  OBVIOUS
<1> HIDE DEF n
<1>4. w \in StreamRecords
  BY <1>1, <1>3, WriteTypes
<1>5. /\ w.track = "audio"
      /\ w.objects = IF pass THEN Append(n.objects, [delta |-> Len(n.passed) - n.prev - 1,
                                                     ts |-> ts, config |-> ~configSent])
                     ELSE n.objects
  BY <1>1, <1>3, WriteKeeps, ZenonT(30)
<1>6. ~pass => w.objects = <<>>
  BY <1>2, <1>5
<1>7. pass => Len(w.objects) = 1 /\ w.objects[1].config = ~configSent
  <2> DEFINE o == [delta |-> Len(n.passed) - n.prev - 1, ts |-> ts, config |-> ~configSent]
  <2>1. pass => w.objects = Append(<<>>, o)
    BY <1>2, <1>5
  <2>2. o.config = ~configSent
    OBVIOUS
  <2> HIDE DEF o, w
  <2>3. Len(Append(<<>>, o)) = 1 /\ Append(<<>>, o)[1] = o
    OBVIOUS
  <2>4. pass => w.objects[1] = o /\ Len(w.objects) = 1
    BY <2>1, <2>3
  <2> QED BY <2>2, <2>4
<1>8. AudioStream(pass, ts) = Close(w)
  BY DEF AudioStream, n
<1> HIDE DEF w
<1> QED BY <1>4, <1>5, <1>6, <1>7, <1>8, CloseTypes, CloseKeeps

LEMMA Appended ==
  ASSUME NEW S, NEW s \in Seq(S), NEW x \in S
  PROVE  /\ Append(s, x) \in Seq(S) /\ Len(Append(s, x)) = Len(s) + 1
         /\ \A i \in 1..Len(s) : Append(s, x)[i] = s[i]
         /\ Append(s, x)[Len(s) + 1] = x
OBVIOUS

LEMMA Replaced ==
  ASSUME NEW S, NEW s \in Seq(S), NEW n \in 1..Len(s), NEW x \in S
  PROVE  /\ Len([s EXCEPT ![n] = x]) = Len(s)
         /\ \A i \in 1..Len(s) : i # n => [s EXCEPT ![n] = x][i] = s[i]
         /\ [s EXCEPT ![n] = x][n] = x
OBVIOUS

LEMMA TailIs ==
  ASSUME NEW S, NEW s \in Seq(S), s # <<>>
  PROVE  /\ Len(Tail(s)) = Len(s) - 1
         /\ \A i \in 1..Len(Tail(s)) : Tail(s)[i] = s[i + 1]
OBVIOUS

\* An audio packet adds one stream.
LEMMA AudioAdds ==
  ASSUME TypeOK, SendAudio
  PROVE  \E pass \in BOOLEAN :
           /\ streams' = Append(streams, AudioStream(pass, audioLast'))
           /\ configSent' = (configSent \/ pass)
           /\ AudioStream(pass, audioLast') \in StreamRecords
           /\ AudioStream(pass, audioLast').end # "open"
           /\ audioLast' \in Int
<1>1. audioLast' \in Int
  <2>1. audioLast \in Nat \cup {None} /\ PacketLen \in Nat
    BY PublisherAssumption DEF TypeOK, PublisherTypeOK
  <2>2. audioLast' = Advance(audioLast, PacketLen)
    BY DEF SendAudio
  <2> QED BY <2>1, <2>2 DEF Advance, None
<1>2. PICK pass \in BOOLEAN :
        /\ streams' = Append(streams, AudioStream(pass, audioLast'))
        /\ configSent' = (configSent \/ pass)
  BY DEF SendAudio, AudioStream
<1> QED BY <1>1, <1>2, AudioStreamIs

\* The catalog adds one stream, which is over unless the filter dropped the catalog.
LEMMA CatalogAdds ==
  ASSUME TypeOK, PublishCatalog
  PROVE  \E s \in StreamRecords :
           /\ streams' = Append(streams, s)
           /\ s.track = "catalog"
           /\ pc' = "failed" \/ (s.end = "fin" /\ ready')
<1> DEFINE n == NewStream("catalog")
           x == Write(n, FALSE, None, FALSE)
           y == Write(n, TRUE, None, FALSE)
<1>1. n \in StreamRecords /\ n.track = "catalog" /\ None \in Int
  BY NewStreamTypes DEF Tracks, None
<1>2. Close(y).end = "fin"
  BY DEF Close, Write, NewStream, None
<1>3. \/ streams' = Append(streams, Close(y)) /\ ready' = TRUE
      \/ streams' = Append(streams, x) /\ pc' = "failed"
  BY DEF PublishCatalog
<1> HIDE DEF n
<1>4. x \in StreamRecords /\ x.track = "catalog" /\ y \in StreamRecords /\ y.track = "catalog"
  BY <1>1, WriteTypes, WriteKeeps
<1>5. Close(y) \in StreamRecords /\ Close(y).track = "catalog"
  BY <1>4, CloseTypes
<1> QED BY <1>2, <1>3, <1>4, <1>5

\* A video frame may close the stream under way and open another, and is written to
\* the one that is under way then.
LEMMA VideoAdds ==
  ASSUME TypeOK, WriterInv, SendVideo
  PROVE  /\ Len(streams') \in {Len(streams), Len(streams) + 1}
         /\ \A i \in Indices :
              /\ streams'[i].track = streams[i].track
              /\ i # writer => streams'[i] = streams[i]
              /\ i # writer' => streams'[i].objects = streams[i].objects
         /\ Len(streams') = Len(streams) + 1 => writer' = Len(streams')
         /\ Len(streams') = Len(streams) => writer' = writer
         /\ writer' # 0 => streams'[writer'].track = "video"
         /\ writer # 0 /\ writer' # writer => streams'[writer].end \in {"fin", "reset"}
         /\ writer' # 0 =>
              \E pass \in BOOLEAN, d \in Int :
                LET before == IF writer' = writer THEN streams[writer].objects ELSE <<>>
                IN streams'[writer'].objects =
                     IF pass
                     THEN Append(before, [delta |-> d, ts |-> Head(todo).ts,
                                          config |-> Head(todo).key])
                     ELSE before
<1> DEFINE o == Head(todo)
           finished == IF writer = 0 THEN streams ELSE [streams EXCEPT ![writer] = Close(@)]
           opened == Regroup(o.key)
           w == IF o.key THEN Len(opened) ELSE writer
<1>1. /\ streams \in Seq(StreamRecords) /\ writer \in 0..Len(streams) /\ Len(streams) \in Nat
      /\ o.key \in BOOLEAN /\ o.ts \in Int
  <2>1. o \in Outputs
    BY DEF SendVideo, TypeOK, PublisherTypeOK
  <2>2. streams \in Seq(StreamRecords) /\ writer \in 0..Len(streams)
    BY DEF TypeOK, PublisherTypeOK
  <2> QED BY <2>1, <2>2 DEF Outputs
<1>2. PICK pass \in BOOLEAN :
        streams' = IF w = 0 THEN opened
                   ELSE [opened EXCEPT ![w] = Write(@, pass, o.ts, o.key)]
  BY DEF SendVideo
<1>3. writer' = w
  BY DEF SendVideo
<1>4. /\ finished \in Seq(StreamRecords) /\ Len(finished) = Len(streams)
      /\ \A i \in Indices : i # writer => finished[i] = streams[i]
      /\ writer # 0 => finished[writer] = Close(streams[writer])
  <2>1. CASE writer = 0
    BY <1>1, <2>1 DEF Indices
  <2>2. CASE writer # 0
    <3>1. Close(streams[writer]) \in StreamRecords
      BY <1>1, <2>2, CloseTypes
    <3> QED BY <1>1, <2>2, <3>1 DEF Indices
  <2> QED BY <2>1, <2>2
<1>5. \A i \in Indices : streams[i] \in StreamRecords
  BY <1>1 DEF Indices
<1>6. writer # 0 => writer \in Indices
  BY <1>1 DEF Indices
<1>7. opened = IF o.key THEN Append(finished, NewStream("video")) ELSE streams
  BY DEF Regroup
<1>8. /\ NewStream("video") \in StreamRecords /\ NewStream("video").track = "video"
      /\ NewStream("video").objects = <<>>
  <2>1. NewStream("video") \in StreamRecords /\ NewStream("video").track = "video"
    BY NewStreamTypes DEF Tracks
  <2>2. NewStream("video").objects = <<>>
    BY DEF NewStream
  <2> QED BY <2>1, <2>2
<1>9. writer # 0 => /\ Close(streams[writer]).track = streams[writer].track
                    /\ Close(streams[writer]).objects = streams[writer].objects
                    /\ Close(streams[writer]).end \in {"fin", "reset"}
  BY <1>5, <1>6, CloseKeeps
<1> HIDE DEF finished, o
<1>10. CASE o.key
  <2> DEFINE new == NewStream("video")
             n == Len(streams) + 1
             longer == Append(finished, new)
             x == Write(new, pass, o.ts, o.key)
  <2>1. opened = longer
    BY <1>7, <1>10
  <2>2. new \in StreamRecords /\ new.track = "video" /\ new.objects = <<>>
    BY <1>8
  <2> HIDE DEF new
  <2>3. /\ longer \in Seq(StreamRecords) /\ Len(longer) = n
        /\ \A i \in Indices : longer[i] = finished[i]
        /\ longer[n] = new
    BY <1>4, <2>2, Appended DEF Indices
  <2>4. x \in StreamRecords
    BY <1>1, <2>2, WriteTypes
  <2>5. /\ x.track = "video"
        /\ x.objects = IF pass THEN Append(<<>>, [delta |-> Len(new.passed) - new.prev - 1,
                                                 ts |-> o.ts, config |-> o.key])
                       ELSE <<>>
    <3>1. /\ x.track = new.track
          /\ x.objects = IF pass THEN Append(new.objects, [delta |-> Len(new.passed) - new.prev - 1,
                                                          ts |-> o.ts, config |-> o.key])
                         ELSE new.objects
      BY <1>1, <2>2, WriteKeeps
    <3> HIDE DEF x
    <3> QED BY <2>2, <3>1
  <2>6. Len(new.passed) - new.prev - 1 \in Int
    BY <2>2 DEF StreamRecords
  <2> HIDE DEF longer
  <2>7. w = n /\ n # 0 /\ n \in 1..Len(longer) /\ n # writer /\ n \notin Indices
    <3>1. w = Len(longer)
      BY <1>10, <2>1
    <3> HIDE DEF w
    <3> QED BY <1>1, <2>3, <3>1 DEF Indices
  <2>8. streams' = [longer EXCEPT ![n] = x]
    BY <1>2, <2>1, <2>3, <2>7
  <2> HIDE DEF x
  <2>9. /\ Len(streams') = n
        /\ \A i \in Indices : streams'[i] = finished[i]
        /\ streams'[n] = x
    <3>1. /\ Len([longer EXCEPT ![n] = x]) = n
          /\ \A i \in 1..n : i # n => [longer EXCEPT ![n] = x][i] = longer[i]
          /\ [longer EXCEPT ![n] = x][n] = x
      BY <2>3, <2>4, <2>7, Replaced
    <3>2. \A i \in Indices : i \in 1..n /\ i # n
      BY <1>1 DEF Indices
    <3> HIDE DEF n
    <3> QED BY <2>3, <2>8, <3>1, <3>2
  <2>10. writer' = n
    BY <1>3, <2>7
  <2>11. Len(streams') # Len(streams) /\ n = Len(streams) + 1
    BY <1>1, <2>9
  <2> HIDE DEF n
  <2>12. \A i \in Indices : /\ streams'[i].track = streams[i].track
                            /\ i # writer => streams'[i] = streams[i]
                            /\ streams'[i].objects = streams[i].objects
    <3> TAKE i \in Indices
    <3>1. CASE i = writer
      <4>1. streams'[i] = Close(streams[i]) /\ writer # 0
        BY <1>1, <1>4, <2>9, <3>1 DEF Indices
      <4> QED BY <1>9, <3>1, <4>1
    <3>2. CASE i # writer
      BY <1>4, <2>9, <3>2
    <3> QED BY <3>1, <3>2
  <2>13. writer # 0 => streams'[writer].end \in {"fin", "reset"}
    BY <1>4, <1>6, <1>9, <2>9
  <2>14. writer' # writer /\ streams'[writer'].track = "video"
    BY <2>5, <2>7, <2>9, <2>10
  <2>15. \E p \in BOOLEAN, d \in Int :
           streams'[writer'].objects =
             IF p THEN Append(<<>>, [delta |-> d, ts |-> Head(todo).ts, config |-> Head(todo).key])
             ELSE <<>>
    BY <2>5, <2>6, <2>9, <2>10 DEF o
  <2> QED BY <2>9, <2>10, <2>11, <2>12, <2>13, <2>14, <2>15
<1>11. CASE ~o.key
  <2>1. opened = streams /\ w = writer
    BY <1>7, <1>11
  <2>2. CASE writer = 0
    <3>1. streams' = streams /\ writer' = writer
      BY <1>2, <1>3, <2>1, <2>2
    <3> QED BY <1>1, <2>2, <3>1
  <2>3. CASE writer # 0
    <3> DEFINE r == streams[writer]
    <3>1. streams' = [streams EXCEPT ![writer] = Write(@, pass, o.ts, o.key)] /\ writer' = writer
      BY <1>2, <1>3, <2>1, <2>3
    <3>2. r \in StreamRecords
      BY <1>5, <1>6, <2>3
    <3>3. /\ Len(streams') = Len(streams)
          /\ \A i \in Indices : i # writer => streams'[i] = streams[i]
          /\ streams'[writer] = Write(r, pass, o.ts, o.key)
      BY <1>1, <2>3, <3>1 DEF Indices
    <3>4. /\ Write(r, pass, o.ts, o.key).track = r.track
          /\ Write(r, pass, o.ts, o.key).objects =
               IF pass THEN Append(r.objects, [delta |-> Len(r.passed) - r.prev - 1,
                                               ts |-> o.ts, config |-> o.key])
               ELSE r.objects
      BY <1>1, <3>2, WriteKeeps
    <3>5. Len(r.passed) - r.prev - 1 \in Int
      BY <3>2 DEF StreamRecords
    <3>6. \E p \in BOOLEAN, d \in Int :
            streams'[writer'].objects =
              IF p THEN Append(r.objects, [delta |-> d, ts |-> Head(todo).ts,
                                           config |-> Head(todo).key])
              ELSE r.objects
      BY <3>1, <3>3, <3>4, <3>5 DEF o
    <3>7. r.track = "video"
      BY <2>3 DEF WriterInv
    <3>8. \A i \in Indices : streams'[i].track = streams[i].track
      <4> TAKE i \in Indices
      <4>1. CASE i = writer
        BY <3>3, <3>4, <4>1
      <4> QED BY <3>3, <4>1
    <3>9. streams'[writer'].track = "video"
      BY <3>1, <3>3, <3>4, <3>7
    <3>10. \A i \in Indices : i # writer => streams'[i].objects = streams[i].objects
      BY <3>3
    <3>11. Len(streams') # Len(streams) + 1
      BY <1>1, <3>3
    <3> HIDE DEF w, opened, r
    <3> QED BY <3>1, <3>3, <3>6, <3>8, <3>9, <3>10, <3>11 DEF r
  <2> QED BY <2>2, <2>3
<1> QED BY <1>10, <1>11
\* The types most steps below need, before and after a step.
LEMMA SeqTypes ==
  ASSUME TypeOK
  PROVE  /\ streams \in Seq(StreamRecords) /\ writer \in 0..Len(streams) /\ Len(streams) \in Nat
         /\ left \in Seq(Tracks \cup {"writer", "goaway", "close"}) /\ Len(left) \in Nat
         /\ done \in [Tracks -> Nat \cup {None}]
<1>1. /\ streams \in Seq(StreamRecords) /\ writer \in 0..Len(streams)
      /\ left \in Seq(Tracks \cup {"writer", "goaway", "close"})
      /\ done \in [Tracks -> Nat \cup {None}]
  BY DEF TypeOK, PublisherTypeOK
<1> QED BY <1>1

LEMMA SeqTypesAfter ==
  ASSUME TypeOK'
  PROVE  /\ streams' \in Seq(StreamRecords) /\ writer' \in 0..Len(streams')
         /\ Len(streams') \in Nat
         /\ left' \in Seq(Tracks \cup {"writer", "goaway", "close"})
         /\ pc' = "finish" => left' # <<>>
<1>1. /\ streams' \in Seq(StreamRecords) /\ writer' \in 0..Len(streams')
      /\ left' \in Seq(Tracks \cup {"writer", "goaway", "close"})
      /\ pc' = "finish" => left' # <<>>
  BY DEF TypeOK, PublisherTypeOK
<1> QED BY <1>1

\* The steps that do not touch the streams, nor the end of the program.
Plain ==
  /\ UNCHANGED <<streams, writer, done, configSent, left>>
  /\ pc' = "finish" <=> pc = "finish"
  /\ pc' = "ended" <=> pc = "ended"
  /\ pc = "failed" => pc' = "failed"

LEMMA Steps ==
  ASSUME TypeOK, [Next]_vars
  PROVE  SendVideo \/ SendAudio \/ PublishCatalog \/ Stop \/ Finish \/ Plain
<1> USE DEF Plain, media, audio, video
<1>1. CASE Peer \/ CaptureVideo \/ CaptureAudio
  BY <1>1 DEF Peer, CaptureVideo, CaptureAudio, Environment
<1>2. CASE TakeVideo
  <2>1. UNCHANGED <<streams, writer, done, configSent, left>> /\ pc = "idle"
    BY <1>2 DEF TakeVideo
  <2>2. pc' \in {"idle", "send", "await"}
    BY <1>2 DEF TakeVideo, PublishTrack
  <2> QED BY <2>1, <2>2
<1>3. CASE TakeAudio
  <2>1. UNCHANGED <<streams, writer, done, configSent, left>> /\ pc = "idle"
    BY <1>3 DEF TakeAudio
  <2>2. pc' \in {"idle", "packets"}
    BY <1>3 DEF TakeAudio
  <2> QED BY <2>1, <2>2
<1>4. CASE TakeMessage \/ ServeUpdate \/ RunTimer \/ Wait
  BY <1>4 DEF TakeMessage, ServeUpdate, RunTimer, Wait
<1>5. CASE ServeRequest \/ SetUp \/ Established \/ SendFetched
  BY <1>5 DEF ServeRequest, SetUp, PublishTrack, Established, SendFetched
<1>6. CASE Break
  <2>1. pc \notin {"finish", "ended"}
    BY <1>6 DEF Break, Refused
  <2> QED BY <1>6, <2>1 DEF Break
<1>7. CASE Fail
  BY <1>7 DEF Fail, Over
<1>8. CASE UNCHANGED vars
  BY <1>8 DEF vars
<1> QED BY <1>1, <1>2, <1>3, <1>4, <1>5, <1>6, <1>7, <1>8 DEF Next, NextEvent, Handler

LEMMA FinishSteps ==
  ASSUME TypeOK, Finish
  PROVE  /\ left' = Tail(left) /\ pc = "finish" /\ pc' \in {"finish", "ended"}
         /\ pc' = "ended" => Len(left) = 1
         /\ UNCHANGED configSent
         /\ \/ /\ writer # 0 /\ writer' = 0 /\ Head(left) = "writer" /\ UNCHANGED done
               /\ Len(streams') = Len(streams)
               /\ \A i \in Indices : /\ streams'[i].track = streams[i].track
                                     /\ streams'[i].objects = streams[i].objects
                                     /\ i # writer => streams'[i] = streams[i]
               /\ streams'[writer].end # "open"
            \/ /\ Head(left) # "writer" /\ UNCHANGED <<writer, streams>>
               /\ \/ UNCHANGED done
                  \/ \E t \in Tracks : done' = [done EXCEPT ![t] = Count(t)]
<1>1. /\ left' = Tail(left) /\ pc = "finish" /\ pc' \in {"finish", "ended"}
      /\ pc' = "ended" => Len(left) = 1
      /\ UNCHANGED configSent
  BY DEF Finish, audio
<1>2. "writer" \notin Tracks
  BY DEF Tracks
<1>3. CASE /\ Head(left) = "writer" /\ writer # 0
           /\ \E s \in {Close(streams[writer]), [streams[writer] EXCEPT !.end = "failed"]} :
                streams' = [streams EXCEPT ![writer] = s]
           /\ writer' = 0
           /\ UNCHANGED done
  <2>1. /\ streams \in Seq(StreamRecords) /\ writer \in 1..Len(streams)
        /\ streams[writer] \in StreamRecords
    BY <1>3 DEF TypeOK, PublisherTypeOK
  <2>2. PICK s \in {Close(streams[writer]), [streams[writer] EXCEPT !.end = "failed"]} :
          streams' = [streams EXCEPT ![writer] = s]
    BY <1>3
  <2>3. /\ s \in StreamRecords /\ s.end # "open"
        /\ s.track = streams[writer].track /\ s.objects = streams[writer].objects
    <3>1. CASE s = Close(streams[writer])
      BY <2>1, <3>1, CloseTypes, CloseKeeps
    <3>2. CASE s = [streams[writer] EXCEPT !.end = "failed"]
      BY <2>1, <3>2 DEF StreamRecords
    <3> QED BY <2>2, <3>1, <3>2
  <2>4. /\ Len(streams') = Len(streams)
        /\ \A i \in Indices : i # writer => streams'[i] = streams[i]
        /\ streams'[writer] = s
    BY <2>1, <2>2, <2>3, Replaced DEF Indices
  <2>5. \A i \in Indices : /\ streams'[i].track = streams[i].track
                           /\ streams'[i].objects = streams[i].objects
    BY <2>3, <2>4
  <2> QED BY <1>1, <1>3, <2>3, <2>4, <2>5
<1>4. CASE /\ Head(left) # "writer" /\ UNCHANGED <<writer, streams>>
           /\ UNCHANGED done \/ \E t \in Tracks : done' = [done EXCEPT ![t] = Count(t)]
  BY <1>1, <1>4
<1> QED BY <1>2, <1>3, <1>4 DEF Finish

--------------------------------------------------------------------------------
(* DoneAfterStreams.  It is not inductive: that the streams are over when  *)
(* PUBLISH_DONE is sent rests on what finish does first, which rests on    *)
(* there being no other stream under way (ClosedInv).                      *)

Unfinished == \A t \in Tracks : done[t] = None

EndInv ==
  /\ WriterInv /\ ClosedInv /\ DoneAfterStreams
  /\ pc \notin {"finish", "ended"} \/ writer # 0 => Unfinished
  /\ pc = "finish" => (writer # 0 <=> left[1] = "writer")
  /\ \A i \in 2..Len(left) : left[i] # "writer"
  /\ pc = "ended" => writer = 0

LEMMA EndInit == Init => EndInv
<1> SUFFICES ASSUME Init PROVE EndInv
  OBVIOUS
<1>1. /\ pc = "setup" /\ writer = 0 /\ streams = <<>> /\ left = <<>>
      /\ done = [t \in Tracks |-> None]
  BY DEF Init
<1> QED BY <1>1 DEF EndInv, WriterInv, ClosedInv, DoneAfterStreams, Unfinished, Indices

LEMMA EndNext == TypeOK /\ EndInv /\ [Next]_vars => EndInv'
<1> SUFFICES ASSUME TypeOK, EndInv, [Next]_vars PROVE EndInv'
  OBVIOUS
<1>0. TypeOK'
  BY TypeNext
<1>1. /\ streams \in Seq(StreamRecords) /\ writer \in 0..Len(streams) /\ Len(streams) \in Nat
      /\ streams' \in Seq(StreamRecords) /\ writer' \in 0..Len(streams') /\ Len(streams') \in Nat
      /\ left \in Seq(Tracks \cup {"writer", "goaway", "close"}) /\ Len(left) \in Nat
      /\ done \in [Tracks -> Nat \cup {None}]
  BY <1>0, SeqTypes, SeqTypesAfter
<1>2. ASSUME Unfinished', left' = left, pc' \notin {"finish", "ended"}, WriterInv', ClosedInv'
      PROVE  EndInv'
  <2>1. DoneAfterStreams'
    BY <1>2 DEF Unfinished, DoneAfterStreams
  <2> QED BY <1>2, <2>1 DEF EndInv
<1>3. CASE SendVideo
  <2>1. pc = "send" /\ pc' \in {"idle", "send"} /\ UNCHANGED <<left, done>>
    BY <1>3 DEF SendVideo
  <2>2. Unfinished'
    BY <2>1 DEF EndInv, Unfinished
  <2>3. WriterInv'
    BY <1>3, VideoAdds DEF EndInv, WriterInv
  <2>4. ClosedInv'
    <3> SUFFICES ASSUME NEW i \in Indices', i # writer' PROVE streams'[i].end # "open"
      BY DEF ClosedInv
    <3>1. CASE i \in Indices /\ i # writer
      BY <1>3, <2>1, <3>1, VideoAdds DEF EndInv, ClosedInv
    <3>2. CASE i = writer
      BY <1>1, <1>3, <3>2, VideoAdds DEF EndInv, Indices
    <3>3. CASE i \notin Indices
      BY <1>1, <1>3, <3>3, VideoAdds DEF EndInv, Indices
    <3> QED BY <3>1, <3>2, <3>3
  <2> QED BY <1>2, <2>1, <2>2, <2>3, <2>4
<1>4. CASE SendAudio \/ PublishCatalog
  <2>1. /\ pc \in {"packets", "await"} /\ pc' \in {"idle", "packets", "send", "failed"}
        /\ UNCHANGED <<left, done, writer>>
    BY <1>4 DEF SendAudio, PublishCatalog
  <2>2. Unfinished'
    BY <2>1 DEF EndInv, Unfinished
  <2>3. PICK s \in StreamRecords :
          streams' = Append(streams, s) /\ (pc' = "failed" \/ s.end # "open")
    <3>1. CASE SendAudio
      BY <3>1, AudioAdds
    <3>2. CASE PublishCatalog
      BY <3>2, CatalogAdds
    <3> QED BY <1>4, <3>1, <3>2
  <2>4. /\ Len(streams') = Len(streams) + 1 /\ streams'[Len(streams) + 1] = s
        /\ \A i \in Indices : streams'[i] = streams[i]
    BY <1>1, <2>3, Appended DEF Indices
  <2>5. WriterInv'
    <3>1. writer # 0 => writer \in Indices
      BY <1>1 DEF Indices
    <3> QED BY <2>1, <2>4, <3>1 DEF EndInv, WriterInv
  <2>6. ClosedInv'
    <3> SUFFICES ASSUME pc' # "failed", NEW i \in Indices', i # writer'
                 PROVE  streams'[i].end # "open"
      BY DEF ClosedInv
    <3>1. i \in Indices \/ i = Len(streams) + 1
      BY <1>1, <2>4 DEF Indices
    <3> QED BY <2>1, <2>3, <2>4, <3>1 DEF EndInv, ClosedInv
  <2> QED BY <1>2, <2>1, <2>2, <2>5, <2>6
<1>5. CASE Stop
  <2>1. pc = "idle" /\ pc' = "finish" /\ UNCHANGED <<done, streams, writer>>
    BY <1>5 DEF Stop, media
  <2>2. Unfinished'
    BY <2>1 DEF EndInv, Unfinished
  <2>3. WriterInv' /\ ClosedInv' /\ DoneAfterStreams'
    BY <2>1, <2>2 DEF EndInv, WriterInv, ClosedInv, DoneAfterStreams, Unfinished, Indices
  <2> DEFINE first == IF writer = 0 THEN <<>> ELSE <<"writer">>
             rest == (IF ready THEN <<"catalog">> ELSE <<>>)
                       \o (IF "video" \in sources THEN <<"video">> ELSE <<>>)
                       \o (IF "audio" \in sources THEN <<"audio">> ELSE <<>>)
                       \o <<"goaway", "close">>
  <2>4. left' = first \o rest
    BY <1>5 DEF Stop
  <2>5. rest \in Seq({"catalog", "video", "audio", "goaway", "close"}) /\ rest # <<>>
    OBVIOUS
  <2> HIDE DEF rest
  <2>6. \A i \in 1..Len(rest) : rest[i] # "writer"
    BY <2>5
  <2>7. Len(rest) \in Nat \ {0}
    BY <2>5
  <2>8. CASE writer = 0
    <3>1. left' = rest
      BY <2>4, <2>5, <2>8
    <3> QED BY <2>1, <2>2, <2>3, <2>6, <2>7, <2>8, <3>1 DEF EndInv
  <2>9. CASE writer # 0
    <3>1. left' = <<"writer">> \o rest
      BY <2>4, <2>9
    <3>2. /\ Len(left') = 1 + Len(rest) /\ left'[1] = "writer"
          /\ \A i \in 2..Len(left') : left'[i] = rest[i - 1]
      BY <2>5, <3>1
    <3>3. \A i \in 2..Len(left') : left'[i] # "writer"
      BY <2>6, <2>7, <3>2
    <3> QED BY <2>1, <2>2, <2>3, <2>9, <3>2, <3>3 DEF EndInv
  <2> QED BY <2>8, <2>9
<1>6. CASE Finish
  <2>1. left # <<>>
    BY <1>6 DEF Finish, TypeOK, PublisherTypeOK
  <2>2. /\ left' = Tail(left) /\ pc = "finish" /\ pc' \in {"finish", "ended"}
        /\ pc' = "ended" => Len(left) = 1
    BY <1>6, FinishSteps
  <2>3. Head(left) = left[1]
    BY <1>1, <2>1
  <2>4. /\ \A i \in 2..Len(left') : left'[i] # "writer"
        /\ pc' = "finish" => left'[1] # "writer"
    <3>1. Len(left') = Len(left) - 1 /\ \A i \in 1..Len(left') : left'[i] = left[i + 1]
      <4>1. left \in Seq(Tracks \cup {"writer", "goaway", "close"})
        BY SeqTypes
      <4>2. /\ Len(Tail(left)) = Len(left) - 1
            /\ \A i \in 1..Len(Tail(left)) : Tail(left)[i] = left[i + 1]
        BY <2>1, <4>1, TailIs
      <4> QED BY <2>2, <4>2
    <3>2. \A i \in 1..Len(left') : left'[i] # "writer"
      <4>1. \A i \in 2..Len(left) : left[i] # "writer"
        BY DEF EndInv
      <4>2. Len(left) \in Nat
        BY SeqTypes
      <4>3. \A i \in 1..Len(left') : i + 1 \in 2..Len(left)
        BY <3>1, <4>2
      <4> QED BY <3>1, <4>1, <4>3
    <3>3. pc' = "finish" => Len(left') \in Nat \ {0}
      <4>1. pc' = "finish" => left' # <<>>
        BY <1>0, SeqTypesAfter
      <4>2. left' \in Seq(Tracks \cup {"writer", "goaway", "close"})
        BY <1>0, SeqTypesAfter
      <4> QED BY <4>1, <4>2
    <3> QED BY <3>2, <3>3
  <2>5. writer' = 0
    BY <1>6, <2>2, <2>3, FinishSteps DEF EndInv
  <2>6. WriterInv'
    BY <2>5 DEF WriterInv
  <2>7. /\ Len(streams') = Len(streams)
        /\ \A i \in Indices : /\ streams'[i].track = streams[i].track
                              /\ streams'[i].end # "open"
    <3>1. \A i \in Indices : i # writer => streams[i].end # "open"
      BY <2>2 DEF EndInv, ClosedInv
    <3>2. CASE writer = 0
      BY <1>6, <3>1, <3>2, FinishSteps DEF Indices
    <3>3. CASE writer # 0
      BY <1>6, <2>2, <2>3, <3>1, <3>3, FinishSteps DEF EndInv
    <3> QED BY <3>2, <3>3
  <2>8. ClosedInv'
    BY <2>7 DEF ClosedInv, Indices
  <2>9. DoneAfterStreams'
    <3>1. CASE Head(left) = "writer"
      <4>1. UNCHANGED done /\ writer # 0
        BY <1>6, <3>1, FinishSteps
      <4> QED BY <4>1 DEF EndInv, Unfinished, DoneAfterStreams
    <3>2. CASE Head(left) # "writer"
      <4>1. UNCHANGED streams
        BY <1>6, <3>2, FinishSteps
      <4>2. \A t \in Tracks : done'[t] \in {done[t], Count(t)}
        BY <1>1, <1>6, <3>2, FinishSteps
      <4>3. \A t \in Tracks : Count(t)' = Count(t)
        BY <4>1 DEF Count
      <4> SUFFICES ASSUME NEW t \in Tracks, done'[t] # None
                   PROVE  /\ done'[t] = Count(t)'
                          /\ \A i \in Indices' : streams'[i].track = t => streams'[i].end # "open"
        BY DEF DoneAfterStreams
      <4>4. done'[t] = Count(t)
        BY <4>2 DEF EndInv, DoneAfterStreams
      <4> QED BY <2>7, <4>1, <4>3, <4>4 DEF Indices
    <3> QED BY <3>1, <3>2
  <2>10. (writer' # 0) = FALSE
    BY <2>5
  <2> QED BY <2>2, <2>4, <2>5, <2>6, <2>8, <2>9 DEF EndInv
<1>7. CASE Plain
  <2>1. DoneAfterStreams'
    BY <1>7 DEF Plain, EndInv, DoneAfterStreams, Count, Indices
  <2>2. WriterInv' /\ ClosedInv'
    BY <1>7 DEF Plain, EndInv, WriterInv, ClosedInv, Indices
  <2> QED BY <1>7, <2>1, <2>2 DEF Plain, EndInv, Unfinished
<1> QED BY <1>3, <1>4, <1>5, <1>6, <1>7, Steps

\* A PUBLISH_DONE is sent only when every stream of its track is over, and its count is
\* theirs: for any number of groups, any filter, any stream that fails to finish.
THEOREM DoneComesLast == Spec => []DoneAfterStreams
<1>1. Spec => []EndInv
  BY TypeCorrect, EndInit, EndNext, PTL DEF Spec
<1>2. EndInv => DoneAfterStreams
  BY DEF EndInv
<1> QED BY <1>1, <1>2, PTL

--------------------------------------------------------------------------------
(* AudioConfigFirst: configSent tells whether an object of audio was sent, *)
(* and no step but SendAudio touches the audio.                            *)

SentAudio == {i \in Indices : streams[i].track = "audio" /\ streams[i].objects # <<>>}

ConfigInv == WriterInv /\ AudioConfigFirst /\ (configSent <=> SentAudio # {})

LEMMA ConfigInit == Init => ConfigInv
<1> SUFFICES ASSUME Init PROVE ConfigInv
  OBVIOUS
<1>1. writer = 0 /\ streams = <<>> /\ configSent = FALSE
  BY DEF Init
<1> QED BY <1>1 DEF ConfigInv, WriterInv, AudioConfigFirst, SentAudio, Indices

\* Streams that keep their audio keep the property.
LEMMA AudioKept ==
  ASSUME ConfigInv, WriterInv', configSent' = configSent, SentAudio' = SentAudio,
         \A i \in SentAudio : streams'[i].objects = streams[i].objects
  PROVE  ConfigInv'
BY DEF ConfigInv, AudioConfigFirst, SentAudio

LEMMA ConfigNext == TypeOK /\ ConfigInv /\ [Next]_vars => ConfigInv'
<1> SUFFICES ASSUME TypeOK, ConfigInv, [Next]_vars PROVE ConfigInv'
  OBVIOUS
<1>0. TypeOK'
  BY TypeNext
<1>1. /\ streams \in Seq(StreamRecords) /\ writer \in 0..Len(streams) /\ Len(streams) \in Nat
      /\ streams' \in Seq(StreamRecords) /\ writer' \in 0..Len(streams') /\ Len(streams') \in Nat
  BY <1>0, SeqTypes, SeqTypesAfter
<1>2. WriterInv
  BY DEF ConfigInv
<1>3. writer # 0 => writer \in Indices
  BY <1>1 DEF Indices
<1>4. CASE SendVideo
  <2>1. configSent' = configSent
    BY <1>4 DEF SendVideo, audio
  <2>2. WriterInv'
    BY <1>2, <1>4, VideoAdds DEF WriterInv
  <2>3. \A i \in Indices : /\ i \in Indices' /\ streams'[i].track = streams[i].track
                           /\ i # writer' => streams'[i].objects = streams[i].objects
    BY <1>1, <1>2, <1>4, VideoAdds DEF Indices
  <2>4. \A i \in Indices' : i \in Indices \/ i = writer'
    BY <1>1, <1>2, <1>4, VideoAdds DEF Indices
  <2>5. \A i \in Indices' : streams'[i].track = "audio" => i # writer'
    BY <1>1, <2>2 DEF WriterInv, Indices
  <2>6. SentAudio' = SentAudio
    BY <2>3, <2>4, <2>5 DEF SentAudio
  <2>7. \A i \in SentAudio : streams'[i].objects = streams[i].objects
    BY <2>3, <2>5 DEF SentAudio
  <2> QED BY <2>1, <2>2, <2>6, <2>7, AudioKept
<1>5. CASE SendAudio \/ PublishCatalog
  <2>1. UNCHANGED writer
    BY <1>5 DEF SendAudio, PublishCatalog
  <2> DEFINE n == Len(streams) + 1
  <2>2. ASSUME NEW s \in StreamRecords, streams' = Append(streams, s)
        PROVE  /\ Indices' = Indices \cup {n} /\ n \notin Indices /\ streams'[n] = s
               /\ \A i \in Indices : streams'[i] = streams[i] /\ i < n
               /\ WriterInv'
    <3>1. /\ Len(streams') = n /\ streams'[n] = s
          /\ \A i \in Indices : streams'[i] = streams[i]
      BY <1>1, <2>2, Appended DEF Indices
    <3>2. Indices' = Indices \cup {n} /\ n \notin Indices /\ \A i \in Indices : i < n
      BY <1>1, <3>1 DEF Indices
    <3>3. WriterInv'
      BY <1>2, <1>3, <2>1, <3>1 DEF WriterInv
    <3> QED BY <3>1, <3>2, <3>3
  <2>3. CASE PublishCatalog
    <3>1. PICK s \in StreamRecords : streams' = Append(streams, s) /\ s.track = "catalog"
      BY <2>3, CatalogAdds
    <3>2. configSent' = configSent
      BY <2>3 DEF PublishCatalog, audio
    <3> HIDE DEF n
    <3>3. SentAudio' = SentAudio
      BY <2>2, <3>1 DEF SentAudio
    <3>4. \A i \in SentAudio : streams'[i].objects = streams[i].objects
      BY <2>2, <3>1 DEF SentAudio
    <3> QED BY <2>2, <3>1, <3>2, <3>3, <3>4, AudioKept
  <2>4. CASE SendAudio
    <3>1. PICK pass \in BOOLEAN :
            /\ streams' = Append(streams, AudioStream(pass, audioLast'))
            /\ configSent' = (configSent \/ pass)
            /\ AudioStream(pass, audioLast') \in StreamRecords
      BY <2>4, AudioAdds
    <3>2. audioLast' \in Int
      BY <2>4, AudioAdds
    <3> DEFINE s == AudioStream(pass, audioLast')
    <3>3. /\ s.track = "audio"
          /\ ~pass => s.objects = <<>>
          /\ pass => s.objects # <<>> /\ s.objects[1].config = ~configSent
      BY <3>2, AudioStreamIs
    <3> HIDE DEF n, s
    <3>4. /\ Indices' = Indices \cup {n} /\ n \notin Indices /\ streams'[n] = s
          /\ \A i \in Indices : streams'[i] = streams[i] /\ i < n
          /\ WriterInv'
      BY <2>2, <3>1 DEF s
    <3>5. CASE ~pass
      <4>1. SentAudio' = SentAudio
        BY <3>3, <3>4, <3>5 DEF SentAudio
      <4>2. configSent' = configSent
        BY <1>0, <3>1, <3>5 DEF TypeOK, PublisherTypeOK, ConfigInv
      <4>3. \A i \in SentAudio : streams'[i].objects = streams[i].objects
        BY <3>4 DEF SentAudio
      <4> QED BY <3>4, <4>1, <4>2, <4>3, AudioKept
    <3>6. CASE pass
      <4>1. SentAudio' = SentAudio \cup {n} /\ n \notin SentAudio
        BY <3>3, <3>4, <3>6 DEF SentAudio
      <4>2. configSent'
        BY <3>1, <3>6
      <4>3. \A i \in SentAudio : streams'[i] = streams[i] /\ i < n
        BY <3>4 DEF SentAudio
      <4>4. \A i \in SentAudio' :
              streams'[i].objects[1].config <=> \A j \in SentAudio' : i <= j
        <5> TAKE i \in SentAudio'
        <5>0. SentAudio \subseteq Nat /\ n \in Nat
          BY <1>1 DEF SentAudio, Indices, n
        <5>1. CASE i = n
          <6>1. streams'[i].objects[1].config <=> SentAudio = {}
            BY <3>3, <3>4, <3>6, <5>1 DEF ConfigInv
          <6> QED BY <4>1, <4>3, <5>0, <5>1, <6>1
        <5>2. CASE i \in SentAudio
          <6>1. streams[i].objects[1].config <=> \A j \in SentAudio : i <= j
            BY <5>2 DEF ConfigInv, AudioConfigFirst, SentAudio
          <6> QED BY <4>1, <4>3, <5>0, <5>2, <6>1
        <5> QED BY <4>1, <5>1, <5>2
      <4>5. AudioConfigFirst'
        BY <4>4 DEF AudioConfigFirst, SentAudio
      <4> QED BY <3>4, <4>1, <4>2, <4>5 DEF ConfigInv
    <3> QED BY <3>5, <3>6
  <2> QED BY <1>5, <2>3, <2>4
<1>6. CASE Finish
  <2>1. writer' = 0 \/ UNCHANGED writer
    BY <1>6, FinishSteps
  <2>2. /\ Len(streams') = Len(streams) /\ configSent' = configSent
        /\ \A i \in Indices : /\ streams'[i].track = streams[i].track
                              /\ streams'[i].objects = streams[i].objects
    BY <1>6, FinishSteps
  <2>3. WriterInv'
    BY <1>2, <1>3, <2>1, <2>2 DEF WriterInv
  <2>4. Indices' = Indices
    BY <2>2 DEF Indices
  <2>5. SentAudio' = SentAudio
    BY <2>2, <2>4 DEF SentAudio
  <2> QED BY <2>2, <2>3, <2>5, AudioKept DEF SentAudio
<1>7. CASE Plain \/ Stop
  <2>1. UNCHANGED <<streams, writer, configSent>>
    BY <1>7 DEF Plain, Stop, media, audio
  <2> QED BY <2>1 DEF ConfigInv, WriterInv, AudioConfigFirst, SentAudio, Indices
<1> QED BY <1>4, <1>5, <1>6, <1>7, Steps

\* However many packets the filter drops before the first one that is sent, that one
\* carries the Audio Config, and no later one does.
THEOREM ConfigComesFirst == Spec => []AudioConfigFirst
<1>1. Spec => []ConfigInv
  BY TypeCorrect, ConfigInit, ConfigNext, PTL DEF Spec
<1>2. ConfigInv => AudioConfigFirst
  BY DEF ConfigInv
<1> QED BY <1>1, <1>2, PTL

--------------------------------------------------------------------------------
(* How many elements of a queue are in a set.                              *)

Amount(set, queue) == Cardinality({i \in DOMAIN queue : queue[i] \in set})

LEMMA AmountType ==
  ASSUME NEW S, NEW s \in Seq(S), NEW T
  PROVE  /\ IsFiniteSet({i \in DOMAIN s : s[i] \in T})
         /\ Amount(T, s) \in Nat
<1>1. DOMAIN s = 1..Len(s) /\ Len(s) \in Nat
  OBVIOUS
<1>2. IsFiniteSet(DOMAIN s)
  BY <1>1, FS_Interval
<1>3. {i \in DOMAIN s : s[i] \in T} \in SUBSET DOMAIN s
  OBVIOUS
<1>4. IsFiniteSet({i \in DOMAIN s : s[i] \in T})
  BY <1>2, <1>3, FS_Subset
<1> QED BY <1>4, FS_CardinalityType DEF Amount

LEMMA AmountNone ==
  ASSUME NEW S, NEW s \in Seq(S), NEW T, \A i \in DOMAIN s : s[i] \notin T
  PROVE  Amount(T, s) = 0
<1>1. {i \in DOMAIN s : s[i] \in T} = {}
  OBVIOUS
<1> QED BY <1>1, FS_EmptySet DEF Amount

LEMMA AmountAppend ==
  ASSUME NEW S, NEW s \in Seq(S), NEW x \in S, NEW T
  PROVE  Amount(T, Append(s, x)) = Amount(T, s) + IF x \in T THEN 1 ELSE 0
<1> DEFINE n == Len(s) + 1
           old == {i \in DOMAIN s : s[i] \in T}
           new == {i \in DOMAIN Append(s, x) : Append(s, x)[i] \in T}
<1>1. /\ DOMAIN s = 1..Len(s) /\ DOMAIN Append(s, x) = (1..Len(s)) \cup {n} /\ n \notin DOMAIN s
      /\ \A i \in 1..Len(s) : Append(s, x)[i] = s[i]
      /\ Append(s, x)[n] = x
  OBVIOUS
<1>2. new = IF x \in T THEN old \cup {n} ELSE old
  BY <1>1
<1>3. IsFiniteSet(old) /\ Cardinality(old) \in Nat
  BY AmountType DEF Amount
<1>4. n \notin old
  BY <1>1
<1> HIDE DEF n, old, new
<1>5. Cardinality(old \cup {n}) = Cardinality(old) + 1
  BY <1>3, <1>4, FS_AddElement
<1>6. Cardinality(new) = Cardinality(old) + IF x \in T THEN 1 ELSE 0
  BY <1>2, <1>3, <1>5
<1> QED BY <1>6 DEF Amount, old, new

LEMMA AmountTail ==
  ASSUME NEW S, NEW s \in Seq(S), s # <<>>, NEW T
  PROVE  Amount(T, s) = Amount(T, Tail(s)) + IF Head(s) \in T THEN 1 ELSE 0
<1> DEFINE all == {i \in DOMAIN s : s[i] \in T}
           later == all \ {1}
           rest == {i \in DOMAIN Tail(s) : Tail(s)[i] \in T}
           f == [i \in rest |-> i + 1]
<1>1. /\ DOMAIN s = 1..Len(s) /\ DOMAIN Tail(s) = 1..(Len(s) - 1) /\ Len(s) \in Nat \ {0}
      /\ \A i \in 1..(Len(s) - 1) : Tail(s)[i] = s[i + 1]
      /\ Head(s) = s[1] /\ Tail(s) \in Seq(S)
  OBVIOUS
<1>2. IsFiniteSet(all) /\ IsFiniteSet(rest)
  BY <1>1, AmountType
<1>3. f \in Bijection(rest, later)
  <2>1. \A i \in rest : i + 1 \in later
    BY <1>1
  <2>2. \A j \in later : j - 1 \in rest /\ (j - 1) + 1 = j
    <3> TAKE j \in later
    <3>1. j \in 2..Len(s) /\ s[j] \in T
      BY <1>1
    <3>2. j - 1 \in 1..(Len(s) - 1) /\ (j - 1) + 1 = j
      BY <1>1, <3>1
    <3>3. Tail(s)[j - 1] = s[j]
      BY <1>1, <3>2
    <3> QED BY <1>1, <3>1, <3>2, <3>3
  <2>3. \A i, k \in rest : i + 1 = k + 1 => i = k
    BY <1>1
  <2> HIDE DEF rest, later
  <2>4. f \in [rest -> later]
    BY <2>1
  <2> QED BY <2>2, <2>3, <2>4 DEF Bijection, Injection, Surjection, IsInjective
<1>4. Cardinality(later) = Cardinality(rest)
  BY <1>2, <1>3, FS_Bijection, ZenonT(30) DEF ExistsBijection
<1>5. Cardinality(later) = IF 1 \in all THEN Cardinality(all) - 1 ELSE Cardinality(all)
  BY <1>2, FS_RemoveElement
<1>6. 1 \in all <=> Head(s) \in T
  BY <1>1
<1>7. Cardinality(all) \in Nat /\ Cardinality(rest) \in Nat
  BY <1>2, FS_CardinalityType
<1> HIDE DEF all, later, rest, f
<1>8. Cardinality(all) = Cardinality(rest) + IF Head(s) \in T THEN 1 ELSE 0
  BY <1>4, <1>5, <1>6, <1>7
<1> QED BY <1>8 DEF Amount, all, rest

--------------------------------------------------------------------------------
(* The steps of the client.                                                *)

\* Which handler of the client a step of the program runs.
LEMMA ClientSteps ==
  ASSUME TypeOK, [Next]_vars
  PROVE  \/ Peer \/ RecvAnswer \/ RecvUpdate \/ RecvEnd \/ RecvGoaway
         \/ \E inSelect \in BOOLEAN : RecvRequest(inSelect)
         \/ \E o \in Own : OpenRequest(o)
         \/ Tick \/ ServeUpdate \/ ServeRequest \/ UNCHANGED clientVars
<1>1. CASE CaptureVideo \/ CaptureAudio \/ TakeAudio \/ SendAudio \/ SendVideo
  BY <1>1 DEF CaptureVideo, CaptureAudio, TakeAudio, SendAudio, SendVideo
<1>2. CASE Established \/ PublishCatalog \/ SendFetched \/ Break \/ Finish \/ Fail \/ Stop
  BY <1>2 DEF Established, PublishCatalog, SendFetched, Break, Finish, Fail, Stop
<1>3. Tracks = Own
  BY PublisherAssumption DEF Tracks
<1>4. CASE TakeVideo
  <2>1. UNCHANGED clientVars \/ OpenRequest("catalog")
    BY <1>4 DEF TakeVideo, PublishTrack
  <2> QED BY <1>3, <2>1 DEF Tracks
<1>5. CASE SetUp
  <2>1. NextTrack \in Tracks \cup {"none"}
    BY DEF NextTrack, Tracks
  <2> QED BY <1>3, <1>5, <2>1 DEF SetUp, PublishTrack
<1>6. CASE TakeMessage \/ Wait \/ RunTimer
  BY <1>6 DEF TakeMessage, Wait, RunTimer, Pump
<1>7. CASE UNCHANGED vars
  BY <1>7 DEF vars
<1> QED BY <1>1, <1>2, <1>4, <1>5, <1>6, <1>7 DEF Next, NextEvent, Handler

--------------------------------------------------------------------------------
(* EachAnsweredOnce.                                                       *)

\* The messages that bear question q, and the same in the queues of the application.
Bearing(q) == {m \in BidiMessages : \/ m.what = "request" /\ m.on = q
                                    \/ m.what = "update" /\ m.id = q}
RequestOf(q) == {r \in [on : Requests, kind : Kinds] : r.on = q}
UpdateOf(q) == {u \in [on : Streams, id : Updates] : u.id = q}

InOne(set, q) == IF q \in set THEN 1 ELSE 0

\* What the application has answered: what the session refuses stays queued.
settled == replied \ refused

Places(q) ==
  Amount(Bearing(q), bidi) + Amount(RequestOf(q), requests) + Amount(UpdateOf(q), updates)
    + InOne(settled, q) + InOne(dropped, q)

\* A question that was not asked is nowhere.
OnceInv == \A q \in Requests \cup Updates : Places(q) = InOne(asked, q)

LEMMA OnceTypes ==
  ASSUME TypeOK, NEW q
  PROVE  /\ bidi \in Seq(BidiMessages)
         /\ requests \in Seq([on : Requests, kind : Kinds])
         /\ updates \in Seq([on : Streams, id : Updates])
         /\ Amount(Bearing(q), bidi) \in Nat
         /\ Amount(RequestOf(q), requests) \in Nat
         /\ Amount(UpdateOf(q), updates) \in Nat
         /\ \A set : InOne(set, q) \in 0..1
<1>1. /\ bidi \in Seq(BidiMessages)
      /\ requests \in Seq([on : Requests, kind : Kinds])
      /\ updates \in Seq([on : Streams, id : Updates])
  BY DEF TypeOK, ClientTypeOK
<1>2. Amount(Bearing(q), bidi) \in Nat
  BY <1>1, AmountType
<1>3. Amount(RequestOf(q), requests) \in Nat
  BY <1>1, AmountType
<1>4. Amount(UpdateOf(q), updates) \in Nat
  BY <1>1, AmountType
<1>5. \A set : InOne(set, q) \in 0..1
  BY DEF InOne
<1> QED BY <1>1, <1>2, <1>3, <1>4, <1>5

\* A message of the relay joins bidi, whether it asks something or not.
LEMMA OnceTold ==
  ASSUME TypeOK, OnceInv, NEW m \in BidiMessages, Tell(m),
         UNCHANGED <<requests, updates, settled, dropped>>,
         \A q \in Requests \cup Updates :
           InOne(asked', q) = InOne(asked, q) + IF m \in Bearing(q) THEN 1 ELSE 0
  PROVE  OnceInv'
<1> SUFFICES ASSUME NEW q \in Requests \cup Updates
             PROVE  Places(q)' = InOne(asked', q)
  BY DEF OnceInv
<1>1. Amount(Bearing(q), bidi') = Amount(Bearing(q), bidi) + IF m \in Bearing(q) THEN 1 ELSE 0
  BY OnceTypes, AmountAppend DEF Tell
<1>2. Places(q) = InOne(asked, q)
  BY DEF OnceInv
<1>3. Places(q)' = Amount(Bearing(q), bidi') + Amount(RequestOf(q), requests)
                     + Amount(UpdateOf(q), updates) + InOne(settled, q) + InOne(dropped, q)
  BY DEF Places, Amount, InOne, Bearing, RequestOf, UpdateOf
<1> DEFINE one == IF m \in Bearing(q) THEN 1 ELSE 0
<1>4. one \in Nat /\ Amount(Bearing(q), bidi') = Amount(Bearing(q), bidi) + one
      /\ InOne(asked', q) = InOne(asked, q) + one
  BY <1>1
<1> DEFINE here == Amount(Bearing(q), bidi)
           rest == Amount(RequestOf(q), requests) + Amount(UpdateOf(q), updates)
                     + InOne(settled, q) + InOne(dropped, q)
<1>5. here \in Nat /\ rest \in Nat /\ InOne(asked, q) \in Nat
  <2>1. InOne(settled, q) \in Nat /\ InOne(dropped, q) \in Nat /\ InOne(asked, q) \in Nat
    BY DEF InOne
  <2>2. /\ here \in Nat /\ Amount(RequestOf(q), requests) \in Nat
        /\ Amount(UpdateOf(q), updates) \in Nat
    BY OnceTypes
  <2> QED BY <2>1, <2>2
<1>6. Amount(Bearing(q), bidi') \in Nat
  BY <1>4, <1>5
<1>7. Places(q) = here + rest /\ Places(q)' = Amount(Bearing(q), bidi') + rest
  <2>1. /\ Amount(RequestOf(q), requests) \in Nat /\ Amount(UpdateOf(q), updates) \in Nat
        /\ InOne(settled, q) \in Nat /\ InOne(dropped, q) \in Nat
    BY OnceTypes DEF InOne
  <2> QED BY <1>3, <1>5, <1>6, <2>1 DEF Places
<1> HIDE DEF one, here, rest
<1>8. Amount(Bearing(q), bidi') = here + one
  BY <1>4 DEF here
<1> QED BY <1>2, <1>4, <1>5, <1>7, <1>8

\* Places that stay as many.
LEMMA OnceMoved ==
  ASSUME OnceInv, asked' = asked,
         \A q \in Requests \cup Updates : Places(q)' = Places(q)
  PROVE  OnceInv'
<1>1. \A q : InOne(asked', q) = InOne(asked, q)
  BY DEF InOne
<1> QED BY <1>1 DEF OnceInv, InOne

\* The client takes a message, and queues it if it asks something.
LEMMA OnceTaken ==
  ASSUME TypeOK, OnceInv, RecvAnswer \/ RecvUpdate \/ RecvEnd
  PROVE  OnceInv'
<1>1. bidi # <<>> /\ bidi' = Tail(bidi) /\ UNCHANGED <<asked, requests, settled, dropped>>
  BY DEF RecvAnswer, RecvUpdate, RecvEnd, Next1, peer, vanished, settled
<1> SUFFICES ASSUME NEW q \in Requests \cup Updates
             PROVE  Places(q)' = Places(q)
  BY <1>1, OnceMoved
<1> DEFINE m == Head(bidi)
           one == IF m \in Bearing(q) THEN 1 ELSE 0
<1>2. Amount(Bearing(q), bidi) = Amount(Bearing(q), bidi') + one
  BY <1>1, OnceTypes, AmountTail
<1>3. m \in BidiMessages /\ Amount(Bearing(q), bidi') \in Nat /\ one \in Nat
  <2>1. Head(bidi) \in BidiMessages /\ Tail(bidi) \in Seq(BidiMessages)
    BY <1>1, OnceTypes, HeadTailProperties
  <2> QED BY <1>1, <2>1, AmountType
<1>4. Amount(UpdateOf(q), updates') = Amount(UpdateOf(q), updates) + one
  <2>1. CASE RecvAnswer \/ RecvEnd
    <3>1. m.what \in {"answer", "end"} /\ updates' = updates
      BY <2>1 DEF RecvAnswer, RecvEnd, Next1
    <3>2. one = 0
      BY <3>1 DEF Bearing
    <3> HIDE DEF one
    <3> QED BY <3>1, <3>2, OnceTypes
  <2>2. CASE RecvUpdate
    <3> DEFINE u == [on |-> m.on, id |-> m.id]
    <3>1. m.what = "update" /\ updates' = Append(updates, u)
      BY <2>2 DEF RecvUpdate, Next1
    <3>2. u \in [on : Streams, id : Updates]
      BY <1>3, <3>1, MessageTypes
    <3>3. u \in UpdateOf(q) <=> m \in Bearing(q)
      BY <1>3, <3>1, <3>2 DEF UpdateOf, Bearing
    <3> DEFINE U == [on : Streams, id : Updates]
    <3>4. updates \in Seq(U) /\ u \in U
      BY <3>2, OnceTypes
    <3> HIDE DEF m, u, U
    <3>5. Amount(UpdateOf(q), updates')
            = Amount(UpdateOf(q), updates) + IF u \in UpdateOf(q) THEN 1 ELSE 0
      BY <3>1, <3>4, AmountAppend
    <3> QED BY <3>3, <3>5
  <2> QED BY <2>1, <2>2
<1>5. Places(q)' = Amount(Bearing(q), bidi') + Amount(RequestOf(q), requests)
                     + Amount(UpdateOf(q), updates') + InOne(settled, q) + InOne(dropped, q)
  BY <1>1 DEF Places, Amount, InOne, Bearing, RequestOf, UpdateOf
<1>6. \A set : InOne(set, q) \in Nat
  BY DEF InOne
<1> HIDE DEF one
<1> QED BY <1>2, <1>3, <1>4, <1>5, <1>6, OnceTypes DEF Places

\* A request that the session refuses by itself is answered, or its answer lost, and
\* the application is given it all the same.
LEMMA OnceRequested ==
  ASSUME TypeOK, OnceInv, NEW inSelect \in BOOLEAN, RecvRequest(inSelect)
  PROVE  OnceInv'
<1> DEFINE m == Head(bidi)
           r == [on |-> m.on, kind |-> m.kind]
<1>1. /\ bidi # <<>> /\ bidi' = Tail(bidi) /\ m.what = "request"
      /\ requests' = Append(requests, r)
      /\ UNCHANGED <<asked, updates, dropped>>
      /\ settled' \subseteq settled
      /\ \A q : q \in settled /\ q # m.on => q \in settled'
  <2>1. bidi # <<>> /\ bidi' = Tail(bidi) /\ m.what = "request" /\ UNCHANGED <<asked, updates>>
        /\ requests' = Append(requests, r)
    BY DEF RecvRequest, Next1, peer
  <2>2. \/ UNCHANGED <<replied, dropped, refused>>
        \/ /\ refused' = refused \cup {m.on} /\ replied' = replied \cup {m.on}
           /\ UNCHANGED dropped
        \/ /\ refused' = refused \cup {m.on} /\ UNCHANGED <<replied, dropped>>
    BY DEF RecvRequest
  <2> HIDE DEF m, r
  <2> QED BY <2>1, <2>2 DEF settled
<1> SUFFICES ASSUME NEW q \in Requests \cup Updates
             PROVE  Places(q)' = Places(q)
  BY <1>1, OnceMoved
<1> DEFINE one == IF m \in Bearing(q) THEN 1 ELSE 0
<1>2. Amount(Bearing(q), bidi) = Amount(Bearing(q), bidi') + one
  BY <1>1, OnceTypes, AmountTail
<1>3. m \in BidiMessages /\ Amount(Bearing(q), bidi') \in Nat /\ one \in Nat
  <2>1. Head(bidi) \in BidiMessages /\ Tail(bidi) \in Seq(BidiMessages)
    BY <1>1, OnceTypes, HeadTailProperties
  <2> QED BY <1>1, <2>1, AmountType
<1>4. Amount(RequestOf(q), requests') = Amount(RequestOf(q), requests) + one
  <2>1. r \in [on : Requests, kind : Kinds]
    BY <1>1, <1>3, MessageTypes
  <2>2. r \in RequestOf(q) <=> m \in Bearing(q)
    BY <1>1, <1>3, <2>1 DEF RequestOf, Bearing
  <2> DEFINE R == [on : Requests, kind : Kinds]
  <2>3. requests \in Seq(R) /\ r \in R
    BY <2>1, OnceTypes
  <2> HIDE DEF m, r, R
  <2>4. Amount(RequestOf(q), requests')
          = Amount(RequestOf(q), requests) + IF r \in RequestOf(q) THEN 1 ELSE 0
    BY <1>1, <2>3, AmountAppend
  <2> QED BY <2>2, <2>4
<1>5. Places(q)' = Amount(Bearing(q), bidi') + Amount(RequestOf(q), requests')
                     + Amount(UpdateOf(q), updates) + InOne(settled', q) + InOne(dropped, q)
  BY <1>1 DEF Places, Amount, InOne, Bearing, RequestOf, UpdateOf
<1>6. InOne(settled', q) = InOne(settled, q)
  <2>1. CASE q \in settled /\ q = m.on
    <3>1. m \in Bearing(q)
      BY <1>1, <1>3, <2>1 DEF Bearing
    <3>2. Places(q) <= 1 /\ InOne(settled, q) = 1
      BY <2>1 DEF OnceInv, InOne
    <3>3. InOne(dropped, q) \in Nat
      BY DEF InOne
    <3> HIDE DEF m
    <3> QED BY <1>2, <1>3, <3>1, <3>2, <3>3, OnceTypes DEF Places
  <2>2. CASE ~(q \in settled /\ q = m.on)
    <3> HIDE DEF m, r
    <3>1. q \in settled' <=> q \in settled
      BY <1>1, <2>2
    <3> QED BY <3>1 DEF InOne
  <2> QED BY <2>1, <2>2
<1>7. InOne(settled, q) \in Nat /\ InOne(dropped, q) \in Nat
  BY DEF InOne
<1> HIDE DEF one, m, r
<1> QED BY <1>2, <1>3, <1>4, <1>5, <1>6, <1>7, OnceTypes DEF Places

\* What an answer does to the histories.
LEMMA ReplyIs ==
  ASSUME NEW q, NEW s, NEW last, Reply(q, s, last)
  PROVE  /\ q \notin refused /\ UNCHANGED <<control, asked, over, bidi, refused>>
         /\ \/ /\ s \in halves /\ replied' = replied \cup {q} /\ dropped' = dropped
               /\ rejected' = IF last THEN rejected \cup {q} ELSE rejected
               /\ settled' = settled \cup {q}
            \/ /\ s \notin halves /\ replied' = replied /\ dropped' = dropped \cup {q}
               /\ rejected' = rejected
               /\ settled' = settled
BY DEF Reply, peer, settled

\* What was queued is answered once, so that it was not answered before.
LEMMA OnceServed ==
  ASSUME TypeOK, OnceInv, ServeUpdate \/ ServeRequest
  PROVE  OnceInv'
<1> DEFINE U == [on : Streams, id : Updates]
           R == [on : Requests, kind : Kinds]
           u == Head(updates)
           r == Head(requests)
<1>1. \/ /\ updates # <<>> /\ updates' = Tail(updates) /\ requests' = requests
         /\ Reply(u.id, u.on, FALSE)
      \/ /\ requests # <<>> /\ requests' = Tail(requests) /\ updates' = updates
         /\ \E last \in BOOLEAN : Reply(r.on, r.on, last)
  BY DEF ServeUpdate, ServeRequest, UpdateFirst, RequestNext
<1>2. UNCHANGED <<asked, bidi>>
  BY <1>1, ReplyIs
<1> SUFFICES ASSUME NEW q \in Requests \cup Updates
             PROVE  Places(q)' = Places(q)
  BY <1>2, OnceMoved
<1> DEFINE b == Amount(Bearing(q), bidi)
           rs == Amount(RequestOf(q), requests)
           us == Amount(UpdateOf(q), updates)
<1>3. Places(q)' = Amount(Bearing(q), bidi) + Amount(RequestOf(q), requests')
                     + Amount(UpdateOf(q), updates') + InOne(settled', q) + InOne(dropped', q)
  BY <1>2 DEF Places, Amount, InOne, Bearing, RequestOf, UpdateOf
<1>4. b + rs + us + InOne(settled, q) + InOne(dropped, q) \in 0..1
  BY DEF OnceInv, Places, InOne
<1>5. \A set : InOne(set, q) \in Nat
  BY DEF InOne
<1>6. /\ updates # <<>> => /\ u \in U /\ Tail(updates) \in Seq(U)
                           /\ Amount(UpdateOf(q), Tail(updates)) \in Nat
                           /\ us = Amount(UpdateOf(q), Tail(updates))
                                     + IF u \in UpdateOf(q) THEN 1 ELSE 0
      /\ requests # <<>> => /\ r \in R /\ Tail(requests) \in Seq(R)
                            /\ Amount(RequestOf(q), Tail(requests)) \in Nat
                            /\ rs = Amount(RequestOf(q), Tail(requests))
                                      + IF r \in RequestOf(q) THEN 1 ELSE 0
  <2>1. updates \in Seq(U) /\ requests \in Seq(R)
    BY OnceTypes
  <2> HIDE DEF U, R
  <2> QED BY <2>1, AmountTail, AmountType, HeadTailProperties
<1>7. b \in Nat /\ rs \in Nat /\ us \in Nat
  BY OnceTypes
<1> HIDE DEF b, rs, us
<1>8. CASE /\ updates # <<>> /\ updates' = Tail(updates) /\ requests' = requests
           /\ Reply(u.id, u.on, FALSE)
  <2>0. \/ settled' = settled \cup {u.id} /\ dropped' = dropped
        \/ settled' = settled /\ dropped' = dropped \cup {u.id}
    <3> HIDE DEF u
    <3> QED BY <1>8, ReplyIs
  <2> DEFINE n == Amount(UpdateOf(q), Tail(updates))
  <2>1. u \in UpdateOf(q) <=> u.id = q
    BY <1>6, <1>8 DEF UpdateOf
  <2>2. Places(q)' = b + rs + n + InOne(settled', q) + InOne(dropped', q) /\ n \in Nat
    BY <1>3, <1>6, <1>8 DEF b, rs
  <2>3. CASE u.id = q
    <3>1. us = n + 1
      BY <1>6, <1>8, <2>1, <2>3
    <3> HIDE DEF n
    <3>2. InOne(settled, q) = 0 /\ InOne(dropped, q) = 0
      BY <1>4, <1>5, <1>7, <2>2, <3>1
    <3> HIDE DEF u
    <3>3. InOne(settled', q) + InOne(dropped', q) = 1
      BY <2>0, <2>3, <3>2 DEF InOne
    <3>4. Places(q) = b + rs + us + InOne(settled, q) + InOne(dropped, q)
      BY DEF Places, b, rs, us
    <3> QED BY <1>5, <1>7, <2>2, <3>1, <3>2, <3>3, <3>4
  <2>4. CASE u.id # q
    <3>1. us = n + 0
      BY <1>6, <1>8, <2>1, <2>4
    <3> HIDE DEF n
    <3> HIDE DEF u
    <3>2. InOne(settled', q) = InOne(settled, q) /\ InOne(dropped', q) = InOne(dropped, q)
      BY <2>0, <2>4 DEF InOne
    <3>3. Places(q) = b + rs + us + InOne(settled, q) + InOne(dropped, q)
      BY DEF Places, b, rs, us
    <3> QED BY <1>5, <1>7, <2>2, <3>1, <3>2, <3>3
  <2> QED BY <2>3, <2>4
<1>9. CASE /\ requests # <<>> /\ requests' = Tail(requests) /\ updates' = updates
           /\ \E last \in BOOLEAN : Reply(r.on, r.on, last)
  <2>0. \/ settled' = settled \cup {r.on} /\ dropped' = dropped
        \/ settled' = settled /\ dropped' = dropped \cup {r.on}
    <3> PICK last \in BOOLEAN : Reply(r.on, r.on, last)
      BY <1>9
    <3> HIDE DEF r
    <3> QED BY ReplyIs
  <2> DEFINE n == Amount(RequestOf(q), Tail(requests))
  <2>1. r \in RequestOf(q) <=> r.on = q
    BY <1>6, <1>9 DEF RequestOf
  <2>2. Places(q)' = b + n + us + InOne(settled', q) + InOne(dropped', q) /\ n \in Nat
    BY <1>3, <1>6, <1>9 DEF b, us
  <2>3. CASE r.on = q
    <3>1. rs = n + 1
      BY <1>6, <1>9, <2>1, <2>3
    <3> HIDE DEF n
    <3>2. InOne(settled, q) = 0 /\ InOne(dropped, q) = 0
      BY <1>4, <1>5, <1>7, <2>2, <3>1
    <3> HIDE DEF r
    <3>3. InOne(settled', q) + InOne(dropped', q) = 1
      BY <2>0, <2>3, <3>2 DEF InOne
    <3>4. Places(q) = b + rs + us + InOne(settled, q) + InOne(dropped, q)
      BY DEF Places, b, rs, us
    <3> QED BY <1>5, <1>7, <2>2, <3>1, <3>2, <3>3, <3>4
  <2>4. CASE r.on # q
    <3>1. rs = n + 0
      BY <1>6, <1>9, <2>1, <2>4
    <3> HIDE DEF n
    <3> HIDE DEF r
    <3>2. InOne(settled', q) = InOne(settled, q) /\ InOne(dropped', q) = InOne(dropped, q)
      BY <2>0, <2>4 DEF InOne
    <3>3. Places(q) = b + rs + us + InOne(settled, q) + InOne(dropped, q)
      BY DEF Places, b, rs, us
    <3> QED BY <1>5, <1>7, <2>2, <3>1, <3>2, <3>3
  <2> QED BY <2>3, <2>4
<1> QED BY <1>1, <1>8, <1>9

LEMMA OncePeer ==
  ASSUME TypeOK, OnceInv, Peer
  PROVE  OnceInv'
<1>1. ASSUME NEW o \in Own, PeerAnswers(o)
      PROVE  OnceInv'
  <2>1. PICK ok \in BOOLEAN : Tell([what |-> "answer", on |-> o, ok |-> ok])
    BY <1>1 DEF PeerAnswers
  <2> DEFINE m == [what |-> "answer", on |-> o, ok |-> ok]
  <2>2. m \in BidiMessages /\ \A q : m \notin Bearing(q)
    BY DEF BidiMessages, Bearing
  <2>3. UNCHANGED <<requests, updates, settled, dropped, asked>>
    BY <1>1 DEF PeerAnswers, peer, vanished, settled
  <2> HIDE DEF m
  <2>4. \A q : InOne(asked', q) = InOne(asked, q) + 0
    BY <2>3 DEF InOne
  <2> QED BY <2>1, <2>2, <2>3, <2>4, OnceTold DEF m
<1>2. ASSUME NEW r \in Requests, PeerAsks(r)
      PROVE  OnceInv'
  <2>1. PICK k \in Kinds : Tell([what |-> "request", on |-> r, kind |-> k])
    BY <1>2 DEF PeerAsks
  <2> DEFINE m == [what |-> "request", on |-> r, kind |-> k]
  <2>2. m \in BidiMessages /\ \A q : m \in Bearing(q) <=> q = r
    BY DEF BidiMessages, Bearing
  <2>3. UNCHANGED <<requests, updates, settled, dropped>> /\ r \notin asked
        /\ asked' = asked \cup {r}
    BY <1>2 DEF PeerAsks, vanished, settled
  <2> HIDE DEF m
  <2>4. \A q : InOne(asked', q) = InOne(asked, q) + IF q = r THEN 1 ELSE 0
    BY <2>3 DEF InOne
  <2> QED BY <2>1, <2>2, <2>3, <2>4, OnceTold DEF m
<1>3. ASSUME NEW u \in Updates, NEW s \in Streams, PeerUpdates(u, s)
      PROVE  OnceInv'
  <2> DEFINE m == [what |-> "update", on |-> s, id |-> u]
  <2>1. Tell(m)
    BY <1>3 DEF PeerUpdates
  <2>2. m \in BidiMessages /\ \A q : m \in Bearing(q) <=> q = u
    BY DEF BidiMessages, Bearing
  <2>3. UNCHANGED <<requests, updates, settled, dropped>> /\ u \notin asked
        /\ asked' = asked \cup {u}
    BY <1>3 DEF PeerUpdates, vanished, settled
  <2> HIDE DEF m
  <2>4. \A q : InOne(asked', q) = InOne(asked, q) + IF q = u THEN 1 ELSE 0
    BY <2>3 DEF InOne
  <2> QED BY <2>1, <2>2, <2>3, <2>4, OnceTold DEF m
<1>4. ASSUME NEW s \in Streams, PeerEnds(s)
      PROVE  OnceInv'
  <2> DEFINE m == [what |-> "end", on |-> s]
  <2>1. Tell(m)
    BY <1>4 DEF PeerEnds
  <2>2. m \in BidiMessages /\ \A q : m \notin Bearing(q)
    BY DEF BidiMessages, Bearing
  <2>3. UNCHANGED <<requests, updates, settled, dropped, asked>>
    BY <1>4 DEF PeerEnds, vanished, settled
  <2> HIDE DEF m
  <2>4. \A q : InOne(asked', q) = InOne(asked, q) + 0
    BY <2>3 DEF InOne
  <2> QED BY <2>1, <2>2, <2>3, <2>4, OnceTold DEF m
<1>5. CASE PeerControls
  <2>1. UNCHANGED <<asked, bidi, requests, updates, settled, dropped>>
    BY <1>5 DEF PeerControls, vanished, settled
  <2> QED BY <2>1 DEF OnceInv, Places, Amount, InOne, Bearing, RequestOf, UpdateOf
<1> QED BY <1>1, <1>2, <1>3, <1>4, <1>5 DEF Peer

LEMMA OnceNext == TypeOK /\ OnceInv /\ [Next]_vars => OnceInv'
<1> SUFFICES ASSUME TypeOK, OnceInv, [Next]_vars PROVE OnceInv'
  OBVIOUS
<1>1. CASE RecvGoaway \/ Tick \/ (\E o \in Own : OpenRequest(o)) \/ UNCHANGED clientVars
  <2>1. UNCHANGED <<asked, bidi, requests, updates, settled, dropped>>
    BY <1>1 DEF RecvGoaway, Tick, OpenRequest, clientVars, peer, vanished, settled
  <2> QED BY <2>1 DEF OnceInv, Places, Amount, InOne, Bearing, RequestOf, UpdateOf
<1> QED BY <1>1, OncePeer, OnceTaken, OnceRequested, OnceServed, ClientSteps

LEMMA OnceInit == Init => OnceInv
<1> SUFFICES ASSUME Init PROVE OnceInv
  OBVIOUS
<1>1. /\ bidi = <<>> /\ requests = <<>> /\ updates = <<>>
      /\ asked = {} /\ settled = {} /\ dropped = {}
  BY DEF Init, ClientInit, settled
<1>2. \A set : Amount(set, <<>>) = 0
  <2>1. \A set : {i \in DOMAIN <<>> : <<>>[i] \in set} = {}
    OBVIOUS
  <2> QED BY <2>1, FS_EmptySet DEF Amount
<1> QED BY <1>1, <1>2 DEF OnceInv, Places, InOne

\* Every question of the relay is in exactly one place: on its way, queued, answered, or
\* its answer thrown away; for any requests and any interleaving, with futures dropped.
THEOREM AnsweredOnce == Spec => []EachAnsweredOnce
<1>1. Spec => [](TypeOK /\ OnceInv)
  BY TypeCorrect, OnceInit, OnceNext, PTL DEF Spec
<1>2. TypeOK /\ OnceInv => EachAnsweredOnce
  <2> SUFFICES ASSUME TypeOK, OnceInv, NEW q \in asked
               PROVE  Cardinality({i \in 1..Len(bidi) :
                                     \/ bidi[i].what = "request" /\ bidi[i].on = q
                                     \/ bidi[i].what = "update" /\ bidi[i].id = q})
                        + Cardinality({i \in 1..Len(requests) : requests[i].on = q})
                        + Cardinality({i \in 1..Len(updates) : updates[i].id = q})
                        + Cardinality({q} \cap (replied \ refused)) + Cardinality({q} \cap dropped) = 1
    BY DEF EachAnsweredOnce
  <2>1. q \in Requests \cup Updates
    BY DEF TypeOK, ClientTypeOK
  <2>2. Places(q) = 1
    BY <2>1 DEF OnceInv, InOne
  <2>3. Amount(Bearing(q), bidi) = Cardinality({i \in 1..Len(bidi) :
                                     \/ bidi[i].what = "request" /\ bidi[i].on = q
                                     \/ bidi[i].what = "update" /\ bidi[i].id = q})
    <3>1. DOMAIN bidi = 1..Len(bidi) /\ \A i \in DOMAIN bidi : bidi[i] \in BidiMessages
      BY OnceTypes
    <3>2. {i \in DOMAIN bidi : bidi[i] \in Bearing(q)}
            = {i \in 1..Len(bidi) : \/ bidi[i].what = "request" /\ bidi[i].on = q
                                    \/ bidi[i].what = "update" /\ bidi[i].id = q}
      BY <3>1 DEF Bearing
    <3> QED BY <3>2 DEF Amount
  <2>4. Amount(RequestOf(q), requests) = Cardinality({i \in 1..Len(requests) : requests[i].on = q})
    <3>1. /\ DOMAIN requests = 1..Len(requests)
          /\ \A i \in DOMAIN requests : requests[i] \in [on : Requests, kind : Kinds]
      <4> DEFINE S == [on : Requests, kind : Kinds]
      <4>1. requests \in Seq(S)
        BY OnceTypes
      <4> HIDE DEF S
      <4>2. DOMAIN requests = 1..Len(requests) /\ \A i \in DOMAIN requests : requests[i] \in S
        BY <4>1
      <4> QED BY <4>2 DEF S
    <3>2. {i \in DOMAIN requests : requests[i] \in RequestOf(q)}
            = {i \in 1..Len(requests) : requests[i].on = q}
      BY <3>1 DEF RequestOf
    <3> QED BY <3>2 DEF Amount
  <2>5. Amount(UpdateOf(q), updates) = Cardinality({i \in 1..Len(updates) : updates[i].id = q})
    <3>1. /\ DOMAIN updates = 1..Len(updates)
          /\ \A i \in DOMAIN updates : updates[i] \in [on : Streams, id : Updates]
      <4> DEFINE S == [on : Streams, id : Updates]
      <4>1. updates \in Seq(S)
        BY OnceTypes
      <4> HIDE DEF S
      <4>2. DOMAIN updates = 1..Len(updates) /\ \A i \in DOMAIN updates : updates[i] \in S
        BY <4>1
      <4> QED BY <4>2 DEF S
    <3>2. {i \in DOMAIN updates : updates[i] \in UpdateOf(q)}
            = {i \in 1..Len(updates) : updates[i].id = q}
      BY <3>1 DEF UpdateOf
    <3> QED BY <3>2 DEF Amount
  <2>6. ASSUME NEW set PROVE Cardinality({q} \cap set) = InOne(set, q)
    <3>1. CASE q \in set
      <4>1. {q} \cap set = {q}
        BY <3>1
      <4> QED BY <3>1, <4>1, FS_Singleton DEF InOne
    <3>2. CASE q \notin set
      <4>1. {q} \cap set = {}
        BY <3>2
      <4> QED BY <3>2, <4>1, FS_EmptySet DEF InOne
    <3> QED BY <3>1, <3>2
  <2> QED BY <2>2, <2>3, <2>4, <2>5, <2>6 DEF Places, settled
<1> QED BY <1>1, <1>2, PTL

--------------------------------------------------------------------------------
(* AnswersReachOpenStreams.  What is asked of a stream comes after the     *)
(* request that opened it, so that when the question is served the half of *)
(* the stream is still there, unless the stream is over, or closed by a    *)
(* refusal of momo's side: cleanup forgets nothing else.                   *)

known == halves \cup over \cup refused \cup rejected

\* The streams about to be known: those that the first n messages of a queue open.
Opened(queue, n) == {queue[j].on : j \in {j \in 1..n : queue[j].what = "request"}}

BidiInv ==
  /\ \A i \in 1..Len(bidi) : bidi[i].what = "end" => bidi[i].on \in over
  /\ \A i \in 1..Len(bidi) : bidi[i].what = "update" => bidi[i].on \in known \cup Opened(bidi, i - 1)
  /\ asked \cap Requests \subseteq known \cup Opened(bidi, Len(bidi))

HeldInv ==
  /\ closed \subseteq over
  /\ rejected \subseteq replied
  /\ \A o \in Own : own[o] # "unsent" => o \in known
  /\ \A i \in 1..Len(updates) : updates[i].on \in known
  /\ \A i \in 1..Len(requests) : requests[i].on \in known

LEMMA BidiTold ==
  ASSUME TypeOK, BidiInv, known \subseteq known', over \subseteq over',
         NEW m \in BidiMessages, Tell(m),
         m.what = "end" => m.on \in over',
         m.what = "update" => m.on \in known \cup Opened(bidi, Len(bidi)),
         \A r \in asked' \cap Requests : r \in asked \/ (m.what = "request" /\ m.on = r)
  PROVE  BidiInv'
<1> DEFINE n == Len(bidi)
<1>1. /\ n \in Nat /\ Len(bidi') = n + 1 /\ bidi'[n + 1] = m
      /\ \A i \in 1..n : bidi'[i] = bidi[i]
  <2>1. bidi \in Seq(BidiMessages) /\ bidi' = Append(bidi, m)
    BY DEF TypeOK, ClientTypeOK, Tell
  <2> QED BY <2>1
<1> HIDE DEF n
<1>2. \A k \in 0..n : Opened(bidi', k) = Opened(bidi, k)
  <2> TAKE k \in 0..n
  <2>1. \A j \in 1..k : bidi'[j] = bidi[j]
    BY <1>1
  <2> QED BY <2>1 DEF Opened
<1>3. /\ Opened(bidi, n) \subseteq Opened(bidi', n + 1)
      /\ m.what = "request" => m.on \in Opened(bidi', n + 1)
  <2>1. \A j \in 1..n : bidi'[j] = bidi[j] /\ j \in 1..(n + 1)
    BY <1>1
  <2>2. n + 1 \in 1..(n + 1)
    BY <1>1
  <2> QED BY <1>1, <2>1, <2>2 DEF Opened
<1>4. ASSUME NEW i \in 1..(n + 1)
      PROVE  /\ bidi'[i].what = "end" => bidi'[i].on \in over'
             /\ bidi'[i].what = "update" => bidi'[i].on \in known' \cup Opened(bidi', i - 1)
  <2>1. CASE i \in 1..n
    <3>1. bidi'[i] = bidi[i] /\ Opened(bidi', i - 1) = Opened(bidi, i - 1)
      BY <1>1, <1>2, <2>1
    <3> QED BY <2>1, <3>1 DEF BidiInv, n
  <2>2. CASE i = n + 1
    <3>1. bidi'[i] = m /\ Opened(bidi', i - 1) = Opened(bidi, n)
      BY <1>1, <1>2, <2>2
    <3> QED BY <3>1 DEF n
  <2> QED BY <1>1, <2>1, <2>2
<1>5. asked' \cap Requests \subseteq known' \cup Opened(bidi', n + 1)
  BY <1>3 DEF BidiInv, n
<1> QED BY <1>1, <1>4, <1>5 DEF BidiInv

LEMMA BidiTaken ==
  ASSUME TypeOK, BidiInv, known \subseteq known', UNCHANGED <<asked, over>>,
         bidi # <<>>, bidi' = Tail(bidi),
         Head(bidi).what = "request" => Head(bidi).on \in known'
  PROVE  BidiInv'
<1> DEFINE n == Len(bidi)
<1>1. /\ n \in Nat \ {0} /\ Len(bidi') = n - 1 /\ Head(bidi) = bidi[1]
      /\ \A i \in 1..(n - 1) : bidi'[i] = bidi[i + 1] /\ i + 1 \in 1..n /\ i \in 1..n
  <2>1. bidi \in Seq(BidiMessages)
    BY DEF TypeOK, ClientTypeOK
  <2> QED BY <2>1
<1> HIDE DEF n
<1>2. ASSUME NEW k \in 1..n
      PROVE  known \cup Opened(bidi, k) \subseteq known' \cup Opened(bidi', k - 1)
  <2>1. ASSUME NEW j \in 1..k, bidi[j].what = "request"
        PROVE  bidi[j].on \in known' \cup Opened(bidi', k - 1)
    <3>1. CASE j = 1
      BY <1>1, <2>1, <3>1
    <3>2. CASE j # 1
      <4>1. j - 1 \in 1..(k - 1) /\ bidi'[j - 1] = bidi[j]
        <5>1. j - 1 \in 1..(k - 1) /\ j - 1 \in 1..(n - 1) /\ (j - 1) + 1 = j
          BY <1>1, <3>2
        <5> QED BY <1>1, <5>1
      <4> QED BY <2>1, <4>1 DEF Opened
    <3> QED BY <3>1, <3>2
  <2> QED BY <2>1 DEF Opened
<1>3. ASSUME NEW i \in 1..(n - 1)
      PROVE  /\ bidi'[i].what = "end" => bidi'[i].on \in over'
             /\ bidi'[i].what = "update" => bidi'[i].on \in known' \cup Opened(bidi', i - 1)
  <2>1. bidi'[i] = bidi[i + 1] /\ i + 1 \in 1..n /\ (i + 1) - 1 = i /\ i \in 1..n
    BY <1>1
  <2>2. /\ bidi[i + 1].what = "end" => bidi[i + 1].on \in over
        /\ bidi[i + 1].what = "update" => bidi[i + 1].on \in known \cup Opened(bidi, i)
    BY <2>1 DEF BidiInv, n
  <2>3. known \cup Opened(bidi, i) \subseteq known' \cup Opened(bidi', i - 1)
    BY <1>2, <2>1
  <2> QED BY <2>1, <2>2, <2>3
<1>4. asked' \cap Requests \subseteq known' \cup Opened(bidi', n - 1)
  <2>1. n \in 1..n
    BY <1>1
  <2> QED BY <1>2, <2>1 DEF BidiInv, n
<1> QED BY <1>1, <1>3, <1>4 DEF BidiInv

LEMMA BidiKept ==
  ASSUME BidiInv, known \subseteq known', UNCHANGED <<bidi, asked, over>>
  PROVE  BidiInv'
BY DEF BidiInv

\* What cleanup forgets is over, or refused.
LEMMA Holding ==
  ASSUME HeldInv, NEW state, NEW sending, NEW ended, Drained(state, sending, ended),
         ended \subseteq over, over' = over, refused \subseteq refused',
         rejected \subseteq rejected', halves \subseteq sending \cup rejected',
         \A o \in Own : state[o] # "unsent" => own[o] # "unsent" \/ o \in sending
  PROVE  /\ known \subseteq known' /\ closed' \subseteq over'
         /\ sending \subseteq known'
         /\ \A o \in Own : own'[o] # "unsent" => o \in known'
<1>1. PICK F \in SUBSET ended :
        /\ own' = [o \in Own |-> IF o \in F THEN "forgotten" ELSE state[o]]
        /\ halves' = sending \ F
        /\ closed' = ended \ F
  BY DEF Drained
<1>2. known \subseteq known'
  BY <1>1 DEF known
<1>3. sending \subseteq known'
  BY <1>1 DEF known
<1>4. ASSUME NEW o \in Own, own'[o] # "unsent" PROVE o \in known'
  <2>1. CASE o \in F
    BY <2>1 DEF known
  <2>2. CASE own[o] # "unsent"
    BY <1>2, <2>2 DEF HeldInv
  <2> QED BY <1>1, <1>3, <1>4, <2>1, <2>2
<1> QED BY <1>1, <1>2, <1>3, <1>4

LEMMA HeldPeer ==
  ASSUME TypeOK, BidiInv, HeldInv, Peer
  PROVE  BidiInv' /\ HeldInv'
<1>0. bidi \in Seq(BidiMessages) /\ asked \subseteq Requests \cup Updates
  BY DEF TypeOK, ClientTypeOK
<1>1. ASSUME UNCHANGED <<own, halves, closed, requests, updates, vanished>>, over \subseteq over'
      PROVE  known \subseteq known' /\ HeldInv'
  <2>1. known \subseteq known'
    BY <1>1 DEF known, vanished
  <2> QED BY <1>1, <2>1 DEF HeldInv, vanished
<1>2. ASSUME NEW o \in Own, PeerAnswers(o)
      PROVE  BidiInv' /\ HeldInv'
  <2>1. PICK ok \in BOOLEAN : Tell([what |-> "answer", on |-> o, ok |-> ok])
    BY <1>2 DEF PeerAnswers
  <2> DEFINE m == [what |-> "answer", on |-> o, ok |-> ok]
  <2>2. m \in BidiMessages /\ m.what = "answer"
    BY DEF BidiMessages
  <2>3. /\ UNCHANGED <<own, halves, closed, requests, updates, vanished>>
        /\ over' = over /\ asked' = asked
    BY <1>2 DEF PeerAnswers, peer
  <2> HIDE DEF m
  <2> QED BY <1>1, <2>1, <2>2, <2>3, BidiTold DEF m
<1>3. ASSUME NEW r \in Requests, PeerAsks(r)
      PROVE  BidiInv' /\ HeldInv'
  <2>1. PICK k \in Kinds : Tell([what |-> "request", on |-> r, kind |-> k])
    BY <1>3 DEF PeerAsks
  <2> DEFINE m == [what |-> "request", on |-> r, kind |-> k]
  <2>2. m \in BidiMessages /\ m.what = "request" /\ m.on = r
    BY DEF BidiMessages
  <2>3. /\ UNCHANGED <<own, halves, closed, requests, updates, vanished>>
        /\ over' = over /\ asked' = asked \cup {r}
    BY <1>3 DEF PeerAsks
  <2> HIDE DEF m
  <2> QED BY <1>1, <2>1, <2>2, <2>3, BidiTold DEF m
<1>4. ASSUME NEW u \in Updates, NEW s \in Streams, PeerUpdates(u, s)
      PROVE  BidiInv' /\ HeldInv'
  <2> DEFINE m == [what |-> "update", on |-> s, id |-> u]
  <2>1. Tell(m) /\ m \in BidiMessages /\ m.what = "update" /\ m.on = s
    BY <1>4 DEF PeerUpdates, BidiMessages
  <2>2. /\ UNCHANGED <<own, halves, closed, requests, updates, vanished>>
        /\ over' = over /\ asked' = asked \cup {u}
    BY <1>4 DEF PeerUpdates
  <2>3. s \in known \cup Opened(bidi, Len(bidi))
    <3>1. CASE s \in asked
      <4>1. s \in Requests
        BY <1>0, <3>1, ClientAssumption DEF Streams
      <4> QED BY <3>1, <4>1 DEF BidiInv
    <3>2. CASE s \in Own /\ own[s] = "established"
      BY <3>2 DEF HeldInv
    <3> QED BY <1>4, <3>1, <3>2 DEF PeerUpdates
  <2>4. u \notin Requests
    BY ClientAssumption
  <2> HIDE DEF m
  <2> QED BY <1>1, <2>1, <2>2, <2>3, <2>4, BidiTold
<1>5. ASSUME NEW s \in Streams, PeerEnds(s)
      PROVE  BidiInv' /\ HeldInv'
  <2> DEFINE m == [what |-> "end", on |-> s]
  <2>1. Tell(m) /\ m \in BidiMessages /\ m.what = "end" /\ m.on = s
    BY <1>5 DEF PeerEnds, BidiMessages
  <2>2. /\ UNCHANGED <<own, halves, closed, requests, updates, vanished>>
        /\ over' = over \cup {s} /\ asked' = asked
    BY <1>5 DEF PeerEnds
  <2> HIDE DEF m
  <2> QED BY <1>1, <2>1, <2>2, BidiTold
<1>6. CASE PeerControls
  <2>1. /\ UNCHANGED <<own, halves, closed, requests, updates, vanished>>
        /\ UNCHANGED <<bidi, asked, over>>
    BY <1>6 DEF PeerControls
  <2> QED BY <1>1, <2>1, BidiKept
<1> QED BY <1>2, <1>3, <1>4, <1>5, <1>6 DEF Peer

LEMMA HeldTaken ==
  ASSUME TypeOK, BidiInv, HeldInv,
         RecvAnswer \/ RecvUpdate \/ RecvEnd \/ \E inSelect \in BOOLEAN : RecvRequest(inSelect)
  PROVE  BidiInv' /\ HeldInv'
<1> DEFINE m == Head(bidi)
           U == [on : Streams, id : Updates]
           R == [on : Requests, kind : Kinds]
<1>1. bidi # <<>> /\ bidi' = Tail(bidi) /\ UNCHANGED <<asked, over>>
  BY DEF RecvAnswer, RecvUpdate, RecvEnd, RecvRequest, Next1, peer
<1>2. m = bidi[1] /\ 1 \in 1..Len(bidi) /\ m \in BidiMessages
  <2>1. bidi \in Seq(BidiMessages)
    BY DEF TypeOK, ClientTypeOK
  <2> QED BY <1>1, <2>1
<1>3. closed \subseteq over
  BY DEF HeldInv
<1>4. CASE RecvAnswer
  <2> DEFINE state == IF own[m.on] = "pending"
                      THEN [own EXCEPT ![m.on] = IF m.ok THEN "established" ELSE "terminated"]
                      ELSE own
  <2>1. Drained(state, halves, closed) /\ UNCHANGED <<requests, updates, vanished>>
    BY <1>4 DEF RecvAnswer
  <2>2. m.what = "answer"
    BY <1>4 DEF RecvAnswer, Next1
  <2>3. \A o \in Own : state[o] # "unsent" => own[o] # "unsent"
    BY DEF TypeOK, ClientTypeOK
  <2> HIDE DEF state, m
  <2>4. /\ known \subseteq known' /\ closed' \subseteq over'
        /\ \A o \in Own : own'[o] # "unsent" => o \in known'
    BY <1>1, <1>3, <2>1, <2>3, Holding DEF vanished
  <2>5. BidiInv'
    BY <1>1, <2>2, <2>4, BidiTaken DEF m
  <2> QED BY <2>1, <2>4, <2>5 DEF HeldInv, vanished
<1>5. CASE RecvUpdate
  <2> DEFINE u == [on |-> m.on, id |-> m.id]
  <2>1. /\ m.what = "update" /\ updates' = Append(updates, u)
        /\ Drained(own, halves, closed) /\ UNCHANGED <<requests, vanished>>
    BY <1>5 DEF RecvUpdate, Next1
  <2>2. u \in U /\ u.on = m.on
    BY <1>2, <2>1, MessageTypes
  <2>3. m.on \in known
    <3>1. m.on \in known \cup Opened(bidi, 0)
      <4> HIDE DEF m
      <4>1. 1 - 1 = 0
        OBVIOUS
      <4> QED BY <1>2, <2>1, <4>1 DEF BidiInv
    <3> QED BY <3>1 DEF Opened
  <2>4. updates \in Seq(U)
    BY OnceTypes
  <2> HIDE DEF m, u, U
  <2>5. /\ known \subseteq known' /\ closed' \subseteq over'
        /\ \A o \in Own : own'[o] # "unsent" => o \in known'
    BY <1>1, <1>3, <2>1, Holding DEF vanished
  <2>6. BidiInv'
    BY <1>1, <2>1, <2>5, BidiTaken DEF m
  <2>7. \A i \in 1..Len(updates') : updates'[i].on \in known'
    <3>1. /\ Len(updates') = Len(updates) + 1 /\ updates'[Len(updates) + 1] = u
          /\ \A i \in 1..Len(updates) : updates'[i] = updates[i]
          /\ Len(updates) \in Nat
      BY <2>1, <2>2, <2>4, Appended
    <3> TAKE i \in 1..Len(updates')
    <3>2. i \in 1..Len(updates) \/ i = Len(updates) + 1
      BY <3>1
    <3> QED BY <2>2, <2>3, <2>5, <3>1, <3>2 DEF HeldInv
  <2>8. \A i \in 1..Len(requests') : requests'[i].on \in known'
    BY <2>1, <2>5 DEF HeldInv
  <2> QED BY <2>1, <2>5, <2>6, <2>7, <2>8 DEF HeldInv, vanished
<1>6. CASE RecvEnd
  <2> DEFINE state == [o \in Own |-> IF o = m.on /\ own[o] = "pending" THEN "terminated" ELSE own[o]]
  <2>1. m.what = "end" /\ UNCHANGED <<requests, updates, vanished>>
    BY <1>6 DEF RecvEnd, Next1
  <2>2. PICK ended \in {closed, closed \cup {m.on}} : Drained(state, halves, ended)
    BY <1>6 DEF RecvEnd
  <2>3. ended \subseteq over
    BY <1>2, <1>3, <2>1 DEF BidiInv
  <2>4. \A o \in Own : state[o] # "unsent" => own[o] # "unsent"
    OBVIOUS
  <2> HIDE DEF state, m
  <2>5. /\ known \subseteq known' /\ closed' \subseteq over'
        /\ \A o \in Own : own'[o] # "unsent" => o \in known'
    BY <1>1, <2>1, <2>2, <2>3, <2>4, Holding DEF vanished
  <2>6. BidiInv'
    BY <1>1, <2>1, <2>5, BidiTaken DEF m
  <2> QED BY <2>1, <2>5, <2>6 DEF HeldInv, vanished
<1>7. ASSUME NEW inSelect \in BOOLEAN, RecvRequest(inSelect)
      PROVE  BidiInv' /\ HeldInv'
  <2> DEFINE r == [on |-> m.on, kind |-> m.kind]
  <2>1. m.what = "request" /\ requests' = Append(requests, r) /\ updates' = updates
    BY <1>7 DEF RecvRequest, Next1
  <2>2. r \in R /\ r.on = m.on
    BY <1>2, <2>1, MessageTypes
  <2>3. requests \in Seq(R)
    BY OnceTypes
  <2>4. /\ known \subseteq known' /\ closed' \subseteq over' /\ m.on \in known'
        /\ \A o \in Own : own'[o] # "unsent" => o \in known'
    <3>0. UNCHANGED rejected
      BY <1>7 DEF RecvRequest
    <3>1. CASE Drained(own, halves \cup {m.on}, closed) /\ UNCHANGED refused
      <4> HIDE DEF m
      <4> QED BY <1>1, <1>3, <3>0, <3>1, Holding
    <3>2. CASE refused' = refused \cup {m.on} /\ Drained(own, halves, closed)
      <4> HIDE DEF m
      <4>1. /\ known \subseteq known' /\ closed' \subseteq over'
            /\ \A o \in Own : own'[o] # "unsent" => o \in known'
        BY <1>1, <1>3, <3>0, <3>2, Holding
      <4>2. m.on \in known'
        BY <3>2 DEF known
      <4> QED BY <4>1, <4>2
    <3>3. CASE refused' = refused \cup {m.on} /\ UNCHANGED <<own, halves, closed>>
      <4> HIDE DEF m
      <4>1. known \subseteq known' /\ m.on \in known'
        BY <1>1, <3>0, <3>3 DEF known
      <4> QED BY <1>1, <1>3, <3>3, <4>1 DEF HeldInv
    <3> QED BY <1>7, <3>1, <3>2, <3>3 DEF RecvRequest
  <2> HIDE DEF m, r, R
  <2>5. BidiInv'
    BY <1>1, <2>1, <2>4, BidiTaken DEF m
  <2>6. \A i \in 1..Len(requests') : requests'[i].on \in known'
    <3>1. /\ Len(requests') = Len(requests) + 1 /\ requests'[Len(requests) + 1] = r
          /\ \A i \in 1..Len(requests) : requests'[i] = requests[i]
          /\ Len(requests) \in Nat
      BY <2>1, <2>2, <2>3, Appended
    <3> TAKE i \in 1..Len(requests')
    <3>2. i \in 1..Len(requests) \/ i = Len(requests) + 1
      BY <3>1
    <3> QED BY <2>2, <2>4, <3>1, <3>2 DEF HeldInv
  <2>7. \A i \in 1..Len(updates') : updates'[i].on \in known'
    BY <2>1, <2>4 DEF HeldInv
  <2>8. rejected' \subseteq replied'
    BY <1>7 DEF RecvRequest, HeldInv
  <2> QED BY <2>4, <2>5, <2>6, <2>7, <2>8 DEF HeldInv
<1> QED BY <1>4, <1>5, <1>6, <1>7

LEMMA HeldServed ==
  ASSUME TypeOK, BidiInv, HeldInv, ServeUpdate \/ ServeRequest
  PROVE  BidiInv' /\ HeldInv'
<1> DEFINE U == [on : Streams, id : Updates]
           R == [on : Requests, kind : Kinds]
           u == Head(updates)
           r == Head(requests)
<1>1. updates \in Seq(U) /\ requests \in Seq(R) /\ closed \subseteq over
  BY OnceTypes DEF HeldInv
<1>2. PICK q, s, last : Reply(q, s, last) /\ (last => q = s)
  <2>1. CASE ServeUpdate
    BY <2>1 DEF ServeUpdate
  <2>2. CASE ServeRequest
    BY <2>2 DEF ServeRequest
  <2> QED BY <2>1, <2>2
<1>3. /\ UNCHANGED <<asked, over, bidi, refused>> /\ rejected \subseteq rejected'
      /\ rejected' \subseteq replied'
  BY <1>2, ReplyIs DEF HeldInv
<1>4. PICK sending \in {halves, halves \ {s}} :
        Drained(own, sending, closed) /\ halves \subseteq sending \cup rejected'
  <2>1. CASE last /\ s \in halves
    <3>1. rejected' = rejected \cup {q} /\ q = s
      BY <1>2, <2>1, ReplyIs
    <3> QED BY <1>2, <2>1, <3>1 DEF Reply
  <2>2. CASE ~(last /\ s \in halves)
    BY <1>2, <2>2 DEF Reply
  <2> QED BY <2>1, <2>2
<1>5. /\ known \subseteq known' /\ closed' \subseteq over'
      /\ \A o \in Own : own'[o] # "unsent" => o \in known'
  BY <1>1, <1>3, <1>4, Holding
<1>6. BidiInv'
  BY <1>3, <1>5, BidiKept
<1>7. /\ \A i \in 1..Len(updates') : updates'[i].on \in known
      /\ \A i \in 1..Len(requests') : requests'[i].on \in known
  <2>1. \/ updates # <<>> /\ updates' = Tail(updates) /\ requests' = requests
        \/ requests # <<>> /\ requests' = Tail(requests) /\ updates' = updates
    BY DEF ServeUpdate, ServeRequest, UpdateFirst, RequestNext
  <2>2. /\ \A i \in 1..Len(updates) : updates[i].on \in known
        /\ \A i \in 1..Len(requests) : requests[i].on \in known
    BY DEF HeldInv
  <2> HIDE DEF U, R
  <2>3. CASE updates # <<>> /\ updates' = Tail(updates) /\ requests' = requests
    <3>1. /\ Len(updates') = Len(updates) - 1 /\ Len(updates) \in Nat
          /\ \A i \in 1..Len(updates') : updates'[i] = updates[i + 1]
      BY <1>1, <2>3, TailIs
    <3>2. \A i \in 1..Len(updates') : i + 1 \in 1..Len(updates)
      BY <3>1
    <3> QED BY <2>2, <2>3, <3>1, <3>2
  <2>4. CASE requests # <<>> /\ requests' = Tail(requests) /\ updates' = updates
    <3>1. /\ Len(requests') = Len(requests) - 1 /\ Len(requests) \in Nat
          /\ \A i \in 1..Len(requests') : requests'[i] = requests[i + 1]
      BY <1>1, <2>4, TailIs
    <3>2. \A i \in 1..Len(requests') : i + 1 \in 1..Len(requests)
      BY <3>1
    <3> QED BY <2>2, <2>4, <3>1, <3>2
  <2> QED BY <2>1, <2>3, <2>4
<1> QED BY <1>3, <1>5, <1>6, <1>7 DEF HeldInv

LEMMA HeldNext == TypeOK /\ BidiInv /\ HeldInv /\ [Next]_vars => BidiInv' /\ HeldInv'
<1> SUFFICES ASSUME TypeOK, BidiInv, HeldInv, [Next]_vars PROVE BidiInv' /\ HeldInv'
  OBVIOUS
<1>1. ASSUME UNCHANGED <<bidi, asked, over, requests, updates, vanished>>,
             NEW state, NEW sending, halves \subseteq sending, Drained(state, sending, closed),
             \A o \in Own : state[o] # "unsent" => own[o] # "unsent" \/ o \in sending
      PROVE  BidiInv' /\ HeldInv'
  <2>1. closed \subseteq over
    BY DEF HeldInv
  <2>2. /\ known \subseteq known' /\ closed' \subseteq over'
        /\ \A o \in Own : own'[o] # "unsent" => o \in known'
    BY <1>1, <2>1, Holding DEF vanished
  <2>3. BidiInv'
    BY <1>1, <2>2, BidiKept
  <2> QED BY <1>1, <2>2, <2>3 DEF HeldInv, vanished
<1>2. CASE RecvGoaway \/ Tick
  BY <1>1, <1>2 DEF RecvGoaway, Tick, peer
<1>3. ASSUME NEW o \in Own, OpenRequest(o)
      PROVE  BidiInv' /\ HeldInv'
  <2> DEFINE state == [own EXCEPT ![o] = "pending"]
  <2>1. /\ Drained(state, halves \cup {o}, closed)
        /\ UNCHANGED <<bidi, asked, over, requests, updates, vanished>>
    BY <1>3 DEF OpenRequest, peer
  <2>2. \A x \in Own : state[x] # "unsent" => own[x] # "unsent" \/ x \in halves \cup {o}
    BY DEF TypeOK, ClientTypeOK
  <2> HIDE DEF state
  <2> QED BY <1>1, <2>1, <2>2
<1>4. CASE UNCHANGED clientVars
  <2>1. known' = known /\ UNCHANGED <<bidi, asked, over, own, closed, requests, updates, replied, rejected>>
    BY <1>4 DEF clientVars, known
  <2> QED BY <2>1, BidiKept DEF HeldInv
<1> QED BY <1>2, <1>3, <1>4, ClientSteps, HeldPeer, HeldTaken, HeldServed

LEMMA HeldInit == Init => BidiInv /\ HeldInv
<1> SUFFICES ASSUME Init PROVE BidiInv /\ HeldInv
  OBVIOUS
<1>1. /\ bidi = <<>> /\ requests = <<>> /\ updates = <<>> /\ asked = {} /\ closed = {}
      /\ rejected = {} /\ own = [o \in Own |-> "unsent"]
  BY DEF Init, ClientInit
<1> QED BY <1>1 DEF BidiInv, HeldInv

\* A question is served while it is queued, so that it was not answered before: were its
\* stream forgotten, the stream would be over.
LEMMA Drops ==
  ASSUME TypeOK, OnceInv, HeldInv, [Next]_vars, NEW q \in dropped' \ dropped
  PROVE  \/ q \in over
         \/ \E i \in 1..Len(updates) : /\ updates[i].id = q
                                       /\ updates[i].on \in over \cup refused \cup rejected
<1> DEFINE U == [on : Streams, id : Updates]
           R == [on : Requests, kind : Kinds]
           u == Head(updates)
           r == Head(requests)
<1>1. updates \in Seq(U) /\ requests \in Seq(R)
  BY OnceTypes
<1>2. CASE ServeUpdate
  <2>1. Reply(u.id, u.on, FALSE) /\ updates # <<>>
    BY <1>2 DEF ServeUpdate, UpdateFirst
  <2>2. q = u.id /\ u.on \notin halves
    <3> HIDE DEF u
    <3>1. \/ u.on \in halves /\ dropped' = dropped
          \/ u.on \notin halves /\ dropped' = dropped \cup {u.id}
      BY <2>1, ReplyIs
    <3> QED BY <3>1
  <2> HIDE DEF U
  <2>3. 1 \in 1..Len(updates) /\ u = updates[1]
    BY <1>1, <2>1
  <2>4. u.on \in over \cup refused \cup rejected
    BY <2>2, <2>3 DEF HeldInv, known
  <2> QED BY <2>2, <2>3, <2>4
<1>3. CASE ServeRequest
  <2>1. (\E last \in BOOLEAN : Reply(r.on, r.on, last)) /\ requests # <<>>
    BY <1>3 DEF ServeRequest, RequestNext
  <2>2. q = r.on /\ q \notin halves /\ q \notin refused
    <3> HIDE DEF r
    <3> QED BY <2>1, ReplyIs
  <2>3. /\ 1 \in 1..Len(requests) /\ r = requests[1] /\ r \in R
        /\ Tail(requests) \in Seq(R)
        /\ Amount(RequestOf(q), requests)
             = Amount(RequestOf(q), Tail(requests)) + IF r \in RequestOf(q) THEN 1 ELSE 0
        /\ Amount(RequestOf(q), Tail(requests)) \in Nat
    <3> HIDE DEF R
    <3>1. 1 \in 1..Len(requests) /\ r = requests[1]
      BY <1>1, <2>1
    <3>2. r \in R /\ Tail(requests) \in Seq(R)
      BY <1>1, <2>1, HeadTailProperties
    <3> QED BY <1>1, <2>1, <3>1, <3>2, AmountTail, AmountType
  <2>4. r \in RequestOf(q) /\ q \in Requests
    BY <2>2, <2>3 DEF RequestOf
  <2>5. Amount(RequestOf(q), requests) >= 1
    BY <2>3, <2>4
  <2>6. q \notin rejected
    <3>1. Places(q) <= 1
      BY <2>2, <2>4 DEF OnceInv, InOne
    <3>2. InOne(settled, q) = 0
      BY <2>5, <3>1, OnceTypes DEF Places
    <3> QED BY <2>2, <3>2 DEF InOne, settled, HeldInv
  <2>7. q \in known
    BY <2>2, <2>3 DEF HeldInv
  <2> QED BY <2>2, <2>6, <2>7 DEF known
<1>4. ASSUME NEW inSelect \in BOOLEAN, RecvRequest(inSelect)
      PROVE  FALSE
  BY <1>4 DEF RecvRequest
<1>5. CASE Peer
  BY <1>5 DEF Peer, PeerAnswers, PeerAsks, PeerUpdates, PeerEnds, PeerControls, vanished
<1>6. CASE RecvAnswer \/ RecvUpdate \/ RecvEnd \/ RecvGoaway \/ Tick \/ UNCHANGED clientVars
  BY <1>6 DEF RecvAnswer, RecvUpdate, RecvEnd, RecvGoaway, Tick, clientVars, vanished
<1>7. ASSUME NEW o \in Own, OpenRequest(o)
      PROVE  FALSE
  BY <1>7 DEF OpenRequest, vanished
<1> QED BY <1>2, <1>3, <1>4, <1>5, <1>6, <1>7, ClientSteps

\* No step throws away what the application answers, unless the relay has closed the
\* stream, or the question is an update of a stream that momo's side has closed with a
\* refusal: for any interleaving of requests, updates, ends and the session's cleanup.
THEOREM AnswersDelivered == Spec => AnswersReachOpenStreams
<1>1. Spec => [](TypeOK /\ OnceInv)
  BY TypeCorrect, OnceInit, OnceNext, PTL DEF Spec
<1>2. Spec => [](TypeOK /\ BidiInv /\ HeldInv)
  BY TypeCorrect, HeldInit, HeldNext, PTL DEF Spec
<1> DEFINE A == \A q \in dropped' \ dropped :
                  \/ q \in over
                  \/ \E i \in 1..Len(updates) : /\ updates[i].id = q
                                                /\ updates[i].on \in over \cup refused \cup rejected
<1>3. TypeOK /\ OnceInv /\ HeldInv /\ [Next]_vars => [A]_vars
  BY Drops
<1>4. Spec => [][A]_vars
  <2> HIDE DEF A
  <2> QED BY <1>1, <1>2, <1>3, PTL DEF Spec
<1> QED BY <1>4 DEF AnswersReachOpenStreams

--------------------------------------------------------------------------------
(* VideoInOrder.  The frames that wait, in pending_video or in the handler *)
(* that sends them, are newer than all that were sent and no newer than    *)
(* the clock; only one of the two queues is ever in use, since pending     *)
(* fills before the catalog is out and the handler sends after it.         *)

VideoStreams == {i \in Indices : streams[i].track = "video"}

SentTimes ==
  {t \in Int : \E i \in VideoStreams : \E k \in DOMAIN streams[i].objects :
                 streams[i].objects[k].ts = t}

\* Frames in order, newer than those sent and no newer than the last one encoded.
Waiting(queue, sent, last) ==
  \A k \in DOMAIN queue :
    /\ queue[k].ts <= last
    /\ \A t \in sent : t < queue[k].ts
    /\ \A l \in DOMAIN queue : k < l => queue[k].ts < queue[l].ts

OrderInv ==
  /\ WriterInv /\ VideoInOrder
  /\ writer # 0 => \A i \in VideoStreams : i <= writer
  /\ \A t \in SentTimes : t <= videoLast
  /\ Waiting(pending, SentTimes, videoLast)
  /\ ready => pending = <<>>
  /\ ready => \E j \in Indices : streams[j].track = "catalog" /\ streams[j].end = "fin"
  /\ pc = "send" => ready /\ Waiting(todo, SentTimes, videoLast)

LEMMA OrderInit == Init => OrderInv
<1> SUFFICES ASSUME Init PROVE OrderInv
  OBVIOUS
<1>1. /\ writer = 0 /\ streams = <<>> /\ pending = <<>> /\ ready = FALSE /\ pc = "setup"
  BY DEF Init
<1>2. Indices = {} /\ DOMAIN pending = {}
  BY <1>1 DEF Indices
<1> QED BY <1>1, <1>2 DEF OrderInv, WriterInv, VideoInOrder, VideoStreams, SentTimes, Waiting

\* Streams that keep their video and the complete catalogs keep the order.
LEMMA OrderKept ==
  ASSUME TypeOK, OrderInv, Len(streams') \in Nat, Len(streams') >= Len(streams),
         VideoStreams' = VideoStreams,
         \A i \in VideoStreams : streams'[i].objects = streams[i].objects,
         \A i \in Indices : streams[i].track = "catalog" => streams'[i] = streams[i]
  PROVE  /\ VideoInOrder' /\ SentTimes' = SentTimes
         /\ ready => \E j \in Indices' : streams'[j].track = "catalog" /\ streams'[j].end = "fin"
<1>1. Indices \subseteq Indices' /\ Len(streams) \in Nat
  BY SeqTypes DEF Indices
<1>2. SentTimes' = SentTimes
  BY DEF SentTimes
<1>3. ASSUME NEW i \in VideoStreams'
      PROVE  \E j \in 1..(i - 1) : streams'[j].track = "catalog" /\ streams'[j].end = "fin"
  <2>1. PICK j \in 1..(i - 1) : streams[j].track = "catalog" /\ streams[j].end = "fin"
    BY <1>3 DEF OrderInv, VideoInOrder, VideoStreams
  <2>2. j \in Indices
    BY <1>1, <1>3 DEF VideoStreams, Indices
  <2> QED BY <2>1, <2>2
<1>4. ASSUME NEW i \in VideoStreams', NEW j \in VideoStreams',
             NEW k \in DOMAIN streams'[i].objects, NEW l \in DOMAIN streams'[j].objects,
             i < j \/ (i = j /\ k < l)
      PROVE  streams'[i].objects[k].ts < streams'[j].objects[l].ts
  BY <1>4 DEF OrderInv, VideoInOrder, VideoStreams
<1>5. VideoInOrder'
  BY <1>3, <1>4 DEF VideoInOrder, VideoStreams
<1>6. ASSUME ready
      PROVE  \E j \in Indices' : streams'[j].track = "catalog" /\ streams'[j].end = "fin"
  BY <1>1, <1>6 DEF OrderInv
<1> QED BY <1>2, <1>5, <1>6

\* A frame is encoded: its time is newer than all before.
LEMMA OrderTake ==
  ASSUME TypeOK, OrderInv, TakeVideo
  PROVE  OrderInv'
<1>1. /\ UNCHANGED <<ready, writer, streams>> /\ pc = "idle"
      /\ pending \in Seq(Outputs) /\ videoLast \in Nat \cup {None}
  BY DEF TakeVideo, TypeOK, PublisherTypeOK
<1>2. VideoInOrder' /\ WriterInv' /\ VideoStreams' = VideoStreams /\ SentTimes' = SentTimes
      /\ Indices' = Indices
  BY <1>1 DEF OrderInv, VideoInOrder, WriterInv, VideoStreams, SentTimes, Indices
<1>3. CASE UNCHANGED <<pc, video>>
  BY <1>1, <1>2, <1>3 DEF OrderInv, video
<1>4. ASSUME NEW key \in BOOLEAN,
             videoLast' = Convert(videoLast, Head(videoCh)),
             \/ /\ ready /\ todo' = <<[ts |-> videoLast', key |-> key]>> /\ UNCHANGED pending
             \/ /\ ~ready /\ pc' # "send"
                /\ pending' = Append(pending, [ts |-> videoLast', key |-> key])
      PROVE  OrderInv'
  <2> DEFINE out == [ts |-> videoLast', key |-> key]
  <2>1. videoLast' \in Nat /\ videoLast < videoLast' /\ videoLast \in Int
    <3>1. Head(videoCh) \in Nat
      <4>1. videoCh \in Seq(Times) /\ videoCh # <<>>
        BY DEF TypeOK, PublisherTypeOK, TakeVideo
      <4>2. Head(videoCh) \in Times
        BY <4>1
      <4> QED BY <4>2, PublisherAssumption DEF Times
    <3>2. CASE videoLast = None
      BY <1>4, <3>1, <3>2 DEF Convert, None
    <3>3. CASE videoLast \in Nat
      BY <1>4, <3>1, <3>3 DEF Convert, None
    <3> QED BY <1>1, <3>2, <3>3
  <2>2. \A t \in SentTimes : t <= videoLast /\ t \in Int /\ t < videoLast'
    <3>1. \A t \in SentTimes : t <= videoLast /\ t \in Int
      BY DEF OrderInv, SentTimes
    <3> QED BY <2>1, <3>1
  <2>3. \A t \in SentTimes : t <= videoLast'
    BY <2>1, <2>2
  <2>4. out \in Outputs /\ out.ts = videoLast'
    BY <2>1 DEF Outputs
  <2>5. \A k \in DOMAIN pending : /\ pending[k].ts \in Int
                                  /\ pending[k].ts <= videoLast
                                  /\ pending[k].ts < videoLast'
    <3>1. \A k \in DOMAIN pending : pending[k].ts \in Int
      <4>1. \A k \in DOMAIN pending : pending[k] \in Outputs
        BY <1>1
      <4> QED BY <4>1 DEF Outputs
    <3>2. \A k \in DOMAIN pending : pending[k].ts <= videoLast
      BY DEF OrderInv, Waiting
    <3> QED BY <2>1, <3>1, <3>2
  <2> HIDE DEF out
  <2>6. CASE ready /\ todo' = <<out>> /\ UNCHANGED pending
    <3>1. Waiting(todo', SentTimes', videoLast')
      <4>1. DOMAIN <<out>> = {1} /\ <<out>>[1] = out
        OBVIOUS
      <4> QED BY <1>2, <2>1, <2>2, <2>4, <2>6, <4>1 DEF Waiting
    <3>2. Waiting(pending', SentTimes', videoLast')
      BY <1>2, <2>1, <2>5, <2>6 DEF OrderInv, Waiting
    <3> QED BY <1>1, <1>2, <2>3, <2>6, <3>1, <3>2 DEF OrderInv
  <2>7. CASE ~ready /\ pc' # "send" /\ pending' = Append(pending, out)
    <3>1. Waiting(pending', SentTimes', videoLast')
      <4> DEFINE n == Len(pending) + 1
      <4>1. /\ DOMAIN pending' = (DOMAIN pending) \cup {n} /\ pending'[n] = out
            /\ \A k \in DOMAIN pending : pending'[k] = pending[k] /\ k < n
        BY <1>1, <2>4, <2>7
      <4>2. DOMAIN pending \subseteq Nat /\ n \in Nat
        BY <1>1
      <4> HIDE DEF n
      <4>3. \A k \in DOMAIN pending : /\ \A t \in SentTimes : t < pending[k].ts
                                      /\ \A l \in DOMAIN pending : k < l => pending[k].ts < pending[l].ts
        BY DEF OrderInv, Waiting
      <4> SUFFICES ASSUME NEW k \in DOMAIN pending'
                   PROVE  /\ pending'[k].ts <= videoLast'
                          /\ \A t \in SentTimes : t < pending'[k].ts
                          /\ \A l \in DOMAIN pending' : k < l => pending'[k].ts < pending'[l].ts
        BY <1>2 DEF Waiting
      <4>4. CASE k = n
        BY <2>1, <2>2, <2>4, <4>1, <4>2, <4>4
      <4>5. CASE k \in DOMAIN pending
        BY <2>1, <2>4, <2>5, <4>1, <4>3, <4>5
      <4> QED BY <4>1, <4>4, <4>5
    <3> QED BY <1>1, <1>2, <2>3, <2>7, <3>1 DEF OrderInv
  <2> QED BY <1>4, <2>6, <2>7 DEF out
<1>5. \/ UNCHANGED <<pc, video>>
      \/ \E key \in BOOLEAN :
           /\ videoLast' = Convert(videoLast, Head(videoCh))
           /\ \/ /\ ready /\ todo' = <<[ts |-> videoLast', key |-> key]>> /\ UNCHANGED pending
              \/ /\ ~ready /\ pc' # "send"
                 /\ pending' = Append(pending, [ts |-> videoLast', key |-> key])
  BY <1>1 DEF TakeVideo, PublishTrack
<1> QED BY <1>3, <1>4, <1>5

\* A frame is sent: it is the last object of the last video stream, and the oldest of
\* those that waited.
LEMMA OrderSend ==
  ASSUME TypeOK, OrderInv, SendVideo
  PROVE  OrderInv'
<1> DEFINE o == Head(todo)
           n == Len(streams)
           Old(i, k) == /\ i \in VideoStreams /\ k \in DOMAIN streams[i].objects
                        /\ streams'[i].objects[k] = streams[i].objects[k]
           Last(i, k) == /\ i = writer' /\ streams'[i].objects[k].ts = o.ts
                         /\ \A l \in DOMAIN streams'[i].objects : l <= k
<1>0. TypeOK'
  BY TypeNext DEF Next, Handler
<1>1. /\ streams \in Seq(StreamRecords) /\ writer \in 0..n /\ n \in Nat
      /\ streams' \in Seq(StreamRecords) /\ writer' \in 0..Len(streams') /\ Len(streams') \in Nat
  BY <1>0, SeqTypes, SeqTypesAfter
<1>2. /\ pc = "send" /\ ready /\ todo' = Tail(todo) /\ UNCHANGED <<ready, pending, videoLast>>
      /\ pending = <<>> /\ WriterInv
  BY DEF SendVideo, OrderInv
<1>3. /\ todo \in Seq(Outputs) /\ todo # <<>> /\ o \in Outputs /\ o = todo[1]
      /\ Len(todo) \in Nat \ {0} /\ Len(todo') = Len(todo) - 1
      /\ \A k \in 1..Len(todo') : todo'[k] = todo[k + 1] /\ k + 1 \in 1..Len(todo) /\ k \in Nat
  <2>1. todo \in Seq(Outputs) /\ todo # <<>>
    BY <1>2 DEF TypeOK, PublisherTypeOK
  <2>2. o \in Outputs /\ o = todo[1]
    BY <2>1
  <2>3. /\ Len(todo') = Len(todo) - 1 /\ \A k \in 1..Len(todo') : todo'[k] = todo[k + 1]
        /\ Len(todo) \in Nat \ {0}
    BY <1>2, <2>1
  <2> QED BY <2>1, <2>2, <2>3
<1>4. /\ Len(streams') \in {n, n + 1}
      /\ \A i \in Indices :
           /\ streams'[i].track = streams[i].track
           /\ i # writer => streams'[i] = streams[i]
           /\ i # writer' => streams'[i].objects = streams[i].objects
      /\ Len(streams') = n + 1 => writer' = n + 1
      /\ Len(streams') = n => writer' = writer
      /\ writer' # 0 => streams'[writer'].track = "video"
  BY <1>2, VideoAdds
<1>5. /\ \A i \in VideoStreams' : i \in VideoStreams \/ i = writer'
      /\ writer' # 0 => \A i \in VideoStreams' : i <= writer'
      /\ \A i \in VideoStreams' \ {writer'} : streams'[i].objects = streams[i].objects
      /\ VideoStreams \subseteq VideoStreams'
  <2>1. \A i \in VideoStreams' : i \in Indices \/ i = writer'
    BY <1>1, <1>4 DEF VideoStreams, Indices
  <2>2. \A i \in VideoStreams : i <= n /\ i \in Indices'
    BY <1>1, <1>4 DEF VideoStreams, Indices
  <2>3. \A i \in VideoStreams' \ {writer'} : i \in Indices /\ i \in VideoStreams
    BY <1>4, <2>1 DEF VideoStreams
  <2>4. writer' # 0 => \A i \in VideoStreams' : i <= writer'
    <3>1. CASE Len(streams') = n + 1
      BY <1>1, <1>4, <3>1 DEF VideoStreams, Indices
    <3>2. CASE Len(streams') = n
      <4>1. writer' # 0 => \A i \in VideoStreams : i <= writer'
        BY <1>4, <3>2 DEF OrderInv
      <4> QED BY <1>1, <2>3, <4>1
    <3> QED BY <1>4, <3>1, <3>2
  <2>5. VideoStreams \subseteq VideoStreams'
    BY <1>4, <2>2 DEF VideoStreams
  <2> QED BY <1>4, <2>3, <2>4, <2>5
<1>6. o.ts \in Int /\ o.ts <= videoLast /\ (\A t \in SentTimes : t < o.ts)
      /\ \A k \in 1..Len(todo') : o.ts < todo'[k].ts
  <2>1. Waiting(todo, SentTimes, videoLast)
    BY <1>2 DEF OrderInv
  <2>2. 1 \in DOMAIN todo /\ DOMAIN todo = 1..Len(todo)
    BY <1>3
  <2>3. \A l \in DOMAIN todo : 1 < l => todo[1].ts < todo[l].ts
    BY <2>1, <2>2 DEF Waiting
  <2>4. \A k \in 1..Len(todo') : k + 1 \in DOMAIN todo /\ 1 < k + 1
    BY <1>3, <2>2
  <2>5. o.ts \in Int
    BY <1>3 DEF Outputs
  <2> QED BY <1>3, <2>1, <2>2, <2>3, <2>4, <2>5 DEF Waiting
<1> HIDE DEF o
<1>7. ASSUME NEW i \in VideoStreams', NEW k \in DOMAIN streams'[i].objects
      PROVE  Old(i, k) \/ Last(i, k)
  <2>1. CASE i # writer'
    BY <1>5, <1>7, <2>1
  <2>2. CASE i = writer'
    <3> DEFINE before == IF writer' = writer THEN streams[writer].objects ELSE <<>>
    <3>1. writer' # 0
      BY <1>1, <2>2 DEF VideoStreams, Indices
    <3>2. PICK pass \in BOOLEAN, d \in Int :
            streams'[writer'].objects =
              IF pass THEN Append(before, [delta |-> d, ts |-> o.ts, config |-> o.key]) ELSE before
      BY <1>2, <3>1, VideoAdds DEF o
    <3> DEFINE x == [delta |-> d, ts |-> o.ts, config |-> o.key]
    <3>3. /\ before \in Seq([delta : Int, ts : Int, config : BOOLEAN])
          /\ x \in [delta : Int, ts : Int, config : BOOLEAN] /\ x.ts = o.ts
      <4>1. writer' = writer => streams[writer] \in StreamRecords
        BY <1>1, <3>1
      <4>2. before \in Seq([delta : Int, ts : Int, config : BOOLEAN])
        BY <4>1 DEF StreamRecords
      <4>3. o.key \in BOOLEAN
        BY <1>3 DEF Outputs
      <4> QED BY <1>6, <4>2, <4>3
    <3>4. writer' = writer => writer \in VideoStreams /\ before = streams[writer].objects
      BY <1>1, <1>2, <3>1 DEF WriterInv, VideoStreams, Indices
    <3>5. writer' # writer => before = <<>>
      OBVIOUS
    <3> DEFINE Obj == [delta : Int, ts : Int, config : BOOLEAN]
    <3>6. before \in Seq(Obj) /\ x \in Obj
      BY <3>3
    <3> HIDE DEF before, x, Obj
    <3>7. \A j \in DOMAIN before : writer' = writer
      BY <3>5
    <3>8. CASE pass
      <4>1. streams'[writer'].objects = Append(before, x)
        BY <3>2, <3>8 DEF x
      <4>2. /\ DOMAIN Append(before, x) = 1..(Len(before) + 1) /\ DOMAIN before = 1..Len(before)
            /\ Len(before) \in Nat
            /\ \A j \in DOMAIN before : Append(before, x)[j] = before[j]
            /\ Append(before, x)[Len(before) + 1] = x
        BY <3>6
      <4>3. CASE k \in DOMAIN before
        BY <2>2, <3>4, <3>7, <4>1, <4>2, <4>3
      <4>4. CASE k = Len(before) + 1
        BY <2>2, <3>3, <4>1, <4>2, <4>4
      <4> QED BY <1>7, <2>2, <4>1, <4>2, <4>3, <4>4
    <3>9. CASE ~pass
      BY <1>7, <2>2, <3>2, <3>4, <3>7, <3>9
    <3> QED BY <3>8, <3>9
  <2> QED BY <2>1, <2>2
<1>8. \A i \in VideoStreams, k \in Nat : Old(i, k) => streams'[i].objects[k].ts \in SentTimes
  <2> SUFFICES ASSUME NEW i \in VideoStreams, NEW k \in Nat, Old(i, k)
               PROVE  streams[i].objects[k].ts \in SentTimes
    OBVIOUS
  <2>1. streams[i] \in StreamRecords
    BY <1>1 DEF VideoStreams, Indices
  <2>2. streams[i].objects[k].ts \in Int
    <3> DEFINE Obj == [delta : Int, ts : Int, config : BOOLEAN]
    <3>1. streams[i].objects \in Seq(Obj) /\ k \in DOMAIN streams[i].objects
      BY <2>1 DEF StreamRecords
    <3> HIDE DEF Obj
    <3>2. streams[i].objects[k] \in Obj
      BY <3>1
    <3> QED BY <3>2 DEF Obj
  <2> QED BY <2>2 DEF SentTimes
<1>9. \A i \in VideoStreams' : DOMAIN streams'[i].objects \subseteq Nat
  <2> TAKE i \in VideoStreams'
  <2>1. streams'[i] \in StreamRecords
    BY <1>1 DEF VideoStreams, Indices
  <2>2. streams'[i].objects \in Seq([delta : Int, ts : Int, config : BOOLEAN])
    BY <2>1 DEF StreamRecords
  <2> QED BY <2>2
<1>10. \A t \in SentTimes' : t \in SentTimes \/ t = o.ts
  <2> SUFFICES ASSUME NEW i \in VideoStreams', NEW k \in DOMAIN streams'[i].objects
               PROVE  streams'[i].objects[k].ts \in SentTimes \cup {o.ts}
    BY DEF SentTimes
  <2> QED BY <1>7, <1>8, <1>9
<1>11. VideoInOrder'
  <2>1. ASSUME NEW i \in VideoStreams'
        PROVE  \E j \in 1..(i - 1) : streams'[j].track = "catalog" /\ streams'[j].end = "fin"
    <3>1. \A j \in Indices : streams[j].track = "catalog" => streams'[j] = streams[j]
      <4> TAKE j \in Indices
      <4>1. j = writer => writer # 0
        BY <1>1 DEF Indices
      <4> QED BY <1>2, <1>4, <4>1 DEF WriterInv
    <3>2. CASE i \in VideoStreams
      <4>1. PICK j \in 1..(i - 1) : streams[j].track = "catalog" /\ streams[j].end = "fin"
        BY <3>2 DEF OrderInv, VideoInOrder, VideoStreams
      <4>2. j \in Indices
        BY <1>1, <3>2 DEF VideoStreams, Indices
      <4> QED BY <3>1, <4>1, <4>2
    <3>3. CASE i \notin VideoStreams
      <4>1. PICK j \in Indices : streams[j].track = "catalog" /\ streams[j].end = "fin"
        BY <1>2 DEF OrderInv
      <4>2. i = n + 1
        <5>1. i = writer' /\ writer' # 0
          BY <1>1, <1>5, <2>1, <3>3 DEF VideoStreams, Indices
        <5>2. writer' # writer
          BY <1>1, <1>2, <3>3, <5>1 DEF VideoStreams, WriterInv, Indices
        <5> QED BY <1>4, <5>1, <5>2
      <4>3. j \in 1..(i - 1)
        BY <1>1, <4>2 DEF Indices
      <4> QED BY <3>1, <4>1, <4>3
    <3> QED BY <3>2, <3>3
  <2>2. ASSUME NEW i \in VideoStreams', NEW j \in VideoStreams',
               NEW k \in DOMAIN streams'[i].objects, NEW l \in DOMAIN streams'[j].objects,
               i < j \/ (i = j /\ k < l)
        PROVE  streams'[i].objects[k].ts < streams'[j].objects[l].ts
    <3>0. k \in Nat /\ l \in Nat /\ i \in Nat /\ j \in Nat
      BY <1>1, <1>9 DEF VideoStreams, Indices
    <3>1. CASE Old(i, k) /\ Old(j, l)
      BY <2>2, <3>1 DEF OrderInv, VideoInOrder, VideoStreams
    <3>2. CASE Old(i, k) /\ Last(j, l)
      BY <1>6, <1>8, <3>0, <3>2
    <3>3. CASE Last(i, k)
      <4>1. j <= i
        BY <1>1, <1>5, <3>0, <3>3 DEF VideoStreams, Indices
      <4>2. i = j /\ k < l
        BY <2>2, <3>0, <4>1
      <4> QED BY <2>2, <3>0, <3>3, <4>2
    <3> QED BY <1>7, <3>1, <3>2, <3>3
  <2> HIDE DEF Old, Last, n
  <2> QED BY <2>1, <2>2 DEF VideoInOrder, VideoStreams
<1>12. WriterInv'
  BY <1>4 DEF WriterInv
<1>13. \A t \in SentTimes' : t <= videoLast'
  BY <1>2, <1>6, <1>10 DEF OrderInv
<1>14. Waiting(pending', SentTimes', videoLast')
  BY <1>2 DEF Waiting
<1>15. \E j \in Indices' : streams'[j].track = "catalog" /\ streams'[j].end = "fin"
  <2>1. PICK j \in Indices : streams[j].track = "catalog" /\ streams[j].end = "fin"
    BY <1>2 DEF OrderInv
  <2>2. streams'[j] = streams[j] /\ j \in Indices'
    BY <1>1, <1>2, <1>4, <2>1 DEF WriterInv, Indices
  <2> QED BY <2>1, <2>2
<1>16. Waiting(todo', SentTimes', videoLast')
  <2>1. Waiting(todo, SentTimes, videoLast) /\ DOMAIN todo = 1..Len(todo)
    BY <1>2, <1>3 DEF OrderInv
  <2>2. DOMAIN todo' = 1..Len(todo')
    BY <1>2, <1>3
  <2> SUFFICES ASSUME NEW k \in 1..Len(todo')
               PROVE  /\ todo'[k].ts <= videoLast'
                      /\ \A t \in SentTimes' : t < todo'[k].ts
                      /\ \A l \in 1..Len(todo') : k < l => todo'[k].ts < todo'[l].ts
    BY <2>2 DEF Waiting
  <2>3. todo'[k] = todo[k + 1] /\ k + 1 \in DOMAIN todo
    BY <1>3, <2>1
  <2>4. \A l \in 1..Len(todo') : k < l => k + 1 < l + 1 /\ l + 1 \in DOMAIN todo
    BY <1>3, <2>1
  <2> QED BY <1>2, <1>3, <1>6, <1>10, <2>1, <2>3, <2>4 DEF Waiting
<1> QED BY <1>2, <1>5, <1>11, <1>12, <1>13, <1>14, <1>15, <1>16 DEF OrderInv

\* The steps that touch the streams, the clock of the video or its queues.
LEMMA OrderSteps ==
  ASSUME TypeOK, [Next]_vars
  PROVE  \/ TakeVideo \/ SendVideo \/ SendAudio \/ PublishCatalog \/ Finish
         \/ /\ UNCHANGED <<streams, writer, ready, pending, todo, videoLast>>
            /\ pc' = "send" => pc = "send"
<1> USE DEF media, video
<1>1. CASE Peer \/ CaptureVideo \/ CaptureAudio
  BY <1>1 DEF Peer, CaptureVideo, CaptureAudio, Environment
<1>2. CASE TakeAudio
  BY <1>2 DEF TakeAudio
<1>3. CASE TakeMessage \/ ServeUpdate \/ RunTimer \/ Wait
  BY <1>3 DEF TakeMessage, ServeUpdate, RunTimer, Wait
<1>4. CASE ServeRequest \/ SetUp \/ Established \/ SendFetched
  BY <1>4 DEF ServeRequest, SetUp, PublishTrack, Established, SendFetched
<1>5. CASE Break \/ Fail \/ Stop
  BY <1>5 DEF Break, Fail, Stop
<1>6. CASE UNCHANGED vars
  BY <1>6 DEF vars
<1> QED BY <1>1, <1>2, <1>3, <1>4, <1>5, <1>6 DEF Next, NextEvent, Handler

LEMMA OrderNext == TypeOK /\ OrderInv /\ [Next]_vars => OrderInv'
<1> SUFFICES ASSUME TypeOK, OrderInv, [Next]_vars PROVE OrderInv'
  OBVIOUS
<1>0. TypeOK'
  BY TypeNext
<1>1. /\ streams \in Seq(StreamRecords) /\ writer \in 0..Len(streams) /\ Len(streams) \in Nat
      /\ streams' \in Seq(StreamRecords) /\ Len(streams') \in Nat
  BY <1>0, SeqTypes, SeqTypesAfter
<1>2. WriterInv
  BY DEF OrderInv
<1>3. writer # 0 => writer \in Indices
  BY <1>1 DEF Indices
<1>4. CASE SendAudio \/ PublishCatalog
  <2> DEFINE n == Len(streams) + 1
  <2>1. PICK s \in StreamRecords :
          /\ streams' = Append(streams, s) /\ s.track # "video"
          /\ PublishCatalog => s.track = "catalog" /\ (pc' = "failed" \/ s.end = "fin")
    <3>1. CASE SendAudio
      <4>1. PICK pass \in BOOLEAN :
              /\ streams' = Append(streams, AudioStream(pass, audioLast'))
              /\ AudioStream(pass, audioLast') \in StreamRecords
              /\ audioLast' \in Int
        BY <3>1, AudioAdds
      <4>2. AudioStream(pass, audioLast').track = "audio"
        BY <4>1, AudioStreamIs
      <4>3. ~PublishCatalog
        BY <3>1 DEF SendAudio, PublishCatalog
      <4> QED BY <4>1, <4>2, <4>3
    <3>2. CASE PublishCatalog
      BY <3>2, CatalogAdds
    <3> QED BY <1>4, <3>1, <3>2
  <2>2. /\ Len(streams') = n /\ streams'[n] = s
        /\ \A i \in Indices : streams'[i] = streams[i]
    BY <1>1, <2>1, Appended DEF Indices
  <2> HIDE DEF n
  <2>3. Indices' = Indices \cup {n} /\ n \notin Indices
    BY <1>1, <2>2 DEF Indices, n
  <2>4. VideoStreams' = VideoStreams
    BY <2>1, <2>2, <2>3 DEF VideoStreams
  <2>5. /\ VideoInOrder' /\ SentTimes' = SentTimes
        /\ ready => \E j \in Indices' : streams'[j].track = "catalog" /\ streams'[j].end = "fin"
    <3>1. \A i \in VideoStreams : streams'[i].objects = streams[i].objects
      BY <2>2 DEF VideoStreams
    <3>2. Len(streams') >= Len(streams)
      BY <1>1, <2>2 DEF n
    <3> QED BY <1>1, <2>2, <2>4, <3>1, <3>2, OrderKept
  <2>6. writer' = writer /\ videoLast' = videoLast /\ WriterInv'
    <3>1. writer' = writer /\ videoLast' = videoLast
      BY <1>4 DEF SendAudio, PublishCatalog, video
    <3> QED BY <1>2, <1>3, <2>2, <3>1 DEF WriterInv
  <2>7. CASE SendAudio
    <3>1. UNCHANGED <<ready, pending>> /\ pc' # "send"
      BY <2>7 DEF SendAudio, video
    <3> QED BY <2>4, <2>5, <2>6, <3>1 DEF OrderInv
  <2>8. CASE PublishCatalog
    <3>1. CASE ready' = TRUE /\ todo' = pending /\ pending' = <<>> /\ pc' # "failed"
      <4>1. \E j \in Indices' : streams'[j].track = "catalog" /\ streams'[j].end = "fin"
        BY <2>1, <2>2, <2>3, <2>8, <3>1
      <4>2. Waiting(pending', SentTimes', videoLast') /\ Waiting(todo', SentTimes', videoLast')
        <5>1. DOMAIN pending' = {}
          BY <3>1
        <5> QED BY <2>5, <2>6, <3>1, <5>1 DEF OrderInv, Waiting
      <4> QED BY <2>4, <2>5, <2>6, <3>1, <4>1, <4>2 DEF OrderInv
    <3>2. CASE pc' = "failed" /\ UNCHANGED <<ready, pending>>
      BY <2>4, <2>5, <2>6, <3>2 DEF OrderInv
    <3>3. \/ ready' = TRUE /\ todo' = pending /\ pending' = <<>> /\ pc' # "failed"
          \/ pc' = "failed" /\ UNCHANGED <<ready, pending>>
      BY <2>8 DEF PublishCatalog
    <3> QED BY <3>1, <3>2, <3>3
  <2> QED BY <1>4, <2>7, <2>8
<1>5. CASE Finish
  <2>1. /\ Len(streams') = Len(streams) /\ writer' \in {0, writer} /\ pc' # "send"
        /\ UNCHANGED <<ready, pending, videoLast>>
        /\ \A i \in Indices : /\ streams'[i].track = streams[i].track
                              /\ streams'[i].objects = streams[i].objects
                              /\ i # writer => streams'[i] = streams[i]
                              /\ writer = 0 => streams'[i] = streams[i]
    <3>1. /\ Len(streams') = Len(streams) /\ writer' \in {0, writer} /\ pc' \in {"finish", "ended"}
          /\ \A i \in Indices : /\ streams'[i].track = streams[i].track
                                /\ streams'[i].objects = streams[i].objects
                                /\ i # writer => streams'[i] = streams[i]
                                /\ writer = 0 => streams'[i] = streams[i]
      BY <1>5, FinishSteps
    <3>2. UNCHANGED <<ready, pending, videoLast>>
      BY <1>5 DEF Finish, video
    <3> QED BY <3>1, <3>2
  <2>2. Indices' = Indices /\ VideoStreams' = VideoStreams
    BY <2>1 DEF Indices, VideoStreams
  <2>3. \A i \in Indices : streams[i].track = "catalog" => streams'[i] = streams[i]
    BY <1>2, <2>1 DEF WriterInv
  <2>4. /\ VideoInOrder' /\ SentTimes' = SentTimes
        /\ ready => \E j \in Indices' : streams'[j].track = "catalog" /\ streams'[j].end = "fin"
    <3>1. \A i \in VideoStreams : streams'[i].objects = streams[i].objects
      BY <2>1 DEF VideoStreams
    <3> QED BY <1>1, <2>1, <2>2, <2>3, <3>1, OrderKept
  <2>5. WriterInv'
    BY <1>2, <1>3, <2>1 DEF WriterInv
  <2> QED BY <2>1, <2>2, <2>4, <2>5 DEF OrderInv
<1>6. CASE /\ UNCHANGED <<streams, writer, ready, pending, todo, videoLast>>
           /\ pc' = "send" => pc = "send"
  <2>1. /\ WriterInv' /\ VideoInOrder' /\ Indices' = Indices
        /\ VideoStreams' = VideoStreams /\ SentTimes' = SentTimes
    BY <1>6 DEF OrderInv, WriterInv, VideoInOrder, Indices, VideoStreams, SentTimes
  <2> QED BY <1>6, <2>1 DEF OrderInv
<1> QED BY <1>4, <1>5, <1>6, OrderSteps, OrderTake, OrderSend

\* Video starts after a complete catalog and its timestamps grow from each object to the
\* next, for any capture times, any number of groups and of frames that waited.
THEOREM VideoGrows == Spec => []VideoInOrder
<1>1. Spec => []OrderInv
  BY TypeCorrect, OrderInit, OrderNext, PTL DEF Spec
<1>2. OrderInv => VideoInOrder
  BY DEF OrderInv
<1> QED BY <1>1, <1>2, PTL

--------------------------------------------------------------------------------
(* GroupsClosedHonestly.  A stream is honest while it is written, and      *)
(* prev is the id of its last object: that is what the next delta rests on.*)

Through(s) == {j \in DOMAIN s.passed : s.passed[j]}

\* The ids of the objects of a stream, as the receiver computes them.
Identifies(s, ids) ==
  /\ Decodes(s, ids)
  /\ {ids[k] : k \in DOMAIN ids} = {j - 1 : j \in Through(s)}
  /\ \A k, l \in DOMAIN ids : k < l => ids[k] < ids[l]

Honest(s) ==
  /\ \E ids \in [DOMAIN s.objects -> 0..Len(s.passed)] :
       /\ Identifies(s, ids)
       /\ s.prev = IF s.objects = <<>> THEN None ELSE ids[Len(s.objects)]
  /\ (s.header = "none" <=> s.objects = <<>>)
  /\ s.objects # <<>> => (s.header = "first" <=> s.passed[1])
  /\ (s.skipped <=> Through(s) # DOMAIN s.passed)
  /\ s.end = "fin" => s.passed # <<>> /\ Through(s) = DOMAIN s.passed
  /\ s.end = "reset" => s.passed = <<>> \/ Through(s) # DOMAIN s.passed

HonestInv ==
  /\ \A i \in Indices : Honest(streams[i])
  /\ writer # 0 => streams[writer].end = "open"

LEMMA SeqIs ==
  ASSUME NEW S, NEW q \in Seq(S)
  PROVE  /\ Len(q) \in Nat /\ DOMAIN q = 1..Len(q)
         /\ (q = <<>> <=> Len(q) = 0) /\ (q = <<>> <=> DOMAIN q = {})
OBVIOUS

LEMMA Longer ==
  ASSUME NEW S, NEW q \in Seq(S), NEW x \in S, NEW r, r = Append(q, x)
  PROVE  /\ Len(q) \in Nat /\ DOMAIN q = 1..Len(q) /\ (q = <<>> <=> Len(q) = 0)
         /\ DOMAIN r = 1..(Len(q) + 1) /\ Len(r) = Len(q) + 1
         /\ r[Len(q) + 1] = x /\ r # <<>>
         /\ \A k \in 1..Len(q) : r[k] = q[k]
OBVIOUS

\* A stream without objects let nothing through, one with objects did.
LEMMA HonestObjects ==
  ASSUME NEW s \in StreamRecords, Honest(s)
  PROVE  /\ s.objects = <<>> => Through(s) = {}
         /\ s.objects # <<>> => Through(s) # {} /\ s.passed # <<>>
<1>1. PICK ids \in [DOMAIN s.objects -> 0..Len(s.passed)] : Identifies(s, ids)
  BY DEF Honest
<1>2. s.objects \in Seq([delta : Int, ts : Int, config : BOOLEAN]) /\ s.passed \in Seq(BOOLEAN)
  BY DEF StreamRecords
<1>3. DOMAIN ids = {} <=> s.objects = <<>>
  BY <1>1, <1>2, SeqIs
<1>4. {ids[k] : k \in DOMAIN ids} = {j - 1 : j \in Through(s)}
  BY <1>1 DEF Identifies
<1>5. Through(s) = {} <=> DOMAIN ids = {}
  BY <1>4
<1>6. Through(s) # {} => s.passed # <<>>
  BY <1>2 DEF Through
<1> QED BY <1>3, <1>5, <1>6

LEMMA HonestNew ==
  ASSUME NEW t \in Tracks
  PROVE  Honest(NewStream(t)) /\ NewStream(t).end = "open"
<1> DEFINE s == NewStream(t)
<1>1. /\ s.objects = <<>> /\ s.passed = <<>> /\ s.prev = None /\ s.header = "none"
      /\ s.skipped = FALSE /\ s.end = "open"
  BY DEF NewStream
<1> HIDE DEF s
<1>2. DOMAIN s.objects = {} /\ Through(s) = {} /\ DOMAIN s.passed = {}
  BY <1>1 DEF Through
<1> DEFINE ids == [k \in {} |-> 0]
<1>3. ids \in [DOMAIN s.objects -> 0..Len(s.passed)] /\ DOMAIN ids = {}
  BY <1>2
<1>4. Identifies(s, ids)
  BY <1>2, <1>3 DEF Identifies, Decodes
<1> QED BY <1>1, <1>2, <1>3, <1>4 DEF Honest, s

LEMMA HonestClose ==
  ASSUME NEW s \in StreamRecords, Honest(s)
  PROVE  /\ Honest(Close(s))
         /\ Honest([s EXCEPT !.end = "failed"])
<1>1. ASSUME NEW w, NEW e, w = [s EXCEPT !.end = e],
             e = "fin" => s.passed # <<>> /\ Through(s) = DOMAIN s.passed,
             e = "reset" => s.passed = <<>> \/ Through(s) # DOMAIN s.passed
      PROVE  Honest(w)
  <2>1. /\ w.objects = s.objects /\ w.passed = s.passed /\ w.prev = s.prev
        /\ w.header = s.header /\ w.skipped = s.skipped /\ w.end = e
    BY <1>1 DEF StreamRecords
  <2>2. Through(w) = Through(s)
    BY <2>1 DEF Through
  <2>3. \A ids : Identifies(w, ids) <=> Identifies(s, ids)
    BY <2>1, <2>2 DEF Identifies, Decodes
  <2> QED BY <1>1, <2>1, <2>2, <2>3 DEF Honest
<1>2. /\ s.header # "none" /\ ~s.skipped => s.passed # <<>> /\ Through(s) = DOMAIN s.passed
      /\ s.header = "none" \/ s.skipped => s.passed = <<>> \/ Through(s) # DOMAIN s.passed
  <2>1. /\ s.header # "none" => s.passed # <<>>
        /\ s.header = "none" => Through(s) = {}
    BY HonestObjects DEF Honest
  <2>2. s.passed # <<>> => DOMAIN s.passed # {}
    <3>1. s.passed \in Seq(BOOLEAN)
      BY DEF StreamRecords
    <3> QED BY <3>1, SeqIs
  <2> QED BY <2>1, <2>2 DEF Honest
<1> DEFINE e == IF s.header = "none" \/ s.skipped THEN "reset" ELSE "fin"
<1>3. Close(s) = [s EXCEPT !.end = e]
  BY DEF Close
<1>4. /\ e = "fin" => s.passed # <<>> /\ Through(s) = DOMAIN s.passed
      /\ e = "reset" => s.passed = <<>> \/ Through(s) # DOMAIN s.passed
  BY <1>2
<1> HIDE DEF e
<1>5. Honest(Close(s))
  BY <1>1, <1>3, <1>4
<1>6. Honest([s EXCEPT !.end = "failed"])
  <2> DEFINE f == "failed"
  <2>1. f # "fin" /\ f # "reset"
    OBVIOUS
  <2> HIDE DEF f
  <2>2. Honest([s EXCEPT !.end = f])
    BY <1>1, <2>1
  <2> QED BY <2>2 DEF f
<1> QED BY <1>5, <1>6

\* An object that the filter lets through.
LEMMA HonestPass ==
  ASSUME NEW s \in StreamRecords, Honest(s), NEW w, NEW o,
         w.passed = Append(s.passed, TRUE), w.prev = Len(s.passed),
         w.header = IF s.header = "none"
                    THEN IF Len(s.passed) = 0 THEN "first" ELSE "later" ELSE s.header,
         w.objects = Append(s.objects, o), o.delta = Len(s.passed) - s.prev - 1,
         o \in [delta : Int, ts : Int, config : BOOLEAN],
         w.skipped = s.skipped, w.end = "open"
  PROVE  Honest(w)
<1> DEFINE Obj == [delta : Int, ts : Int, config : BOOLEAN]
           m == Len(s.passed)
           n == Len(s.objects)
<1>1. s.objects \in Seq(Obj) /\ o \in Obj /\ s.passed \in Seq(BOOLEAN) /\ s.prev \in Int
  BY DEF StreamRecords
<1> HIDE DEF Obj
<1>2. /\ n \in Nat /\ DOMAIN s.objects = 1..n /\ DOMAIN w.objects = 1..(n + 1)
      /\ w.objects[n + 1] = o /\ \A k \in 1..n : w.objects[k] = s.objects[k]
      /\ (s.objects = <<>> <=> n = 0) /\ w.objects # <<>> /\ Len(w.objects) = n + 1
  <2> DEFINE a == s.objects
             b == w.objects
  <2>1. a \in Seq(Obj) /\ o \in Obj /\ b = Append(a, o) /\ n = Len(a)
    BY <1>1
  <2> HIDE DEF a, b, n
  <2>2. /\ n \in Nat /\ DOMAIN a = 1..n /\ DOMAIN b = 1..(n + 1)
        /\ b[n + 1] = o /\ (\A k \in 1..n : b[k] = a[k])
        /\ (a = <<>> <=> n = 0) /\ b # <<>> /\ Len(b) = n + 1
    BY <2>1, Longer
  <2> QED BY <2>2 DEF a, b
<1>3. /\ m \in Nat /\ DOMAIN s.passed = 1..m /\ DOMAIN w.passed = 1..(m + 1)
      /\ w.passed[m + 1] = TRUE /\ (\A k \in 1..m : w.passed[k] = s.passed[k])
      /\ Len(w.passed) = m + 1 /\ (s.passed = <<>> <=> m = 0)
  <2> DEFINE a == s.passed
             b == w.passed
             x == TRUE
  <2>1. a \in Seq(BOOLEAN) /\ x \in BOOLEAN /\ b = Append(a, x) /\ m = Len(a)
    BY <1>1
  <2> HIDE DEF a, b, x, m
  <2>2. /\ m \in Nat /\ DOMAIN a = 1..m /\ DOMAIN b = 1..(m + 1)
        /\ b[m + 1] = x /\ (\A k \in 1..m : b[k] = a[k])
        /\ Len(b) = m + 1 /\ (a = <<>> <=> m = 0)
    BY <2>1, Longer
  <2> QED BY <2>2 DEF a, b, x
<1> HIDE DEF m, n
<1>4. Through(w) = Through(s) \cup {m + 1} /\ Through(s) \subseteq 1..m
  BY <1>3 DEF Through
<1>5. PICK ids \in [1..n -> 0..m] :
        /\ Identifies(s, ids)
        /\ s.prev = IF n = 0 THEN None ELSE ids[n]
  BY <1>2, <1>3 DEF Honest, m, n
<1> DEFINE new == [k \in 1..(n + 1) |-> IF k = n + 1 THEN m ELSE ids[k]]
<1>6. /\ new \in [1..(n + 1) -> 0..(m + 1)] /\ new[n + 1] = m /\ DOMAIN new = 1..(n + 1)
      /\ \A k \in 1..n : new[k] = ids[k] /\ ids[k] \in 0..m /\ k \in 1..(n + 1) /\ k # n + 1
  BY <1>2, <1>3, <1>5
<1> HIDE DEF new
<1>7. {ids[k] : k \in 1..n} = {j - 1 : j \in Through(s)}
  BY <1>5 DEF Identifies
<1>8. \A k \in 1..n : ids[k] < m
  <2> TAKE k \in 1..n
  <2>0. ids[k] \in {j - 1 : j \in Through(s)}
    BY <1>7
  <2>1. PICK j \in Through(s) : ids[k] = j - 1
    BY <2>0
  <2> QED BY <1>3, <1>4, <2>1
<1>9. Identifies(w, new)
  <2>1. Decodes(w, new)
    <3> SUFFICES ASSUME NEW k \in 1..(n + 1)
                 PROVE  new[k] = IF k = 1 THEN w.objects[1].delta
                                 ELSE new[k - 1] + w.objects[k].delta + 1
      BY <1>2 DEF Decodes
    <3>1. CASE k = n + 1
      <4>1. w.objects[k].delta = m - s.prev - 1 /\ new[k] = m
        BY <1>2, <1>6, <3>1 DEF m
      <4>2. CASE n = 0
        BY <1>3, <1>5, <3>1, <4>1, <4>2 DEF None
      <4>3. CASE n # 0
        <5>1. k # 1 /\ k - 1 = n /\ n \in 1..n
          BY <1>2, <3>1, <4>3
        <5>2. new[k - 1] = s.prev
          BY <1>5, <1>6, <4>3, <5>1
        <5> QED BY <1>1, <1>3, <4>1, <5>1, <5>2
      <4> QED BY <4>2, <4>3
    <3>2. CASE k \in 1..n
      <4>1. ids[k] = IF k = 1 THEN s.objects[1].delta ELSE ids[k - 1] + s.objects[k].delta + 1
        BY <1>2, <1>5, <3>2 DEF Identifies, Decodes
      <4>2. k # 1 => k - 1 \in 1..n
        BY <1>2, <3>2
      <4>3. w.objects[k] = s.objects[k] /\ new[k] = ids[k]
        BY <1>2, <1>6, <3>2
      <4> QED BY <1>6, <4>1, <4>2, <4>3
    <3> QED BY <1>2, <3>1, <3>2
  <2>2. {new[k] : k \in DOMAIN new} = {j - 1 : j \in Through(w)}
    <3>1. {new[k] : k \in DOMAIN new} = {ids[k] : k \in 1..n} \cup {m}
      <4>1. DOMAIN new = (1..n) \cup {n + 1}
        BY <1>2, <1>6
      <4>2. new[n + 1] = m /\ \A k \in 1..n : new[k] = ids[k]
        BY <1>6
      <4> QED BY <4>1, <4>2
    <3>2. {j - 1 : j \in Through(w)} = {j - 1 : j \in Through(s)} \cup {m}
      <4>1. (m + 1) - 1 = m
        BY <1>3
      <4> QED BY <1>4, <4>1
    <3> QED BY <1>7, <3>1, <3>2
  <2>3. \A k, l \in DOMAIN new : k < l => new[k] < new[l]
    <3> SUFFICES ASSUME NEW k \in 1..(n + 1), NEW l \in 1..(n + 1), k < l
                 PROVE  new[k] < new[l]
      BY <1>6
    <3>1. k \in 1..n
      BY <1>2
    <3>2. CASE l = n + 1
      BY <1>6, <1>8, <3>1, <3>2
    <3>3. CASE l \in 1..n
      BY <1>5, <1>6, <3>1, <3>3 DEF Identifies
    <3> QED BY <1>2, <3>2, <3>3
  <2> QED BY <2>1, <2>2, <2>3 DEF Identifies
<1>10. w.header = "first" <=> w.passed[1]
  <2>1. CASE s.header = "none"
    <3>1. Through(s) = {}
      BY <2>1, HonestObjects DEF Honest
    <3>2. CASE m = 0
      BY <1>3, <2>1, <3>2 DEF m
    <3>3. CASE m # 0
      <4>1. 1 \in 1..m /\ 1 \in DOMAIN s.passed
        BY <1>3, <3>3
      <4>2. ~s.passed[1]
        BY <3>1, <4>1 DEF Through
      <4> QED BY <1>3, <2>1, <3>3, <4>1, <4>2 DEF m
    <3> QED BY <3>2, <3>3
  <2>2. CASE s.header # "none"
    <3>1. s.objects # <<>> /\ s.passed # <<>>
      BY <2>2, HonestObjects DEF Honest
    <3>2. 1 \in 1..m
      BY <1>3, <3>1
    <3> QED BY <1>3, <2>2, <3>1, <3>2 DEF Honest
  <2> QED BY <2>1, <2>2
<1>11. w.skipped <=> Through(w) # DOMAIN w.passed
  <2>1. DOMAIN w.passed = (1..m) \cup {m + 1} /\ m + 1 \notin 1..m
    BY <1>3
  <2>2. Through(w) = DOMAIN w.passed <=> Through(s) = 1..m
    BY <1>4, <2>1
  <2> QED BY <1>3, <2>2 DEF Honest
<1>12. w.header # "none"
  OBVIOUS
<1>13. w.prev = new[Len(w.objects)]
  BY <1>2, <1>6 DEF m
<1>14. new \in [DOMAIN w.objects -> 0..Len(w.passed)]
  BY <1>2, <1>3, <1>6
<1> QED BY <1>2, <1>9, <1>10, <1>11, <1>12, <1>13, <1>14 DEF Honest

\* An object that the filter drops.
LEMMA HonestSkip ==
  ASSUME NEW s \in StreamRecords, Honest(s), NEW w,
         w.passed = Append(s.passed, FALSE), w.skipped,
         w.prev = s.prev, w.header = s.header, w.objects = s.objects, w.end = "open"
  PROVE  Honest(w)
<1> DEFINE m == Len(s.passed)
<1>1. s.passed \in Seq(BOOLEAN)
  BY DEF StreamRecords
<1>2. /\ m \in Nat /\ DOMAIN s.passed = 1..m /\ DOMAIN w.passed = 1..(m + 1)
      /\ w.passed[m + 1] = FALSE /\ (\A k \in 1..m : w.passed[k] = s.passed[k])
      /\ Len(w.passed) = m + 1 /\ (s.passed = <<>> <=> m = 0)
  <2> DEFINE a == s.passed
             b == w.passed
             x == FALSE
  <2>1. a \in Seq(BOOLEAN) /\ x \in BOOLEAN /\ b = Append(a, x) /\ m = Len(a)
    BY <1>1
  <2> HIDE DEF a, b, x, m
  <2>2. /\ m \in Nat /\ DOMAIN a = 1..m /\ DOMAIN b = 1..(m + 1)
        /\ b[m + 1] = x /\ (\A k \in 1..m : b[k] = a[k])
        /\ Len(b) = m + 1 /\ (a = <<>> <=> m = 0)
    BY <2>1, Longer
  <2> QED BY <2>2 DEF a, b, x
<1> HIDE DEF m
<1>3. Through(w) = Through(s) /\ Through(w) # DOMAIN w.passed
  <2>1. DOMAIN w.passed = (1..m) \cup {m + 1}
    BY <1>2
  <2> QED BY <1>2, <2>1 DEF Through
<1>4. PICK ids \in [DOMAIN s.objects -> 0..m] :
        /\ Identifies(s, ids)
        /\ s.prev = IF s.objects = <<>> THEN None ELSE ids[Len(s.objects)]
  BY DEF Honest, m
<1>5. Identifies(w, ids)
  BY <1>3, <1>4 DEF Identifies, Decodes
<1>6. ids \in [DOMAIN w.objects -> 0..Len(w.passed)]
  BY <1>2, <1>4
<1>7. w.objects # <<>> => (w.header = "first" <=> w.passed[1])
  <2>1. s.objects # <<>> => 1 \in 1..m
    BY <1>2, HonestObjects
  <2> QED BY <1>2, <2>1 DEF Honest
<1>8. w.header = "none" <=> w.objects = <<>>
  BY DEF Honest
<1> QED BY <1>3, <1>4, <1>5, <1>6, <1>7, <1>8 DEF Honest

LEMMA HonestWrite ==
  ASSUME NEW s \in StreamRecords, Honest(s), s.end = "open",
         NEW pass \in BOOLEAN, NEW ts \in Int, NEW c \in BOOLEAN
  PROVE  Honest(Write(s, pass, ts, c)) /\ Write(s, pass, ts, c).end = "open"
<1> DEFINE w == Write(s, pass, ts, c)
           o == [delta |-> Len(s.passed) - s.prev - 1, ts |-> ts, config |-> c]
<1>1. CASE pass
  <2>1. /\ w.passed = Append(s.passed, TRUE) /\ w.prev = Len(s.passed)
        /\ w.header = IF s.header = "none"
                      THEN IF Len(s.passed) = 0 THEN "first" ELSE "later" ELSE s.header
        /\ w.objects = Append(s.objects, o)
        /\ w.skipped = s.skipped /\ w.end = "open"
    BY <1>1 DEF Write, StreamRecords
  <2>2. o.delta = Len(s.passed) - s.prev - 1 /\ o \in [delta : Int, ts : Int, config : BOOLEAN]
    <3>1. s.passed \in Seq(BOOLEAN) /\ s.prev \in Int
      BY DEF StreamRecords
    <3>2. Len(s.passed) \in Nat
      BY <3>1, SeqIs
    <3> QED BY <3>1, <3>2
  <2> HIDE DEF w, o
  <2>3. Honest(w)
    BY <2>1, <2>2, HonestPass
  <2> QED BY <2>1, <2>3 DEF w
<1>2. CASE ~pass
  <2>1. /\ w.passed = Append(s.passed, FALSE) /\ w.skipped = TRUE
        /\ w.prev = s.prev /\ w.header = s.header /\ w.objects = s.objects /\ w.end = "open"
    BY <1>2 DEF Write, StreamRecords
  <2> HIDE DEF w
  <2>2. w.skipped
    BY <2>1
  <2>3. Honest(w)
    BY <2>1, <2>2, HonestSkip
  <2> QED BY <2>1, <2>3 DEF w
<1> QED BY <1>1, <1>2

\* What a video frame does to the streams, exactly.
LEMMA VideoWrites ==
  ASSUME TypeOK, SendVideo
  PROVE  \E pass \in BOOLEAN, ts \in Int, c \in BOOLEAN :
           /\ Len(streams') \in {Len(streams), Len(streams) + 1}
           /\ \A i \in Indices : i # writer' => streams'[i] \in {streams[i], Close(streams[i])}
           /\ Len(streams') = Len(streams) + 1 => writer' = Len(streams) + 1
           /\ writer' # 0 =>
                /\ writer' = writer \/ writer' = Len(streams) + 1
                /\ streams'[writer'] = Write(IF writer' = writer THEN streams[writer]
                                             ELSE NewStream("video"), pass, ts, c)
<1> DEFINE o == Head(todo)
           n == Len(streams)
           finished == IF writer = 0 THEN streams ELSE [streams EXCEPT ![writer] = Close(@)]
           opened == Regroup(o.key)
           w == IF o.key THEN Len(opened) ELSE writer
           new == NewStream("video")
<1>1. /\ streams \in Seq(StreamRecords) /\ writer \in 0..n /\ n \in Nat
      /\ o.key \in BOOLEAN /\ o.ts \in Int
  <2>1. o \in Outputs
    BY DEF SendVideo, TypeOK, PublisherTypeOK
  <2> QED BY <2>1, SeqTypes DEF Outputs
<1>2. PICK pass \in BOOLEAN :
        streams' = IF w = 0 THEN opened
                   ELSE [opened EXCEPT ![w] = Write(@, pass, o.ts, o.key)]
  BY DEF SendVideo
<1>3. writer' = w
  BY DEF SendVideo
<1>4. opened = IF o.key THEN Append(finished, new) ELSE streams
  BY DEF Regroup
<1>5. /\ finished \in Seq(StreamRecords) /\ Len(finished) = n
      /\ \A i \in Indices : finished[i] \in {streams[i], Close(streams[i])}
  <2>1. CASE writer = 0
    BY <1>1, <2>1 DEF Indices
  <2>2. CASE writer # 0
    <3>1. Close(streams[writer]) \in StreamRecords /\ writer \in 1..n
      BY <1>1, <2>2, CloseTypes
    <3>2. finished = [streams EXCEPT ![writer] = Close(streams[writer])]
      BY <2>2
    <3>3. finished \in Seq(StreamRecords)
      BY <1>1, <3>1, <3>2
    <3> HIDE DEF finished
    <3>4. /\ Len(finished) = n /\ finished[writer] = Close(streams[writer])
          /\ \A i \in 1..n : i # writer => finished[i] = streams[i]
      BY <1>1, <3>1, <3>2, Replaced
    <3> QED BY <3>3, <3>4 DEF Indices
  <2> QED BY <2>1, <2>2
<1>6. new \in StreamRecords
  BY NewStreamTypes DEF Tracks
<1> HIDE DEF finished, o, new
<1>7. CASE o.key
  <2> DEFINE longer == Append(finished, new)
             x == Write(new, pass, o.ts, o.key)
  <2>1. /\ opened = longer /\ longer \in Seq(StreamRecords) /\ Len(longer) = n + 1
        /\ longer[n + 1] = new /\ \A i \in 1..n : longer[i] = finished[i]
    BY <1>4, <1>5, <1>6, <1>7, Appended
  <2>2. w = n + 1 /\ n + 1 # 0 /\ n + 1 \in 1..Len(longer)
    <3>1. w = Len(longer)
      BY <1>7, <2>1
    <3> HIDE DEF longer, w, opened, n
    <3> QED BY <1>1, <2>1, <3>1
  <2>3. x \in StreamRecords
    BY <1>1, <1>6, WriteTypes
  <2> HIDE DEF longer, w, opened
  <2>4. streams' = [longer EXCEPT ![n + 1] = x]
    BY <1>2, <2>1, <2>2
  <2> HIDE DEF x
  <2>5. /\ Len(streams') = n + 1 /\ streams'[n + 1] = x
        /\ \A i \in 1..(n + 1) : i # n + 1 => streams'[i] = longer[i]
    BY <2>1, <2>2, <2>3, <2>4, Replaced
  <2>6. \A i \in Indices : streams'[i] \in {streams[i], Close(streams[i])}
    <3> TAKE i \in Indices
    <3>1. i \in 1..n /\ i \in 1..(n + 1) /\ i # n + 1
      BY <1>1 DEF Indices
    <3> HIDE DEF n
    <3> QED BY <1>5, <2>1, <2>5, <3>1
  <2>7. writer' = n + 1 /\ writer' # writer
    BY <1>1, <1>3, <2>2
  <2> QED BY <1>1, <2>5, <2>6, <2>7 DEF x, new
<1>8. CASE ~o.key
  <2>1. opened = streams /\ w = writer
    BY <1>4, <1>8
  <2>2. CASE writer = 0
    <3>1. streams' = streams /\ writer' = writer
      BY <1>2, <1>3, <2>1, <2>2
    <3>2. Len(streams') # n + 1 /\ Len(streams') = n
      BY <1>1, <3>1
    <3> HIDE DEF n
    <3> QED BY <1>1, <2>2, <3>1, <3>2 DEF n
  <2>3. CASE writer # 0
    <3> DEFINE x == Write(streams[writer], pass, o.ts, o.key)
    <3>1. streams' = [streams EXCEPT ![writer] = x] /\ writer' = writer /\ writer \in 1..n
      <4>1. writer' = writer /\ writer \in 1..n
        BY <1>1, <1>3, <2>1, <2>3
      <4>2. streams' = [streams EXCEPT ![writer] = Write(@, pass, o.ts, o.key)]
        BY <1>2, <2>1, <2>3
      <4> QED BY <4>1, <4>2
    <3>2. x \in StreamRecords
      BY <1>1, <3>1, WriteTypes
    <3> HIDE DEF x
    <3>3. /\ Len(streams') = n /\ streams'[writer] = x
          /\ \A i \in 1..n : i # writer => streams'[i] = streams[i]
      BY <1>1, <3>1, <3>2, Replaced
    <3>4. Len(streams') # n + 1
      BY <1>1, <3>3
    <3> QED BY <1>1, <3>1, <3>3, <3>4 DEF x, Indices
  <2> QED BY <2>2, <2>3
<1> QED BY <1>7, <1>8

LEMMA HonestInit == Init => HonestInv
BY DEF Init, HonestInv, Indices

LEMMA HonestNext == TypeOK /\ HonestInv /\ [Next]_vars => HonestInv'
<1> SUFFICES ASSUME TypeOK, HonestInv, [Next]_vars PROVE HonestInv'
  OBVIOUS
<1>0. TypeOK'
  BY TypeNext
<1>1. /\ streams \in Seq(StreamRecords) /\ writer \in 0..Len(streams) /\ Len(streams) \in Nat
      /\ streams' \in Seq(StreamRecords) /\ writer' \in 0..Len(streams') /\ Len(streams') \in Nat
  BY <1>0, SeqTypes, SeqTypesAfter
<1>2. \A i \in Indices : streams[i] \in StreamRecords /\ Honest(streams[i])
  BY <1>1 DEF HonestInv, Indices
<1>3. writer # 0 => writer \in Indices
  BY <1>1 DEF Indices
<1>4. ASSUME NEW t \in Tracks, NEW pass \in BOOLEAN, NEW ts \in Int, NEW c \in BOOLEAN
      PROVE  /\ Write(NewStream(t), pass, ts, c) \in StreamRecords
             /\ Honest(Write(NewStream(t), pass, ts, c))
             /\ Honest(Close(Write(NewStream(t), pass, ts, c)))
             /\ Write(NewStream(t), pass, ts, c).end = "open"
  <2> DEFINE s == NewStream(t)
  <2>1. s \in StreamRecords /\ Honest(s) /\ s.end = "open"
    BY NewStreamTypes, HonestNew
  <2> HIDE DEF s
  <2> DEFINE w == Write(s, pass, ts, c)
  <2>2. w \in StreamRecords /\ Honest(w) /\ w.end = "open"
    BY <2>1, WriteTypes, HonestWrite
  <2> HIDE DEF w
  <2>3. Honest(Close(w))
    BY <2>2, HonestClose
  <2> QED BY <2>2, <2>3 DEF w, s
<1>5. CASE SendVideo
  <2>1. PICK pass \in BOOLEAN, ts \in Int, c \in BOOLEAN :
          /\ Len(streams') \in {Len(streams), Len(streams) + 1}
          /\ \A i \in Indices : i # writer' => streams'[i] \in {streams[i], Close(streams[i])}
          /\ Len(streams') = Len(streams) + 1 => writer' = Len(streams) + 1
          /\ writer' # 0 =>
               /\ writer' = writer \/ writer' = Len(streams) + 1
               /\ streams'[writer'] = Write(IF writer' = writer THEN streams[writer]
                                            ELSE NewStream("video"), pass, ts, c)
    BY <1>5, VideoWrites
  <2>2. writer' # 0 => Honest(streams'[writer']) /\ streams'[writer'].end = "open"
    <3> SUFFICES ASSUME writer' # 0
                 PROVE  Honest(streams'[writer']) /\ streams'[writer'].end = "open"
      OBVIOUS
    <3>1. CASE writer' = writer
      <4> DEFINE v == streams[writer]
      <4>1. streams'[writer'] = Write(v, pass, ts, c)
        BY <2>1, <3>1
      <4>2. v \in StreamRecords /\ Honest(v) /\ v.end = "open"
        BY <1>2, <1>3, <3>1 DEF HonestInv
      <4> HIDE DEF v
      <4>3. Honest(Write(v, pass, ts, c)) /\ Write(v, pass, ts, c).end = "open"
        BY <4>2, HonestWrite
      <4> QED BY <4>1, <4>3
    <3>2. CASE writer' # writer
      <4> DEFINE v == "video"
      <4>1. streams'[writer'] = Write(NewStream(v), pass, ts, c)
        BY <2>1, <3>2
      <4>2. v \in Tracks
        BY DEF Tracks
      <4> HIDE DEF v
      <4>3. Honest(Write(NewStream(v), pass, ts, c)) /\ Write(NewStream(v), pass, ts, c).end = "open"
        BY <1>4, <4>2
      <4> QED BY <4>1, <4>3
    <3> QED BY <3>1, <3>2
  <2>3. \A i \in Indices : i # writer' => Honest(streams'[i])
    BY <1>2, <2>1, HonestClose
  <2>4. \A i \in Indices' : i \in Indices \/ (i = writer' /\ writer' # 0)
    BY <1>1, <2>1 DEF Indices
  <2>5. \A i \in Indices' : i = writer' => writer' # 0
    BY <1>1 DEF Indices
  <2> QED BY <2>2, <2>3, <2>4, <2>5 DEF HonestInv
<1>6. CASE SendAudio \/ PublishCatalog
  <2>1. PICK s \in StreamRecords : streams' = Append(streams, s) /\ Honest(s)
    <3>1. CASE SendAudio
      <4>1. PICK pass \in BOOLEAN :
              /\ streams' = Append(streams, AudioStream(pass, audioLast'))
              /\ AudioStream(pass, audioLast') \in StreamRecords
              /\ audioLast' \in Int
        BY <3>1, AudioAdds
      <4>2. "audio" \in Tracks /\ (~configSent) \in BOOLEAN
        BY DEF Tracks
      <4>3. Honest(AudioStream(pass, audioLast'))
        BY <1>4, <4>1, <4>2 DEF AudioStream
      <4> QED BY <4>1, <4>3
    <3>2. CASE PublishCatalog
      <4>1. "catalog" \in Tracks /\ None \in Int
        BY DEF Tracks, None
      <4> DEFINE y == Write(NewStream("catalog"), TRUE, None, FALSE)
                 x == Write(NewStream("catalog"), FALSE, None, FALSE)
      <4>2. y \in StreamRecords /\ Honest(Close(y)) /\ x \in StreamRecords /\ Honest(x)
        BY <1>4, <4>1
      <4>3. streams' = Append(streams, Close(y)) \/ streams' = Append(streams, x)
        BY <3>2 DEF PublishCatalog
      <4> HIDE DEF x, y
      <4> QED BY <4>2, <4>3, CloseTypes
    <3> QED BY <1>6, <3>1, <3>2
  <2>2. writer' = writer
    BY <1>6 DEF SendAudio, PublishCatalog
  <2>3. /\ Len(streams') = Len(streams) + 1 /\ streams'[Len(streams) + 1] = s
        /\ \A i \in Indices : streams'[i] = streams[i]
    BY <1>1, <2>1, Appended DEF Indices
  <2>4. \A i \in Indices' : i \in Indices \/ i = Len(streams) + 1
    BY <1>1, <2>3 DEF Indices
  <2>5. writer' # 0 => streams'[writer'].end = "open"
    BY <1>3, <2>2, <2>3 DEF HonestInv
  <2>6. \A i \in Indices' : Honest(streams'[i])
    BY <1>2, <2>1, <2>3, <2>4
  <2> QED BY <2>5, <2>6 DEF HonestInv
<1>7. CASE Finish
  <2>1. \/ UNCHANGED <<writer, streams>>
        \/ /\ writer # 0 /\ writer' = 0
           /\ \E s \in {Close(streams[writer]), [streams[writer] EXCEPT !.end = "failed"]} :
                streams' = [streams EXCEPT ![writer] = s]
    BY <1>7 DEF Finish
  <2>2. CASE UNCHANGED <<writer, streams>>
    BY <2>2 DEF HonestInv, Indices
  <2>3. ASSUME writer # 0, writer' = 0,
               NEW s \in {Close(streams[writer]), [streams[writer] EXCEPT !.end = "failed"]},
               streams' = [streams EXCEPT ![writer] = s]
        PROVE  HonestInv'
    <3>1. streams[writer] \in StreamRecords /\ Honest(streams[writer])
      BY <1>2, <1>3, <2>3
    <3>2. Honest(s) /\ s \in StreamRecords
      <4>1. [streams[writer] EXCEPT !.end = "failed"] \in StreamRecords
        BY <3>1 DEF StreamRecords
      <4> QED BY <2>3, <3>1, <4>1, HonestClose, CloseTypes
    <3>3. /\ Len(streams') = Len(streams) /\ streams'[writer] = s
          /\ \A i \in Indices : i # writer => streams'[i] = streams[i]
      BY <1>1, <1>3, <2>3, <3>2, Replaced DEF Indices
    <3>4. \A i \in Indices' : Honest(streams'[i])
      BY <1>2, <3>2, <3>3 DEF Indices
    <3> QED BY <2>3, <3>4 DEF HonestInv
  <2> QED BY <2>1, <2>2, <2>3
<1>8. CASE Plain \/ Stop
  <2>1. UNCHANGED <<streams, writer>>
    BY <1>8 DEF Plain, Stop, media
  <2> QED BY <2>1 DEF HonestInv, Indices
<1> QED BY <1>5, <1>6, <1>7, <1>8, Steps

\* Whatever the filter drops, the ids a receiver decodes are those of the objects that
\* were let through, the header tells whether it has the first, and FIN means all of
\* them; for any number of streams and of objects in them.
THEOREM GroupsTrue == Spec => []GroupsClosedHonestly
<1>1. Spec => [](TypeOK /\ HonestInv)
  BY TypeCorrect, HonestInit, HonestNext, PTL DEF Spec
<1>2. TypeOK /\ HonestInv => GroupsClosedHonestly
  <2> SUFFICES ASSUME TypeOK, HonestInv, NEW i \in Indices
               PROVE  LET s == streams[i]
                          through == {j \in DOMAIN s.passed : s.passed[j]}
                      IN /\ \E ids \in [DOMAIN s.objects -> 0..Len(s.passed)] :
                              /\ Decodes(s, ids)
                              /\ {ids[k] : k \in DOMAIN ids} = {j - 1 : j \in through}
                              /\ \A k, l \in DOMAIN ids : k < l => ids[k] < ids[l]
                         /\ s.objects # <<>> => (s.header = "first" <=> s.passed[1])
                         /\ s.end = "fin" => s.passed # <<>> /\ through = DOMAIN s.passed
                         /\ s.end = "reset" => s.passed = <<>> \/ through # DOMAIN s.passed
    BY DEF GroupsClosedHonestly
  <2> DEFINE s == streams[i]
  <2>1. Honest(s)
    BY DEF HonestInv
  <2> HIDE DEF s
  <2>2. PICK ids \in [DOMAIN s.objects -> 0..Len(s.passed)] : Identifies(s, ids)
    BY <2>1 DEF Honest
  <2>3. /\ Decodes(s, ids)
        /\ {ids[k] : k \in DOMAIN ids} = {j - 1 : j \in Through(s)}
        /\ \A k, l \in DOMAIN ids : k < l => ids[k] < ids[l]
    BY <2>2 DEF Identifies
  <2>4. /\ s.objects # <<>> => (s.header = "first" <=> s.passed[1])
        /\ s.end = "fin" => s.passed # <<>> /\ Through(s) = DOMAIN s.passed
        /\ s.end = "reset" => s.passed = <<>> \/ Through(s) # DOMAIN s.passed
    BY <2>1 DEF Honest
  <2>5. Through(s) = {j \in DOMAIN s.passed : s.passed[j]}
    BY DEF Through
  <2>6. \E f \in [DOMAIN s.objects -> 0..Len(s.passed)] :
          /\ Decodes(s, f)
          /\ {f[k] : k \in DOMAIN f} = {j - 1 : j \in Through(s)}
          /\ \A k, l \in DOMAIN f : k < l => f[k] < f[l]
    BY <2>3
  <2> QED BY <2>4, <2>5, <2>6 DEF s
<1> QED BY <1>1, <1>2, PTL
================================================================================
