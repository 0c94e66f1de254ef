-------------------------- MODULE MoqSubscriber_proofs -------------------------
(***************************************************************************)
(* Proofs about both halves of momo-moq subscribe: run keeps what          *)
(* SubscribeRun says of it (MoqSubscriber), for any relay; and on top of   *)
(* SubscribeRun, for any number of streams, permits and objects, the count *)
(* of frames to be shown is exact, and the permits and the limit together  *)
(* bound it (MoqStreams).                                                  *)
(***************************************************************************)
EXTENDS MoqSubscriber, MoqStreams, FiniteSetTheorems, TLAPS

--------------------------------------------------------------------------------
(* MoqStreams.                                                             *)

\* The semaphore: no more tasks than permits.
PermitsHeld == Cardinality(Running) <= Permits

\* Objects that streams which are being decoded may still turn into frames, as pairs of a
\* stream and the number of an object it has not read.
Decoding == {s \in Videos : mode[s] \in {"decode", "hold"}}
Unread == {p \in Videos \X (1..MaxObjects) : p[1] \in Decoding /\ read[p[1]] < p[2]}

\* Each of them is accounted for from the moment its group was taken: this is inductive
\* where the bound alone is not.
RoomIsLeft == backlog + Cardinality(Unread) <= Limit + Permits * MaxObjects

\* A task that is about to send a frame is one of video.
FramesAreVideo == \A s \in DataStreams : mode[s] = "hold" => s \in Videos

IInv == StreamsTypeOK /\ FramesAreVideo /\ PermitsHeld /\ BacklogIsExact /\ RoomIsLeft

\* The sets that are counted are finite.
LEMMA Finite ==
  /\ IsFiniteSet(Videos)
  /\ IsFiniteSet(Running) /\ Cardinality(Running) \in Nat
  /\ IsFiniteSet(Holding) /\ Cardinality(Holding) \in Nat
  /\ IsFiniteSet(Unread) /\ Cardinality(Unread) \in Nat
<1>1. IsFiniteSet(DataStreams) /\ MaxObjects \in Nat
  BY StreamsAssumption
<1>2. IsFiniteSet(Videos)
  BY <1>1, FS_Subset DEF DataStreams
<1>3. IsFiniteSet(Running) /\ IsFiniteSet(Holding)
  BY <1>1, <1>2, FS_Subset DEF Running, Holding
<1>4. IsFiniteSet(Videos \X (1..MaxObjects))
  <2>1. IsFiniteSet(1..MaxObjects)
    BY <1>1, FS_Interval
  <2> QED
    BY <1>2, <2>1, FS_Product
<1>5. IsFiniteSet(Unread)
  BY <1>4, FS_Subset DEF Unread
<1> QED
  BY <1>2, <1>3, <1>5, FS_CardinalityType

\* A step after which fewer objects are left, and no more frames are counted, leaves room.
LEMMA LessUnread ==
  ASSUME RoomIsLeft, backlog \in Int, backlog' \in Int, backlog' <= backlog, Unread' \subseteq Unread
  PROVE  RoomIsLeft'
<1>1. Cardinality(Unread') <= Cardinality(Unread) /\ Cardinality(Unread') \in Nat
  BY Finite, FS_Subset, FS_CardinalityType
<1>2. Permits * MaxObjects \in Int /\ Limit \in Nat
  BY StreamsAssumption
<1> QED
  BY <1>1, <1>2, Finite DEF RoomIsLeft

\* A step after which fewer tasks run keeps to the permits.
LEMMA FewerRunning ==
  ASSUME PermitsHeld, Running' \subseteq Running
  PROVE  PermitsHeld'
<1>1. Cardinality(Running') <= Cardinality(Running) /\ Cardinality(Running') \in Nat
  BY Finite, FS_Subset, FS_CardinalityType
<1> QED
  BY <1>1, Finite, StreamsAssumption DEF PermitsHeld

\* The initial states satisfy the inductive invariant.
LEMMA InvInit == StreamsInit => IInv
<1> SUFFICES ASSUME StreamsInit PROVE IInv
  OBVIOUS
<1> USE StreamsAssumption DEF StreamsInit
<1>1. StreamsTypeOK
  <2>1. RunTypeOK
    BY DEF RunInit, RunTypeOK
  <2>2. 0 \in 0..MaxObjects
    BY StreamsAssumption
  <2> QED
    BY <2>1, <2>2 DEF StreamsTypeOK
<1>2. Running = {} /\ Holding = {} /\ Unread = {}
  BY DEF Running, Holding, Unread, Decoding, InTask, DataStreams
<1>3. Permits * MaxObjects \in Nat
  OBVIOUS
<1> QED
  BY <1>1, <1>2, <1>3, FS_EmptySet DEF StreamsInit, FramesAreVideo, IInv, PermitsHeld, BacklogIsExact, RoomIsLeft, Playing

\* A step that leaves the tasks, the count and the player alone.
LEMMA Elsewhere ==
  ASSUME IInv, StreamsTypeOK', UNCHANGED <<mode, read, backlog, queued, player>>
  PROVE  IInv'
<1>1. Running' = Running /\ Holding' = Holding /\ Unread' = Unread
  BY DEF Running, Holding, Unread, Decoding
<1> QED
  BY <1>1 DEF IInv, FramesAreVideo, PermitsHeld, BacklogIsExact, RoomIsLeft, Playing

\* The life of run, the acceptor and the window.
LEMMA OutsideKeeps ==
  ASSUME IInv, StartAcceptor \/ RunGoesOn \/ RunFails \/ AcceptorEnds \/ CloseWindow
  PROVE  IInv'
<1> USE DEF StartAcceptor, RunGoesOn, RunFails, AcceptorEnds, CloseWindow, display
<1>1. StreamsTypeOK'
  BY DEF IInv, StreamsTypeOK, RunTypeOK, run, Enter, Turn, Expire, LoseLink, Abandon
<1>2. UNCHANGED <<mode, read, backlog, queued, player>>
  OBVIOUS
<1> QED
  BY <1>1, <1>2, Elsewhere

\* A stream on its way to a task, and one that does not get there, change no count.
LEMMA AcceptKeeps ==
  ASSUME IInv, LeaveAndAbort \/ Accept PROVE IInv'
<1> USE DEF LeaveAndAbort, Accept, display, InTask
<1>1. StreamsTypeOK'
  BY DEF IInv, StreamsTypeOK, RunTypeOK, run, Goodbye
<1>2. UNCHANGED <<read, backlog, queued, player>>
  OBVIOUS
<1>3. \A s \in DataStreams : mode'[s] = mode[s] \/ {mode[s], mode'[s]} \cap InTask = {}
  BY DEF IInv, StreamsTypeOK
<1>4. Running' = Running
  BY <1>3 DEF Running
<1>5. Decoding' = Decoding /\ Holding' = Holding
  BY <1>3 DEF Decoding, Holding, DataStreams
<1>6. Unread' = Unread
  BY <1>2, <1>5 DEF Unread
<1>0. FramesAreVideo'
  BY DEF IInv, StreamsTypeOK, FramesAreVideo
<1> QED
  BY <1>0, <1>1, <1>2, <1>4, <1>5, <1>6 DEF IInv, PermitsHeld, BacklogIsExact, RoomIsLeft, Playing

\* A permit is there for the stream that is taken up.
LEMMA SpawnKeeps ==
  ASSUME IInv, Spawn PROVE IInv'
<1> USE DEF Spawn, display
<1>1. PICK s \in InHand : mode' = [mode EXCEPT ![s] = "head"]
  OBVIOUS
<1>2. s \in DataStreams /\ mode[s] = "accepted" /\ UNCHANGED <<read, backlog, queued, player>>
  BY DEF InHand
<1>3. StreamsTypeOK'
  BY <1>1, <1>2 DEF IInv, StreamsTypeOK, RunTypeOK, run, InTask
<1>4. Running' = Running \cup {s}
  BY <1>1, <1>2 DEF IInv, StreamsTypeOK, Running, InTask
<1>5. Decoding' = Decoding /\ Holding' = Holding
  BY <1>1, <1>2 DEF IInv, StreamsTypeOK, Decoding, Holding, DataStreams
<1>6. Unread' = Unread
  BY <1>2, <1>5 DEF Unread
<1>7. PermitsHeld'
  <2>1. Cardinality(Running') <= Cardinality(Running) + 1 /\ Cardinality(Running') \in Nat
    <3>1. Cardinality(Running \cup {s}) <= Cardinality(Running) + 1
      <4>1. Cardinality(Running \cup {s}) =
              IF s \in Running THEN Cardinality(Running) ELSE Cardinality(Running) + 1
        BY Finite, FS_AddElement
      <4> HIDE DEF Running
      <4> QED
        BY <4>1, Finite
    <3>2. IsFiniteSet(Running \cup {s})
      BY Finite, FS_AddElement
    <3> QED
      BY <1>4, <3>1, <3>2, FS_CardinalityType
  <2>2. Cardinality(Running) < Permits /\ Permits \in Nat
    BY StreamsAssumption
  <2> QED
    BY <2>1, <2>2, Finite DEF PermitsHeld
<1>0. FramesAreVideo'
  BY <1>1, <1>2 DEF IInv, StreamsTypeOK, FramesAreVideo
<1> QED
  BY <1>0, <1>2, <1>3, <1>5, <1>6, <1>7 DEF IInv, BacklogIsExact, RoomIsLeft, Playing

\* Fewer tasks hold at most the permits they held.
LEMMA TimesGrows ==
  ASSUME NEW a \in Nat, NEW b \in Nat, NEW c \in Nat, a <= b PROVE a * c <= b * c
  OBVIOUS

\* A group is taken with MAX_DISPLAY_BACKLOG frames waiting at most, and what the tasks
\* have not read is at most all objects of as many streams as there are permits.
LEMMA HeaderKeeps ==
  ASSUME IInv, NEW s \in DataStreams, ReadHeader(s) PROVE IInv'
<1> USE DEF ReadHeader, display
<1>1. StreamsTypeOK'
  BY DEF IInv, StreamsTypeOK, RunTypeOK, run, InTask
<1>2. UNCHANGED <<read, backlog, queued, player>>
  OBVIOUS
<1>3. Running' = Running
  BY DEF IInv, StreamsTypeOK, Running, InTask
<1>4. Holding' = Holding
  BY DEF IInv, StreamsTypeOK, Holding, DataStreams
<1>5. PermitsHeld' /\ BacklogIsExact'
  BY <1>2, <1>3, <1>4 DEF IInv, PermitsHeld, BacklogIsExact, Playing
<1>0. FramesAreVideo'
  BY DEF IInv, StreamsTypeOK, FramesAreVideo
<1>6. CASE s \in Videos /\ backlog <= Limit
  <2> DEFINE All == Running \X (1..MaxObjects)
  <2>1. IsFiniteSet(1..MaxObjects) /\ Cardinality(1..MaxObjects) = MaxObjects
    BY StreamsAssumption, FS_Interval
  <2>2. IsFiniteSet(All) /\ Cardinality(All) = Cardinality(Running) * MaxObjects
    BY <2>1, Finite, FS_Product
  <2>3. Unread' \subseteq All
    BY <1>3 DEF Unread, Decoding, Running, DataStreams, InTask
  <2>4. Cardinality(Unread') <= Cardinality(All) /\ Cardinality(Unread') \in Nat
    BY <2>2, <2>3, FS_Subset, FS_CardinalityType
  <2>5. Cardinality(Running) * MaxObjects <= Permits * MaxObjects
    BY Finite, TimesGrows, StreamsAssumption DEF IInv, PermitsHeld
  <2>6. Permits * MaxObjects \in Int /\ Cardinality(Running) * MaxObjects \in Int
    BY Finite, StreamsAssumption
  <2>7. Cardinality(Unread') <= Permits * MaxObjects
    BY <2>2, <2>4, <2>5, <2>6
  <2>8. backlog' <= Limit /\ backlog' \in Int /\ Limit \in Int
    BY <1>2, <1>6, StreamsAssumption DEF IInv, StreamsTypeOK
  <2>9. RoomIsLeft'
    BY <2>4, <2>6, <2>7, <2>8 DEF RoomIsLeft
  <2> QED
    BY <1>0, <1>1, <1>5, <2>9 DEF IInv
<1>7. CASE s \notin Videos \/ mode' = [mode EXCEPT ![s] = "drain"]
  <2>1. Decoding' = Decoding
    BY <1>7 DEF IInv, StreamsTypeOK, Decoding, DataStreams
  <2>2. Unread' = Unread
    BY <1>2, <2>1 DEF Unread
  <2> QED
    BY <1>0, <1>1, <1>2, <1>5, <2>2 DEF IInv, RoomIsLeft
<1> QED
  BY <1>6, <1>7

\* An object that is no frame, and one of audio, only count as read.
LEMMA SkipKeeps ==
  ASSUME IInv, NEW s \in DataStreams, SkipObject(s) PROVE IInv'
<1> USE DEF SkipObject, ReadObject, display
<1>1. StreamsTypeOK'
  BY StreamsAssumption DEF IInv, StreamsTypeOK, RunTypeOK, run
<1>2. UNCHANGED <<mode, backlog, queued, player>>
  OBVIOUS
<1>3. Running' = Running /\ Decoding' = Decoding /\ Holding' = Holding
  BY <1>2 DEF Running, Decoding, Holding
<1>4. \A v \in Videos : read[v] \in Nat /\ read'[v] \in Nat /\ read[v] <= read'[v]
  BY StreamsAssumption DEF IInv, StreamsTypeOK, DataStreams
<1>5. Unread' \subseteq Unread
  BY <1>3, <1>4 DEF Unread
<1>6. RoomIsLeft'
  BY <1>2, <1>5, LessUnread DEF IInv, StreamsTypeOK
<1>0. FramesAreVideo'
  BY DEF IInv, StreamsTypeOK, FramesAreVideo
<1> QED
  BY <1>0, <1>1, <1>2, <1>3, <1>6 DEF IInv, PermitsHeld, BacklogIsExact, Playing

\* The task of a stream that holds no frame ends.
LEMMA EndKeeps ==
  ASSUME IInv, NEW s \in DataStreams, mode[s] \in InTask, mode[s] # "hold" \/ ~Playing',
         TaskEnds(s), UNCHANGED <<run, acceptor, backlog, display>>
  PROVE  IInv'
<1> USE DEF TaskEnds, display
<1>1. StreamsTypeOK'
  BY StreamsAssumption DEF IInv, StreamsTypeOK, RunTypeOK, run
<1>2. Running' \subseteq Running
  BY DEF IInv, StreamsTypeOK, Running, InTask
<1>3. \A v \in Decoding' : v \in Decoding /\ v # s
  BY DEF IInv, StreamsTypeOK, Decoding, DataStreams
<1>4. \A v \in Decoding' : read'[v] = read[v]
  BY <1>3 DEF IInv, StreamsTypeOK, Decoding, DataStreams
<1>5. Unread' \subseteq Unread
  BY <1>3, <1>4 DEF Unread
<1>6. mode[s] # "hold" => Holding' = Holding
  BY DEF IInv, StreamsTypeOK, Holding, DataStreams
<1>7. BacklogIsExact'
  BY <1>6 DEF IInv, BacklogIsExact, Playing
<1>8. RoomIsLeft' /\ PermitsHeld'
  BY <1>2, <1>5, LessUnread, FewerRunning DEF IInv, StreamsTypeOK
<1>0. FramesAreVideo'
  BY DEF IInv, StreamsTypeOK, FramesAreVideo
<1> QED
  BY <1>0, <1>1, <1>7, <1>8 DEF IInv

\* A frame is counted, and is one object less to be read.
LEMMA DecodeKeeps ==
  ASSUME IInv, NEW s \in DataStreams, DecodeVideo(s) PROVE IInv'
<1> USE DEF DecodeVideo, ReadObject, display
<1>1. StreamsTypeOK'
  BY StreamsAssumption DEF IInv, StreamsTypeOK, RunTypeOK, run, InTask
<1>2. s \in Videos /\ mode[s] = "decode" /\ mode'[s] = "hold" /\ backlog' = backlog + 1
  BY DEF IInv, StreamsTypeOK
<1>3. Running' = Running
  BY DEF IInv, StreamsTypeOK, Running, InTask
<1>4. Decoding' = Decoding /\ s \in Decoding
  BY <1>2 DEF IInv, StreamsTypeOK, Decoding, DataStreams
<1>5. Holding' = Holding \cup {s} /\ s \notin Holding
  BY <1>2 DEF IInv, StreamsTypeOK, Holding, DataStreams
<1>6. Cardinality(Holding') = Cardinality(Holding) + 1
  BY <1>5, Finite, FS_AddElement
<1>7. BacklogIsExact'
  BY <1>2, <1>6, Finite DEF IInv, StreamsTypeOK, BacklogIsExact, Playing
<1> DEFINE new == <<s, read[s] + 1>>
<1>8. new \in Unread /\ new \notin Unread' /\ Unread' \subseteq Unread
  <2>1. \A v \in Videos : read[v] \in 0..MaxObjects /\ read'[v] = IF v = s THEN read[v] + 1 ELSE read[v]
    BY DEF IInv, StreamsTypeOK, DataStreams
  <2>2. read[s] < MaxObjects /\ MaxObjects \in Nat
    BY StreamsAssumption
  <2> QED
    BY <1>2, <1>4, <2>1, <2>2 DEF Unread
<1>9. Cardinality(Unread') <= Cardinality(Unread) - 1 /\ Cardinality(Unread') \in Nat
  <2>1. /\ IsFiniteSet(Unread \ {new})
        /\ Cardinality(Unread \ {new}) = Cardinality(Unread) - 1
    BY <1>8, Finite, FS_RemoveElement
  <2>2. Unread' \in SUBSET (Unread \ {new})
    BY <1>8
  <2> HIDE DEF new
  <2> QED
    BY <2>1, <2>2, FS_Subset, FS_CardinalityType
<1>10. RoomIsLeft'
  <2>1. Permits * MaxObjects \in Int /\ Limit \in Int /\ backlog \in Int
    BY StreamsAssumption DEF IInv, StreamsTypeOK
  <2> QED
    BY <1>2, <1>9, <2>1, Finite DEF IInv, RoomIsLeft
<1>0. FramesAreVideo'
  BY <1>2 DEF IInv, StreamsTypeOK, FramesAreVideo
<1> QED
  BY <1>0, <1>1, <1>3, <1>7, <1>10 DEF IInv, PermitsHeld

\* A frame goes from its task to the channel.
LEMMA SendKeeps ==
  ASSUME IInv, NEW s \in DataStreams, SendVideo(s) PROVE IInv'
<1>1. CASE PlayerLeft
  BY <1>1, EndKeeps DEF SendVideo, display, PlayerLeft, Playing, InTask
<1>2. CASE ~PlayerLeft
  <2> USE <1>2 DEF SendVideo
  <2>1. /\ UNCHANGED <<read, backlog, player>> /\ queued' = queued + 1
        /\ mode[s] = "hold" /\ mode' = [mode EXCEPT ![s] = "decode"]
    OBVIOUS
  <2>2. StreamsTypeOK'
    BY <2>1 DEF IInv, StreamsTypeOK, RunTypeOK, run, InTask
  <2>3. Running' = Running /\ Decoding' = Decoding
    BY <2>1 DEF IInv, StreamsTypeOK, Running, Decoding, DataStreams, InTask
  <2>4. Unread' = Unread
    BY <2>1, <2>3 DEF Unread
  <2>5. s \in Videos => s \in Holding /\ Holding' = Holding \ {s}
    BY <2>1 DEF IInv, StreamsTypeOK, Holding, DataStreams
  <2>6. s \in Videos
    BY <2>1 DEF IInv, FramesAreVideo
  <2>7. Cardinality(Holding') = Cardinality(Holding) - 1
    BY <2>5, <2>6, Finite, FS_RemoveElement
  <2>8. BacklogIsExact'
    BY <2>1, <2>7, Finite DEF IInv, StreamsTypeOK, BacklogIsExact, Playing
  <2>9. FramesAreVideo'
    BY <2>1 DEF IInv, StreamsTypeOK, FramesAreVideo
  <2> QED
    BY <2>9, <2>1, <2>2, <2>3, <2>4, <2>8 DEF IInv, PermitsHeld, RoomIsLeft
<1> QED
  BY <1>1, <1>2

\* A turn of the player takes a frame that is counted and counts it off after that.
LEMMA PlayerKeeps ==
  ASSUME IInv, PlayerStep PROVE IInv'
<1> USE DEF PlayerStep, Poll, ShowVideo, Exit
<1>1. StreamsTypeOK'
  BY DEF IInv, StreamsTypeOK, RunTypeOK, run
<1>2. UNCHANGED <<mode, read>> /\ backlog' <= backlog /\ backlog \in Int /\ backlog' \in Int
  BY DEF IInv, StreamsTypeOK
<1>3. Running' = Running /\ Holding' = Holding /\ Unread' = Unread /\ FramesAreVideo'
  BY <1>2 DEF IInv, Running, Holding, Unread, Decoding, FramesAreVideo
<1>4. BacklogIsExact'
  BY <1>3, Finite DEF IInv, StreamsTypeOK, BacklogIsExact, Playing
<1>5. RoomIsLeft'
  BY <1>2, <1>3, LessUnread DEF IInv
<1> QED
  BY <1>1, <1>3, <1>4, <1>5 DEF IInv, PermitsHeld

\* Audio goes to a channel that nobody counts.
LEMMA AudioKeeps ==
  ASSUME IInv, NEW s \in DataStreams, DecodeAudio(s) PROVE IInv'
<1>1. CASE PlayerLeft
  BY <1>1, EndKeeps DEF DecodeAudio, display, InTask
<1>2. CASE ~PlayerLeft
  <2> USE <1>2 DEF DecodeAudio, ReadObject, display
  <2>1. StreamsTypeOK'
    BY StreamsAssumption DEF IInv, StreamsTypeOK, RunTypeOK, run
  <2>2. /\ UNCHANGED <<mode, backlog, queued, player>>
        /\ \A v \in Videos : read'[v] = read[v]
    BY StreamsAssumption DEF IInv, StreamsTypeOK, DataStreams
  <2>3. /\ Running' = Running /\ Decoding' = Decoding /\ Holding' = Holding
        /\ FramesAreVideo'
    BY <2>2 DEF IInv, Running, Decoding, Holding, FramesAreVideo
  <2>4. Unread' = Unread
    BY <2>2, <2>3 DEF Unread
  <2> QED
    BY <2>1, <2>2, <2>3, <2>4 DEF IInv, PermitsHeld, BacklogIsExact, RoomIsLeft, Playing
<1> QED
  BY <1>1, <1>2

\* Every step keeps the inductive invariant.
LEMMA InvStep == IInv /\ [StreamsNext]_streamsVars => IInv'
<1> SUFFICES ASSUME IInv, [StreamsNext]_streamsVars PROVE IInv'
  OBVIOUS
<1>1. CASE StartAcceptor \/ RunGoesOn \/ RunFails \/ AcceptorEnds \/ CloseWindow
  BY <1>1, OutsideKeeps
<1>2. CASE LeaveAndAbort \/ Accept
  BY <1>2, AcceptKeeps
<1>3. CASE Spawn
  BY <1>3, SpawnKeeps
<1>4. ASSUME NEW s \in DataStreams, ReadStream(s) PROVE IInv'
  BY <1>4, HeaderKeeps, SkipKeeps, DecodeKeeps, AudioKeeps DEF ReadStream
<1>5. ASSUME NEW s \in DataStreams, SendVideo(s) PROVE IInv'
  BY <1>5, SendKeeps
<1>6. ASSUME NEW s \in DataStreams, ReadEnds(s) PROVE IInv'
  BY <1>6, EndKeeps DEF ReadEnds, Reading, InTask
<1>7. CASE PlayerStep
  BY <1>7, PlayerKeeps
<1>8. CASE UNCHANGED streamsVars
  <2>1. StreamsTypeOK' /\ UNCHANGED <<mode, read, backlog, queued, player>>
    BY <1>8 DEF streamsVars, run, display, IInv, StreamsTypeOK, RunTypeOK
  <2> QED
    BY <2>1, Elsewhere
<1> QED
  BY <1>1, <1>2, <1>3, <1>4, <1>5, <1>6, <1>7, <1>8 DEF StreamsNext

\* The inductive invariant holds in every reachable state.
LEMMA Invariant == StreamsSpec => []IInv
  BY InvInit, InvStep, PTL DEF StreamsSpec

\* Every variable of MoqStreams keeps its type, for any streams and bounds.
THEOREM StreamsTypeCorrect == StreamsSpec => []StreamsTypeOK
<1>1. IInv => StreamsTypeOK
  BY DEF IInv
<1> QED
  BY <1>1, Invariant, PTL

\* The count that the tasks and the player keep without a lock (subscriber.rs, the
\* fetch_add of decode_video and the fetch_sub of run_player) is exact: it is never less
\* than the frames that wait, and never drifts, for any number of tasks.
THEOREM BacklogCounts == StreamsSpec => []BacklogIsExact
<1>1. IInv => BacklogIsExact
  BY DEF IInv
<1> QED
  BY <1>1, Invariant, PTL

\* The permits of accept_streams and MAX_DISPLAY_BACKLOG, looked at once in a group,
\* together bound the frames that wait, whatever the sizes of the groups.
THEOREM BacklogStaysBounded == StreamsSpec => []BacklogIsBounded
<1>1. IInv => BacklogIsBounded
  <2>1. Permits * MaxObjects \in Int /\ Limit \in Int
    BY StreamsAssumption
  <2> QED
    BY <2>1, Finite DEF IInv, StreamsTypeOK, RoomIsLeft, BacklogIsBounded
<1> QED
  BY <1>1, Invariant, PTL

--------------------------------------------------------------------------------
(* MoqSubscriber.  What its steps do to the part of the client that run    *)
(* looks at: no message changes whether the Session has expired, and       *)
(* whatever it does to a subscription leaves a state of one.               *)

\* What a step keeps: the types, and the flag that SubscribeRun calls spent.
RunInv == TypeOK /\ expired \in BOOLEAN

\* The lists of tracks run works through, and what is left of each.
Lists == TrackLists \cup {<<"fetch">>}

LEMMA ListTails ==
  ASSUME NEW l \in Lists, l # <<>>
  PROVE  Tail(l) \in Lists /\ (Head(l) = "fetch" => Tail(l) = <<>>)
<1>1. CASE l \in {<<"fetch">>, <<"video">>, <<"audio">>}
  <2>1. Tail(<<"fetch">>) = <<>> /\ Tail(<<"video">>) = <<>> /\ Tail(<<"audio">>) = <<>>
    OBVIOUS
  <2> QED BY <1>1, <2>1 DEF Lists, TrackLists
<1>2. CASE l = <<"video", "audio">>
  <2>1. Tail(l) = <<"audio">> /\ Head(l) = "video"
    BY <1>2
  <2> QED BY <2>1 DEF Lists, TrackLists
<1> QED BY <1>1, <1>2 DEF Lists, TrackLists

LEMMA ListsInOrder ==
  ASSUME NEW T \in SUBSET {"video", "audio"}
  PROVE  InOrder(T) \in Lists /\ (T # {} => InOrder(T) # <<>>)
<1> DEFINE Holds(l) == {l[i] : i \in DOMAIN l} = T
<1>1. \E l \in TrackLists : Holds(l)
  <2>1. CASE T = {}
    <3>1. Holds(<<>>)
      BY <2>1
    <3> QED BY <3>1 DEF TrackLists
  <2>2. CASE T = {"video"}
    <3>1. Holds(<<"video">>)
      BY <2>2
    <3> QED BY <3>1 DEF TrackLists
  <2>3. CASE T = {"audio"}
    <3>1. Holds(<<"audio">>)
      BY <2>3
    <3> QED BY <3>1 DEF TrackLists
  <2>4. CASE T = {"video", "audio"}
    <3>1. Holds(<<"video", "audio">>)
      BY <2>4
    <3> QED BY <3>1 DEF TrackLists
  <2> QED BY <2>1, <2>2, <2>3, <2>4
<1>2. InOrder(T) \in TrackLists /\ Holds(InOrder(T))
  <2> HIDE DEF Holds
  <2>1. InOrder(T) = CHOOSE l \in TrackLists : Holds(l)
    BY DEF InOrder, Holds
  <2> QED BY <1>1, <2>1, Zenon
<1>3. Holds(<<>>) => T = {}
  OBVIOUS
<1> QED BY <1>2, <1>3 DEF Lists

LEMMA DrainedStates ==
  ASSUME NEW state \in [Own -> OwnStates], NEW sending, NEW ended,
         Drained(state, sending, ended)
  PROVE  own' \in [Own -> OwnStates]
BY DEF Drained, OwnStates

LEMMA OpenStates ==
  ASSUME own \in [Own -> OwnStates], NEW o, OpenRequest(o)
  PROVE  own' \in [Own -> OwnStates] /\ expired' = expired
<1>1. [own EXCEPT ![o] = "pending"] \in [Own -> OwnStates]
  BY DEF OwnStates
<1> QED BY <1>1, DrainedStates DEF OpenRequest

LEMMA ReplyStates ==
  ASSUME own \in [Own -> OwnStates], NEW q, NEW s, NEW last \in BOOLEAN, Reply(q, s, last)
  PROVE  own' \in [Own -> OwnStates] /\ expired' = expired
BY DrainedStates DEF Reply

LEMMA ListenStates ==
  ASSUME own \in [Own -> OwnStates], NEW inSelect \in BOOLEAN, Listen(inSelect)
  PROVE  own' \in [Own -> OwnStates] /\ expired' = expired
<1>1. CASE RecvAnswer
  <2> DEFINE m == Head(bidi)
             state == IF own[m.on] = "pending"
                      THEN [own EXCEPT ![m.on] = IF m.ok THEN "established" ELSE "terminated"]
                      ELSE own
  <2>1. state \in [Own -> OwnStates]
    BY DEF OwnStates
  <2>2. Drained(state, halves, closed)
    BY <1>1 DEF RecvAnswer
  <2> HIDE DEF state
  <2> QED BY <1>1, <2>1, <2>2, DrainedStates DEF RecvAnswer
<1>2. CASE RecvUpdate
  BY <1>2, DrainedStates DEF RecvUpdate
<1>3. CASE RecvRequest(inSelect)
  <2> DEFINE r == Head(bidi).on
  <2>1. \/ Drained(own, halves \cup {r}, closed)
        \/ Drained(own, halves, closed)
        \/ UNCHANGED own
    BY <1>3 DEF RecvRequest
  <2>2. own' \in [Own -> OwnStates]
    BY <2>1, DrainedStates
  <2> QED BY <1>3, <2>2 DEF RecvRequest
<1>4. CASE RecvEnd
  <2> DEFINE s == Head(bidi).on
             state == [o \in Own |-> IF o = s /\ own[o] = "pending" THEN "terminated" ELSE own[o]]
  <2>1. state \in [Own -> OwnStates]
    BY DEF OwnStates
  <2>2. PICK ended \in {closed, closed \cup {s}} : Drained(state, halves, ended)
    BY <1>4 DEF RecvEnd
  <2> HIDE DEF state
  <2> QED BY <1>4, <2>1, <2>2, DrainedStates DEF RecvEnd
<1>5. CASE RecvGoaway
  BY <1>5, DrainedStates DEF RecvGoaway
<1>6. CASE RecvDone
  <2> DEFINE state == [own EXCEPT ![Head(bidi).on] = "terminated"]
  <2>1. state \in [Own -> OwnStates]
    BY DEF OwnStates
  <2>2. Drained(state, halves, closed)
    BY <1>6 DEF RecvDone
  <2> HIDE DEF state
  <2> QED BY <1>6, <2>1, <2>2, DrainedStates DEF RecvDone
<1> QED BY <1>1, <1>2, <1>3, <1>4, <1>5, <1>6 DEF Listen, Pump

\* The relay touches neither.
LEMMA RelayStates ==
  ASSUME \/ RelayAsks
         \/ \E r \in Own : RelaySays(r) \/ TaskBlocks(r)
  PROVE  UNCHANGED <<own, expired, pc, todo, stream, catalog, conn>>
BY DEF RelayAsks, RelaySays, TaskBlocks, PeerAnswers, PeerIsDone, PeerUpdates, PeerEnds, PeerAsks,
       PeerControls, clientVars

\* Every step keeps the types and is one of SubscribeRun, or changes nothing there.
LEMMA RunStep ==
  ASSUME RunInv, [Next]_vars
  PROVE  RunInv' /\ [Run!RunNext]_(Run!run)
<1> USE DEF RunInv, TypeOK
<1>0. own \in [Own -> OwnStates] /\ todo \in Lists
  BY DEF Lists
<1>1. CASE UNCHANGED vars
  BY <1>1 DEF vars, clientVars, Run!run, Phase
<1>2. CASE RelayAsks \/ \E r \in Own : RelaySays(r) \/ TaskBlocks(r)
  <2>1. UNCHANGED <<own, expired, pc, todo, stream, catalog, conn>>
    BY <1>2, RelayStates
  <2>2. task' \in [Own -> {"none", "reading", "holding", "gone"}]
    BY <1>2 DEF RelayAsks, RelaySays, TaskBlocks
  <2> QED BY <2>1, <2>2 DEF Run!run, Phase
<1>3. CASE Disconnect
  BY <1>3 DEF Disconnect, clientVars, Run!RunNext, Run!LoseLink, Phase
<1>4. CASE Ask
  <2>1. own' \in [Own -> OwnStates] /\ expired' = expired
    BY <1>4, OpenStates DEF Ask
  <2>2. task' \in [Own -> {"none", "reading", "holding", "gone"}]
    BY <1>4 DEF Ask
  <2> QED BY <1>4, <2>1, <2>2 DEF Ask, Run!run, Phase
<1>5. CASE Wait \/ TakeMessage
  <2>1. PICK inSelect \in BOOLEAN : Listen(inSelect)
    BY <1>5 DEF Wait, TakeMessage
  <2>2. own' \in [Own -> OwnStates] /\ expired' = expired
    BY <2>1, ListenStates
  <2> QED BY <1>5, <2>2 DEF Wait, TakeMessage, Run!run, Phase
<1>6. CASE Established
  <2>1. /\ pc = "await" /\ todo # <<>> /\ UNCHANGED <<own, expired, task, stream, catalog, conn>>
        /\ todo' = Tail(todo)
        /\ pc' = IF Head(todo) = "fetch" THEN "catalog" ELSE IF todo' = <<>> THEN "loop" ELSE "await"
    BY <1>6 DEF Established, clientVars
  <2>2. todo' \in Lists
    BY <1>0, <2>1, ListTails
  <2>3. RunInv'
    BY <2>1, <2>2 DEF Lists
  <2>4. CASE pc' = "loop"
    BY <2>1, <2>3, <2>4 DEF Run!RunNext, Run!Enter, Phase
  <2>5. CASE pc' # "loop"
    <3>1. pc' \in {"catalog", "await"}
      BY <2>1, <2>5
    <3>2. Phase' = Phase
      BY <2>1, <3>1 DEF Phase
    <3> QED BY <2>1, <2>3, <3>2 DEF Run!run
  <2> QED BY <2>3, <2>4, <2>5
<1>7. CASE TakeStream
  BY <1>7 DEF TakeStream, clientVars, Run!run, Phase
<1>8. CASE ReadEntry
  <2>1. RunInv' /\ UNCHANGED <<conn, expired>> /\ pc = "catalog" /\ pc' \in {pc, "failed"}
    BY <1>8 DEF ReadEntry, clientVars
  <2>2. CASE pc' = "failed"
    BY <2>1, <2>2 DEF Run!RunNext, Run!Abandon, Phase
  <2>3. CASE pc' = pc
    BY <2>1, <2>3 DEF Run!run, Phase
  <2> QED BY <2>1, <2>2, <2>3
<1>9. CASE StreamEnds
  <2>1. /\ pc = "catalog" /\ stream' = "none" /\ UNCHANGED <<own, expired, task, catalog, conn>>
        /\ \/ UNCHANGED todo /\ pc' \in {pc, "failed"}
           \/ \E T \in SUBSET Tracks :
                todo' = InOrder(T) /\ pc' = IF T = {} THEN "failed" ELSE "await"
    BY <1>9 DEF StreamEnds, clientVars
  <2>2. \A T \in SUBSET Tracks : InOrder(T) \in Lists /\ (T # {} => InOrder(T) # <<>>)
    BY ListsInOrder, SubscriberAssumption DEF Tracks
  <2>3. todo' \in Lists /\ pc' \in {pc, "failed", "await"} /\ (pc' = "await" => todo' # <<>>)
    BY <1>0, <2>1, <2>2
  <2>4. RunInv'
    BY <2>1, <2>3 DEF Lists
  <2>5. CASE pc' = "failed"
    BY <2>1, <2>4, <2>5 DEF Run!RunNext, Run!Abandon, Phase
  <2>6. CASE pc' # "failed"
    BY <2>1, <2>3, <2>4, <2>6 DEF Run!run, Phase
  <2> QED BY <2>4, <2>5, <2>6
<1>10. CASE ServeUpdate \/ ServeRequest
  <2>1. own' \in [Own -> OwnStates] /\ expired' = expired
    BY <1>10, ReplyStates DEF ServeUpdate, ServeRequest
  <2>2. UNCHANGED <<pc, todo, task, stream, catalog, conn>>
    BY <1>10 DEF ServeUpdate, ServeRequest
  <2> QED BY <2>1, <2>2 DEF Run!run, Phase
<1>11. CASE RunTimer
  <2>1. own' \in [Own -> OwnStates] /\ ~expired /\ expired' \in BOOLEAN
    BY <1>11, DrainedStates DEF RunTimer, Tick
  <2>2. RunInv' /\ UNCHANGED <<pc, conn>>
    BY <1>11, <2>1 DEF RunTimer
  <2>3. Phase' = Phase
    BY <2>2 DEF Phase
  <2>4. expired = FALSE
    BY <2>1
  <2>5. CASE expired' = TRUE
    <3>1. Run!Expire
      BY <2>2, <2>3, <2>5 DEF Run!Expire
    <3> QED BY <2>2, <3>1 DEF Run!RunNext
  <2>6. CASE expired' = FALSE
    <3>1. UNCHANGED Run!run
      BY <2>2, <2>3, <2>4, <2>6 DEF Run!run
    <3> QED BY <2>2, <3>1
  <2> QED BY <2>1, <2>5, <2>6
<1>12. CASE Stop
  <2>1. {t \in Tracks : own[t] # "unsent"} \in SUBSET {"video", "audio"}
    BY SubscriberAssumption DEF Tracks
  <2>2. todo' \in Lists
    BY <1>12, <2>1, ListsInOrder DEF Stop
  <2> QED BY <1>12, <2>2 DEF Stop, clientVars, Lists, Run!RunNext, Run!Turn, Phase
<1>13. CASE Break \/ Fail
  <2>1. pc \in {"await", "catalog", "loop"}
    BY <1>13 DEF Break, Fail, Refused
  <2> QED BY <1>13, <2>1 DEF Break, Fail, clientVars, Run!RunNext, Run!Abandon, Phase
<1>14. CASE StopTrack
  <2>1. /\ pc = "stop" /\ todo # <<>> /\ pc' \in {"stop", "ack"} /\ todo' \in {todo, Tail(todo)}
        /\ pc' = "ack" => todo' = todo
        /\ UNCHANGED <<expired, task, stream, catalog, conn>>
    BY <1>14 DEF StopTrack
  <2>2. own' \in [Own -> OwnStates]
    BY <1>14, DrainedStates DEF StopTrack
  <2>3. todo' \in Lists
    BY <1>0, <2>1, ListTails
  <2> QED BY <2>1, <2>2, <2>3 DEF Lists, Run!run, Phase
<1>15. CASE Acknowledge \/ GiveUp
  <2>1. /\ pc = "ack" /\ pc' = "stop" /\ todo' = Tail(todo)
        /\ UNCHANGED <<own, expired, stream, catalog, conn>>
    BY <1>15 DEF Acknowledge, GiveUp, NextTrack, clientVars
  <2>2. task' \in [Own -> {"none", "reading", "holding", "gone"}]
    BY <1>15 DEF Acknowledge, GiveUp
  <2>3. todo' \in Lists
    BY <1>0, <2>1, ListTails
  <2> QED BY <2>1, <2>2, <2>3 DEF Lists, Run!run, Phase
<1>16. CASE Leave
  BY <1>16 DEF Leave, clientVars, Run!RunNext, Run!Goodbye, Phase
<1> QED BY <1>1, <1>2, <1>3, <1>4, <1>5, <1>6, <1>7, <1>8, <1>9, <1>10, <1>11, <1>12, <1>13,
           <1>14, <1>15, <1>16 DEF Next, SetUp

LEMMA RunStart ==
  ASSUME Init
  PROVE  RunInv /\ Run!RunInit
<1>1. TypeOK
  <2>1. own \in [Own -> OwnStates]
    BY DEF Init, ClientInit, OwnStates
  <2>2. task \in [Own -> {"none", "reading", "holding", "gone"}]
    BY DEF Init
  <2>3. /\ pc = "await" /\ todo = <<"fetch">> /\ stream = "none"
        /\ catalog = FALSE /\ conn = TRUE
    BY DEF Init
  <2>4. <<"fetch">> # <<>>
    OBVIOUS
  <2> QED BY <2>1, <2>2, <2>3, <2>4 DEF TypeOK
<1>2. expired = FALSE
  BY DEF Init, ClientInit
<1>3. Phase = "setup"
  BY DEF Init, Phase
<1>4. Run!RunInit
  BY <1>2, <1>3 DEF Init, Run!RunInit
<1> QED BY <1>1, <1>2, <1>4 DEF RunInv

\* What run is doing and has yet to do fits together: while it waits for a request, or
\* for a task to stop, there is one to wait for.
THEOREM TypeCorrect == Spec => []TypeOK
<1>1. Init => RunInv
  BY RunStart
<1>2. RunInv /\ [Next]_vars => RunInv'
  BY RunStep
<1> QED BY <1>1, <1>2, PTL DEF Spec, RunInv

\* run keeps the safety part of SubscribeRun, on which the streams and the player rely:
\* it closes the connection only after its goodbyes, unless the relay or an error of a
\* closed Session does, and it never comes back from them.
THEOREM RunKeepsItsPromise == Spec => Run!RunInit /\ [][Run!RunNext]_(Run!run)
<1>1. Init => RunInv /\ Run!RunInit
  BY RunStart
<1>2. RunInv /\ [Next]_vars => RunInv' /\ [Run!RunNext]_(Run!run)
  BY RunStep
<1> QED BY <1>1, <1>2, PTL DEF Spec
================================================================================
