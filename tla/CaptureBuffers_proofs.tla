-------------------------- MODULE CaptureBuffers_proofs --------------------------
(***************************************************************************)
(* Theorems about CaptureBuffers: for any number of buffers, encoders and  *)
(* frames, the hardware reads the frame it was asked to encode, unless the *)
(* capture thread had given up the wait.                                   *)
(***************************************************************************)
EXTENDS CaptureBuffers, TLAPS

Busy == thread \in {"feed", "copy", "wait", "back"}

\* The capture thread has one buffer, with the frame it is at; the camera cannot touch it.
HandIsHeld ==
  /\ Busy => hand \in Entries /\ at[hand.buf] = "thread" /\ content[hand.buf] = hand.frame
  /\ ~Busy => hand = Nothing

\* So has the channel, each buffer once.
ChannelIsHeld ==
  /\ \A i \in 1..Len(channel) :
       /\ at[channel[i].buf] = "channel"
       /\ channel[i].frame # NoFrame => content[channel[i].buf] = channel[i].frame
  /\ \A i, k \in 1..Len(channel) : channel[i].buf = channel[k].buf => i = k

\* Frames are numbered in order: what is in the channel has not been given to anybody.
Given(f) == f \in late \/ \E e \in Encoders : pending[e] = f
FramesAreFresh ==
  /\ \A i \in 1..Len(channel) :
       /\ channel[i].frame <= frame
       /\ channel[i].frame # NoFrame => ~Given(channel[i].frame) /\ channel[i].frame # hand.frame
  /\ \A i, k \in 1..Len(channel) :
       channel[i].frame = channel[k].frame => i = k \/ channel[i].frame = NoFrame
  /\ hand.frame <= frame
  /\ \A f \in Frames : Given(f) => f <= frame
  /\ thread = "feed" => ~Given(hand.frame)

\* What is on its way through an encoder is the frame at hand, or late.
TakenIsHeld ==
  /\ \A e \in Encoders : taken[e] # Nothing =>
       taken[e].frame \in late \/ (thread = "wait" /\ taken[e] = hand)
  /\ \A j \in jobs :
       j.frame \in late \/ (thread = "wait" /\ j.buf = hand.buf /\ j.frame = hand.frame)

\* The frame at hand is in one place: the map, an encoder, or the hardware.
NotTaken == \A e \in Encoders : taken[e] # hand
NotRead == \A j \in jobs : j.frame # hand.frame
OnePlace ==
  thread = "wait" =>
    /\ hand.frame \notin late
    /\ hand \in map => NotTaken /\ NotRead
    /\ \A e \in Encoders : taken[e] = hand =>
         NotRead /\ \A d \in Encoders : taken[d] = hand => d = e
    /\ \A j, k \in jobs : j.frame = hand.frame /\ k.frame = hand.frame => j = k
    /\ signalled => hand \notin map /\ NotTaken /\ NotRead

\* No frame is answered before it is given away.
NotAnswered == thread = "feed" => ~signalled

\* After the wait, an entry that is still in the map is late.
LeftIsLate == thread = "back" /\ hand \in map => hand.frame \in late

IInv ==
  /\ TypeOK /\ HandIsHeld /\ ChannelIsHeld /\ FramesAreFresh
  /\ MapHoldsFrameAtHand /\ TakenIsHeld /\ OnePlace /\ NotAnswered /\ LeftIsLate

\* Taking the head of a channel leaves the others in order.
LEMMA TailOfChannel ==
  ASSUME NEW S, NEW q \in Seq(S), q # <<>>
  PROVE  /\ Head(q) \in S /\ Head(q) = q[1] /\ 1 \in 1..Len(q)
         /\ Tail(q) \in Seq(S) /\ Len(Tail(q)) = Len(q) - 1
         /\ \A i \in 1..Len(Tail(q)) : Tail(q)[i] = q[i + 1] /\ i + 1 \in 1..Len(q) /\ i + 1 # 1
  OBVIOUS

\* What a channel holds, and what it holds after one more message.
LEMMA Channels ==
  ASSUME NEW S, NEW q \in Seq(S)
  PROVE  (\A i \in 1..Len(q) : q[i] \in S) /\ (\A x \in S : Append(q, x) \in Seq(S))
  OBVIOUS

\* The initial states satisfy the inductive invariant.
LEMMA InvInit == Init => IInv
<1> SUFFICES ASSUME Init PROVE IInv
  OBVIOUS
<1> USE DEF Init, Nothing, NoFrame, Frames
<1>1. TypeOK
  <2>1. channel \in Seq([frame : Frames \cup {NoFrame}, buf : Buffers])
    OBVIOUS
  <2> QED
    BY <2>1, CaptureAssumption DEF TypeOK, Entries, Jobs, Places
<1>2. HandIsHeld /\ ChannelIsHeld /\ NotAnswered /\ LeftIsLate /\ MapHoldsFrameAtHand
  BY DEF HandIsHeld, ChannelIsHeld, NotAnswered, LeftIsLate, MapHoldsFrameAtHand, Busy
<1>3. FramesAreFresh /\ TakenIsHeld /\ OnePlace
  BY DEF FramesAreFresh, TakenIsHeld, OnePlace, Given
<1> QED
  BY <1>1, <1>2, <1>3 DEF IInv

LEMMA CompleteKeeps ==
  ASSUME IInv, NEW b \in Buffers, Complete(b) PROVE IInv'
<1> USE DEF Complete, camera, capture, encode
<1>0. channel \in Seq([frame : Frames \cup {NoFrame}, buf : Buffers]) /\ frame \in Nat /\ frame + 1 \in Frames
  BY CaptureAssumption DEF IInv, TypeOK, NoFrame, Frames
<1>a. \/ UNCHANGED channel /\ at' = [at EXCEPT ![b] = "cancelled"]
      \/ \E new \in [frame : Frames \cup {NoFrame}, buf : Buffers] :
           /\ new.buf = b /\ (new.frame = frame + 1 \/ new.frame = NoFrame)
           /\ channel' = Append(channel, new) /\ at' = [at EXCEPT ![b] = "channel"]
  <2>1. /\ [frame |-> frame + 1, buf |-> b] \in [frame : Frames \cup {NoFrame}, buf : Buffers]
        /\ [frame |-> NoFrame, buf |-> b] \in [frame : Frames \cup {NoFrame}, buf : Buffers]
    BY <1>0
  <2>2. CASE Report(b, frame') /\ at' = [at EXCEPT ![b] = "channel"]
    BY <2>1, <2>2 DEF Report
  <2>3. CASE Report(b, NoFrame) /\ at' = [at EXCEPT ![b] = "channel"]
    BY <2>1, <2>3 DEF Report
  <2> QED
    BY <2>2, <2>3
<1>b. channel' \in Seq([frame : Frames \cup {NoFrame}, buf : Buffers])
  <2>1. \A new \in [frame : Frames \cup {NoFrame}, buf : Buffers] : Append(channel, new) \in Seq([frame : Frames \cup {NoFrame}, buf : Buffers])
    BY <1>0, Channels
  <2> QED
    BY <1>0, <1>a, <2>1
<1>1. TypeOK'
  BY <1>0, <1>a, <1>b DEF IInv, TypeOK, Places, NoFrame
<1>2. HandIsHeld'
  BY <1>1, <1>a DEF IInv, TypeOK, HandIsHeld, ChannelIsHeld, Busy, Entries, Nothing
<1>c. \A i \in 1..Len(channel) : channel[i] \in [frame : Frames \cup {NoFrame}, buf : Buffers] /\ channel[i].buf # b
  <2>1. \A i \in 1..Len(channel) : at[channel[i].buf] = "channel"
    BY DEF IInv, ChannelIsHeld
  <2> QED
    BY <1>0, <2>1, Channels
<1>3. ChannelIsHeld'
  <2>1. CASE UNCHANGED channel
    BY <2>1, <1>a, <1>c DEF IInv, TypeOK, ChannelIsHeld
  <2>2. ASSUME NEW new \in [frame : Frames \cup {NoFrame}, buf : Buffers], new.buf = b, new.frame = frame + 1 \/ new.frame = NoFrame,
               channel' = Append(channel, new), at' = [at EXCEPT ![b] = "channel"]
        PROVE  ChannelIsHeld'
    <3>1. /\ Len(channel') = Len(channel) + 1 /\ channel'[Len(channel) + 1] = new
          /\ \A i \in 1..Len(channel) : channel'[i] = channel[i]
      BY <1>0, <2>2
    <3>2. \A i \in 1..Len(channel') : i \in 1..Len(channel) \/ i = Len(channel) + 1
      BY <3>1, <1>0
    <3>3. at'[b] = "channel" /\ \A c \in Buffers \ {b} : at'[c] = at[c] /\ content'[c] = content[c]
      BY <2>2 DEF IInv, TypeOK
    <3>4. content'[b] = frame + 1
      BY DEF IInv, TypeOK
    <3> QED
      BY <1>c, <2>2, <3>1, <3>2, <3>3, <3>4 DEF IInv, ChannelIsHeld
  <2> QED
    BY <1>a, <2>1, <2>2
<1>4. FramesAreFresh'
  <2>1. /\ hand' = hand /\ frame' = frame + 1 /\ hand.frame <= frame /\ hand.frame \in Nat
        /\ \A f \in Frames : Given(f)' <=> Given(f)
        /\ ~Given(frame + 1)
    BY <1>0 DEF IInv, TypeOK, FramesAreFresh, Given, Entries, Nothing, NoFrame, Frames
  <2>2. CASE UNCHANGED channel
    BY <2>1, <2>2, <1>0, <1>c DEF IInv, TypeOK, FramesAreFresh, Given, NoFrame, Frames
  <2>3. ASSUME NEW new \in [frame : Frames \cup {NoFrame}, buf : Buffers], new.buf = b, new.frame = frame + 1 \/ new.frame = NoFrame,
               channel' = Append(channel, new), at' = [at EXCEPT ![b] = "channel"]
        PROVE  FramesAreFresh'
    <3>1. /\ Len(channel') = Len(channel) + 1 /\ channel'[Len(channel) + 1] = new
          /\ \A i \in 1..Len(channel) : channel'[i] = channel[i]
      BY <1>0, <2>3
    <3>2. \A i \in 1..Len(channel') : i \in 1..Len(channel) \/ i = Len(channel) + 1
      BY <3>1, <1>0
    <3> QED
      BY <1>0, <1>c, <2>1, <2>3, <3>1, <3>2 DEF IInv, FramesAreFresh, Given, NoFrame, Frames
  <2> QED
    BY <1>a, <2>2, <2>3
<1>5. MapHoldsFrameAtHand'
  BY DEF IInv, MapHoldsFrameAtHand
<1>6. TakenIsHeld' /\ NotAnswered' /\ LeftIsLate'
  BY DEF IInv, TypeOK, TakenIsHeld, NotAnswered, LeftIsLate, MapHoldsFrameAtHand
<1>7. OnePlace'
  BY DEF IInv, TypeOK, OnePlace, NotTaken, NotRead
<1> QED
  BY <1>1, <1>2, <1>3, <1>4, <1>5, <1>6, <1>7 DEF IInv

LEMMA TakeNoFrameKeeps ==
  ASSUME IInv, TakeNoFrame PROVE IInv'
<1> USE DEF TakeNoFrame, camera, capture, encode
<1>0. channel \in Seq([frame : Frames \cup {NoFrame}, buf : Buffers]) /\ channel # <<>>
  BY DEF IInv, TypeOK
<1>a. /\ Head(channel) \in [frame : Frames \cup {NoFrame}, buf : Buffers]
      /\ Tail(channel) \in Seq([frame : Frames \cup {NoFrame}, buf : Buffers])
  BY <1>0, TailOfChannel
<1>1. TypeOK'
  BY <1>a DEF IInv, TypeOK, Entries, Places, NoFrame
<1>2. HandIsHeld'
  BY <1>1 DEF IInv, TypeOK, HandIsHeld, ChannelIsHeld, Busy, Entries, Nothing
<1>b. /\ Head(channel) = channel[1] /\ 1 \in 1..Len(channel)
      /\ Len(channel') = Len(channel) - 1
      /\ \A i \in 1..Len(channel') :
           channel'[i] = channel[i + 1] /\ i + 1 \in 1..Len(channel) /\ i + 1 # 1
  BY <1>0, TailOfChannel
<1>c. \A i \in 1..Len(channel') :
        at'[channel'[i].buf] = at[channel'[i].buf] /\ content' = content
  BY <1>b DEF IInv, TypeOK, ChannelIsHeld
<1>3. ChannelIsHeld'
  BY <1>b, <1>c, SMTT(30) DEF IInv, ChannelIsHeld
<1>4. FramesAreFresh'
  BY <1>1 DEF IInv, TypeOK, FramesAreFresh, Given, Entries, Nothing, NoFrame, Frames, HandIsHeld, Busy
<1>5. MapHoldsFrameAtHand'
  BY DEF IInv, MapHoldsFrameAtHand
<1>6. TakenIsHeld' /\ NotAnswered' /\ LeftIsLate'
  BY DEF IInv, TypeOK, TakenIsHeld, NotAnswered, LeftIsLate, MapHoldsFrameAtHand
<1>7. OnePlace'
  BY DEF IInv, TypeOK, OnePlace, NotTaken, NotRead
<1> QED
  BY <1>1, <1>2, <1>3, <1>4, <1>5, <1>6, <1>7 DEF IInv

LEMMA TakeFrameKeeps ==
  ASSUME IInv, TakeFrame PROVE IInv'
<1> USE DEF TakeFrame, camera, capture, encode
<1>0. channel \in Seq([frame : Frames \cup {NoFrame}, buf : Buffers]) /\ channel # <<>>
  BY DEF IInv, TypeOK
<1>a. /\ Head(channel) \in [frame : Frames \cup {NoFrame}, buf : Buffers]
      /\ Tail(channel) \in Seq([frame : Frames \cup {NoFrame}, buf : Buffers])
  BY <1>0, TailOfChannel
<1>1. TypeOK'
  BY <1>a DEF IInv, TypeOK, Entries, Places, NoFrame
<1>2. HandIsHeld'
  BY <1>1 DEF IInv, TypeOK, HandIsHeld, ChannelIsHeld, Busy, Entries, Nothing
<1>3. ChannelIsHeld'
  BY <1>1 DEF IInv, TypeOK, ChannelIsHeld, HandIsHeld, Busy, Entries, NoFrame
<1>b. \A i \in 1..Len(channel) : channel[i] \in [frame : Frames \cup {NoFrame}, buf : Buffers]
  BY <1>0, Channels
<1>c. /\ hand' = channel[1] /\ 1 \in 1..Len(channel) /\ hand'.frame # NoFrame
      /\ Len(channel') = Len(channel) - 1
      /\ \A i \in 1..Len(channel') :
           channel'[i] = channel[i + 1] /\ i + 1 \in 1..Len(channel) /\ i + 1 # 1
  BY <1>0, TailOfChannel
<1>d. /\ frame' = frame /\ late' = late /\ pending' = pending
  OBVIOUS
<1>4. FramesAreFresh'
  BY <1>b, <1>c, <1>d DEF IInv, FramesAreFresh, Given
<1>5. MapHoldsFrameAtHand'
  BY DEF IInv, MapHoldsFrameAtHand
<1>6. TakenIsHeld' /\ NotAnswered' /\ LeftIsLate'
  BY DEF IInv, TypeOK, TakenIsHeld, NotAnswered, LeftIsLate, MapHoldsFrameAtHand
<1>7. OnePlace'
  BY DEF IInv, TypeOK, OnePlace, NotTaken, NotRead
<1> QED
  BY <1>1, <1>2, <1>3, <1>4, <1>5, <1>6, <1>7 DEF IInv

LEMMA CopyFrameKeeps ==
  ASSUME IInv, CopyFrame PROVE IInv'
<1> USE DEF CopyFrame, Requeue, camera, capture, encode
<1>1. TypeOK'
  BY CaptureAssumption DEF IInv, TypeOK, Entries, Jobs, Places, Nothing, NoFrame, Frames
<1>2. HandIsHeld'
  BY <1>1 DEF IInv, TypeOK, HandIsHeld, ChannelIsHeld, Busy, Entries, Nothing
<1>3. ChannelIsHeld'
  BY <1>1 DEF IInv, TypeOK, ChannelIsHeld, HandIsHeld, Busy, Entries, NoFrame
<1>4. FramesAreFresh'
  BY <1>1 DEF IInv, TypeOK, FramesAreFresh, Given, Entries, Nothing, NoFrame, Frames, HandIsHeld, Busy
<1>5. MapHoldsFrameAtHand'
  BY DEF IInv, MapHoldsFrameAtHand
<1>6. TakenIsHeld' /\ NotAnswered' /\ LeftIsLate'
  BY DEF IInv, TypeOK, TakenIsHeld, NotAnswered, LeftIsLate, MapHoldsFrameAtHand
<1>7. OnePlace'
  BY DEF IInv, TypeOK, OnePlace, NotTaken, NotRead
<1> QED
  BY <1>1, <1>2, <1>3, <1>4, <1>5, <1>6, <1>7 DEF IInv

LEMMA DropFrameKeeps ==
  ASSUME IInv, DropFrame PROVE IInv'
<1> USE DEF DropFrame, Requeue, camera, capture, encode
<1>1. TypeOK'
  BY CaptureAssumption DEF IInv, TypeOK, Entries, Jobs, Places, Nothing, NoFrame, Frames
<1>2. HandIsHeld'
  BY <1>1 DEF IInv, TypeOK, HandIsHeld, ChannelIsHeld, Busy, Entries, Nothing
<1>3. ChannelIsHeld'
  BY <1>1 DEF IInv, TypeOK, ChannelIsHeld, HandIsHeld, Busy, Entries, NoFrame
<1>4. FramesAreFresh'
  BY <1>1 DEF IInv, TypeOK, FramesAreFresh, Given, Entries, Nothing, NoFrame, Frames, HandIsHeld, Busy
<1>5. MapHoldsFrameAtHand'
  BY DEF IInv, MapHoldsFrameAtHand
<1>6. TakenIsHeld' /\ NotAnswered' /\ LeftIsLate'
  BY DEF IInv, TypeOK, TakenIsHeld, NotAnswered, LeftIsLate, MapHoldsFrameAtHand
<1>7. OnePlace'
  BY DEF IInv, TypeOK, OnePlace, NotTaken, NotRead
<1> QED
  BY <1>1, <1>2, <1>3, <1>4, <1>5, <1>6, <1>7 DEF IInv

LEMMA FeedFrameKeeps ==
  ASSUME IInv, FeedFrame PROVE IInv'
<1> USE DEF FeedFrame, camera, capture, encode
<1>1. TypeOK'
  BY CaptureAssumption DEF IInv, TypeOK, Entries, Jobs, Places, Nothing, NoFrame, Frames
<1>2. HandIsHeld'
  BY <1>1 DEF IInv, TypeOK, HandIsHeld, ChannelIsHeld, Busy, Entries, Nothing
<1>3. ChannelIsHeld'
  BY <1>1 DEF IInv, TypeOK, ChannelIsHeld, HandIsHeld, Busy, Entries, NoFrame
<1>a. \A e \in Encoders : pending'[e] \in {pending[e], hand.frame, NoFrame}
  OBVIOUS
<1>b. \A f \in Frames : Given(f)' => Given(f) \/ f = hand.frame
  BY <1>a DEF Given, NoFrame, Frames
<1>c. \A i \in 1..Len(channel) : channel[i].frame \in Frames \cup {NoFrame}
  <2>1. channel \in Seq([frame : Frames \cup {NoFrame}, buf : Buffers])
    BY DEF IInv, TypeOK
  <2>2. \A i \in 1..Len(channel) : channel[i] \in [frame : Frames \cup {NoFrame}, buf : Buffers]
    BY <2>1, Channels
  <2> QED
    BY <2>2
<1>4. FramesAreFresh'
  BY <1>b, <1>c DEF IInv, FramesAreFresh
<1>5. MapHoldsFrameAtHand'
  BY DEF IInv, MapHoldsFrameAtHand
<1>6. TakenIsHeld' /\ NotAnswered' /\ LeftIsLate'
  BY DEF IInv, TypeOK, TakenIsHeld, NotAnswered, LeftIsLate, MapHoldsFrameAtHand
<1>7. OnePlace'
  <2>1. thread = "feed" /\ hand \in Entries /\ hand.frame \notin late /\ ~signalled
    BY DEF IInv, FramesAreFresh, Given, NotAnswered, TypeOK
  <2>2. NotTaken /\ NotRead
    BY <2>1 DEF IInv, TakenIsHeld, NotTaken, NotRead, Entries, Nothing, NoFrame, Frames
  <2>3. /\ NotTaken' /\ NotRead' /\ hand' = hand /\ late' = late /\ signalled' = signalled
        /\ jobs' = jobs /\ taken' = taken
    BY <2>2 DEF NotTaken, NotRead
  <2> QED
    BY <2>1, <2>2, <2>3 DEF OnePlace, NotTaken, NotRead
<1> QED
  BY <1>1, <1>2, <1>3, <1>4, <1>5, <1>6, <1>7 DEF IInv

LEMMA WaitEndsKeeps ==
  ASSUME IInv, WaitEnds PROVE IInv'
<1> USE DEF WaitEnds, DonePending, camera, capture, encode
<1>1. TypeOK'
  BY CaptureAssumption DEF IInv, TypeOK, Entries, Jobs, Places, Nothing, NoFrame, Frames
<1>2. HandIsHeld'
  BY <1>1 DEF IInv, TypeOK, HandIsHeld, ChannelIsHeld, Busy, Entries, Nothing
<1>3. ChannelIsHeld'
  BY <1>1 DEF IInv, TypeOK, ChannelIsHeld, HandIsHeld, Busy, Entries, NoFrame
<1>4. FramesAreFresh'
  BY <1>1 DEF IInv, TypeOK, FramesAreFresh, Given, Entries, Nothing, NoFrame, Frames, HandIsHeld, Busy
<1>5. MapHoldsFrameAtHand'
  BY DEF IInv, MapHoldsFrameAtHand
<1>a. hand \notin map /\ NotTaken /\ NotRead
  BY DEF IInv, OnePlace, NotTaken, NotRead
<1>6. TakenIsHeld' /\ NotAnswered' /\ LeftIsLate'
  BY <1>a DEF IInv, TypeOK, TakenIsHeld, NotAnswered, LeftIsLate, NotTaken, NotRead
<1>7. OnePlace'
  BY DEF IInv, TypeOK, OnePlace, NotTaken, NotRead
<1> QED
  BY <1>1, <1>2, <1>3, <1>4, <1>5, <1>6, <1>7 DEF IInv

LEMMA WaitTimesOutKeeps ==
  ASSUME IInv, WaitTimesOut PROVE IInv'
<1> USE DEF WaitTimesOut, camera, capture, encode
<1>1. TypeOK'
  BY CaptureAssumption DEF IInv, TypeOK, Entries, Jobs, Places, Nothing, NoFrame, Frames
<1>2. HandIsHeld'
  BY <1>1 DEF IInv, TypeOK, HandIsHeld, ChannelIsHeld, Busy, Entries, Nothing
<1>3. ChannelIsHeld'
  BY <1>1 DEF IInv, TypeOK, ChannelIsHeld, HandIsHeld, Busy, Entries, NoFrame
<1>4. FramesAreFresh'
  BY <1>1 DEF IInv, TypeOK, FramesAreFresh, Given, Entries, Nothing, NoFrame, Frames, HandIsHeld, Busy
<1>5. MapHoldsFrameAtHand'
  BY DEF IInv, MapHoldsFrameAtHand
<1>6. TakenIsHeld' /\ NotAnswered' /\ LeftIsLate'
  BY DEF IInv, TypeOK, TakenIsHeld, NotAnswered, LeftIsLate, MapHoldsFrameAtHand
<1>7. OnePlace'
  BY DEF IInv, TypeOK, OnePlace, NotTaken, NotRead
<1> QED
  BY <1>1, <1>2, <1>3, <1>4, <1>5, <1>6, <1>7 DEF IInv

LEMMA ReturnBufferKeeps ==
  ASSUME IInv, ReturnBuffer PROVE IInv'
<1> USE DEF ReturnBuffer, Requeue, camera, capture, encode
<1>1. TypeOK'
  BY CaptureAssumption DEF IInv, TypeOK, Entries, Jobs, Places, Nothing, NoFrame, Frames
<1>2. HandIsHeld'
  BY <1>1 DEF IInv, TypeOK, HandIsHeld, ChannelIsHeld, Busy, Entries, Nothing
<1>3. ChannelIsHeld'
  BY <1>1 DEF IInv, TypeOK, ChannelIsHeld, HandIsHeld, Busy, Entries, NoFrame
<1>4. FramesAreFresh'
  BY <1>1 DEF IInv, TypeOK, FramesAreFresh, Given, Entries, Nothing, NoFrame, Frames, HandIsHeld, Busy
<1>5. MapHoldsFrameAtHand'
  BY DEF IInv, MapHoldsFrameAtHand
<1>6. TakenIsHeld' /\ NotAnswered' /\ LeftIsLate'
  BY DEF IInv, TypeOK, TakenIsHeld, NotAnswered, LeftIsLate, MapHoldsFrameAtHand
<1>7. OnePlace'
  BY DEF IInv, TypeOK, OnePlace, NotTaken, NotRead
<1> QED
  BY <1>1, <1>2, <1>3, <1>4, <1>5, <1>6, <1>7 DEF IInv

LEMMA LoopKeeps ==
  ASSUME IInv, Drop \/ Check \/ ReceiveTimesOut PROVE IInv'
<1> USE DEF Drop, Check, ReceiveTimesOut, camera, capture, encode
<1>1. TypeOK'
  BY CaptureAssumption DEF IInv, TypeOK, Entries, Jobs, Places, Nothing, NoFrame, Frames
<1>2. HandIsHeld'
  BY <1>1 DEF IInv, TypeOK, HandIsHeld, ChannelIsHeld, Busy, Entries, Nothing
<1>3. ChannelIsHeld'
  BY <1>1 DEF IInv, TypeOK, ChannelIsHeld, HandIsHeld, Busy, Entries, NoFrame
<1>4. FramesAreFresh'
  BY <1>1 DEF IInv, TypeOK, FramesAreFresh, Given, Entries, Nothing, NoFrame, Frames, HandIsHeld, Busy
<1>5. MapHoldsFrameAtHand'
  BY DEF IInv, MapHoldsFrameAtHand
<1>6. TakenIsHeld' /\ NotAnswered' /\ LeftIsLate'
  BY DEF IInv, TypeOK, TakenIsHeld, NotAnswered, LeftIsLate, MapHoldsFrameAtHand
<1>7. OnePlace'
  BY DEF IInv, TypeOK, OnePlace, NotTaken, NotRead
<1> QED
  BY <1>1, <1>2, <1>3, <1>4, <1>5, <1>6, <1>7 DEF IInv

LEMMA RenewKeeps ==
  ASSUME IInv, NEW e \in Encoders, InitEncode(e) \/ Release(e) PROVE IInv'
<1> USE DEF InitEncode, Release, JobsWithout, camera, capture, encode
<1>1. TypeOK'
  BY CaptureAssumption DEF IInv, TypeOK, Entries, Jobs, Places, Nothing, NoFrame, Frames
<1>2. HandIsHeld'
  BY <1>1 DEF IInv, TypeOK, HandIsHeld, ChannelIsHeld, Busy, Entries, Nothing
<1>3. ChannelIsHeld'
  BY <1>1 DEF IInv, TypeOK, ChannelIsHeld, HandIsHeld, Busy, Entries, NoFrame
<1>4. FramesAreFresh'
  BY <1>1 DEF IInv, TypeOK, FramesAreFresh, Given, Entries, Nothing, NoFrame, Frames, HandIsHeld, Busy
<1>5. MapHoldsFrameAtHand'
  BY DEF IInv, MapHoldsFrameAtHand
<1>6. TakenIsHeld' /\ NotAnswered' /\ LeftIsLate'
  BY DEF IInv, TypeOK, TakenIsHeld, NotAnswered, LeftIsLate, MapHoldsFrameAtHand
<1>7. OnePlace'
  BY DEF IInv, TypeOK, OnePlace, NotTaken, NotRead
<1> QED
  BY <1>1, <1>2, <1>3, <1>4, <1>5, <1>6, <1>7 DEF IInv

LEMMA EncodeKeeps ==
  ASSUME IInv, NEW e \in Encoders, Encode(e) PROVE IInv'
<1> USE DEF Encode, Idle, camera, capture, encode
<1>1. TypeOK'
  BY CaptureAssumption DEF IInv, TypeOK, Entries, Jobs, Places, Nothing, NoFrame, Frames
<1>2. HandIsHeld'
  BY <1>1 DEF IInv, TypeOK, HandIsHeld, ChannelIsHeld, Busy, Entries, Nothing
<1>3. ChannelIsHeld'
  BY <1>1 DEF IInv, TypeOK, ChannelIsHeld, HandIsHeld, Busy, Entries, NoFrame
<1>4. FramesAreFresh'
  BY <1>1 DEF IInv, TypeOK, FramesAreFresh, Given, Entries, Nothing, NoFrame, Frames, HandIsHeld, Busy
<1>5. MapHoldsFrameAtHand'
  BY DEF IInv, MapHoldsFrameAtHand
<1>a. taken'[e] = Nothing \/ taken'[e] \in map
  BY DEF IInv, TypeOK
<1>b. \A d \in Encoders \ {e} : taken'[d] = taken[d]
  BY DEF IInv, TypeOK
<1>c. pending[e] # NoFrame /\ (\E f \in Frames : f = pending[e])
  BY DEF IInv, TypeOK
<1>d. thread = "feed" /\ hand \in map => hand.frame # pending[e]
  BY <1>c DEF IInv, FramesAreFresh, Given
<1>e. taken'[e] = Nothing \/ (thread \in {"wait", "back"} /\ taken'[e] = hand)
  <2>1. \A m \in map : m.frame = pending[e] => m = hand /\ thread \in {"wait", "back"}
    BY <1>d DEF IInv, MapHoldsFrameAtHand
  <2> DEFINE entry == {m \in map : m.frame = pending[e]}
  <2>2. taken'[e] = IF entry = {} THEN Nothing ELSE CHOOSE m \in entry : TRUE
    BY DEF IInv, TypeOK
  <2>3. entry # {} => (CHOOSE m \in entry : TRUE) \in entry
    OBVIOUS
  <2>4. taken'[e] = Nothing \/ taken'[e] \in entry
    BY <2>2, <2>3
  <2>5. \A m \in entry : m = hand /\ thread \in {"wait", "back"}
    BY <2>1
  <2> HIDE DEF entry
  <2> QED
    BY <2>4, <2>5
<1>6. TakenIsHeld' /\ NotAnswered' /\ LeftIsLate'
  <2>1. thread = "back" /\ taken'[e] = hand /\ taken'[e] # Nothing => hand.frame \in late
    BY <1>a DEF IInv, LeftIsLate
  <2>2. UNCHANGED <<jobs, late, thread, hand, signalled>> /\ map' \subseteq map
    OBVIOUS
  <2> QED
    BY <1>b, <1>e, <2>1, <2>2 DEF IInv, TakenIsHeld, NotAnswered, LeftIsLate
<1>7. OnePlace'
  BY DEF IInv, TypeOK, OnePlace, NotTaken, NotRead
<1> QED
  BY <1>1, <1>2, <1>3, <1>4, <1>5, <1>6, <1>7 DEF IInv

LEMMA SubmitKeeps ==
  ASSUME IInv, NEW e \in Encoders, Submit(e) PROVE IInv'
<1> USE DEF Submit, Idle, camera, capture, encode
<1>1. TypeOK'
  BY CaptureAssumption DEF IInv, TypeOK, Entries, Jobs, Places, Nothing, NoFrame, Frames
<1>2. HandIsHeld'
  BY <1>1 DEF IInv, TypeOK, HandIsHeld, ChannelIsHeld, Busy, Entries, Nothing
<1>3. ChannelIsHeld'
  BY <1>1 DEF IInv, TypeOK, ChannelIsHeld, HandIsHeld, Busy, Entries, NoFrame
<1>4. FramesAreFresh'
  BY <1>1 DEF IInv, TypeOK, FramesAreFresh, Given, Entries, Nothing, NoFrame, Frames, HandIsHeld, Busy
<1>5. MapHoldsFrameAtHand'
  BY DEF IInv, MapHoldsFrameAtHand
<1>a. taken[e] # Nothing /\ taken[e] \in Entries
  BY DEF IInv, TypeOK
<1>b. \A j \in jobs' :
        \/ j \in jobs
        \/ j = [enc |-> e, frame |-> taken[e].frame, buf |-> taken[e].buf]
  OBVIOUS
<1>c. taken[e].frame \in late \/ (thread = "wait" /\ taken[e] = hand)
  BY <1>a DEF IInv, TakenIsHeld
<1>d. \A d \in Encoders : taken'[d] = taken[d] \/ taken'[d] = Nothing
  BY DEF IInv, TypeOK
<1>e. UNCHANGED <<late, thread, hand, signalled, map>>
  OBVIOUS
<1>6. TakenIsHeld' /\ NotAnswered' /\ LeftIsLate'
  <2>1. TakenIsHeld'
    <3>1. \A j \in jobs' : \/ j.frame \in late'
                           \/ thread' = "wait" /\ j.buf = hand'.buf /\ j.frame = hand'.frame
      BY <1>b, <1>c, <1>e DEF IInv, TakenIsHeld
    <3> QED
      BY <1>d, <1>e, <3>1 DEF IInv, TakenIsHeld
  <2> QED
    BY <2>1, <1>e DEF IInv, NotAnswered, LeftIsLate
<1>7. OnePlace'
  <2> SUFFICES ASSUME thread = "wait" PROVE OnePlace'
    BY <1>e DEF OnePlace
  <2>1. CASE taken[e] = hand
    <3>1. NotRead /\ hand \notin map /\ ~signalled /\ hand.frame \notin late
      BY <2>1 DEF IInv, OnePlace, NotTaken, NotRead
    <3>2. \A d \in Encoders : taken'[d] # hand
      BY <1>a, <2>1 DEF IInv, TypeOK, OnePlace
    <3>3. \A j, k \in jobs' : j.frame = hand.frame /\ k.frame = hand.frame => j = k
      BY <1>b, <3>1 DEF NotRead
    <3> QED
      BY <1>e, <3>1, <3>2, <3>3 DEF OnePlace, NotTaken, NotRead
  <2>2. CASE taken[e] # hand
    <3>1. taken[e].frame \in late /\ hand.frame \notin late
      BY <1>c, <2>2 DEF IInv, OnePlace
    <3>2. \A j \in jobs' : j \in jobs \/ j.frame # hand.frame
      BY <1>b, <3>1
    <3>3. \A d \in Encoders : taken'[d] = taken[d] \/ taken'[d] # hand
      BY <1>d DEF IInv, HandIsHeld, Busy, Entries, Nothing, NoFrame, Frames
    <3> QED
      BY <1>e, <3>1, <3>2, <3>3 DEF IInv, OnePlace, NotTaken, NotRead
  <2> QED
    BY <2>1, <2>2
<1> QED
  BY <1>1, <1>2, <1>3, <1>4, <1>5, <1>6, <1>7 DEF IInv

LEMMA JobEndsKeeps ==
  ASSUME IInv, NEW j \in jobs, JobEnds(j) PROVE IInv'
<1> USE DEF JobEnds, camera, capture, encode
<1>1. TypeOK'
  BY CaptureAssumption DEF IInv, TypeOK, Entries, Jobs, Places, Nothing, NoFrame, Frames
<1>2. HandIsHeld'
  BY <1>1 DEF IInv, TypeOK, HandIsHeld, ChannelIsHeld, Busy, Entries, Nothing
<1>3. ChannelIsHeld'
  BY <1>1 DEF IInv, TypeOK, ChannelIsHeld, HandIsHeld, Busy, Entries, NoFrame
<1>4. FramesAreFresh'
  BY <1>1 DEF IInv, TypeOK, FramesAreFresh, Given, Entries, Nothing, NoFrame, Frames, HandIsHeld, Busy
<1>5. MapHoldsFrameAtHand'
  BY DEF IInv, MapHoldsFrameAtHand
<1>6. TakenIsHeld' /\ NotAnswered' /\ LeftIsLate'
  BY DEF IInv, TypeOK, TakenIsHeld, NotAnswered, LeftIsLate, MapHoldsFrameAtHand
<1>7. OnePlace'
  <2>1. CASE signalled' = signalled
    BY <2>1 DEF IInv, OnePlace, NotTaken, NotRead
  <2>2. CASE thread = "wait" /\ hand.frame = j.frame
    <3>1. hand \notin map /\ NotTaken
      BY <2>2 DEF IInv, OnePlace, NotTaken, NotRead
    <3>2. \A k \in jobs' : k.frame # hand.frame
      BY <2>2 DEF IInv, OnePlace
    <3> QED
      BY <2>2, <3>1, <3>2 DEF IInv, OnePlace, NotTaken, NotRead
  <2> QED
    BY <2>1, <2>2 DEF IInv, TypeOK
<1> QED
  BY <1>1, <1>2, <1>3, <1>4, <1>5, <1>6, <1>7 DEF IInv

\* Every step keeps the inductive invariant.
LEMMA InvStep == IInv /\ [Next]_vars => IInv'
<1> SUFFICES ASSUME IInv, [Next]_vars PROVE IInv'
  OBVIOUS
<1>1. CASE \E b \in Buffers : Complete(b)
  BY <1>1, CompleteKeeps
<1>2. CASE CaptureStep
  BY <1>2, TakeNoFrameKeeps, TakeFrameKeeps, CopyFrameKeeps, DropFrameKeeps, FeedFrameKeeps,
     WaitEndsKeeps, WaitTimesOutKeeps, ReturnBufferKeeps, LoopKeeps DEF CaptureStep
<1>3. CASE Drop
  BY <1>3, LoopKeeps
<1>4. CASE \E e \in Encoders : InitEncode(e) \/ Release(e) \/ Encode(e) \/ Submit(e)
  BY <1>4, RenewKeeps, EncodeKeeps, SubmitKeeps
<1>5. CASE \E j \in jobs : JobEnds(j)
  BY <1>5, JobEndsKeeps
<1>6. CASE UNCHANGED vars
  BY <1>6 DEF vars, camera, capture, encode, IInv, TypeOK, HandIsHeld, ChannelIsHeld, Busy,
              FramesAreFresh, Given, MapHoldsFrameAtHand, TakenIsHeld, OnePlace, NotTaken,
              NotRead, NotAnswered, LeftIsLate
<1> QED
  BY <1>1, <1>2, <1>3, <1>4, <1>5, <1>6 DEF Next

\* The inductive invariant holds in every reachable state.
LEMMA Invariant == Spec => []IInv
  BY InvInit, InvStep, PTL DEF Spec

\* Every variable of CaptureBuffers keeps its type, for any buffers, encoders and frames.
THEOREM TypeCorrect == Spec => []TypeOK
<1>1. IInv => TypeOK
  BY DEF IInv
<1> QED
  BY <1>1, Invariant, PTL

\* dmabuf_map never leads an encoder to a buffer that has gone back to the camera: it holds
\* the frame at hand and no other (libcamera.rs, the main loop and its three removals).
THEOREM MapIsCurrent == Spec => []MapHoldsFrameAtHand
<1>1. IInv => MapHoldsFrameAtHand
  BY DEF IInv
<1> QED
  BY <1>1, Invariant, PTL

\* The hardware reads the frame it was asked to encode, though the camera writes into the
\* buffers it is given back by the capture thread, unless the wait for it was given up.
THEOREM ReadsItsOwnFrame == Spec => []ReadsItsFrame
<1>1. IInv => ReadsItsFrame
  BY DEF IInv, TypeOK, HandIsHeld, TakenIsHeld, Busy, ReadsItsFrame
<1> QED
  BY <1>1, Invariant, PTL
================================================================================
