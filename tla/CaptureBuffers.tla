----------------------------- MODULE CaptureBuffers -----------------------------
(***************************************************************************)
(* The buffers of the Raspberry Pi camera on their way to the V4L2 encoder *)
(* and back (momo/src/libcamera.rs, v4l2_encoder.rs): the camera, the      *)
(* capture thread, the encoders of WebRTC with the hardware behind them,   *)
(* and dmabuf_map, through which a frame that is not copied is handed on.  *)
(***************************************************************************)
EXTENDS Naturals, Sequences, FiniteSets

CONSTANTS
  Buffers,  \* what the allocator gave, with one request for each
  Encoders, \* V4l2H264Encoder, one for each layer that is sent
  MaxFrames \* bound: frames, numbered by their time stamps

NoFrame == 0
Frames == 1..MaxFrames
None == "none"

ASSUME CaptureAssumption ==
  /\ IsFiniteSet(Buffers) /\ None \notin Buffers
  /\ MaxFrames \in Nat

VARIABLES
  native,    \* there is a dmabuf_map
  at,        \* of each buffer: who has its request
  content,   \* the frame the buffer holds
  channel,   \* what the camera has told the capture thread
  frame,     \* the last frame of the camera
  thread,    \* the capture thread
  hand,      \* the buffer it is at
  stop,      \* LibcameraCapture is being dropped
  map,       \* dmabuf_map: time stamps and buffers
  signalled, \* the encoder has answered the frame at hand
  late,      \* history: frames that were not waited for to the end
  pending,   \* the frame WebRTC has for each encoder; NoFrame: none that is in the map
  taken,     \* the entry that encode has taken out of the map
  ready,     \* encoders that have been initialised
  jobs       \* buffers the hardware reads

camera == <<at, content, channel, frame>>
capture == <<thread, hand, stop, signalled, late>>
encode == <<pending, taken, ready, jobs>>
vars == <<native, camera, capture, map, encode>>

Entries == [frame : Frames, buf : Buffers]
Nothing == [frame |-> NoFrame, buf |-> None]

Init ==
  /\ native \in BOOLEAN
  /\ at = [b \in Buffers |-> "camera"]
  /\ content = [b \in Buffers |-> NoFrame]
  /\ channel = <<>> /\ frame = NoFrame
  /\ thread = "check" /\ hand = Nothing /\ stop = FALSE
  /\ map = {} /\ signalled = FALSE /\ late = {}
  /\ pending = [e \in Encoders |-> NoFrame]
  /\ taken = [e \in Encoders |-> Nothing]
  /\ ready = {} /\ jobs = {}

--------------------------------------------------------------------------------
(* The camera.                                                             *)

Report(b, f) == channel' = Append(channel, [frame |-> f, buf |-> b])

\* on_request_completed: a frame, one that is only there to start or that went wrong, or a
\* request that was cancelled, of which nothing is said.
Complete(b) ==
  /\ at[b] = "camera" /\ thread # "ended" /\ frame < MaxFrames
  /\ frame' = frame + 1
  /\ content' = [content EXCEPT ![b] = frame']
  /\ \/ Report(b, frame') /\ at' = [at EXCEPT ![b] = "channel"]
     \/ Report(b, NoFrame) /\ at' = [at EXCEPT ![b] = "channel"]
     \/ at' = [at EXCEPT ![b] = "cancelled"] /\ UNCHANGED channel
  /\ UNCHANGED <<native, capture, map, encode>>

--------------------------------------------------------------------------------
(* The capture thread.                                                     *)

\* requeue_request: the camera may refuse.
Requeue(b) == \E where \in {"camera", "refused"} : at' = [at EXCEPT ![b] = where]

\* The loop looks at stop before it waits for a report, which it does for 100 ms: one
\* that comes meanwhile is handled to the end although stop may have been set.
Check ==
  /\ thread = "check" /\ thread' = IF stop THEN "ended" ELSE "recv"
  /\ UNCHANGED <<native, camera, hand, stop, signalled, late, map, encode>>

ReceiveTimesOut ==
  /\ thread = "recv" /\ channel = <<>> /\ thread' = "check"
  /\ UNCHANGED <<native, camera, hand, stop, signalled, late, map, encode>>

\* A report without a frame is only taken off the channel.
TakeNoFrame ==
  /\ thread = "recv" /\ channel # <<>> /\ Head(channel).frame = NoFrame
  /\ channel' = Tail(channel)
  /\ at' = [at EXCEPT ![Head(channel).buf] = "forgotten"]
  /\ thread' = "check"
  /\ UNCHANGED <<native, content, frame, hand, stop, signalled, late, map, encode>>

TakeFrame ==
  /\ thread = "recv" /\ channel # <<>> /\ Head(channel).frame # NoFrame
  /\ channel' = Tail(channel) /\ hand' = Head(channel)
  /\ at' = [at EXCEPT ![hand'.buf] = "thread"]
  /\ IF native
       THEN thread' = "feed" /\ map' = map \cup {hand'} /\ signalled' = FALSE
       ELSE thread' = "copy" /\ UNCHANGED <<map, signalled>>
  /\ UNCHANGED <<native, content, frame, stop, late, encode>>

\* The buffer is mapped, copied and, if the adapter wants the frame, shown to WebRTC, or
\* cannot be mapped; it goes back in any case.
CopyFrame ==
  /\ thread = "copy" /\ thread' = "check"
  /\ hand' = Nothing /\ Requeue(hand.buf)
  /\ UNCHANGED <<native, content, channel, frame, stop, signalled, late, map, encode>>

\* Mutant of DropFrame: the entry is taken back, the buffer is not.
DropFrameOnly ==
  /\ thread = "feed" /\ thread' = "check"
  /\ map' = map \ {hand} /\ hand' = Nothing
  /\ UNCHANGED <<native, camera, stop, signalled, late, encode>>

\* The adapter does not want the frame.
DropFrame ==
  /\ thread = "feed" /\ thread' = "check"
  /\ map' = map \ {hand} /\ hand' = Nothing /\ Requeue(hand.buf)
  /\ UNCHANGED <<native, content, channel, frame, stop, signalled, late, encode>>

\* WebRTC gets an empty frame that bears the translated time stamp, which is the one in
\* the map only when the two clocks agree.  It may skip this frame for another one.
FeedFrame ==
  /\ thread = "feed" /\ thread' = "wait"
  /\ \E given, skipped \in SUBSET Encoders :
       pending' = [e \in Encoders |-> IF e \in given THEN hand.frame
                                      ELSE IF e \in skipped THEN NoFrame ELSE pending[e]]
  /\ UNCHANGED <<native, camera, hand, stop, signalled, late, map, taken, ready, jobs>>

\* done_tx is in the map, with encode, or with the hardware.
DonePending ==
  \/ hand \in map
  \/ \E e \in Encoders : taken[e] = hand
  \/ \E j \in jobs : j.frame = hand.frame

WaitEnds ==
  /\ thread = "wait" /\ (signalled \/ ~DonePending)
  /\ thread' = "back"
  /\ UNCHANGED <<native, camera, hand, stop, signalled, late, map, encode>>

\* One second.
WaitTimesOut ==
  /\ thread = "wait" /\ ~signalled /\ DonePending
  /\ thread' = "back" /\ late' = late \cup {hand.frame}
  /\ UNCHANGED <<native, camera, hand, stop, signalled, map, encode>>

ReturnBuffer ==
  /\ thread = "back" /\ thread' = "check"
  /\ map' = map \ {hand} /\ hand' = Nothing /\ Requeue(hand.buf)
  /\ UNCHANGED <<native, content, channel, frame, stop, signalled, late, encode>>

\* LibcameraCapture::drop, which then joins the thread.
Drop ==
  /\ ~stop /\ stop' = TRUE
  /\ UNCHANGED <<native, camera, thread, hand, signalled, late, map, encode>>

--------------------------------------------------------------------------------
(* The encoders.                                                           *)

Idle(e) == taken[e] = Nothing
JobsWithout(e) == {j \in jobs : j.enc # e}

\* init_encode: a new encoder takes the place of the old one, or none can be built.
InitEncode(e) ==
  /\ Idle(e)
  /\ ready' = ready \cup {e} /\ jobs' = JobsWithout(e)
  /\ UNCHANGED <<native, camera, capture, map, pending, taken>>

\* The old encoder goes, with its jobs and their done_tx.
Release(e) ==
  /\ Idle(e) /\ e \in ready
  /\ ready' = ready \ {e} /\ jobs' = JobsWithout(e)
  /\ UNCHANGED <<native, camera, capture, map, pending, taken>>

\* encode takes the entry of its frame out of the map; without one it copies the frame it
\* was given, which concerns no buffer.
Encode(e) ==
  /\ Idle(e) /\ pending[e] # NoFrame
  /\ LET entry == {m \in map : m.frame = pending[e]}
     IN /\ map' = map \ entry
        /\ taken' = [taken EXCEPT ![e] = IF entry = {} THEN Nothing ELSE CHOOSE m \in entry : TRUE]
  /\ pending' = [pending EXCEPT ![e] = NoFrame]
  /\ UNCHANGED <<native, camera, capture, ready, jobs>>

\* Mutant of Submit: done_tx is used up when the job is handed in.
SubmitAndSignal(e) ==
  /\ ~Idle(e) /\ e \in ready
  /\ jobs' = jobs \cup {[enc |-> e, frame |-> taken[e].frame, buf |-> taken[e].buf]}
  /\ signalled' = (signalled \/ hand = taken[e])
  /\ taken' = [taken EXCEPT ![e] = Nothing]
  /\ UNCHANGED <<native, camera, thread, hand, stop, late, map, pending, ready>>

\* The hardware takes the job, or has no room, or fails; then done_tx is dropped.
Submit(e) ==
  /\ ~Idle(e)
  /\ \/ /\ e \in ready
        /\ jobs' = jobs \cup {[enc |-> e, frame |-> taken[e].frame, buf |-> taken[e].buf]}
     \/ UNCHANGED jobs
  /\ taken' = [taken EXCEPT ![e] = Nothing]
  /\ UNCHANGED <<native, camera, capture, map, pending, ready>>

\* handle_v4l2_encode_callback: the hardware has read the buffer.  Of an error nobody is
\* told, but done_tx is dropped.
JobEnds(j) ==
  /\ jobs' = jobs \ {j}
  /\ signalled' \in {signalled, signalled \/ (thread = "wait" /\ hand.frame = j.frame)}
  /\ UNCHANGED <<native, camera, thread, hand, stop, late, map, pending, taken, ready>>

--------------------------------------------------------------------------------
CaptureStep ==
  \/ Check \/ ReceiveTimesOut \/ TakeNoFrame \/ TakeFrame \/ CopyFrame \/ DropFrame
  \/ FeedFrame \/ WaitEnds \/ WaitTimesOut \/ ReturnBuffer

Next ==
  \/ \E b \in Buffers : Complete(b)
  \/ CaptureStep \/ Drop
  \/ \E e \in Encoders : InitEncode(e) \/ Release(e) \/ Encode(e) \/ Submit(e)
  \/ \E j \in jobs : JobEnds(j)

\* The capture thread is scheduled and its timer runs.  Nothing is assumed of the camera,
\* of WebRTC, which may never encode a frame, or of the hardware.
Spec == Init /\ [][Next]_vars /\ WF_vars(CaptureStep)

--------------------------------------------------------------------------------
(* Properties.                                                             *)

Places == {"camera", "channel", "thread", "refused", "cancelled", "forgotten"}
Jobs == [enc : Encoders, frame : Frames, buf : Buffers]

TypeOK ==
  /\ {native, stop, signalled} \subseteq BOOLEAN
  /\ at \in [Buffers -> Places]
  /\ content \in [Buffers -> Frames \cup {NoFrame}]
  /\ channel \in Seq([frame : Frames \cup {NoFrame}, buf : Buffers])
  /\ frame \in Frames \cup {NoFrame}
  /\ thread \in {"check", "recv", "feed", "copy", "wait", "back", "ended"}
  /\ hand \in Entries \cup {Nothing}
  /\ thread \in {"feed", "copy", "wait", "back"} => hand \in Entries
  /\ map \subseteq Entries /\ late \subseteq Frames
  /\ pending \in [Encoders -> Frames \cup {NoFrame}]
  /\ taken \in [Encoders -> Entries \cup {Nothing}]
  /\ ready \subseteq Encoders /\ jobs \subseteq Jobs

\* The hardware reads a buffer that nobody copies while the camera may be given it back by
\* another thread: what it reads is the frame it was asked to encode, unless the capture
\* thread had given up the wait for that frame.
ReadsItsFrame == \A j \in jobs : content[j.buf] = j.frame \/ j.frame \in late

\* The map holds the frame at hand and no other: an encoder that comes late finds nothing
\* rather than a buffer that has gone back to the camera.
MapHoldsFrameAtHand == \A m \in map : m = hand /\ thread \in {"feed", "wait", "back"}

\* The buffer of a frame goes back to the camera, whether WebRTC encodes the frame, drops
\* it, or leaves it in the map.
FramesReturn ==
  \A b \in Buffers : at[b] = "thread" ~> at[b] \in {"camera", "refused"}

\* libcamera.rs:184: a start-up frame, or one that went wrong, is only queued again.
ReportedFramesReturn ==
  \A b \in Buffers : at[b] = "channel" ~> (at[b] \in {"camera", "refused"} \/ stop)
================================================================================
