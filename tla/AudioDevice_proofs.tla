--------------------------- MODULE AudioDevice_proofs ---------------------------
(***************************************************************************)
(* Theorems about AudioDevice: its types, and that no callback of a device *)
(* is in WebRTC with a transport that is gone.                             *)
(***************************************************************************)
EXTENDS AudioDevice, TLAPS

\* A registered transport exists, and a call that registers one comes while it does.
TransportExists ==
  /\ transport => alive
  /\ call = "register" => alive
  /\ play = "pull" => transport

\* A microphone that is gone delivers nothing, and it goes before the state.
MicrophoneFirst ==
  /\ capture = "gone" => rec = "none"
  /\ capture = "gone" <=> stage \in {"state", "factory", "done"}
  /\ capture = "stopping" => stage = "capture"
  /\ owner = "engine" /\ ~alive => stage \in {"factory", "done"}

\* Calls come through the handler; the device runs before the flag is set.
CallsAreHandled ==
  /\ call # "none" => handler
  /\ call = "start" => playback = "started"
  /\ call \in {"stop", "replace"} => ~playout

IInv == TypeOK /\ TransportExists /\ MicrophoneFirst /\ CallsAreHandled /\ PlayingPlays

\* The initial states satisfy the inductive invariant.
LEMMA InvInit == Init => IInv
  BY DEF Init, IInv, TypeOK, TransportExists, MicrophoneFirst, CallsAreHandled, PlayingPlays

\* Every step keeps the inductive invariant.
LEMMA InvStep == IInv /\ [Next]_vars => IInv'
<1> SUFFICES ASSUME IInv, [Next]_vars PROVE IInv'
  OBVIOUS
<1> USE DEF IInv, TypeOK, TransportExists, MicrophoneFirst, CallsAreHandled, PlayingPlays,
            webrtc, flags
<1>1. CASE Microphone
  BY <1>1 DEF Microphone, CheckRecording, CopyTransport, Delivered
<1>2. CASE CheckPlayout
  BY <1>2 DEF CheckPlayout
<1>3. CASE InPlay
  BY <1>3 DEF InPlay, LockTransport, Pulled
<1>4. CASE DropPlayback
  <2>1. ~handler
    BY <1>4 DEF DropPlayback, Holders
  <2> QED
    BY <1>4, <2>1 DEF DropPlayback
<1>5. CASE InCall
  <2>1. CASE Registered
    BY <2>1 DEF Registered, Locked
  <2>2. CASE Replaced
    BY <2>2 DEF Replaced
  <2>3. CASE Started
    BY <2>3 DEF Started
  <2>4. CASE StopDevice \/ Stopped
    BY <2>4 DEF StopDevice, Stopped
  <2> QED
    BY <1>5, <2>1, <2>2, <2>3, <2>4 DEF InCall
<1>6. CASE Calls
  <2>1. CASE Register \/ SetRecording
    BY <2>1 DEF Register, SetRecording, Free
  <2>2. CASE InitPlayout
    BY <2>2 DEF InitPlayout, Free
  <2>3. CASE StartPlayout
    BY <2>3 DEF StartPlayout, Free
  <2>4. CASE StopPlayout
    BY <2>4 DEF StopPlayout, Free
  <2>5. CASE DestroyTransport
    BY <2>5 DEF DestroyTransport, MayEnd, Free
  <2>6. CASE DropHandler
    BY <2>6 DEF DropHandler, Free
  <2> QED
    BY <1>6, <2>1, <2>2, <2>3, <2>4, <2>5, <2>6 DEF Calls
<1>7. CASE DropStarts \/ Drops
  BY <1>7 DEF DropStarts, Drops, StopCapture, DropCapture, DropState, DropFactory
<1>8. CASE UNCHANGED vars
  BY <1>8 DEF vars
<1> QED
  BY <1>1, <1>2, <1>3, <1>4, <1>5, <1>6, <1>7, <1>8 DEF Next

LEMMA InvHolds == Spec => []IInv
  BY InvInit, InvStep, PTL DEF Spec

\* The types of AudioDevice, for every order in which devices, WebRTC and owner act.
THEOREM TypeCorrect == Spec => []TypeOK
<1>1. IInv => TypeOK
  BY DEF IInv
<1> QED
  BY <1>1, InvHolds, PTL

\* No callback is in WebRTC with a destroyed transport: the mutex protects the
\* loudspeaker, the order of the drops the microphone of an engine.
THEOREM TransportOutlives == Spec => []TransportOutlivesUse
<1>1. IInv => TransportOutlivesUse
  BY DEF IInv, TypeOK, TransportExists, MicrophoneFirst, TransportOutlivesUse
<1> QED
  BY <1>1, InvHolds, PTL

\* While WebRTC has the handler and playing() says so, the device runs.
THEOREM PlayingIsTrue == Spec => []PlayingPlays
<1>1. IInv => PlayingPlays
  BY DEF IInv
<1> QED
  BY <1>1, InvHolds, PTL
================================================================================
