------------------------------ MODULE AudioDevice ------------------------------
(***************************************************************************)
(* The audio device module that momo gives to WebRTC (momo/src/adm.rs, and *)
(* fake.rs in place of a microphone), with the threads of the devices, the *)
(* calls of WebRTC, and the owners that drop it all: the engines of the    *)
(* p2p and Ayame modes, and connect of the Sora mode.                      *)
(***************************************************************************)
VARIABLES
  owner,     \* "engine" or "connect"
  stage,     \* what the owner drops next
  waits,     \* AudioPlayback::stop waits for a callback that is running
  alive,     \* WebRTC's AudioTransport exists
  handler,   \* WebRTC has the handler
  call,      \* the call WebRTC's worker is in
  transport, \* audio_transport holds the transport
  recording, \* the flag
  playout,   \* the flag
  playback,  \* audio_playback
  capture,   \* AudioCapture, or the thread of FakeAudioCapturer
  rec,       \* the callback of the microphone
  play       \* the callback of the loudspeaker

webrtc == <<alive, handler, call>>
flags == <<transport, recording, playout>>
vars == <<owner, stage, waits, webrtc, flags, playback, capture, rec, play>>

Init ==
  /\ owner \in {"engine", "connect"} /\ stage = "open"
  /\ waits \in BOOLEAN
  /\ alive = TRUE /\ handler = TRUE /\ call = "none"
  /\ transport = FALSE /\ recording = FALSE /\ playout = FALSE
  /\ playback = "none" /\ capture = "running"
  /\ rec = "none" /\ play = "none"

--------------------------------------------------------------------------------
(* The microphone.                                                         *)

\* on_recorded_data, and audio_thread once in ten milliseconds.
CheckRecording ==
  /\ capture = "running" /\ rec = "none" /\ recording
  /\ rec' = "copy"
  /\ UNCHANGED <<owner, stage, waits, webrtc, flags, playback, capture, play>>

\* Mutant of Locked: the loudspeaker asks WebRTC without the mutex.
NeverLocked == FALSE

\* The mutex of audio_transport is held for a moment, but by the callback of the
\* loudspeaker for as long as it is in WebRTC.
Locked == play = "pull"

\* The transport is copied, and WebRTC called without the mutex.
CopyTransport ==
  /\ rec = "copy" /\ ~Locked
  /\ rec' = IF transport THEN "deliver" ELSE "none"
  /\ UNCHANGED <<owner, stage, waits, webrtc, flags, playback, capture, play>>

\* recorded_data_is_available returns.
Delivered ==
  /\ rec = "deliver" /\ rec' = "none"
  /\ UNCHANGED <<owner, stage, waits, webrtc, flags, playback, capture, play>>

--------------------------------------------------------------------------------
(* The loudspeaker.                                                        *)

\* Mutant of Holders: the callback holds a clone of the whole state.
HoldersAndCallback ==
  {h \in {"owner", "capture", "handler", "callback"} :
     CASE h = "owner" -> stage \in {"open", "capture", "state"}
       [] h = "capture" -> capture # "gone"
       [] h = "handler" -> handler
       [] h = "callback" -> playback # "none"}

\* Who has a clone of AdmState and with it audio_playback.  The callback has only what it
\* needs, so that the two do not keep each other.
Holders ==
  {h \in {"owner", "capture", "handler"} :
     CASE h = "owner" -> stage \in {"open", "capture", "state"}
       [] h = "capture" -> capture # "gone"
       [] h = "handler" -> handler}

\* The callback of create_audio_playback: without playout it is silent.
CheckPlayout ==
  /\ playback = "started" /\ Holders # {} /\ play = "none" /\ playout
  /\ play' = "lock"
  /\ UNCHANGED <<owner, stage, waits, webrtc, flags, playback, capture, rec>>

\* Mutant of LockTransport: audio_playback is locked as well.
LockBoth ==
  /\ play = "lock" /\ call \notin {"stop", "wait", "replace"}
  /\ play' = IF transport THEN "pull" ELSE "none"
  /\ UNCHANGED <<owner, stage, waits, webrtc, flags, playback, capture, rec>>

\* The mutex is kept until need_more_play_data has returned.
LockTransport ==
  /\ play = "lock"
  /\ play' = IF transport THEN "pull" ELSE "none"
  /\ UNCHANGED <<owner, stage, waits, webrtc, flags, playback, capture, rec>>

Pulled ==
  /\ play = "pull" /\ play' = "none"
  /\ UNCHANGED <<owner, stage, waits, webrtc, flags, playback, capture, rec>>

\* The last clone of AdmState is gone; the device waits for its callback before it goes.
DropPlayback ==
  /\ Holders = {} /\ playback # "none" /\ play = "none"
  /\ playback' = "none"
  /\ UNCHANGED <<owner, stage, waits, webrtc, flags, capture, rec, play>>

--------------------------------------------------------------------------------
(* The calls of WebRTC, which come from its worker thread only.            *)

Free == handler /\ call = "none"

Register ==
  /\ Free /\ alive /\ call' = "register"
  /\ UNCHANGED <<owner, stage, waits, alive, handler, flags, playback, capture, rec, play>>

\* register_audio_callback with a transport or without.
Registered ==
  /\ call = "register" /\ ~Locked
  /\ call' = "none" /\ transport' \in BOOLEAN
  /\ UNCHANGED <<owner, stage, waits, alive, handler, recording, playout, playback, capture,
                 rec, play>>

SetRecording ==
  /\ Free
  /\ recording' \in BOOLEAN
  /\ UNCHANGED <<owner, stage, waits, webrtc, transport, playout, playback, capture, rec, play>>

\* A device that is opened takes the place of an older one, which waits for its callback
\* before it goes.  WebRTC does not ask for it during playout; if no device can be opened
\* the older one stays.
InitPlayout ==
  /\ Free /\ ~playout
  /\ call' = "replace" /\ playback' = "ready"
  /\ UNCHANGED <<owner, stage, waits, alive, handler, flags, capture, rec, play>>

Replaced ==
  /\ call = "replace" /\ play = "none"
  /\ call' = "none"
  /\ UNCHANGED <<owner, stage, waits, alive, handler, flags, playback, capture, rec, play>>

\* The device starts first; if it does not, the flag stays as it was.
StartPlayout ==
  /\ Free /\ playback # "none"
  /\ call' = "start" /\ playback' = "started"
  /\ UNCHANGED <<owner, stage, waits, alive, handler, flags, capture, rec, play>>

Started ==
  /\ call = "start"
  /\ call' = "none" /\ playout' = TRUE
  /\ UNCHANGED <<owner, stage, waits, alive, handler, transport, recording, playback, capture,
                 rec, play>>

StopPlayout ==
  /\ Free
  /\ call' = "stop" /\ playout' = FALSE
  /\ UNCHANGED <<owner, stage, waits, alive, handler, transport, recording, playback, capture,
                 rec, play>>

StopDevice ==
  /\ call = "stop"
  /\ call' = "wait" /\ playback' = IF playback = "none" THEN "none" ELSE "ready"
  /\ UNCHANGED <<owner, stage, waits, alive, handler, flags, capture, rec, play>>

Stopped ==
  /\ call = "wait" /\ (waits => play = "none")
  /\ call' = "none"
  /\ UNCHANGED <<owner, stage, waits, alive, handler, flags, playback, capture, rec, play>>

\* Mutant of MayEnd: the factory goes before the microphone.
MayEndFirst == stage # "open"

\* An engine drops its microphone before the factory; in connect the client has gone when
\* run returns, or goes with its last handle.
MayEnd == IF owner = "engine" THEN stage = "factory" ELSE stage # "open"

\* WebRTC destroys the transport it has taken back, and then drops the handler.
DestroyTransport ==
  /\ Free /\ MayEnd /\ alive /\ ~transport
  /\ alive' = FALSE
  /\ UNCHANGED <<owner, stage, waits, handler, call, flags, playback, capture, rec, play>>

DropHandler ==
  /\ Free /\ ~alive
  /\ handler' = FALSE
  /\ UNCHANGED <<owner, stage, waits, alive, call, flags, playback, capture, rec, play>>

--------------------------------------------------------------------------------
(* The owner.                                                              *)

DropStarts ==
  /\ stage = "open" /\ stage' = "capture"
  /\ UNCHANGED <<owner, waits, webrtc, flags, playback, capture, rec, play>>

\* AudioCapture stops, or the flag of FakeAudioCapturer is set.
StopCapture ==
  /\ stage = "capture" /\ capture = "running"
  /\ capture' = "stopping"
  /\ UNCHANGED <<owner, stage, waits, webrtc, flags, playback, rec, play>>

\* The callback is waited for, the thread joined.
DropCapture ==
  /\ capture = "stopping" /\ rec = "none"
  /\ capture' = "gone" /\ stage' = "state"
  /\ UNCHANGED <<owner, waits, webrtc, flags, playback, rec, play>>

DropState ==
  /\ stage = "state" /\ stage' = "factory"
  /\ UNCHANGED <<owner, waits, webrtc, flags, playback, capture, rec, play>>

DropFactory ==
  /\ stage = "factory" /\ (owner = "engine" => ~handler)
  /\ stage' = "done"
  /\ UNCHANGED <<owner, waits, webrtc, flags, playback, capture, rec, play>>

--------------------------------------------------------------------------------
Microphone == CheckRecording \/ CopyTransport \/ Delivered
InPlay == LockTransport \/ Pulled
InCall == Registered \/ Replaced \/ Started \/ StopDevice \/ Stopped
Calls ==
  \/ Register \/ SetRecording \/ InitPlayout \/ StartPlayout \/ StopPlayout
  \/ DestroyTransport \/ DropHandler
Drops == StopCapture \/ DropCapture \/ DropState \/ DropFactory

Next ==
  \/ Microphone \/ CheckPlayout \/ InPlay \/ DropPlayback
  \/ InCall \/ Calls \/ DropStarts \/ Drops

\* Threads run, and WebRTC returns from what it is asked.  The mutex is not fair, but both
\* devices leave it alone for most of ten milliseconds, so that who waits for it gets it.
Fairness ==
  /\ SF_vars(CopyTransport) /\ WF_vars(Delivered)
  /\ WF_vars(InPlay) /\ WF_vars(DropPlayback)
  /\ SF_vars(Registered) /\ WF_vars(Replaced) /\ WF_vars(Started)
  /\ WF_vars(StopDevice) /\ WF_vars(Stopped)
  /\ WF_vars(Drops)

Spec == Init /\ [][Next]_vars /\ Fairness

--------------------------------------------------------------------------------
(* Properties.                                                             *)

TypeOK ==
  /\ owner \in {"engine", "connect"}
  /\ stage \in {"open", "capture", "state", "factory", "done"}
  /\ {waits, alive, handler, transport, recording, playout} \subseteq BOOLEAN
  /\ call \in {"none", "register", "replace", "start", "stop", "wait"}
  /\ playback \in {"none", "ready", "started"}
  /\ capture \in {"running", "stopping", "gone"}
  /\ rec \in {"none", "copy", "deliver"}
  /\ play \in {"none", "lock", "pull"}

\* No callback is in WebRTC with a transport that WebRTC has destroyed: the loudspeaker
\* because register_audio_callback waits for its mutex, the microphone, which does not
\* hold it, because an engine has dropped it before.  In connect nothing keeps the
\* microphone from delivering late.
TransportOutlivesUse ==
  play = "pull" \/ (owner = "engine" /\ rec = "deliver") => alive

\* playing() tells the truth: with the flag up the device runs, whatever failed before.
PlayingPlays == handler /\ playout => playback = "started"

\* Each call of WebRTC returns, and each drop: nobody waits for a callback that waits for
\* a mutex of its own.
CallsReturn == call # "none" ~> call = "none"

\* The device of the loudspeaker is closed once owner, microphone and WebRTC are done
\* with it.
PlaybackReleased ==
  (stage \in {"factory", "done"} /\ ~handler) ~> playback = "none"
================================================================================
