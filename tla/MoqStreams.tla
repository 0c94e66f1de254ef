------------------------------- MODULE MoqStreams -------------------------------
(***************************************************************************)
(* The data streams of momo-moq subscribe (momo-moq/src/subscriber.rs,     *)
(* cli.rs): the task that accepts them, one task for each of at most       *)
(* Permits streams, and the player on the main thread; between them two    *)
(* unbounded channels and a count of the video frames that wait to be      *)
(* shown.  run is there as SubscribeRun describes it.                      *)
(***************************************************************************)
EXTENDS Integers, FiniteSets, SubscribeRun

CONSTANTS
  Videos,     \* subgroup streams of the video track: one group each
  Audios,     \* subgroup streams of the audio track
  Stalling,   \* streams the relay may leave open without another byte
  Permits,    \* MAX_CONCURRENT_STREAMS
  Limit,      \* MAX_DISPLAY_BACKLOG
  MaxObjects  \* bound: objects of a stream

\* FETCH and padding streams and unknown tracks are streams read for nothing, a stream of
\* an unknown type one whose task ends at its header: any stream here may be either.
DataStreams == Videos \cup Audios

ASSUME StreamsAssumption ==
  /\ IsFiniteSet(DataStreams) /\ Stalling \subseteq DataStreams
  /\ Videos \cap Audios = {}
  /\ Permits \in Nat \ {0} /\ Limit \in Nat /\ MaxObjects \in Nat

VARIABLES
  acceptor, \* accept_streams
  mode,     \* of each stream: what its task is about to do
  read,     \* objects it has read
  backlog,  \* the count of frames to be shown
  queued,   \* frames in the channel of video
  player,   \* where run_player and, after it, run_subscribe are
  window    \* the window of the player

display == <<queued, player, window>>
streamsVars == <<run, acceptor, mode, read, backlog, display>>

InTask == {"head", "decode", "hold", "drain"}
Running == {s \in DataStreams : mode[s] \in InTask}

StreamsInit ==
  /\ RunInit
  /\ acceptor = "none"
  /\ mode = [s \in DataStreams |-> "unopened"]
  /\ read = [s \in DataStreams |-> 0]
  /\ backlog = 0 /\ queued = 0
  /\ player \in {"poll", "gone"} /\ window = "none" \* raw_player may fail to start

--------------------------------------------------------------------------------
(* run.                                                                    *)

StartAcceptor ==
  /\ Enter /\ acceptor' = "accepting"
  /\ UNCHANGED <<mode, read, backlog, display>>

\* The acceptor is aborted, and a stream that waits for a permit goes with it.
LeaveAndAbort ==
  /\ Goodbye
  /\ acceptor' = "gone"
  /\ mode' = [s \in DataStreams |-> IF mode[s] = "accepted" THEN "over" ELSE mode[s]]
  /\ UNCHANGED <<read, backlog, display>>

\* The task that accepts streams is not told.
RunFails == Abandon /\ UNCHANGED <<acceptor, mode, read, backlog, display>>
RunGoesOn == (Turn \/ Expire \/ LoseLink) /\ UNCHANGED <<acceptor, mode, read, backlog, display>>

--------------------------------------------------------------------------------
(* accept_streams and the tasks of the streams.                            *)

\* The task of a stream ends: its decoder and its permit go with it.
TaskEnds(s) ==
  /\ mode' = [mode EXCEPT ![s] = "over"]
  /\ read' = [read EXCEPT ![s] = 0]

InHand == {s \in DataStreams : mode[s] = "accepted"}

\* The relay opens streams in any order it likes; they are accepted one at a time.
Accept ==
  /\ acceptor = "accepting" /\ InHand = {}
  /\ \E s \in DataStreams :
       mode[s] = "unopened" /\ mode' = [mode EXCEPT ![s] = "accepted"]
  /\ UNCHANGED <<run, acceptor, read, backlog, display>>

\* Mutant of Spawn: the permit is given back before the stream is read.
SpawnUncounted ==
  /\ \E s \in InHand : mode' = [mode EXCEPT ![s] = "head"]
  /\ UNCHANGED <<run, acceptor, read, backlog, display>>

\* The permit belongs to the task until it ends, whichever way.
Spawn ==
  /\ Cardinality(Running) < Permits
  /\ \E s \in InHand : mode' = [mode EXCEPT ![s] = "head"]
  /\ UNCHANGED <<run, acceptor, read, backlog, display>>

AcceptorEnds ==
  /\ acceptor = "accepting" /\ InHand = {} /\ ~link
  /\ acceptor' = "gone"
  /\ UNCHANGED <<run, mode, read, backlog, display>>

\* Type and header have come: the stream is decoded, or read to its end for nothing.
\* A video group is taken or left as a whole.
ReadHeader(s) ==
  /\ mode[s] = "head"
  /\ \/ mode' = [mode EXCEPT ![s] = "drain"] /\ UNCHANGED read
     \/ /\ s \in Videos => backlog <= Limit
        /\ mode' = [mode EXCEPT ![s] = "decode"] /\ UNCHANGED read
  /\ UNCHANGED <<run, acceptor, backlog, display>>

ReadObject(s) ==
  /\ mode[s] = "decode" /\ read[s] < MaxObjects
  /\ read' = [read EXCEPT ![s] = @ + 1]

\* One that is no frame: filtered, empty, before the parameter sets, which may come with
\* any object, or not decoded.
SkipObject(s) ==
  /\ s \in Videos /\ ReadObject(s)
  /\ UNCHANGED <<run, acceptor, mode, backlog, display>>

\* A decoded frame is counted, then sent.
DecodeVideo(s) ==
  /\ s \in Videos /\ ReadObject(s)
  /\ backlog' = backlog + 1
  /\ mode' = [mode EXCEPT ![s] = "hold"]
  /\ UNCHANGED <<run, acceptor, display>>

PlayerLeft == player \in {"gone", "exited"}

\* The channel has no limit; without the player the task ends and the stream with it.
SendVideo(s) ==
  /\ mode[s] = "hold"
  /\ IF PlayerLeft
       THEN TaskEnds(s) /\ UNCHANGED queued
       ELSE /\ mode' = [mode EXCEPT ![s] = "decode"] /\ queued' = queued + 1
            /\ UNCHANGED read
  /\ UNCHANGED <<run, acceptor, backlog, player, window>>

\* The player takes audio frames one by one and never waits; they are not counted.
DecodeAudio(s) ==
  /\ s \in Audios
  /\ IF PlayerLeft THEN mode[s] = "decode" /\ TaskEnds(s) ELSE ReadObject(s) /\ UNCHANGED mode
  /\ UNCHANGED <<run, acceptor, backlog, display>>

\* Mutant of Reading: the end of a stream that is read for nothing is missed.
ReadingUnlessDrained(s) == mode[s] \in {"head", "decode"}
Reading(s) == mode[s] \in {"head", "decode", "drain"}

\* The stream has ended, or its task hands out an error and leaves the rest unread.
ReadEnds(s) ==
  /\ Reading(s)
  /\ TaskEnds(s)
  /\ UNCHANGED <<run, acceptor, backlog, display>>

--------------------------------------------------------------------------------
(* run_player and the end of run_subscribe.                                *)

\* The user.
CloseWindow ==
  /\ window = "open" /\ window' = "closed"
  /\ UNCHANGED <<run, acceptor, mode, read, backlog, queued, player>>

\* Mutant of SendersAlive: run_subscribe keeps a sender of its own.
SendersKept == TRUE

\* video_tx is held by run, then by the context of the acceptor and its copies.
SendersAlive ==
  \/ acceptor = "none" /\ ~RunOver
  \/ acceptor = "accepting"
  \/ Running # {}

\* A turn of the loop: leave with the window, take a video frame, and leave when both
\* channels are empty and without a sender (audio frames are taken as they come).
Poll ==
  /\ player = "poll"
  /\ \/ window = "closed" /\ player' = "gone" /\ UNCHANGED queued
     \/ window # "closed" /\ queued > 0 /\ player' = "count" /\ queued' = queued - 1
     \/ window # "closed" /\ queued = 0 /\ ~SendersAlive /\ player' = "gone" /\ UNCHANGED queued
  /\ UNCHANGED <<run, acceptor, mode, read, backlog, window>>

\* Mutant of ShowVideo: the frame stays counted.
ShowVideoCounted ==
  /\ player = "count" /\ player' = "poll" /\ window' = "open"
  /\ UNCHANGED <<run, acceptor, mode, read, backlog, queued>>

\* The frame is counted off; the first one, and one of another size, open a window,
\* which may fail.
ShowVideo ==
  /\ player = "count"
  /\ backlog' = backlog - 1
  /\ \/ player' = "poll" /\ window' \in {"open"} \cup ({window} \ {"none"})
     \/ player' = "gone" /\ UNCHANGED window
  /\ UNCHANGED <<run, acceptor, mode, read, queued>>

\* run_subscribe returns, whether run has or not, and takes the runtime with it.
Exit ==
  /\ player = "gone" /\ player' = "exited"
  /\ UNCHANGED <<run, acceptor, mode, read, backlog, queued, window>>

--------------------------------------------------------------------------------
ReadStream(s) == ReadHeader(s) \/ SkipObject(s) \/ DecodeVideo(s) \/ DecodeAudio(s)
PlayerStep == Poll \/ ShowVideo \/ Exit

StreamsNext ==
  /\ player # "exited"
  /\ \/ StartAcceptor \/ RunGoesOn \/ RunFails \/ LeaveAndAbort
     \/ Accept \/ Spawn \/ AcceptorEnds
     \/ \E s \in DataStreams : ReadStream(s) \/ SendVideo(s) \/ ReadEnds(s)
     \/ CloseWindow \/ PlayerStep

\* Tasks and the player are scheduled, and a connection that is gone is an error for
\* whoever reads from it.  The relay owes nothing but the ends of the streams outside
\* Stalling.
StreamsFairness ==
  /\ WF_streamsVars(LeaveAndAbort)
  /\ WF_streamsVars(Spawn) /\ WF_streamsVars(AcceptorEnds)
  /\ \A s \in DataStreams :
       /\ WF_streamsVars(SendVideo(s))
       /\ WF_streamsVars((s \notin Stalling \/ ~link) /\ ReadEnds(s))
  /\ WF_streamsVars(PlayerStep)

StreamsSpec == StreamsInit /\ [][StreamsNext]_streamsVars
StreamsFairSpec == StreamsSpec /\ StreamsFairness

--------------------------------------------------------------------------------
(* Properties.                                                             *)

StreamsTypeOK ==
  /\ RunTypeOK
  /\ acceptor \in {"none", "accepting", "gone"}
  /\ mode \in [DataStreams -> {"unopened", "accepted", "over"} \cup InTask]
  /\ read \in [DataStreams -> 0..MaxObjects]
  /\ backlog \in Int /\ queued \in Nat
  /\ player \in {"poll", "count", "gone", "exited"}
  /\ window \in {"none", "open", "closed"}

\* What four threads add to and take from without a lock is never less than the frames
\* that wait to be shown, nor does it drift: it counts those in the channel, those
\* about to be sent and the one just taken, until the player is gone.
Playing == player \in {"poll", "count"}
Holding == {s \in Videos : mode[s] = "hold"}
BacklogIsExact ==
  Playing => backlog = queued + Cardinality(Holding) + (IF player = "count" THEN 1 ELSE 0)

\* MAX_DISPLAY_BACKLOG is looked at once in a group, so that it does not bound what waits;
\* together with the permits it does: as many whole groups come on top of it as there
\* are permits.
BacklogIsBounded == backlog <= Limit + Permits * MaxObjects

\* Streams that stall cost their permits and nothing else: with fewer of them than
\* permits, every other stream is taken up and read to its end, while there is a
\* connection and somebody who accepts.
StreamsServed ==
  Cardinality(Stalling) < Permits =>
    \A s \in DataStreams \ Stalling :
      mode[s] = "accepted"
        ~> (mode[s] = "over" \/ ~link \/ acceptor = "gone" \/ player = "exited")

\* When run is over, or the window closed, the program ends by itself, unless the
\* connection outlives run: run has failed and the acceptor goes on, or the session had
\* ended before it was closed, and a stream stalls.
Outlived == link /\ (acceptor = "accepting" \/ Running \cap Stalling # {})
ProgramEnds ==
  (RunOver \/ window = "closed") ~> (player = "exited" \/ window = "open" \/ []Outlived)
================================================================================
