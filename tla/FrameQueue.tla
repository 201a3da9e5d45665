------------------------------ MODULE FrameQueue ------------------------------
(***************************************************************************)
(* The frame queues of rRTSPServer and the two threads that share them.    *)
(*                                                                         *)
(* The capture thread takes one frame at a time out of the camera's ring   *)
(* buffer (module CaptureRing), finds the stream it belongs to, and pushes *)
(* it on the output_queue of that stream under the queue's mutex, dropping *)
(* the oldest frames above MAX_QUEUE_SIZE.  The live555 event loop, one    *)
(* thread for every stream, runs doGetNextFrame of the stream whose sink   *)
(* asks for data: VideoFramedMemorySource or AudioFramedMemorySource,      *)
(* which differ only in the frame header they look for.  Both block the    *)
(* event loop until they have a frame.                                     *)
(*                                                                         *)
(* A frame is abstracted to the class doGetNextFrame tells apart.          *)
(***************************************************************************)
EXTENDS Naturals, Sequences

CONSTANTS Video,         \* the video streams of the camera: low and high
          Audio,         \* the AAC stream, if the camera has one
          Wanted,        \* the streams -r and -a ask for
          GoodFrames,    \* right header, fits the sink's buffer
          SpsFrames,     \* the good frames flagged SPS and recognised
          BadFrames,     \* wrong NALU header, or wrong ADTS sync word
          LargeFrames,   \* right header, larger than the sink's buffer
          EmptyFrames,   \* no byte at all: a header with len 0
          MaxQueueSize,  \* MAX_QUEUE_SIZE, 20
          StartSize,     \* the frames a first read keeps, 5
          NoFrame        \* no frame

Streams == Video \cup Audio
Frames == GoodFrames \cup BadFrames \cup LargeFrames \cup EmptyFrames

ASSUME StreamAssumption == /\ Wanted \subseteq Streams
                           /\ Video \cap Audio = {}

ASSUME FrameAssumption ==
    /\ SpsFrames \subseteq GoodFrames
    /\ (GoodFrames \cup LargeFrames) \cap (BadFrames \cup EmptyFrames) = {}
    /\ GoodFrames \cap LargeFrames = {}
    /\ BadFrames \cap EmptyFrames = {}
    /\ NoFrame \notin Frames

ASSUME SizeAssumption == /\ MaxQueueSize \in Nat
                         /\ StartSize \in Nat \ {0}
                         /\ StartSize <= MaxQueueSize

VARIABLES queue,       \* output_queue_low, _high, _audio: .frame_queue
          mutex,       \* ... and .mutex: who holds it
          codec,       \* the video streams whose codec is no more CODEC_NONE
          capPc,       \* where the capture thread is in its send code
          capStream,   \* the stream p_output_queue points to
          capFrame,    \* the frame it is about to push
          loopPc,      \* where the event-loop thread is
          loopStream,  \* the stream whose source it runs
          playing,     \* the streams whose sink asks for frames
          started,     \* the sources with fHaveStartedReading
          out          \* the last frame copied to the sink's buffer, fTo

capVars == <<capPc, capStream, capFrame>>
loopVars == <<loopPc, loopStream, playing, started>>
vars == <<queue, mutex, codec, capVars, loopVars, out>>

Owners == {"free", "capture", "loop"}
CapPcs == {"idle", "lock", "push", "trim"}
LoopPcs == {"detect", "idle", "sync", "syncHeld", "read", "readHeld", "deliver"}

Init == /\ queue = [s \in Streams |-> <<>>]
        /\ mutex = [s \in Streams |-> "free"]
        /\ codec = {}
        /\ capPc = "idle"
        /\ capStream \in Streams
        /\ capFrame = NoFrame
        /\ loopPc = "detect"
        /\ loopStream \in Streams
        /\ playing = {}
        /\ started = {}
        /\ out = [s \in Streams |-> NoFrame]

-----------------------------------------------------------------------------
(* The capture thread. *)

(* Definitions named Mut... are faults a change could bring in; the runs    *)
(* show that each of them breaks a property.                               *)
MutDetected(s, f) == IF s \in Video \cap Wanted /\ f \in SpsFrames THEN codec \cup {s}
                     ELSE codec

(* Codec detection looks at every SPS, of a stream that is wanted or not.  *)
Detected(s, f) == IF s \in Video /\ f \in SpsFrames THEN codec \cup {s} ELSE codec

(* A frame of a wanted stream with a known codec goes to its queue ...     *)
CapFrame(s, f) == /\ capPc = "idle"
                  /\ codec' = Detected(s, f)
                  /\ s \in Wanted
                  /\ s \in Video => s \in codec'
                  /\ capPc' = "lock"
                  /\ capStream' = s
                  /\ capFrame' = f
                  /\ UNCHANGED <<queue, mutex, loopVars, out>>

(* ... any other frame is passed over.                                     *)
CapIgnore(s, f) == /\ capPc = "idle"
                   /\ codec' = Detected(s, f)
                   /\ s \in Wanted => s \in Video /\ s \notin codec'
                   /\ UNCHANGED <<queue, mutex, capVars, loopVars, out>>

CapLock == /\ capPc = "lock"
           /\ mutex[capStream] = "free"
           /\ mutex' = [mutex EXCEPT ![capStream] = "capture"]
           /\ capPc' = "push"
           /\ UNCHANGED <<queue, codec, capStream, capFrame, loopVars, out>>

MutCapPushDropNewest ==
    /\ capPc = "push"
    /\ queue' = [queue EXCEPT ![capStream] =
                     IF Len(@) < MaxQueueSize THEN Append(@, capFrame) ELSE @]
    /\ capPc' = "trim"
    /\ UNCHANGED <<mutex, codec, capStream, capFrame, loopVars, out>>

CapPush == /\ capPc = "push"
           /\ queue' = [queue EXCEPT ![capStream] = Append(@, capFrame)]
           /\ capPc' = "trim"
           /\ UNCHANGED <<mutex, codec, capStream, capFrame, loopVars, out>>

MutCapTrimNewest ==
    /\ capPc = "trim"
    /\ Len(queue[capStream]) > MaxQueueSize
    /\ queue' = [queue EXCEPT ![capStream] = SubSeq(@, 1, MaxQueueSize)]
    /\ UNCHANGED <<mutex, codec, capVars, loopVars, out>>

(* while (size() > MAX_QUEUE_SIZE) pop() *)
CapTrim == /\ capPc = "trim"
           /\ Len(queue[capStream]) > MaxQueueSize
           /\ queue' = [queue EXCEPT ![capStream] = Tail(@)]
           /\ UNCHANGED <<mutex, codec, capVars, loopVars, out>>

MutCapUnlockUntrimmed ==
    /\ capPc = "trim"
    /\ mutex' = [mutex EXCEPT ![capStream] = "free"]
    /\ capPc' = "idle"
    /\ capFrame' = NoFrame
    /\ UNCHANGED <<queue, codec, capStream, loopVars, out>>

CapUnlock == /\ capPc = "trim"
             /\ Len(queue[capStream]) <= MaxQueueSize
             /\ mutex' = [mutex EXCEPT ![capStream] = "free"]
             /\ capPc' = "idle"
             /\ capFrame' = NoFrame
             /\ UNCHANGED <<queue, codec, capStream, loopVars, out>>

-----------------------------------------------------------------------------
(* The thread of main() and of the event loop. *)

(* main() creates the RTSP server when it has seen both codecs.            *)
StartServer == /\ loopPc = "detect"
               /\ Video \subseteq codec
               /\ loopPc' = "idle"
               /\ UNCHANGED <<queue, mutex, codec, capVars,
                              loopStream, playing, started, out>>

(* The first client of a stream starts its sink, the last one to leave     *)
(* stops it: doStopGettingFrames.                                          *)
Play(s) == /\ loopPc = "idle"
           /\ s \in Wanted \ playing
           /\ playing' = playing \cup {s}
           /\ UNCHANGED <<queue, mutex, codec, capVars,
                          loopPc, loopStream, started, out>>

Stop(s) == /\ loopPc = "idle"
           /\ s \in playing
           /\ playing' = playing \ {s}
           /\ started' = started \ {s}
           /\ UNCHANGED <<queue, mutex, codec, capVars, loopPc, loopStream, out>>

(* The sink of s asks for a frame: doGetNextFrame begins.                  *)
GetNextFrame(s) == /\ loopPc = "idle"
                   /\ s \in playing
                   /\ loopStream' = s
                   /\ loopPc' = IF s \in started THEN "read" ELSE "sync"
                   /\ UNCHANGED <<queue, mutex, codec, capVars,
                                  playing, started, out>>

Acquire(from, to) == /\ loopPc = from
                     /\ mutex[loopStream] = "free"
                     /\ mutex' = [mutex EXCEPT ![loopStream] = "loop"]
                     /\ loopPc' = to
                     /\ UNCHANGED <<queue, codec, capVars,
                                    loopStream, playing, started, out>>

Release(to) == /\ mutex' = [mutex EXCEPT ![loopStream] = "free"]
               /\ loopPc' = to
               /\ UNCHANGED <<codec, capVars, loopStream, playing>>

SyncLock == Acquire("sync", "syncHeld")

(* Fewer than 5 frames wait: let go of the mutex, sleep, and look again.   *)
SyncWait == /\ loopPc = "syncHeld"
            /\ Len(queue[loopStream]) < StartSize
            /\ Release("sync")
            /\ UNCHANGED <<queue, started, out>>

(* More than 5: the surplus is stale.                                      *)
SyncDrop == /\ loopPc = "syncHeld"
            /\ Len(queue[loopStream]) > StartSize
            /\ queue' = [queue EXCEPT ![loopStream] = Tail(@)]
            /\ UNCHANGED <<mutex, codec, capVars, loopVars, out>>

SyncDone == /\ loopPc = "syncHeld"
            /\ Len(queue[loopStream]) = StartSize
            /\ started' = started \cup {loopStream}
            /\ Release("read")
            /\ UNCHANGED <<queue, out>>

ReadLock == Acquire("read", "readHeld")

FrontIn(kind) == /\ queue[loopStream] # <<>>
                 /\ Head(queue[loopStream]) \in kind
Servable == GoodFrames \cup LargeFrames

(* Nothing there, or an empty frame in front, which is NOT popped: retry.  *)
ReadRetry == /\ loopPc = "readHeld"
             /\ queue[loopStream] = <<>> \/ FrontIn(EmptyFrames)
             /\ Release("read")
             /\ UNCHANGED <<queue, started, out>>

MutReadBadKeepsLock ==
    /\ loopPc = "readHeld"
    /\ FrontIn(BadFrames)
    /\ queue' = [queue EXCEPT ![loopStream] = Tail(@)]
    /\ loopPc' = "read"
    /\ UNCHANGED <<mutex, codec, capVars, loopStream, playing, started, out>>

ReadBad == /\ loopPc = "readHeld"
           /\ FrontIn(BadFrames)
           /\ queue' = [queue EXCEPT ![loopStream] = Tail(@)]
           /\ Release("read")
           /\ UNCHANGED <<started, out>>

MutReadFoundUnlocks ==
    /\ loopPc = "readHeld"
    /\ FrontIn(Servable)
    /\ mutex' = [mutex EXCEPT ![loopStream] = "free"]
    /\ loopPc' = "deliver"
    /\ UNCHANGED <<queue, codec, capVars, loopStream, playing, started, out>>

(* frameFound = true: the loop ends with the mutex held.                   *)
ReadFound == /\ loopPc = "readHeld"
             /\ FrontIn(Servable)
             /\ loopPc' = "deliver"
             /\ UNCHANGED <<queue, mutex, codec, capVars,
                            loopStream, playing, started, out>>

(* front() is used again here: copied if it fits, popped in any case.      *)
Deliver == LET front == Head(queue[loopStream]) IN
           /\ loopPc = "deliver"
           /\ out' = IF front \in LargeFrames THEN out
                     ELSE [out EXCEPT ![loopStream] = front]
           /\ queue' = [queue EXCEPT ![loopStream] = Tail(@)]
           /\ Release("idle")
           /\ UNCHANGED started

-----------------------------------------------------------------------------
Capture == \/ \E s \in Streams, f \in Frames : CapFrame(s, f) \/ CapIgnore(s, f)
           \/ CapLock \/ CapPush \/ CapTrim \/ CapUnlock

EventLoop == \/ StartServer
             \/ \E s \in Streams : Play(s) \/ Stop(s) \/ GetNextFrame(s)
             \/ SyncLock \/ SyncWait \/ SyncDrop \/ SyncDone
             \/ ReadLock \/ ReadRetry \/ ReadBad \/ ReadFound \/ Deliver

Next == Capture \/ EventLoop

Spec == Init /\ [][Next]_vars

(***************************************************************************)
(* Fairness.  The camera keeps sending SPS frames on every video stream    *)
(* and good frames on every wanted one.  Both threads run, and a thread    *)
(* that keeps finding a mutex free gets it in the end: the owner always    *)
(* lets go of it, the video source sleeps a millisecond before it looks    *)
(* again, and the capture thread 25 ms between two batches.  (The audio    *)
(* source takes the mutex again at once; the run that assumes fairness has *)
(* no audio stream.)  For the same reason a frame that can be served is    *)
(* seen when it reaches the front often enough.                            *)
(***************************************************************************)
CameraFairness ==
    /\ \A s \in Video : SF_vars(\E f \in SpsFrames : CapFrame(s, f) \/ CapIgnore(s, f))
    /\ \A s \in Wanted : SF_vars(\E f \in GoodFrames : CapFrame(s, f))

ThreadFairness ==
    /\ SF_vars(CapLock) /\ WF_vars(CapPush) /\ WF_vars(CapTrim) /\ WF_vars(CapUnlock)
    /\ WF_vars(StartServer)
    /\ SF_vars(SyncLock) /\ WF_vars(SyncWait) /\ WF_vars(SyncDrop) /\ WF_vars(SyncDone)
    /\ SF_vars(ReadLock /\ FrontIn(Servable)) /\ SF_vars(ReadLock)
    /\ WF_vars(ReadRetry) /\ WF_vars(ReadBad) /\ WF_vars(ReadFound) /\ WF_vars(Deliver)

FairSpec == Spec /\ CameraFairness /\ ThreadFairness

-----------------------------------------------------------------------------
(* Every variable stays in its type.                                       *)
TypeOK == /\ queue \in [Streams -> Seq(Frames)]
          /\ mutex \in [Streams -> Owners]
          /\ codec \subseteq Video
          /\ capPc \in CapPcs
          /\ capStream \in Streams
          /\ capFrame \in IF capPc = "idle" THEN {NoFrame} ELSE Frames
          /\ loopPc \in LoopPcs
          /\ loopStream \in IF loopPc \in {"detect", "idle"} THEN Streams ELSE playing
          /\ playing \subseteq Wanted
          /\ started \subseteq playing
          /\ out \in [Streams -> GoodFrames \cup {NoFrame}]

(* Between lock and unlock a thread owns exactly the mutex of the stream   *)
(* it works on, and it owns none elsewhere: the locks of capture() and of  *)
(* the six exits of doGetNextFrame are balanced.                           *)
CapHolds(s) == capPc \in {"push", "trim"} /\ capStream = s
LoopHolds(s) == loopPc \in {"syncHeld", "readHeld", "deliver"} /\ loopStream = s

LocksBalanced == \A s \in Streams : /\ mutex[s] = "capture" <=> CapHolds(s)
                                    /\ mutex[s] = "loop" <=> LoopHolds(s)

(* A queue exceeds MAX_QUEUE_SIZE only inside the capture thread's         *)
(* critical section, by the frame it has just pushed: nobody else sees it. *)
QueueBounded == \A s \in Streams :
    IF CapHolds(s) /\ capPc = "trim" THEN Len(queue[s]) <= MaxQueueSize + 1
    ELSE Len(queue[s]) <= MaxQueueSize

(* The frame doGetNextFrame has checked is still in front of the queue     *)
(* when it copies and pops it, though the capture thread drops from that   *)
(* same end.                                                               *)
CheckedFrameInFront == loopPc = "deliver" => FrontIn(Servable)

(* The queues implement a lossy first-in first-out buffer: what capture()  *)
(* and doGetNextFrame do to a queue together never reorders or repeats a   *)
(* frame, and frames are lost only from the old end.  The frame the trim   *)
(* loop is about to pop counts as gone.                                    *)
Settled(q) == IF Len(q) > MaxQueueSize THEN Tail(q) ELSE q
LF == INSTANCE LossyFifo WITH fifo <- [s \in Streams |-> Settled(queue[s])],
                              Deliverable <- GoodFrames, Capacity <- MaxQueueSize
ImplementsLossyFifo == LF!Spec

(* A blocked event loop comes back: doGetNextFrame, which blocks every     *)
(* stream and every RTSP request meanwhile, always ends, past bad and      *)
(* oversized frames and past an empty one it never pops itself.            *)
EventLoopUnblocks == (loopPc \in LoopPcs \ {"detect", "idle"}) ~> (loopPc = "idle")

(* The RTSP server starts, whatever streams are wanted.                    *)
ServerStarts == <>(loopPc # "detect")
=============================================================================
