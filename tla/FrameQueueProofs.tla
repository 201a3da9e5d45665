--------------------------- MODULE FrameQueueProofs ---------------------------
(***************************************************************************)
(* The safety of the frame queues for every set of streams and frames and  *)
(* every queue size.                                                       *)
(***************************************************************************)
EXTENDS FrameQueue, SequenceTheorems, TLAPS

(* The types, the state of the mutexes, the bound and the checked frame    *)
(* are one inductive invariant: the bound needs to know that the capture   *)
(* thread alone is inside, the checked frame that nobody else pops, and    *)
(* the type of what is delivered that it was checked.                      *)
IInv == TypeOK /\ LocksBalanced /\ QueueBounded /\ CheckedFrameInFront

-----------------------------------------------------------------------------
(* Popping a non-empty queue leaves a queue that is shorter by one.        *)
LEMMA TailFacts ==
    ASSUME NEW S, NEW q \in Seq(S), q # <<>>
    PROVE  Head(q) \in S /\ Tail(q) \in Seq(S) /\ Len(Tail(q)) = Len(q) - 1
  OBVIOUS

(* Pushing makes a queue longer by one and keeps its front, if it has one. *)
LEMMA AppendFacts ==
    ASSUME NEW S, NEW q \in Seq(S), NEW e \in S
    PROVE  /\ Append(q, e) \in Seq(S)
           /\ Len(Append(q, e)) = Len(q) + 1
           /\ q # <<>> => Head(Append(q, e)) = Head(q)
           /\ Append(q, e) # <<>>
  BY AppendProperties, HeadTailAppend

(* A queue that is longer than some natural number is not empty.           *)
LEMMA LongerNotEmpty ==
    ASSUME NEW S, NEW q \in Seq(S), NEW n \in Nat, Len(q) > n
    PROVE  q # <<>>
  OBVIOUS

-----------------------------------------------------------------------------
(* Every action keeps every variable in its type.                          *)
LEMMA TypeStep == TypeOK /\ CheckedFrameInFront /\ [Next]_vars => TypeOK'
<1> SUFFICES ASSUME TypeOK, CheckedFrameInFront, [Next]_vars PROVE TypeOK'
  OBVIOUS
<1> USE DEF TypeOK, Owners, CapPcs, LoopPcs
<1>1. ASSUME NEW s \in Streams, NEW f \in Frames, CapFrame(s, f) \/ CapIgnore(s, f)
      PROVE  TypeOK'
  BY <1>1, FrameAssumption DEF CapFrame, CapIgnore, Detected, capVars, loopVars
<1>2. CASE CapLock
  BY <1>2 DEF CapLock, loopVars
<1>3. CASE CapPush
  BY <1>3, AppendFacts DEF CapPush, loopVars
<1>4. CASE CapTrim
  BY <1>4, SizeAssumption, LongerNotEmpty, TailFacts DEF CapTrim, capVars, loopVars
<1>5. CASE CapUnlock
  BY <1>5 DEF CapUnlock, loopVars
<1>6. CASE StartServer
  BY <1>6 DEF StartServer, capVars
<1>7. ASSUME NEW s \in Streams, Play(s) \/ Stop(s) \/ GetNextFrame(s) PROVE TypeOK'
  BY <1>7 DEF Play, Stop, GetNextFrame, capVars
<1>8. CASE SyncLock \/ ReadLock
  BY <1>8 DEF SyncLock, ReadLock, Acquire, capVars
<1>9. CASE SyncWait \/ ReadRetry
  BY <1>9 DEF SyncWait, ReadRetry, Release, capVars
<1>10. CASE SyncDrop
  BY <1>10, SizeAssumption, LongerNotEmpty, TailFacts DEF SyncDrop, capVars, loopVars
<1>11. CASE SyncDone
  <2>1. loopStream \in playing
    BY <1>11 DEF SyncDone
  <2>2. started' \subseteq playing'
    BY <1>11, <2>1 DEF SyncDone, Release
  <2>. QED
    BY <1>11, <2>1, <2>2 DEF SyncDone, Release, capVars
<1>12. CASE ReadBad
  BY <1>12, TailFacts DEF ReadBad, FrontIn, Release, capVars
<1>13. CASE ReadFound
  BY <1>13 DEF ReadFound, capVars
<1>14. CASE Deliver
  <2>1. /\ loopStream \in Streams /\ queue[loopStream] \in Seq(Frames)
        /\ queue[loopStream] # <<>> /\ Head(queue[loopStream]) \in Servable
    BY <1>14, StreamAssumption DEF Deliver, CheckedFrameInFront, FrontIn
  <2>2. queue' \in [Streams -> Seq(Frames)]
    BY <1>14, <2>1, TailFacts DEF Deliver
  <2>3. out' \in [Streams -> GoodFrames \cup {NoFrame}]
    BY <1>14, <2>1 DEF Deliver, Servable
  <2>. QED
    BY <1>14, <2>1, <2>2, <2>3 DEF Deliver, Release, capVars
<1>15. CASE UNCHANGED vars
  BY <1>15 DEF vars, capVars, loopVars
<1>16. QED
  BY <1>1, <1>2, <1>3, <1>4, <1>5, <1>6, <1>7, <1>8, <1>9, <1>10, <1>11, <1>12,
     <1>13, <1>14, <1>15 DEF Next, Capture, EventLoop

(* Every lock is paired with its unlock: a thread owns the mutex of the    *)
(* stream it works on exactly while it is between the two.                 *)
LEMMA LocksStep == TypeOK /\ LocksBalanced /\ [Next]_vars => LocksBalanced'
<1> SUFFICES ASSUME TypeOK, LocksBalanced, [Next]_vars PROVE LocksBalanced'
  OBVIOUS
<1> USE DEF TypeOK, LocksBalanced, CapHolds, LoopHolds
<1>0. loopStream \in Streams
  BY StreamAssumption
<1>1. ASSUME NEW s \in Streams, NEW f \in Frames, CapFrame(s, f) \/ CapIgnore(s, f)
      PROVE  LocksBalanced'
  BY <1>1 DEF CapFrame, CapIgnore, capVars, loopVars
<1>2. CASE CapLock
  BY <1>2, <1>0 DEF CapLock, loopVars
<1>3. CASE CapPush \/ CapTrim
  BY <1>3 DEF CapPush, CapTrim, capVars, loopVars
<1>4. CASE CapUnlock
  BY <1>4 DEF CapUnlock, loopVars
<1>5. CASE StartServer
  BY <1>5 DEF StartServer, capVars
<1>6. ASSUME NEW s \in Streams, Play(s) \/ Stop(s) \/ GetNextFrame(s)
      PROVE  LocksBalanced'
  BY <1>6 DEF Play, Stop, GetNextFrame, capVars
<1>7. CASE SyncLock \/ ReadLock
  BY <1>7, <1>0 DEF SyncLock, ReadLock, Acquire, capVars
<1>8. CASE SyncDrop \/ ReadFound
  BY <1>8 DEF SyncDrop, ReadFound, capVars, loopVars
<1>9. CASE SyncWait \/ SyncDone \/ ReadRetry \/ ReadBad \/ Deliver
  BY <1>9, <1>0 DEF SyncWait, SyncDone, ReadRetry, ReadBad, Deliver, Release, capVars
<1>10. CASE UNCHANGED vars
  BY <1>10 DEF vars, capVars, loopVars
<1>11. QED
  BY <1>1, <1>2, <1>3, <1>4, <1>5, <1>6, <1>7, <1>8, <1>9, <1>10
     DEF Next, Capture, EventLoop

(* A step of the event loop that touches a queue pops its front, and the   *)
(* capture thread is then outside the critical section of that queue.      *)
LEMMA LoopPops ==
    ASSUME TypeOK, LocksBalanced,
           SyncDrop \/ ReadBad \/ (Deliver /\ CheckedFrameInFront)
    PROVE  /\ loopStream \in Streams
           /\ queue[loopStream] \in Seq(Frames)
           /\ queue[loopStream] # <<>>
           /\ queue' = [queue EXCEPT ![loopStream] = Tail(@)]
           /\ ~CapHolds(loopStream)
           /\ UNCHANGED <<capPc, capStream>>
<1>1. /\ loopStream \in Streams /\ queue[loopStream] \in Seq(Frames)
      /\ LoopHolds(loopStream)
  BY StreamAssumption DEF TypeOK, LoopHolds, SyncDrop, ReadBad, Deliver
<1>2. queue[loopStream] # <<>>
  BY <1>1, SizeAssumption, LongerNotEmpty
     DEF SyncDrop, ReadBad, Deliver, CheckedFrameInFront, FrontIn
<1>3. ~CapHolds(loopStream)
  BY <1>1 DEF LocksBalanced
<1>. QED
  BY <1>1, <1>2, <1>3 DEF SyncDrop, ReadBad, Deliver, Release, capVars

(* The bound of the queues.                                                *)
LEMMA BoundStep ==
    TypeOK /\ LocksBalanced /\ QueueBounded /\ CheckedFrameInFront /\ [Next]_vars
    => QueueBounded'
<1> SUFFICES ASSUME TypeOK, LocksBalanced, QueueBounded, CheckedFrameInFront, [Next]_vars
             PROVE  QueueBounded'
  OBVIOUS
<1> USE SizeAssumption DEF TypeOK, QueueBounded, CapHolds
<1>0. \A s \in Streams : Len(queue[s]) \in Nat
  OBVIOUS
<1>1. ASSUME NEW s \in Streams, NEW f \in Frames, CapFrame(s, f) \/ CapIgnore(s, f)
      PROVE  QueueBounded'
  BY <1>1 DEF CapFrame, CapIgnore, capVars
<1>2. CASE CapLock
  BY <1>2 DEF CapLock
<1>3. CASE CapPush
  BY <1>3, <1>0, AppendFacts DEF CapPush
<1>4. CASE CapTrim
  BY <1>4, <1>0, LongerNotEmpty, TailFacts DEF CapTrim, capVars
<1>5. CASE CapUnlock
  BY <1>5 DEF CapUnlock
<1>6. CASE SyncDrop \/ ReadBad \/ Deliver
  <2>1. /\ loopStream \in Streams /\ queue[loopStream] \in Seq(Frames)
        /\ queue[loopStream] # <<>>
        /\ queue' = [queue EXCEPT ![loopStream] = Tail(@)]
        /\ UNCHANGED <<capPc, capStream>>
    BY <1>6, LoopPops
  <2>2. Len(Tail(queue[loopStream])) <= Len(queue[loopStream])
    BY <2>1, <1>0, TailFacts
  <2>3. Len(Tail(queue[loopStream])) \in Nat
    BY <2>1, TailFacts
  <2>. QED
    BY <2>1, <2>2, <2>3, <1>0
<1>7. CASE UNCHANGED <<queue, capVars>>
  BY <1>7 DEF capVars
<1>8. StartServer \/ (\E s \in Streams : Play(s) \/ Stop(s) \/ GetNextFrame(s))
      \/ SyncLock \/ SyncWait \/ SyncDone \/ ReadLock \/ ReadRetry \/ ReadFound
      \/ UNCHANGED vars
      => UNCHANGED <<queue, capVars>>
  BY DEF StartServer, Play, Stop, GetNextFrame, SyncLock, SyncWait, SyncDone, ReadLock,
         ReadRetry, ReadFound, Acquire, Release, vars
<1>9. QED
  BY <1>1, <1>2, <1>3, <1>4, <1>5, <1>6, <1>7, <1>8 DEF Next, Capture, EventLoop

(* The checked frame stays in front: while the event loop holds the mutex  *)
(* the capture thread can neither push to nor drop from that queue.        *)
LEMMA FrontStep ==
    TypeOK /\ LocksBalanced /\ CheckedFrameInFront /\ [Next]_vars => CheckedFrameInFront'
<1> SUFFICES ASSUME TypeOK, LocksBalanced, CheckedFrameInFront, [Next]_vars,
                    loopPc' = "deliver"
             PROVE  FrontIn(Servable)'
  BY DEF CheckedFrameInFront
<1>1. CASE ReadFound
  BY <1>1 DEF ReadFound, FrontIn
<1>2. ASSUME loopPc = "deliver", loopStream' = loopStream,
             queue'[loopStream] = queue[loopStream]
      PROVE  FrontIn(Servable)'
  BY <1>2 DEF CheckedFrameInFront, FrontIn
<1>3. CASE CapPush \/ CapTrim
  <2>1. loopPc = "deliver" /\ loopStream' = loopStream
    BY <1>3 DEF CapPush, CapTrim, loopVars
  <2>2. loopStream \in Streams /\ LoopHolds(loopStream)
    BY <2>1, StreamAssumption DEF TypeOK, LoopHolds
  <2>3. capStream # loopStream
    BY <1>3, <2>2 DEF LocksBalanced, CapHolds, CapPush, CapTrim
  <2>. QED
    BY <1>2, <1>3, <2>1, <2>2, <2>3 DEF CapPush, CapTrim, TypeOK
<1>4. CASE UNCHANGED <<queue, loopPc, loopStream>>
  BY <1>2, <1>4
<1>5. (\E s \in Streams, f \in Frames : CapFrame(s, f) \/ CapIgnore(s, f))
      \/ CapLock \/ CapUnlock \/ UNCHANGED vars
      => UNCHANGED <<queue, loopPc, loopStream>>
  BY DEF CapFrame, CapIgnore, CapLock, CapUnlock, loopVars, vars
<1>6. ~(\E s \in Streams : Play(s) \/ Stop(s) \/ GetNextFrame(s))
  BY DEF Play, Stop, GetNextFrame
<1>7. ~(\/ StartServer \/ SyncLock \/ SyncWait \/ SyncDrop \/ SyncDone
        \/ ReadLock \/ ReadRetry \/ ReadBad \/ Deliver)
  BY DEF StartServer, SyncLock, SyncWait, SyncDrop, SyncDone, ReadLock, ReadRetry,
         ReadBad, Deliver, Acquire, Release, loopVars
<1>8. QED
  BY <1>1, <1>3, <1>4, <1>5, <1>6, <1>7 DEF Next, Capture, EventLoop

-----------------------------------------------------------------------------
LEMMA InitInv == Init => IInv
  BY SizeAssumption, StreamAssumption
     DEF Init, IInv, TypeOK, LocksBalanced, QueueBounded, CheckedFrameInFront,
         CapHolds, LoopHolds, Owners, CapPcs, LoopPcs

LEMMA StepInv == IInv /\ [Next]_vars => IInv'
  BY TypeStep, LocksStep, BoundStep, FrontStep DEF IInv

(* The inductive invariant holds in every reachable state.                 *)
THEOREM Invariance == Spec => []IInv
  BY InitInv, StepInv, PTL DEF Spec

(* Types, whatever the sizes: what the sinks get is always a good frame.   *)
THEOREM TypeCorrect == Spec => []TypeOK
  BY Invariance, PTL DEF IInv

(* Every lock of capture() and of doGetNextFrame is released by the thread *)
(* that took it, on every path.                                            *)
THEOREM LocksAlwaysBalanced == Spec => []LocksBalanced
  BY Invariance, PTL DEF IInv

(* No queue outgrows MAX_QUEUE_SIZE outside the capture thread's critical  *)
(* section.                                                                *)
THEOREM QueueAlwaysBounded == Spec => []QueueBounded
  BY Invariance, PTL DEF IInv

(* The frame that is copied and popped is the one that was checked.        *)
THEOREM CheckedFrameStays == Spec => []CheckedFrameInFront
  BY Invariance, PTL DEF IInv

-----------------------------------------------------------------------------
(* The queues implement LossyFifo.                                         *)

(* A push followed by the trim is one Put: the trim has no effect of its   *)
(* own on the settled queue.                                               *)
LEMMA PushIsPut == IInv /\ CapPush => LF!Put(capStream, capFrame) /\ capFrame \in Frames
<1> SUFFICES ASSUME IInv, CapPush
             PROVE  LF!Put(capStream, capFrame) /\ capFrame \in Frames
  OBVIOUS
<1> DEFINE q == queue[capStream]
<1>1. capFrame \in Frames /\ capStream \in Streams /\ q \in Seq(Frames)
  BY DEF IInv, TypeOK, CapPush
<1>2. Len(q) \in Nat /\ Len(q) <= MaxQueueSize
  BY <1>1 DEF IInv, QueueBounded, CapHolds, CapPush
<1>3. Settled(q) = q
  BY <1>2, SizeAssumption DEF Settled
<1>4. Settled(Append(q, capFrame)) =
         IF Len(q) < MaxQueueSize THEN Append(q, capFrame) ELSE Tail(Append(q, capFrame))
  BY <1>1, <1>2, AppendFacts, SizeAssumption DEF Settled
<1>5. queue' = [queue EXCEPT ![capStream] = Append(q, capFrame)] /\ UNCHANGED out
  BY DEF CapPush
<1>6. QED
  BY <1>1, <1>3, <1>4, <1>5 DEF LF!Put, IInv, TypeOK

LEMMA TrimStutters == IInv /\ CapTrim => UNCHANGED LF!fifoVars
<1> SUFFICES ASSUME IInv, CapTrim PROVE UNCHANGED LF!fifoVars
  OBVIOUS
<1> DEFINE q == queue[capStream]
<1>1. capStream \in Streams /\ q \in Seq(Frames)
  BY DEF IInv, TypeOK
<1>2. Len(q) = MaxQueueSize + 1 /\ q # <<>>
  BY <1>1, SizeAssumption, LongerNotEmpty DEF IInv, QueueBounded, CapHolds, CapTrim
<1>3. Settled(q) = Tail(q) /\ Settled(Tail(q)) = Tail(q)
  BY <1>1, <1>2, TailFacts, SizeAssumption DEF Settled
<1>4. queue' = [queue EXCEPT ![capStream] = Tail(q)] /\ UNCHANGED out
  BY DEF CapTrim
<1>5. QED
  BY <1>1, <1>3, <1>4 DEF LF!fifoVars, IInv, TypeOK

(* What the event loop pops is the oldest frame, lost or delivered.        *)
LEMMA PopIsLoseOrGet ==
    IInv /\ (SyncDrop \/ ReadBad \/ Deliver) => LF!Lose(loopStream) \/ LF!Get(loopStream)
<1> SUFFICES ASSUME IInv, SyncDrop \/ ReadBad \/ Deliver
             PROVE  LF!Lose(loopStream) \/ LF!Get(loopStream)
  OBVIOUS
<1> DEFINE q == queue[loopStream]
<1>1. /\ loopStream \in Streams /\ q \in Seq(Frames) /\ q # <<>>
      /\ queue' = [queue EXCEPT ![loopStream] = Tail(q)]
      /\ ~CapHolds(loopStream)
  BY LoopPops DEF IInv
<1>2. Len(q) \in Nat /\ Len(q) <= MaxQueueSize
  BY <1>1 DEF IInv, QueueBounded
<1>3. Settled(q) = q /\ Settled(Tail(q)) = Tail(q)
  BY <1>1, <1>2, TailFacts, SizeAssumption DEF Settled
<1>4. [s \in Streams |-> Settled(queue[s])]' =
         [[s \in Streams |-> Settled(queue[s])] EXCEPT ![loopStream] = Tail(@)]
  BY <1>1, <1>3 DEF IInv, TypeOK
<1>5. CASE UNCHANGED out
  BY <1>1, <1>3, <1>4, <1>5 DEF LF!Lose
<1>6. CASE Deliver /\ Head(q) \notin LargeFrames
  BY <1>1, <1>3, <1>4, <1>6
     DEF LF!Get, Deliver, IInv, CheckedFrameInFront, FrontIn, Servable
<1>7. QED
  BY <1>5, <1>6 DEF SyncDrop, ReadBad, Deliver

(* Every step of the two threads is a step of the lossy buffer or none.    *)
THEOREM Refinement == Spec => ImplementsLossyFifo
<1>1. Init => LF!Init
  BY SizeAssumption DEF Init, LF!Init, Settled
<1>2. IInv /\ [Next]_vars => [LF!Next]_(LF!fifoVars)
  <2> SUFFICES ASSUME IInv, [Next]_vars PROVE LF!Next \/ UNCHANGED LF!fifoVars
    OBVIOUS
  <2>0. capStream \in Streams /\ loopStream \in Streams
    BY StreamAssumption DEF IInv, TypeOK
  <2>1. CASE CapPush
    BY <2>0, <2>1, PushIsPut DEF LF!Next
  <2>2. CASE CapTrim
    BY <2>2, TrimStutters
  <2>3. CASE SyncDrop \/ ReadBad \/ Deliver
    BY <2>0, <2>3, PopIsLoseOrGet DEF LF!Next
  <2>4. CASE UNCHANGED <<queue, out>>
    BY <2>4 DEF LF!fifoVars
  <2>5. (\E s \in Streams, f \in Frames : CapFrame(s, f) \/ CapIgnore(s, f))
        \/ CapLock \/ CapUnlock \/ StartServer
        \/ (\E s \in Streams : Play(s) \/ Stop(s) \/ GetNextFrame(s))
        \/ SyncLock \/ SyncWait \/ SyncDone \/ ReadLock \/ ReadRetry \/ ReadFound
        \/ UNCHANGED vars
        => UNCHANGED <<queue, out>>
    BY DEF CapFrame, CapIgnore, CapLock, CapUnlock, StartServer, Play, Stop,
           GetNextFrame, SyncLock, SyncWait, SyncDone, ReadLock, ReadRetry, ReadFound,
           Acquire, Release, vars
  <2>6. QED
    BY <2>1, <2>2, <2>3, <2>4, <2>5 DEF Next, Capture, EventLoop
<1>3. QED
  BY <1>1, <1>2, Invariance, PTL DEF Spec, ImplementsLossyFifo, LF!Spec
=============================================================================
