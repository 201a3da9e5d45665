------------------------- MODULE CaptureRingProofs -------------------------
(***************************************************************************)
(* capture() and the ring for every ring size, header size, frame length   *)
(* and number of frames.  The pointer arithmetic stays in the ring and the *)
(* ten slots of the header walk are never overrun; and, with the camera    *)
(* writing all the while, a reader in sync hands on frames only, in their  *)
(* order, and none is missing but what a resynchronisation gave up.        *)
(***************************************************************************)
EXTENDS CaptureRing, SequenceTheorems, TLAPS

(* One lap of %: what is below N stays, what is below 2N loses N.          *)
LEMMA OneLap == ASSUME NEW x \in 0..(2 * N - 1)
                PROVE  x % N = IF x < N THEN x ELSE x - N
  BY RingAssumption, SMT

(* buf_idx + len brought back into the ring is in the ring.                *)
LEMMA RingEndInRing == ASSUME NEW p \in Ptr, NEW k \in Ptr
                       PROVE  RingEnd(p, k) \in Ptr
  BY RingAssumption DEF RingEnd, Ptr

(* So is a pointer cb_move takes forward by a header and a checked length. *)
LEMMA CbMoveInRing == ASSUME NEW p \in Ptr, NEW k \in Ptr
                      PROVE  CbMove(p, k) \in Ptr
  BY RingAssumption DEF CbMove, Ptr

(* cb_move agrees with the ring: it stands where k bytes further are.      *)
LEMMA CbMoveMod == ASSUME NEW p \in Ptr, NEW k \in Ptr
                   PROVE  CbMove(p, k) % N = (p + k) % N
  BY RingAssumption, SMT DEF CbMove, Ptr

(* The copies take the n bytes that follow in the ring.                    *)
LEMMA CbBytesRight == ASSUME NEW p \in Ptr, NEW n \in Ptr
                      PROVE  CbBytes(p, n) = [i \in 1..n |-> (p + i - 1) % N]
  <1>1. ASSUME NEW i \in 1..n
        PROVE  (p + i - 1) % N = IF p + i - 1 < N THEN p + i - 1 ELSE p + i - 1 - N
    BY OneLap, RingAssumption DEF Ptr
  <1>2. CASE p + n > N
    BY <1>1, <1>2, RingAssumption DEF CbBytes, Ptr
  <1>3. CASE ~(p + n > N)
    BY <1>1, <1>3, RingAssumption DEF CbBytes, Ptr
  <1>4. QED
    BY <1>2, <1>3

-----------------------------------------------------------------------------
(* fhs[] has a free slot whenever a header is read.                        *)
SlotFree == pc = "walk" => Len(fhs) < MaxBatch

IInv == TypeOK /\ SlotFree

Frame == [at : 0..(N - 1), len : 0..N, counter : 1..MaxFrames]

LEMMA ModInRing == ASSUME NEW x \in Int PROVE x % N \in 0..(N - 1)
  BY RingAssumption, SMT

(* Removing the oldest frames and adding one leaves a log.                 *)
LEMMA SuffixIsLog ==
    ASSUME NEW l \in Seq(Frame), NEW k \in 0..Len(l), NEW f \in Frame
    PROVE  Append(SubSeq(l, k + 1, Len(l)), f) \in Seq(Frame)
  <1>1. SubSeq(l, k + 1, Len(l)) \in Seq(Frame)
    BY SubSeqProperties
  <1>2. QED
    BY <1>1, AppendProperties

(* The words the camera publishes lie in the ring.                         *)
LEMMA WordsInRing ==
    ASSUME TypeOK PROVE FirstAt(log) \in Ptr /\ Used(log) \in Ptr /\ wpos \in Ptr
  <1>0. log \in Seq(Frame) /\ wpos \in 0..(N - 1)
    BY DEF TypeOK, Frame
  <1>1. CASE log = <<>>
    BY <1>0, <1>1, RingAssumption DEF FirstAt, Used, Ptr
  <1>2. CASE log # <<>>
    <2>1. Head(log) \in Frame
      BY <1>0, <1>2
    <2>2. Head(log).at \in 0..(N - 1)
      BY <2>1 DEF Frame
    <2>3. (wpos - Head(log).at - 1) % N \in 0..(N - 1)
      <3>1. wpos - Head(log).at - 1 \in Int
        BY <1>0, <2>2, RingAssumption
      <3>2. QED
        BY <3>1, ModInRing
    <2>4. QED
      BY <1>0, <1>2, <2>2, <2>3, RingAssumption DEF FirstAt, Used, From, Ptr
  <1>3. QED
    BY <1>1, <1>2

(* What the log holds are frames.                                          *)
LEMMA LogElements ==
    ASSUME TypeOK PROVE \A i \in 1..Len(log) : log[i] \in Frame
  <1>1. log \in Seq(Frame)
    BY DEF TypeOK, Frame
  <1>2. QED
    BY <1>1, ElementOfSeq

(* A header read anywhere is a frame's or junk.                            *)
LEMMA HeaderTypes ==
    ASSUME TypeOK, NEW p, NEW h \in HeaderAt(p)
    PROVE  h.len \in 0..N /\ h.counter \in 0..MaxFrames
  <1>1. \A i \in 1..Len(log) : log[i] \in Frame
    BY LogElements
  <1>2. CASE FramesAt(p) = {}
    <2>1. h \in [len : Lens \cup {N}, counter : {0}]
      BY <1>2 DEF HeaderAt, Junk
    <2>2. h.len \in Lens \cup {N} /\ h.counter = 0
      BY <2>1
    <2>3. Lens \cup {N} \subseteq 0..N
      BY RingAssumption
    <2>4. h.len \in 0..N
      BY <2>2, <2>3, Zenon
    <2>5. QED
      BY <2>2, <2>4, RingAssumption
  <1>3. CASE FramesAt(p) # {}
    <2>1. PICK f \in FramesAt(p) : h = [len |-> f.len, counter |-> f.counter]
      BY <1>3 DEF HeaderAt
    <2>2. PICK i \in 1..Len(log) : f = log[i]
      BY DEF FramesAt
    <2>3. f.len \in 0..N /\ f.counter \in 1..MaxFrames
      BY <1>1, <2>2 DEF Frame
    <2>4. QED
      BY <2>1, <2>3, RingAssumption
  <1>4. QED
    BY <1>2, <1>3

LEMMA FirstNeededType ==
    ASSUME TypeOK, NEW p PROVE FirstNeeded(p) \in 1..(MaxFrames + 1)
  <1>1. \A i \in 1..Len(log) : log[i] \in Frame
    BY LogElements
  <1>2. \A f \in FramesAt(p) : f.counter \in 1..MaxFrames
    BY <1>1 DEF FramesAt, Frame
  <1>3. FramesAt(p) # {} =>
            (CHOOSE f \in FramesAt(p) : TRUE).counter \in 1..MaxFrames
    BY <1>2
  <1>4. QED
    BY <1>3, RingAssumption DEF FirstNeeded, TypeOK

-----------------------------------------------------------------------------
LEMMA InitIInv == Init => IInv
<1> SUFFICES ASSUME Init PROVE IInv
  OBVIOUS
<1>1. log = <<>> /\ fhs = <<>> /\ toc \in [Words -> Ptr]
  BY RingAssumption DEF Init, Ptr
<1>2. /\ log \in Seq([at : 0..(N - 1), len : 0..N, counter : 1..MaxFrames])
      /\ fhs \in Seq(Headers) /\ Len(fhs) <= MaxBatch
  BY <1>1, RingAssumption
<1>3. skipped \in BOOLEAN /\ synced \in BOOLEAN
  BY DEF Init
<1>4. QED
  BY <1>1, <1>2, <1>3, RingAssumption DEF Init, IInv, TypeOK, SlotFree, Ptr

(* Every step keeps the pointers in the ring and a slot free.              *)
LEMMA StepIInv == IInv /\ [Next]_vars => IInv'
<1> SUFFICES ASSUME IInv, [Next]_vars PROVE IInv'
  OBVIOUS
<1>0. TypeOK /\ SlotFree
  BY DEF IInv
<1> USE <1>0
<1>1. ASSUME NEW len \in Lens, NEW k \in 0..Len(log), WriteFrame(len, k)
      PROVE  IInv'
  <2> DEFINE f == [at |-> wpos, len |-> len, counter |-> count + 1]
  <2>1. f \in Frame
    <3>1. len \in 0..N
      BY RingAssumption
    <3>2. count + 1 \in 1..MaxFrames
      BY <1>1, RingAssumption DEF WriteFrame, TypeOK
    <3>3. QED
      BY <3>1, <3>2 DEF TypeOK, Frame
  <2>2. log' \in Seq(Frame)
    <3>1. log' = Append(SubSeq(log, k + 1, Len(log)), f)
      BY <1>1 DEF WriteFrame
    <3>2. log \in Seq(Frame)
      BY DEF TypeOK, Frame
    <3>3. QED
      BY <2>1, <3>1, <3>2, SuffixIsLog
  <2>3. wpos' \in 0..(N - 1)
    <3>1. wpos + H + len \in Int
      BY RingAssumption DEF TypeOK
    <3>2. QED
      BY <1>1, <3>1, ModInRing DEF WriteFrame
  <2>4. count' \in 0..MaxFrames /\ unpub' = Words
    BY <1>1, RingAssumption DEF WriteFrame, TypeOK
  <2>5. QED
    BY <1>1, <2>2, <2>3, <2>4
    DEF WriteFrame, IInv, TypeOK, SlotFree, Frame, readerVars
<1>2. ASSUME NEW w \in Words, Publish(w) PROVE IInv'
  <2>1. toc' \in [Words -> Ptr]
    BY <1>2, WordsInRing DEF Publish, TypeOK, Words
  <2>2. QED
    BY <1>2, <2>1 DEF Publish, IInv, TypeOK, SlotFree, readerVars
<1>3. CASE BootStart \/ ReadStart
  BY <1>3 DEF BootStart, ReadStart, IInv, TypeOK, SlotFree, writerVars, Words
<1>4. CASE BootLen
  <2>1. end' \in Ptr
    BY <1>4, RingEndInRing DEF BootLen, TypeOK, Words
  <2>2. need' \in 1..(MaxFrames + 1)
    BY <1>4, FirstNeededType, RingAssumption DEF BootLen
  <2>3. QED
    BY <1>4, <2>1, <2>2 DEF BootLen, IInv, TypeOK, SlotFree, writerVars
<1>5. CASE ReadLen
  <2>1. end' \in Ptr
    BY <1>5, RingEndInRing DEF ReadLen, TypeOK, Words
  <2>2. QED
    BY <1>5, <2>1 DEF ReadLen, IInv, TypeOK, SlotFree, writerVars
<1>6. CASE CheckFails
  BY <1>6 DEF CheckFails, IInv, TypeOK, SlotFree, writerVars
<1>7. CASE CheckPasses
  <2>1. need' \in 1..(MaxFrames + 1)
    BY <1>7, FirstNeededType DEF CheckPasses, TypeOK
  <2>2. QED
    BY <1>7, <2>1, RingAssumption
    DEF CheckPasses, IInv, TypeOK, SlotFree, writerVars
<1>8. CASE WalkHeader
  <2>1. PICK h \in HeaderAt(cur) :
            IF h.len > N - H
            THEN pc' = "lost" /\ UNCHANGED <<fhs, cur>>
            ELSE /\ fhs' = Append(fhs, [at |-> cur, len |-> h.len, counter |-> h.counter])
                 /\ cur' = CbMove(cur, h.len + H)
                 /\ pc' = IF Len(fhs') = MaxBatch THEN "lost" ELSE "walk"
    BY <1>8 DEF WalkHeader
  <2>2. h.len \in 0..N /\ h.counter \in 0..MaxFrames
    BY HeaderTypes
  <2>3. CASE h.len > N - H
    BY <1>8, <2>1, <2>3 DEF WalkHeader, IInv, TypeOK, SlotFree, writerVars
  <2>4. CASE ~(h.len > N - H)
    <3>1. h.len + H \in Ptr
      BY <2>2, <2>4, RingAssumption DEF Ptr
    <3>2. cur' \in Ptr
      BY <2>1, <2>4, <3>1, CbMoveInRing DEF TypeOK
    <3>3. /\ fhs' \in Seq(Headers)
          /\ Len(fhs') = Len(fhs) + 1
      <4>1. [at |-> cur, len |-> h.len, counter |-> h.counter] \in Headers
        BY <2>2 DEF Headers, TypeOK
      <4>2. fhs \in Seq(Headers)
        BY DEF TypeOK
      <4>3. fhs' = Append(fhs, [at |-> cur, len |-> h.len, counter |-> h.counter])
        BY <2>1, <2>4
      <4>4. QED
        BY <4>1, <4>2, <4>3, AppendProperties
    <3>4. Len(fhs) < MaxBatch
      BY <1>8 DEF WalkHeader, SlotFree
    <3>5. QED
      BY <1>8, <2>1, <2>4, <3>2, <3>3, <3>4, RingAssumption
      DEF WalkHeader, IInv, TypeOK, SlotFree, writerVars
  <2>5. QED
    BY <2>3, <2>4
<1>9. CASE Resync
  <2>1. need' \in 1..(MaxFrames + 1)
    BY <1>9, FirstNeededType DEF Resync
  <2>2. QED
    BY <1>9, <2>1, RingAssumption DEF Resync, IInv, TypeOK, SlotFree, writerVars
<1>10. CASE WalkAlone
  BY <1>10, RingAssumption DEF WalkAlone, IInv, TypeOK, SlotFree, writerVars
<1>11. CASE WalkDone
  <2>1. fhs \in Seq(Headers) /\ Len(fhs) > 1
    BY <1>11 DEF WalkDone, TypeOK
  <2>2. fhs[Len(fhs)].at \in Ptr
    <3>1. fhs[Len(fhs)] \in Headers
      BY <2>1, ElementOfSeq
    <3>2. QED
      BY <3>1 DEF Headers
  <2>3. /\ SubSeq(fhs, 1, Len(fhs) - 1) \in Seq(Headers)
        /\ Len(SubSeq(fhs, 1, Len(fhs) - 1)) = Len(fhs) - 1
    BY <2>1, SubSeqProperties
  <2>4. QED
    <3>1. fhs' \in Seq(Headers) /\ Len(fhs') <= MaxBatch
      BY <1>11, <2>1, <2>3, RingAssumption DEF WalkDone, TypeOK
    <3>2. prev' \in Ptr /\ pc' = "send"
      BY <1>11, <2>2 DEF WalkDone
    <3>3. QED
      BY <1>11, <3>1, <3>2 DEF WalkDone, IInv, TypeOK, SlotFree, writerVars
<1>12. CASE Send
  <2>1. fhs \in Seq(Headers) /\ fhs # <<>>
    BY <1>12 DEF Send, TypeOK
  <2>2. /\ Head(fhs) \in Headers
        /\ Tail(fhs) \in Seq(Headers)
        /\ Len(Tail(fhs)) = Len(fhs) - 1
    BY <2>1
  <2>3. lastSent' \in 0..MaxFrames
    BY <1>12, <2>2 DEF Send, Headers, TypeOK
  <2>4. QED
    <3>1. fhs' \in Seq(Headers) /\ Len(fhs') <= MaxBatch
      BY <1>12, <2>1, <2>2, RingAssumption DEF Send, TypeOK
    <3>2. skipped' \in BOOLEAN /\ pc' = "send"
      BY <1>12 DEF Send
    <3>3. QED
      BY <1>12, <2>3, <3>1, <3>2 DEF Send, IInv, TypeOK, SlotFree, writerVars
<1>13. CASE PassOver
  <2>1. need' \in 1..(MaxFrames + 1)
    BY <1>13, FirstNeededType, RingAssumption DEF PassOver
  <2>2. QED
    BY <1>13, <2>1 DEF PassOver, IInv, TypeOK, SlotFree, writerVars
<1>14. CASE UNCHANGED vars
  BY <1>14 DEF vars, writerVars, readerVars, IInv, TypeOK, SlotFree
<1>15. QED
  BY <1>1, <1>2, <1>3, <1>4, <1>5, <1>6, <1>7, <1>8, <1>9, <1>10, <1>11, <1>12,
     <1>13, <1>14 DEF Next, Camera, Reader

-----------------------------------------------------------------------------
(* The log of the camera.  Frames are numbered in a row and follow each    *)
(* other in the ring; the distance to the end falls from each to the next, *)
(* so that no two of them begin at the same byte.                          *)
LogRight ==
    /\ Len(log) <= count
    /\ \A i \in 1..Len(log) : log[i].counter = count - Len(log) + i /\ log[i].len <= N - H
    /\ \A i \in 1..Len(log) : (log[i].at + H + log[i].len) % N
                                 = IF i = Len(log) THEN wpos ELSE log[i + 1].at
    /\ \A i, j \in 1..Len(log) : i < j => From(log[j].at) < From(log[i].at)
    /\ log # <<>> => log[Len(log)].at # wpos

(* What the reader has not passed is there, and does not fill the ring.    *)
NeedKept ==
    /\ count - Len(log) < need
    /\ \A i \in 1..Len(log) : log[i].counter >= need => log[i].at # wpos

(* The end in the table is that of the newest frame or of the one before.  *)
Published == IF "end" \in unpub THEN count ELSE count + 1
TableRight ==
    /\ "end" \in unpub => log # <<>>
    /\ toc["end"] = IF "end" \in unpub THEN log[Len(log)].at ELSE wpos
    /\ toc["start"] < N /\ idx < N /\ end < N

(* Frame c, or the one that will be written next, begins at p.             *)
Begins(l, w, n, p, c) == \/ c = n + 1 /\ p % N = w
                         \/ \E i \in 1..Len(l) : l[i].counter = c /\ l[i].at = p % N
At(p, c) == Begins(log, wpos, count, p, c)

(* c is the next frame to be handed on.                                    *)
Goes(c) == lastSent < c /\ (lastSent # 0 /\ ~skipped => lastSent + 1 = c)

(* Where a reader in sync stands, between two passes and after a walk.     *)
InSync ==
    /\ ~synced \/ pc \in {"bootStart", "bootLen"} => lastSent = 0
    /\ synced => need <= Published
    /\ synced /\ pc # "send" => At(prev, need) /\ Goes(need)
    /\ synced /\ pc = "send" => \E m \in need..Published :
          /\ At(prev, m) /\ Goes(m - Len(fhs)) /\ m - Len(fhs) >= 1
          /\ \A i \in 1..Len(fhs) : fhs[i].counter = m - Len(fhs) + i - 1

(* An end that was accepted is where a frame begins.  A walk to any end    *)
(* but 0 is at a frame before it; a walk to 0 never gets there, as cb_move *)
(* does not lead to 0.                                                     *)
EndOnFrame == pc \in {"walk", "lost"} => \E e \in need..Published : At(end, e)
Walking == pc = "walk" =>
    /\ end = 0 => cur # 0
    /\ synced /\ end # 0 =>
          /\ At(cur, need + Len(fhs))
          /\ \E e \in need..Published : At(end, e) /\ need + Len(fhs) <= e
          /\ \A i \in 1..Len(fhs) : At(fhs[i].at, need + i - 1)
                                    /\ fhs[i].counter = need + i - 1

Tracking == InSync /\ EndOnFrame /\ Walking
Aligned == LogRight /\ NeedKept /\ TableRight /\ Tracking

-----------------------------------------------------------------------------
Distance(p, w) == ((w - p - 1) % N) + 1

LEMMA BackLap == ASSUME NEW x \in (-N)..(N - 1)
                 PROVE  x % N = IF x < 0 THEN x + N ELSE x
  BY RingAssumption, SMT

LEMMA DistanceCases ==
    ASSUME NEW p \in 0..(N - 1), NEW w \in 0..(N - 1)
    PROVE  Distance(p, w) = IF p < w THEN w - p ELSE w - p + N
<1>1. w - p - 1 \in (-N)..(N - 1)
  BY RingAssumption
<1>2. (w - p - 1) % N = IF w - p - 1 < 0 THEN w - p - 1 + N ELSE w - p - 1
  BY <1>1, BackLap
<1>3. QED
  BY <1>2, RingAssumption DEF Distance

(* The end moves on by m bytes: all distances grow by m.                   *)
LEMMA EndMoves ==
    ASSUME NEW w \in 0..(N - 1), NEW m \in 1..N
    PROVE  /\ (w + m) % N \in 0..(N - 1)
           /\ Distance(w, (w + m) % N) = m
           /\ m < N => (w + m) % N # w
           /\ \A p \in 0..(N - 1) : Distance(p, w) + m <= N =>
                 Distance(p, (w + m) % N) = Distance(p, w) + m
<1> DEFINE v == IF w + m < N THEN w + m ELSE w + m - N
<1>1. (w + m) % N = v
  BY OneLap, RingAssumption
<1>2. v \in 0..(N - 1)
  BY RingAssumption
<1>3. Distance(w, v) = m
  BY <1>2, DistanceCases, RingAssumption
<1>4. ASSUME NEW p \in 0..(N - 1), Distance(p, w) + m <= N
      PROVE  Distance(p, v) = Distance(p, w) + m
  <2>1. Distance(p, w) = IF p < w THEN w - p ELSE w - p + N
    BY DistanceCases
  <2>2. Distance(p, v) = IF p < v THEN v - p ELSE v - p + N
    BY <1>2, DistanceCases
  <2>3. QED
    BY <1>4, <2>1, <2>2, RingAssumption
<1>5. m < N => v # w
  BY RingAssumption
<1>6. QED
  BY <1>1, <1>2, <1>3, <1>4, <1>5

(* A pointer into the ring stands for one place only, but for the byte     *)
(* after the ring.                                                         *)
LEMMA PtrMod == ASSUME NEW p \in Ptr PROVE p % N = IF p = N THEN 0 ELSE p
  BY OneLap, RingAssumption DEF Ptr

LEMMA InRing == ASSUME NEW p \in 0..(N - 1) PROVE p % N = p
  BY OneLap, RingAssumption

LEMMA LogFacts ==
    ASSUME TypeOK
    PROVE  /\ log \in Seq(Frame) /\ Len(log) \in Nat
           /\ \A i \in 1..Len(log) : /\ log[i].at \in 0..(N - 1) /\ log[i].len \in 0..N
                                     /\ log[i].counter \in 1..MaxFrames
           /\ wpos \in 0..(N - 1) /\ count \in Nat /\ need \in Nat /\ need > 0
           /\ N \in Nat /\ N > 0 /\ H \in Nat /\ H > 0 /\ H <= N /\ MaxFrames \in Nat
           /\ \A p : From(p) = Distance(p, wpos)
<1>1. log \in Seq(Frame)
  BY DEF TypeOK, Frame
<1>2. \A i \in 1..Len(log) : log[i] \in Frame
  BY LogElements
<1>3. QED
  BY <1>1, <1>2, RingAssumption DEF TypeOK, Frame, From, Distance

LEMMA FromCases ==
    ASSUME TypeOK, NEW p \in 0..(N - 1)
    PROVE  /\ From(p) = IF p < wpos THEN wpos - p ELSE wpos - p + N
           /\ From(p) \in 1..N /\ (From(p) = N <=> p = wpos)
<1>1. wpos \in 0..(N - 1)
  BY LogFacts
<1>2. From(p) = Distance(p, wpos)
  BY DEF From, Distance
<1>3. QED
  BY <1>1, <1>2, DistanceCases, RingAssumption

(* No two frames begin at the same byte.                                   *)
LEMMA AtsDiffer ==
    ASSUME TypeOK, LogRight, NEW i \in 1..Len(log), NEW j \in 1..Len(log),
           log[i].at = log[j].at
    PROVE  i = j
<1> SUFFICES ASSUME i # j PROVE FALSE
  OBVIOUS
<1>1. i < j \/ j < i
  BY LogFacts
<1>2. From(log[i].at) < From(log[i].at)
  BY <1>1 DEF LogRight
<1>3. log[i].at \in 0..(N - 1)
  BY LogFacts
<1>4. From(log[i].at) \in 1..N
  BY <1>3, FromCases
<1>5. QED
  BY <1>2, <1>4, RingAssumption

(* Where a frame the reader needs begins, there is no other one.           *)
LEMMA OneFrameAt ==
    ASSUME TypeOK, LogRight, NeedKept, NEW p, NEW c \in Int, c >= need, At(p, c)
    PROVE  /\ OnFrame(p) /\ FirstNeeded(p) = c /\ c <= count + 1
           /\ c <= count => \E i \in 1..Len(log) :
                 log[i].counter = c /\ log[i].at = p % N /\ FramesAt(p) = {log[i]}
<1>0. count \in Nat
  BY LogFacts
<1>1. CASE c = count + 1 /\ p % N = wpos
  BY <1>0, <1>1 DEF OnFrame, FirstNeeded
<1>2. CASE \E i \in 1..Len(log) : log[i].counter = c /\ log[i].at = p % N
  <2>1. PICK i \in 1..Len(log) : log[i].counter = c /\ log[i].at = p % N
    BY <1>2
  <2>2. p % N # wpos /\ c <= count
    BY <2>1, LogFacts DEF NeedKept, LogRight
  <2>3. \A j \in 1..Len(log) : log[j].at = p % N => j = i
    BY <2>1, AtsDiffer
  <2>4. FramesAt(p) = {log[i]}
    BY <2>1, <2>3 DEF FramesAt
  <2>5. OnFrame(p) /\ FirstNeeded(p) = c
    BY <2>1, <2>2, <2>4 DEF OnFrame, FirstNeeded
  <2>6. QED
    BY <1>0, <2>1, <2>2, <2>4, <2>5
<1>3. QED
  BY <1>1, <1>2 DEF At, Begins

(* The end in the table is where a frame begins.                           *)
LEMMA TableAt ==
    ASSUME TypeOK, LogRight, TableRight
    PROVE  /\ At(toc["end"], Published) /\ Published \in Nat
           /\ FirstNeeded(toc["end"]) = Published
<1>0. count \in Nat /\ wpos \in 0..(N - 1) /\ Len(log) \in Nat
  BY LogFacts
<1>1. CASE "end" \in unpub
  <2> DEFINE l == Len(log)
  <2>1. l \in 1..l /\ toc["end"] = log[l].at
    BY <1>1, LogFacts DEF TableRight
  <2>2. log[l].at \in 0..(N - 1)
    BY <2>1, LogFacts
  <2>3. toc["end"] % N = log[l].at
    BY <2>1, <2>2, InRing
  <2>4. log[l].counter = count /\ log[l].at # wpos
    BY <1>0, <2>1 DEF LogRight
  <2>5. At(toc["end"], count)
    BY <2>1, <2>3, <2>4 DEF At, Begins
  <2>6. FramesAt(toc["end"]) = {log[l]}
    BY <2>1, <2>3, AtsDiffer DEF FramesAt
  <2>7. FirstNeeded(toc["end"]) = count
    BY <2>3, <2>4, <2>6 DEF FirstNeeded
  <2>8. QED
    BY <1>0, <1>1, <2>5, <2>7 DEF Published
<1>2. CASE "end" \notin unpub
  <2>1. toc["end"] % N = wpos
    BY <1>0, <1>2, InRing DEF TableRight
  <2>2. QED
    BY <1>0, <1>2, <2>1 DEF Published, FirstNeeded, At, Begins
<1>3. QED
  BY <1>1, <1>2

(* Whatever the reader begins to need is there.                            *)
LEMMA NeedStays ==
    ASSUME TypeOK, LogRight, NeedKept, NEW c \in Int, NEW p, At(p, c),
           c >= need \/ FirstNeeded(p) = c
    PROVE  /\ count - Len(log) < c
           /\ \A i \in 1..Len(log) : log[i].counter >= c => log[i].at # wpos
<1>0. /\ count \in Nat /\ Len(log) \in Nat /\ need \in Nat
      /\ \A i \in 1..Len(log) : log[i].counter = count - Len(log) + i
  BY LogFacts DEF LogRight
<1>1. CASE c >= need
  BY <1>0, <1>1 DEF NeedKept
<1>2. CASE FirstNeeded(p) = c /\ (p % N = wpos \/ FramesAt(p) = {})
  BY <1>0, <1>2 DEF FirstNeeded
<1>3. CASE FirstNeeded(p) = c /\ p % N # wpos /\ FramesAt(p) # {}
  <2>1. PICK i \in 1..Len(log) : log[i].counter = c /\ log[i].at = p % N
    BY <1>3 DEF At, Begins
  <2>2. c = count - Len(log) + i
    BY <1>0, <2>1
  <2>3. ASSUME NEW j \in 1..Len(log), log[j].counter >= c PROVE log[j].at # wpos
    <3>1. j = i \/ i < j
      BY <1>0, <2>2, <2>3
    <3>2. log[i].at \in 0..(N - 1) /\ log[j].at \in 0..(N - 1)
      BY LogFacts
    <3>3. From(log[i].at) \in 1..N /\ From(log[i].at) # N /\ From(log[j].at) \in 1..N
      BY <1>3, <2>1, <3>2, FromCases
    <3>4. i < j => From(log[j].at) < From(log[i].at)
      BY DEF LogRight
    <3>5. From(log[j].at) # N
      BY <3>1, <3>3, <3>4, RingAssumption
    <3>6. QED
      BY <3>2, <3>5, FromCases
  <2>4. QED
    BY <1>0, <2>2, <2>3
<1>4. QED
  BY <1>1, <1>2, <1>3

-----------------------------------------------------------------------------
LEMMA InitAligned == Init => Aligned
<1> SUFFICES ASSUME Init PROVE Aligned
  OBVIOUS
<1>1. log = <<>> /\ Len(log) = 0 /\ count = 0 /\ wpos = 0 /\ need = MaxFrames + 1
  BY DEF Init
<1>2. MaxFrames \in Nat /\ N > 0 /\ N \in Nat
  BY RingAssumption
<1>3. LogRight /\ NeedKept
  BY <1>1, <1>2 DEF LogRight, NeedKept
<1>4. TableRight
  BY <1>1, <1>2 DEF Init, TableRight, Words
<1>5. Tracking
  BY DEF Init, Tracking, InSync, EndOnFrame, Walking
<1>6. QED
  BY <1>3, <1>4, <1>5 DEF Aligned

(* A new frame keeps the log right and what the reader needs where it was. *)
LEMMA WriteKeeps ==
    ASSUME TypeOK, LogRight, NeedKept, TableRight,
           NEW len \in Lens, NEW k \in 0..Len(log), WriteFrame(len, k)
    PROVE  /\ LogRight' /\ NeedKept' /\ TableRight'
           /\ \A p, c : c \in Int /\ c >= need /\ At(p, c) => At(p, c)'
           /\ Published' = Published
<1> DEFINE L == Len(log)
           m == H + len
           f == [at |-> wpos, len |-> len, counter |-> count + 1]
           kept == SubSeq(log, k + 1, L)
<1>0. /\ log \in Seq(Frame) /\ L \in Nat /\ wpos \in 0..(N - 1) /\ count \in Nat
      /\ need \in Nat /\ need > 0 /\ N \in Nat /\ N > 0 /\ H \in Nat /\ H > 0
      /\ len \in 0..(N - H) /\ m \in 1..N /\ m < N /\ k \in 0..L
  <2>1. log \in Seq(Frame) /\ L \in Nat /\ wpos \in 0..(N - 1) /\ count \in Nat
        /\ need \in Nat /\ need > 0 /\ N \in Nat /\ N > 0 /\ H \in Nat /\ H > 0 /\ H <= N
    BY LogFacts
  <2>2. len \in 0..(N - H) /\ m < N
    BY RingAssumption DEF WriteFrame
  <2>3. QED
    BY <2>1, <2>2
<1>1. /\ unpub = {} /\ unpub' = Words /\ toc' = toc /\ count' = count + 1
      /\ wpos' = (wpos + m) % N /\ log' = Append(kept, f)
      /\ need' = need /\ idx' = idx /\ end' = end
  <2>1. wpos' = (wpos + H + len) % N
    BY DEF WriteFrame
  <2>2. wpos + H + len = wpos + m
    BY <1>0
  <2>3. QED
    BY <2>1, <2>2 DEF WriteFrame, readerVars
<1>2. /\ Len(log') = L - k + 1 /\ log'[L - k + 1] = f
      /\ \A i \in 1..(L - k) : log'[i] = log[k + i]
  <2>1. kept \in Seq(Frame) /\ Len(kept) = L - k
        /\ \A i \in 1..(L - k) : kept[i] = log[k + i]
    <3>1. kept = [i \in 1..(L - k) |-> log[k + i]] /\ Len(kept) = L - k
      BY <1>0
    <3>2. kept \in Seq(Frame)
      BY <1>0, SubSeqProperties
    <3>3. QED
      BY <3>1, <3>2
  <2>2. QED
    BY <1>0, <1>1, <2>1
<1>3. \A i \in 1..L : /\ log[i].at \in 0..(N - 1) /\ log[i].len \in 0..N
                      /\ log[i].counter \in Nat
                      /\ log[i].counter = count - L + i /\ log[i].len <= N - H
                      /\ From(log[i].at) \in 1..N
                      /\ From(log[i].at) = Distance(log[i].at, wpos)
  <2>1. ASSUME NEW i \in 1..L
        PROVE  /\ log[i].at \in 0..(N - 1) /\ log[i].len \in 0..N
               /\ log[i].counter \in Nat
    BY LogFacts
  <2>2. ASSUME NEW i \in 1..L
        PROVE  log[i].counter = count - L + i /\ log[i].len <= N - H
    BY DEF LogRight
  <2>3. ASSUME NEW i \in 1..L PROVE From(log[i].at) \in 1..N
    BY <2>1, FromCases
  <2>4. ASSUME NEW i \in 1..L PROVE From(log[i].at) = Distance(log[i].at, wpos)
    BY DEF From, Distance
  <2>5. QED
    BY <2>1, <2>2, <2>3, <2>4
<1>4. \A i \in 1..k : log[i].counter < need
  BY DEF WriteFrame
<1>5. \A i \in (k + 1)..L : From(log[i].at) + m <= N
  <2>1. k < L => From(log[k + 1].at) + m <= N
    <3>1. ASSUME k < L PROVE kept # <<>> /\ Head(kept) = log[k + 1]
      <4>1. Len(kept) = L - k /\ kept[1] = log[k + 1]
        <5>1. kept = [i \in 1..(L - k) |-> log[k + i]] /\ Len(kept) = L - k
          BY <1>0
        <5>2. 1 \in 1..(L - k)
          BY <1>0, <3>1
        <5>3. QED
          BY <5>1, <5>2
      <4>2. Len(kept) # 0
        BY <1>0, <3>1, <4>1
      <4>3. kept \in Seq(Frame)
        BY <1>0, SubSeqProperties
      <4>4. kept # <<>>
        <5>1. Len(<<>>) = 0
          OBVIOUS
        <5>2. kept = <<>> => Len(kept) = Len(<<>>)
          BY Zenon
        <5>3. QED
          BY <4>2, <5>1, <5>2, Zenon
      <4>5. QED
        BY <4>1, <4>3, <4>4
    <3>2. Used(kept) + H + len <= N
      BY DEF WriteFrame
    <3>3. ASSUME k < L PROVE From(log[k + 1].at) + H + len <= N
      BY <3>1, <3>2, <3>3 DEF Used
    <3>4. ASSUME k < L PROVE From(log[k + 1].at) \in 1..N
      <4>1. k + 1 \in 1..L
        BY <1>0, <3>4
      <4>2. QED
        BY <1>3, <4>1
    <3>5. QED
      BY <1>0, <3>3, <3>4
  <2>2. ASSUME NEW i \in 1..L, k + 1 < i PROVE From(log[i].at) < From(log[k + 1].at)
    <3>1. k + 1 \in 1..L
      BY <1>0, <2>2
    <3>2. QED
      BY <2>2, <3>1 DEF LogRight
  <2>3. ASSUME NEW i \in (k + 1)..L PROVE From(log[i].at) + m <= N
    <3>1. i \in 1..L /\ k + 1 \in 1..L /\ k < L
      BY <1>0
    <3>2. From(log[i].at) <= From(log[k + 1].at)
      <4>1. i = k + 1 \/ k + 1 < i
        BY <1>0
      <4>2. From(log[i].at) \in 1..N
        BY <1>3, <3>1
      <4>3. i = k + 1 => From(log[i].at) <= From(log[k + 1].at)
        BY <1>0, <4>2
      <4>4. k + 1 < i => From(log[i].at) < From(log[k + 1].at)
        BY <2>2, <3>1
      <4>5. From(log[k + 1].at) \in 1..N
        BY <1>3, <3>1
      <4>6. QED
        BY <1>0, <4>1, <4>2, <4>3, <4>4, <4>5
    <3>3. QED
      BY <1>0, <1>3, <2>1, <3>1, <3>2
  <2>4. QED
    BY <2>3
<1>6. /\ wpos' \in 0..(N - 1) /\ wpos' # wpos /\ Distance(wpos, wpos') = m
      /\ \A i \in (k + 1)..L : Distance(log[i].at, wpos') = From(log[i].at) + m
  <2>1. /\ wpos' \in 0..(N - 1) /\ wpos' # wpos /\ Distance(wpos, wpos') = m
        /\ \A p \in 0..(N - 1) : Distance(p, wpos) + m <= N =>
               Distance(p, wpos') = Distance(p, wpos) + m
    BY <1>0, <1>1, EndMoves
  <2>2. ASSUME NEW i \in (k + 1)..L
        PROVE  Distance(log[i].at, wpos') = From(log[i].at) + m
    <3>1. i \in 1..L
      BY <1>0
    <3>2. QED
      BY <1>3, <1>5, <2>1, <3>1
  <2>3. QED
    BY <2>1, <2>2
<1>14. /\ count \in Nat /\ L \in Nat /\ k \in Nat /\ k <= L /\ len <= N - H
       /\ count' = count + 1 /\ Len(log') = L - k + 1
  BY <1>0, <1>1, <1>2
(* Every frame of the new log is the new one or an old one.                *)
<1>7. ASSUME NEW i \in 1..Len(log')
      PROVE  \/ i = L - k + 1 /\ log'[i] = f
             \/ i < L - k + 1 /\ k + i \in (k + 1)..L /\ k + i \in 1..L
                /\ log'[i] = log[k + i]
  <2>1. i \in 1..(L - k + 1)
    BY <1>2
  <2>2. i = L - k + 1 \/ i \in 1..(L - k)
    BY <1>0, <2>1
  <2>3. i \in 1..(L - k) => k + i \in (k + 1)..L /\ k + i \in 1..L /\ i < L - k + 1
    BY <1>0
  <2>4. QED
    BY <1>2, <2>2, <2>3
<1>8. ASSUME NEW i \in 1..Len(log')
      PROVE  /\ log'[i].counter = count' - Len(log') + i /\ log'[i].len <= N - H
             /\ (log'[i].at + H + log'[i].len) % N
                   = IF i = Len(log') THEN wpos' ELSE log'[i + 1].at
  <2>1. CASE i = L - k + 1 /\ log'[i] = f
    <3>1. log'[i].counter = count + 1 /\ log'[i].len = len /\ log'[i].at = wpos
      BY <2>1
    <3>2. wpos + H + len = wpos + m
      BY <1>0
    <3>3. (log'[i].at + H + log'[i].len) % N = wpos'
      BY <1>1, <3>1, <3>2
    <3>4. i = Len(log') /\ count + 1 = count' - Len(log') + i /\ len <= N - H
      BY <1>14, <2>1
    <3>5. QED
      BY <3>1, <3>3, <3>4
  <2>2. CASE i < L - k + 1 /\ k + i \in 1..L /\ log'[i] = log[k + i]
    <3>1. log'[i].counter = count - L + (k + i) /\ log'[i].len <= N - H
      BY <1>3, <2>2
    <3>2. (log'[i].at + H + log'[i].len) % N
             = IF k + i = L THEN wpos ELSE log[k + i + 1].at
      BY <2>2 DEF LogRight
    <3>3. k + i = L => log'[i + 1].at = wpos
      BY <1>0, <1>2, <2>2
    <3>4. k + i # L => log'[i + 1] = log[k + (i + 1)] /\ k + (i + 1) = k + i + 1
      BY <1>0, <1>2, <2>2
    <3>5. (log'[i].at + H + log'[i].len) % N = log'[i + 1].at
      BY <3>2, <3>3, <3>4
    <3>6. i # Len(log') /\ count - L + (k + i) = count' - Len(log') + i
      <4>1. i \in Nat /\ i < L - k + 1
        BY <2>2
      <4>2. QED
        BY <1>14, <4>1
    <3>7. QED
      BY <3>1, <3>5, <3>6
  <2>3. QED
    BY <1>7, <2>1, <2>2
<1>9. ASSUME NEW i \in 1..Len(log'), NEW j \in 1..Len(log'), i < j
      PROVE  Distance(log'[j].at, wpos') < Distance(log'[i].at, wpos')
  <2>0. i < L - k + 1 /\ j \in 1..(L - k + 1)
    BY <1>0, <1>2, <1>9
  <2>1. k + i \in (k + 1)..L /\ k + i \in 1..L /\ log'[i] = log[k + i]
    BY <1>7, <1>14, <2>0
  <2>2. Distance(log'[i].at, wpos') = From(log[k + i].at) + m /\ From(log[k + i].at) \in 1..N
    BY <1>3, <1>6, <2>1
  <2>3. CASE j = L - k + 1
    <3>1. log'[j].at = wpos
      BY <1>2, <2>3
    <3>2. Distance(log'[j].at, wpos') = m
      BY <1>6, <3>1
    <3>3. QED
      BY <1>0, <2>2, <3>2
  <2>4. CASE j < L - k + 1
    <3>0. k + i < k + j
      BY <1>0, <1>9
    <3>1. k + j \in (k + 1)..L /\ k + j \in 1..L /\ log'[j] = log[k + j]
      BY <1>7, <1>14, <2>4
    <3>2. From(log[k + j].at) < From(log[k + i].at)
      BY <2>1, <3>0, <3>1 DEF LogRight
    <3>5. From(log[k + j].at) \in 1..N
      BY <1>3, <3>1
    <3>3. Distance(log'[j].at, wpos') = From(log[k + j].at) + m
      BY <1>6, <3>1
    <3>4. QED
      BY <1>0, <2>2, <3>2, <3>3, <3>5
  <2>5. QED
    BY <1>0, <2>0, <2>3, <2>4
<1>10. LogRight'
  <2>1. Len(log') <= count'
    BY <1>0, <1>1, <1>2 DEF LogRight
  <2>2. log'[Len(log')].at # wpos'
    BY <1>0, <1>2, <1>6
  <2>3. \A i, j \in 1..Len(log') : i < j =>
           ((wpos' - log'[j].at - 1) % N) + 1 < ((wpos' - log'[i].at - 1) % N) + 1
    BY <1>9 DEF Distance
  <2>4. QED
    BY <1>8, <2>1, <2>2, <2>3 DEF LogRight, From
<1>11. NeedKept'
  <2>1. count' - Len(log') < need'
    <3>1. k = 0 => count - L < need
      BY DEF NeedKept
    <3>2. k # 0 => count - L + k < need
      <4>1. k # 0 => k \in 1..k /\ k \in 1..L
        BY <1>0
      <4>2. k # 0 => log[k].counter = count - L + k /\ log[k].counter < need
        BY <1>3, <1>4, <4>1
      <4>3. QED
        BY <4>2
    <3>3. count' - Len(log') = count - L + k
      BY <1>14
    <3>4. k = 0 => count - L + k = count - L
      BY <1>0
    <3>5. QED
      BY <1>1, <3>1, <3>2, <3>3, <3>4
  <2>2. ASSUME NEW i \in 1..Len(log'), log'[i].counter >= need'
        PROVE  log'[i].at # wpos'
    <3>1. CASE i = L - k + 1 /\ log'[i] = f
      BY <1>6, <3>1
    <3>2. CASE k + i \in (k + 1)..L /\ k + i \in 1..L /\ log'[i] = log[k + i]
      <4>1. From(log[k + i].at) + H + len < N
        BY <1>1, <2>2, <3>2 DEF WriteFrame
      <4>2. Distance(log[k + i].at, wpos') < N
        <5>1. Distance(log[k + i].at, wpos') = From(log[k + i].at) + m
          BY <1>6, <3>2
        <5>2. From(log[k + i].at) \in 1..N
          BY <1>3, <3>2
        <5>3. N \in Nat /\ H \in Nat /\ len \in Int
          BY <1>0
        <5>4. \A x \in 1..N : x + H + len < N => x + (H + len) < N
          BY <5>3
        <5>5. QED
          BY <4>1, <5>1, <5>2, <5>4
      <4>3. log[k + i].at \in 0..(N - 1)
        BY <1>3, <3>2
      <4>4. log[k + i].at # wpos'
        BY <1>0, <1>6, <4>2, <4>3, DistanceCases
      <4>5. QED
        BY <3>2, <4>4
    <3>3. QED
      BY <1>7, <3>1, <3>2
  <2>3. QED
    BY <2>1, <2>2 DEF NeedKept
<1>12. TableRight'
  <2>1. toc["end"] = wpos /\ toc["start"] < N /\ idx < N /\ end < N
    BY <1>1 DEF TableRight
  <2>2. log' # <<>> /\ log'[Len(log')].at = wpos
    <3>1. Len(log') > 0 /\ Len(log') = L - k + 1
      BY <1>0, <1>2
    <3>2. QED
      BY <1>2, <3>1
  <2>3. "end" \in unpub'
    BY <1>1 DEF Words
  <2>4. QED
    BY <1>1, <2>1, <2>2, <2>3 DEF TableRight
<1>13. ASSUME NEW p, NEW c \in Int, c >= need, At(p, c)
       PROVE  Begins(log', wpos', count', p, c)
  <2>1. CASE c = count + 1 /\ p % N = wpos
    <3>1. L - k + 1 \in 1..Len(log') /\ log'[L - k + 1].counter = c
          /\ log'[L - k + 1].at = p % N
      BY <1>0, <1>2, <2>1
    <3>2. QED
      BY <3>1 DEF Begins
  <2>2. CASE \E i \in 1..L : log[i].counter = c /\ log[i].at = p % N
    <3>1. PICK i \in 1..L : log[i].counter = c /\ log[i].at = p % N
      BY <2>2
    <3>2. i \notin 1..k
      BY <1>0, <1>3, <1>4, <1>13, <3>1
    <3>3. i - k \in 1..(L - k) /\ i - k \in 1..Len(log') /\ k + (i - k) = i
      BY <1>0, <1>2, <3>1, <3>2
    <3>4. log'[i - k] = log[i]
      BY <1>2, <3>3
    <3>5. QED
      BY <3>1, <3>3, <3>4 DEF Begins
  <2>3. QED
    BY <1>13, <2>1, <2>2 DEF At, Begins
<1>15. Published' = Published
  BY <1>0, <1>1 DEF Published, Words
<1>16. QED
  BY <1>10, <1>11, <1>12, <1>13, <1>15 DEF At

(* A word of the table follows: the log is as it was.                      *)
LEMMA PublishKeeps ==
    ASSUME TypeOK, LogRight, NeedKept, TableRight, NEW w \in Words, Publish(w)
    PROVE  /\ LogRight' /\ NeedKept' /\ TableRight'
           /\ \A p, c : c \in Int /\ c >= need /\ At(p, c) => At(p, c)'
           /\ Published' >= Published
<1>1. /\ log' = log /\ wpos' = wpos /\ count' = count /\ need' = need
      /\ idx' = idx /\ end' = end /\ unpub' = unpub \ {w}
      /\ toc' = [toc EXCEPT ![w] = CASE w = "start" -> FirstAt(log)
                                     [] w = "len" -> Used(log)
                                     [] w = "end" -> wpos]
  BY DEF Publish, readerVars
<1>2. LogRight'
  BY <1>1 DEF LogRight, From
<1>3. NeedKept'
  BY <1>1 DEF NeedKept
<1>4. TableRight'
  <2>1. toc \in [Words -> Ptr] /\ {"start", "end"} \subseteq Words
    BY DEF TypeOK, Words
  <2>2. FirstAt(log) < N
    <3>1. log # <<>> => Head(log) = log[1] /\ 1 \in 1..Len(log)
      BY LogFacts
    <3>2. log # <<>> => Head(log).at \in 0..(N - 1)
      BY <3>1, LogFacts
    <3>3. wpos \in 0..(N - 1) /\ N \in Nat
      BY LogFacts
    <3>4. QED
      BY <3>2, <3>3 DEF FirstAt
  <2>3. toc'["start"] < N
    <3>1. w = "start" => toc'["start"] = FirstAt(log)
      BY <1>1, <2>1
    <3>2. w # "start" => toc'["start"] = toc["start"]
      BY <1>1, <2>1
    <3>3. QED
      BY <2>2, <3>1, <3>2 DEF TableRight
  <2>4. toc'["end"] = IF "end" \in unpub' THEN log[Len(log)].at ELSE wpos
    <3>1. w = "end" => toc'["end"] = wpos
      BY <1>1, <2>1
    <3>2. w # "end" => toc'["end"] = toc["end"]
      BY <1>1, <2>1
    <3>3. w # "end" => ("end" \in unpub' <=> "end" \in unpub)
      BY <1>1
    <3>4. w = "end" => "end" \notin unpub'
      BY <1>1
    <3>5. QED
      BY <3>1, <3>2, <3>3, <3>4 DEF TableRight
  <2>5. "end" \in unpub' => log # <<>>
    BY <1>1 DEF TableRight
  <2>6. idx' < N /\ end' < N
    BY <1>1 DEF TableRight
  <2>7. QED
    BY <1>1, <2>3, <2>4, <2>5, <2>6 DEF TableRight
<1>5. ASSUME NEW p, NEW c \in Int, c >= need, At(p, c)
      PROVE  Begins(log', wpos', count', p, c)
  BY <1>1, <1>5 DEF At
<1>6. Published' >= Published
  <2>1. count \in Nat
    BY LogFacts
  <2>2. QED
    BY <1>1, <2>1 DEF Published
<1>7. QED
  BY <1>2, <1>3, <1>4, <1>5, <1>6 DEF At

(* The reader stands as it stood while the camera goes on.                 *)
LEMMA TrackingStays ==
    ASSUME TypeOK, Tracking, UNCHANGED readerVars,
           \A p, c : c \in Int /\ c >= need /\ At(p, c) => At(p, c)',
           Published \in Int, Published' \in Int, Published' >= Published
    PROVE  Tracking'
<1>1. \A p, c : c \in Int /\ c >= need /\ At(p, c)
                => Begins(log', wpos', count', p, c)
  BY DEF At
<1>2. /\ pc' = pc /\ end' = end /\ prev' = prev /\ cur' = cur /\ fhs' = fhs
      /\ lastSent' = lastSent /\ skipped' = skipped /\ synced' = synced /\ need' = need
  BY DEF readerVars
<1>3. need \in Nat /\ Len(fhs) \in Nat
  BY RingAssumption DEF TypeOK
<1>4. \A e \in need..Published : e \in need..Published' /\ e \in Int /\ e >= need
  BY <1>3
<1>5. InSync'
  <2>1. synced => need <= Published'
    BY <1>3 DEF Tracking, InSync
  <2>2. synced /\ pc # "send" =>
           Begins(log', wpos', count', prev, need) /\ Goes(need)
    BY <1>1, <1>3 DEF Tracking, InSync
  <2>3. synced /\ pc = "send" => \E m \in need..Published' :
          /\ Begins(log', wpos', count', prev, m)
          /\ Goes(m - Len(fhs)) /\ m - Len(fhs) >= 1
          /\ \A i \in 1..Len(fhs) : fhs[i].counter = m - Len(fhs) + i - 1
    <3> SUFFICES ASSUME synced, pc = "send" PROVE \E m \in need..Published' :
          /\ Begins(log', wpos', count', prev, m)
          /\ Goes(m - Len(fhs)) /\ m - Len(fhs) >= 1
          /\ \A i \in 1..Len(fhs) : fhs[i].counter = m - Len(fhs) + i - 1
      OBVIOUS
    <3>1. PICK m \in need..Published :
          /\ At(prev, m) /\ Goes(m - Len(fhs)) /\ m - Len(fhs) >= 1
          /\ \A i \in 1..Len(fhs) : fhs[i].counter = m - Len(fhs) + i - 1
      BY DEF Tracking, InSync
    <3>2. QED
      BY <1>1, <1>4, <3>1
  <2>4. ~synced \/ pc \in {"bootStart", "bootLen"} => lastSent = 0
    BY DEF Tracking, InSync
  <2>5. QED
    BY <1>2, <2>1, <2>2, <2>3, <2>4 DEF InSync, At, Goes
<1>6. EndOnFrame'
  <2>1. ASSUME pc \in {"walk", "lost"}
        PROVE  \E e \in need..Published' : Begins(log', wpos', count', end, e)
    <3>1. PICK e \in need..Published : At(end, e)
      BY <2>1 DEF Tracking, EndOnFrame
    <3>2. QED
      BY <1>1, <1>4, <3>1
  <2>2. QED
    BY <1>2, <2>1 DEF EndOnFrame, At
<1>7. Walking'
  <2>1. ASSUME pc = "walk", synced, end # 0
        PROVE  /\ Begins(log', wpos', count', cur, need + Len(fhs))
               /\ \E e \in need..Published' :
                     Begins(log', wpos', count', end, e) /\ need + Len(fhs) <= e
               /\ \A i \in 1..Len(fhs) :
                     /\ Begins(log', wpos', count', fhs[i].at, need + i - 1)
                     /\ fhs[i].counter = need + i - 1
    <3>1. /\ At(cur, need + Len(fhs))
          /\ \A i \in 1..Len(fhs) : /\ At(fhs[i].at, need + i - 1)
                                     /\ fhs[i].counter = need + i - 1
      BY <2>1 DEF Tracking, Walking
    <3>2. PICK e \in need..Published : At(end, e) /\ need + Len(fhs) <= e
      BY <2>1 DEF Tracking, Walking
    <3>3. Begins(log', wpos', count', cur, need + Len(fhs))
      BY <1>1, <1>3, <3>1
    <3>4. ASSUME NEW i \in 1..Len(fhs)
          PROVE  Begins(log', wpos', count', fhs[i].at, need + i - 1)
      <4>1. need + i - 1 \in Int /\ need + i - 1 >= need
        BY <1>3
      <4>2. QED
        BY <1>1, <3>1, <4>1
    <3>5. QED
      BY <1>1, <1>4, <3>1, <3>2, <3>3, <3>4
  <2>2. pc = "walk" /\ end = 0 => cur # 0
    BY DEF Tracking, Walking
  <2>3. QED
    BY <1>2, <2>1, <2>2 DEF Walking, At
<1>8. QED
  BY <1>5, <1>6, <1>7 DEF Tracking

LEMMA CameraAligned ==
    ASSUME TypeOK, Aligned, Camera PROVE Aligned'
<1>1. LogRight /\ NeedKept /\ TableRight /\ Tracking
  BY DEF Aligned
<1>2. Published \in Int
  BY <1>1, TableAt
<1>3. ASSUME NEW len \in Lens, NEW k \in 0..Len(log), WriteFrame(len, k)
      PROVE  Aligned'
  <2>1. /\ LogRight' /\ NeedKept' /\ TableRight' /\ Published' = Published
        /\ \A p, c : c \in Int /\ c >= need /\ At(p, c) => At(p, c)'
    BY <1>1, <1>3, WriteKeeps
  <2>2. UNCHANGED readerVars
    BY <1>3 DEF WriteFrame
  <2>3. Tracking'
    BY <1>1, <1>2, <2>1, <2>2, TrackingStays
  <2>4. QED
    BY <2>1, <2>3 DEF Aligned
<1>4. ASSUME NEW w \in Words, Publish(w) PROVE Aligned'
  <2>1. /\ LogRight' /\ NeedKept' /\ TableRight' /\ Published' >= Published
        /\ \A p, c : c \in Int /\ c >= need /\ At(p, c) => At(p, c)'
    BY <1>1, <1>4, PublishKeeps
  <2>2. UNCHANGED readerVars /\ count' = count
    BY <1>4 DEF Publish
  <2>3. Published' \in Int
    <3>1. count \in Nat
      BY LogFacts
    <3>2. QED
      BY <2>2, <3>1 DEF Published
  <2>4. Tracking'
    BY <1>1, <1>2, <2>1, <2>2, <2>3, TrackingStays
  <2>5. QED
    BY <2>1, <2>4 DEF Aligned
<1>5. QED
  BY <1>3, <1>4 DEF Camera

-----------------------------------------------------------------------------
(* The steps of the reader leave the log and the table alone.              *)
LEMMA ReaderKeeps ==
    ASSUME TypeOK, LogRight, NeedKept, TableRight, UNCHANGED writerVars,
           idx' < N, end' < N, need' \in Int,
           need' >= need \/ \E p : At(p, need') /\ FirstNeeded(p) = need'
    PROVE  /\ LogRight' /\ NeedKept' /\ TableRight'
           /\ Published' = Published
<1>1. log' = log /\ wpos' = wpos /\ count' = count /\ toc' = toc /\ unpub' = unpub
  BY DEF writerVars
<1>2. LogRight' /\ TableRight' /\ Published' = Published
  BY <1>1 DEF LogRight, TableRight, Published, From
<1>3. /\ count - Len(log) < need'
      /\ \A i \in 1..Len(log) : log[i].counter >= need' => log[i].at # wpos
  <2>1. CASE need' >= need
    <3>1. /\ count \in Nat /\ Len(log) \in Nat /\ need \in Nat
          /\ \A i \in 1..Len(log) : log[i].counter \in Nat
      BY LogFacts
    <3>2. QED
      BY <2>1, <3>1 DEF NeedKept
  <2>2. CASE \E p : At(p, need') /\ FirstNeeded(p) = need'
    <3>1. PICK p : At(p, need') /\ FirstNeeded(p) = need'
      BY <2>2
    <3> DEFINE c == need'
    <3>2. c \in Int /\ At(p, c) /\ FirstNeeded(p) = c
      BY <3>1
    <3> HIDE DEF c
    <3>3. /\ count - Len(log) < c
          /\ \A i \in 1..Len(log) : log[i].counter >= c => log[i].at # wpos
      BY <3>2, NeedStays
    <3>4. QED
      BY <3>3 DEF c
  <2>3. QED
    BY <2>1, <2>2
<1>4. QED
  BY <1>1, <1>2, <1>3 DEF NeedKept

LEMMA RingEndBelow ==
    ASSUME NEW p \in 0..(N - 1), NEW k \in Ptr PROVE RingEnd(p, k) < N
  BY RingAssumption DEF RingEnd, Ptr

(* A frame is in one place only.                                           *)
LEMMA SamePlace ==
    ASSUME TypeOK, LogRight, NEW p, NEW q, NEW c \in Int, At(p, c), At(q, c)
    PROVE  p % N = q % N
<1>1. /\ count \in Nat /\ Len(log) \in Nat
      /\ \A i \in 1..Len(log) : log[i].counter = count - Len(log) + i
  BY LogFacts DEF LogRight
<1>2. CASE c = count + 1
  <2>1. \A i \in 1..Len(log) : log[i].counter # c
    BY <1>1, <1>2
  <2>2. QED
    BY <2>1 DEF At, Begins
<1>3. CASE c # count + 1
  <2>1. PICK i \in 1..Len(log) : log[i].counter = c /\ log[i].at = p % N
    BY <1>3 DEF At, Begins
  <2>2. PICK j \in 1..Len(log) : log[j].counter = c /\ log[j].at = q % N
    BY <1>3 DEF At, Begins
  <2>3. i = j
    BY <1>1, <2>1, <2>2
  <2>4. QED
    BY <2>1, <2>2, <2>3
<1>4. QED
  BY <1>2, <1>3

(* The pointer after a frame is where the next one begins, and never 0.    *)
LEMMA NextPlace ==
    ASSUME NEW p \in Ptr, NEW k \in Ptr, k > 0
    PROVE  CbMove(p, k) % N = ((p % N) + k) % N /\ CbMove(p, k) # 0
<1>1. CbMove(p, k) # 0
  BY RingAssumption DEF CbMove, Ptr
<1>2. CbMove(p, k) = IF p + k > N THEN p + k - N ELSE p + k
  BY RingAssumption DEF CbMove, Ptr
<1>3. CASE p # N
  <2>1. p % N = p /\ CbMove(p, k) % N = (p + k) % N
    BY <1>3, PtrMod, CbMoveMod
  <2>2. QED
    BY <1>1, <2>1
<1>4. CASE p = N
  <2>1. p % N = 0 /\ CbMove(p, k) = k
    BY <1>2, <1>4, PtrMod, RingAssumption DEF Ptr
  <2>2. (p % N) + k = k
    BY <2>1 DEF Ptr
  <2>3. QED
    BY <1>1, <2>1, <2>2
<1>5. QED
  BY <1>3, <1>4

LEMMA OnToNext ==
    ASSUME TypeOK, LogRight, NeedKept, NEW p \in Ptr, NEW c \in Int, c >= need,
           c <= count, At(p, c), NEW h \in HeaderAt(p)
    PROVE  /\ h.counter = c /\ h.len <= N - H
           /\ At(CbMove(p, h.len + H), c + 1)
<1>1. PICK i \in 1..Len(log) :
          log[i].counter = c /\ log[i].at = p % N /\ FramesAt(p) = {log[i]}
  BY OneFrameAt
<1>2. h = [len |-> log[i].len, counter |-> log[i].counter]
  BY <1>1 DEF HeaderAt
<1>3. h.counter = c /\ h.len = log[i].len
  BY <1>1, <1>2
<1>4. log[i].len \in 0..N /\ log[i].len <= N - H
      /\ (log[i].at + H + log[i].len) % N
             = IF i = Len(log) THEN wpos ELSE log[i + 1].at
  BY LogFacts DEF LogRight
<1>5. h.len + H \in Ptr /\ h.len + H > 0
  BY <1>3, <1>4, RingAssumption DEF Ptr
<1>6. CbMove(p, h.len + H) % N = ((p % N) + (h.len + H)) % N
  BY <1>5, NextPlace
<1>7. (p % N) + (h.len + H) = log[i].at + H + log[i].len
  <2>1. log[i].at \in Int /\ log[i].len \in Int /\ H \in Int
    BY LogFacts
  <2>2. QED
    BY <1>1, <1>3, <2>1
<1>8. CbMove(p, h.len + H) % N = IF i = Len(log) THEN wpos ELSE log[i + 1].at
  BY <1>4, <1>6, <1>7
<1>9. /\ count \in Nat /\ Len(log) \in Nat
      /\ \A j \in 1..Len(log) : log[j].counter = count - Len(log) + j
  BY LogFacts DEF LogRight
<1>10. CASE i = Len(log)
  <2>1. c = count
    BY <1>1, <1>9, <1>10
  <2>2. QED
    BY <1>3, <1>4, <1>8, <1>10, <2>1 DEF At, Begins
<1>11. CASE i # Len(log)
  <2>1. i + 1 \in 1..Len(log)
    BY <1>9, <1>11
  <2>2. log[i + 1].counter = c + 1
    BY <1>1, <1>9, <2>1
  <2>3. QED
    BY <1>3, <1>4, <1>8, <1>11, <2>1, <2>2 DEF At, Begins
<1>12. QED
  BY <1>10, <1>11

-----------------------------------------------------------------------------
LEMMA ReaderTypes ==
    ASSUME TypeOK, SlotFree, TableRight, LogRight
    PROVE  /\ need \in Nat /\ need >= 1 /\ need <= MaxFrames + 1 /\ MaxFrames \in Nat
           /\ lastSent \in Nat /\ Published \in Nat /\ count \in Nat
           /\ Published <= count + 1
           /\ fhs \in Seq(Headers) /\ Len(fhs) \in Nat
           /\ idx \in 0..(N - 1) /\ end \in 0..(N - 1) /\ cur \in Ptr /\ prev \in Ptr
           /\ synced \in BOOLEAN /\ skipped \in BOOLEAN
<1>1. Published \in Nat /\ count \in Nat /\ Published <= count + 1
  <2>1. count \in Nat
    BY LogFacts
  <2>2. QED
    BY <2>1 DEF Published
<1>2. QED
  BY <1>1, RingAssumption DEF TypeOK, TableRight, Ptr

(* A pass that begins or ends without a frame leaves the reader in sync.   *)
LEMMA BootAligned ==
    ASSUME TypeOK, SlotFree, Aligned,
           BootStart \/ BootLen \/ ReadStart \/ ReadLen \/ CheckFails \/ WalkAlone
    PROVE  Aligned'
<1>1. LogRight /\ NeedKept /\ TableRight /\ InSync /\ Walking
  BY DEF Aligned, Tracking
<1>2. /\ need \in Nat /\ need >= 1 /\ need <= MaxFrames + 1 /\ MaxFrames \in Nat
      /\ lastSent \in Nat /\ Published \in Nat
      /\ idx \in 0..(N - 1) /\ end \in 0..(N - 1) /\ N \in Nat
      /\ synced \in BOOLEAN
  BY <1>1, ReaderTypes, RingAssumption
<1>3. toc["start"] < N /\ toc["len"] \in Ptr
  BY <1>1 DEF TableRight, TypeOK, Words
<1>4. RingEnd(idx, toc["len"]) < N
  BY <1>2, <1>3, RingEndBelow
<1>5. UNCHANGED writerVars
  BY DEF BootStart, BootLen, ReadStart, ReadLen, CheckFails, WalkAlone
<1>6. log' = log /\ wpos' = wpos /\ count' = count /\ toc' = toc /\ unpub' = unpub
  BY <1>5 DEF writerVars
<1>7. idx' < N /\ end' < N
  BY <1>1, <1>2, <1>3, <1>4
  DEF BootStart, BootLen, ReadStart, ReadLen, CheckFails, WalkAlone
<1>8. EndOnFrame' /\ Walking'
  BY DEF BootStart, BootLen, ReadStart, ReadLen, CheckFails, WalkAlone,
         EndOnFrame, Walking
<1>9. CASE BootStart \/ ReadStart \/ ReadLen \/ CheckFails \/ WalkAlone
  <2>1. /\ lastSent' = lastSent /\ skipped' = skipped /\ synced' = synced
        /\ prev' = prev /\ pc' # "send" /\ pc # "send"
        /\ pc' \in {"bootStart", "bootLen"} => pc \in {"bootStart", "bootLen"}
        /\ need' = need \/ (~synced /\ need' = MaxFrames + 1)
    BY <1>9, <1>2 DEF BootStart, ReadStart, ReadLen, CheckFails, WalkAlone
  <2>2. LogRight' /\ NeedKept' /\ TableRight' /\ Published' = Published
    <3>1. need' \in Int /\ need' >= need
      BY <1>2, <2>1
    <3>2. QED
      BY <1>1, <1>5, <1>7, <3>1, ReaderKeeps
  <2>3. InSync'
    <3>1. synced' => need' <= Published'
      BY <1>1, <2>1, <2>2 DEF InSync
    <3>2. synced' => /\ Begins(log', wpos', count', prev', need')
                     /\ lastSent' < need'
                     /\ (lastSent' # 0 /\ ~skipped' => lastSent' + 1 = need')
      BY <1>1, <1>6, <2>1 DEF InSync, At, Goes
    <3>3. ~synced' \/ pc' \in {"bootStart", "bootLen"} => lastSent' = 0
      BY <1>1, <2>1 DEF InSync
    <3>4. QED
      BY <2>1, <3>1, <3>2, <3>3 DEF InSync, At, Goes
  <2>4. QED
    BY <1>8, <2>2, <2>3 DEF Aligned, Tracking
<1>10. CASE BootLen
  <2>1. /\ end' = RingEnd(idx, toc["len"]) /\ prev' = end' /\ pc' = "start"
        /\ synced' = (end' = toc["end"]) /\ lastSent' = lastSent
        /\ need' = IF synced' THEN FirstNeeded(end') ELSE MaxFrames + 1
    BY <1>10 DEF BootLen
  <2>2. lastSent = 0
    BY <1>1, <1>10 DEF InSync, BootLen
  <2>3. At(toc["end"], Published) /\ FirstNeeded(toc["end"]) = Published
    BY <1>1, TableAt
  <2>4. synced' => need' = Published
    <3>1. synced' => end' = toc["end"]
      BY <2>1
    <3>2. synced' => FirstNeeded(end') = Published
      BY <2>3, <3>1
    <3>3. QED
      BY <2>1, <3>2
  <2>5. /\ need' \in Int
        /\ \/ need' >= need
           \/ At(toc["end"], need') /\ FirstNeeded(toc["end"]) = need'
    <3>1. CASE synced'
      BY <1>2, <2>3, <2>4, <3>1
    <3>2. CASE ~synced'
      BY <1>2, <2>1, <3>2
    <3>3. QED
      BY <3>1, <3>2
  <2>6. LogRight' /\ NeedKept' /\ TableRight' /\ Published' = Published
    BY <1>1, <1>5, <1>7, <2>5, ReaderKeeps
  <2>7. need' >= 1
    BY <2>6, FirstNeededType, <2>1, <1>2
  <2>8. synced' => Begins(log', wpos', count', prev', need')
    BY <1>6, <2>1, <2>3, <2>4 DEF At
  <2>9. InSync'
    <3>1. synced' => need' <= Published'
      BY <1>2, <2>4, <2>6
    <3>2. synced' => lastSent' < need' /\ lastSent' = 0
      BY <2>1, <2>2, <2>5, <2>7
    <3>3. QED
      BY <2>1, <2>2, <2>8, <3>1, <3>2 DEF InSync, At, Goes
  <2>10. QED
    BY <1>8, <2>6, <2>9 DEF Aligned, Tracking
<1>11. QED
  BY <1>9, <1>10

(* An end that agrees with the table is where a frame begins.              *)
LEMMA CheckAligned ==
    ASSUME TypeOK, SlotFree, Aligned, CheckPasses PROVE Aligned'
<1>1. LogRight /\ NeedKept /\ TableRight /\ InSync
  BY DEF Aligned, Tracking
<1>2. /\ need \in Nat /\ Published \in Nat /\ idx < N /\ end < N /\ synced \in BOOLEAN
  BY <1>1, ReaderTypes, RingAssumption DEF TableRight
<1>3. /\ pc = "check" /\ pc' = "walk" /\ end = toc["end"] /\ end # prev
      /\ cur' = prev /\ fhs' = <<>> /\ need' = (IF synced THEN need ELSE FirstNeeded(end))
      /\ idx' = idx /\ end' = end /\ prev' = prev /\ lastSent' = lastSent
      /\ skipped' = skipped /\ synced' = synced /\ UNCHANGED writerVars
  BY DEF CheckPasses
<1>4. log' = log /\ wpos' = wpos /\ count' = count
  BY <1>3 DEF writerVars
<1>5. At(end, Published) /\ FirstNeeded(end) = Published
  BY <1>1, <1>3, TableAt
<1>6. /\ need' \in Nat /\ need' <= Published
      /\ need' >= need \/ (At(end, need') /\ FirstNeeded(end) = need')
  BY <1>1, <1>2, <1>3, <1>5 DEF InSync
<1>7. LogRight' /\ NeedKept' /\ TableRight' /\ Published' = Published
  BY <1>1, <1>2, <1>3, <1>6, ReaderKeeps
<1>8. Begins(log', wpos', count', end', Published) /\ Published \in need'..Published'
  <2>1. Begins(log', wpos', count', end', Published)
    BY <1>3, <1>4, <1>5 DEF At
  <2>2. Published \in need'..Published'
    BY <1>2, <1>6, <1>7
  <2>3. QED
    BY <2>1, <2>2
<1>9. EndOnFrame'
  BY <1>8 DEF EndOnFrame, At
<1>10. synced => /\ Begins(log', wpos', count', prev', need') /\ need' = need
                 /\ Goes(need)
  BY <1>1, <1>3, <1>4 DEF InSync, At
<1>11. InSync'
  <2>1. ~synced' => lastSent' = 0
    BY <1>1, <1>3 DEF InSync
  <2>2. QED
    BY <1>3, <1>6, <1>7, <1>10, <2>1 DEF InSync, At, Goes
<1>12. Walking'
  <2>1. Len(fhs') = 0 /\ need' + 0 = need'
    BY <1>3, <1>6
  <2>2. synced' => Begins(log', wpos', count', cur', need' + Len(fhs'))
    BY <1>3, <1>10, <2>1
  <2>3. \E e \in need'..Published' :
           Begins(log', wpos', count', end', e) /\ need' + Len(fhs') <= e
    BY <1>6, <1>8, <2>1
  <2>4. end' = 0 => cur' # 0
    BY <1>3
  <2>5. QED
    BY <2>1, <2>2, <2>3, <2>4 DEF Walking, At
<1>13. QED
  BY <1>7, <1>9, <1>11, <1>12 DEF Aligned, Tracking

(* One header further is one frame further, or the sync is lost.           *)
LEMMA WalkAligned ==
    ASSUME TypeOK, SlotFree, Aligned, WalkHeader PROVE Aligned'
<1>1. LogRight /\ NeedKept /\ TableRight /\ InSync /\ EndOnFrame /\ Walking
  BY DEF Aligned, Tracking
<1> DEFINE n == Len(fhs)
           c == need + n
<1>2. /\ need \in Nat /\ Published \in Nat /\ count \in Nat /\ Published <= count + 1
      /\ n \in Nat /\ c \in Int /\ c >= need /\ cur \in Ptr /\ end \in 0..(N - 1)
      /\ fhs \in Seq(Headers) /\ N \in Nat /\ idx < N /\ end < N
  BY <1>1, ReaderTypes, RingAssumption DEF TableRight
<1>3. /\ pc = "walk" /\ cur # end /\ pc' \in {"walk", "lost"}
      /\ idx' = idx /\ end' = end /\ prev' = prev /\ lastSent' = lastSent
      /\ skipped' = skipped /\ synced' = synced /\ need' = need /\ UNCHANGED writerVars
  BY DEF WalkHeader
<1>4. log' = log /\ wpos' = wpos /\ count' = count
  BY <1>3 DEF writerVars
<1>5. LogRight' /\ NeedKept' /\ TableRight' /\ Published' = Published
  BY <1>1, <1>2, <1>3, ReaderKeeps
<1>6. InSync'
  BY <1>1, <1>3, <1>4, <1>5 DEF InSync, At, Goes
<1>7. EndOnFrame'
  BY <1>1, <1>3, <1>4, <1>5 DEF EndOnFrame, At
<1>8. PICK h \in HeaderAt(cur) :
          IF h.len > N - H
          THEN pc' = "lost" /\ UNCHANGED <<fhs, cur>>
          ELSE /\ fhs' = Append(fhs, [at |-> cur, len |-> h.len, counter |-> h.counter])
               /\ cur' = CbMove(cur, h.len + H)
               /\ pc' = IF Len(fhs') = MaxBatch THEN "lost" ELSE "walk"
  BY DEF WalkHeader
<1>9. ASSUME pc' = "walk" PROVE Walking'
  <2> DEFINE r == [at |-> cur, len |-> h.len, counter |-> h.counter]
  <2>1. h.len <= N - H /\ h.len \in 0..N
    BY <1>8, <1>9, HeaderTypes, RingAssumption
  <2>2. fhs' = Append(fhs, r) /\ cur' = CbMove(cur, h.len + H)
    BY <1>8, <1>9
  <2>3. cur' # 0
    <3>1. h.len + H \in Ptr /\ h.len + H > 0
      BY <2>1, RingAssumption DEF Ptr
    <3>2. QED
      BY <1>2, <2>2, <3>1, NextPlace
  <2>4. /\ Len(fhs') = n + 1 /\ fhs'[n + 1] = r
        /\ \A i \in 1..n : fhs'[i] = fhs[i]
    BY <1>2, <2>2
  <2>5. ASSUME synced, end # 0
        PROVE  /\ Begins(log', wpos', count', cur', need' + Len(fhs'))
               /\ \E e \in need'..Published' :
                     Begins(log', wpos', count', end', e) /\ need' + Len(fhs') <= e
               /\ \A i \in 1..Len(fhs') :
                     /\ Begins(log', wpos', count', fhs'[i].at, need' + i - 1)
                     /\ fhs'[i].counter = need' + i - 1
    <3>1. /\ At(cur, c)
          /\ \A i \in 1..n : At(fhs[i].at, need + i - 1) /\ fhs[i].counter = need + i - 1
      BY <1>1, <1>3, <2>5 DEF Walking
    <3>2. PICK e \in need..Published : At(end, e) /\ c <= e
      BY <1>1, <1>3, <2>5 DEF Walking
    <3>3. c # e
      <4>1. SUFFICES ASSUME c = e PROVE FALSE
        OBVIOUS
      <4>2. cur % N = end % N
        BY <1>1, <1>2, <3>1, <3>2, <4>1, SamePlace
      <4>3. end % N = end /\ cur % N = IF cur = N THEN 0 ELSE cur
        BY <1>2, InRing, PtrMod
      <4>4. QED
        BY <1>3, <2>5, <4>2, <4>3
    <3>4. c + 1 <= e /\ c <= count /\ need' + Len(fhs') = c + 1
      BY <1>2, <1>3, <2>4, <3>2, <3>3
    <3>5. h.counter = c /\ At(CbMove(cur, h.len + H), c + 1)
      BY <1>1, <1>2, <3>1, <3>4, OnToNext
    <3>6. Begins(log', wpos', count', cur', need' + Len(fhs'))
      BY <1>4, <2>2, <3>4, <3>5 DEF At
    <3>7. Begins(log', wpos', count', end', e) /\ e \in need'..Published'
      BY <1>3, <1>4, <1>5, <3>2 DEF At
    <3>8. ASSUME NEW i \in 1..Len(fhs')
          PROVE  /\ Begins(log', wpos', count', fhs'[i].at, need' + i - 1)
                 /\ fhs'[i].counter = need' + i - 1
      <4>1. CASE i = n + 1
        <5>1. need' + i - 1 = c /\ fhs'[i].at = cur /\ fhs'[i].counter = c
          BY <1>2, <1>3, <2>4, <3>5, <4>1
        <5>2. QED
          BY <1>4, <3>1, <5>1 DEF At
      <4>2. CASE i # n + 1
        <5>1. i \in 1..n /\ fhs'[i] = fhs[i]
          BY <1>2, <2>4, <4>2
        <5>2. QED
          BY <1>3, <1>4, <3>1, <5>1 DEF At
      <4>3. QED
        BY <4>1, <4>2
    <3>9. QED
      BY <3>4, <3>6, <3>7, <3>8
  <2>6. QED
    BY <1>3, <2>3, <2>5 DEF Walking, At
<1>10. pc' # "walk" => Walking'
  BY DEF Walking
<1>11. QED
  BY <1>5, <1>6, <1>7, <1>9, <1>10 DEF Aligned, Tracking

(* The reader gives up what it has not passed and begins at the end.       *)
LEMMA ResyncAligned ==
    ASSUME TypeOK, SlotFree, Aligned, Resync PROVE Aligned'
<1>1. LogRight /\ NeedKept /\ TableRight /\ InSync /\ EndOnFrame
  BY DEF Aligned, Tracking
<1>2. /\ need \in Nat /\ need >= 1 /\ Published \in Nat /\ idx < N /\ end < N
      /\ lastSent \in Nat
  BY <1>1, ReaderTypes DEF TableRight
<1>3. /\ pc = "lost" /\ pc' = "start" /\ prev' = end /\ synced' = TRUE /\ skipped' = TRUE
      /\ need' = FirstNeeded(end) /\ idx' = idx /\ end' = end /\ lastSent' = lastSent
      /\ UNCHANGED writerVars
  BY DEF Resync
<1>4. log' = log /\ wpos' = wpos /\ count' = count
  BY <1>3 DEF writerVars
<1>5. PICK e \in need..Published : At(end, e)
  BY <1>1, <1>3 DEF EndOnFrame
<1>6. need' = e /\ e \in Int /\ e >= need
  BY <1>1, <1>2, <1>3, <1>5, OneFrameAt
<1>7. LogRight' /\ NeedKept' /\ TableRight' /\ Published' = Published
  <2>1. need' \in Int /\ need' >= need
    BY <1>6
  <2>2. idx' < N /\ end' < N
    BY <1>2, <1>3
  <2>3. QED
    BY <1>1, <1>3, <2>1, <2>2, ReaderKeeps
<1>8. lastSent < e
  BY <1>1, <1>2, <1>3, <1>6 DEF InSync, Goes
<1>9. Begins(log', wpos', count', prev', need')
  BY <1>3, <1>4, <1>5, <1>6 DEF At
<1>10. need' <= Published'
  BY <1>2, <1>5, <1>6, <1>7
<1>11. InSync'
  BY <1>3, <1>6, <1>8, <1>9, <1>10 DEF InSync, At, Goes
<1>12. EndOnFrame' /\ Walking'
  BY <1>3 DEF EndOnFrame, Walking
<1>13. QED
  BY <1>7, <1>11, <1>12 DEF Aligned, Tracking

(* All frames of a walk but the newest are next, and the newest is where   *)
(* the reader stays.                                                       *)
LEMMA WalkDoneAligned ==
    ASSUME TypeOK, SlotFree, Aligned, WalkDone PROVE Aligned'
<1>1. LogRight /\ NeedKept /\ TableRight /\ InSync /\ Walking
  BY DEF Aligned, Tracking
<1> DEFINE n == Len(fhs)
           m == need + n - 1
<1>2. /\ need \in Nat /\ need >= 1 /\ Published \in Nat /\ idx < N /\ end < N
      /\ n \in Nat /\ fhs \in Seq(Headers)
  BY <1>1, ReaderTypes DEF TableRight
<1>3. /\ pc = "walk" /\ cur = end /\ n > 1 /\ pc' = "send" /\ prev' = fhs[n].at
      /\ fhs' = SubSeq(fhs, 1, n - 1)
      /\ idx' = idx /\ end' = end /\ lastSent' = lastSent /\ skipped' = skipped
      /\ synced' = synced /\ need' = need /\ UNCHANGED writerVars
  BY DEF WalkDone
<1>4. log' = log /\ wpos' = wpos /\ count' = count
  BY <1>3 DEF writerVars
<1>5. LogRight' /\ NeedKept' /\ TableRight' /\ Published' = Published
  BY <1>1, <1>2, <1>3, ReaderKeeps
<1>6. Len(fhs') = n - 1 /\ \A i \in 1..(n - 1) : fhs'[i] = fhs[i]
  <2>1. SubSeq(fhs, 1, n - 1) = [i \in 1..(n - 1) |-> fhs[i]]
        /\ Len(SubSeq(fhs, 1, n - 1)) = n - 1
    BY <1>2, <1>3
  <2>2. QED
    BY <1>3, <2>1
<1>7. EndOnFrame' /\ Walking'
  BY <1>3 DEF EndOnFrame, Walking
<1>8. ASSUME synced
      PROVE  /\ need' <= Published'
             /\ \E x \in need'..Published' :
                  /\ Begins(log', wpos', count', prev', x)
                  /\ lastSent' < x - Len(fhs')
                  /\ lastSent' # 0 /\ ~skipped' => lastSent' + 1 = x - Len(fhs')
                  /\ x - Len(fhs') >= 1
                  /\ \A i \in 1..Len(fhs') : fhs'[i].counter = x - Len(fhs') + i - 1
  <2>1. end # 0
    BY <1>1, <1>3 DEF Walking
  <2>2. /\ \A i \in 1..n : At(fhs[i].at, need + i - 1) /\ fhs[i].counter = need + i - 1
        /\ \E e \in need..Published : At(end, e) /\ need + n <= e
    BY <1>1, <1>3, <1>8, <2>1 DEF Walking
  <2>3. m \in need..Published /\ m - (n - 1) = need /\ n \in 1..n
    BY <1>2, <1>3, <2>2
  <2>4. Begins(log', wpos', count', prev', m)
    BY <1>3, <1>4, <2>2, <2>3 DEF At
  <2>5. lastSent < need /\ (lastSent # 0 /\ ~skipped => lastSent + 1 = need)
    BY <1>1, <1>3, <1>8 DEF InSync, Goes
  <2>6. m - Len(fhs') = need
    BY <1>6, <2>3
  <2>7. \A i \in 1..Len(fhs') : fhs'[i].counter = need + i - 1
    BY <1>2, <1>6, <2>2
  <2>8. m \in need'..Published' /\ need' <= Published'
    BY <1>1, <1>3, <1>5, <1>8, <2>3 DEF InSync
  <2>9. QED
    BY <1>2, <1>3, <2>4, <2>5, <2>6, <2>7, <2>8
<1>9. InSync'
  <2>1. ~synced' => lastSent' = 0
    BY <1>1, <1>3 DEF InSync
  <2>2. QED
    BY <1>3, <1>8, <2>1 DEF InSync, At, Goes
<1>10. QED
  BY <1>5, <1>7, <1>9 DEF Aligned, Tracking

(* What is handed on is the next frame, and the one after it is next then. *)
LEMMA SendAligned ==
    ASSUME TypeOK, SlotFree, Aligned, Send PROVE Aligned'
<1>1. LogRight /\ NeedKept /\ TableRight /\ InSync
  BY DEF Aligned, Tracking
<1> DEFINE n == Len(fhs)
<1>2. /\ need \in Nat /\ Published \in Nat /\ idx < N /\ end < N /\ lastSent \in Nat
      /\ n \in Nat /\ fhs \in Seq(Headers)
  BY <1>1, ReaderTypes DEF TableRight
<1>3. /\ pc = "send" /\ fhs # <<>> /\ pc' = "send"
      /\ lastSent' = (IF synced THEN Head(fhs).counter ELSE lastSent)
      /\ skipped' = FALSE /\ fhs' = Tail(fhs)
      /\ idx' = idx /\ end' = end /\ prev' = prev
      /\ synced' = synced /\ need' = need /\ UNCHANGED writerVars
  BY DEF Send
<1>4. log' = log /\ wpos' = wpos /\ count' = count
  BY <1>3 DEF writerVars
<1>5. LogRight' /\ NeedKept' /\ TableRight' /\ Published' = Published
  BY <1>1, <1>2, <1>3, ReaderKeeps
<1>6. /\ n >= 1 /\ Head(fhs) = fhs[1] /\ Len(fhs') = n - 1
      /\ \A i \in 1..(n - 1) : fhs'[i] = fhs[i + 1]
  BY <1>2, <1>3
<1>7. EndOnFrame' /\ Walking'
  BY <1>3 DEF EndOnFrame, Walking
<1>8. ASSUME synced
      PROVE  /\ need' <= Published'
             /\ \E x \in need'..Published' :
                  /\ Begins(log', wpos', count', prev', x)
                  /\ lastSent' + 1 = x - Len(fhs')
                  /\ lastSent' \in Int
                  /\ x - Len(fhs') >= 1
                  /\ \A i \in 1..Len(fhs') : fhs'[i].counter = x - Len(fhs') + i - 1
  <2>1. PICK m \in need..Published :
            /\ At(prev, m) /\ m - n >= 1
            /\ \A i \in 1..n : fhs[i].counter = m - n + i - 1
    BY <1>1, <1>3, <1>8 DEF InSync
  <2>2. m \in Int /\ 1 \in 1..n /\ lastSent' = m - n
    <3>1. m \in Int /\ 1 \in 1..n
      BY <1>2, <1>6
    <3>2. fhs[1].counter = m - n + 1 - 1
      BY <2>1, <3>1
    <3>3. QED
      BY <1>2, <1>3, <1>6, <1>8, <3>1, <3>2
  <2>3. m - Len(fhs') = m - n + 1 /\ m - n + 1 = lastSent' + 1 /\ m - n + 1 >= 1
    BY <1>2, <1>6, <2>1, <2>2
  <2>4. ASSUME NEW i \in 1..Len(fhs')
        PROVE  fhs'[i].counter = m - Len(fhs') + i - 1
    <3>1. i + 1 \in 1..n /\ i \in 1..(n - 1)
      BY <1>2, <1>6
    <3>2. fhs'[i].counter = m - n + (i + 1) - 1
      BY <1>6, <2>1, <3>1
    <3>3. m - n + (i + 1) - 1 = m - n + 1 + i - 1
      BY <1>2, <2>2
    <3>4. QED
      BY <2>3, <3>2, <3>3
  <2>5. Begins(log', wpos', count', prev', m)
    BY <1>3, <1>4, <2>1 DEF At
  <2>6. m \in need'..Published' /\ need' <= Published'
    BY <1>1, <1>3, <1>5, <1>8 DEF InSync
  <2>7. lastSent' \in Int
    BY <1>2, <2>2
  <2>8. QED
    BY <2>3, <2>4, <2>5, <2>6, <2>7
<1>9. InSync'
  <2>1. ~synced' => lastSent' = 0
    BY <1>1, <1>3 DEF InSync
  <2>2. synced' => \E x \in need'..Published' :
            /\ Begins(log', wpos', count', prev', x)
            /\ lastSent' < x - Len(fhs')
            /\ lastSent' # 0 /\ ~skipped' => lastSent' + 1 = x - Len(fhs')
            /\ x - Len(fhs') >= 1
            /\ \A i \in 1..Len(fhs') : fhs'[i].counter = x - Len(fhs') + i - 1
    <3> SUFFICES ASSUME synced
                 PROVE  \E x \in need'..Published' :
            /\ Begins(log', wpos', count', prev', x)
            /\ lastSent' < x - Len(fhs')
            /\ lastSent' # 0 /\ ~skipped' => lastSent' + 1 = x - Len(fhs')
            /\ x - Len(fhs') >= 1
            /\ \A i \in 1..Len(fhs') : fhs'[i].counter = x - Len(fhs') + i - 1
      BY <1>3
    <3>1. PICK x \in need'..Published' :
            /\ Begins(log', wpos', count', prev', x)
            /\ lastSent' + 1 = x - Len(fhs') /\ lastSent' \in Int
            /\ x - Len(fhs') >= 1
            /\ \A i \in 1..Len(fhs') : fhs'[i].counter = x - Len(fhs') + i - 1
      BY <1>8
    <3>2. lastSent' < x - Len(fhs')
      BY <3>1
    <3>3. QED
      BY <3>1, <3>2
  <2>3. QED
    BY <1>3, <1>8, <2>1, <2>2 DEF InSync, At, Goes
<1>10. QED
  BY <1>5, <1>7, <1>9 DEF Aligned, Tracking

LEMMA PassAligned ==
    ASSUME TypeOK, SlotFree, Aligned, PassOver PROVE Aligned'
<1>1. LogRight /\ NeedKept /\ TableRight /\ InSync
  BY DEF Aligned, Tracking
<1>2. /\ need \in Nat /\ need <= MaxFrames + 1 /\ MaxFrames \in Nat /\ Published \in Nat
      /\ idx < N /\ end < N
  BY <1>1, ReaderTypes DEF TableRight
<1>3. /\ pc = "send" /\ fhs = <<>> /\ pc' = "start"
      /\ need' = (IF synced THEN FirstNeeded(prev) ELSE MaxFrames + 1)
      /\ idx' = idx /\ end' = end /\ prev' = prev /\ lastSent' = lastSent
      /\ skipped' = skipped /\ synced' = synced /\ UNCHANGED writerVars
  BY DEF PassOver
<1>4. log' = log /\ wpos' = wpos /\ count' = count
  BY <1>3 DEF writerVars
<1>5. ASSUME synced
      PROVE  /\ need' \in need..Published /\ Begins(log', wpos', count', prev', need')
             /\ Goes(need')
  <2>1. PICK m \in need..Published : At(prev, m) /\ Goes(m - Len(fhs))
    BY <1>1, <1>3, <1>5 DEF InSync
  <2>2. Len(fhs) = 0 /\ m - 0 = m /\ m \in Int /\ m >= need
    BY <1>2, <1>3
  <2>3. FirstNeeded(prev) = m
    BY <1>1, <2>1, <2>2, OneFrameAt
  <2>4. need' = m
    BY <1>3, <1>5, <2>3
  <2>5. QED
    BY <1>3, <1>4, <2>1, <2>2, <2>4 DEF At
<1>6. need' \in Int /\ need' >= need
  <2>1. CASE synced
    BY <1>2, <1>5, <2>1
  <2>2. CASE ~synced
    BY <1>2, <1>3, <2>2
  <2>3. QED
    BY <2>1, <2>2
<1>7. LogRight' /\ NeedKept' /\ TableRight' /\ Published' = Published
  BY <1>1, <1>2, <1>3, <1>6, ReaderKeeps
<1>8. InSync'
  <2>1. ~synced' => lastSent' = 0
    BY <1>1, <1>3 DEF InSync
  <2>2. synced' => need' <= Published'
    BY <1>3, <1>5, <1>7
  <2>3. QED
    BY <1>3, <1>5, <2>1, <2>2 DEF InSync, At, Goes
<1>9. EndOnFrame' /\ Walking'
  BY <1>3 DEF EndOnFrame, Walking
<1>10. QED
  BY <1>7, <1>8, <1>9 DEF Aligned, Tracking

LEMMA StepAligned == IInv /\ Aligned /\ [Next]_vars => Aligned'
<1> SUFFICES ASSUME IInv, Aligned, [Next]_vars PROVE Aligned'
  OBVIOUS
<1>1. TypeOK /\ SlotFree
  BY DEF IInv
<1>2. CASE Camera
  BY <1>1, <1>2, CameraAligned
<1>3. CASE Reader
  BY <1>1, <1>3, BootAligned, CheckAligned, WalkAligned, ResyncAligned,
     WalkDoneAligned, SendAligned, PassAligned DEF Reader
<1>4. CASE UNCHANGED vars
  <2>1. /\ UNCHANGED writerVars /\ UNCHANGED readerVars
        /\ idx' = idx /\ end' = end /\ need' = need
    BY <1>4 DEF vars, readerVars
  <2>2. LogRight /\ NeedKept /\ TableRight /\ Tracking
    BY DEF Aligned
  <2>3. idx < N /\ end < N /\ need \in Int /\ Published \in Int
    BY <1>1, <2>2, ReaderTypes DEF TableRight
  <2>4. LogRight' /\ NeedKept' /\ TableRight' /\ Published' = Published
    BY <1>1, <2>1, <2>2, <2>3, ReaderKeeps
  <2>5. \A p, c : c \in Int /\ c >= need /\ At(p, c) => At(p, c)'
    BY <2>1 DEF At, writerVars
  <2>6. Tracking'
    BY <1>1, <2>1, <2>2, <2>3, <2>4, <2>5, TrackingStays
  <2>7. QED
    BY <2>4, <2>6 DEF Aligned
<1>5. QED
  BY <1>2, <1>3, <1>4 DEF Next

(* The invariant of the capture loop holds always.                         *)
THEOREM Invariance == Spec => []IInv
<1>1. QED
  BY InitIInv, StepIInv, PTL DEF Spec

(* No pointer of capture() leaves the ring and no header is written past   *)
(* the last slot of fhs[], whatever the table and the headers hold.        *)
THEOREM TypeCorrect == Spec => []TypeOK
<1>1. IInv => TypeOK
  BY DEF IInv
<1>2. QED
  BY <1>1, Invariance, PTL

(* Copies, header reads and comparisons take the bytes that follow in the  *)
(* ring, wherever capture() stands.                                        *)
THEOREM CopiesAlwaysWrap == Spec => []CopiesWrap
<1>1. TypeOK => CopiesWrap
  BY CbBytesRight DEF CopiesWrap, TypeOK, Ptr
<1>2. QED
  BY <1>1, TypeCorrect, PTL

(* The reader and the camera agree about where each frame begins.          *)
THEOREM AlignedInvariance == Spec => []Aligned
<1>1. QED
  BY InitAligned, StepAligned, Invariance, PTL DEF Spec

(* A reader in sync stands at a frame, and hands on no header but that of  *)
(* a frame, whatever it reads of the table while the camera changes it.    *)
THEOREM FramesAligned == Spec => []StaysAligned
<1>1. IInv /\ Aligned => StaysAligned
  <2> SUFFICES ASSUME IInv, Aligned, synced
               PROVE  /\ OnFrame(prev)
                      /\ pc = "send" => \A i \in 1..Len(fhs) : fhs[i].counter # 0
    BY DEF StaysAligned
  <2>1. TypeOK /\ SlotFree /\ LogRight /\ NeedKept /\ TableRight /\ InSync
    BY DEF IInv, Aligned, Tracking
  <2>2. need \in Nat /\ Published \in Nat /\ Len(fhs) \in Nat
    BY <2>1, ReaderTypes
  <2>3. CASE pc # "send"
    BY <2>1, <2>2, <2>3, OneFrameAt DEF InSync
  <2>4. CASE pc = "send"
    <3>1. PICK m \in need..Published :
              /\ At(prev, m) /\ m - Len(fhs) >= 1
              /\ \A i \in 1..Len(fhs) : fhs[i].counter = m - Len(fhs) + i - 1
      BY <2>1, <2>4 DEF InSync
    <3>2. m \in Int /\ m >= need
      BY <2>2
    <3>3. OnFrame(prev)
      BY <2>1, <3>1, <3>2, OneFrameAt
    <3>4. \A i \in 1..Len(fhs) : m - Len(fhs) + i - 1 # 0
      BY <2>2, <3>1, <3>2
    <3>5. QED
      BY <3>1, <3>3, <3>4
  <2>5. QED
    BY <2>3, <2>4
<1>2. QED
  BY <1>1, Invariance, AlignedInvariance, PTL

(* No frame is handed on twice or before an older one.                     *)
THEOREM OrderKept == Spec => []SentInOrder
<1>1. IInv /\ Aligned => SentInOrder
  <2> SUFFICES ASSUME IInv, Aligned, synced, pc = "send", fhs # <<>>
               PROVE  Head(fhs).counter > lastSent
    BY DEF SentInOrder
  <2>1. TypeOK /\ SlotFree /\ LogRight /\ NeedKept /\ TableRight /\ InSync
    BY DEF IInv, Aligned, Tracking
  <2>2. /\ need \in Nat /\ Published \in Nat /\ Len(fhs) \in Nat /\ lastSent \in Nat
        /\ fhs \in Seq(Headers)
    BY <2>1, ReaderTypes
  <2>3. PICK m \in need..Published :
            /\ Goes(m - Len(fhs))
            /\ \A i \in 1..Len(fhs) : fhs[i].counter = m - Len(fhs) + i - 1
    BY <2>1 DEF InSync
  <2>4. 1 \in 1..Len(fhs) /\ Head(fhs) = fhs[1]
    BY <2>2
  <2>5. Head(fhs).counter = m - Len(fhs)
    BY <2>2, <2>3, <2>4
  <2>6. QED
    BY <2>2, <2>3, <2>5 DEF Goes
<1>2. QED
  BY <1>1, Invariance, AlignedInvariance, PTL

(* Between two frames handed on none is missing, unless a                  *)
(* resynchronisation gave it up.                                           *)
THEOREM NothingSkipped == Spec => NoSilentLoss
<1>1. IInv /\ Aligned /\ [Next]_vars
         => [lastSent' # lastSent /\ lastSent # 0 /\ ~skipped => lastSent' = lastSent + 1]_vars
  <2> SUFFICES ASSUME IInv, Aligned, [Next]_vars,
                      lastSent' # lastSent, lastSent # 0, ~skipped
               PROVE  lastSent' = lastSent + 1
    OBVIOUS
  <2>1. TypeOK /\ SlotFree /\ LogRight /\ NeedKept /\ TableRight /\ InSync
    BY DEF IInv, Aligned, Tracking
  <2>2. Send
    BY DEF Next, Camera, Reader, vars, readerVars, WriteFrame, Publish, BootStart,
           BootLen, ReadStart, ReadLen, CheckFails, CheckPasses, WalkHeader, Resync,
           WalkAlone, WalkDone, PassOver
  <2>3. /\ pc = "send" /\ fhs # <<>> /\ synced /\ lastSent' = Head(fhs).counter
    BY <2>2 DEF Send
  <2>4. /\ need \in Nat /\ Published \in Nat /\ Len(fhs) \in Nat /\ lastSent \in Nat
        /\ fhs \in Seq(Headers)
    BY <2>1, ReaderTypes
  <2>5. PICK m \in need..Published :
            /\ Goes(m - Len(fhs))
            /\ \A i \in 1..Len(fhs) : fhs[i].counter = m - Len(fhs) + i - 1
    BY <2>1, <2>3 DEF InSync
  <2>6. 1 \in 1..Len(fhs) /\ Head(fhs) = fhs[1]
    BY <2>3, <2>4
  <2>7. Head(fhs).counter = m - Len(fhs)
    BY <2>4, <2>5, <2>6
  <2>8. lastSent + 1 = m - Len(fhs)
    BY <2>5 DEF Goes
  <2>9. QED
    BY <2>3, <2>7, <2>8
<1>2. QED
  BY <1>1, Invariance, AlignedInvariance, PTL DEF Spec, NoSilentLoss
=============================================================================
