--------------------------- MODULE H264GrabberProofs ---------------------------
(***************************************************************************)
(* What h264grabber writes can be decoded: for any options, any size of    *)
(* the ring, of a batch and of the pipes, and however long readers wait,   *)
(* come or go.                                                             *)
(***************************************************************************)
EXTENDS H264Grabber, SequenceTheorems, TLAPS

VideoStreams == {"low", "high"}

(* The ring and the walk: what is to be handled is in the ring's log, in   *)
(* the order of the camera, and before the frame that is next.             *)
Walked == /\ \A i \in 1..Len(log) : log[i].sps => log[i].s # "aac"
          /\ next <= Len(log) + 1
          /\ \A k \in 1..Len(todo) : /\ todo[k] < next
                                     /\ \A l \in 1..(k - 1) : todo[l] < todo[k]
          /\ pc = "write" => /\ item.n < next
                             /\ \A k \in 1..Len(todo) : item.n < todo[k]

(* What was written is older than all of that, and in order.               *)
InOrder == \A s \in Streams : \A i \in 1..Len(pipe[s]) :
              /\ pipe[s][i].n < next
              /\ \A k \in 1..Len(todo) : pipe[s][i].n < todo[k]
              /\ pc = "write" => pipe[s][i].n < item.n
              /\ \A j \in 1..(i - 1) : pipe[s][j].n < pipe[s][i].n

(* An item is of a stream that is wanted, of which the codec is known, and *)
(* an SPS is that of the codec.                                            *)
Fits(x, s) == /\ x.s = s
              /\ x.sps => x.size = codec[s].size /\ s # "aac"
              /\ s # "aac" => codec[s] # NoType
Fitting == /\ \A s \in Streams : codec[s] \in TypesOf(s) \cup {NoType}
           /\ pc = "write" => Wants(opts, item.s) /\ item.s \in Streams /\ Fits(item, item.s)
           /\ \A s \in Streams : \A i \in 1..Len(pipe[s]) : Fits(pipe[s][i], s)

(* The first item of a video stream is the SPS its codec was found in: it  *)
(* is not dropped, since the thread holds the FIFO until it has read.      *)
Begun == \A s \in Streams :
    /\ pipe[s] # <<>> => first[s] # "nothing"
    /\ pc \in {"idle", "send", "write"} /\ Wants(opts, s) => s \in opened
    /\ opts.fifo /\ s \in opened /\ first[s] = "nothing" => s \in unlock
    /\ s # "aac" /\ Wants(opts, s) /\ pc # "ended" /\ codec[s] # NoType /\ first[s] = "nothing"
         => pc = "write" /\ item.s = s /\ item.sps
    /\ first[s] = "frame" => s = "aac"

GrabIInv == TypeOK /\ Walked /\ InOrder /\ Fitting /\ Begun

-----------------------------------------------------------------------------
LEMMA SeqElements ==
    ASSUME NEW S, NEW q \in Seq(S)
    PROVE  Len(q) \in Nat /\ \A i \in 1..Len(q) : q[i] \in S
  OBVIOUS

(* Sequences: what Append, Tail and SubSeq leave where.                    *)
LEMMA AppendElements ==
    ASSUME NEW S, NEW q \in Seq(S), NEW x \in S
    PROVE  /\ Append(q, x) \in Seq(S) /\ Len(Append(q, x)) = Len(q) + 1
           /\ \A i \in 1..Len(q) : Append(q, x)[i] = q[i]
           /\ Append(q, x)[Len(q) + 1] = x
  OBVIOUS

LEMMA TailElements ==
    ASSUME NEW S, NEW q \in Seq(S), q # <<>>
    PROVE  /\ Head(q) = q[1] /\ 1 \in 1..Len(q) /\ Tail(q) \in Seq(S)
           /\ Len(Tail(q)) = Len(q) - 1
           /\ \A i \in 1..Len(Tail(q)) : i + 1 \in 1..Len(q) /\ Tail(q)[i] = q[i + 1]
  OBVIOUS

LEMMA SubSeqElements ==
    ASSUME NEW S, NEW q \in Seq(S), NEW k \in 0..Len(q)
    PROVE  /\ SubSeq(q, k + 1, Len(q)) \in Seq(S)
           /\ Len(SubSeq(q, k + 1, Len(q))) = Len(q) - k
           /\ \A i \in 1..(Len(q) - k) : SubSeq(q, k + 1, Len(q))[i] = q[i + k]
  OBVIOUS

-----------------------------------------------------------------------------
LEMMA SizeTypes ==
    /\ \A t \in LowTypes \cup HighTypes \cup {NoType} : t.size \in Sizes
    /\ \A t \in LowTypes : t.size = 360
    /\ NoType \notin LowTypes \cup HighTypes
  BY DEF LowTypes, HighTypes, NoType, Sizes

(* The header that is written fits the codec, from whichever table.        *)
LEMMA TimedFits ==
    ASSUME NEW s \in Streams, NEW t \in TypesOf(s), s # "aac"
    PROVE  Timed(s, t) \in {0, t.size}
<1>1. CASE s = "low"
  BY <1>1, SizeTypes DEF Timed, TypesOf
<1>2. CASE s = "high"
  BY <1>2 DEF Timed
<1>3. QED
  BY <1>1, <1>2 DEF Streams

LEMMA NoItemType == NoItem \in Item
  BY GrabberAssumption DEF NoItem, Item, Numbers, Sizes

LEMMA InitIInv == Init => GrabIInv
<1> SUFFICES ASSUME Init PROVE GrabIInv
  OBVIOUS
<1> USE GrabberAssumption DEF Init
<1>1. TypeOK
  <2>1. log \in Seq(Entry) /\ todo \in Seq(1..MaxFrames) /\ \A s \in Streams : pipe[s] \in Seq(Item)
    OBVIOUS
  <2>2. Len(log) = 0 /\ Len(todo) = 0 /\ \A s \in Streams : Len(pipe[s]) = 0
    OBVIOUS
  <2>3. QED
    BY <2>1, <2>2, NoItemType DEF TypeOK
<1>2. Walked /\ InOrder /\ Fitting
  BY DEF Walked, InOrder, Fitting, Fits
<1>3. Begun
  BY DEF Begun
<1>4. QED
  BY <1>1, <1>2, <1>3 DEF GrabIInv

-----------------------------------------------------------------------------
(* What the steps that hand frames on do, in terms of elements.            *)
LEMMA Types ==
    ASSUME TypeOK
    PROVE  /\ log \in Seq(Entry) /\ Len(log) \in Nat /\ Len(log) <= MaxFrames
           /\ todo \in Seq(1..MaxFrames) /\ Len(todo) \in Nat
           /\ \A k \in 1..Len(todo) : todo[k] \in 1..MaxFrames
           /\ \A s \in Streams : pipe[s] \in Seq(Item) /\ Len(pipe[s]) \in Nat
           /\ \A s \in Streams : \A i \in 1..Len(pipe[s]) : pipe[s][i] \in Item
           /\ next \in Nat /\ item \in Item
           /\ item.n \in Nat /\ MaxFrames \in Nat /\ MaxBatch \in Nat
           /\ codec \in [Streams -> LowTypes \cup HighTypes \cup {NoType}]
           /\ \A i \in 1..Len(log) : log[i].s \in Streams /\ log[i].sps \in BOOLEAN
<1>1. log \in Seq(Entry) /\ Len(log) \in Nat /\ Len(log) <= MaxFrames
      /\ \A i \in 1..Len(log) : log[i].s \in Streams /\ log[i].sps \in BOOLEAN
  <2>1. log \in Seq(Entry) /\ Len(log) <= MaxFrames
    BY DEF TypeOK
  <2>2. Len(log) \in Nat /\ \A i \in 1..Len(log) : log[i] \in Entry
    BY ONLY <2>1, SeqElements
  <2>3. QED
    BY <2>1, <2>2 DEF Entry
<1>2. todo \in Seq(1..MaxFrames) /\ Len(todo) \in Nat
      /\ \A k \in 1..Len(todo) : todo[k] \in 1..MaxFrames
  <2>1. todo \in Seq(1..MaxFrames)
    BY DEF TypeOK
  <2>2. QED
    BY ONLY <2>1, SeqElements
<1>3. /\ \A s \in Streams : pipe[s] \in Seq(Item) /\ Len(pipe[s]) \in Nat
      /\ \A s \in Streams : \A i \in 1..Len(pipe[s]) : pipe[s][i] \in Item
  <2>1. \A s \in Streams : pipe[s] \in Seq(Item)
    BY DEF TypeOK
  <2>2. QED
    BY ONLY <2>1, SeqElements
<1>4. next \in Nat /\ item.n \in Nat /\ MaxFrames \in Nat /\ MaxBatch \in Nat
  BY GrabberAssumption DEF TypeOK, Numbers, Item
<1>5. /\ item \in Item
      /\ codec \in [Streams -> LowTypes \cup HighTypes \cup {NoType}]
  BY DEF TypeOK
<1>6. QED
  BY <1>1, <1>2, <1>3, <1>4, <1>5

(* A walk takes up frames in the order of the camera, none of them before  *)
(* the one that was next, or nothing.                                      *)
LEMMA PassTakes ==
    ASSUME TypeOK, Walked, Pass
    PROVE  /\ next' \in next..(Len(log) + 1)
           /\ \/ todo' = todo /\ pc' = pc
              \/ \E g \in next..Len(log), n \in 1..(MaxBatch - 2) :
                    /\ g + n = next' /\ next' <= Len(log)
                    /\ todo' = [i \in 1..n |-> g + i - 1]
                    /\ pc' = "send"
<1>0. /\ Len(log) \in Nat /\ next \in Nat /\ MaxBatch \in Nat \ {0, 1} /\ next <= Len(log)
      /\ next >= 1 /\ Depth \in Nat /\ Oldest \in Nat
  BY GrabberAssumption DEF TypeOK, Pass, Oldest
<1>1. ASSUME NEW g \in next..Len(log), Walk(g)
      PROVE  /\ next' \in next..(Len(log) + 1)
             /\ \/ todo' = todo /\ pc' = pc
                \/ \E n \in 1..(MaxBatch - 2) :
                    /\ g + n = next' /\ next' <= Len(log)
                    /\ todo' = [i \in 1..n |-> g + i - 1]
                    /\ pc' = "send"
  <2> DEFINE n == Len(log) + 1 - g
  <2>1. CASE n >= MaxBatch
    BY <1>0, <1>1, <2>1 DEF Walk
  <2>2. CASE n < MaxBatch /\ n > 1
    <3>1. n - 1 \in 1..(MaxBatch - 2) /\ g + (n - 1) = Len(log) /\ Len(log) \in next..(Len(log) + 1)
      BY <1>0, <2>2
    <3>2. next' = Len(log) /\ pc' = "send" /\ todo' = [i \in 1..(n - 1) |-> g + i - 1]
      BY <1>0, <1>1, <2>2 DEF Walk
    <3> HIDE DEF n
    <3>3. QED
      BY <1>0, <3>1, <3>2
  <2>3. CASE ~(n >= MaxBatch) /\ ~(n < MaxBatch /\ n > 1)
    BY <1>0, <1>1, <2>3 DEF Walk
  <2>4. QED
    BY <2>1, <2>2, <2>3
<1>2. CASE \E g \in next..Len(log) : Walk(g)
  BY <1>1, <1>2
<1>3. CASE next' = Len(log) + 1 /\ UNCHANGED <<todo, pc>>
  BY <1>0, <1>3
<1>4. QED
  <2>1. ~Intact(next) => \A g \in Oldest..Len(log) : g \in next..Len(log)
    BY <1>0 DEF Intact
  <2>2. next \in next..Len(log)
    BY <1>0
  <2>3. QED
    BY <1>2, <1>3, <2>1, <2>2 DEF Pass

(* A frame that is taken up.                                               *)
LEMMA TakeUpTakes ==
    ASSUME TypeOK, Walked, Fitting, TakeUp
    PROVE  /\ todo' \in Seq(1..MaxFrames) /\ Len(todo') = Len(todo) - 1
           /\ \A i \in 1..Len(todo') : i + 1 \in 1..Len(todo) /\ todo'[i] = todo[i + 1]
           /\ codec' \in [Streams -> LowTypes \cup HighTypes \cup {NoType}]
           /\ \A s \in Streams : /\ codec'[s] \in TypesOf(s) \cup {NoType}
                                 /\ codec[s] # NoType => codec'[s] = codec[s]
           /\ \/ item' = item /\ pc' = pc
              \/ /\ pc' = "write"
                 /\ item' \in Item /\ item'.s \in Streams
                 /\ item'.n = todo[1] /\ 1 \in 1..Len(todo)
                 /\ Wants(opts, item'.s)
                 /\ item'.sps => item'.s # "aac" /\ item'.size = codec'[item'.s].size
                 /\ item'.s # "aac" => codec'[item'.s] # NoType
           /\ \A s \in Streams : codec[s] = NoType /\ codec'[s] # NoType /\ Wants(opts, s)
                => pc' = "write" /\ item'.s = s /\ item'.sps
<1> DEFINE f == log[Head(todo)]
<1>0. /\ todo \in Seq(1..MaxFrames) /\ todo # <<>> /\ pc = "send"
      /\ Detect(f.s, f) /\ todo' = Tail(todo)
      /\ IF GoesOut(f.s) THEN item' = Frame(f) /\ pc' = "write" ELSE UNCHANGED <<item, pc>>
  BY DEF TakeUp, TypeOK
<1>1. /\ Head(todo) = todo[1] /\ 1 \in 1..Len(todo) /\ todo' \in Seq(1..MaxFrames)
      /\ Len(todo') = Len(todo) - 1
      /\ \A i \in 1..Len(todo') : i + 1 \in 1..Len(todo) /\ todo'[i] = todo[i + 1]
  BY <1>0, TailElements
<1>2. Head(todo) \in 1..Len(log) /\ Head(todo) \in Numbers
  <2>1. todo[1] \in 1..MaxFrames /\ todo[1] < next /\ next <= Len(log) + 1
        /\ Len(log) \in Nat /\ next \in Nat /\ MaxFrames \in Nat
    BY <1>1, Types DEF Walked
  <2>2. QED
    BY <1>1, <2>1 DEF Numbers
<1>3. f.s \in Streams /\ f.sps \in BOOLEAN /\ (f.sps => f.s # "aac")
  <2>1. \A i \in 1..Len(log) : log[i].s \in Streams /\ log[i].sps \in BOOLEAN
                               /\ (log[i].sps => log[i].s # "aac")
    BY Types DEF Walked
  <2>2. QED
    BY <1>2, <2>1
<1>4. /\ codec' \in [Streams -> LowTypes \cup HighTypes \cup {NoType}]
      /\ \A s \in Streams : /\ codec'[s] \in TypesOf(s) \cup {NoType}
                            /\ codec[s] # NoType => codec'[s] = codec[s]
                            /\ codec'[s] # codec[s] => s = f.s /\ f.sps
  <2> HIDE DEF f
  <2>1. CASE UNCHANGED codec
    BY <2>1, Types DEF Fitting
  <2>2. CASE codec[f.s] = NoType /\ f.sps
             /\ \E t \in (TypesOf(f.s) \cap Known) \cup {NoType} :
                   codec' = [codec EXCEPT ![f.s] = t]
    <3>1. PICK t \in (TypesOf(f.s) \cap Known) \cup {NoType} : codec' = [codec EXCEPT ![f.s] = t]
      BY <2>2
    <3>2. t \in TypesOf(f.s) \cup {NoType} /\ t \in LowTypes \cup HighTypes \cup {NoType}
      BY <3>1 DEF TypesOf
    <3>3. QED
      BY <1>3, <2>2, <3>1, <3>2, Types DEF Fitting
  <2>3. QED
    BY <1>0, <2>1, <2>2 DEF Detect, f
<1>5. CASE ~GoesOut(f.s)
  <2>1. item' = item /\ pc' = pc
    BY <1>0, <1>5
  <2>2. ~Wants(opts, f.s) \/ codec'[f.s] = NoType
    BY <1>5 DEF GoesOut
  <2> HIDE DEF f
  <2>3. QED
    BY <1>1, <1>4, <2>1, <2>2
<1>6. CASE GoesOut(f.s)
  <2>1. item' = Frame(f) /\ pc' = "write"
    BY <1>0, <1>6
  <2>2. item'.n = todo[1] /\ item'.s = f.s /\ item'.sps = f.sps
    BY <1>1, <2>1 DEF Frame
  <2>3. Wants(opts, f.s) /\ (f.s # "aac" => codec'[f.s] # NoType)
    BY <1>6 DEF GoesOut
  <2>4. item'.size = IF opts.sti /\ f.sps /\ Timed(f.s, codec'[f.s]) # 0
          THEN Timed(f.s, codec'[f.s])
                     ELSE IF f.sps THEN codec'[f.s].size ELSE 0
    BY <2>1 DEF Frame
  <2>5. f.sps => item'.size = codec'[f.s].size
    <3> HIDE DEF f
    <3>1. f.sps => codec'[f.s] \in TypesOf(f.s) /\ f.s # "aac"
      BY <1>3, <1>4, <2>3
    <3>2. f.sps => Timed(f.s, codec'[f.s]) \in {0, codec'[f.s].size}
      BY <1>3, <3>1, TimedFits
    <3>3. QED
      BY <2>4, <3>2
  <2>6. item' \in Item
    <3>1. item'.size \in Sizes
      <4> HIDE DEF f
      <4>1. codec'[f.s].size \in Sizes
        BY <1>3, <1>4, SizeTypes
      <4>2. QED
        BY <2>4, <2>5, <4>1 DEF Sizes
    <3>2. item' = [n |-> item'.n, s |-> item'.s, sps |-> item'.sps, size |-> item'.size]
      BY <2>1 DEF Frame
    <3> HIDE DEF f
    <3>3. item'.n \in Numbers /\ item'.s \in Streams \cup {"none"} /\ item'.sps \in BOOLEAN
      BY <1>1, <1>2, <1>3, <2>2
    <3>4. QED
      BY <3>1, <3>2, <3>3 DEF Item
  <2> HIDE DEF f
  <2>7. QED
    BY <1>1, <1>3, <1>4, <2>1, <2>2, <2>3, <2>5, <2>6
<1>7. QED
  BY <1>5, <1>6

(* What is read is the beginning of what was written: by a client one      *)
(* item, by the thread any number of them.                                 *)
LEMMA ReadTakes ==
    ASSUME TypeOK, NEW s \in Streams, UnlockReads(s) \/ ClientReads(s)
    PROVE  /\ pipe[s] # <<>>
           /\ \A x \in Streams \ {s} : pipe'[x] = pipe[x]
           /\ pipe' \in [Streams -> Seq(Item)]
           /\ \E k \in 0..Len(pipe[s]) :
                 /\ Len(pipe'[s]) = Len(pipe[s]) - k
                 /\ \A i \in 1..Len(pipe'[s]) : i + k \in 1..Len(pipe[s])
                           /\ pipe'[s][i] = pipe[s][i + k]
<1>0. pipe \in [Streams -> Seq(Item)] /\ pipe[s] \in Seq(Item) /\ Len(pipe[s]) \in Nat
  BY Types DEF TypeOK
<1>1. pipe[s] # <<>>
  BY DEF UnlockReads, ClientReads
<1>2. CASE UnlockReads(s)
  <2>1. PICK k \in 0..Len(pipe[s]) : pipe' = [pipe EXCEPT ![s] = SubSeq(@, k + 1, Len(@))]
    BY <1>2 DEF UnlockReads
  <2>2. /\ pipe'[s] = SubSeq(pipe[s], k + 1, Len(pipe[s]))
        /\ \A x \in Streams \ {s} : pipe'[x] = pipe[x]
    BY <1>0, <2>1
  <2>3. /\ SubSeq(pipe[s], k + 1, Len(pipe[s])) \in Seq(Item)
        /\ Len(SubSeq(pipe[s], k + 1, Len(pipe[s]))) = Len(pipe[s]) - k
        /\ \A i \in 1..(Len(pipe[s]) - k) : SubSeq(pipe[s], k + 1, Len(pipe[s]))[i] = pipe[s][i + k]
    BY ONLY <1>0, <2>1, SubSeqElements
  <2>4. pipe' \in [Streams -> Seq(Item)]
    BY <1>0, <2>1, <2>3
  <2>5. \A i \in 1..(Len(pipe[s]) - k) : i + k \in 1..Len(pipe[s])
    BY <1>0
  <2>6. QED
    BY <1>1, <2>2, <2>3, <2>4, <2>5
<1>3. CASE ClientReads(s)
  <2>1. pipe' = [pipe EXCEPT ![s] = Tail(@)]
    BY <1>3 DEF ClientReads
  <2>2. pipe'[s] = Tail(pipe[s]) /\ \A x \in Streams \ {s} : pipe'[x] = pipe[x]
    BY <1>0, <2>1
  <2>3. /\ Tail(pipe[s]) \in Seq(Item) /\ Len(Tail(pipe[s])) = Len(pipe[s]) - 1
        /\ 1 \in 1..Len(pipe[s])
        /\ \A i \in 1..Len(Tail(pipe[s])) : i + 1 \in 1..Len(pipe[s])
                  /\ Tail(pipe[s])[i] = pipe[s][i + 1]
    BY ONLY <1>0, <1>1, TailElements
  <2>4. pipe' \in [Streams -> Seq(Item)]
    BY <1>0, <2>1, <2>3
  <2>5. 1 \in 0..Len(pipe[s])
    BY <1>0, <2>3
  <2>6. QED
    BY <1>1, <2>2, <2>3, <2>4, <2>5
<1>4. QED
  BY <1>2, <1>3

(* What is written comes behind what is there.                             *)
LEMMA DeliverPuts ==
    ASSUME TypeOK, Fitting, Deliver
    PROVE  /\ pc = "write" /\ item.s \in Streams /\ item \in Item
           /\ pipe' \in [Streams -> Seq(Item)]
           /\ \A x \in Streams \ {item.s} : pipe'[x] = pipe[x]
           /\ Len(pipe'[item.s]) = Len(pipe[item.s]) + 1
           /\ Len(pipe'[item.s]) <= PipeSize
           /\ \A i \in 1..Len(pipe[item.s]) : pipe'[item.s][i] = pipe[item.s][i]
           /\ pipe'[item.s][Len(pipe[item.s]) + 1] = item
<1> DEFINE s == item.s
<1>1. pc = "write" /\ s \in Streams /\ pipe' = [pipe EXCEPT ![s] = Append(@, item)]
      /\ Len(pipe[s]) < PipeSize
  BY DEF Deliver, Fitting
<1>2. item \in Item
  BY DEF TypeOK
<1>3. pipe \in [Streams -> Seq(Item)] /\ pipe[s] \in Seq(Item) /\ Len(pipe[s]) \in Nat
        /\ PipeSize \in Nat
  BY <1>1, Types, GrabberAssumption DEF TypeOK
<1> HIDE DEF s
<1>4. pipe'[s] = Append(pipe[s], item) /\ \A x \in Streams \ {s} : pipe'[x] = pipe[x]
  BY <1>1, <1>3
<1>5. /\ Append(pipe[s], item) \in Seq(Item) /\ Len(Append(pipe[s], item)) = Len(pipe[s]) + 1
      /\ \A i \in 1..Len(pipe[s]) : Append(pipe[s], item)[i] = pipe[s][i]
      /\ Append(pipe[s], item)[Len(pipe[s]) + 1] = item
  BY ONLY <1>2, <1>3, AppendElements
<1>6. pipe' \in [Streams -> Seq(Item)]
  BY <1>1, <1>3, <1>5
<1>7. Len(pipe'[s]) <= PipeSize
  BY <1>1, <1>3, <1>4, <1>5
<1>8. QED
  BY <1>1, <1>2, <1>4, <1>5, <1>6, <1>7 DEF s

-----------------------------------------------------------------------------
LEMMA TypeStep == GrabIInv /\ [Next]_vars => TypeOK'
<1> SUFFICES ASSUME GrabIInv, [Next]_vars PROVE TypeOK'
  OBVIOUS
<1> USE DEF GrabIInv
<1>1. ASSUME NEW s \in Streams, NEW sps \in BOOLEAN, CameraWrites(s, sps) PROVE TypeOK'
  <2>1. [s |-> s, sps |-> sps] \in Entry
    BY DEF Entry
  <2>2. log' \in Seq(Entry) /\ Len(log') <= MaxFrames
    <3>1. log \in Seq(Entry) /\ Len(log) \in Nat /\ MaxFrames \in Nat
      BY Types
    <3>2. log' = Append(log, [s |-> s, sps |-> sps]) /\ Len(log) < MaxFrames
      BY <1>1 DEF CameraWrites
    <3>3. QED
      BY <2>1, <3>1, <3>2, AppendElements
  <2>3. QED
    BY <1>1, <2>2 DEF CameraWrites, TypeOK
<1>2. CASE Open
  BY <1>2 DEF Open, ToOpen, NextToOpen, Streams, TypeOK
<1>3. CASE Opened
  <2>1. next' \in 1..(MaxFrames + 1)
    BY <1>3, Types DEF Opened
  <2>2. QED
    BY <1>3, <2>1 DEF Opened, TypeOK
<1>4. CASE Pass
  <2>0. Len(log) \in Nat /\ Len(log) <= MaxFrames /\ MaxFrames \in Nat /\ next \in Nat /\ next >= 1
        /\ MaxBatch \in Nat
    <3>1. next \in 1..(MaxFrames + 1)
      BY DEF TypeOK
    <3>2. QED
      BY <3>1, Types
  <2>1. next' \in 1..(MaxFrames + 1)
    BY <1>4, <2>0, PassTakes
  <2>2. todo' \in Seq(1..MaxFrames) /\ Len(todo') < MaxBatch - 1 /\ pc' \in {"idle", "send"}
    <3>1. CASE todo' = todo /\ pc' = pc
      BY <1>4, <3>1 DEF TypeOK, Pass
    <3>2. CASE \E g \in next..Len(log), n \in 1..(MaxBatch - 2) :
                  /\ g + n = next' /\ next' <= Len(log)
                  /\ todo' = [i \in 1..n |-> g + i - 1]
                  /\ pc' = "send"
      <4>1. PICK g \in next..Len(log), n \in 1..(MaxBatch - 2) :
                  /\ g + n = next' /\ next' <= Len(log)
                  /\ todo' = [i \in 1..n |-> g + i - 1]
                  /\ pc' = "send"
        BY <3>2
      <4>2. \A i \in 1..n : g + i - 1 \in 1..MaxFrames
        BY <2>0, <4>1
      <4>3. todo' \in [1..n -> 1..MaxFrames]
        BY <4>1, <4>2
      <4>4. QED
        BY <2>0, <4>1, <4>3
    <3>3. QED
      BY <1>4, <3>1, <3>2, PassTakes
  <2>3. QED
    BY <1>4, <2>1, <2>2 DEF Pass, TypeOK
<1>5. CASE TakeUp
  <2>1. /\ todo' \in Seq(1..MaxFrames) /\ Len(todo') < MaxBatch - 1
        /\ codec' \in [Streams -> LowTypes \cup HighTypes \cup {NoType}]
    <3>1. Len(todo') = Len(todo) - 1 /\ Len(todo) \in Nat /\ MaxBatch \in Nat
            /\ Len(todo) < MaxBatch - 1
      BY <1>5, TakeUpTakes, Types DEF TypeOK
    <3>2. Len(todo') < MaxBatch - 1
      BY <3>1
    <3>3. QED
      BY <1>5, <3>2, TakeUpTakes
  <2>2. /\ item' \in Item
        /\ pc' \in {"open", "idle", "send", "write", "ended"}
    BY <1>5, TakeUpTakes DEF TypeOK
  <2>3. QED
    BY <1>5, <2>1, <2>2 DEF TakeUp, TypeOK
<1>6. CASE PassOver
  BY <1>6 DEF PassOver, TypeOK
<1>7. CASE Deliver
  <2>1. item' \in Item
    BY <1>7, NoItemType DEF Deliver
  <2>2. first' \in [Streams -> {"nothing", "sps", "frame"}]
    BY <1>7 DEF Deliver, TypeOK
  <2>3. pipe' \in [Streams -> Seq(Item)] /\ \A s \in Streams : Len(pipe'[s]) <= PipeSize
    BY <1>7, DeliverPuts DEF TypeOK
  <2>4. QED
    BY <1>7, <2>1, <2>2, <2>3 DEF Deliver, TypeOK
<1>8. CASE Broken
  <2>1. item' \in Item
    BY <1>8, NoItemType DEF Broken, TypeOK
  <2>2. QED
    BY <1>8, <2>1 DEF Broken, TypeOK
<1>9. ASSUME NEW s \in Streams, UnlockReads(s) \/ ClientReads(s) PROVE TypeOK'
  <2>1. pipe' \in [Streams -> Seq(Item)]
    BY <1>9, ReadTakes
  <2>2. \A x \in Streams : Len(pipe'[x]) <= PipeSize
    <3>1. Len(pipe[s]) \in Nat /\ PipeSize \in Nat /\ \A x \in Streams : Len(pipe[x]) <= PipeSize
      BY Types, GrabberAssumption DEF TypeOK
    <3>2. PICK k \in 0..Len(pipe[s]) : Len(pipe'[s]) = Len(pipe[s]) - k
      BY <1>9, ReadTakes
    <3>3. Len(pipe'[s]) <= PipeSize
      BY <3>1, <3>2
    <3>4. QED
      BY <1>9, <3>1, <3>3, ReadTakes
  <2>3. QED
    BY <1>9, <2>1, <2>2 DEF UnlockReads, ClientReads, TypeOK
<1>10. ASSUME NEW s \in Streams, ClientOpens(s) \/ ClientLeaves(s) PROVE TypeOK'
  <2>1. leaves' \in 0..MaxLeaves
    BY <1>10, GrabberAssumption DEF ClientOpens, ClientLeaves, TypeOK
  <2>2. QED
    BY <1>10, <2>1 DEF ClientOpens, ClientLeaves, TypeOK
<1>11. CASE UNCHANGED vars
  BY <1>11 DEF vars, TypeOK
<1>12. QED
  BY <1>1, <1>2, <1>3, <1>4, <1>5, <1>6, <1>7, <1>8, <1>9, <1>10, <1>11 DEF Next, Main

-----------------------------------------------------------------------------
(* The walk: only the camera, a pass and the taking up of a frame touch it.*)
LEMMA WalkedStep == GrabIInv /\ [Next]_vars => Walked'
<1> SUFFICES ASSUME GrabIInv, [Next]_vars PROVE Walked'
  OBVIOUS
<1> USE DEF GrabIInv
<1>0. /\ Len(log) \in Nat /\ next \in Nat /\ Len(todo) \in Nat
      /\ \A k \in 1..Len(todo) : todo[k] \in Nat
  <2>1. \A k \in 1..Len(todo) : todo[k] \in 1..MaxFrames
    BY Types
  <2>2. QED
    BY <2>1, Types
<1>1. ASSUME NEW s \in Streams, NEW sps \in BOOLEAN, CameraWrites(s, sps) PROVE Walked'
  <2>1. log' = Append(log, [s |-> s, sps |-> sps]) /\ (sps => s # "aac")
        /\ [s |-> s, sps |-> sps] \in Entry /\ log \in Seq(Entry)
    BY <1>1, Types DEF CameraWrites, Entry
  <2>2. /\ Len(log') = Len(log) + 1
        /\ \A i \in 1..Len(log) : log'[i] = log[i]
        /\ log'[Len(log) + 1] = [s |-> s, sps |-> sps]
    BY ONLY <2>1, AppendElements
  <2>3. \A i \in 1..Len(log') : log'[i].sps => log'[i].s # "aac"
    <3>1. \A i \in 1..Len(log') : i \in 1..Len(log) \/ i = Len(log) + 1
      BY <1>0, <2>2
    <3>2. QED
      BY <2>1, <2>2, <3>1 DEF Walked
  <2>4. next <= Len(log') + 1
    BY <1>0, <2>2 DEF Walked
  <2>5. QED
    BY <1>1, <2>3, <2>4 DEF CameraWrites, Walked
<1>2. CASE Opened
  <2>1. \A k \in 1..Len(todo) : todo[k] < Len(log) + 1
    BY <1>0 DEF Walked
  <2>2. QED
    BY <1>0, <1>2, <2>1 DEF Opened, Walked
<1>3. CASE Pass
  <2>1. UNCHANGED <<log, item>> /\ pc' # "write" /\ next' \in next..(Len(log) + 1)
    BY <1>3, PassTakes DEF Pass
  <2>2. CASE todo' = todo
    BY <1>0, <2>1, <2>2 DEF Walked
  <2>3. CASE \E g \in next..Len(log), n \in 1..(MaxBatch - 2) :
                /\ g + n = next' /\ todo' = [i \in 1..n |-> g + i - 1]
    <3>1. PICK g \in next..Len(log), n \in 1..(MaxBatch - 2) :
                g + n = next' /\ todo' = [i \in 1..n |-> g + i - 1]
      BY <2>3
    <3>2. n \in Nat /\ g \in Nat /\ Len(todo') = n /\ \A i \in 1..n : todo'[i] = g + i - 1
      BY <1>0, <3>1, Types
    <3>3. \A k \in 1..Len(todo') : todo'[k] < next' /\ \A l \in 1..(k - 1) : todo'[l] < todo'[k]
      BY <3>1, <3>2
    <3>4. QED
      BY <1>0, <2>1, <3>3 DEF Walked
  <2>4. QED
    BY <1>3, <2>2, <2>3, PassTakes
<1>4. CASE TakeUp
  <2>1. /\ Len(todo') = Len(todo) - 1
        /\ \A i \in 1..Len(todo') : i + 1 \in 1..Len(todo) /\ todo'[i] = todo[i + 1]
    BY <1>4, TakeUpTakes
  <2>2. UNCHANGED <<log, next>> /\ pc = "send"
    BY <1>4 DEF TakeUp
  <2>3. \A k \in 1..Len(todo') : todo'[k] < next /\ \A l \in 1..(k - 1) : todo'[l] < todo'[k]
    <3>1. ASSUME NEW k \in 1..Len(todo'), NEW l \in 1..(k - 1) PROVE todo'[l] < todo'[k]
      <4>1. k + 1 \in 1..Len(todo) /\ l + 1 \in 1..((k + 1) - 1) /\ l \in 1..Len(todo')
        BY <1>0, <2>1
      <4>2. QED
        BY <2>1, <4>1 DEF Walked
    <3>2. QED
      BY <2>1, <3>1 DEF Walked
  <2>4. pc' = "write" => item'.n < next /\ \A k \in 1..Len(todo') : item'.n < todo'[k]
    <3>1. pc' = "write" => item'.n = todo[1] /\ 1 \in 1..Len(todo)
      BY <1>4, <2>2, TakeUpTakes
    <3>2. \A k \in 1..Len(todo') : k + 1 \in 1..Len(todo) /\ 1 \in 1..((k + 1) - 1)
      BY <1>0, <2>1
    <3>3. QED
      BY <2>1, <3>1, <3>2 DEF Walked
  <2>5. QED
    BY <2>2, <2>3, <2>4 DEF Walked
<1>5. CASE /\ UNCHANGED <<log, next, todo>>
           /\ pc' = "write" => pc = "write" /\ item' = item
  BY <1>5 DEF Walked
<1>6. QED
  BY <1>1, <1>2, <1>3, <1>4, <1>5
     DEF Next, Main, Open, PassOver, Deliver, Broken, UnlockReads, ClientOpens, ClientReads,
         ClientLeaves, vars

-----------------------------------------------------------------------------
(* The order of what was written.                                          *)
LEMMA InOrderStep == GrabIInv /\ [Next]_vars => InOrder'
<1> SUFFICES ASSUME GrabIInv, [Next]_vars PROVE InOrder'
  OBVIOUS
<1> USE DEF GrabIInv
<1>0. /\ Len(log) \in Nat /\ next \in Nat /\ Len(todo) \in Nat /\ item.n \in Nat
      /\ \A k \in 1..Len(todo) : todo[k] \in Nat
      /\ \A s \in Streams : Len(pipe[s]) \in Nat
      /\ \A s \in Streams : \A i \in 1..Len(pipe[s]) : pipe[s][i].n \in Nat
  <2>1. \A k \in 1..Len(todo) : todo[k] \in 1..MaxFrames
    BY Types
  <2>2. \A s \in Streams : \A i \in 1..Len(pipe[s]) : pipe[s][i].n \in Nat
    BY Types DEF Item, Numbers
  <2>3. QED
    BY <2>1, <2>2, Types
<1>1. CASE Opened
  <2>1. next' = Len(log) + 1 /\ next <= Len(log) + 1 /\ UNCHANGED <<pipe, todo, item>>
          /\ pc' = "idle"
    BY <1>1 DEF Opened, Walked
  <2>2. QED
    BY <1>0, <2>1 DEF InOrder
<1>2. CASE Pass
  <2>1. UNCHANGED <<pipe, item>> /\ pc' # "write" /\ next' \in next..(Len(log) + 1)
    BY <1>2, PassTakes DEF Pass
  <2>2. \A s \in Streams : \A i \in 1..Len(pipe[s]) : pipe[s][i].n < next'
    BY <1>0, <2>1 DEF InOrder
  <2>3. CASE todo' = todo
    BY <2>1, <2>2, <2>3 DEF InOrder
  <2>4. CASE \E g \in next..Len(log), n \in 1..(MaxBatch - 2) : todo' = [i \in 1..n |-> g + i - 1]
    <3>1. PICK g \in next..Len(log), n \in 1..(MaxBatch - 2) : todo' = [i \in 1..n |-> g + i - 1]
      BY <2>4
    <3>2. \A k \in 1..Len(todo') : todo'[k] >= next /\ todo'[k] \in Nat
      BY <1>0, <3>1, Types
    <3>3. \A s \in Streams : \A i \in 1..Len(pipe[s]) : \A k \in 1..Len(todo') :
            pipe[s][i].n < todo'[k]
      BY <1>0, <3>2 DEF InOrder
    <3>4. QED
      BY <2>1, <2>2, <3>3 DEF InOrder
  <2>5. QED
    BY <1>2, <2>3, <2>4, PassTakes
<1>3. CASE TakeUp
  <2>1. /\ \A i \in 1..Len(todo') : i + 1 \in 1..Len(todo) /\ todo'[i] = todo[i + 1]
        /\ pc' = "write" => item'.n = todo[1] /\ 1 \in 1..Len(todo)
    BY <1>3, TakeUpTakes DEF TakeUp
  <2>2. UNCHANGED <<pipe, next>>
    BY <1>3 DEF TakeUp
  <2>3. QED
    BY <2>1, <2>2 DEF InOrder
<1>4. CASE Deliver
  <2>1. UNCHANGED <<next, todo>> /\ pc' = "send" /\ pc = "write"
    BY <1>4 DEF Deliver
  <2> DEFINE s == item.s
  <2>2. /\ s \in Streams
        /\ \A x \in Streams \ {s} : pipe'[x] = pipe[x]
        /\ Len(pipe'[s]) = Len(pipe[s]) + 1
        /\ \A i \in 1..Len(pipe[s]) : pipe'[s][i] = pipe[s][i]
        /\ pipe'[s][Len(pipe[s]) + 1] = item
    BY <1>4, DeliverPuts
  <2> HIDE DEF s
  <2>3. item.n < next /\ \A k \in 1..Len(todo) : item.n < todo[k]
    BY <2>1 DEF Walked
  <2>4. \A i \in 1..Len(pipe[s]) : pipe[s][i].n < item.n
    BY <2>1, <2>2 DEF InOrder
  <2>5. ASSUME NEW i \in 1..Len(pipe'[s])
        PROVE  /\ pipe'[s][i].n < next
               /\ \A k \in 1..Len(todo) : pipe'[s][i].n < todo[k]
               /\ \A j \in 1..(i - 1) : pipe'[s][j].n < pipe'[s][i].n
    <3>1. CASE i = Len(pipe[s]) + 1
      <4>1. \A j \in 1..(i - 1) : j \in 1..Len(pipe[s])
        BY <1>0, <2>2, <3>1
      <4>2. QED
        BY <2>2, <2>3, <2>4, <3>1, <4>1
    <3>2. CASE i # Len(pipe[s]) + 1
      <4>1. i \in 1..Len(pipe[s]) /\ \A j \in 1..(i - 1) : j \in 1..Len(pipe[s])
        BY <1>0, <2>2, <3>2
      <4>2. QED
        BY <2>2, <4>1 DEF InOrder
    <3>3. QED
      BY <3>1, <3>2
  <2>6. QED
    BY <2>1, <2>2, <2>5 DEF InOrder
<1>5. ASSUME NEW s \in Streams, UnlockReads(s) \/ ClientReads(s) PROVE InOrder'
  <2>1. UNCHANGED <<next, todo, item, pc>> /\ \A x \in Streams \ {s} : pipe'[x] = pipe[x]
    BY <1>5, ReadTakes DEF UnlockReads, ClientReads
  <2>2. PICK k \in 0..Len(pipe[s]) :
           /\ Len(pipe'[s]) = Len(pipe[s]) - k
           /\ \A i \in 1..Len(pipe'[s]) : i + k \in 1..Len(pipe[s]) /\ pipe'[s][i] = pipe[s][i + k]
    BY <1>5, ReadTakes
  <2>3. ASSUME NEW i \in 1..Len(pipe'[s]), NEW j \in 1..(i - 1)
        PROVE  pipe'[s][j].n < pipe'[s][i].n
    <3>1. j \in 1..Len(pipe'[s]) /\ j + k \in 1..((i + k) - 1)
      BY <1>0, <2>2
    <3>2. QED
      BY <2>2, <3>1 DEF InOrder
  <2>4. \A i \in 1..Len(pipe'[s]) :
           /\ pipe'[s][i].n < next
           /\ \A l \in 1..Len(todo) : pipe'[s][i].n < todo[l]
           /\ pc = "write" => pipe'[s][i].n < item.n
    BY <2>2 DEF InOrder
  <2>5. ASSUME NEW x \in Streams, NEW i \in 1..Len(pipe'[x])
        PROVE  /\ pipe'[x][i].n < next
               /\ \A l \in 1..Len(todo) : pipe'[x][i].n < todo[l]
               /\ pc = "write" => pipe'[x][i].n < item.n
               /\ \A j \in 1..(i - 1) : pipe'[x][j].n < pipe'[x][i].n
    <3>1. CASE x = s
      BY <2>3, <2>4, <3>1
    <3>2. CASE x # s
      BY <2>1, <3>2 DEF InOrder
    <3>3. QED
      BY <3>1, <3>2
  <2>6. QED
    BY <2>1, <2>5 DEF InOrder
<1>6. CASE /\ UNCHANGED <<pipe, next, todo>>
           /\ pc' = "write" => pc = "write" /\ item' = item
  BY <1>6 DEF InOrder
<1>7. ASSUME \/ \E s \in Streams, sps \in BOOLEAN : CameraWrites(s, sps)
             \/ \E s \in Streams : ClientOpens(s) \/ ClientLeaves(s)
             \/ Open \/ PassOver \/ Broken \/ UNCHANGED vars
      PROVE  InOrder'
  <2>1. UNCHANGED <<pipe, next, todo>>
    BY <1>7 DEF CameraWrites, Open, PassOver, Broken, ClientOpens, ClientLeaves, vars
  <2>2. pc' = "write" => pc = "write" /\ item' = item
    BY <1>7 DEF CameraWrites, Open, PassOver, Broken, ClientOpens, ClientLeaves, vars
  <2>3. QED
    BY <1>6, <2>1, <2>2
<1>8. QED
  BY <1>1, <1>2, <1>3, <1>4, <1>5, <1>7 DEF Next, Main

-----------------------------------------------------------------------------
(* The codec of a stream and what was written of it.                       *)
LEMMA FittingStep == GrabIInv /\ [Next]_vars => Fitting'
<1> SUFFICES ASSUME GrabIInv, [Next]_vars PROVE Fitting'
  OBVIOUS
<1> USE DEF GrabIInv
<1>1. CASE TakeUp
  <2>1. UNCHANGED <<pipe, opts>> /\ pc = "send"
    BY <1>1 DEF TakeUp
  <2>2. \A s \in Streams : /\ codec'[s] \in TypesOf(s) \cup {NoType}
                           /\ codec[s] # NoType => codec'[s] = codec[s]
    BY <1>1, TakeUpTakes
  <2>3. pc' = "write" => /\ Wants(opts, item'.s) /\ item'.s \in Streams
                         /\ item'.sps => item'.s # "aac" /\ item'.size = codec'[item'.s].size
                         /\ item'.s # "aac" => codec'[item'.s] # NoType
    BY <1>1, <2>1, TakeUpTakes
  <2>4. \A s \in Streams : \A i \in 1..Len(pipe[s]) :
           /\ pipe[s][i].s = s
           /\ pipe[s][i].sps => pipe[s][i].size = codec'[s].size /\ s # "aac"
           /\ s # "aac" => codec'[s] # NoType
    BY <2>2 DEF Fitting, Fits
  <2>5. QED
    BY <2>1, <2>2, <2>3, <2>4 DEF Fitting, Fits
<1>2. CASE Deliver
  <2>1. UNCHANGED <<codec, opts>> /\ pc' = "send" /\ pc = "write"
    BY <1>2 DEF Deliver
  <2> DEFINE s == item.s
  <2>2. /\ s \in Streams
        /\ \A x \in Streams \ {s} : pipe'[x] = pipe[x]
        /\ Len(pipe'[s]) = Len(pipe[s]) + 1 /\ Len(pipe[s]) \in Nat
        /\ \A i \in 1..Len(pipe[s]) : pipe'[s][i] = pipe[s][i]
        /\ pipe'[s][Len(pipe[s]) + 1] = item
    BY <1>2, DeliverPuts, Types
  <2>3. Fits(item, s)
    BY <2>1 DEF Fitting
  <2> HIDE DEF s
  <2>4. \A i \in 1..Len(pipe'[s]) : i \in 1..Len(pipe[s]) \/ i = Len(pipe[s]) + 1
    BY <2>2
  <2>5. \A i \in 1..Len(pipe'[s]) : Fits(pipe'[s][i], s)
    BY <2>2, <2>3, <2>4 DEF Fitting
  <2>6. \A x \in Streams : \A i \in 1..Len(pipe'[x]) : Fits(pipe'[x][i], x)
    BY <2>2, <2>5 DEF Fitting
  <2>7. QED
    BY <2>1, <2>6 DEF Fitting, Fits
<1>3. ASSUME NEW s \in Streams, UnlockReads(s) \/ ClientReads(s) PROVE Fitting'
  <2>1. UNCHANGED <<codec, opts, item, pc>> /\ \A x \in Streams \ {s} : pipe'[x] = pipe[x]
    BY <1>3, ReadTakes DEF UnlockReads, ClientReads
  <2>2. PICK k \in 0..Len(pipe[s]) :
           \A i \in 1..Len(pipe'[s]) : i + k \in 1..Len(pipe[s]) /\ pipe'[s][i] = pipe[s][i + k]
    BY <1>3, ReadTakes
  <2>3. \A x \in Streams : \A i \in 1..Len(pipe'[x]) : Fits(pipe'[x][i], x)
    BY <2>1, <2>2 DEF Fitting
  <2>4. QED
    BY <2>1, <2>3 DEF Fitting, Fits
<1>4. CASE /\ UNCHANGED <<pipe, codec, opts>>
           /\ pc' = "write" => pc = "write" /\ item' = item
  BY <1>4 DEF Fitting, Fits
<1>5. QED
  BY <1>1, <1>2, <1>3, <1>4
     DEF Next, Main, CameraWrites, Open, Opened, Pass, Walk, PassOver, Broken, ClientOpens,
         ClientLeaves, vars

-----------------------------------------------------------------------------
(* The beginning of a stream.                                              *)
LEMMA BegunStep == GrabIInv /\ [Next]_vars => Begun'
<1> SUFFICES ASSUME GrabIInv, [Next]_vars PROVE Begun'
  OBVIOUS
<1> USE DEF GrabIInv
<1>1. CASE Open
  BY <1>1 DEF Open, Begun
<1>2. CASE Opened
  BY <1>2 DEF Opened, ToOpen, Begun
<1>3. CASE Pass
  BY <1>3, PassTakes DEF Pass, Begun
<1>4. CASE TakeUp
  <2>1. UNCHANGED <<opts, opened, pipe, unlock, first>> /\ pc = "send"
    BY <1>4 DEF TakeUp
  <2>2. pc' \in {"send", "write"}
    BY <1>4, <2>1, TakeUpTakes
  <2>3. \A s \in Streams : codec[s] = NoType /\ codec'[s] # NoType /\ Wants(opts, s)
           => pc' = "write" /\ item'.s = s /\ item'.sps
    BY <1>4, TakeUpTakes
  <2>4. QED
    BY <2>1, <2>2, <2>3 DEF Begun
<1>5. CASE Deliver
  <2>1. /\ UNCHANGED <<opts, opened, codec, unlock>> /\ pc = "write" /\ pc' = "send"
        /\ item.s \in Streams /\ Wants(opts, item.s) /\ Fits(item, item.s)
    BY <1>5 DEF Deliver, Fitting
  <2>2. first' = [first EXCEPT ![item.s] = IF @ # "nothing" THEN @
                                           ELSE IF item.sps THEN "sps" ELSE "frame"]
        /\ first \in [Streams -> {"nothing", "sps", "frame"}]
    BY <1>5 DEF Deliver, TypeOK
  <2>3. \A s \in Streams \ {item.s} : pipe'[s] = pipe[s] /\ first'[s] = first[s]
    BY <1>5, <2>2, DeliverPuts
  <2>4. first'[item.s] # "nothing" /\ (first'[item.s] = "frame" => item.s = "aac")
    <3>1. item.s # "aac" /\ first[item.s] = "nothing" => item.sps
      BY <2>1 DEF Begun, Fits
    <3>2. QED
      BY <2>1, <2>2, <3>1 DEF Begun
  <2>5. QED
    BY <2>1, <2>3, <2>4 DEF Begun
<1>6. CASE Broken
  <2>1. UNCHANGED <<opts, opened, pipe, codec, unlock, first>> /\ pc = "write"
        /\ item.s \notin unlock /\ pc' \in {"send", "ended"} /\ (pc' = "send" => opts.fifo)
    BY <1>6 DEF Broken, Readers
  <2>2. item.s \in Streams /\ Wants(opts, item.s)
    BY <2>1 DEF Fitting
  <2>3. opts.fifo => first[item.s] # "nothing"
    BY <2>1, <2>2 DEF Begun
  <2>4. QED
    BY <2>1, <2>2, <2>3 DEF Begun
<1>7. ASSUME NEW s \in Streams, UnlockReads(s) \/ ClientReads(s) PROVE Begun'
  <2>1. /\ UNCHANGED <<opts, opened, pc, item, codec, first>> /\ unlock \ {s} \subseteq unlock'
        /\ pipe[s] # <<>> /\ \A x \in Streams \ {s} : pipe'[x] = pipe[x]
    BY <1>7, ReadTakes DEF UnlockReads, ClientReads
  <2>2. first[s] # "nothing"
    BY <2>1 DEF Begun
  <2>3. QED
    BY <2>1, <2>2 DEF Begun
<1>8. CASE /\ UNCHANGED <<opts, opened, pipe, codec, unlock, first>>
           /\ ((pc' = pc /\ item' = item) \/ (pc = "send" /\ pc' = "idle"))
  BY <1>8 DEF Begun
<1>9. QED
  BY <1>1, <1>2, <1>3, <1>4, <1>5, <1>6, <1>7, <1>8
     DEF Next, Main, CameraWrites, PassOver, ClientOpens, ClientLeaves, vars

-----------------------------------------------------------------------------
(* The walk, the pipes and the codecs keep what they promise each other.   *)
THEOREM GrabberInvariance == Spec => []GrabIInv
<1>1. GrabIInv /\ [Next]_vars => GrabIInv'
  BY TypeStep, WalkedStep, InOrderStep, FittingStep, BegunStep DEF GrabIInv
<1>2. QED
  BY InitIInv, <1>1, PTL DEF Spec

(* Every variable of the grabber stays in its type: no batch is longer     *)
(* than fhs[], no pipe is overfilled.                                      *)
THEOREM GrabberTypeCorrect == Spec => []TypeOK
<1>1. GrabIInv => TypeOK
  BY DEF GrabIInv
<1>2. QED
  BY <1>1, GrabberInvariance, PTL

(* A video stream begins with an SPS, its SPS are all of the size of its   *)
(* codec, and frames are not mixed up, repeated or out of order.           *)
THEOREM GrabberDecodable == Spec => []Decodable
<1>1. GrabIInv => Decodable
  <2> SUFFICES ASSUME GrabIInv, NEW s \in Streams
               PROVE  /\ first[s] = "frame" => s = "aac"
                      /\ \A i \in DOMAIN pipe[s] :
                            /\ pipe[s][i].s = s
                            /\ pipe[s][i].sps => pipe[s][i].size = codec[s].size
                            /\ \A j \in 1..(i - 1) : pipe[s][j].n < pipe[s][i].n
    BY DEF Decodable
  <2>1. DOMAIN pipe[s] = 1..Len(pipe[s])
    <3>1. pipe[s] \in Seq(Item)
      BY Types DEF GrabIInv
    <3>2. QED
      BY <3>1
  <2>2. QED
    BY <2>1 DEF GrabIInv, Begun, Fitting, Fits, InOrder
<1>2. QED
  BY <1>1, GrabberInvariance, PTL
=============================================================================
