------------------------------ MODULE H264Grabber ------------------------------
(***************************************************************************)
(* h264grabber: the frames of the ring, written to stdout or to FIFOs.     *)
(*                                                                         *)
(* The program walks the ring as capture() of rRTSPServer does             *)
(* (CaptureRing has the pointers and the torn reads of the table; here a   *)
(* pass takes an end that is right).  But it has no queues: main() writes  *)
(* the frames of a pass from the ring itself, one after the other, and a   *)
(* write waits for whoever reads that stream.  Meanwhile the camera writes *)
(* on, over what is still to be sent.  fopen of a FIFO waits for a reader, *)
(* so a thread opens it for reading and takes a first piece of what is     *)
(* written.                                                                *)
(*                                                                         *)
(* A frame is its number, its stream and whether it is an SPS; the ring    *)
(* holds the last Depth of them.  Left out: the buffer of stdio, and that  *)
(* the bytes of a frame may be newer than its header, overwritten before   *)
(* or while they are written (an item keeps its number).  A header that was*)
(* overwritten either shows that the sync is lost or, by chance, is the    *)
(* header of a newer frame.                                                *)
(***************************************************************************)
EXTENDS Integers, Sequences

CONSTANTS Options,     \* command lines: resolution, audio, fifo, sps_timing_info
          Known,       \* SPS the cameras write, of those the program knows
          Depth,       \* frames the ring holds
          MaxBatch,    \* slots of fhs[], 10
          PipeSize,    \* frames a FIFO or a pipe holds
          MaxFrames,   \* bound: frames the camera writes
          MaxLeaves    \* bound: how often a reader goes away

Streams == {"low", "high", "aac"}
AllOptions == [res : {"low", "high", "both", "none"}, audio : BOOLEAN,
               fifo : BOOLEAN, sti : BOOLEAN]

(* The SPS the program knows, by variant and picture height, and those of  *)
(* which it only knows the codec: 0 (H.264) and, from 8 on, H.265.         *)
LowTypes == {[v |-> k, size |-> 360] : k \in {0, 1, 2, 4}}
HighTypes == {[v |-> k, size |-> h] : k \in {0, 1, 2, 4}, h \in {1080, 1296}}
             \cup {[v |-> 8, size |-> 1080], [v |-> 16, size |-> 1080],
                   [v |-> 32, size |-> 1296]}

ASSUME GrabberAssumption ==
    /\ Options \subseteq AllOptions
    /\ Known \subseteq LowTypes \cup HighTypes
    /\ Depth \in Nat \ {0} /\ MaxBatch \in Nat \ {0, 1}
    /\ PipeSize \in Nat \ {0} /\ MaxFrames \in Nat /\ MaxLeaves \in Nat

VARIABLES opts,      \* what main() was told
          log,       \* all frames the camera has written
          pc,        \* where main() is
          opened,    \* the outputs that are open
          next,      \* the frame buf_idx_end_prev points at
          todo,      \* the frames of this pass that are still to be handled
          item,      \* what fwrite is writing
          codec,     \* the SPS found for a stream: sps_type_low, sps_type_high
          pipe,      \* what was written and not read yet
          unlock,    \* outputs the unlock thread still has open
          client,    \* outputs that are being read
          leaves,    \* how many of their readers went away
          first      \* what was written to an output first

vars == <<opts, log, pc, opened, next, todo, item, codec, pipe, unlock, client, leaves, first>>

-----------------------------------------------------------------------------
TypesOf(s) == CASE s = "low" -> LowTypes [] s = "high" -> HighTypes [] OTHER -> {}

NoType == [v |-> -1, size |-> 0]   \* CODEC_NONE
NoItem == [n |-> 0, s |-> "none", sps |-> FALSE, size |-> 0]

(* Definitions named Mut... are faults a change could bring in; the runs   *)
(* show which property each of them breaks.                                *)
MutTimed(s, t) == CASE s = "low" /\ t.v # 0 -> 360
                    [] s = "high" /\ t.v \in {1, 2, 4} -> 1080
                    [] OTHER -> 0

(* The height of the SPS with timing that is written in its place, or 0.   *)
(* sps_type_low & 0x0101 holds of every known variant: low streams get the *)
(* first one; the types of a high stream are compared with ==.             *)
Timed(s, t) == CASE s = "low" /\ t.v # 0 -> 360
                 [] s = "high" /\ t.v \in {1, 2, 4} -> t.size
                 [] OTHER -> 0

Wants(o, s) == CASE s = "aac" -> o.audio
                 [] OTHER -> o.res \in {s, "both"}

(* Without -f there is one output.                                         *)
Refused(o) == ~o.fifo /\ (o.res = "both" \/ (o.res # "none" /\ o.audio))

Oldest == IF Len(log) > Depth THEN Len(log) - Depth + 1 ELSE 1
Intact(n) == n >= Oldest

Init == /\ opts \in Options
        /\ pc = IF Refused(opts) THEN "ended" ELSE "open"
        /\ log = <<>> /\ next = 1 /\ todo = <<>> /\ item = NoItem
        /\ opened = {} /\ unlock = {} /\ leaves = 0
        /\ client = IF opts.fifo THEN {} ELSE {s \in Streams : Wants(opts, s)}
        /\ codec = [s \in Streams |-> NoType]
        /\ pipe = [s \in Streams |-> <<>>]
        /\ first = [s \in Streams |-> "nothing"]

-----------------------------------------------------------------------------
(* The camera.                                                             *)
CameraWrites(s, sps) ==
    /\ Len(log) < MaxFrames
    /\ sps => s # "aac"
    /\ log' = Append(log, [s |-> s, sps |-> sps])
    /\ UNCHANGED <<opts, pc, opened, next, todo, item, codec, pipe, unlock, client, leaves, first>>

-----------------------------------------------------------------------------
(* The outputs, in order.  fopen returns because the thread opens the FIFO *)
(* too.  The walk starts at the end the table shows then.                  *)
ToOpen == {s \in Streams : Wants(opts, s)} \ opened
NextToOpen == CASE "low" \in ToOpen -> "low"
                [] "low" \notin ToOpen /\ "high" \in ToOpen -> "high"
                [] OTHER -> "aac"

Open == /\ pc = "open" /\ ToOpen # {}
        /\ opened' = opened \cup {NextToOpen}
        /\ unlock' = IF opts.fifo THEN unlock \cup {NextToOpen} ELSE unlock
        /\ UNCHANGED <<opts, log, pc, next, todo, item, codec, pipe, client, leaves, first>>

Opened == /\ pc = "open" /\ ToOpen = {}
          /\ next' = Len(log) + 1
          /\ pc' = "idle"
          /\ UNCHANGED <<opts, log, opened, todo, item, codec, pipe, unlock, client, leaves, first>>

-----------------------------------------------------------------------------
(* A pass over the frames from g on: given up if they are too many for     *)
(* fhs[], else all but the newest are taken up; a single one waits.        *)
Walk(g) == LET n == Len(log) + 1 - g IN
    CASE n >= MaxBatch -> next' = Len(log) + 1 /\ UNCHANGED <<todo, pc>>
      [] n < MaxBatch /\ n > 1 ->
           /\ next' = Len(log) /\ pc' = "send"
           /\ todo' = [i \in 1..(n - 1) |-> g + i - 1]
      [] OTHER -> UNCHANGED <<next, todo, pc>>

Pass == /\ pc = "idle" /\ next <= Len(log)
        /\ \/ Intact(next) /\ Walk(next)
           \/ ~Intact(next) /\ \E g \in Oldest..Len(log) : Walk(g)
           \/ ~Intact(next) /\ next' = Len(log) + 1 /\ UNCHANGED <<todo, pc>>
        /\ UNCHANGED <<opts, log, opened, item, codec, pipe, unlock, client, leaves, first>>

(* The codec is taken from the first SPS that is recognised, compared with *)
(* what is in the ring now.                                                *)
Detect(s, f) ==
    IF codec[s] = NoType /\ f.sps /\ Intact(Head(todo))
    THEN \E t \in (TypesOf(s) \cap Known) \cup {NoType} : codec' = [codec EXCEPT ![s] = t]
    ELSE UNCHANGED codec

(* The output of a frame: none unless it is wanted and its codec is known. *)
GoesOut(s) == Wants(opts, s) /\ (s = "aac" \/ codec'[s] # NoType)

Frame(f) == LET t == codec'[f.s]
                timed == IF opts.sti /\ f.sps THEN Timed(f.s, t) ELSE 0 IN
    [n |-> Head(todo), s |-> f.s, sps |-> f.sps,
     size |-> IF timed # 0 THEN timed ELSE IF f.sps THEN t.size ELSE 0]

TakeUp == /\ pc = "send" /\ todo # <<>>
          /\ LET f == log[Head(todo)] IN
               /\ Detect(f.s, f)
               /\ IF GoesOut(f.s)
                  THEN item' = Frame(f) /\ pc' = "write"
                  ELSE UNCHANGED <<item, pc>>
          /\ todo' = Tail(todo)
          /\ UNCHANGED <<opts, log, opened, next, pipe, unlock, client, leaves, first>>

PassOver == /\ pc = "send" /\ todo = <<>>
            /\ pc' = "idle"
            /\ UNCHANGED <<opts, log, opened, next, todo, item, codec, pipe,
                           unlock, client, leaves, first>>

Readers(s) == s \in unlock \cup client
MutDeliver == /\ pc = "write" /\ Readers(item.s)
              /\ pipe' = [pipe EXCEPT ![item.s] = Append(@, item)]
              /\ item' = NoItem /\ pc' = "send"
              /\ UNCHANGED <<opts, log, opened, next, todo, codec, unlock, client, leaves, first>>

(* fwrite: waits while the pipe is full.                                   *)
Deliver == /\ pc = "write" /\ Readers(item.s)
           /\ Len(pipe[item.s]) < PipeSize
           /\ pipe' = [pipe EXCEPT ![item.s] = Append(@, item)]
           /\ first' = [first EXCEPT ![item.s] =
                          IF @ # "nothing" THEN @ ELSE IF item.sps THEN "sps" ELSE "frame"]
           /\ item' = NoItem /\ pc' = "send"
           /\ UNCHANGED <<opts, log, opened, next, todo, codec, unlock, client, leaves>>

MutBroken == /\ pc = "write" /\ ~Readers(item.s)
             /\ ~opts.fifo /\ pc' = "ended" /\ UNCHANGED item
             /\ UNCHANGED <<opts, log, opened, next, todo, codec, pipe, unlock, client, leaves, first>>

(* Nobody reads: with -f SIGPIPE has a handler and the frame is dropped,   *)
(* without it the program ends.                                            *)
Broken == /\ pc = "write" /\ ~Readers(item.s)
          /\ IF opts.fifo THEN pc' = "send" /\ item' = NoItem
                          ELSE pc' = "ended" /\ UNCHANGED item
          /\ UNCHANGED <<opts, log, opened, next, todo, codec, pipe, unlock, client, leaves, first>>

-----------------------------------------------------------------------------
(* unlock_fifo_thread reads once, up to 1024 bytes, and is gone: what is   *)
(* small enough is lost, of a larger frame the rest stays.                 *)
UnlockReads(s) == /\ s \in unlock /\ pipe[s] # <<>>
                  /\ unlock' = unlock \ {s}
                  /\ \E k \in 0..Len(pipe[s]) :
                        pipe' = [pipe EXCEPT ![s] = SubSeq(@, k + 1, Len(@))]
                  /\ UNCHANGED <<opts, log, pc, opened, next, todo, item, codec,
                                 client, leaves, first>>

(* External: whoever reads the stream.                                     *)
ClientOpens(s) == /\ opts.fifo /\ s \in opened /\ s \notin client
                  /\ client' = client \cup {s}
                  /\ UNCHANGED <<opts, log, pc, opened, next, todo, item, codec,
                                 pipe, unlock, leaves, first>>

ClientReads(s) == /\ s \in client /\ pipe[s] # <<>>
                  /\ pipe' = [pipe EXCEPT ![s] = Tail(@)]
                  /\ UNCHANGED <<opts, log, pc, opened, next, todo, item, codec,
                                 unlock, client, leaves, first>>

ClientLeaves(s) == /\ s \in client /\ leaves < MaxLeaves
                   /\ client' = client \ {s} /\ leaves' = leaves + 1
                   /\ UNCHANGED <<opts, log, pc, opened, next, todo, item, codec,
                                  pipe, unlock, first>>

Main == Open \/ Opened \/ Pass \/ TakeUp \/ PassOver \/ Deliver \/ Broken
Next == \/ Main
        \/ \E s \in Streams : \/ \E sps \in BOOLEAN : CameraWrites(s, sps)
                              \/ UnlockReads(s)
                              \/ ClientOpens(s) \/ ClientReads(s) \/ ClientLeaves(s)

Spec == Init /\ [][Next]_vars

(* The program and its threads go on, and who reads a stream keeps reading.*)
FairSpec == /\ Spec /\ WF_vars(Main)
            /\ \A s \in Streams : WF_vars(UnlockReads(s)) /\ WF_vars(ClientReads(s))

-----------------------------------------------------------------------------
(* Type invariant of the grabber, its outputs and the ring.                *)
Sizes == {0, 360, 1080, 1296}
Numbers == 0..(MaxFrames + 1)
Entry == [s : Streams, sps : BOOLEAN]
Item == [n : Numbers, s : Streams \cup {"none"}, sps : BOOLEAN, size : Sizes]
TypeOK == /\ opts \in Options
          /\ log \in Seq(Entry) /\ Len(log) <= MaxFrames
          /\ pc \in {"open", "idle", "send", "write", "ended"}
          /\ opened \subseteq Streams /\ unlock \subseteq opened
          /\ client \subseteq Streams /\ leaves \in 0..MaxLeaves
          /\ next \in 1..(MaxFrames + 1) /\ todo \in Seq(1..MaxFrames)
          /\ Len(todo) < MaxBatch - 1
          /\ item \in Item
          /\ codec \in [Streams -> LowTypes \cup HighTypes \cup {NoType}]
          /\ pipe \in [Streams -> Seq(Item)]
          /\ \A s \in Streams : Len(pipe[s]) <= PipeSize
          /\ first \in [Streams -> {"nothing", "sps", "frame"}]

(* What is written to an output can be decoded as far as the program can   *)
(* see to it: a video stream begins with an SPS, every SPS has the picture *)
(* height of its stream, whichever table it was written from, and the      *)
(* frames are those of the stream, in the order of the camera.             *)
Decodable ==
    \A s \in Streams :
       /\ first[s] = "frame" => s = "aac"
       /\ \A i \in DOMAIN pipe[s] :
            /\ pipe[s][i].s = s
            /\ pipe[s][i].sps => pipe[s][i].size = codec[s].size
            /\ \A j \in 1..(i - 1) : pipe[s][j].n < pipe[s][i].n

(* While everybody who has an output open reads it, no stream holds up the *)
(* others: a frame is taken up, or given up with the sync, once another    *)
(* one is there.  A client that goes away does not stop the program.       *)
MovesOn == \A c \in 1..(MaxFrames - 1) :
             (next = c /\ Len(log) > c) ~> (next > c \/ pc = "ended")
=============================================================================
