----------------------------- MODULE CaptureRing -----------------------------
(***************************************************************************)
(* capture() of rRTSPServer and the shared-memory ring it reads.           *)
(*                                                                         *)
(* The camera's own process (external) appends frames, each a header and   *)
(* its data, to a ring of N bytes behind a small table of contents: the    *)
(* index of the oldest frame, the length of all of them and the index of   *)
(* the end.  Nothing locks the ring (USE_SEMAPHORE is not built), so the   *)
(* words of the table change one at a time under the reader.  capture()    *)
(* takes an end that agrees with the table, walks the headers from where   *)
(* it stopped last, keeps the newest frame back and hands on the others.   *)
(*                                                                         *)
(* A pointer into the ring is its distance from offset: 0..N, where N, the *)
(* byte after the ring, can stand for 0.  Assumed of the camera: a frame   *)
(* the reader has not passed yet is not overwritten (the ring holds        *)
(* seconds, the reader looks every 25 ms).                                 *)
(***************************************************************************)
EXTENDS Integers, Sequences

CONSTANTS N,          \* bytes of the ring: input_buffer.size - offset
          H,          \* bytes of a header: frame_header_size
          Lens,       \* data lengths of the camera's frames
          MaxBatch,   \* slots of fhs[] and fhs_addr[], 10
          MaxFrames   \* bound: frames the camera writes

ASSUME RingAssumption == /\ N \in Nat \ {0} /\ H \in Nat \ {0} /\ H <= N
                         /\ Lens \subseteq 0..(N - H)
                         /\ MaxBatch \in Nat \ {0, 1}
                         /\ MaxFrames \in Nat

VARIABLES log,       \* the intact frames of the ring, oldest first
          wpos,      \* where the camera writes next
          count,     \* frames written, the counter of the newest
          toc,       \* the table: word 16 (start), word 4 (len), word 12 (end)
          unpub,     \* the words the camera still has to bring up to date
          pc,        \* where capture() is
          idx,       \* buf_idx
          end,       \* buf_idx_end
          prev,      \* buf_idx_end_prev
          cur,       \* buf_idx_cur
          fhs,       \* the headers walked in this pass, with their addresses
          lastSent,  \* counter of the last frame handed on in sync, 0 if none
          skipped,   \* a resynchronisation gave frames up since lastSent
          synced,    \* the end prev was taken from agreed with the table
          need       \* the first frame the reader has not passed

writerVars == <<log, wpos, count, toc, unpub>>
readerVars == <<pc, idx, end, prev, cur, fhs, lastSent, skipped, synced, need>>
vars == <<writerVars, readerVars>>

-----------------------------------------------------------------------------
(* Pointer arithmetic. *)

(* Definitions named Mut... are faults a change could bring in; the runs   *)
(* show that each of them breaks a property.                               *)

(* buf_idx + len, brought back into the ring.                              *)
MutRingEnd(p, k) == IF p + k > N THEN p + k - N ELSE p + k
RingEnd(p, k) == IF p + k >= N THEN p + k - N ELSE p + k

(* cb_move: the last byte + 1 is left as it is.                            *)
MutCbMove(p, k) == p + k
CbMove(p, k) == IF k > 0 /\ p + k > N THEN p + k - N
                ELSE IF k < 0 /\ p + k < 0 THEN p + k + N
                ELSE p + k

(* cb2s_memcpy, cb2s_headercpy, cb_memcmp: the bytes they touch, in order, *)
(* as ring positions.  A run that passes the end is cut in two.            *)
MutCbBytes(src, n) == [i \in 1..n |-> IF src + i > N THEN src + i - N ELSE src + i - 1]
CbBytes(src, n) == IF src + n > N
                   THEN [i \in 1..n |-> IF i <= N - src THEN src + i - 1
                                        ELSE i - (N - src) - 1]
                   ELSE [i \in 1..n |-> src + i - 1]

-----------------------------------------------------------------------------
(* The camera. *)

Words == {"start", "len", "end"}
FirstAt(l) == IF l = <<>> THEN wpos ELSE Head(l).at
From(p) == ((wpos - p - 1) % N) + 1        \* bytes from a frame at p on
Used(l) == IF l = <<>> THEN 0 ELSE From(Head(l).at)

Init == /\ log = <<>> /\ wpos = 0 /\ count = 0
        /\ toc = [w \in Words |-> 0] /\ unpub = {}
        /\ pc = "bootStart" /\ idx = 0 /\ end = 0 /\ prev = 0 /\ cur = 0
        /\ fhs = <<>> /\ lastSent = 0 /\ skipped = FALSE
        /\ synced = FALSE /\ need = MaxFrames + 1

(* A frame is written whole, over the k oldest ones it hits, before the    *)
(* table tells of it, and never up to the first one the reader has not     *)
(* passed.                                                                 *)
WriteFrame(len, k) ==
    LET kept == SubSeq(log, k + 1, Len(log)) IN
    /\ unpub = {}
    /\ count < MaxFrames
    /\ \A i \in 1..k : log[i].counter < need
    /\ H + len < N
    /\ \A i \in 1..Len(log) : log[i].counter >= need => From(log[i].at) + H + len < N
    /\ Used(kept) + H + len <= N
    /\ k > 0 => Used(SubSeq(log, k, Len(log))) + H + len > N
    /\ log' = Append(kept, [at |-> wpos, len |-> len, counter |-> count + 1])
    /\ wpos' = (wpos + H + len) % N
    /\ count' = count + 1
    /\ unpub' = Words
    /\ UNCHANGED <<toc, readerVars>>

(* The words of the table follow, in an order of the camera's own.         *)
Publish(w) ==
    /\ w \in unpub
    /\ unpub' = unpub \ {w}
    /\ toc' = [toc EXCEPT ![w] = CASE w = "start" -> FirstAt(log)
                                   [] w = "len" -> Used(log)
                                   [] w = "end" -> wpos]
    /\ UNCHANGED <<log, wpos, count, readerVars>>

-----------------------------------------------------------------------------
(* capture(). *)

(* What a header at p holds: a frame's, or whatever bytes are there.       *)
Junk == [len : Lens \cup {N}, counter : {0}]
FramesAt(p) == {log[i] : i \in {j \in 1..Len(log) : log[j].at = p % N}}
HeaderAt(p) == IF FramesAt(p) = {} THEN Junk
               ELSE {[len |-> f.len, counter |-> f.counter] : f \in FramesAt(p)}

OnFrame(p) == p % N = wpos \/ FramesAt(p) # {}
FirstNeeded(p) == IF p % N = wpos \/ FramesAt(p) = {} THEN count + 1
                  ELSE (CHOOSE f \in FramesAt(p) : TRUE).counter

(* The first end is taken from two reads of the table, unchecked.          *)
BootStart == /\ pc = "bootStart"
             /\ idx' = toc["start"]
             /\ pc' = "bootLen"
             /\ UNCHANGED <<writerVars, end, prev, cur, fhs, lastSent, skipped, synced, need>>

BootLen == /\ pc = "bootLen"
           /\ end' = RingEnd(idx, toc["len"])
           /\ prev' = end'
           /\ synced' = (end' = toc["end"])
           /\ need' = IF synced' THEN FirstNeeded(end') ELSE MaxFrames + 1
           /\ pc' = "start"
           /\ UNCHANGED <<writerVars, idx, cur, fhs, lastSent, skipped>>

ReadStart == /\ pc = "start"
             /\ idx' = toc["start"]
             /\ pc' = "len"
             /\ UNCHANGED <<writerVars, end, prev, cur, fhs, lastSent, skipped, synced, need>>

ReadLen == /\ pc = "len"
           /\ end' = RingEnd(idx, toc["len"])
           /\ pc' = "check"
           /\ UNCHANGED <<writerVars, idx, prev, cur, fhs, lastSent, skipped, synced, need>>

(* "Check if the header is ok": the end must be the one of word 12, and    *)
(* another one than last time.                                             *)
CheckFails == /\ pc = "check"
              /\ end # toc["end"] \/ end = prev
              /\ pc' = "start"
              /\ UNCHANGED <<writerVars, idx, end, prev, cur, fhs, lastSent,
                             skipped, synced, need>>

MutCheckPasses == /\ pc = "check"
                  /\ end # prev
                  /\ cur' = prev
                  /\ fhs' = <<>>
                  /\ pc' = "walk"
                  /\ need' = IF synced THEN need ELSE FirstNeeded(end)
                  /\ UNCHANGED <<writerVars, idx, end, prev, lastSent, skipped, synced>>

CheckPasses == /\ pc = "check"
               /\ end = toc["end"] /\ end # prev
               /\ cur' = prev
               /\ fhs' = <<>>
               /\ pc' = "walk"
               /\ need' = IF synced THEN need ELSE FirstNeeded(end)
               /\ UNCHANGED <<writerVars, idx, end, prev, lastSent, skipped, synced>>

(* One header of the walk; it ends the pass when the length is impossible  *)
(* or the slots are used up.                                               *)
WalkHeader ==
    /\ pc = "walk" /\ cur # end
    /\ \E h \in HeaderAt(cur) :
          IF h.len > N - H
          THEN pc' = "lost" /\ UNCHANGED <<fhs, cur>>
          ELSE /\ fhs' = Append(fhs, [at |-> cur, len |-> h.len, counter |-> h.counter])
               /\ cur' = CbMove(cur, h.len + H)
               /\ pc' = IF Len(fhs') = MaxBatch THEN "lost" ELSE "walk"
    /\ UNCHANGED <<writerVars, idx, end, prev, lastSent, skipped, synced, need>>

(* Sync lost: everything up to the end is given up.                        *)
MutResync == /\ pc = "lost"
             /\ pc' = "start"
             /\ fhs' = <<>>
             /\ skipped' = TRUE
             /\ UNCHANGED <<writerVars, idx, end, prev, cur, lastSent, synced, need>>

Resync == /\ pc = "lost"
          /\ prev' = end
          /\ synced' = TRUE
          /\ skipped' = TRUE
          /\ need' = FirstNeeded(end)
          /\ fhs' = <<>>
          /\ pc' = "start"
          /\ UNCHANGED <<writerVars, idx, end, cur, lastSent>>

(* "Ignore last frame, it could be corrupted": it is where the next pass   *)
(* begins.  A single frame waits.                                          *)
WalkAlone == /\ pc = "walk" /\ cur = end
             /\ Len(fhs) <= 1
             /\ fhs' = <<>>
             /\ need' = IF synced THEN need ELSE MaxFrames + 1
             /\ pc' = "start"
             /\ UNCHANGED <<writerVars, idx, end, prev, cur, lastSent, skipped, synced>>

MutWalkDone == /\ pc = "walk" /\ cur = end
               /\ Len(fhs) > 1
               /\ prev' = end
               /\ need' = FirstNeeded(end)
               /\ fhs' = SubSeq(fhs, 1, Len(fhs) - 1)
               /\ pc' = "send"
               /\ UNCHANGED <<writerVars, idx, end, cur, lastSent, skipped, synced>>

MutWalkDoneAll == /\ pc = "walk" /\ cur = end
                  /\ Len(fhs) > 1
                  /\ prev' = fhs[Len(fhs)].at
                  /\ pc' = "send"
                  /\ UNCHANGED <<writerVars, idx, end, cur, fhs, lastSent,
                                 skipped, synced, need>>

WalkDone == /\ pc = "walk" /\ cur = end
            /\ Len(fhs) > 1
            /\ prev' = fhs[Len(fhs)].at
            /\ fhs' = SubSeq(fhs, 1, Len(fhs) - 1)
            /\ pc' = "send"
            /\ UNCHANGED <<writerVars, idx, end, cur, lastSent, skipped, synced, need>>

(* The frames go to the queues one by one; the pass is over after them.    *)
Send == /\ pc = "send"
        /\ fhs # <<>>
        /\ lastSent' = IF synced THEN Head(fhs).counter ELSE lastSent
        /\ skipped' = FALSE
        /\ fhs' = Tail(fhs)
        /\ UNCHANGED <<writerVars, pc, idx, end, prev, cur, synced, need>>

PassOver == /\ pc = "send"
            /\ fhs = <<>>
            /\ need' = IF synced THEN FirstNeeded(prev) ELSE MaxFrames + 1
            /\ pc' = "start"
            /\ UNCHANGED <<writerVars, idx, end, prev, cur, fhs, lastSent, skipped, synced>>

Camera == \/ \E len \in Lens : \E k \in 0..Len(log) : WriteFrame(len, k)
          \/ \E w \in Words : Publish(w)

Reader == \/ BootStart \/ BootLen \/ ReadStart \/ ReadLen \/ CheckFails \/ CheckPasses
          \/ WalkHeader \/ Resync \/ WalkAlone \/ WalkDone \/ Send \/ PassOver

Next == Camera \/ Reader

Spec == Init /\ [][Next]_vars

-----------------------------------------------------------------------------
Ptr == 0..N
Headers == [at : Ptr, len : 0..N, counter : 0..MaxFrames]

(* Every variable stays in its type: no pointer leaves the ring, and fhs[] *)
(* and fhs_addr[] are never written past their last slot.                  *)
TypeOK == /\ log \in Seq([at : 0..(N - 1), len : 0..N, counter : 1..MaxFrames])
          /\ wpos \in 0..(N - 1) /\ count \in 0..MaxFrames
          /\ toc \in [Words -> Ptr] /\ unpub \subseteq Words
          /\ pc \in {"bootStart", "bootLen", "start", "len", "check", "walk", "lost", "send"}
          /\ idx \in Ptr /\ end \in Ptr /\ prev \in Ptr /\ cur \in Ptr
          /\ fhs \in Seq(Headers) /\ Len(fhs) <= MaxBatch
          /\ lastSent \in 0..MaxFrames
          /\ skipped \in BOOLEAN /\ synced \in BOOLEAN
          /\ need \in 1..(MaxFrames + 1)

(* Copies, header reads and comparisons that start where capture() may     *)
(* stand, the byte after the ring included, touch the n bytes that follow  *)
(* in the ring and no other.                                               *)
CopiesWrap == \A p \in {prev, cur} : \A n \in 0..N :
                 CbBytes(p, n) = [i \in 1..n |-> (p + i - 1) % N]

(* Once the reader starts at a frame it always does, and every header it   *)
(* hands on is that of a frame: an end it accepts is one the camera has    *)
(* published, torn reads of the table and the byte after the ring          *)
(* notwithstanding.                                                        *)
StaysAligned == synced => /\ OnFrame(prev)
                          /\ pc = "send" => \A i \in 1..Len(fhs) : fhs[i].counter # 0

(* Frames are handed on in the order the camera numbered them, none twice, *)
(* though the newest of a pass is walked again in the next one.            *)
SentInOrder == synced /\ pc = "send" /\ fhs # <<>> => Head(fhs).counter > lastSent

(* A frame is given up only by a resynchronisation: else the next frame    *)
(* handed on is the next one the camera wrote.                             *)
NoSilentLoss == [][lastSent' # lastSent /\ lastSent # 0 /\ ~skipped
                   => lastSent' = lastSent + 1]_vars

(* "Check if the sync is lost": a reader that stands at a frame, in a ring *)
(* whose new frames are all intact, does not find the sync lost.           *)
SyncLossIsReal == synced => pc # "lost"

(* A frame the reader needs is handed on or given up by a                  *)
(* resynchronisation once the camera has written two more.                 *)
FramesMoveOn == \A c \in 1..(MaxFrames - 2) :
    (synced /\ need = c /\ count > c + 1) ~> (need > c)
=============================================================================
