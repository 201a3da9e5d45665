------------------------------- MODULE Snapshot -------------------------------
(***************************************************************************)
(* imggrabber, which makes one JPEG, and thumb.sh, which has it make one   *)
(* for every recorded video.                                               *)
(*                                                                         *)
(* A call takes its picture from the ring of the camera (snapshot.sh,      *)
(* time_lapse.sh) or from the H.26x file demultiplexed from a video        *)
(* (thumb.sh).  There is little memory, so a call that finds another one   *)
(* in /proc gives up, with an exit status of 0 and nothing on stdout; the  *)
(* script has then made an empty .jpg, which its next round removes and    *)
(* the round after that makes anew.                                        *)
(*                                                                         *)
(* A frame is its kind, a NAL unit of a file its first byte.  Left out:    *)
(* the pixels, the choice of a resolution (the frames of the other one are *)
(* of kind "p" here), and that a frame is overwritten between the walk and *)
(* the copy: the ring holds seconds.                                       *)
(***************************************************************************)
EXTENDS Integers, Sequences, FiniteSetsExt

CONSTANTS MaxPid,    \* pids are 1..MaxPid, used again in any order
          Videos,    \* the recorded videos, in the order find lists them
          Files,     \* H.26x files minimp4 makes of a video
          Gop,       \* the kinds of the camera's frames, again and again
          Depth,     \* frames the ring holds
          MaxShots,  \* bound: calls by the web server and the time lapse
          MaxReboots \* bound

Kinds == {"vps", "sps", "pps", "idr", "p"}
Needed == {Gop[k] : k \in 1..Len(Gop)} \ {"p"}

ASSUME SnapshotAssumption ==
    /\ MaxPid \in Nat \ {0} /\ Videos \subseteq Nat \ {0}
    /\ \A f \in Files : f \in Seq(0..255) /\ f # <<>>
    /\ Gop \in Seq(Kinds) /\ {"sps", "pps", "idr"} \subseteq Needed
    /\ Depth \in Nat /\ Depth >= Len(Gop)
    /\ MaxShots \in Nat /\ MaxReboots \in Nat

VARIABLES on,        \* the system runs: it is only off at first, if at all
          enabled,   \* there is no /tmp/snapshot.disabled
          procs,     \* by pid: the calls of imggrabber
          script,    \* thumb.sh
          jpg,       \* by video: its .jpg
          ring,      \* how many frames it holds, and which kind comes next; n = -1: no camera
          shots,     \* calls that were not the script's
          reboots

snapVars == <<on, enabled, procs, script, jpg, ring, shots, reboots>>

Pids == 1..MaxPid
NoProc == [job |-> 0, pc |-> "none", at |-> 0, parts |-> {}, whole |-> FALSE]
Asleep == [pc |-> "asleep", todo |-> {}, video |-> 0, status |-> 0]
NoRing == [n |-> -1, next |-> 1]
Live(p) == procs[p].pc # "none"

SnapInit == /\ on \in BOOLEAN /\ enabled \in BOOLEAN
            /\ procs = [p \in Pids |-> NoProc]
            /\ script = Asleep
            /\ jpg = [v \in Videos |-> "unrecorded"]
            /\ ring = NoRing /\ shots = 0 /\ reboots = 0

-----------------------------------------------------------------------------
(* The camera, the users and the power (external).                         *)
CameraWrites ==
    /\ on
    /\ ring' = IF ring.n = -1 THEN [ring EXCEPT !.n = 0]
               ELSE [n |-> IF ring.n < Depth THEN ring.n + 1 ELSE Depth,
                     next |-> (ring.next % Len(Gop)) + 1]
    /\ UNCHANGED <<on, enabled, procs, script, jpg, shots, reboots>>

Records(v) ==
    /\ on /\ jpg[v] = "unrecorded"
    /\ jpg' = [jpg EXCEPT ![v] = "none"]
    /\ UNCHANGED <<on, enabled, procs, script, ring, shots, reboots>>

(* What was written to a .jpg stays, empty, whole or cut off; everything   *)
(* that runs is gone.                                                      *)
Reboot ==
    /\ on /\ reboots < MaxReboots
    /\ reboots' = reboots + 1
    /\ procs' = [p \in Pids |-> NoProc]
    /\ script' = Asleep /\ ring' = NoRing
    /\ UNCHANGED <<on, enabled, jpg, shots>>

-----------------------------------------------------------------------------
(* imggrabber. *)

(* exec: from here on the call is in /proc, under any pid that is free.    *)
Exec(p, job) == [procs EXCEPT ![p] = [NoProc EXCEPT !.job = job, !.pc = "start"]]

Calls(p) ==
    /\ on /\ ~Live(p) /\ shots < MaxShots
    /\ shots' = shots + 1
    /\ procs' = Exec(p, 0)
    /\ UNCHANGED <<on, enabled, script, jpg, ring, reboots>>

(* The end of a call, with what the script sees of it.                     *)
Exits(p, status) ==
    /\ procs' = [procs EXCEPT ![p] = NoProc]
    /\ script' = IF procs[p].job = 0 THEN script
                 ELSE [script EXCEPT !.pc = "told", !.status = status]
Goes(p, pc) == procs' = [procs EXCEPT ![p].pc = pc] /\ UNCHANGED script

Begins(p) ==
    /\ procs[p].pc = "start"
    /\ IF enabled THEN Goes(p, "look") ELSE Exits(p, 0)
    /\ UNCHANGED <<on, enabled, jpg, ring, shots, reboots>>

(* Definitions named Mut... are faults a change could bring in; the runs   *)
(* show which property each of them breaks.                                *)

(* proc_find: /proc lists the pids upwards, one readdir at a time, while   *)
(* other calls come and go.                                                *)
MutLook(p) ==
    /\ procs[p].pc = "look"
    /\ LET at == procs[p].at + 1 IN
       IF at >= p THEN Goes(p, IF procs[p].job = 0 THEN "map" ELSE "split")
       ELSE IF Live(at) THEN Exits(p, 0)
       ELSE procs' = [procs EXCEPT ![p].at = at] /\ UNCHANGED script
    /\ UNCHANGED <<on, enabled, jpg, ring, shots, reboots>>
Look(p) ==
    /\ procs[p].pc = "look"
    /\ LET at == procs[p].at + 1 IN
       IF at > MaxPid THEN Goes(p, IF procs[p].job = 0 THEN "map" ELSE "split")
       ELSE IF at # p /\ Live(at) THEN Exits(p, 0)
       ELSE procs' = [procs EXCEPT ![p].at = at] /\ UNCHANGED script
    /\ UNCHANGED <<on, enabled, jpg, ring, shots, reboots>>

(* The ring is mapped, if there is one.                                    *)
Window == [k \in 1..ring.n |-> Gop[((ring.next - 1 - ring.n + k - 1) % Len(Gop)) + 1]]
KindsOf(w) == {w[k] : k \in 1..Len(w)} \ {"p"}

MapRing(p) ==
    /\ procs[p].pc = "map"
    /\ IF ring.n = -1 THEN Exits(p, 1)
       ELSE /\ procs' = [procs EXCEPT ![p].pc = "search",
                                      ![p].whole = Needed \subseteq KindsOf(Window)]
            /\ UNCHANGED script
    /\ UNCHANGED <<on, enabled, jpg, ring, shots, reboots>>

(* A pass from the oldest frame to the end: each kind is taken where it    *)
(* was met last.  The search is over when there is an SPS.                 *)
WholePass(p) ==
    /\ procs[p].pc = "search" /\ ring.n >= 0
    /\ procs' = [procs EXCEPT ![p].parts = @ \cup KindsOf(Window),
                              ![p].pc = IF "sps" \in KindsOf(Window) THEN "copy" ELSE "search"]
    /\ UNCHANGED <<on, enabled, script, jpg, ring, shots, reboots>>

(* A pass that meets a header the camera is writing over, after k frames:  *)
(* its length shows it, and what was an SPS so far is no longer one.       *)
MutBrokenPass(p) ==
    /\ procs[p].pc = "search"
    /\ \E k \in 0..(ring.n - 1) :
         LET met == KindsOf(SubSeq(Window, 1, k)) IN
         procs' = [procs EXCEPT ![p].parts = @ \cup met,
                                ![p].pc = IF "sps" \in met THEN "copy" ELSE "search"]
    /\ UNCHANGED <<on, enabled, script, jpg, ring, shots, reboots>>
BrokenPass(p) ==
    /\ procs[p].pc = "search"
    /\ \E k \in 0..(ring.n - 1) :
         procs' = [procs EXCEPT ![p].parts = (@ \cup KindsOf(SubSeq(Window, 1, k))) \ {"sps"}]
    /\ UNCHANGED <<on, enabled, script, jpg, ring, shots, reboots>>

(* VPS, SPS, PPS and IDR are copied behind each other, those that were not *)
(* met with a length of 0: nobody asks for a PPS or an IDR.                *)
Copy(p) ==
    /\ procs[p].pc = "copy" /\ Goes(p, "decode")
    /\ UNCHANGED <<on, enabled, jpg, ring, shots, reboots>>

-----------------------------------------------------------------------------
(* The H.26x file, as a sequence of the first bytes of its NAL units.      *)

H264(b, type) == b % 32 = type
H265(b, type) == (b \div 2) % 64 = type

StartClass(b) == IF H265(b, 32) THEN "vps"
                 ELSE IF H264(b, 7) \/ H265(b, 33) THEN "sps"
                 ELSE IF H264(b, 8) \/ H265(b, 34) THEN "pps"
                 ELSE IF H264(b, 5) \/ H265(b, 19) THEN "idr"
                 ELSE "none"
EndClass(b) == IF H265(b, 33) THEN "vps"
               ELSE IF H264(b, 8) \/ H265(b, 34) THEN "sps"
               ELSE IF H264(b, 5) \/ H265(b, 19) THEN "pps"
               ELSE "none"

(* The rounds of the loop over the file: each finds the next unit that     *)
(* starts a part (i) and the next one behind it that ends one (j), where   *)
(* the next round begins.  0: there is none.                               *)
FirstOf(S) == IF S = {} THEN 0 ELSE Min(S)
LastOf(S) == IF S = {} THEN 0 ELSE Max(S)

MutRounds(f) ==
    LET From[k \in 1..(Len(f) + 2)] ==
          LET i == FirstOf({n \in k..Len(f) : StartClass(f[n]) # "none"})
              j == FirstOf({n \in (i + 1)..Len(f) : EndClass(f[n]) # "none"}) IN
          IF i = 0 THEN {}
          ELSE {<<i, j>>} \cup (IF j = 0 THEN {} ELSE From[j + 1])
    IN From[1]
Rounds(f) ==
    LET From[k \in 1..(Len(f) + 1)] ==
          LET i == FirstOf({n \in k..Len(f) : StartClass(f[n]) # "none"})
              j == FirstOf({n \in (i + 1)..Len(f) : EndClass(f[n]) # "none"}) IN
          IF i = 0 THEN {}
          ELSE {<<i, j>>} \cup (IF j = 0 THEN {} ELSE From[j])
    IN From[1]

(* Where a part starts and ends, as the last rounds to meet it left it.    *)
Starts(f, c) == LastOf({r[1] : r \in {x \in Rounds(f) : StartClass(f[x[1]]) = c}})
Ends(f, c) == LastOf({r[2] : r \in {x \in Rounds(f) : x[2] # 0 /\ EndClass(f[x[2]]) = c}})

Accepted(f) == /\ \A c \in {"sps", "pps", "idr"} : Starts(f, c) > 0
               /\ \A c \in {"sps", "pps"} : Ends(f, c) > 0
HasVps(f) == Starts(f, "vps") > 0 /\ Ends(f, "vps") > 0
Part(f, c) == SubSeq(f, Starts(f, c), IF c = "idr" THEN Len(f) ELSE Ends(f, c) - 1)
Picture(f) == (IF HasVps(f) THEN Part(f, "vps") ELSE <<>>)
              \o Part(f, "sps") \o Part(f, "pps") \o Part(f, "idr")

(* The file is missing if the video could not be demultiplexed.            *)
Splittable == {f \in Files : Accepted(f)}
SplitFile(p) ==
    /\ procs[p].pc = "split"
    /\ \/ Splittable # {} /\ Goes(p, "decode")
       \/ Exits(p, 1)
    /\ UNCHANGED <<on, enabled, jpg, ring, shots, reboots>>

(* Decoding, the watermark and the JPEG may fail, and so may the free() of *)
(* a pointer that is set for a file only.  Of parts that make no picture   *)
(* got_picture, which is set when there is one and never before, decides.  *)
(* Of the image there may be only a part when the call is over.            *)
GivesUp(p) ==
    /\ procs[p].pc = "decode" /\ Exits(p, 1)
    /\ UNCHANGED <<on, enabled, jpg, ring, shots, reboots>>

Writes(p) ==
    /\ procs[p].pc = "decode" /\ Goes(p, "write")
    /\ jpg' = IF procs[p].job = 0 THEN jpg ELSE [jpg EXCEPT ![procs[p].job] = "part"]
    /\ UNCHANGED <<on, enabled, ring, shots, reboots>>

Ready(p) ==
    /\ procs[p].pc = "write" /\ Exits(p, 0)
    /\ jpg' = IF procs[p].job = 0 THEN jpg ELSE [jpg EXCEPT ![procs[p].job] = "image"]
    /\ UNCHANGED <<on, enabled, ring, shots, reboots>>

Grabs(p) == \/ Begins(p) \/ Look(p) \/ MapRing(p) \/ WholePass(p) \/ BrokenPass(p)
            \/ Copy(p) \/ SplitFile(p) \/ GivesUp(p) \/ Writes(p) \/ Ready(p)

-----------------------------------------------------------------------------
(* thumb.sh: a round a minute, over the videos there were when it began.   *)
Round ==
    /\ on /\ script.pc = "asleep"
    /\ {v \in Videos : jpg[v] # "unrecorded"} # {}
    /\ script' = [script EXCEPT !.pc = "next", !.todo = {v \in Videos : jpg[v] # "unrecorded"}]
    /\ UNCHANGED <<on, enabled, procs, jpg, ring, shots, reboots>>

Done(v) == [script EXCEPT !.pc = IF script.todo = {v} THEN "asleep" ELSE "next",
                          !.todo = @ \ {v}, !.video = 0, !.status = 0]

(* The shell opens the .jpg, then runs imggrabber with it as stdout.  If   *)
(* the video could not be demultiplexed there is no file to read.          *)
Makes(v) ==
    /\ script.pc = "next" /\ script.todo # {} /\ v = Min(script.todo) /\ jpg[v] = "none"
    /\ \E p \in Pids : ~Live(p) /\ procs' = Exec(p, v)
    /\ jpg' = [jpg EXCEPT ![v] = "empty"]
    /\ script' = [script EXCEPT !.pc = "waits", !.video = v]
    /\ UNCHANGED <<on, enabled, ring, shots, reboots>>

(* An empty .jpg is removed, for the next round; any other one is kept.    *)
MutPasses(v) ==
    /\ script.pc = "next" /\ script.todo # {} /\ v = Min(script.todo) /\ jpg[v] # "none"
    /\ script' = Done(v)
    /\ UNCHANGED <<on, enabled, procs, jpg, ring, shots, reboots>>
Passes(v) ==
    /\ script.pc = "next" /\ script.todo # {} /\ v = Min(script.todo) /\ jpg[v] # "none"
    /\ jpg' = IF jpg[v] = "empty" THEN [jpg EXCEPT ![v] = "none"] ELSE jpg
    /\ script' = Done(v)
    /\ UNCHANGED <<on, enabled, procs, ring, shots, reboots>>

Told ==
    /\ script.pc = "told"
    /\ jpg' = IF script.status = 0 THEN jpg ELSE [jpg EXCEPT ![script.video] = "fallback"]
    /\ script' = Done(script.video)
    /\ UNCHANGED <<on, enabled, procs, ring, shots, reboots>>

Thumb == Round \/ Told \/ \E v \in Videos : Makes(v) \/ Passes(v)

-----------------------------------------------------------------------------
SnapNext == \/ CameraWrites \/ Reboot \/ Thumb
            \/ \E v \in Videos : Records(v)
            \/ \E p \in Pids : Calls(p) \/ Grabs(p)

SnapSpec == SnapInit /\ [][SnapNext]_snapVars

(* Every process is scheduled, cron goes on, and so does the camera; a     *)
(* search that looks again and again meets a ring that is not being        *)
(* written just then.                                                      *)
SnapFairness == /\ WF_snapVars(CameraWrites) /\ WF_snapVars(Thumb)
                /\ \A p \in Pids : WF_snapVars(Grabs(p)) /\ SF_snapVars(WholePass(p) /\ ring.n = Depth)

-----------------------------------------------------------------------------
Pcs == {"none", "start", "look", "map", "search", "copy", "split", "decode", "write"}
Proc == [job : Videos \cup {0}, pc : Pcs, at : 0..MaxPid, parts : SUBSET Kinds, whole : BOOLEAN]
SnapTypeOK ==
    /\ on \in BOOLEAN /\ enabled \in BOOLEAN
    /\ procs \in [Pids -> Proc]
    /\ script \in [pc : {"asleep", "next", "waits", "told"}, todo : SUBSET Videos,
                   video : Videos \cup {0}, status : {0, 1}]
    /\ jpg \in [Videos -> {"unrecorded", "none", "empty", "part", "image", "fallback"}]
    /\ ring \in [n : -1..Depth, next : 1..Len(Gop)]
    /\ shots \in 0..MaxShots /\ reboots \in 0..MaxReboots

(* However calls start, look through /proc and end, and whatever pids they *)
(* get: two never search, decode or write at once.  The test and the work  *)
(* are not one step; being in /proc before looking is what protects them.  *)
Working == {p \in Pids : procs[p].pc \in {"map", "search", "copy", "split", "decode", "write"}}
OneAtATime == \A p, q \in Working : p = q

(* A search that began on a ring with a whole group of frames ends with    *)
(* all parts of a picture, also when the camera wrote over the frames of   *)
(* some passes; only in the first moments of a stream can an SPS alone be  *)
(* handed to the decoder.                                                  *)
PartsComplete == \A p \in Pids :
    procs[p].pc = "copy" /\ procs[p].whole => Needed \subseteq procs[p].parts

Shown(f) ==
    /\ Accepted(f)
    /\ \A c \in {"sps", "pps"} : Starts(f, c) < Ends(f, c)
    /\ HasVps(f) <=> StartClass(f[1]) = "vps"
    /\ LET pic == Picture(f)
           first(c) == FirstOf({k \in 1..Len(pic) : StartClass(pic[k]) = c}) IN
       /\ 0 < first("sps") /\ first("sps") < first("idr")
       /\ 0 < first("pps") /\ first("pps") < first("idr")
AllShown == \A f \in Files : Shown(f)

(* A file that begins with a key frame: an IDR comes after an SPS and a    *)
(* PPS, between an SPS and an IDR there is a PPS, and a PPS has its IDR.   *)
(* The first part is an SPS if it is H.264.  If it is H.265 the file       *)
(* begins with the VPS, and no unit looks like an SPS of H.264.            *)
UnitsOf(f, c) == {k \in 1..Len(f) : StartClass(f[k]) = c}
KeyFrameFirst(f) ==
    /\ UnitsOf(f, "idr") # {}
    /\ \A k \in UnitsOf(f, "idr") :
          \E l \in UnitsOf(f, "sps"), m \in UnitsOf(f, "pps") : l < m /\ m < k
    /\ \A l \in UnitsOf(f, "sps") : \E m \in UnitsOf(f, "pps") :
          l < m /\ \A k \in UnitsOf(f, "idr") : l < k => m < k
    /\ \A m \in UnitsOf(f, "pps") : \E k \in UnitsOf(f, "idr") : m < k
    /\ \/ \E l \in UnitsOf(f, "sps") : \A k \in 1..(l - 1) : StartClass(f[k]) = "none"
       \/ StartClass(f[1]) = "vps" /\ \A l \in UnitsOf(f, "sps") : EndClass(f[l]) = "vps"

(* Whatever file a call comes to split, if it begins with a key frame the  *)
(* loop makes a picture of it that can be decoded, with the right decoder: *)
(* no IDR comes before an SPS and a PPS, whatever else the file holds and  *)
(* however many key frames follow.                                         *)
KeyFrameShown == (\E p \in Pids : procs[p].pc = "split") => AllShown

(* A video gets its image, or the fallback, though other calls turn the    *)
(* script's away and a reboot may interrupt it, provided snapshots are not *)
(* disabled and the other calls stop.                                      *)
ThumbSettles == \A v \in Videos :
    (jpg[v] = "none") ~> (jpg[v] \in {"part", "image", "fallback"} \/ ~enabled)
=============================================================================
