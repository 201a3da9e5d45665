---------------------------- MODULE ProgramsProofs ----------------------------
(***************************************************************************)
(* Theorems about the three programs of MCPrograms, for every value of their *)
(* constants: the sessions of rRTSPServer offer what is fed, one imggrabber *)
(* works at a time and has all parts of its picture, and the presets of    *)
(* ptz_presets.sh and of the camera agree.                                 *)
(***************************************************************************)
EXTENDS MCPrograms, FiniteSetTheorems, SequenceTheorems, WellFoundedInduction, TLAPS

(* The least and the greatest number of a set.                             *)
LEMMA MinExists ==
    ASSUME NEW S \in SUBSET Nat, S # {} PROVE \E x \in S : \A y \in S : x <= y
<1> DEFINE R == OpToRel(<, Nat)
<1>1. IsWellFoundedOn(R, Nat)
  BY NatLessThanWellFounded
<1>2. \A x, y \in Nat : y < x => <<y, x>> \in R
  BY DEF OpToRel
<1> HIDE DEF R
<1>3. PICK x \in S : \A y \in S : ~ (<<y, x>> \in R)
  BY <1>1, WFMin
<1>4. ASSUME NEW y \in S PROVE x <= y
  <2>1. x \in Nat /\ y \in Nat
    OBVIOUS
  <2>2. ~(y < x)
    BY <1>2, <1>3, <2>1
  <2>3. QED
    BY <2>1, <2>2
<1>5. QED
  BY <1>4

LEMMA MaxExists ==
    ASSUME NEW n \in Nat, NEW S \in SUBSET (1..n), S # {}
    PROVE  \E x \in S : \A y \in S : y <= x
<1> DEFINE F == {n - i : i \in S}
<1>0. \A i \in S : i \in Int /\ n - i \in Nat
  OBVIOUS
<1>1. F \in SUBSET Nat /\ F # {}
  BY <1>0
<1> HIDE DEF F
<1>2. PICK x \in F : \A y \in F : x <= y
  BY <1>1, MinExists
<1>3. PICK i \in S : x = n - i
  BY <1>2 DEF F
<1>4. ASSUME NEW j \in S PROVE j <= i
  <2>1. n - j \in F
    BY DEF F
  <2>2. n - i <= n - j /\ i \in Int /\ j \in Int
    BY <1>0, <1>2, <1>3, <2>1
  <2>3. QED
    BY <2>2
<1>5. QED
  BY <1>4

-----------------------------------------------------------------------------
(***************************************************************************)
(* The start of rRTSPServer.                                               *)
(***************************************************************************)

Settings == [v : {1, 2}, res : {"low", "high", "both", "none"}, audio : {0, 1, 2},
             convert : {"ulaw", "alaw", "pcm"}, back : {"none", "alaw", "ulaw", "aac"}]
Codecs == {"none", "h264", "h265"}
QueueNames == Video \cup {"audio"}

(* Which session main() builds, and of what, from what is settled then.    *)
Built(s) == IF s = "audio" THEN setting.audio # 0 ELSE Offers(s)
Subs(s) == CASE s = "high" -> VideoSub("high") \cup AudioSub \cup BackSub
             [] s = "low" -> VideoSub("low") \cup AudioSub
                             \cup IF setting.res = "low" THEN BackSub ELSE {}
             [] OTHER -> AudioSub \cup IF setting.res = "none" THEN BackSub ELSE {}

(* The sessions that main() has got to at each of its steps.               *)
Before == {"options", "environment", "files", "queues", "wait", "high"}
Reached == CASE step = "low" -> {"high"}
             [] step = "audio" -> {"high", "low"}
             [] step = "serving" -> {"high", "low", "audio"}
             [] OTHER -> {}

SettingOK == setting \in Settings
CodecOK == /\ codecOf \in [Video -> Codecs]
           /\ step \in {"high", "low", "audio", "serving"} => CodecsKnown
Marked == /\ DOMAIN queueType = QueueNames
          /\ step \in {"wait", "high", "low", "audio", "serving"} =>
               \A q \in QueueNames :
                  queueType[q] # "none" <=> IF q = "audio" THEN setting.audio = 2 ELSE Offers(q)
Sessions == step # "failed" => /\ DOMAIN sessions = {s \in Reached : Built(s)}
                               /\ \A s \in DOMAIN sessions : sessions[s] = Subs(s)

SetupIInv == /\ step \in Before \cup {"failed", "low", "audio", "serving"}
             /\ SettingOK /\ CodecOK /\ Marked /\ Sessions

-----------------------------------------------------------------------------
LEMMA ApplyType ==
    ASSUME NEW s \in Settings, NEW given \in Given PROVE Apply(s, given) \in Settings
<1>1. \A x : \A t \in Settings : Model(t, x) \in Settings
  BY DEF Model, Settings
<1>2. \A x : \A t \in Settings : Res(t, x) \in Settings
  BY DEF Res, Settings
<1>3. \A x : \A t \in Settings : Audio(t, x) \in Settings
  BY DEF Audio, Settings
<1>4. \A x : \A t \in Settings : Back(t, x) \in Settings
  BY DEF Back, Settings
<1>5. QED
  BY <1>1, <1>2, <1>3, <1>4 DEF Apply

LEMMA SetupInitIInv == SetupInit => SetupIInv
<1> SUFFICES ASSUME SetupInit PROVE SetupIInv
  OBVIOUS
<1>1. SettingOK /\ CodecOK
  BY DEF SetupInit, SettingOK, CodecOK, Default, Settings, Codecs
<1>2. Marked /\ Sessions
  BY DEF SetupInit, Marked, QueueNames, Sessions, Reached
<1>3. QED
  BY <1>1, <1>2 DEF SetupInit, SetupIInv, Before

(* Adding a session leaves the ones there are as they are.                 *)
LEMMA AddAdds ==
    ASSUME NEW s, NEW subs, Add(s, subs)
    PROVE  /\ DOMAIN sessions' = DOMAIN sessions \cup {s}
           /\ sessions'[s] = subs
           /\ \A x \in DOMAIN sessions \ {s} : sessions'[x] = sessions[x]
  BY DEF Add

LEMMA SetupStep == SetupIInv /\ (args \in Given /\ env \in Given) /\ [SetupNext]_setupVars
          => SetupIInv'
<1> SUFFICES ASSUME SetupIInv, args \in Given, env \in Given, [SetupNext]_setupVars
             PROVE SetupIInv'
  OBVIOUS
<1> USE DEF SetupIInv
<1>1. CASE ReadOptions \/ ReadEnvironment
  <2>1. setting' \in Settings
    BY <1>1, ApplyType DEF ReadOptions, ReadEnvironment, SettingOK
  <2>2. SettingOK' /\ CodecOK' /\ Marked' /\ Sessions'
    BY <1>1, <2>1 DEF ReadOptions, ReadEnvironment, SettingOK, CodecOK, Marked, Sessions, Reached
  <2>3. QED
    BY <1>1, <2>2 DEF ReadOptions, ReadEnvironment, Before
<1>2. CASE NoBuffer
  BY <1>2 DEF NoBuffer, SettingOK, CodecOK, Marked, Sessions
<1>3. CASE CheckFiles
  <2>1. setting' \in Settings
    BY <1>3 DEF CheckFiles, SettingOK, Settings
  <2>2. SettingOK' /\ CodecOK' /\ Marked' /\ Sessions'
    BY <1>3, <2>1 DEF CheckFiles, SettingOK, CodecOK, Marked, Sessions, Reached
  <2>3. QED
    BY <1>3, <2>2 DEF CheckFiles, Before
<1>4. CASE SetQueues
  <2>1. Marked'
    BY <1>4 DEF SetQueues, Marked, QueueNames, Video, Offers, SettingOK, Settings
  <2>2. SettingOK' /\ CodecOK' /\ Sessions'
    BY <1>4 DEF SetQueues, SettingOK, CodecOK, Sessions, Reached
  <2>3. QED
    BY <1>4, <2>1, <2>2 DEF SetQueues, Before
<1>5. CASE ServerUp
  <2>1. SettingOK' /\ CodecOK' /\ Marked' /\ Sessions'
    BY <1>5 DEF ServerUp, SettingOK, CodecOK, CodecsKnown, Marked, Offers, Sessions, Reached
  <2>2. QED
    BY <1>5, <2>1 DEF ServerUp, Before
<1>6. CASE BuildHigh \/ BuildLow \/ BuildAudio
  <2>1. SettingOK' /\ CodecOK' /\ Marked'
    BY <1>6 DEF BuildHigh, BuildLow, BuildAudio, SettingOK, CodecOK, CodecsKnown, Marked, Offers
  <2>2. \A s : Built(s)' = Built(s) /\ Subs(s)' = Subs(s)
    BY <1>6 DEF BuildHigh, BuildLow, BuildAudio, Built, Subs, Offers, VideoSub, AudioSub, BackSub
  <2>3. PICK s \in {"high", "low", "audio"} :
          /\ IF Built(s) THEN Add(s, Subs(s)) ELSE UNCHANGED sessions
          /\ Reached' = Reached \cup {s}
          /\ s \notin Reached
          /\ step # "failed"
    BY <1>6 DEF BuildHigh, BuildLow, BuildAudio, Built, Subs, Reached
  <2>4. Sessions'
    <3>1. CASE Built(s)
      BY <2>2, <2>3, <3>1, AddAdds DEF Sessions
    <3>2. CASE ~Built(s)
      BY <2>2, <2>3, <3>2 DEF Sessions
    <3>3. QED
      BY <3>1, <3>2
  <2>5. QED
    BY <1>6, <2>1, <2>4 DEF BuildHigh, BuildLow, BuildAudio, Before
<1>7. ASSUME NEW s \in Video, Detection(s) PROVE SetupIInv'
  <2>1. step = "wait"
    BY <1>7 DEF Detection, CodecOK, CodecsKnown, Before
  <2>2. SettingOK' /\ CodecOK' /\ Marked' /\ Sessions'
    BY <1>7, <2>1 DEF Detection, SettingOK, CodecOK, Codecs, Marked, Offers, Sessions, Reached
  <2>3. QED
    BY <1>7, <2>2 DEF Detection
<1>8. CASE UNCHANGED setupVars
  BY <1>8 DEF setupVars, SettingOK, CodecOK, CodecsKnown, Marked, Offers, Sessions, Reached,
              Built, Subs, VideoSub, AudioSub, BackSub
<1>9. QED
  BY <1>1, <1>2, <1>3, <1>4, <1>5, <1>6, <1>7, <1>8 DEF SetupNext

-----------------------------------------------------------------------------
(* The sessions with a back channel: one, if there is one to offer.        *)
Holding == {s \in DOMAIN sessions : \E u \in sessions[s] : u.from = "client"}

LEMMA InvOffered == SetupIInv => OfferedIsFed
<1> SUFFICES ASSUME SetupIInv, step = "serving" PROVE OfferedIsFed
  BY DEF OfferedIsFed
<1>0. /\ setting \in Settings /\ codecOf \in [Video -> Codecs] /\ CodecsKnown
      /\ DOMAIN sessions = {s \in {"high", "low", "audio"} : Built(s)}
      /\ \A s \in DOMAIN sessions : sessions[s] = Subs(s)
  BY DEF SetupIInv, SettingOK, CodecOK, Sessions, Reached
<1> DEFINE Read(q) == \E s \in DOMAIN sessions : \E u \in sessions[s] : u.from = q
<1>1. \A s \in Video : s \in DOMAIN sessions
        => sessions[s] = Subs(s) /\ VideoSub(s) = {[kind |-> codecOf[s], from |-> s]}
  BY <1>0 DEF Video, CodecsKnown, VideoSub
<1>2. ASSUME NEW s \in Video
      PROVE  /\ s \in DOMAIN sessions <=> s \in Filled
             /\ s \in DOMAIN sessions => [kind |-> codecOf[s], from |-> s] \in sessions[s]
  BY <1>0, <1>1 DEF Video, Built, Filled, CodecsKnown, Subs
<1>3. \A u \in AudioSub : u.from = IF setting.audio = 1 THEN "audio_fifo" ELSE "audio"
  BY <1>0 DEF AudioSub, Settings
<1>4. \A u \in BackSub : u.from = "client"
  BY DEF BackSub
<1>5. \A s \in Video : \A u \in VideoSub(s) : u.from = s
  BY DEF VideoSub
<1>6. \A s \in DOMAIN sessions : \A u \in sessions[s] :
         \/ u \in AudioSub \/ u \in BackSub
         \/ s \in Video /\ u \in VideoSub(s)
  BY <1>0 DEF Subs, Video
<1>7. \A q \in Video : Read(q) <=> q \in Filled
  BY <1>2, <1>3, <1>4, <1>5, <1>6 DEF Video
<1>8. Read("audio") <=> "audio" \in Filled
  <2>1. setting.audio = 2 => "audio" \in DOMAIN sessions /\ AudioSub \subseteq sessions["audio"]
                             /\ AudioSub = {[kind |-> "aac", from |-> "audio"]}
    BY <1>0 DEF Built, Subs, AudioSub
  <2>2. ASSUME NEW s \in DOMAIN sessions, NEW u \in sessions[s], u.from = "audio"
          PROVE setting.audio = 2
    <3>1. u \in AudioSub
      BY <1>4, <1>5, <1>6, <2>2 DEF Video
    <3>2. QED
      BY <1>0, <1>3, <2>2, <3>1 DEF AudioSub, Settings
  <2>3. ASSUME setting.audio = 2 PROVE Read("audio")
    <3>1. [kind |-> "aac", from |-> "audio"] \in sessions["audio"]
      BY <2>1, <2>3
    <3>2. \E u \in sessions["audio"] : u.from = "audio"
      BY <3>1
    <3>3. QED
      BY <2>1, <2>3, <3>2
  <2>4. QED
    BY <2>2, <2>3 DEF Filled, Video
<1>9. \A q \in QueueNames : (q \in Filled <=> queueType[q] # "none")
  BY <1>0 DEF SetupIInv, Marked, QueueNames, Filled, CodecsKnown, Video
<1>10. Cardinality(Holding) = IF setting.back # "none" /\ DOMAIN sessions # {} THEN 1 ELSE 0
  <2> DEFINE holder == CASE setting.res \in {"high", "both"} -> "high"
                         [] setting.res = "low" -> "low" [] OTHER -> "audio"
  <2>1. \A s \in DOMAIN sessions : s \in Holding <=> s = holder /\ setting.back # "none"
    <3>1. BackSub # {} <=> setting.back # "none"
      BY DEF BackSub
    <3>2. \A s \in DOMAIN sessions : s \in Holding <=> BackSub \cap sessions[s] # {}
      BY <1>3, <1>4, <1>5, <1>6 DEF Holding, Video
    <3>3. ASSUME NEW s \in DOMAIN sessions
          PROVE  IF s = holder THEN BackSub \subseteq sessions[s] ELSE BackSub \cap sessions[s] = {}
      <4>1. s \in {"high", "low", "audio"} /\ Built(s) /\ sessions[s] = Subs(s)
        BY <1>0
      <4>2. s = holder => BackSub \subseteq Subs(s)
        BY <1>0, <4>1 DEF Subs, Settings, Built, Offers
      <4>3. s # holder => \A u \in Subs(s) : u \in AudioSub \/ (s \in Video /\ u \in VideoSub(s))
        BY <1>0, <4>1 DEF Subs, Settings, Built, Offers, Video
      <4>4. QED
        BY <1>3, <1>4, <1>5, <4>1, <4>2, <4>3 DEF Video
    <3>4. QED
      BY <3>1, <3>2, <3>3
  <2>2. DOMAIN sessions # {} => holder \in DOMAIN sessions
    BY <1>0 DEF Built, Offers, Settings
  <2>3. Holding = IF setting.back # "none" /\ DOMAIN sessions # {} THEN {holder} ELSE {}
    BY <2>1, <2>2 DEF Holding
  <2>4. Cardinality({holder}) = 1 /\ Cardinality({}) = 0
    BY FS_Singleton, FS_EmptySet
  <2>5. QED
    BY <2>3, <2>4
<1>11. QED
  BY <1>2, <1>7, <1>8, <1>9, <1>10 DEF OfferedIsFed, SetupIInv, Marked, QueueNames, Holding

(* Whatever the options, the environment and the files: the server offers  *)
(* the streams that are captured, from the queues that are filled, and one *)
(* back channel at most.                                                   *)
THEOREM SetupOffersWhatIsFed == SetupSpec => []OfferedIsFed
<1> DEFINE J == args \in Given /\ env \in Given
<1>1. SetupInit => SetupIInv /\ J
  BY SetupInitIInv, SetupAssumption DEF SetupInit
<1>2. (SetupIInv /\ J) /\ [SetupNext]_setupVars => (SetupIInv /\ J)'
  <2> SUFFICES ASSUME SetupIInv, J, [SetupNext]_setupVars PROVE SetupIInv' /\ J'
    OBVIOUS
  <2>1. UNCHANGED <<args, env>>
    BY DEF SetupNext, ReadOptions, ReadEnvironment, NoBuffer, CheckFiles, SetQueues, ServerUp,
           BuildHigh, BuildLow, BuildAudio, Detection, setupVars
  <2>2. QED
    BY <2>1, SetupStep
<1>3. QED
  BY <1>1, <1>2, InvOffered, PTL DEF SetupSpec

-----------------------------------------------------------------------------
(***************************************************************************)
(* The thumbnails: one call of imggrabber at a time, for any number of pids, *)
(* videos, calls and reboots.                                              *)
(***************************************************************************)

(* p goes on whatever q does from now on: it looked at the pid of q, and   *)
(* nothing was there.                                                      *)
Passed(p, q) == \/ p \in Working
                \/ procs[p].pc = "look" /\ procs[p].at >= q

(* Of two calls only one can have looked before the other one was there.   *)
NotBoth == \A p, q \in Pids : p # q => ~(Passed(p, q) /\ Passed(q, p))

Fresh == \A p \in Pids : procs[p].pc = "start" => procs[p].at = 0

SnapIInv == SnapTypeOK /\ Fresh /\ NotBoth

-----------------------------------------------------------------------------
LEMMA ModRange ==
    ASSUME NEW x \in Int, NEW n \in Nat \ {0} PROVE x % n \in 0..(n - 1)
  BY SMT

(* What a pass over the ring meets, the whole of it or the first frames    *)
(* only, are kinds of frames.                                              *)
LEMMA WindowKinds ==
    ASSUME SnapTypeOK, ring.n >= 0
    PROVE  Window \in Seq(Kinds) /\ Len(Window) = ring.n
<1>1. Len(Gop) \in Nat \ {0} /\ ring.n \in Nat /\ ring.next \in Int
  BY SnapshotAssumption DEF SnapTypeOK
<1>2. ASSUME NEW k \in 1..ring.n
      PROVE  Gop[((ring.next - 1 - ring.n + k - 1) % Len(Gop)) + 1] \in Kinds
  <2>1. ring.next - 1 - ring.n + k - 1 \in Int
    BY <1>1
  <2>2. (ring.next - 1 - ring.n + k - 1) % Len(Gop) \in 0..(Len(Gop) - 1)
    BY ONLY <1>1, <2>1, ModRange
  <2> DEFINE r == (ring.next - 1 - ring.n + k - 1) % Len(Gop)
  <2>3. r + 1 \in 1..Len(Gop)
    BY ONLY <1>1, <2>2
  <2> HIDE DEF r
  <2>4. Gop[r + 1] \in Kinds
    BY <2>3, SnapshotAssumption
  <2>5. QED
    BY <2>4 DEF r
<1>3. Window \in [1..ring.n -> Kinds]
  BY <1>2 DEF Window
<1>4. QED
  BY <1>1, <1>3

LEMMA KindsOfSeq ==
    ASSUME NEW w \in Seq(Kinds) PROVE KindsOf(w) \subseteq Kinds
  BY DEF KindsOf

LEMMA KindsOfPrefix ==
    ASSUME NEW w \in Seq(Kinds), NEW k \in 0..Len(w)
    PROVE  KindsOf(SubSeq(w, 1, k)) \subseteq Kinds
<1>1. SubSeq(w, 1, k) \in Seq(Kinds)
  OBVIOUS
<1>2. QED
  BY <1>1, KindsOfSeq

-----------------------------------------------------------------------------
LEMMA SnapInitIInv == SnapInit => SnapIInv
<1> SUFFICES ASSUME SnapInit PROVE SnapIInv
  OBVIOUS
<1> USE SnapshotAssumption DEF SnapInit
<1>1. NoProc \in Proc
  BY DEF NoProc, Pcs, Proc
<1>2. ring \in [n : -1..Depth, next : 1..Len(Gop)]
  <2>1. Len(Gop) \in Nat /\ Len(Gop) >= 1
    BY DEF Needed
  <2>2. QED
    BY <2>1 DEF NoRing
<1>3. SnapTypeOK
  BY <1>1, <1>2 DEF SnapTypeOK, Asleep
<1>4. Fresh /\ NotBoth
  BY DEF Fresh, NotBoth, Passed, Working, NoProc
<1>5. QED
  BY <1>3, <1>4 DEF SnapIInv

-----------------------------------------------------------------------------
(* What the actions of the calls do to a process.                          *)
LEMMA NoProcType == NoProc \in Proc
  BY SnapshotAssumption DEF NoProc, Pcs, Proc

LEMMA FieldTypes ==
    ASSUME NEW r \in Proc
    PROVE  /\ \A pc \in Pcs : [r EXCEPT !.pc = pc] \in Proc
           /\ \A at \in 0..MaxPid : [r EXCEPT !.at = at] \in Proc
           /\ \A parts \in SUBSET Kinds : [r EXCEPT !.parts = parts] \in Proc
           /\ \A parts \in SUBSET Kinds, pc \in Pcs : [r EXCEPT !.parts = parts, !.pc = pc] \in Proc
           /\ \A job \in Videos \cup {0}, pc \in Pcs : [r EXCEPT !.job = job, !.pc = pc] \in Proc
           /\ \A whole \in BOOLEAN, pc \in Pcs : [r EXCEPT !.pc = pc, !.whole = whole] \in Proc
<1>1. \A pc \in Pcs : [r EXCEPT !.pc = pc] \in Proc
  BY DEF Proc
<1>2. \A at \in 0..MaxPid : [r EXCEPT !.at = at] \in Proc
  BY DEF Proc
<1>3. \A parts \in SUBSET Kinds : [r EXCEPT !.parts = parts] \in Proc
  BY DEF Proc
<1>4. \A parts \in SUBSET Kinds, pc \in Pcs : [r EXCEPT !.parts = parts, !.pc = pc] \in Proc
  BY DEF Proc
<1>5. \A job \in Videos \cup {0}, pc \in Pcs : [r EXCEPT !.job = job, !.pc = pc] \in Proc
  BY DEF Proc
<1>6. \A whole \in BOOLEAN, pc \in Pcs : [r EXCEPT !.pc = pc, !.whole = whole] \in Proc
  BY DEF Proc
<1>7. QED
  BY <1>1, <1>2, <1>3, <1>4, <1>5, <1>6

LEMMA ProcsType ==
    ASSUME SnapTypeOK, NEW p \in Pids
    PROVE  procs[p] \in Proc /\ \A r \in Proc : [procs EXCEPT ![p] = r] \in [Pids -> Proc]
  BY DEF SnapTypeOK

LEMMA ExecType ==
    ASSUME SnapTypeOK, NEW p \in Pids, NEW job \in Videos \cup {0}, procs' = Exec(p, job)
    PROVE  procs' \in [Pids -> Proc]
<1>1. [NoProc EXCEPT !.job = job, !.pc = "start"] \in Proc
  BY NoProcType, FieldTypes DEF Pcs
<1>2. QED
  BY <1>1, ProcsType DEF Exec

LEMMA PcType ==
    ASSUME SnapTypeOK, NEW p \in Pids, NEW pc \in Pcs
    PROVE  [procs EXCEPT ![p].pc = pc] \in [Pids -> Proc]
  BY ProcsType, FieldTypes

LEMMA AtType ==
    ASSUME SnapTypeOK, NEW p \in Pids, NEW at \in 0..MaxPid
    PROVE  [procs EXCEPT ![p].at = at] \in [Pids -> Proc]
  BY ProcsType, FieldTypes

LEMMA PartsType ==
    ASSUME SnapTypeOK, NEW p \in Pids, NEW parts \in SUBSET Kinds, NEW pc \in Pcs
    PROVE  [procs EXCEPT ![p].parts = parts, ![p].pc = pc] \in [Pids -> Proc]
<1>1. [procs EXCEPT ![p].parts = parts, ![p].pc = pc]
        = [procs EXCEPT ![p] = [procs[p] EXCEPT !.parts = parts, !.pc = pc]]
  BY DEF SnapTypeOK
<1>2. QED
  BY <1>1, ProcsType, FieldTypes

LEMMA ExitsType ==
    ASSUME SnapTypeOK, NEW p \in Pids, NEW status \in {0, 1}, Exits(p, status)
    PROVE  /\ procs' \in [Pids -> Proc]
           /\ script' \in [pc : {"asleep", "next", "waits", "told"}, todo : SUBSET Videos,
                           video : Videos \cup {0}, status : {0, 1}]
  BY NoProcType DEF SnapTypeOK, Exits

LEMMA SnapTypeStep == SnapTypeOK /\ [SnapNext]_snapVars => SnapTypeOK'
<1> SUFFICES ASSUME SnapTypeOK, [SnapNext]_snapVars PROVE SnapTypeOK'
  OBVIOUS
<1> USE SnapshotAssumption
<1>1. CASE CameraWrites
  <2>1. ring' \in [n : -1..Depth, next : 1..Len(Gop)]
    <3>1. Len(Gop) \in Nat \ {0}
      BY DEF Needed
    <3>2. ring.next \in Int
      BY <3>1 DEF SnapTypeOK
    <3>3. (ring.next % Len(Gop)) \in 0..(Len(Gop) - 1)
      BY ONLY <3>1, <3>2, ModRange
    <3> DEFINE m == ring.next % Len(Gop)
    <3>4. m + 1 \in 1..Len(Gop)
      BY <3>1, <3>3
    <3> HIDE DEF m
    <3>5. ring' = IF ring.n = -1 THEN [ring EXCEPT !.n = 0]
                  ELSE [n |-> IF ring.n < Depth THEN ring.n + 1 ELSE Depth, next |-> m + 1]
      BY <1>1 DEF CameraWrites, m
    <3>6. QED
      BY <3>4, <3>5 DEF SnapTypeOK
  <2>2. QED
    BY <1>1, <2>1 DEF CameraWrites, SnapTypeOK
<1>2. CASE Reboot
  <2>1. NoProc \in Proc
    BY DEF NoProc, Pcs, Proc
  <2>2. ring' \in [n : -1..Depth, next : 1..Len(Gop)]
    BY <1>2 DEF Reboot, NoRing, SnapTypeOK
  <2>3. script' \in [pc : {"asleep", "next", "waits", "told"}, todo : SUBSET Videos,
                     video : Videos \cup {0}, status : {0, 1}]
    BY <1>2 DEF Reboot, Asleep
  <2>4. QED
    BY <1>2, <2>1, <2>2, <2>3 DEF Reboot, SnapTypeOK
<1>3. ASSUME NEW v \in Videos, Records(v) PROVE SnapTypeOK'
  BY <1>3 DEF Records, SnapTypeOK
<1>4. ASSUME NEW p \in Pids, Calls(p) PROVE SnapTypeOK'
  <2>1. procs' = Exec(p, 0)
    BY <1>4 DEF Calls
  <2>2. QED
    BY <1>4, <2>1, ExecType DEF Calls, SnapTypeOK
<1>5. ASSUME NEW p \in Pids, Begins(p) \/ Look(p) PROVE SnapTypeOK'
  <2>1. CASE \E pc \in Pcs : Goes(p, pc)
    BY <1>5, <2>1, PcType DEF Goes, Begins, Look, SnapTypeOK
  <2>2. CASE Exits(p, 0)
    BY <1>5, <2>2, ExitsType DEF Begins, Look, SnapTypeOK
  <2>3. CASE /\ procs[p].at + 1 <= MaxPid /\ UNCHANGED script
             /\ procs' = [procs EXCEPT ![p].at = procs[p].at + 1]
    <3>1. procs[p].at + 1 \in 0..MaxPid
      BY <2>3 DEF SnapTypeOK, Proc
    <3>2. QED
      BY <1>5, <2>3, <3>1, AtType DEF Begins, Look, SnapTypeOK
  <2>4. QED
    <3>1. MaxPid \in Nat /\ procs[p].at \in Nat
      BY DEF SnapTypeOK, Proc
    <3>2. QED
      BY <1>5, <2>1, <2>2, <2>3, <3>1 DEF Begins, Look, Pcs
<1>6. ASSUME NEW p \in Pids, MapRing(p) PROVE SnapTypeOK'
  <2>1. CASE Exits(p, 1)
    BY <1>6, <2>1, ExitsType DEF MapRing, SnapTypeOK
  <2>2. CASE /\ procs' = [procs EXCEPT ![p].pc = "search",
                                       ![p].whole = Needed \subseteq KindsOf(Window)]
             /\ UNCHANGED script
    <3>1. (Needed \subseteq KindsOf(Window)) \in BOOLEAN
      OBVIOUS
    <3>2. [procs[p] EXCEPT !.pc = "search", !.whole = Needed \subseteq KindsOf(Window)] \in Proc
      <4> DEFINE whole == Needed \subseteq KindsOf(Window)
      <4> HIDE DEF whole
      <4>1. whole \in BOOLEAN
        BY <3>1 DEF whole
      <4>2. [procs[p] EXCEPT !.pc = "search", !.whole = whole] \in Proc
        BY <4>1, ProcsType, FieldTypes DEF Pcs
      <4>3. QED
        BY <4>2 DEF whole
    <3>4. procs' \in [Pids -> Proc]
      BY <2>2, <3>2 DEF SnapTypeOK
    <3>5. QED
      BY <1>6, <2>2, <3>4 DEF MapRing, SnapTypeOK
  <2>3. QED
    BY <1>6, <2>1, <2>2 DEF MapRing
<1>7. ASSUME NEW p \in Pids, WholePass(p) PROVE SnapTypeOK'
  <2>1. KindsOf(Window) \subseteq Kinds
    BY <1>7, WindowKinds, KindsOfSeq DEF WholePass
  <2>2. PICK parts \in SUBSET Kinds, pc \in Pcs :
          procs' = [procs EXCEPT ![p].parts = parts, ![p].pc = pc]
    <3>1. procs[p].parts \cup KindsOf(Window) \in SUBSET Kinds
      BY <2>1 DEF SnapTypeOK, Proc
    <3>2. QED
      BY <1>7, <3>1 DEF WholePass, Pcs
  <2>3. procs' \in [Pids -> Proc]
    BY <2>2, PartsType
  <2>4. QED
    BY <1>7, <2>3 DEF WholePass, SnapTypeOK
<1>8. ASSUME NEW p \in Pids, BrokenPass(p) PROVE SnapTypeOK'
  <2>1. PICK k \in 0..(ring.n - 1) :
          procs' = [procs EXCEPT ![p].parts = (@ \cup KindsOf(SubSeq(Window, 1, k))) \ {"sps"}]
    BY <1>8 DEF BrokenPass
  <2>2. KindsOf(SubSeq(Window, 1, k)) \subseteq Kinds
    <3>1. ring.n \in Int /\ ring.n >= 0
      BY <2>1 DEF SnapTypeOK
    <3>2. Window \in Seq(Kinds) /\ k \in 0..Len(Window)
      BY <3>1, <2>1, WindowKinds
    <3>3. QED
      BY <3>2, KindsOfPrefix
  <2>3. procs' \in [Pids -> Proc]
    <3> DEFINE parts == (procs[p].parts \cup KindsOf(SubSeq(Window, 1, k))) \ {"sps"}
    <3>1. parts \in SUBSET Kinds
      BY <2>2 DEF SnapTypeOK, Proc
    <3>2. procs' = [procs EXCEPT ![p].parts = parts]
      BY <2>1
    <3> HIDE DEF parts
    <3>3. [procs[p] EXCEPT !.parts = parts] \in Proc
      BY <3>1, ProcsType, FieldTypes
    <3>4. QED
      BY <3>2, <3>3 DEF SnapTypeOK
  <2>4. QED
    BY <1>8, <2>3 DEF BrokenPass, SnapTypeOK
<1>9. ASSUME NEW p \in Pids, Copy(p) \/ SplitFile(p) \/ GivesUp(p) PROVE SnapTypeOK'
  <2>1. CASE Goes(p, "decode")
    BY <1>9, <2>1, PcType DEF Goes, Copy, SplitFile, GivesUp, SnapTypeOK, Pcs
  <2>2. CASE Exits(p, 1)
    BY <1>9, <2>2, ExitsType DEF Copy, SplitFile, GivesUp, SnapTypeOK
  <2>3. QED
    BY <1>9, <2>1, <2>2 DEF Copy, SplitFile, GivesUp
<1>10. ASSUME NEW p \in Pids, Writes(p) PROVE SnapTypeOK'
  <2>1. Goes(p, "write") /\ "write" \in Pcs
    BY <1>10 DEF Writes, Pcs
  <2>2. procs' \in [Pids -> Proc] /\ script' = script
    BY <2>1, PcType DEF Goes
  <2>3. QED
    BY <1>10, <2>2 DEF Writes, SnapTypeOK
<1>11. ASSUME NEW p \in Pids, Ready(p) PROVE SnapTypeOK'
  <2>1. Exits(p, 0)
    BY <1>11 DEF Ready
  <2>2. QED
    BY <1>11, <2>1, ExitsType DEF Ready, SnapTypeOK
<1>12. CASE Round
  BY <1>12 DEF Round, SnapTypeOK
<1>13. ASSUME NEW v \in Videos, Makes(v) PROVE SnapTypeOK'
  <2>1. PICK p \in Pids : procs' = Exec(p, v)
    BY <1>13 DEF Makes
  <2>2. QED
    BY <1>13, <2>1, ExecType DEF Makes, SnapTypeOK
<1>14. ASSUME NEW v \in Videos, Passes(v) PROVE SnapTypeOK'
  BY <1>14 DEF Passes, Done, SnapTypeOK
<1>15. CASE Told
  BY <1>15 DEF Told, Done, SnapTypeOK
<1>16. CASE UNCHANGED snapVars
  BY <1>16 DEF snapVars, SnapTypeOK
<1>17. QED
  BY <1>1, <1>2, <1>3, <1>4, <1>5, <1>6, <1>7, <1>8, <1>9, <1>10, <1>11, <1>12, <1>13,
     <1>14, <1>15, <1>16 DEF SnapNext, Thumb, Grabs

-----------------------------------------------------------------------------
(* A process that begins has looked at nobody, and nobody who is still     *)
(* looking passes a process that is there.                                 *)
LEMMA ExecKeeps ==
    ASSUME SnapIInv, NEW p \in Pids, ~Live(p), NEW job, procs' = Exec(p, job)
    PROVE  Fresh' /\ NotBoth'
<1>1. \A q \in Pids : q # p => procs'[q] = procs[q]
  BY DEF Exec, SnapIInv, SnapTypeOK
<1>2. procs'[p].pc = "start" /\ procs'[p].at = 0
  BY DEF Exec, NoProc, SnapIInv, SnapTypeOK
<1>3. QED
  BY <1>1, <1>2 DEF SnapIInv, Fresh, NotBoth, Passed, Working

LEMMA ExitKeeps ==
    ASSUME SnapIInv, NEW p \in Pids, NEW status, Exits(p, status)
    PROVE  Fresh' /\ NotBoth'
<1>1. \A q \in Pids : q # p => procs'[q] = procs[q]
  BY DEF Exits, SnapIInv, SnapTypeOK
<1>2. procs'[p].pc = "none"
  BY DEF Exits, NoProc, SnapIInv, SnapTypeOK
<1>3. QED
  BY <1>1, <1>2 DEF SnapIInv, Fresh, NotBoth, Passed, Working

(* A process at work stays at work: nobody else passes it for that.        *)
LEMMA WorkKeeps ==
    ASSUME SnapIInv, NEW p \in Working, procs' \in [Pids -> Proc],
           procs'[p].pc # "start", \A q \in Pids : q # p => procs'[q] = procs[q]
    PROVE  Fresh' /\ NotBoth'
<1>1. \A q \in Pids, r \in Pids : Passed(q, r)' => Passed(q, r)
  BY DEF Passed, Working
<1>2. QED
  BY <1>1 DEF SnapIInv, Fresh, NotBoth, Working

LEMMA BeginKeeps ==
    ASSUME SnapIInv, NEW p \in Pids, Begins(p) PROVE Fresh' /\ NotBoth'
<1>1. CASE Exits(p, 0)
  BY <1>1, ExitKeeps
<1>2. CASE Goes(p, "look")
  <2>1. \A q \in Pids : q # p => procs'[q] = procs[q]
    BY <1>2 DEF Goes, SnapIInv, SnapTypeOK
  <2>2. procs'[p].pc = "look" /\ procs'[p].at = 0
    BY <1>2 DEF Goes, Begins, SnapIInv, SnapTypeOK, Fresh, Proc
  <2>3. \A q \in Pids : ~Passed(p, q)'
    BY <2>2 DEF Passed, Working, Pids
  <2>4. QED
    BY <2>1, <2>2, <2>3 DEF SnapIInv, Fresh, NotBoth, Passed, Working
<1>3. QED
  BY <1>1, <1>2 DEF Begins

(* The heart of it: a pid is passed only while nothing is there, and what  *)
(* comes there later still has to look.                                    *)
LEMMA LookKeeps ==
    ASSUME SnapIInv, NEW p \in Pids, Look(p) PROVE Fresh' /\ NotBoth'
<1> DEFINE at == procs[p].at + 1
<1>0. procs[p].at \in 0..MaxPid /\ MaxPid \in Nat
  BY SnapshotAssumption DEF SnapIInv, SnapTypeOK, Proc
<1>1. CASE Exits(p, 0)
  BY <1>1, ExitKeeps
<1>2. CASE at > MaxPid /\ Goes(p, IF procs[p].job = 0 THEN "map" ELSE "split")
  <2>1. \A q \in Pids : q # p => procs'[q] = procs[q]
    BY <1>2 DEF Goes, SnapIInv, SnapTypeOK
  <2>2. procs'[p].pc \in {"map", "split"}
    BY <1>2 DEF Goes, SnapIInv, SnapTypeOK, Proc
  <2>3. \A q \in Pids : Passed(p, q)
    BY <1>0, <1>2 DEF Look, Passed, Pids
  <2>4. QED
    BY <2>1, <2>2, <2>3 DEF SnapIInv, Fresh, NotBoth, Passed, Working
<1>3. CASE /\ at <= MaxPid /\ ~(at # p /\ Live(at))
           /\ procs' = [procs EXCEPT ![p].at = at]
  <2>1. \A q \in Pids : q # p => procs'[q] = procs[q]
    BY <1>3 DEF SnapIInv, SnapTypeOK
  <2>2. procs'[p].pc = "look" /\ procs'[p].at = at
    BY <1>3 DEF Look, SnapIInv, SnapTypeOK, Proc
  <2>3. ASSUME NEW q \in Pids, q # p, Passed(p, q)' PROVE ~Passed(q, p)'
    <3>1. q <= at
      BY <2>2, <2>3 DEF Passed, Working
    <3>2. CASE q = at
      BY <1>3, <2>1, <2>3, <3>2 DEF Live, Passed, Working
    <3>3. CASE q # at
      <4>1. q <= procs[p].at
        BY <1>0, <3>1, <3>3 DEF Pids
      <4>2. Passed(p, q)
        BY <4>1 DEF Look, Passed
      <4>3. QED
        BY <2>1, <2>3, <4>2 DEF SnapIInv, NotBoth, Passed, Working
    <3>4. QED
      BY <3>2, <3>3
  <2>4. ASSUME NEW q \in Pids, NEW r \in Pids, q # r, q # p, r # p
        PROVE  ~(Passed(q, r)' /\ Passed(r, q)')
    BY <2>1, <2>4 DEF SnapIInv, NotBoth, Passed, Working
  <2>5. NotBoth'
    BY <2>3, <2>4 DEF NotBoth
  <2>6. QED
    BY <2>1, <2>2, <2>5 DEF SnapIInv, Fresh
<1>4. QED
  BY <1>0, <1>1, <1>2, <1>3 DEF Look

LEMMA ExclusionStep == SnapIInv /\ [SnapNext]_snapVars => Fresh' /\ NotBoth'
<1> SUFFICES ASSUME SnapIInv, [SnapNext]_snapVars PROVE Fresh' /\ NotBoth'
  OBVIOUS
<1>1. CASE UNCHANGED procs
  BY <1>1 DEF SnapIInv, Fresh, NotBoth, Passed, Working
<1>2. CASE Reboot
  BY <1>2 DEF Reboot, NoProc, Fresh, NotBoth, Passed, Working
<1>3. ASSUME NEW p \in Pids, Calls(p) PROVE Fresh' /\ NotBoth'
  BY <1>3, ExecKeeps DEF Calls
<1>4. ASSUME NEW v \in Videos, Makes(v) PROVE Fresh' /\ NotBoth'
  BY <1>4, ExecKeeps DEF Makes
<1>5. ASSUME NEW p \in Pids, Begins(p) \/ Look(p) PROVE Fresh' /\ NotBoth'
  BY <1>5, BeginKeeps, LookKeeps
<1>6. ASSUME NEW p \in Pids,
             \/ MapRing(p) \/ WholePass(p) \/ BrokenPass(p) \/ Copy(p)
             \/ SplitFile(p) \/ GivesUp(p) \/ Writes(p) \/ Ready(p)
      PROVE  Fresh' /\ NotBoth'
  <2>1. p \in Working
    BY <1>6 DEF MapRing, WholePass, BrokenPass, Copy, SplitFile, GivesUp, Writes, Ready, Working
  <2>2. SnapTypeOK'
    BY SnapTypeStep DEF SnapIInv
  <2>3. procs' \in [Pids -> Proc] /\ procs \in [Pids -> Proc]
    BY <2>2 DEF SnapIInv, SnapTypeOK
  <2>4. \A q \in Pids : q # p => procs'[q] = procs[q]
    BY <1>6, <2>3 DEF MapRing, WholePass, BrokenPass, Copy, SplitFile, GivesUp, Writes,
                      Ready, Exits, Goes
  <2>5. procs'[p].pc # "start"
    <3>1. procs[p].pc # "start"
      BY <2>1 DEF Working
    <3>2. QED
      BY <1>6, <2>3, <3>1 DEF MapRing, WholePass, BrokenPass, Copy, SplitFile, GivesUp,
                              Writes, Ready, Exits, Goes, NoProc, Proc
  <2>6. QED
    BY <2>1, <2>3, <2>4, <2>5, WorkKeeps
<1>7. QED
  BY <1>1, <1>2, <1>3, <1>4, <1>5, <1>6
     DEF SnapNext, Thumb, Grabs, CameraWrites, Records, Round, Told, Passes, snapVars

-----------------------------------------------------------------------------
(* The remainder of a number, from its definition, and what does not       *)
(* change it.                                                              *)
LEMMA DivMod ==
    ASSUME NEW x \in Int, NEW n \in Nat \ {0}
    PROVE  x = n * (x \div n) + (x % n) /\ (x % n) \in 0..(n - 1) /\ (x \div n) \in Int
  BY SMT

LEMMA ModOf ==
    ASSUME NEW n \in Nat \ {0}, NEW q \in Int, NEW r \in 0..(n - 1)
    PROVE  (n * q + r) % n = r
<1> DEFINE x == n * q + r
<1> DEFINE p == x \div n
<1> DEFINE s == x % n
<1>1. n * q + r = n * p + s /\ s \in 0..(n - 1) /\ p \in Int
  BY DivMod
<1> HIDE DEF x, p, s
<1>2. n * (q - p) = s - r /\ s - r < n /\ s - r > -n
  BY <1>1
<1>3. CASE q - p >= 1
  <2>1. n * (q - p) >= n
    BY <1>1, <1>3
  <2>2. QED
    BY <1>2, <2>1
<1>4. CASE q - p <= -1
  <2>1. n * (q - p) <= -n
    BY <1>1, <1>4
  <2>2. QED
    BY <1>2, <2>1
<1>5. q = p
  BY <1>1, <1>3, <1>4
<1>6. QED
  BY <1>1, <1>5 DEF s, x

LEMMA ModShift ==
    ASSUME NEW x \in Int, NEW n \in Nat \ {0} PROVE (x + n) % n = x % n
<1> DEFINE q == x \div n
<1> DEFINE r == x % n
<1>1. x = n * q + r /\ q \in Int /\ r \in 0..(n - 1)
  BY DivMod
<1> HIDE DEF q, r
<1>2. x + n = n * (q + 1) + r
  BY <1>1
<1>3. (n * (q + 1) + r) % n = r
  BY <1>1, ModOf
<1>4. QED
  BY <1>2, <1>3 DEF r

(* Frames in a row, as many as a group has or more, are of all its kinds.  *)
LEMMA GroupCovered ==
    ASSUME NEW n \in Nat \ {0}, NEW a \in Int, NEW j \in 1..n
    PROVE  \E k \in 1..n : ((a + k) % n) + 1 = j
<1> DEFINE q == a \div n
<1> DEFINE r == a % n
<1>1. a = n * q + r /\ q \in Int /\ r \in 0..(n - 1)
  BY DivMod
<1> HIDE DEF q, r
<1>2. j - 1 \in 0..(n - 1) /\ j = (j - 1) + 1
  OBVIOUS
<1>3. CASE j - 1 > r
  <2> DEFINE k == j - 1 - r
  <2>1. a + k = n * q + (j - 1) /\ k \in 1..n
    BY <1>1, <1>3
  <2> HIDE DEF k
  <2>2. (n * q + (j - 1)) % n = j - 1
    BY ONLY <1>1, <1>2, n \in Nat \ {0}, ModOf
  <2>3. QED
    BY <1>2, <2>1, <2>2
<1>4. CASE j - 1 <= r
  <2> DEFINE k == j - 1 - r + n
  <2>1. a + k = n * (q + 1) + (j - 1) /\ k \in 1..n
    BY <1>1, <1>4
  <2> HIDE DEF k
  <2>2. (n * (q + 1) + (j - 1)) % n = j - 1
    BY <1>1, <1>2, ModOf
  <2>3. QED
    BY <1>2, <2>1, <2>2
<1>5. QED
  BY <1>1, <1>3, <1>4

(* What the window shows, of the number of frames and of the next one.     *)
Frames(n, next) == [k \in 1..n |-> Gop[((next - 1 - n + k - 1) % Len(Gop)) + 1]]

LEMMA FramesLen == ASSUME NEW n \in Nat, NEW next \in Int PROVE Len(Frames(n, next)) = n
  BY DEF Frames

LEMMA RingTypes ==
    ASSUME SnapTypeOK, ring.n # -1
    PROVE  ring.n \in Nat /\ ring.next \in 1..Len(Gop) /\ Len(Gop) \in Nat \ {0}
           /\ Depth \in Nat /\ Depth >= Len(Gop) /\ ring.n <= Depth
<1>1. Len(Gop) \in Nat /\ Len(Gop) # 0
  BY SnapshotAssumption DEF Needed
<1>2. QED
  BY <1>1, SnapshotAssumption DEF SnapTypeOK

(* While the ring fills up its window only grows at the end.               *)
LEMMA WindowGrows ==
    ASSUME NEW n \in Nat, NEW next \in 1..Len(Gop), Len(Gop) \in Nat \ {0},
           NEW k \in 1..n
    PROVE  Frames(n + 1, (next % Len(Gop)) + 1)[k] = Frames(n, next)[k]
<1> DEFINE L == Len(Gop)
<1>1. L \in Nat \ {0} /\ next \in 1..L
  OBVIOUS
<1> HIDE DEF L
<1>2. next % L = IF next = L THEN 0 ELSE next
  <2>1. CASE next = L
    <3>1. (L * 1 + 0) % L = 0 /\ L * 1 + 0 = next
      BY ONLY <1>1, <2>1, ModOf
    <3>2. QED
      BY <2>1, <3>1
  <2>2. CASE next # L
    <3>1. next \in 0..(L - 1)
      BY <1>1, <2>2
    <3>2. (L * 0 + next) % L = next
      BY ONLY <1>1, <3>1, ModOf
    <3>3. QED
      BY <1>1, <2>2, <3>2
  <2>3. QED
    BY <2>1, <2>2
<1>3. (((next % L) + 1) - 1 - (n + 1) + k - 1) % L = (next - 1 - n + k - 1) % L
  <2>1. CASE next = L
    <3> DEFINE x == 0 - 1 - n + k - 1
    <3>1. x \in Int
      OBVIOUS
    <3>2. (x + L) % L = x % L
      BY <1>1, <3>1, ModShift
    <3>3. x + L = next - 1 - n + k - 1 /\ x = ((next % L) + 1) - 1 - (n + 1) + k - 1
      BY <1>1, <1>2, <2>1
    <3> HIDE DEF x
    <3>4. QED
      BY <3>2, <3>3
  <2>2. CASE next # L
    <3>1. ((next % L) + 1) - 1 - (n + 1) + k - 1 = next - 1 - n + k - 1
      BY <1>1, <1>2, <2>2
    <3>2. QED
      BY <3>1
  <2>3. QED
    BY <2>1, <2>2
<1>4. k \in 1..(n + 1)
  OBVIOUS
<1>5. QED
  BY <1>3, <1>4 DEF Frames, L

(* A ring that is full shows a whole group.                                *)
LEMMA FullShowsAll ==
    ASSUME NEW n \in Nat, NEW next \in Int, Len(Gop) \in Nat \ {0}, n >= Len(Gop)
    PROVE  Needed \subseteq KindsOf(Frames(n, next))
<1> SUFFICES ASSUME NEW j \in 1..Len(Gop), Gop[j] # "p"
             PROVE  Gop[j] \in KindsOf(Frames(n, next))
  BY DEF Needed
<1> DEFINE a == next - 1 - n - 1
<1>0. a \in Int
  OBVIOUS
<1> HIDE DEF a
<1>1. PICK k \in 1..Len(Gop) : ((a + k) % Len(Gop)) + 1 = j
  BY ONLY <1>0, GroupCovered, Len(Gop) \in Nat \ {0}, j \in 1..Len(Gop)
<1>2. k \in 1..n /\ a + k = next - 1 - n + k - 1
  BY DEF a
<1>3. Frames(n, next)[k] = Gop[j]
  BY <1>1, <1>2 DEF Frames
<1>4. QED
  BY <1>2, <1>3, FramesLen DEF KindsOf

(* A search that began on a whole group has a whole group before it, or    *)
(* has all the parts.                                                      *)
WholeAhead == ring.n >= 0 /\ Needed \subseteq KindsOf(Frames(ring.n, ring.next))
Kept == \A p \in Pids : procs[p].whole =>
           /\ procs[p].pc = "search" => WholeAhead
           /\ procs[p].pc = "copy" => Needed \subseteq procs[p].parts

LEMMA CameraKeeps ==
    ASSUME SnapTypeOK, WholeAhead, CameraWrites PROVE WholeAhead'
<1>1. /\ ring.n \in Nat /\ ring.next \in 1..Len(Gop) /\ Len(Gop) \in Nat \ {0}
      /\ Depth \in Nat /\ Depth >= Len(Gop) /\ ring.n <= Depth
  BY RingTypes DEF WholeAhead
<1> DEFINE m == IF ring.n < Depth THEN ring.n + 1 ELSE Depth
<1> DEFINE nx == (ring.next % Len(Gop)) + 1
<1>2. ring'.n = m /\ ring'.next = nx
  BY <1>1 DEF CameraWrites, WholeAhead
<1>3. nx \in Int /\ m \in Nat
  <2>1. ring.next \in Int /\ Len(Gop) \in Nat \ {0}
    BY <1>1
  <2>2. (ring.next % Len(Gop)) \in 0..(Len(Gop) - 1)
    BY ONLY <2>1, ModRange
  <2>3. QED
    BY <1>1, <2>2
<1>4. CASE ring.n < Depth
  <2>1. \A k \in 1..ring.n : Frames(m, nx)[k] = Frames(ring.n, ring.next)[k]
    BY <1>1, <1>4, WindowGrows
  <2>2. Len(Frames(m, nx)) = ring.n + 1 /\ Len(Frames(ring.n, ring.next)) = ring.n
    BY <1>1, <1>3, <1>4, FramesLen
  <2> HIDE DEF m, nx
  <2>3. KindsOf(Frames(ring.n, ring.next)) \subseteq KindsOf(Frames(m, nx))
    <3>1. \A k \in 1..ring.n : k \in 1..(ring.n + 1)
      BY <1>1
    <3>2. QED
      BY <2>1, <2>2, <3>1 DEF KindsOf
  <2>4. QED
    BY <1>2, <1>3, <2>3 DEF WholeAhead
<1>5. CASE ring.n = Depth
  <2>1. m >= Len(Gop)
    BY <1>1, <1>5
  <2> HIDE DEF m, nx
  <2>2. QED
    BY <1>1, <1>2, <1>3, <2>1, FullShowsAll DEF WholeAhead
<1>6. QED
  BY <1>1, <1>4, <1>5

(* A step of a call that neither searches nor copies after it.             *)
LEMMA OthersKeep ==
    ASSUME Kept, NEW p \in Pids, ring' = ring,
           \A q \in Pids : q # p => procs'[q] = procs[q],
           procs'[p].pc \notin {"search", "copy"}
    PROVE  Kept'
  BY DEF Kept, WholeAhead

LEMMA ExitOthers ==
    ASSUME SnapTypeOK, NEW p \in Pids, NEW status, Exits(p, status)
    PROVE  /\ \A q \in Pids : q # p => procs'[q] = procs[q]
           /\ procs'[p].pc = "none"
  BY DEF Exits, SnapTypeOK, NoProc

LEMMA SearchKeeps ==
    ASSUME SnapTypeOK, Kept, NEW p \in Pids, MapRing(p) \/ WholePass(p) \/ BrokenPass(p)
    PROVE  Kept'
<1>0. Window = Frames(ring.n, ring.next) /\ ring' = ring
  BY DEF Window, Frames, MapRing, WholePass, BrokenPass
<1>1. CASE MapRing(p) /\ Exits(p, 1)
  BY <1>0, <1>1, ExitOthers, OthersKeep
<1>2. CASE MapRing(p) /\ ring.n # -1
  <2> DEFINE w == Needed \subseteq KindsOf(Window)
  <2>1. /\ \A q \in Pids : q # p => procs'[q] = procs[q]
        /\ procs'[p].pc = "search" /\ procs'[p].whole = w
    <3> HIDE DEF w
    <3>1. procs' = [procs EXCEPT ![p].pc = "search", ![p].whole = w]
      BY <1>2 DEF MapRing, w
    <3>2. QED
      BY <3>1 DEF SnapTypeOK, Proc
  <2>2. procs'[p].whole => WholeAhead
    <3>1. ring.n >= 0
      BY <1>2, RingTypes
    <3>2. QED
      BY <1>0, <2>1, <3>1 DEF WholeAhead
  <2> HIDE DEF w
  <2>3. WholeAhead' <=> WholeAhead
    BY <1>0 DEF WholeAhead
  <2>4. QED
    BY <2>1, <2>2, <2>3 DEF Kept
<1>3. CASE WholePass(p)
  <2>1. /\ \A q \in Pids : q # p => procs'[q] = procs[q]
        /\ procs'[p].whole = procs[p].whole
        /\ procs'[p].parts = procs[p].parts \cup KindsOf(Window)
        /\ procs[p].pc = "search"
    <3> DEFINE w == KindsOf(Window)
    <3> DEFINE pc == IF "sps" \in w THEN "copy" ELSE "search"
    <3>1. procs' = [procs EXCEPT ![p].parts = @ \cup w, ![p].pc = pc] /\ procs[p].pc = "search"
      BY <1>3 DEF WholePass
    <3> HIDE DEF w, pc
    <3>2. QED
      BY <3>1 DEF SnapTypeOK, Proc, w
  <2>2. procs[p].whole => WholeAhead /\ Needed \subseteq procs'[p].parts
    BY <1>0, <2>1 DEF Kept, WholeAhead
  <2>3. WholeAhead' <=> WholeAhead
    BY <1>0 DEF WholeAhead
  <2>4. QED
    BY <2>1, <2>2, <2>3 DEF Kept
<1>4. CASE BrokenPass(p)
  <2>1. PICK k \in 0..(ring.n - 1) :
          procs' = [procs EXCEPT ![p].parts = (@ \cup KindsOf(SubSeq(Window, 1, k))) \ {"sps"}]
    BY <1>4 DEF BrokenPass
  <2>2. /\ \A q \in Pids : q # p => procs'[q] = procs[q]
        /\ procs'[p].whole = procs[p].whole /\ procs'[p].pc = "search"
    BY <1>4, <2>1 DEF BrokenPass, SnapTypeOK, Proc
  <2>3. WholeAhead' <=> WholeAhead
    BY <1>0 DEF WholeAhead
  <2>4. QED
    BY <1>4, <2>2, <2>3 DEF Kept, BrokenPass
<1>5. QED
  BY <1>1, <1>2, <1>3, <1>4 DEF MapRing

LEMMA KeptStep == SnapTypeOK /\ Kept /\ [SnapNext]_snapVars => Kept'
<1> SUFFICES ASSUME SnapTypeOK, Kept, [SnapNext]_snapVars PROVE Kept'
  OBVIOUS
<1>1. CASE UNCHANGED <<procs, ring>>
  BY <1>1 DEF Kept, WholeAhead
<1>2. CASE CameraWrites
  <2>1. procs' = procs /\ (WholeAhead => WholeAhead')
    BY <1>2, CameraKeeps DEF CameraWrites
  <2>2. QED
    BY <2>1 DEF Kept
<1>3. CASE Reboot
  BY <1>3 DEF Reboot, Kept, NoProc
<1>4. ASSUME NEW p \in Pids, NEW job \in Videos \cup {0}, procs' = Exec(p, job), ring' = ring
      PROVE  Kept'
  <2>1. /\ \A q \in Pids : q # p => procs'[q] = procs[q]
        /\ procs'[p].pc = "start"
    BY <1>4 DEF Exec, NoProc, SnapTypeOK
  <2>2. QED
    BY <1>4, <2>1, OthersKeep
<1>5. ASSUME NEW p \in Pids, Begins(p) \/ Look(p) \/ Copy(p) \/ SplitFile(p) \/ GivesUp(p)
                             \/ Writes(p) \/ Ready(p)
      PROVE  Kept'
  <2>1. ring' = ring
    BY <1>5 DEF Begins, Look, Copy, SplitFile, GivesUp, Writes, Ready
  <2>2. CASE Exits(p, 0) \/ Exits(p, 1)
    BY <2>1, <2>2, ExitOthers, OthersKeep
  <2>3. CASE \E pc \in {"look", "map", "split", "decode", "write"} : Goes(p, pc)
    <3>1. /\ \A q \in Pids : q # p => procs'[q] = procs[q]
          /\ procs'[p].pc \notin {"search", "copy"}
      BY <2>3 DEF Goes, SnapTypeOK, Proc
    <3>2. QED
      BY <2>1, <3>1, OthersKeep
  <2>4. CASE procs[p].pc = "look" /\ procs' = [procs EXCEPT ![p].at = procs[p].at + 1]
    <3>1. /\ \A q \in Pids : q # p => procs'[q] = procs[q]
          /\ procs'[p].pc = "look"
      BY <2>4 DEF SnapTypeOK, Proc
    <3>2. QED
      BY <2>1, <3>1, OthersKeep
  <2>5. QED
    BY <1>5, <2>2, <2>3, <2>4 DEF Begins, Look, Copy, SplitFile, GivesUp, Writes, Ready
<1>6. ASSUME NEW p \in Pids, MapRing(p) \/ WholePass(p) \/ BrokenPass(p) PROVE Kept'
  BY <1>6, SearchKeeps
<1>7. QED
  BY <1>1, <1>2, <1>3, <1>4, <1>5, <1>6
     DEF SnapNext, Thumb, Grabs, Records, Calls, Makes, Round, Told, Passes, snapVars

-----------------------------------------------------------------------------
(* What imggrabber, thumb.sh and the ring keep in every state.             *)
THEOREM CallsInvariance == SnapSpec => []SnapIInv
<1>1. SnapIInv /\ [SnapNext]_snapVars => SnapIInv'
  BY SnapTypeStep, ExclusionStep DEF SnapIInv
<1>2. QED
  BY SnapInitIInv, <1>1, PTL DEF SnapSpec

(* What a search has met and will meet, in every state.                    *)
THEOREM PartsInvariance == SnapSpec => [](SnapTypeOK /\ Kept)
<1>1. SnapInit => Kept
  BY DEF SnapInit, Kept, NoProc
<1>2. SnapTypeOK /\ Kept /\ [SnapNext]_snapVars => SnapTypeOK' /\ Kept'
  BY SnapTypeStep, KeptStep
<1>3. SnapInit => SnapTypeOK
  BY SnapInitIInv DEF SnapIInv
<1>4. QED
  BY <1>1, <1>2, <1>3, PTL DEF SnapSpec

(* A search that began on a ring with a whole group of frames ends with    *)
(* all parts of a picture, whatever the camera writes over meanwhile and   *)
(* however long a group and the ring are.                                  *)
THEOREM PartsAreComplete == SnapSpec => []PartsComplete
<1>1. SnapTypeOK /\ Kept => PartsComplete
  BY DEF Kept, PartsComplete
<1>2. QED
  BY <1>1, PartsInvariance, PTL

(* Every variable of the snapshots stays in its type.                      *)
THEOREM SnapTypeCorrect == SnapSpec => []SnapTypeOK
<1>1. SnapIInv => SnapTypeOK
  BY DEF SnapIInv
<1>2. QED
  BY <1>1, CallsInvariance, PTL

(* Two calls of imggrabber never search, decode or write at once, although *)
(* proc_find reads /proc pid by pid while calls come and go.               *)
THEOREM OneCallAtWork == SnapSpec => []OneAtATime
<1>1. SnapIInv => OneAtATime
  <2> SUFFICES ASSUME SnapIInv, NEW p \in Working, NEW q \in Working, p # q PROVE FALSE
    BY DEF OneAtATime
  <2>1. p \in Pids /\ q \in Pids
    BY DEF Working
  <2>2. Passed(p, q) /\ Passed(q, p)
    BY DEF Passed
  <2>3. QED
    BY <2>1, <2>2 DEF SnapIInv, NotBoth
<1>2. QED
  BY <1>1, CallsInvariance, PTL

-----------------------------------------------------------------------------
(***************************************************************************)
(* The loop over a file, for files of any length: its rounds, the parts it *)
(* finds, and the picture they make.                                       *)
(***************************************************************************)

(* The first and the last place, 0 if there is none.                       *)
LEMMA FirstIs ==
    ASSUME NEW n \in Nat, NEW S \in SUBSET (1..n)
    PROVE  /\ S = {} => FirstOf(S) = 0
           /\ S # {} => FirstOf(S) \in S /\ \A y \in S : FirstOf(S) <= y
<1>1. ASSUME S # {} PROVE FirstOf(S) \in S /\ \A y \in S : FirstOf(S) <= y
  <2>1. S \in SUBSET Nat
    OBVIOUS
  <2>2. \E x \in S : \A y \in S : x <= y
    BY <1>1, <2>1, MinExists
  <2>3. FirstOf(S) = CHOOSE x \in S : \A y \in S : x <= y
    BY <1>1 DEF FirstOf, Min
  <2>4. QED
    BY <2>2, <2>3
<1>2. QED
  BY <1>1 DEF FirstOf

LEMMA LastIs ==
    ASSUME NEW n \in Nat, NEW S \in SUBSET (1..n)
    PROVE  /\ S = {} => LastOf(S) = 0
           /\ S # {} => LastOf(S) \in S /\ \A y \in S : y <= LastOf(S)
<1>1. ASSUME S # {} PROVE LastOf(S) \in S /\ \A y \in S : y <= LastOf(S)
  <2>1. \E x \in S : \A y \in S : x >= y
    <3>1. \A x, y \in S : y <= x => x >= y
      OBVIOUS
    <3>2. QED
      BY <1>1, <3>1, MaxExists
  <2>2. LastOf(S) = CHOOSE x \in S : \A y \in S : x >= y
    BY <1>1 DEF LastOf, Max
  <2>3. QED
    BY <2>1, <2>2
<1>2. QED
  BY <1>1 DEF LastOf

(* What the bytes say.  A unit that ends a part starts the next one.       *)
LEMMA Classes ==
    ASSUME NEW b \in 0..255
    PROVE  /\ EndClass(b) # "none" => StartClass(b) \in {"sps", "pps", "idr"}
           /\ EndClass(b) = "vps" => StartClass(b) = "sps"
           /\ EndClass(b) = "sps" <=> StartClass(b) = "pps"
           /\ EndClass(b) = "pps" => StartClass(b) \in {"idr", "sps"}
           /\ StartClass(b) = "idr" => EndClass(b) = "pps"
<1> DEFINE l == b % 32
           h == (b \div 2) % 64
<1>1. /\ h = 32 => l \in {0, 1}
      /\ h = 33 => l \in {2, 3}
      /\ h = 34 => l \in {4, 5}
      /\ h = 19 => l \in {6, 7}
  BY Z3
<1>2. /\ StartClass(b) = IF h = 32 THEN "vps" ELSE IF l = 7 \/ h = 33 THEN "sps"
                         ELSE IF l = 8 \/ h = 34 THEN "pps"
                         ELSE IF l = 5 \/ h = 19 THEN "idr" ELSE "none"
      /\ EndClass(b) = IF h = 33 THEN "vps" ELSE IF l = 8 \/ h = 34 THEN "sps"
                       ELSE IF l = 5 \/ h = 19 THEN "pps" ELSE "none"
  BY DEF StartClass, EndClass, H264, H265
<1> HIDE DEF l, h
<1>3. QED
  BY <1>1, <1>2

-----------------------------------------------------------------------------
(* The places of a file where a part starts, and where one ends.           *)
Heads(f) == {k \in 1..Len(f) : StartClass(f[k]) # "none"}
Ending(f) == {k \in 1..Len(f) : EndClass(f[k]) # "none"}
After(S, k) == {n \in S : n > k}

(* One round of the loop, which begins at k, and the rounds g from where   *)
(* it ends.                                                                *)
OneRound(f, g, k) ==
    LET i == FirstOf({n \in k..Len(f) : StartClass(f[n]) # "none"})
        j == FirstOf({n \in (i + 1)..Len(f) : EndClass(f[n]) # "none"}) IN
    IF i = 0 THEN {} ELSE {<<i, j>>} \cup (IF j = 0 THEN {} ELSE g[j])
AreRounds(f, g) == g = [k \in 1..(Len(f) + 1) |-> OneRound(f, g, k)]

LEMMA RoundsChosen == ASSUME NEW f PROVE Rounds(f) = (CHOOSE g : AreRounds(f, g))[1]
  BY DEF Rounds, AreRounds, OneRound

(* The rounds from a place on, without the loop.                           *)
RoundsFrom(f, k) ==
    LET i == FirstOf({n \in k..Len(f) : StartClass(f[n]) # "none"}) IN
    IF i = 0 THEN {}
    ELSE {<<n, FirstOf(After(Ending(f), n))>> : n \in {i} \cup After(Ending(f), i)}

LEMMA HeadsAhead ==
    ASSUME NEW f \in Seq(0..255), NEW k \in Nat \ {0}
    PROVE  LET H == {n \in k..Len(f) : StartClass(f[n]) # "none"} IN
           /\ H = {} => FirstOf(H) = 0
           /\ H # {} => FirstOf(H) \in H /\ \A y \in H : FirstOf(H) <= y
<1> DEFINE H == {n \in k..Len(f) : StartClass(f[n]) # "none"}
<1>1. Len(f) \in Nat /\ H \in SUBSET (1..Len(f))
  OBVIOUS
<1> HIDE DEF H
<1>2. /\ H = {} => FirstOf(H) = 0
      /\ H # {} => FirstOf(H) \in H /\ \A y \in H : FirstOf(H) <= y
  BY <1>1, FirstIs
<1>3. QED
  BY <1>2 DEF H

LEMMA EndsAhead ==
    ASSUME NEW f \in Seq(0..255), NEW k \in Nat
    PROVE  LET T == After(Ending(f), k) IN
           /\ {n \in (k + 1)..Len(f) : EndClass(f[n]) # "none"} = T
           /\ T = {} => FirstOf(T) = 0
           /\ T # {} => FirstOf(T) \in T /\ \A y \in T : FirstOf(T) <= y
<1> DEFINE T == After(Ending(f), k)
<1>1. Len(f) \in Nat /\ T \in SUBSET (1..Len(f))
  BY DEF After, Ending
<1>2. {n \in (k + 1)..Len(f) : EndClass(f[n]) # "none"} = T
  BY <1>1 DEF After, Ending
<1> HIDE DEF T
<1>3. /\ T = {} => FirstOf(T) = 0
      /\ T # {} => FirstOf(T) \in T /\ \A y \in T : FirstOf(T) <= y
  BY <1>1, FirstIs
<1>4. QED
  BY <1>2, <1>3 DEF T

(* These rounds begin with one and go on where it ends.                    *)
LEMMA AheadIsRound ==
    ASSUME NEW f \in Seq(0..255), NEW g, NEW k \in 1..(Len(f) + 1),
           \A j \in 1..Len(f) : j > k => g[j] = RoundsFrom(f, j)
    PROVE  OneRound(f, g, k) = RoundsFrom(f, k)
<1> DEFINE H == {n \in k..Len(f) : StartClass(f[n]) # "none"}
           i == FirstOf(H)
           T == After(Ending(f), i)
           j == FirstOf(T)
           E == {n \in (i + 1)..Len(f) : EndClass(f[n]) # "none"}
<1>0. Len(f) \in Nat /\ k \in Nat /\ k >= 1
  OBVIOUS
<1>1. /\ H = {} => i = 0
      /\ H # {} => i \in H
  BY HeadsAhead
<1>2. i # 0 => i \in 1..Len(f) /\ i >= k
  <2>1. H \in SUBSET {n \in 1..Len(f) : n >= k}
    BY <1>0
  <2> HIDE DEF H, i
  <2>2. QED
    BY <1>1, <2>1
<1>3. OneRound(f, g, k) = IF i = 0 THEN {}
                         ELSE {<<i, FirstOf(E)>>}
                              \cup (IF FirstOf(E) = 0 THEN {} ELSE g[FirstOf(E)])
  BY DEF OneRound
<1>4. RoundsFrom(f, k) = IF i = 0 THEN {}
                        ELSE {<<n, FirstOf(After(Ending(f), n))>> : n \in {i} \cup T}
  BY DEF RoundsFrom
<1> HIDE DEF H, i
<1>5. CASE i = 0
  BY <1>3, <1>4, <1>5
<1>6. CASE i # 0
  <2>1. i \in 1..Len(f) /\ i >= k /\ i \in Nat
    BY <1>0, <1>2, <1>6
  <2>2. /\ E = T
        /\ T = {} => j = 0
        /\ T # {} => j \in T /\ \A y \in T : j <= y
    BY <2>1, EndsAhead
  <2>3. T = {n \in 1..Len(f) : EndClass(f[n]) # "none" /\ n > i}
    BY DEF After, Ending
  <2> HIDE DEF T, E, j
  <2>4. OneRound(f, g, k) = {<<i, j>>} \cup (IF j = 0 THEN {} ELSE g[j])
    BY <1>3, <1>6, <2>2 DEF j
  <2>5. RoundsFrom(f, k) = {<<n, FirstOf(After(Ending(f), n))>> : n \in {i} \cup T}
    BY <1>4, <1>6
  <2>6. <<i, j>> = <<i, FirstOf(After(Ending(f), i))>>
    BY DEF j, T
  <2>7. CASE T = {}
    BY <2>2, <2>4, <2>5, <2>6, <2>7
  <2>8. CASE T # {}
    <3>1. j \in 1..Len(f) /\ j > i /\ EndClass(f[j]) # "none"
      BY <2>2, <2>3, <2>8
    <3>2. f[j] \in 0..255 /\ j \in Nat \ {0} /\ j > k
      BY <1>0, <2>1, <3>1
    <3> DEFINE H2 == {n \in j..Len(f) : StartClass(f[n]) # "none"}
    <3>3. j \in H2
      <4>1. StartClass(f[j]) # "none"
        BY ONLY <3>1, <3>2, Classes
      <4>2. j \in j..Len(f)
        BY <1>0, <3>1, <3>2
      <4>3. QED
        BY <4>1, <4>2
    <3>4. /\ H2 = {} => FirstOf(H2) = 0
          /\ H2 # {} => FirstOf(H2) \in H2 /\ \A y \in H2 : FirstOf(H2) <= y
      BY <3>2, HeadsAhead
    <3>5. \A y \in H2 : y \in Int /\ y >= j
      BY <3>1
    <3>6. g[j] = RoundsFrom(f, j)
      BY <3>1, <3>2
    <3>7. RoundsFrom(f, j) = IF FirstOf(H2) = 0 THEN {}
                         ELSE {<<n, FirstOf(After(Ending(f), n))>> :
                                 n \in {FirstOf(H2)} \cup After(Ending(f), FirstOf(H2))}
      BY DEF RoundsFrom
    <3> HIDE DEF H2
    <3>8. FirstOf(H2) = j
      <4>1. FirstOf(H2) \in H2 /\ FirstOf(H2) <= j
        BY <3>3, <3>4
      <4>2. QED
        BY <3>2, <3>5, <4>1
    <3>9. g[j] = {<<n, FirstOf(After(Ending(f), n))>> : n \in {j} \cup After(Ending(f), j)}
      BY <3>2, <3>6, <3>7, <3>8
    <3>10. After(Ending(f), j) = {n \in 1..Len(f) : EndClass(f[n]) # "none" /\ n > j}
      BY DEF After, Ending
    <3>11. T = {j} \cup After(Ending(f), j)
      <4>1. \A n \in T : n = j \/ n > j
        BY <2>2, <2>3, <2>8, <3>1
      <4>2. QED
        BY <2>1, <2>3, <3>1, <3>10, <4>1
    <3>12. OneRound(f, g, k) = {<<i, j>>} \cup {<<n, FirstOf(After(Ending(f), n))>> : n \in T}
      BY <2>4, <3>2, <3>9, <3>11
    <3>13. QED
      BY <2>5, <2>6, <3>12
  <2>9. QED
    BY <2>7, <2>8
<1>7. QED
  BY <1>5, <1>6

LEMMA RoundsAre ==
    ASSUME NEW f \in Seq(0..255) PROVE Rounds(f) = RoundsFrom(f, 1)
<1> DEFINE h == [k \in 1..(Len(f) + 1) |-> RoundsFrom(f, k)]
<1>0. Len(f) \in Nat
  OBVIOUS
<1>1. AreRounds(f, h)
  <2>1. \A j \in 1..Len(f) : h[j] = RoundsFrom(f, j)
    BY <1>0
  <2> HIDE DEF h
  <2>2. \A k \in 1..(Len(f) + 1) : OneRound(f, h, k) = RoundsFrom(f, k)
    BY <2>1, AheadIsRound
  <2>3. [k \in 1..(Len(f) + 1) |-> RoundsFrom(f, k)] = [k \in 1..(Len(f) + 1) |-> OneRound(f, h, k)]
    BY <2>2
  <2>4. QED
    BY <2>3 DEF AreRounds, h
<1>2. ASSUME NEW g, AreRounds(f, g) PROVE g[1] = RoundsFrom(f, 1)
  <2> DEFINE Bad == {k \in 1..(Len(f) + 1) : g[k] # RoundsFrom(f, k)}
  <2>1. \A k \in 1..(Len(f) + 1) : g[k] = OneRound(f, g, k)
    <3>1. g = [k \in 1..(Len(f) + 1) |-> OneRound(f, g, k)]
      BY <1>2 DEF AreRounds
    <3>2. ASSUME NEW R(_), g = [k \in 1..(Len(f) + 1) |-> R(k)],
            NEW k \in 1..(Len(f) + 1) PROVE g[k] = R(k)
      BY <3>2
    <3>3. QED
      BY <3>1
  <2>2. Bad = {}
    <3> SUFFICES ASSUME Bad # {} PROVE FALSE
      OBVIOUS
    <3>1. PICK m \in Bad : \A y \in Bad : y <= m
      <4>1. Len(f) + 1 \in Nat /\ Bad \in SUBSET (1..(Len(f) + 1))
        BY <1>0
      <4> HIDE DEF Bad
      <4>2. QED
        BY <4>1, MaxExists
    <3>2. m \in 1..(Len(f) + 1) /\ \A j \in 1..Len(f) : j > m => g[j] = RoundsFrom(f, j)
      BY <1>0, <3>1
    <3>3. g[m] = RoundsFrom(f, m)
      BY <2>1, <3>2, AheadIsRound
    <3>4. QED
      BY <3>1, <3>3
  <2>3. 1 \in 1..(Len(f) + 1)
    BY <1>0
  <2>4. QED
    BY <2>2, <2>3
<1> HIDE DEF h
<1>3. AreRounds(f, CHOOSE g : AreRounds(f, g))
  BY <1>1
<1>4. QED
  BY <1>2, <1>3, RoundsChosen

-----------------------------------------------------------------------------
(* A round begins at the first part, and wherever one ends after it.       *)
First(f) == FirstOf(Heads(f))
Beginnings(f) == {First(f)} \cup After(Ending(f), First(f))

LEMMA FirstHead ==
    ASSUME NEW f \in Seq(0..255), Heads(f) # {}
    PROVE  /\ First(f) \in 1..Len(f) /\ StartClass(f[First(f)]) # "none"
           /\ \A k \in Heads(f) : First(f) <= k
<1>1. Len(f) \in Nat /\ Heads(f) \in SUBSET (1..Len(f))
  BY DEF Heads
<1>2. First(f) \in Heads(f) /\ \A k \in Heads(f) : First(f) <= k
  BY <1>1, FirstIs DEF First
<1>3. QED
  BY <1>2 DEF Heads

LEMMA RoundsOf ==
    ASSUME NEW f \in Seq(0..255), Heads(f) # {}
    PROVE  Rounds(f) = {<<n, FirstOf(After(Ending(f), n))>> : n \in Beginnings(f)}
<1> DEFINE i == FirstOf({n \in 1..Len(f) : StartClass(f[n]) # "none"})
<1>1. Rounds(f) = IF i = 0 THEN {}
                  ELSE {<<n, FirstOf(After(Ending(f), n))>> : n \in {i} \cup After(Ending(f), i)}
  BY RoundsAre DEF RoundsFrom
<1>2. i = First(f)
  BY DEF First, Heads
<1> HIDE DEF i
<1>3. i # 0
  BY <1>2, FirstHead
<1>4. QED
  BY <1>1, <1>2, <1>3 DEF Beginnings

LEMMA StartsIs ==
    ASSUME NEW f \in Seq(0..255), Heads(f) # {}, NEW c
    PROVE  Starts(f, c) = LastOf({n \in Beginnings(f) : StartClass(f[n]) = c})
<1> DEFINE R == {<<n, FirstOf(After(Ending(f), n))>> : n \in Beginnings(f)}
           A == {r[1] : r \in {x \in R : StartClass(f[x[1]]) = c}}
           B == {n \in Beginnings(f) : StartClass(f[n]) = c}
<1>1. A = B
  <2>1. ASSUME NEW t \in B PROVE t \in A
    <3>1. <<t, FirstOf(After(Ending(f), t))>> \in R /\ StartClass(f[t]) = c
      OBVIOUS
    <3>2. <<t, FirstOf(After(Ending(f), t))>>[1] = t
      OBVIOUS
    <3> HIDE DEF R
    <3>3. QED
      BY <3>1, <3>2
  <2>2. ASSUME NEW t \in A PROVE t \in B
    <3>1. PICK r \in R : StartClass(f[r[1]]) = c /\ t = r[1]
      BY <2>2
    <3>2. PICK n \in Beginnings(f) : r = <<n, FirstOf(After(Ending(f), n))>>
      BY <3>1
    <3>3. r[1] = n
      BY <3>2
    <3>4. QED
      BY <3>1, <3>3
  <2>3. QED
    BY <2>1, <2>2
<1>2. Starts(f, c) = LastOf(A)
  BY RoundsOf DEF Starts
<1> HIDE DEF A, B
<1>3. Starts(f, c) = LastOf(B)
  BY <1>1, <1>2
<1>4. QED
  BY <1>3 DEF B

(* Each end is that of the round which began where the end before it is.   *)
LEMMA EndsIs ==
    ASSUME NEW f \in Seq(0..255), Heads(f) # {}, NEW c
    PROVE  Ends(f, c) = LastOf({n \in After(Ending(f), First(f)) : EndClass(f[n]) = c})
<1> DEFINE R == {<<n, FirstOf(After(Ending(f), n))>> : n \in Beginnings(f)}
           A == {r[2] : r \in {x \in R : x[2] # 0 /\ EndClass(f[x[2]]) = c}}
           T == After(Ending(f), First(f))
           B == {n \in T : EndClass(f[n]) = c}
<1>0. /\ Len(f) \in Nat /\ First(f) \in 1..Len(f)
      /\ T = {n \in 1..Len(f) : EndClass(f[n]) # "none" /\ n > First(f)}
      /\ Beginnings(f) = {First(f)} \cup T
  BY FirstHead DEF After, Ending, Beginnings
<1>1. ASSUME NEW n \in Beginnings(f), FirstOf(After(Ending(f), n)) # 0
      PROVE  FirstOf(After(Ending(f), n)) \in T
  <2>1. n \in 1..Len(f) /\ n >= First(f) /\ n \in Nat
    BY <1>0
  <2>2. FirstOf(After(Ending(f), n)) \in After(Ending(f), n)
    BY <1>1, <2>1, EndsAhead
  <2>3. QED
    BY <1>0, <2>1, <2>2 DEF After, Ending
<1>2. ASSUME NEW t \in T PROVE \E n \in Beginnings(f) : FirstOf(After(Ending(f), n)) = t
  <2> DEFINE Q == {n \in Beginnings(f) : n < t}
  <2>1. Q \in SUBSET (1..Len(f)) /\ First(f) \in Q
    BY <1>0
  <2>2. PICK n \in Q : \A y \in Q : y <= n
    <3>1. Q # {}
      BY <2>1
    <3> HIDE DEF Q
    <3>2. QED
      BY <1>0, <2>1, <3>1, MaxExists
  <2>3. n \in 1..Len(f) /\ n \in Nat /\ n >= First(f) /\ n < t /\ n \in Beginnings(f)
    BY <1>0, <2>2
  <2>4. t \in After(Ending(f), n) /\ t \in 1..Len(f)
    BY <1>0, <2>3 DEF After, Ending
  <2>5. ASSUME NEW y \in After(Ending(f), n) PROVE y >= t /\ y \in 1..Len(f)
    <3>1. y \in 1..Len(f) /\ y > n /\ EndClass(f[y]) # "none"
      BY DEF After, Ending
    <3>2. y \in T
      BY <1>0, <2>3, <3>1
    <3>3. ~(y \in Q)
      BY <2>2, <2>3, <3>1
    <3>4. QED
      BY <1>0, <2>4, <3>1, <3>2, <3>3
  <2>6. /\ FirstOf(After(Ending(f), n)) \in After(Ending(f), n)
        /\ FirstOf(After(Ending(f), n)) <= t
    BY <2>3, <2>4, EndsAhead
  <2>7. FirstOf(After(Ending(f), n)) = t
    <3>1. FirstOf(After(Ending(f), n)) >= t /\ FirstOf(After(Ending(f), n)) \in Int
      BY <1>0, <2>5, <2>6
    <3>2. QED
      BY <2>4, <2>6, <3>1
  <2>8. QED
    BY <2>3, <2>7
<1>3. A = B
  <2>1. \A t \in T : t # 0
    BY <1>0
  <2> HIDE DEF T
  <2>2. \A t \in A : t \in B
    BY <1>1
  <2>3. ASSUME NEW t \in B PROVE t \in A
    <3>1. PICK n \in Beginnings(f) : FirstOf(After(Ending(f), n)) = t
      BY <1>2
    <3>2. <<n, t>> \in R
      BY <3>1
    <3>3. t # 0 /\ EndClass(f[t]) = c
      BY <2>1
    <3>4. <<n, t>>[2] = t
      OBVIOUS
    <3> HIDE DEF R
    <3>5. QED
      BY <3>2, <3>3, <3>4
  <2>4. QED
    BY <2>2, <2>3
<1>4. Ends(f, c) = LastOf(A)
  BY RoundsOf DEF Ends
<1> HIDE DEF A, B
<1>5. Ends(f, c) = LastOf(B)
  BY <1>3, <1>4
<1>6. QED
  BY <1>5 DEF B, T

-----------------------------------------------------------------------------
LEMMA LastMember ==
    ASSUME NEW n \in Nat, NEW S \in SUBSET (1..n), NEW x \in S, \A y \in S : y <= x
    PROVE  LastOf(S) = x
<1>1. LastOf(S) \in S /\ \A y \in S : y <= LastOf(S)
  BY LastIs
<1>2. \A y \in S : y \in Int
  OBVIOUS
<1>3. x <= LastOf(S) /\ LastOf(S) <= x
  BY <1>1
<1>4. LastOf(S) \in Int /\ x \in Int
  BY <1>1, <1>2
<1>5. \A i, j \in Int : i <= j /\ j <= i => i = j
  OBVIOUS
<1>6. QED
  BY ONLY <1>3, <1>4, <1>5

LEMMA BytesOf ==
    ASSUME NEW f \in Seq(0..255)
    PROVE  Len(f) \in Nat /\ \A k \in 1..Len(f) : f[k] \in 0..255
<1>1. Len(f) \in Nat
  OBVIOUS
<1>2. ASSUME NEW k \in 1..Len(f) PROVE f[k] \in 0..255
  BY ElementOfSeq
<1>3. QED
  BY <1>1, <1>2

(* Where the parts of a file that begins with a key frame start and end.   *)
LEMMA PartsOfFile ==
    ASSUME NEW f \in Seq(0..255), KeyFrameFirst(f)
    PROVE  \E a, p, d \in 1..Len(f) :
              /\ a < p /\ p < d
              /\ Starts(f, "sps") = a /\ Ends(f, "sps") = p
              /\ Starts(f, "pps") = p /\ Ends(f, "pps") = d
              /\ Starts(f, "idr") = d
              /\ StartClass(f[a]) = "sps" /\ StartClass(f[d]) = "idr"
              /\ \/ Starts(f, "vps") = 0 /\ StartClass(f[1]) # "vps"
                 \/ /\ Starts(f, "vps") = 1 /\ StartClass(f[1]) = "vps"
                    /\ Ends(f, "vps") = a /\ 1 < a
<1> DEFINE N == Len(f)
           s == First(f)
           Sps == UnitsOf(f, "sps")
           Pps == UnitsOf(f, "pps")
           Idr == UnitsOf(f, "idr")
           T == After(Ending(f), s)
<1>0. /\ N \in Nat /\ \A k \in 1..N : f[k] \in 0..255
      /\ Sps \in SUBSET (1..N) /\ Pps \in SUBSET (1..N) /\ Idr \in SUBSET (1..N)
  <2>1. \A c : UnitsOf(f, c) \in SUBSET (1..Len(f))
    BY DEF UnitsOf
  <2>2. Len(f) \in Nat /\ \A k \in 1..Len(f) : f[k] \in 0..255
    BY BytesOf
  <2>3. QED
    BY <2>1, <2>2
<1>1. /\ \A k \in 1..N : k \in Sps <=> StartClass(f[k]) = "sps"
      /\ \A k \in 1..N : k \in Pps <=> StartClass(f[k]) = "pps"
      /\ \A k \in 1..N : k \in Idr <=> StartClass(f[k]) = "idr"
  BY DEF UnitsOf
<1>2. /\ Idr # {}
      /\ \A k \in Idr : \E l \in Sps, m \in Pps : l < m /\ m < k
      /\ \A l \in Sps : \E m \in Pps : l < m
      /\ \A m \in Pps : \E k \in Idr : m < k
      /\ \/ \E l \in Sps : \A k \in 1..(l - 1) : StartClass(f[k]) = "none"
         \/ StartClass(f[1]) = "vps" /\ \A l \in Sps : EndClass(f[l]) = "vps"
  BY DEF KeyFrameFirst
<1>3. Sps # {} /\ Pps # {} /\ Idr # {}
  BY <1>2
<1>4. /\ s \in 1..N /\ StartClass(f[s]) # "none"
      /\ \A k \in 1..N : StartClass(f[k]) # "none" => s <= k
  <2>1. Heads(f) # {}
    BY <1>0, <1>1, <1>3 DEF Heads
  <2>2. QED
    BY <2>1, FirstHead DEF Heads
<1>5. /\ \A c : Starts(f, c) = LastOf({n \in {s} \cup T : StartClass(f[n]) = c})
      /\ \A c : Ends(f, c) = LastOf({n \in T : EndClass(f[n]) = c})
  <2>1. Heads(f) # {}
    BY <1>4 DEF Heads
  <2>2. QED
    BY <2>1, StartsIs, EndsIs DEF Beginnings
<1>6. \A k \in 1..N : k \in T <=> k > s /\ EndClass(f[k]) # "none"
  BY DEF After, Ending
<1>7. T \in SUBSET (1..N)
  BY DEF After, Ending
<1>8. \A k \in 1..N : /\ EndClass(f[k]) # "none" => StartClass(f[k]) \in {"sps", "pps", "idr"}
                      /\ EndClass(f[k]) = "vps" => StartClass(f[k]) = "sps"
                      /\ EndClass(f[k]) = "sps" <=> StartClass(f[k]) = "pps"
                      /\ EndClass(f[k]) = "pps" => StartClass(f[k]) \in {"idr", "sps"}
                      /\ StartClass(f[k]) = "idr" => EndClass(f[k]) = "pps"
  BY <1>0, Classes
<1> HIDE DEF N, s, Sps, Pps, Idr, T
<1>9. StartClass(f[s]) \in {"vps", "sps"} /\ (StartClass(f[s]) = "vps" => s = 1)
  <2>1. 1 \in 1..N
    BY <1>0, <1>4
  <2>2. CASE \E l \in Sps : \A k \in 1..(l - 1) : StartClass(f[k]) = "none"
    <3>1. PICK l \in Sps : \A k \in 1..(l - 1) : StartClass(f[k]) = "none"
      BY <2>2
    <3>2. l \in 1..N /\ StartClass(f[l]) = "sps"
      BY <1>0, <1>1
    <3>3. s <= l
      BY <1>4, <3>2
    <3>4. ~(s \in 1..(l - 1))
      BY <1>4, <3>1
    <3>5. s = l
      BY <1>0, <1>4, <3>2, <3>3, <3>4
    <3>6. QED
      BY <3>2, <3>5
  <2>3. CASE StartClass(f[1]) = "vps"
    <3>1. s <= 1
      BY <1>4, <2>1, <2>3
    <3>2. s = 1
      BY <1>0, <1>4, <3>1
    <3>3. QED
      BY <2>3, <3>2
  <2>4. QED
    BY <1>2, <2>2, <2>3
<1>10. PICK d \in Idr : \A y \in Idr : y <= d
  BY <1>0, <1>3, MaxExists
<1>11. PICK p \in Pps : \A y \in Pps : y <= p
  BY <1>0, <1>3, MaxExists
<1>12. /\ p \in 1..N /\ d \in 1..N /\ StartClass(f[p]) = "pps" /\ StartClass(f[d]) = "idr"
       /\ p < d /\ s < p
  <2>1. p \in 1..N /\ d \in 1..N /\ StartClass(f[p]) = "pps" /\ StartClass(f[d]) = "idr"
    BY <1>0, <1>1
  <2>2. s <= p /\ s # p
    BY <1>4, <1>9, <2>1
  <2>3. PICK k \in Idr : p < k
    BY <1>2
  <2>4. k <= d /\ k \in 1..N
    BY <1>0, <1>10
  <2>5. QED
    BY <1>0, <1>4, <2>1, <2>2, <2>3, <2>4
<1>13. Pps \subseteq T /\ Idr \subseteq T
  <2>1. \A k \in Pps \cup Idr : k \in 1..N /\ s <= k /\ s # k /\ EndClass(f[k]) # "none"
    BY <1>0, <1>1, <1>4, <1>8, <1>9
  <2>2. \A k \in Pps \cup Idr : k > s
    BY <1>0, <1>4, <2>1
  <2>3. QED
    BY <1>6, <2>1, <2>2
<1>14. Starts(f, "pps") = p /\ Ends(f, "sps") = p
  <2>1. {n \in {s} \cup T : StartClass(f[n]) = "pps"} = Pps
    BY <1>0, <1>1, <1>7, <1>9, <1>13
  <2>2. {n \in T : EndClass(f[n]) = "sps"} = Pps
    BY <1>0, <1>1, <1>7, <1>8, <1>13
  <2>3. LastOf(Pps) = p
    BY <1>0, <1>11, LastMember
  <2>4. QED
    BY <1>5, <2>1, <2>2, <2>3
<1>15. Starts(f, "idr") = d
  <2>1. {n \in {s} \cup T : StartClass(f[n]) = "idr"} = Idr
    BY <1>0, <1>1, <1>7, <1>9, <1>13
  <2>2. LastOf(Idr) = d
    BY <1>0, <1>10, LastMember
  <2>3. QED
    BY <1>5, <2>1, <2>2
<1>16. \A l \in Sps : l < p /\ l < d
  <2> SUFFICES ASSUME NEW l \in Sps PROVE l < p /\ l < d
    OBVIOUS
  <2>1. PICK m \in Pps : l < m
    BY <1>2
  <2>2. m <= p /\ m \in 1..N /\ l \in 1..N
    BY <1>0, <1>11
  <2>3. QED
    BY <1>0, <1>12, <2>1, <2>2
<1>17. Ends(f, "pps") = d
  <2> DEFINE E == {n \in T : EndClass(f[n]) = "pps"}
  <2>1. d \in E
    BY <1>8, <1>12, <1>13
  <2>2. \A y \in E : y <= d
    <3> SUFFICES ASSUME NEW y \in E PROVE y <= d
      OBVIOUS
    <3>1. y \in 1..N /\ (y \in Idr \/ y \in Sps)
      BY <1>1, <1>7, <1>8
    <3>2. QED
      BY <1>10, <1>12, <1>16, <3>1
  <2>3. E \in SUBSET (1..N)
    BY <1>7
  <2>4. Ends(f, "pps") = LastOf(E)
    BY <1>5
  <2> HIDE DEF E
  <2>5. QED
    BY <1>0, <2>1, <2>2, <2>3, <2>4, LastMember
<1>18. \A n \in T : StartClass(f[n]) # "vps"
  BY <1>6, <1>7, <1>8
<1> DEFINE A == {n \in {s} \cup T : StartClass(f[n]) = "sps"}
           a == Starts(f, "sps")
<1>19. A \in SUBSET (1..N) /\ A \subseteq Sps /\ a = LastOf(A)
  BY <1>0, <1>1, <1>4, <1>5, <1>7
<1>20. A # {} => a \in 1..N /\ a < p /\ StartClass(f[a]) = "sps"
  <2>1. A # {} => a \in A
    <3> HIDE DEF A
    <3>1. QED
      BY <1>0, <1>19, LastIs
  <2>2. QED
    BY <1>0, <1>1, <1>16, <1>19, <2>1
<1>21. CASE StartClass(f[s]) = "sps"
  <2>1. A # {}
    BY <1>21
  <2>2. {n \in {s} \cup T : StartClass(f[n]) = "vps"} = {}
    BY <1>18, <1>21
  <2>3. Starts(f, "vps") = 0
    <3>1. {} \in SUBSET (1..N)
      OBVIOUS
    <3>2. QED
      BY <1>0, <1>5, <2>2, <3>1, LastIs
  <2>4. StartClass(f[1]) # "vps"
    <3> SUFFICES ASSUME StartClass(f[1]) = "vps" PROVE FALSE
      OBVIOUS
    <3>1. 1 \in 1..N
      BY <1>0, <1>4
    <3>2. s <= 1
      BY <1>4, <3>1
    <3>3. s = 1
      BY <1>0, <1>4, <3>2
    <3>4. QED
      BY <1>21, <3>3
  <2> HIDE DEF a, A
  <2>5. a = Starts(f, "sps")
    BY DEF a
  <2>6. QED
    BY <1>12, <1>14, <1>15, <1>17, <1>20, <2>1, <2>3, <2>4, <2>5 DEF N
<1>22. CASE StartClass(f[s]) = "vps"
  <2>1. s = 1 /\ StartClass(f[1]) = "vps"
    BY <1>9, <1>22
  <2>2. \A l \in Sps : EndClass(f[l]) = "vps"
    <3>1. \A l \in Sps : ~ \A k \in 1..(l - 1) : StartClass(f[k]) = "none"
      <4> SUFFICES ASSUME NEW l \in Sps, \A k \in 1..(l - 1) : StartClass(f[k]) = "none" PROVE FALSE
        OBVIOUS
      <4>1. l \in 1..N /\ l # 1
        BY <1>0, <1>1, <2>1
      <4>2. 1 \in 1..(l - 1)
        BY <1>0, <4>1
      <4>3. QED
        BY <2>1, <4>2
    <3>2. QED
      BY <1>2, <3>1
  <2>3. Sps \subseteq T
    <3>1. \A l \in Sps : l \in 1..N /\ l # 1 /\ EndClass(f[l]) # "none"
      BY <1>0, <1>1, <2>1, <2>2
    <3>2. \A l \in Sps : l > s
      BY <1>0, <2>1, <3>1
    <3>3. QED
      BY <1>6, <3>1, <3>2
  <2>4. A = Sps
    BY <1>1, <1>7, <1>19, <2>3
  <2>5. {n \in T : EndClass(f[n]) = "vps"} = Sps
    BY <1>1, <1>7, <1>8, <2>2, <2>3
  <2>6. Ends(f, "vps") = a
    BY <1>5, <1>19, <2>4, <2>5
  <2>7. {n \in {s} \cup T : StartClass(f[n]) = "vps"} = {1}
    BY <1>18, <2>1
  <2>8. Starts(f, "vps") = 1
    <3>1. {1} \in SUBSET (1..N) /\ \A y \in {1} : y <= 1
      BY <1>4, <2>1
    <3>2. LastOf({1}) = 1
      BY <1>0, <3>1, LastMember
    <3>3. QED
      BY <1>5, <2>7, <3>2
  <2>9. A # {}
    BY <1>3, <2>4
  <2>10. 1 < a
    <3>1. a \in 1..N /\ a # 1
      BY <1>20, <2>1, <2>9
    <3> HIDE DEF a
    <3>2. QED
      BY <1>0, <3>1
  <2> HIDE DEF a, A
  <2>11. a = Starts(f, "sps")
    BY DEF a
  <2>12. QED
    BY <1>12, <1>14, <1>15, <1>17, <1>20, <2>1, <2>6, <2>8, <2>9, <2>10, <2>11 DEF N
<1>23. QED
  BY <1>9, <1>21, <1>22

-----------------------------------------------------------------------------
(* The parts follow each other in the file, so the picture is all of it    *)
(* from the first part on.                                                 *)
LEMMA PictureIs ==
    ASSUME NEW f \in Seq(0..255), KeyFrameFirst(f)
    PROVE  /\ Accepted(f)
           /\ \A c \in {"sps", "pps"} : Starts(f, c) < Ends(f, c)
           /\ HasVps(f) <=> StartClass(f[1]) = "vps"
           /\ \E o \in 1..Len(f) :
                 /\ Picture(f) = SubSeq(f, o, Len(f))
                 /\ StartClass(f[o]) = "sps" \/ (o = 1 /\ StartClass(f[1]) = "vps")
                 /\ \E k \in o..Len(f) : StartClass(f[k]) = "idr"
<1>1. PICK a, p, d \in 1..Len(f) :
              /\ a < p /\ p < d
              /\ Starts(f, "sps") = a /\ Ends(f, "sps") = p
              /\ Starts(f, "pps") = p /\ Ends(f, "pps") = d
              /\ Starts(f, "idr") = d
              /\ StartClass(f[a]) = "sps" /\ StartClass(f[d]) = "idr"
              /\ \/ Starts(f, "vps") = 0 /\ StartClass(f[1]) # "vps"
                 \/ /\ Starts(f, "vps") = 1 /\ StartClass(f[1]) = "vps"
                    /\ Ends(f, "vps") = a /\ 1 < a
  BY PartsOfFile
<1>2. Len(f) \in Nat /\ a \in Nat /\ p \in Nat /\ d \in Nat /\ a >= 1 /\ d <= Len(f)
  OBVIOUS
<1>3. Accepted(f) /\ \A c \in {"sps", "pps"} : Starts(f, c) < Ends(f, c)
  <2>1. a > 0 /\ p > 0 /\ d > 0
    BY <1>1, <1>2
  <2>2. QED
    BY <1>1, <2>1 DEF Accepted
<1>4. /\ Part(f, "sps") = SubSeq(f, a, p - 1)
      /\ Part(f, "pps") = SubSeq(f, p, d - 1)
      /\ Part(f, "idr") = SubSeq(f, d, Len(f))
  BY <1>1 DEF Part
<1>5. \A m \in 1..(Len(f) + 1), k \in 1..(Len(f) + 1), n \in Nat :
         m <= k /\ k - 1 <= n /\ n <= Len(f) =>
            SubSeq(f, m, k - 1) \o SubSeq(f, k, n) = SubSeq(f, m, n)
  <2> SUFFICES ASSUME NEW m \in 1..(Len(f) + 1), NEW k \in 1..(Len(f) + 1), NEW n \in Nat,
                      m <= k, k - 1 <= n, n <= Len(f)
               PROVE  SubSeq(f, m, k - 1) \o SubSeq(f, k, n) = SubSeq(f, m, n)
    OBVIOUS
  <2> DEFINE k1 == k - 1
  <2>1. k1 \in m-1 .. Len(f) /\ n \in k1 .. Len(f) /\ k1 + 1 = k
    BY <1>2
  <2> HIDE DEF k1
  <2>2. SubSeq(f, m, k1) \o SubSeq(f, k1 + 1, n) = SubSeq(f, m, n)
    BY <2>1, ConcatAdjacentSubSeq
  <2>3. QED
    BY <2>1, <2>2 DEF k1
<1>6. /\ SubSeq(f, a, p - 1) \o SubSeq(f, p, d - 1) = SubSeq(f, a, d - 1)
      /\ SubSeq(f, a, d - 1) \o SubSeq(f, d, Len(f)) = SubSeq(f, a, Len(f))
  <2>1. /\ a \in 1..(Len(f) + 1) /\ p \in 1..(Len(f) + 1) /\ d \in 1..(Len(f) + 1)
        /\ d - 1 \in Nat /\ a <= p /\ p - 1 <= d - 1 /\ d - 1 <= Len(f)
        /\ a <= d /\ d - 1 <= Len(f) /\ Len(f) \in Nat /\ Len(f) <= Len(f)
    BY <1>1, <1>2
  <2>2. QED
    BY ONLY <1>5, <2>1
<1>7. CASE Starts(f, "vps") = 0 /\ StartClass(f[1]) # "vps"
  <2>1. ~HasVps(f)
    BY <1>7 DEF HasVps
  <2>2. Picture(f) = ((<<>> \o SubSeq(f, a, p - 1)) \o SubSeq(f, p, d - 1)) \o SubSeq(f, d, Len(f))
    BY <1>4, <2>1 DEF Picture
  <2>3. <<>> \o SubSeq(f, a, p - 1) = SubSeq(f, a, p - 1)
    <3>1. SubSeq(f, a, p - 1) \in Seq(0..255)
      <4>1. a \in Int /\ p - 1 \in Int /\ \A i \in a..(p - 1) : i \in 1..Len(f)
        BY <1>1, <1>2
      <4>2. \A i \in a..(p - 1) : f[i] \in 0..255
        BY <4>1, BytesOf
      <4>3. QED
        BY ONLY <4>1, <4>2, SubSeqProperties
    <3>2. QED
      BY <3>1
  <2>4. Picture(f) = SubSeq(f, a, Len(f))
    BY <1>6, <2>2, <2>3
  <2>5. d \in a..Len(f)
    BY <1>1, <1>2
  <2>6. QED
    BY <1>1, <1>3, <1>7, <2>1, <2>4, <2>5
<1>8. CASE /\ Starts(f, "vps") = 1 /\ StartClass(f[1]) = "vps"
           /\ Ends(f, "vps") = a /\ 1 < a
  <2>1. HasVps(f)
    BY <1>2, <1>8 DEF HasVps
  <2>2. Part(f, "vps") = SubSeq(f, 1, a - 1)
    BY <1>8 DEF Part
  <2>3. Picture(f) = ((SubSeq(f, 1, a - 1) \o SubSeq(f, a, p - 1)) \o SubSeq(f, p, d - 1))
                     \o SubSeq(f, d, Len(f))
    BY <1>4, <2>1, <2>2 DEF Picture
  <2>4. /\ SubSeq(f, 1, a - 1) \o SubSeq(f, a, p - 1) = SubSeq(f, 1, p - 1)
        /\ SubSeq(f, 1, p - 1) \o SubSeq(f, p, d - 1) = SubSeq(f, 1, d - 1)
        /\ SubSeq(f, 1, d - 1) \o SubSeq(f, d, Len(f)) = SubSeq(f, 1, Len(f))
    <3>1. /\ 1 \in 1..(Len(f) + 1) /\ a \in 1..(Len(f) + 1) /\ p \in 1..(Len(f) + 1)
          /\ d \in 1..(Len(f) + 1) /\ p - 1 \in Nat /\ d - 1 \in Nat /\ Len(f) \in Nat
          /\ 1 <= a /\ a - 1 <= p - 1 /\ p - 1 <= Len(f)
          /\ 1 <= p /\ p - 1 <= d - 1 /\ d - 1 <= Len(f) /\ 1 <= d /\ Len(f) <= Len(f)
      BY <1>1, <1>2
    <3>2. QED
      BY ONLY <1>5, <3>1
  <2>5. Picture(f) = SubSeq(f, 1, Len(f))
    BY <2>3, <2>4
  <2>6. 1 \in 1..Len(f) /\ d \in 1..Len(f)
    BY <1>2
  <2>7. QED
    BY <1>1, <1>3, <1>8, <2>1, <2>5, <2>6
<1>9. QED
  BY <1>1, <1>7, <1>8

LEMMA KeyFrameIsShown ==
    ASSUME NEW f \in Seq(0..255), KeyFrameFirst(f) PROVE Shown(f)
<1>1. PICK o \in 1..Len(f) :
         /\ Picture(f) = SubSeq(f, o, Len(f))
         /\ StartClass(f[o]) = "sps" \/ (o = 1 /\ StartClass(f[1]) = "vps")
         /\ \E k \in o..Len(f) : StartClass(f[k]) = "idr"
  BY PictureIs
<1> DEFINE pic == SubSeq(f, o, Len(f))
           Of(c) == {k \in 1..Len(pic) : StartClass(pic[k]) = c}
           n == Len(f) - o + 1
<1>2. Len(f) \in Nat /\ o \in Nat /\ o >= 1 /\ n \in Nat
  OBVIOUS
<1>3. Len(pic) = n /\ \A k \in 1..n : pic[k] = f[o + k - 1]
  BY <1>2
<1>4. \A c : Of(c) = {k \in 1..n : StartClass(f[o + k - 1]) = c}
  BY <1>3
<1> HIDE DEF pic, Of
<1>5. \A c : /\ Of(c) \in SUBSET (1..n)
             /\ Of(c) # {} => FirstOf(Of(c)) \in Of(c) /\ \A y \in Of(c) : FirstOf(Of(c)) <= y
  <2>1. \A c : Of(c) \in SUBSET (1..n)
    BY <1>4
  <2>2. QED
    BY <1>2, <2>1, FirstIs
<1>6. Of("idr") # {}
  <2>1. PICK k \in o..Len(f) : StartClass(f[k]) = "idr"
    BY <1>1
  <2>2. k - o + 1 \in 1..n /\ o + (k - o + 1) - 1 = k
    BY <1>2
  <2>3. k - o + 1 \in Of("idr")
    BY <1>4, <2>1, <2>2
  <2>4. QED
    BY <2>3
<1> DEFINE d == FirstOf(Of("idr"))
<1>7. d \in 1..n /\ StartClass(f[o + d - 1]) = "idr"
  BY <1>4, <1>5, <1>6
<1> HIDE DEF d
<1> DEFINE k == o + d - 1
<1>8. k \in UnitsOf(f, "idr") /\ k \in o..Len(f)
  <2>1. k \in o..Len(f) /\ k \in 1..Len(f)
    BY <1>2, <1>7
  <2>2. QED
    BY <1>7, <2>1 DEF UnitsOf
<1>9. \E l \in UnitsOf(f, "sps"), m \in UnitsOf(f, "pps") : o <= l /\ l < m /\ m < k
  <2>1. CASE StartClass(f[o]) = "sps"
    <3>1. o \in UnitsOf(f, "sps")
      BY <2>1 DEF UnitsOf
    <3>2. o # k
      BY <1>7, <2>1
    <3>3. o < k
      BY <1>2, <1>8, <3>2
    <3>4. PICK m \in UnitsOf(f, "pps") : o < m /\ m < k
      BY <1>8, <3>1, <3>3 DEF KeyFrameFirst
    <3>5. QED
      BY <1>2, <3>1, <3>4
  <2>2. CASE o = 1
    <3>1. PICK l \in UnitsOf(f, "sps"), m \in UnitsOf(f, "pps") : l < m /\ m < k
      BY <1>8 DEF KeyFrameFirst
    <3>2. o <= l
      BY <2>2 DEF UnitsOf
    <3>3. QED
      BY <3>1, <3>2
  <2>3. QED
    BY <1>1, <2>1, <2>2
<1>10. PICK l \in UnitsOf(f, "sps"), m \in UnitsOf(f, "pps") : o <= l /\ l < m /\ m < k
  BY <1>9
<1>11. /\ l \in 1..Len(f) /\ StartClass(f[l]) = "sps"
       /\ m \in 1..Len(f) /\ StartClass(f[m]) = "pps"
  BY DEF UnitsOf
<1>12. ASSUME NEW c, NEW j \in 1..Len(f), StartClass(f[j]) = c, o <= j, j < k
       PROVE  0 < FirstOf(Of(c)) /\ FirstOf(Of(c)) < d
  <2>1. j - o + 1 \in 1..n /\ o + (j - o + 1) - 1 = j /\ j - o + 1 < d
    BY <1>2, <1>7, <1>12
  <2>2. j - o + 1 \in Of(c)
    BY <1>4, <1>12, <2>1
  <2>3. FirstOf(Of(c)) \in 1..n /\ FirstOf(Of(c)) <= j - o + 1
    BY <1>5, <2>2
  <2>4. QED
    BY <1>2, <1>7, <2>1, <2>3
<1>13. /\ 0 < FirstOf(Of("sps")) /\ FirstOf(Of("sps")) < d
       /\ 0 < FirstOf(Of("pps")) /\ FirstOf(Of("pps")) < d
  <2>1. o <= m /\ l < k
    BY <1>2, <1>8, <1>10, <1>11
  <2>2. QED
    BY <1>10, <1>11, <1>12, <2>1
<1>14. Picture(f) = pic
  BY <1>1 DEF pic
<1>15. QED
  BY <1>13, <1>14, PictureIs DEF Shown, Of, d

(* If every file begins with a key frame, the loop makes a picture of each *)
(* that can be decoded, however many parts, key frames and other units it  *)
(* has: a file that a call comes to split is shown.                        *)
THEOREM KeyFramesAreShown ==
    ASSUME \A f \in Files : KeyFrameFirst(f) PROVE SnapSpec => []KeyFrameShown
<1>1. AllShown
  BY KeyFrameIsShown, SnapshotAssumption DEF AllShown
<1>2. KeyFrameShown
  BY <1>1 DEF KeyFrameShown
<1>3. QED
  BY <1>2, PTL

-----------------------------------------------------------------------------
(***************************************************************************)
(* The commands of ipc_cmd, and the presets.                               *)
(***************************************************************************)

(* A process has something to do, and so has every option it will come to. *)
Stocked(r) == /\ r = NoProcess \/ r.steps # <<>>
              /\ \A k \in DOMAIN r.given : Steps(r.given[k]) \in Seq(Act)
                        /\ Steps(r.given[k]) # <<>>

(* All that a process may still do.                                        *)
Ahead(r) == {r.steps[i] : i \in DOMAIN r.steps}
            \cup UNION {{Steps(r.given[k])[i] : i \in DOMAIN Steps(r.given[k])} :
                           k \in DOMAIN r.given}

(* The script asks for one thing at a time, and for nothing that forks; it *)
(* sends nothing when it only asks for the position.                       *)
ScriptSteps ==
    /\ \A k, l \in DOMAIN todo[Script].given : k = l
    /\ \A s \in Ahead(todo[Script]) :
          /\ s.do \in {"open", "read_ptz", "send", "sleep"}
          /\ s.do # "send" => s.m = Nothing
          /\ s.do = "send" => edit.pc = "command"

CmdIInv == CommandsTypeOK /\ (\A p \in All : Stocked(todo[p])) /\ ScriptSteps

-----------------------------------------------------------------------------
(* Messages that lead the camera from the places S to the places S2.       *)
Msgs(steps) == [i \in 1..Len(steps) |-> steps[i].m]
Leads(S, ms, S2) ==
    \E t \in [0..Len(ms) -> SUBSET Places] :
       /\ t[0] = S /\ t[Len(ms)] = S2
       /\ \A i \in 1..Len(ms) : t[i] = Taken(t[i - 1], ms[i])

(* What the script has still to send makes the camera agree with the list. *)
Completes(S) ==
    IF edit.pc # "command" THEN S = Named(list)
    ELSE LET r == todo[Script] IN
         \E S2 \in SUBSET Places :
            /\ Leads(S, Msgs(r.steps), S2)
            /\ DOMAIN r.given = {} => S2 = Named(list)
            /\ \A k \in DOMAIN r.given : Leads(S2, Msgs(Steps(r.given[k])), Named(list))

PresetMessages == {"add_preset", "remove_preset"}
OthersPlain == \A p \in Procs : \A s \in Ahead(todo[p]) : s.m.o \notin PresetMessages
NamesPlain == /\ \A i \in Places : list[i] = "Home" => i = 0
              /\ edit.pc = "position" => edit.n = -1 /\ edit.name \notin {"", "Home"}
Agreed == gap \/ \E S \in SUBSET Places : Leads(presets, mq, S) /\ Completes(S)
ListIInv == OthersPlain /\ NamesPlain /\ Agreed

-----------------------------------------------------------------------------
(* Places and messages.                                                    *)
LEMMA PlacesType ==
    /\ Cardinality(Places) \in Nat /\ Places = 0..(Cardinality(Places) - 1)
    /\ 0 \in Places /\ Places \in SUBSET Nat
<1>1. Cardinality(Places) \in Nat
  BY CommandsAssumption, FS_CardinalityType
<1>2. QED
  BY <1>1, CommandsAssumption

LEMMA FirstFreeIs ==
    ASSUME NEW S \in SUBSET Places, S # Places
    PROVE  /\ FirstFree(S) \in Places \ S
           /\ \A m \in Places \ S : FirstFree(S) <= m
<1>1. Places \ S \in SUBSET Nat /\ Places \ S # {}
  BY PlacesType
<1>2. \E n \in Places \ S : \A m \in Places \ S : n <= m
  BY <1>1, MinExists
<1>3. QED
  BY <1>2 DEF FirstFree

LEMMA TakenType ==
    ASSUME NEW S \in SUBSET Places, NEW m PROVE Taken(S, m) \in SUBSET Places
<1>1. CASE m.o = "add_preset" /\ S # Places
  BY <1>1, FirstFreeIs DEF Taken
<1>2. CASE ~(m.o = "add_preset" /\ S # Places)
  BY <1>2 DEF Taken
<1>3. QED
  BY <1>1, <1>2

LEMMA OrderStrings == \A k \in DOMAIN Order : Order[k] \in Words /\ Order[k] # "move-reverse"
<1>1. \A k \in DOMAIN Order : Order[k] \in Words
  BY CommandsAssumption DEF Literals
<1>2. \A k \in 1..32 : Order[k] # "move-reverse"
  BY DEF Order
<1>3. \A k \in DOMAIN Order : k \in 1..32
  BY DEF Order
<1>4. QED
  BY <1>1, <1>2, <1>3

LEMMA WordsAre ==
    /\ "none" \in Words /\ "given" \in Words /\ "number" \in Words
    /\ "position" \in Words /\ "content" \in Words /\ "motion" \in Words
    /\ "jump" \in Words /\ "start" \in Words /\ "stop" \in Words
    /\ "on" \in Words /\ "left" \in Words /\ "right" \in Words
    /\ "up" \in Words /\ "down" \in Words /\ "" \in Words
    /\ "old" \in Words /\ "Home" \in Words /\ "all" \in Words
    /\ "move" \in Words /\ "preset" \in Words /\ "add_preset" \in Words
    /\ "get-pos" \in Words /\ "set_home_position" \in Words /\ "remove_preset" \in Words
    /\ "cruise" \in Words /\ "file" \in Words
<1>1. /\ "none" \in Words /\ "given" \in Words /\ "number" \in Words
      /\ "position" \in Words /\ "content" \in Words /\ "motion" \in Words
      /\ "jump" \in Words /\ "start" \in Words /\ "stop" \in Words
      /\ "on" \in Words /\ "left" \in Words /\ "right" \in Words
      /\ "up" \in Words /\ "down" \in Words /\ "" \in Words
      /\ "old" \in Words /\ "Home" \in Words /\ "all" \in Words
  BY CommandsAssumption DEF Literals
<1>2. /\ Order[18] = "move" /\ Order[21] = "preset" /\ Order[22] = "add_preset"
      /\ Order[23] = "get-pos" /\ Order[25] = "set_home_position" /\ Order[26] = "remove_preset"
      /\ Order[27] = "cruise" /\ Order[28] = "file"
  BY DEF Order
<1>3. \A k \in 1..32 : k \in DOMAIN Order
  BY DEF Order
<1>4. \A k \in 1..32 : Order[k] \in Words
  BY <1>3, OrderStrings
<1>5. /\ "move" \in Words /\ "preset" \in Words /\ "add_preset" \in Words
      /\ "get-pos" \in Words /\ "set_home_position" \in Words /\ "remove_preset" \in Words
      /\ "cruise" \in Words /\ "file" \in Words
  BY <1>2, <1>4
<1>6. QED
  BY <1>1, <1>5

LEMMA OptionType ==
    ASSUME NEW o \in Words, NEW a \in Words, NEW n \in Int
    PROVE  /\ Option(o, a, n) \in Message /\ Option(o, a, n).o = o
           /\ Option(o, a, n).a = a /\ Option(o, a, n).n = n
  BY DEF Option, Message

LEMMA NothingType == Nothing \in Message /\ Nothing.o = "none"
<1>1. "none" \in Words
  BY WordsAre
<1>2. QED
  BY <1>1, OptionType DEF Nothing

LEMMA StepType == \A what \in Deeds : Step(what) \in Act
<1>1. Nothing \in Valid
  BY NothingType DEF Valid, IsMessage
<1>2. QED
  BY <1>1 DEF Step, Act

LEMMA SendType ==
    ASSUME NEW o \in Words, NEW a \in Words, NEW n \in Int,
           o = "remove_preset" => a = "number" /\ n \in Places
    PROVE  Send(o, a, n) \in Act
<1>1. Option(o, a, n) \in Message /\ Option(o, a, n).o = o
      /\ Option(o, a, n).a = a /\ Option(o, a, n).n = n
  BY OptionType
<1>2. Option(o, a, n) \in Valid
  BY <1>1 DEF Valid, IsMessage
<1>3. QED
  BY <1>2 DEF Send, Act, Deeds

LEMMA OppositeType == \A d \in Words : Opposite(d) \in Words /\ Turn(d) \in Words
<1>1. \A d \in Words : Opposite(d) \in Words
  BY WordsAre DEF Opposite
<1>2. QED
  BY <1>1 DEF Turn

(* The value of an option: it is not given, or comes from the line.        *)
LEMMA ValueIs ==
    ASSUME NEW line \in Seq(Message), NEW o \in Words
    PROVE  \/ Value(line, o) = Option(o, "none", 0)
           \/ \E i \in DOMAIN line : Value(line, o) = Meant(line[i]) /\ Meant(line[i]).o = o
<1> DEFINE at == {i \in DOMAIN line :
                    Meant(line[i]).o = o /\ (o = "babycrying" => line[i].a \in {"on", "off"})}
<1>1. at \in SUBSET (1..Len(line)) /\ Len(line) \in Nat /\ \A i \in at : i \in DOMAIN line
        /\ Meant(line[i]).o = o
  OBVIOUS
<1>2. Value(line, o) = IF at = {} THEN Option(o, "none", 0)
                       ELSE Meant(line[CHOOSE i \in at : \A j \in at : j <= i])
  BY DEF Value
<1> HIDE DEF at
<1>3. CASE at = {}
  BY <1>2, <1>3
<1>4. CASE at # {}
  <2>1. \E i \in at : \A j \in at : j <= i
    BY <1>1, <1>4, MaxExists
  <2>2. (CHOOSE i \in at : \A j \in at : j <= i) \in at
    BY <2>1
  <2>3. QED
    BY <1>1, <1>2, <1>4, <2>2
<1>5. QED
  BY <1>3, <1>4

LEMMA MeantType ==
    ASSUME NEW x \in Message
    PROVE  /\ Meant(x) \in Message
           /\ Meant(x).o # "move" => Meant(x) = x
           /\ Meant(x).o # "move-reverse"
<1>1. CASE x.o = "move-reverse"
  <2>1. x.a \in Words /\ "move" \in Words
    BY WordsAre DEF Message
  <2>2. Opposite(x.a) \in Words
    BY <2>1, OppositeType
  <2>3. Meant(x) = Option("move", Opposite(x.a), 0)
    BY <1>1 DEF Meant
  <2>4. Meant(x) \in Message /\ Meant(x).o = "move"
    BY <2>1, <2>2, <2>3, OptionType
  <2>5. QED
    BY <2>4
<1>2. CASE x.o # "move-reverse"
  BY <1>2 DEF Meant
<1>3. QED
  BY <1>1, <1>2

LEMMA ValueType ==
    ASSUME NEW line \in Seq(Message), NEW o \in Words
    PROVE  Value(line, o) \in Message /\ Value(line, o).o = o
<1>1. CASE Value(line, o) = Option(o, "none", 0)
  <2>1. "none" \in Words
    BY WordsAre
  <2>2. QED
    BY <1>1, <2>1, OptionType
<1>2. CASE \E i \in DOMAIN line : Value(line, o) = Meant(line[i]) /\ Meant(line[i]).o = o
  <2>1. \A i \in DOMAIN line : line[i] \in Message
    OBVIOUS
  <2>2. QED
    BY <1>2, <2>1, MeantType
<1>3. QED
  BY <1>1, <1>2, ValueIs

(* The steps of options.                                                   *)
LEMMA Sent ==
    ASSUME NEW o \in Words, NEW a \in Words, NEW n \in Int, o # "remove_preset"
    PROVE  Send(o, a, n) \in Act
  BY SendType

LEMMA ActsAre ==
    /\ Send("motion", "start", 0) \in Act /\ Send("motion", "stop", 0) \in Act
    /\ Send("jump", "position", 0) \in Act /\ Send("file", "content", 0) \in Act
    /\ Send("add_preset", "given", 0) \in Act /\ Send("remove_preset", "number", 0) \in Act
    /\ Send("cruise", "on", 0) \in Act
    /\ \A what \in Deeds : Step(what) \in Act
<1> DEFINE Does(o, a) == Send(o, a, 0) \in Act
<1>1. \A o, a \in Words : o # "remove_preset" => Does(o, a)
  BY Sent
<1>2. Does("remove_preset", "number")
  <2>1. "remove_preset" \in Words /\ "number" \in Words
    BY WordsAre
  <2>2. QED
    BY <2>1, SendType, PlacesType
<1> HIDE DEF Does
<1>3. Does("motion", "start") /\ Does("motion", "stop")
  BY <1>1, WordsAre
<1>4. Does("jump", "position") /\ Does("file", "content")
  BY <1>1, WordsAre
<1>5. Does("add_preset", "given") /\ Does("cruise", "on")
  BY <1>1, WordsAre
<1>6. QED
  BY <1>2, <1>3, <1>4, <1>5, StepType DEF Does

(* The steps of an option are steps, if a preset that it removes is one.   *)
LEMMA StepsType ==
    ASSUME NEW x \in Message,
           x.o = "remove_preset" => x.a \in {"none", "all"} \/ (x.a = "number" /\ x.n \in Places)
    PROVE  Steps(x) \in Seq(Act)
<1>0. x.o \in Words /\ x.a \in Words /\ x.n \in Int
  BY DEF Message
<1>1. CASE x.a = "none"
  <2>1. Steps(x) = <<>>
    BY <1>1 DEF Steps
  <2>2. QED
    BY <2>1
<1>2. CASE x.a # "none" /\ x.o = "move"
  <2>1. Send("move", Turn(x.a), 0) \in Act
    <3>1. Turn(x.a) \in Words /\ "move" \in Words
      BY <1>0, OppositeType, WordsAre
    <3>2. QED
      BY <3>1, Sent
  <2>2. QED
    BY <1>2, <2>1 DEF Steps
<1>3. CASE x.a # "none" /\ x.o \in {"jump-abs", "jump-rel"}
  <2>1. Step("read_ptz") \in Act /\ Send("jump", "position", 0) \in Act
    BY ActsAre DEF Deeds, Fallible
  <2>2. QED
    BY <1>3, <2>1 DEF Steps
<1>4. CASE x.a # "none" /\ x.o \in {"get-pos", "is_moving"}
  BY <1>4, StepType DEF Steps, Deeds, Fallible
<1>5. CASE x.a # "none" /\ x.o = "preset"
  <2>1. x.n % 256 \in Int
    BY <1>0
  <2>2. Send("preset", "number", x.n % 256) \in Act
    BY <2>1, SendType, WordsAre
  <2>3. QED
    BY <1>5, <2>2 DEF Steps
<1>6. CASE x.a # "none" /\ x.o = "set_home_position"
  <2>1. Send("remove_preset", "number", 0) \in Act /\ Send("add_preset", "given", 0) \in Act
        /\ Step("sleep") \in Act
    BY ActsAre DEF Deeds
  <2>2. Home \in Seq(Act)
    BY <2>1 DEF Home
  <2>3. QED
    BY <1>6, <2>2 DEF Steps
<1>7. CASE x.o = "remove_preset" /\ x.a = "all"
  <2> DEFINE N == Cardinality(Places)
  <2>1. \A i \in 1..N : i - 1 \in Places /\ i - 1 \in Int
    BY PlacesType
  <2>2. \A i \in 1..N : Send("remove_preset", "number", i - 1) \in Act
    BY <2>1, SendType, WordsAre
  <2>3. Steps(x) = [i \in 1..N |-> Send("remove_preset", "number", i - 1)]
    BY <1>7 DEF Steps
  <2>4. N \in Nat
    BY PlacesType
  <2> HIDE DEF N
  <2>5. QED
    BY <2>2, <2>3, <2>4
<1>8. CASE x.o = "cruise" /\ x.a \in {"presets", "360"}
  <2>1. Send("cruise", "on", 0) \in Act /\ Step("sleep") \in Act /\ Send("cruise", x.a, 0) \in Act
    <3>1. "cruise" \in Words
      BY WordsAre
    <3>2. Send("cruise", x.a, 0) \in Act
      BY <1>0, <3>1, Sent
    <3>3. QED
      BY <3>2, ActsAre DEF Deeds
  <2>2. QED
    BY <1>8, <2>1 DEF Steps
<1>9. CASE x.a # "none" /\ x.o = "file"
  <2>1. Step("read_file") \in Act /\ Send("file", "content", 0) \in Act
    BY ActsAre DEF Deeds, Fallible
  <2>2. QED
    BY <1>9, <2>1 DEF Steps
<1>10. CASE x.a # "none" /\ x.o = "start"
  <2>1. /\ Send("motion", "start", 0) \in Act /\ Step("fork") \in Act /\ Step("sleep") \in Act
        /\ Send("motion", "stop", 0) \in Act
    BY ActsAre DEF Deeds, Fallible
  <2>2. Start \in Seq(Act)
    BY <2>1 DEF Start
  <2>3. QED
    BY <1>10, <2>2 DEF Steps
<1>11. CASE x.a # "none" /\ x.o = "stop"
  <2>1. Send("motion", "stop", 0) \in Act
    BY ActsAre
  <2>2. QED
    BY <1>11, <2>1 DEF Steps
<1>12. CASE x.a # "none" /\ x.o = "save_config"
  <2>1. Step("worker_queue") \in Act /\ Step("return") \in Act
    BY StepType DEF Deeds, Fallible
  <2>2. QED
    BY <1>12, <2>1 DEF Steps
<1>13. CASE /\ x.a # "none" /\ ~(x.o = "remove_preset" /\ x.a = "all")
            /\ ~(x.o = "cruise" /\ x.a \in {"presets", "360"})
            /\ x.o \notin {"move", "jump-abs", "jump-rel", "get-pos", "is_moving", "preset",
                           "set_home_position", "file", "start", "stop", "save_config"}
  <2>1. Send(x.o, x.a, x.n) \in Act
    BY <1>0, <1>13, SendType
  <2>2. Steps(x) = <<Send(x.o, x.a, x.n)>>
    BY <1>13 DEF Steps
  <2>3. QED
    BY <2>1, <2>2
<1>14. QED
  BY <1>1, <1>2, <1>3, <1>4, <1>5, <1>6, <1>7, <1>8, <1>9, <1>10, <1>11, <1>12, <1>13

-----------------------------------------------------------------------------
(* A process that goes on has nothing new to do, and is never left without *)
(* a step.                                                                 *)
LEMMA AheadIs ==
    ASSUME NEW r, NEW s
    PROVE  s \in Ahead(r) <=> \/ \E i \in DOMAIN r.steps : s = r.steps[i]
                              \/ \E k \in DOMAIN r.given : \E i \in DOMAIN Steps(r.given[k]) :
                                    s = Steps(r.given[k])[i]
  BY DEF Ahead

LEMMA NoProcessIs ==
    /\ NoProcess.steps = <<>> /\ DOMAIN NoProcess.given = {}
    /\ IsProcess(NoProcess) /\ Stocked(NoProcess) /\ Ahead(NoProcess) = {}
<1>1. NoProcess.steps = <<>> /\ NoProcess.given = <<>>
  BY DEF NoProcess
<1>2. DOMAIN NoProcess.given = {} /\ DOMAIN NoProcess.steps = {}
  BY <1>1
<1>3. IsProcess(NoProcess)
  BY <1>1, <1>2 DEF IsProcess, NoProcess
<1>4. Stocked(NoProcess)
  BY <1>2 DEF Stocked
<1>5. Ahead(NoProcess) = {}
  BY <1>2, AheadIs
<1>6. QED
  BY <1>1, <1>2, <1>3, <1>4, <1>5

LEMMA OrderNats == DOMAIN Order = 1..32
  BY DEF Order

LEMMA MinIs ==
    ASSUME NEW S \in SUBSET Nat, S # {} PROVE Min(S) \in S
<1>1. \E x \in S : \A y \in S : x <= y
  BY MinExists
<1>2. QED
  BY <1>1 DEF Min

LEMMA TailElements ==
    ASSUME NEW S, NEW s \in Seq(S), Len(s) > 1
    PROVE  /\ Tail(s) \in Seq(S) /\ Tail(s) # <<>>
           /\ \A i \in DOMAIN Tail(s) : i + 1 \in DOMAIN s /\ Tail(s)[i] = s[i + 1]
<1>1. Len(Tail(s)) = Len(s) - 1 /\ Tail(s) \in Seq(S)
  OBVIOUS
<1>2. \A i \in 1..(Len(s) - 1) : Tail(s)[i] = s[i + 1]
  OBVIOUS
<1>3. DOMAIN Tail(s) = 1..(Len(s) - 1) /\ DOMAIN s = 1..Len(s) /\ Len(s) \in Nat
  OBVIOUS
<1>4. Tail(s) # <<>>
  <2>1. Len(Tail(s)) # 0
    BY <1>1, <1>3
  <2>2. QED
    BY <1>1, <2>1, EmptySeq
<1>5. \A i \in 1..(Len(s) - 1) : i + 1 \in 1..Len(s)
  BY <1>3
<1>6. QED
  BY <1>1, <1>2, <1>3, <1>4, <1>5

LEMMA RestIs ==
    ASSUME NEW r, IsProcess(r), Stocked(r), r # NoProcess
    PROVE  \/ /\ Len(r.steps) > 1
              /\ Rest(r) = [given |-> r.given, steps |-> Tail(r.steps)]
           \/ /\ Len(r.steps) = 1 /\ DOMAIN r.given = {} /\ Rest(r) = NoProcess
           \/ /\ Len(r.steps) = 1
              /\ \E k \in DOMAIN r.given :
                    Rest(r) = [given |-> [l \in DOMAIN r.given \ {k} |-> r.given[l]],
                               steps |-> Steps(r.given[k])]
<1>0. r = [given |-> r.given, steps |-> r.steps] /\ Len(r.steps) \in Nat /\ Len(r.steps) >= 1
  <2>1. r.steps \in Seq(Act) /\ r.steps # <<>>
    BY DEF IsProcess, Stocked
  <2>2. Len(r.steps) \in Nat \ {0}
    BY <2>1, EmptySeq
  <2>3. QED
    BY <2>2 DEF IsProcess
<1> DEFINE n == Len(r.steps)
<1>1. n \in Nat /\ n >= 1
  BY <1>0
<1>2. CASE Len(r.steps) > 1
  <2>1. Rest(r) = [r EXCEPT !.steps = Tail(@)]
    BY <1>2 DEF Rest
  <2>2. [r EXCEPT !.steps = Tail(@)] = [given |-> r.given, steps |-> Tail(r.steps)]
    BY <1>0
  <2>3. QED
    BY ONLY <1>2, <2>1, <2>2
<1>3. CASE Len(r.steps) <= 1 /\ DOMAIN r.given = {}
  <2>1. Rest(r) = NoProcess
    BY <1>0, <1>3 DEF Rest
  <2>2. n = 1
    <3> HIDE DEF n
    <3>1. n <= 1
      BY <1>3 DEF n
    <3>2. QED
      BY <1>1, <3>1
  <2>3. QED
    BY ONLY <1>3, <2>1, <2>2
<1>4. CASE Len(r.steps) <= 1 /\ DOMAIN r.given # {}
  <2> DEFINE k == Min(DOMAIN r.given)
  <2>1. k \in DOMAIN r.given
    <3>1. DOMAIN r.given \subseteq 1..32
      BY OrderNats DEF IsProcess
    <3>2. DOMAIN r.given \in SUBSET Nat
      BY <3>1
    <3>3. QED
      BY <1>4, <3>2, MinIs
  <2>2. Rest(r) = [given |-> Restrict(r.given, DOMAIN r.given \ {k}), steps |-> Steps(r.given[k])]
    BY <1>0, <1>4 DEF Rest
  <2> HIDE DEF k
  <2>3. Restrict(r.given, DOMAIN r.given \ {k}) = [l \in DOMAIN r.given \ {k} |-> r.given[l]]
    BY DEF Restrict
  <2>4. n = 1
    <3> HIDE DEF n
    <3>1. n <= 1
      BY <1>4 DEF n
    <3>2. QED
      BY <1>1, <3>1
  <2>5. Rest(r) = [given |-> [l \in DOMAIN r.given \ {k} |-> r.given[l]],
                   steps |-> Steps(r.given[k])]
    BY <2>2, <2>3
  <2>6. QED
    BY ONLY <2>1, <2>4, <2>5
<1>5. Len(r.steps) > 1 \/ Len(r.steps) <= 1
  BY <1>1
<1>6. QED
  BY ONLY <1>2, <1>3, <1>4, <1>5

LEMMA RestKeeps ==
    ASSUME NEW r, IsProcess(r), Stocked(r), r # NoProcess
    PROVE  /\ IsProcess(Rest(r)) /\ Stocked(Rest(r))
           /\ Ahead(Rest(r)) \subseteq Ahead(r)
           /\ DOMAIN Rest(r).given \subseteq DOMAIN r.given
           /\ Head(r.steps) \in Ahead(r) /\ Head(r.steps) \in Act
<1>0. /\ r.steps \in Seq(Act) /\ r.steps # <<>>
      /\ Len(r.steps) \in Nat /\ Len(r.steps) >= 1 /\ DOMAIN r.steps = 1..Len(r.steps)
  BY DEF IsProcess, Stocked
<1>1. Head(r.steps) = r.steps[1] /\ 1 \in DOMAIN r.steps /\ r.steps[1] \in Act
  BY <1>0
<1>2. Head(r.steps) \in Ahead(r) /\ Head(r.steps) \in Act
  BY <1>1, AheadIs
<1>3. CASE /\ Len(r.steps) > 1
           /\ Rest(r) = [given |-> r.given, steps |-> Tail(r.steps)]
  <2>1. Rest(r).given = r.given /\ Rest(r).steps = Tail(r.steps)
    BY <1>3
  <2>2. /\ Tail(r.steps) \in Seq(Act) /\ Tail(r.steps) # <<>>
        /\ \A i \in DOMAIN Tail(r.steps) : i + 1 \in DOMAIN r.steps
                  /\ Tail(r.steps)[i] = r.steps[i + 1]
    BY <1>0, <1>3, TailElements
  <2>3. IsProcess(Rest(r))
    BY <1>3, <2>1, <2>2 DEF IsProcess
  <2>4. Stocked(Rest(r))
    BY <2>1, <2>2 DEF Stocked
  <2>5. ASSUME NEW s \in Ahead(Rest(r)) PROVE s \in Ahead(r)
    <3>1. CASE \E i \in DOMAIN Rest(r).steps : s = Rest(r).steps[i]
      <4>1. PICK i \in DOMAIN Tail(r.steps) : s = Tail(r.steps)[i]
        BY <2>1, <3>1
      <4>2. i + 1 \in DOMAIN r.steps /\ s = r.steps[i + 1]
        BY <2>2, <4>1
      <4>3. QED
        BY <4>2, AheadIs
    <3>2. CASE \E k \in DOMAIN Rest(r).given : \E i \in DOMAIN Steps(Rest(r).given[k]) :
                  s = Steps(Rest(r).given[k])[i]
      BY <2>1, <3>2, AheadIs
    <3>3. QED
      BY <2>5, <3>1, <3>2, AheadIs
  <2>6. QED
    BY <1>2, <2>1, <2>3, <2>4, <2>5
<1>4. CASE Rest(r) = NoProcess
  BY <1>2, <1>4, NoProcessIs
<1>5. ASSUME NEW k \in DOMAIN r.given,
             Rest(r) = [given |-> [l \in DOMAIN r.given \ {k} |-> r.given[l]],
                        steps |-> Steps(r.given[k])]
      PROVE  /\ IsProcess(Rest(r)) /\ Stocked(Rest(r)) /\ Ahead(Rest(r)) \subseteq Ahead(r)
             /\ DOMAIN Rest(r).given \subseteq DOMAIN r.given
  <2>1. /\ DOMAIN Rest(r).given = DOMAIN r.given \ {k}
        /\ \A l \in DOMAIN Rest(r).given : Rest(r).given[l] = r.given[l]
        /\ Rest(r).steps = Steps(r.given[k])
        /\ Rest(r) = [given |-> Rest(r).given, steps |-> Rest(r).steps]
    BY <1>5
  <2>2. Steps(r.given[k]) \in Seq(Act) /\ Steps(r.given[k]) # <<>>
    BY DEF Stocked
  <2>3. IsProcess(Rest(r))
    BY <2>1, <2>2 DEF IsProcess
  <2>4. Stocked(Rest(r))
    BY <2>1, <2>2 DEF Stocked
  <2>5. ASSUME NEW s \in Ahead(Rest(r)) PROVE s \in Ahead(r)
    <3>1. CASE \E i \in DOMAIN Rest(r).steps : s = Rest(r).steps[i]
      BY <2>1, <3>1, AheadIs
    <3>2. CASE \E l \in DOMAIN Rest(r).given : \E i \in DOMAIN Steps(Rest(r).given[l]) :
                  s = Steps(Rest(r).given[l])[i]
      <4>1. PICK l \in DOMAIN Rest(r).given : \E i \in DOMAIN Steps(Rest(r).given[l]) :
                  s = Steps(Rest(r).given[l])[i]
        BY <3>2
      <4>2. l \in DOMAIN r.given /\ Rest(r).given[l] = r.given[l]
        BY <2>1, <4>1
      <4>3. QED
        BY <4>1, <4>2, AheadIs
    <3>3. QED
      BY <2>5, <3>1, <3>2, AheadIs
  <2>6. QED
    BY <2>1, <2>3, <2>4, <2>5
<1>6. QED
  BY <1>2, <1>3, <1>4, <1>5, RestIs

(* What getopt_long() leaves has steps, if the line is not refused.        *)
LEMMA KnownRemove == Known("remove_preset")
  BY DEF Known, Order

LEMMA ProcessStarts ==
    ASSUME NEW line \in Seq(Message)
    PROVE  IsProcess(ProcessOf(line)) /\ Stocked(ProcessOf(line))
<1>1. CASE Rejects(line)
  BY <1>1, NoProcessIs DEF ProcessOf
<1>2. CASE ~Rejects(line)
  <2> DEFINE g == GivenBy(line)
  <2>1. /\ DOMAIN g \subseteq DOMAIN Order
        /\ \A k \in DOMAIN g : g[k] = Value(line, Order[k]) /\ Steps(g[k]) # <<>>
    BY DEF GivenBy
  <2> HIDE DEF g
  <2>2. ASSUME NEW k \in DOMAIN g PROVE g[k] \in Message /\ Steps(g[k]) \in Seq(Act)
    <3>1. Order[k] \in Words
      BY <2>1, OrderStrings
    <3>2. g[k] \in Message /\ g[k].o = Order[k] /\ g[k] = Value(line, Order[k])
      BY <2>1, <3>1, ValueType
    <3>3. ASSUME g[k].o = "remove_preset"
          PROVE  g[k].a \in {"none", "all"} \/ (g[k].a = "number" /\ g[k].n \in Places)
      <4>1. CASE g[k] = Option(Order[k], "none", 0)
        BY <4>1 DEF Option
      <4>2. CASE \E i \in DOMAIN line : g[k] = Meant(line[i])
        <5>1. PICK i \in DOMAIN line : g[k] = Meant(line[i])
          BY <4>2
        <5>2. line[i] \in Message
          OBVIOUS
        <5>3. g[k] = line[i]
          BY <3>3, <5>1, <5>2, MeantType
        <5>4. Known(line[i].o) /\ line[i].o # "babycrying"
          BY <3>3, <5>3, KnownRemove
        <5>5. Accepts(line[i])
          BY <1>2, <5>4 DEF Rejects
        <5>6. line[i].a = "all" \/ (line[i].a = "number" /\ line[i].n \in Places)
          BY <3>3, <5>3, <5>5 DEF Accepts, OnOff
        <5>7. QED
          BY <5>3, <5>6
      <4>3. QED
        BY <3>1, <3>2, <4>1, <4>2, ValueIs
    <3>4. Steps(g[k]) \in Seq(Act)
      BY <3>2, <3>3, StepsType
    <3>5. QED
      BY <3>2, <3>4
  <2>3. ProcessOf(line) = [given |-> g, steps |-> <<Step("open")>>]
    BY <1>2 DEF ProcessOf, g
  <2>4. Step("open") \in Act
    BY StepType DEF Deeds
  <2>5. <<Step("open")>> \in Seq(Act) /\ <<Step("open")>> # <<>>
    BY <2>4
  <2>6. IsProcess(ProcessOf(line))
    BY <2>1, <2>2, <2>3, <2>5 DEF IsProcess
  <2>7. Stocked(ProcessOf(line))
    BY <2>1, <2>2, <2>3, <2>5 DEF Stocked
  <2>8. QED
    BY <2>6, <2>7
<1>3. QED
  BY <1>1, <1>2

-----------------------------------------------------------------------------
(* The command lines of the script have one option.                        *)
ScriptOptions == {"get-pos", "add_preset", "set_home_position", "remove_preset"}

LEMMA OneOption ==
    ASSUME NEW x \in Message, x.o \in ScriptOptions, NEW o \in Words
    PROVE  Value(<<x>>, o) = IF x.o = o THEN x ELSE Option(o, "none", 0)
<1> DEFINE line == <<x>>
<1> DEFINE at == {i \in DOMAIN line :
                    Meant(line[i]).o = o /\ (o = "babycrying" => line[i].a \in {"on", "off"})}
<1>1. Value(line, o) = IF at = {} THEN Option(o, "none", 0)
                       ELSE Meant(line[CHOOSE i \in at : \A j \in at : j <= i])
  BY DEF Value
<1>2. Meant(x) = x
  BY DEF Meant, ScriptOptions
<1>3. DOMAIN line = {1} /\ line[1] = x
  OBVIOUS
<1>4. at = IF x.o = o THEN {1} ELSE {}
  BY <1>2, <1>3 DEF ScriptOptions
<1> HIDE DEF line, at
<1>5. CASE x.o = o
  <2>1. (CHOOSE i \in {1} : \A j \in {1} : j <= i) = 1
    OBVIOUS
  <2>2. at = {1}
    BY <1>4, <1>5
  <2>3. (CHOOSE i \in at : \A j \in at : j <= i) = 1
    BY <2>1, <2>2
  <2>4. QED
    BY <1>1, <1>2, <1>3, <1>5, <2>2, <2>3 DEF line
<1>6. CASE x.o # o
  BY <1>1, <1>4, <1>6 DEF line
<1>7. QED
  BY <1>5, <1>6

LEMMA ScriptStarts ==
    ASSUME NEW x \in Message, x.o \in ScriptOptions, NEW r, r = ProcessOf(<<x>>)
    PROVE  /\ (r = NoProcess /\ Rejects(<<x>>)) \/ (~Rejects(<<x>>) /\ r.steps = <<Step("open")>>)
           /\ \A k \in DOMAIN r.given : r.given[k] = x
           /\ \A k, l \in DOMAIN r.given : k = l
           /\ r # NoProcess /\ Steps(x) # <<>> => DOMAIN r.given # {}
<1>1. CASE Rejects(<<x>>)
  <2>1. r = NoProcess
    BY <1>1 DEF ProcessOf
  <2>2. QED
    BY <1>1, <2>1, NoProcessIs
<1>2. CASE ~Rejects(<<x>>)
  <2> DEFINE g == GivenBy(<<x>>)
  <2>1. /\ DOMAIN g = {k \in DOMAIN Order : Steps(Value(<<x>>, Order[k])) # <<>>}
        /\ \A k \in DOMAIN g : g[k] = Value(<<x>>, Order[k])
    BY DEF GivenBy
  <2>2. r = [given |-> g, steps |-> <<Step("open")>>]
    BY <1>2 DEF ProcessOf
  <2>3. r.given = g /\ r.steps = <<Step("open")>>
    BY <2>2
  <2> HIDE DEF g
  <2>4. \A k \in DOMAIN Order :
          Value(<<x>>, Order[k]) = IF x.o = Order[k] THEN x ELSE Option(Order[k], "none", 0)
    BY OneOption, OrderStrings
  <2>5. \A k \in DOMAIN Order : Steps(Option(Order[k], "none", 0)) = <<>>
    BY DEF Steps, Option
  <2>6. \A k \in DOMAIN g : Order[k] = x.o /\ g[k] = x /\ k \in DOMAIN Order
    BY <2>1, <2>4, <2>5
  <2>7. \A k, l \in 1..32 : Order[k] = Order[l] /\ Order[k] \in ScriptOptions => k = l
    BY DEF Order, ScriptOptions
  <2>8. \A k, l \in DOMAIN g : k = l
    BY <2>6, <2>7, OrderNats
  <2>9. ASSUME Steps(x) # <<>> PROVE DOMAIN g # {}
    <3>1. \E k \in DOMAIN Order : Order[k] = x.o
      <4>1. Order[23] = "get-pos" /\ Order[22] = "add_preset"
            /\ Order[25] = "set_home_position" /\ Order[26] = "remove_preset"
        BY DEF Order
      <4>2. QED
        BY <4>1, OrderNats DEF ScriptOptions
    <3>2. QED
      BY <2>1, <2>4, <2>9, <3>1
  <2>10. QED
    BY <1>2, <2>3, <2>6, <2>8, <2>9
<1>3. QED
  BY <1>1, <1>2

(* What the options of the script do.                                      *)
ScriptDeeds == {"open", "read_ptz", "send", "sleep"}
Lawful(s) == s.do \in ScriptDeeds /\ (s.do # "send" => s.m = Nothing)

LEMMA ScriptActs ==
    /\ Lawful(Step("open")) /\ Lawful(Step("read_ptz")) /\ Lawful(Step("sleep"))
    /\ \A o, a, n : Lawful(Send(o, a, n))
    /\ Step("open").do # "send" /\ Step("read_ptz").do # "send" /\ Step("sleep").do # "send"
    /\ \A o, a, n : Send(o, a, n).do = "send" /\ Send(o, a, n).m = Option(o, a, n)
  BY DEF Lawful, ScriptDeeds, Step, Send

LEMMA ScriptOptionSteps ==
    /\ Steps(Flag("get-pos")) = <<Step("read_ptz")>>
    /\ Steps(Flag("add_preset")) = <<Send("add_preset", "given", 0)>>
    /\ Steps(Flag("set_home_position")) = Home
    /\ \A n : Steps(Option("remove_preset", "number", n)) = <<Send("remove_preset", "number", n)>>
    /\ Steps(Option("remove_preset", "all", 0))
         = [i \in 1..Cardinality(Places) |-> Send("remove_preset", "number", i - 1)]
<1>1. Steps(Flag("get-pos")) = <<Step("read_ptz")>>
  BY DEF Steps, Flag, Option
<1>2. Steps(Flag("add_preset")) = <<Send("add_preset", "given", 0)>>
  BY DEF Steps, Flag, Option
<1>3. Steps(Flag("set_home_position")) = Home
  BY DEF Steps, Flag, Option
<1>4. \A n : Steps(Option("remove_preset", "number", n)) = <<Send("remove_preset", "number", n)>>
  BY DEF Steps, Option
<1>5. Steps(Option("remove_preset", "all", 0))
         = [i \in 1..Cardinality(Places) |-> Send("remove_preset", "number", i - 1)]
  BY DEF Steps, Option
<1>6. QED
  BY <1>1, <1>2, <1>3, <1>4, <1>5

(* The process of a line of the script, if its option takes lawful steps.  *)
LEMMA ScriptAhead ==
    ASSUME NEW x \in Message, x.o \in ScriptOptions,
           \A i \in DOMAIN Steps(x) : Lawful(Steps(x)[i])
    PROVE  LET r == ProcessOf(<<x>>) IN
           /\ IsProcess(r) /\ Stocked(r) /\ (\A k, l \in DOMAIN r.given : k = l)
           /\ \A s \in Ahead(r) : Lawful(s)
           /\ (\A i \in DOMAIN Steps(x) : Steps(x)[i].do # "send")
                 => \A s \in Ahead(r) : s.do # "send"
<1> DEFINE r == ProcessOf(<<x>>)
<1>1. <<x>> \in Seq(Message)
  OBVIOUS
<1>2. IsProcess(r) /\ Stocked(r)
  BY <1>1, ProcessStarts
<1>3. /\ (r = NoProcess /\ Rejects(<<x>>)) \/ (~Rejects(<<x>>) /\ r.steps = <<Step("open")>>)
      /\ \A k \in DOMAIN r.given : r.given[k] = x
      /\ \A k, l \in DOMAIN r.given : k = l
  BY ScriptStarts
<1> HIDE DEF r
<1>4. ASSUME NEW s \in Ahead(r) PROVE s = Step("open") \/ \E i \in DOMAIN Steps(x) : s = Steps(x)[i]
  <2>1. CASE \E i \in DOMAIN r.steps : s = r.steps[i]
    <3>1. r # NoProcess
      BY <2>1, NoProcessIs, <1>4
    <3>2. r.steps = <<Step("open")>>
      BY <1>3, <3>1
    <3>3. QED
      BY <2>1, <3>2
  <2>2. CASE \E k \in DOMAIN r.given : \E i \in DOMAIN Steps(r.given[k]) : s = Steps(r.given[k])[i]
    BY <1>3, <2>2
  <2>3. QED
    BY <2>1, <2>2, AheadIs
<1>5. QED
  BY <1>2, <1>3, <1>4, ScriptActs DEF r

-----------------------------------------------------------------------------
(* The parts of a step that the type invariant is about.                   *)
LEMMA TodoKeeps ==
    ASSUME CmdIInv, NEW p \in All, NEW r, IsProcess(r), Stocked(r),
           todo' = [todo EXCEPT ![p] = r]
    PROVE  /\ DOMAIN todo' = All
           /\ \A q \in All : IsProcess(todo'[q]) /\ Stocked(todo'[q])
           /\ todo'[p] = r /\ \A q \in All : q # p => todo'[q] = todo[q]
<1>1. DOMAIN todo = All /\ \A q \in All : IsProcess(todo[q]) /\ Stocked(todo[q])
  BY DEF CmdIInv, CommandsTypeOK
<1>2. QED
  BY <1>1

LEMMA DoingIs ==
    ASSUME CmdIInv, NEW p \in All, NEW what, Doing(p, what)
    PROVE  /\ todo[p] # NoProcess /\ Head(todo[p].steps).do = what
           /\ Head(todo[p].steps) \in Ahead(todo[p]) /\ Head(todo[p].steps) \in Act
           /\ IsProcess(Rest(todo[p])) /\ Stocked(Rest(todo[p]))
           /\ Ahead(Rest(todo[p])) \subseteq Ahead(todo[p])
           /\ DOMAIN Rest(todo[p]).given \subseteq DOMAIN todo[p].given
           /\ p = Script => what \in ScriptDeeds /\ edit.pc # "idle"
<1>1. todo[p] # NoProcess /\ Head(todo[p].steps).do = what
  BY DEF Doing
<1>2. IsProcess(todo[p]) /\ Stocked(todo[p])
  BY DEF CmdIInv, CommandsTypeOK
<1>3. /\ IsProcess(Rest(todo[p])) /\ Stocked(Rest(todo[p]))
      /\ Ahead(Rest(todo[p])) \subseteq Ahead(todo[p])
      /\ DOMAIN Rest(todo[p]).given \subseteq DOMAIN todo[p].given
      /\ Head(todo[p].steps) \in Ahead(todo[p]) /\ Head(todo[p].steps) \in Act
  BY <1>1, <1>2, RestKeeps
<1>4. p = Script => what \in ScriptDeeds /\ edit.pc # "idle"
  BY <1>1, <1>3 DEF CmdIInv, CommandsTypeOK, ScriptSteps, ScriptDeeds
<1>5. QED
  BY <1>1, <1>3, <1>4

EditTypes == [pc : {"idle", "position", "command"}, name : Words, n : Int]

LEMMA EditType ==
    /\ Idle \in EditTypes /\ Idle.pc = "idle"
    /\ \A e \in EditTypes : /\ [e EXCEPT !.pc = "command"] \in EditTypes
                           /\ [e EXCEPT !.pc = "command"].pc = "command"
<1>1. "" \in Words
  BY WordsAre
<1>2. Idle \in EditTypes /\ Idle.pc = "idle"
  <2>1. \A name \in Words, n \in Int : [pc |-> "idle", name |-> name, n |-> n] \in EditTypes
    BY DEF EditTypes
  <2>2. -1 \in Int
    OBVIOUS
  <2>3. QED
    BY <1>1, <2>1, <2>2 DEF Idle
<1>3. \A e \in EditTypes : [e EXCEPT !.pc = "command"] \in EditTypes
  BY DEF EditTypes
<1>4. \A e \in EditTypes : [e EXCEPT !.pc = "command"].pc = "command"
  BY DEF EditTypes
<1>5. QED
  BY <1>2, <1>3, <1>4

(* A process goes on or ends, and the script asks for nothing new.         *)
LEMMA RunsOn ==
    ASSUME CmdIInv, NEW p \in All, todo[p] # NoProcess,
           NEW r, r = Rest(todo[p]) \/ r = NoProcess,
           todo' = [todo EXCEPT ![p] = r], edit' = edit
    PROVE  /\ DOMAIN todo' = All /\ (\A q \in All : IsProcess(todo'[q]) /\ Stocked(todo'[q]))
           /\ edit'.pc = "idle" => edit' = Idle /\ todo'[Script] = NoProcess
           /\ ScriptSteps'
           /\ \A q \in All : Ahead(todo'[q]) \subseteq Ahead(todo[q])
<1>1. IsProcess(todo[p]) /\ Stocked(todo[p])
  BY DEF CmdIInv, CommandsTypeOK
<1>2. /\ IsProcess(r) /\ Stocked(r) /\ Ahead(r) \subseteq Ahead(todo[p])
      /\ DOMAIN r.given \subseteq DOMAIN todo[p].given
  BY <1>1, RestKeeps, NoProcessIs
<1>3. /\ DOMAIN todo' = All
      /\ \A q \in All : IsProcess(todo'[q]) /\ Stocked(todo'[q])
      /\ todo'[p] = r /\ \A q \in All : q # p => todo'[q] = todo[q]
  BY <1>2, TodoKeeps
<1>4. /\ Ahead(todo'[Script]) \subseteq Ahead(todo[Script])
      /\ DOMAIN todo'[Script].given \subseteq DOMAIN todo[Script].given
      /\ \A q \in All : Ahead(todo'[q]) \subseteq Ahead(todo[q])
  BY <1>2, <1>3 DEF All
<1>5. ScriptSteps'
  BY <1>4 DEF ScriptSteps, CmdIInv
<1>6. edit'.pc = "idle" => edit' = Idle /\ todo'[Script] = NoProcess
  <2>1. edit.pc = "idle" => edit = Idle /\ todo[Script] = NoProcess
    BY DEF CmdIInv, CommandsTypeOK
  <2>2. QED
    BY <1>3, <2>1 DEF All
<1>7. QED
  BY <1>3, <1>4, <1>5, <1>6

(* The script has asked ipc_cmd for something.                             *)
LEMMA ScriptAsks ==
    ASSUME CmdIInv, NEW x \in Message, x.o \in ScriptOptions,
           \A i \in DOMAIN Steps(x) : Lawful(Steps(x)[i]),
           todo' = [todo EXCEPT ![Script] = ProcessOf(<<x>>)],
           edit'.pc = "command" \/ \A i \in DOMAIN Steps(x) : Steps(x)[i].do # "send"
    PROVE  /\ DOMAIN todo' = All /\ (\A q \in All : IsProcess(todo'[q]) /\ Stocked(todo'[q]))
           /\ ScriptSteps'
           /\ \A q \in Procs : todo'[q] = todo[q]
           /\ todo'[Script] = ProcessOf(<<x>>)
<1> DEFINE r == ProcessOf(<<x>>)
<1>1. /\ IsProcess(r) /\ Stocked(r) /\ (\A k, l \in DOMAIN r.given : k = l)
      /\ \A s \in Ahead(r) : Lawful(s)
      /\ (\A i \in DOMAIN Steps(x) : Steps(x)[i].do # "send") => \A s \in Ahead(r) : s.do # "send"
  BY ScriptAhead
<1> HIDE DEF r
<1>2. /\ DOMAIN todo' = All
      /\ \A q \in All : IsProcess(todo'[q]) /\ Stocked(todo'[q])
      /\ todo'[Script] = r /\ \A q \in All : q # Script => todo'[q] = todo[q]
  BY <1>1, TodoKeeps DEF All, r
<1>3. ScriptSteps'
  BY <1>1, <1>2 DEF ScriptSteps, Lawful, ScriptDeeds
<1>4. \A q \in Procs : todo'[q] = todo[q]
  BY <1>2, CommandsAssumption DEF All
<1>5. QED
  BY <1>2, <1>3, <1>4 DEF r

(* The options of the script, as ScriptAsks wants them.                    *)
LEMMA ScriptAsksFor ==
    /\ \A o \in {"get-pos", "add_preset", "set_home_position"} :
          /\ Flag(o) \in Message /\ Flag(o).o = o
          /\ \A i \in DOMAIN Steps(Flag(o)) : Lawful(Steps(Flag(o))[i])
    /\ \A i \in DOMAIN Steps(Flag("get-pos")) : Steps(Flag("get-pos"))[i].do # "send"
    /\ \A n \in Int : LET x == Option("remove_preset", "number", n) IN
          /\ x \in Message /\ x.o = "remove_preset"
          /\ \A i \in DOMAIN Steps(x) : Lawful(Steps(x)[i])
    /\ LET x == Option("remove_preset", "all", 0) IN
          /\ x \in Message /\ x.o = "remove_preset"
          /\ \A i \in DOMAIN Steps(x) : Lawful(Steps(x)[i])
<1>1. ASSUME NEW o \in {"get-pos", "add_preset", "set_home_position"}
      PROVE  Flag(o) \in Message /\ Flag(o).o = o
  <2>1. o \in Words /\ "given" \in Words
    BY WordsAre
  <2>2. QED
    BY <2>1, OptionType DEF Flag
<1>2. \A i \in DOMAIN Steps(Flag("get-pos")) :
         Lawful(Steps(Flag("get-pos"))[i]) /\ Steps(Flag("get-pos"))[i].do # "send"
  BY ScriptOptionSteps, ScriptActs
<1>3. \A i \in DOMAIN Steps(Flag("add_preset")) : Lawful(Steps(Flag("add_preset"))[i])
  BY ScriptOptionSteps, ScriptActs
<1>4. \A i \in DOMAIN Steps(Flag("set_home_position")) : Lawful(Steps(Flag("set_home_position"))[i])
  BY ScriptOptionSteps, ScriptActs DEF Home
<1>5. ASSUME NEW n \in Int, NEW x, x = Option("remove_preset", "number", n)
      PROVE  /\ x \in Message /\ x.o = "remove_preset"
             /\ \A i \in DOMAIN Steps(x) : Lawful(Steps(x)[i])
  <2>1. "remove_preset" \in Words /\ "number" \in Words
    BY WordsAre
  <2>2. x \in Message /\ x.o = "remove_preset"
    BY <1>5, <2>1, OptionType
  <2>3. Steps(x) = <<Send("remove_preset", "number", n)>>
    BY <1>5, ScriptOptionSteps
  <2>4. QED
    BY <2>2, <2>3, ScriptActs
<1>6. ASSUME NEW x, x = Option("remove_preset", "all", 0)
      PROVE  /\ x \in Message /\ x.o = "remove_preset"
             /\ \A i \in DOMAIN Steps(x) : Lawful(Steps(x)[i])
  <2>1. "remove_preset" \in Words /\ "all" \in Words
    BY WordsAre
  <2>2. x \in Message /\ x.o = "remove_preset"
    BY <1>6, <2>1, OptionType
  <2>3. Steps(x) = [i \in 1..Cardinality(Places) |-> Send("remove_preset", "number", i - 1)]
    BY <1>6, ScriptOptionSteps
  <2>4. QED
    BY <2>2, <2>3, ScriptActs
<1>7. QED
  BY <1>1, <1>2, <1>3, <1>4, <1>5, <1>6

-----------------------------------------------------------------------------
(* Every action keeps the types.                                           *)
LEMMA QueueOut ==
    ASSUME NEW S, NEW q \in Seq(S), q # <<>>
    PROVE  Head(q) \in S /\ Tail(q) \in Seq(S) /\ Len(Tail(q)) = Len(q) - 1 /\ Len(q) \in Nat
  OBVIOUS

LEMMA QueueIn ==
    ASSUME NEW S, NEW q \in Seq(S), NEW m \in S
    PROVE  Append(q, m) \in Seq(S) /\ Len(Append(q, m)) = Len(q) + 1
  OBVIOUS

LEMMA ListType ==
    ASSUME CmdIInv, NEW S
    PROVE  /\ Without(S) \in [Places -> Words]
           /\ \A n : [Without(S) EXCEPT ![n] = "Home"] \in [Places -> Words]
<1>1. "" \in Words /\ "Home" \in Words
  BY WordsAre
<1>2. list \in [Places -> Words]
  BY DEF CmdIInv, CommandsTypeOK
<1>3. Without(S) \in [Places -> Words]
  BY <1>1, <1>2 DEF Without
<1>4. QED
  BY <1>1, <1>3

LEMMA CmdInitIInv == CmdInit => CmdIInv
<1> SUFFICES ASSUME CmdInit PROVE CmdIInv
  OBVIOUS
<1>0. DOMAIN todo = All /\ \A p \in All : todo[p] = NoProcess
  BY DEF CmdInit
<1>1. \A p \in All : IsProcess(todo[p]) /\ Stocked(todo[p])
  BY <1>0, NoProcessIs
<1>2. ScriptSteps
  BY <1>0, NoProcessIs DEF ScriptSteps, All
<1>3. list \in [Places -> Words]
  <2>1. "" \in Words /\ "old" \in Words
    BY WordsAre
  <2>2. QED
    BY <2>1 DEF CmdInit
<1>4. mq \in Seq(Valid) /\ Len(mq) <= QueueSize
  <2>1. mq = <<>> /\ QueueSize \in Nat
    BY CommandsAssumption DEF CmdInit
  <2>2. QED
    BY <2>1
<1>5. edit \in EditTypes /\ (edit.pc = "idle" => edit = Idle /\ todo[Script] = NoProcess)
  BY <1>0, EditType DEF CmdInit, All
<1>6. calls \in 0..MaxCalls /\ edits \in 0..MaxEdits
  <2>1. calls = 0 /\ edits = 0 /\ MaxCalls \in Nat /\ MaxEdits \in Nat
    BY CommandsAssumption DEF CmdInit
  <2>2. QED
    BY <2>1
<1>7. CommandsTypeOK
  BY <1>0, <1>1, <1>3, <1>4, <1>5, <1>6 DEF CommandsTypeOK, CmdInit, EditTypes
<1>8. QED
  BY <1>1, <1>2, <1>7 DEF CmdIInv

LEMMA RunsKeep ==
    ASSUME CmdIInv, NEW p \in All, Runs(p)
    PROVE  CmdIInv'
<1>0. CommandsTypeOK
  BY DEF CmdIInv
<1>1. CASE Sends(p)
  <2>1. Doing(p, "send")
    BY <1>1 DEF Sends
  <2>2. /\ DOMAIN todo' = All /\ (\A q \in All : IsProcess(todo'[q]) /\ Stocked(todo'[q]))
        /\ edit'.pc = "idle" => edit' = Idle /\ todo'[Script] = NoProcess
        /\ ScriptSteps'
    BY <1>1, <2>1, DoingIs, RunsOn DEF Sends
  <2>3. Head(todo[p].steps).m \in Valid
    BY <2>1, DoingIs DEF Act
  <2>4. mq' \in Seq(Valid) /\ Len(mq') <= QueueSize
    <3>1. mq \in Seq(Valid) /\ Len(mq) < QueueSize /\ mq' = Append(mq, Head(todo[p].steps).m)
      BY <1>0, <1>1 DEF Sends, CommandsTypeOK
    <3>2. mq' \in Seq(Valid) /\ Len(mq') = Len(mq) + 1
      BY <2>3, <3>1, QueueIn
    <3>3. Len(mq) \in Nat /\ QueueSize \in Nat
      BY <3>1, CommandsAssumption
    <3>4. QED
      BY <3>1, <3>2, <3>3
  <2>5. QED
    BY <1>0, <1>1, <2>2, <2>4 DEF Sends, CmdIInv, CommandsTypeOK
<1>2. CASE Succeeds(p)
  <2>1. /\ todo[p] # NoProcess /\ todo' = [todo EXCEPT ![p] = Rest(todo[p])] /\ edit' = edit
    BY <1>2 DEF Succeeds, Doing
  <2>2. /\ DOMAIN todo' = All /\ (\A q \in All : IsProcess(todo'[q]) /\ Stocked(todo'[q]))
        /\ edit'.pc = "idle" => edit' = Idle /\ todo'[Script] = NoProcess
        /\ ScriptSteps'
    BY <2>1, RunsOn
  <2>3. QED
    BY <1>0, <1>2, <2>2 DEF Succeeds, CmdIInv, CommandsTypeOK
<1>3. CASE Fails(p)
  <2>1. /\ todo[p] # NoProcess /\ todo' = [todo EXCEPT ![p] = NoProcess]
        /\ edit' = IF p = Script /\ edit.pc = "position" THEN Idle ELSE edit
    BY <1>3 DEF Fails, Doing
  <2>2. /\ DOMAIN todo' = All /\ (\A q \in All : IsProcess(todo'[q]) /\ Stocked(todo'[q]))
        /\ todo'[p] = NoProcess /\ \A q \in All : q # p => todo'[q] = todo[q]
    BY <2>1, TodoKeeps, NoProcessIs
  <2>3. edit' \in EditTypes /\ (edit'.pc = "idle" => edit' = Idle /\ todo'[Script] = NoProcess)
    BY <1>0, <2>1, <2>2, EditType DEF CommandsTypeOK, EditTypes, All
  <2>4. ScriptSteps'
    <3>1. CASE p = Script
      BY <2>2, <3>1, NoProcessIs DEF ScriptSteps
    <3>2. CASE p # Script
      BY <2>1, <2>2, <3>2 DEF ScriptSteps, CmdIInv, All
    <3>3. QED
      BY <3>1, <3>2
  <2>5. QED
    BY <1>0, <1>3, <2>2, <2>3, <2>4 DEF Fails, CmdIInv, CommandsTypeOK, EditTypes
<1>4. CASE Returns(p)
  <2>1. /\ todo[p] # NoProcess /\ todo' = [todo EXCEPT ![p] = NoProcess] /\ edit' = edit
    BY <1>4 DEF Returns, Doing
  <2>2. /\ DOMAIN todo' = All /\ (\A q \in All : IsProcess(todo'[q]) /\ Stocked(todo'[q]))
        /\ edit'.pc = "idle" => edit' = Idle /\ todo'[Script] = NoProcess
        /\ ScriptSteps'
    BY <2>1, RunsOn
  <2>3. QED
    BY <1>0, <1>4, <2>2 DEF Returns, CmdIInv, CommandsTypeOK
<1>5. CASE Forks(p)
  <2>1. /\ todo[p] # NoProcess /\ edit' = edit
        /\ todo' = [todo EXCEPT ![p] = Rest(todo[p])] \/ todo' = [todo EXCEPT ![p] = NoProcess]
    BY <1>5 DEF Forks, Doing
  <2>2. /\ DOMAIN todo' = All /\ (\A q \in All : IsProcess(todo'[q]) /\ Stocked(todo'[q]))
        /\ edit'.pc = "idle" => edit' = Idle /\ todo'[Script] = NoProcess
        /\ ScriptSteps'
    BY <2>1, RunsOn
  <2>3. p \in Procs
    BY <1>5, DoingIs DEF Forks, ScriptDeeds, All
  <2>4. daemon' \subseteq Procs /\ orphan' \in BOOLEAN
    BY <1>0, <1>5, <2>3 DEF Forks, CommandsTypeOK
  <2>5. QED
    BY <1>0, <1>5, <2>2, <2>4 DEF Forks, CmdIInv, CommandsTypeOK
<1>6. QED
  BY <1>1, <1>2, <1>3, <1>4, <1>5 DEF Runs

LEMMA AskedKeeps ==
    ASSUME CmdIInv, NEW e \in Edits, Asked(e)
    PROVE  CmdIInv'
<1>0. CommandsTypeOK /\ edit \in EditTypes
  BY DEF CmdIInv, CommandsTypeOK, EditTypes
<1>1. e.do \in {"add", "del", "all", "home"} /\ e.name \in Words /\ e.n \in Int
  BY CommandsAssumption
<1>2. edits' \in 0..MaxEdits
  <2>1. edits \in 0..MaxEdits /\ edits < MaxEdits /\ edits' = edits + 1 /\ MaxEdits \in Nat
    BY <1>0, CommandsAssumption DEF Asked, CommandsTypeOK
  <2>2. QED
    BY <2>1
<1>3. [edit EXCEPT !.pc = "command"] \in EditTypes /\ [edit EXCEPT !.pc = "command"].pc = "command"
  BY <1>0, EditType
<1>4. ASSUME NEW x \in Message, x.o \in ScriptOptions,
             \A i \in DOMAIN Steps(x) : Lawful(Steps(x)[i]),
             Commands(<<x>>), list' \in [Places -> Words]
      PROVE  CmdIInv'
  <2>1. edit' = [edit EXCEPT !.pc = "command"] /\ todo' = [todo EXCEPT ![Script] = ProcessOf(<<x>>)]
    BY <1>4 DEF Commands
  <2>2. edit' \in EditTypes /\ edit'.pc = "command"
    BY <1>3, <2>1
  <2>3. /\ DOMAIN todo' = All /\ (\A q \in All : IsProcess(todo'[q]) /\ Stocked(todo'[q]))
        /\ ScriptSteps'
    BY <1>4, <2>1, <2>2, ScriptAsks
  <2>4. QED
    BY <1>0, <1>2, <1>4, <2>2, <2>3 DEF Asked, CmdIInv, CommandsTypeOK, EditTypes
<1>5. CASE e.do = "add"
  <2>1. AddAsked(e.name, e.n)
    BY <1>5 DEF Asked
  <2> DEFINE x == Flag("get-pos")
  <2>2. /\ x \in Message /\ x.o \in ScriptOptions
        /\ \A i \in DOMAIN Steps(x) : Lawful(Steps(x)[i]) /\ Steps(x)[i].do # "send"
    BY ScriptAsksFor DEF ScriptOptions
  <2>3. /\ edit' = [pc |-> "position", name |-> e.name, n |-> e.n]
        /\ todo' = [todo EXCEPT ![Script] = ProcessOf(<<x>>)] /\ list' = list
    BY <2>1 DEF AddAsked
  <2> HIDE DEF x
  <2>4. edit' \in EditTypes /\ edit'.pc = "position"
    BY <1>1, <2>3 DEF EditTypes
  <2>5. /\ DOMAIN todo' = All /\ (\A q \in All : IsProcess(todo'[q]) /\ Stocked(todo'[q]))
        /\ ScriptSteps'
    BY <2>2, <2>3, ScriptAsks
  <2>6. QED
    BY <1>0, <1>2, <2>3, <2>4, <2>5 DEF Asked, CmdIInv, CommandsTypeOK, EditTypes
<1>6. CASE e.do = "del"
  <2> DEFINE x == Option("remove_preset", "number", e.n)
  <2>1. DelAsked({e.n} \cap Places, x)
    BY <1>6 DEF Asked
  <2>2. list' \in [Places -> Words] /\ Commands(<<x>>)
    BY <2>1, ListType DEF DelAsked
  <2>3. /\ x \in Message /\ x.o \in ScriptOptions
        /\ \A i \in DOMAIN Steps(x) : Lawful(Steps(x)[i])
    BY <1>1, ScriptAsksFor DEF ScriptOptions
  <2> HIDE DEF x
  <2>4. QED
    BY <1>4, <2>2, <2>3
<1>7. CASE e.do = "all"
  <2> DEFINE x == Option("remove_preset", "all", 0)
  <2>1. DelAsked(Places, x)
    BY <1>7 DEF Asked
  <2>2. list' \in [Places -> Words] /\ Commands(<<x>>)
    BY <2>1, ListType DEF DelAsked
  <2>3. /\ x \in Message /\ x.o \in ScriptOptions
        /\ \A i \in DOMAIN Steps(x) : Lawful(Steps(x)[i])
    BY ScriptAsksFor DEF ScriptOptions
  <2> HIDE DEF x
  <2>4. QED
    BY <1>4, <2>2, <2>3
<1>8. CASE e.do = "home"
  <2> DEFINE x == Flag("set_home_position")
  <2>1. HomeAsked
    BY <1>8 DEF Asked
  <2>2. list' \in [Places -> Words] /\ Commands(<<x>>)
    BY <2>1, ListType DEF HomeAsked
  <2>3. /\ x \in Message /\ x.o \in ScriptOptions
        /\ \A i \in DOMAIN Steps(x) : Lawful(Steps(x)[i])
    BY ScriptAsksFor DEF ScriptOptions
  <2> HIDE DEF x
  <2>4. QED
    BY <1>4, <2>2, <2>3
<1>9. QED
  BY <1>1, <1>5, <1>6, <1>7, <1>8

LEMMA PositionedKeeps ==
    ASSUME CmdIInv, Positioned PROVE CmdIInv'
<1>0. CommandsTypeOK /\ edit \in EditTypes
  BY DEF CmdIInv, CommandsTypeOK, EditTypes
<1>1. CASE Refused
  <2>1. edit' = Idle /\ todo' = todo /\ list' = list /\ todo[Script] = NoProcess
    BY <1>1 DEF Positioned
  <2>2. edit' \in EditTypes /\ (edit'.pc = "idle" => edit' = Idle /\ todo'[Script] = NoProcess)
    BY <2>1, EditType
  <2>3. ScriptSteps'
    BY <2>1, NoProcessIs DEF ScriptSteps
  <2>4. QED
    BY <1>0, <2>1, <2>2, <2>3 DEF Positioned, CmdIInv, CommandsTypeOK, EditTypes
<1>2. CASE ~Refused
  <2> DEFINE n == IF edit.n = -1 THEN FirstFree(Named(list)) ELSE edit.n
  <2> DEFINE x == Flag("add_preset")
  <2>1. /\ list' = [i \in Places |-> IF i = n THEN edit.name ELSE list[i]]
        /\ Commands(<<x>>)
    BY <1>2 DEF Positioned
  <2> HIDE DEF n
  <2>2. list' \in [Places -> Words]
    <3>1. edit.name \in Words /\ list \in [Places -> Words]
      BY <1>0 DEF CommandsTypeOK
    <3>2. QED
      BY <2>1, <3>1
  <2>3. edit' = [edit EXCEPT !.pc = "command"] /\ todo' = [todo EXCEPT ![Script] = ProcessOf(<<x>>)]
    BY <2>1 DEF Commands
  <2>4. /\ x \in Message /\ x.o \in ScriptOptions
        /\ \A i \in DOMAIN Steps(x) : Lawful(Steps(x)[i])
    BY ScriptAsksFor DEF ScriptOptions
  <2> HIDE DEF x
  <2>5. edit' \in EditTypes /\ edit'.pc = "command"
    BY <1>0, <2>3, EditType
  <2>6. /\ DOMAIN todo' = All /\ (\A q \in All : IsProcess(todo'[q]) /\ Stocked(todo'[q]))
        /\ ScriptSteps'
    BY <2>3, <2>4, <2>5, ScriptAsks
  <2>7. QED
    BY <1>0, <2>2, <2>5, <2>6 DEF Positioned, CmdIInv, CommandsTypeOK, EditTypes
<1>3. QED
  BY <1>1, <1>2

LEMMA CmdStep == CmdIInv /\ [CmdNext]_cmdVars => CmdIInv'
<1> SUFFICES ASSUME CmdIInv, [CmdNext]_cmdVars PROVE CmdIInv'
  OBVIOUS
<1>0. CommandsTypeOK /\ edit \in EditTypes
  BY DEF CmdIInv, CommandsTypeOK, EditTypes
<1>1. CASE CameraStarts
  BY <1>0, <1>1 DEF CameraStarts, CmdIInv, CommandsTypeOK, ScriptSteps
<1>2. CASE Handle
  <2>1. mq' \in Seq(Valid) /\ Len(mq') <= QueueSize
    <3>1. mq \in Seq(Valid) /\ mq # <<>> /\ mq' = Tail(mq) /\ Len(mq) <= QueueSize
      BY <1>0, <1>2 DEF Handle, CommandsTypeOK
    <3>2. mq' \in Seq(Valid) /\ Len(mq') = Len(mq) - 1 /\ Len(mq) \in Nat
      BY <3>1, QueueOut
    <3>3. QueueSize \in Nat
      BY CommandsAssumption
    <3>4. QED
      BY <3>1, <3>2, <3>3
  <2>2. presets' \subseteq Places
    <3>1. presets \in SUBSET Places /\ presets' = Taken(presets, Head(mq))
      BY <1>0, <1>2 DEF Handle, CommandsTypeOK
    <3>2. QED
      BY <3>1, TakenType
  <2>3. motion' \in BOOLEAN
    BY <1>0, <1>2 DEF Handle, CommandsTypeOK
  <2>4. QED
    BY <1>0, <1>2, <2>1, <2>2, <2>3 DEF Handle, CmdIInv, CommandsTypeOK, ScriptSteps
<1>3. CASE Positioned
  BY <1>3, PositionedKeeps
<1>4. CASE Finished
  <2>1. edit' = Idle /\ todo' = todo /\ todo[Script] = NoProcess
    BY <1>4 DEF Finished
  <2>2. edit' \in EditTypes /\ (edit'.pc = "idle" => edit' = Idle /\ todo'[Script] = NoProcess)
    BY <2>1, EditType
  <2>3. ScriptSteps'
    BY <2>1, NoProcessIs DEF ScriptSteps
  <2>4. QED
    BY <1>0, <1>4, <2>1, <2>2, <2>3 DEF Finished, CmdIInv, CommandsTypeOK, EditTypes
<1>5. ASSUME NEW e \in Edits, Asked(e) PROVE CmdIInv'
  BY <1>5, AskedKeeps
<1>6. ASSUME NEW p \in All, Runs(p) PROVE CmdIInv'
  BY <1>6, RunsKeep
<1>7. ASSUME NEW p \in Procs, NEW line \in Lines, Call(p, line) PROVE CmdIInv'
  <2>1. line \in Seq(Message) /\ p \in All /\ p # Script
    BY CommandsAssumption DEF All
  <2>2. IsProcess(ProcessOf(line)) /\ Stocked(ProcessOf(line))
    BY <2>1, ProcessStarts
  <2>3. /\ DOMAIN todo' = All /\ (\A q \in All : IsProcess(todo'[q]) /\ Stocked(todo'[q]))
        /\ \A q \in All : q # p => todo'[q] = todo[q]
    BY <1>7, <2>1, <2>2, TodoKeeps DEF Call
  <2>4. todo'[Script] = todo[Script] /\ edit' = edit
    BY <1>7, <2>1, <2>3 DEF All, Call
  <2>5. ScriptSteps'
    BY <2>4 DEF ScriptSteps, CmdIInv
  <2>6. calls' \in 0..MaxCalls
    <3>1. calls \in 0..MaxCalls /\ calls < MaxCalls /\ calls' = calls + 1 /\ MaxCalls \in Nat
      BY <1>0, <1>7, CommandsAssumption DEF Call, CommandsTypeOK
    <3>2. QED
      BY <3>1
  <2>7. QED
    BY <1>0, <1>7, <2>3, <2>4, <2>5, <2>6 DEF Call, CmdIInv, CommandsTypeOK
<1>8. CASE UNCHANGED cmdVars
  BY <1>0, <1>8 DEF cmdVars, CmdIInv, CommandsTypeOK, ScriptSteps
<1>9. QED
  BY <1>1, <1>2, <1>3, <1>4, <1>5, <1>6, <1>7, <1>8 DEF CmdNext

(* What ipc_cmd and the script keep in every state: a process always has   *)
(* something to do, and the script never more than one thing.              *)
THEOREM CommandsInvariance == CmdSpec => []CmdIInv
  BY CmdInitIInv, CmdStep, PTL DEF CmdSpec

(* Whatever command lines and edits are given, a message that is queued or *)
(* still to be sent is one the camera can take, the queue keeps its size   *)
(* and only a process that was called directly becomes a daemon.           *)
THEOREM CommandsTypeCorrect == CmdSpec => []CommandsTypeOK
<1>1. CmdIInv => CommandsTypeOK
  BY DEF CmdIInv
<1>2. QED
  BY <1>1, CommandsInvariance, PTL

-----------------------------------------------------------------------------
(* The places a row of messages leads to.                                  *)
LEMMA LeadsEmpty ==
    ASSUME NEW S \in SUBSET Places, NEW S2
    PROVE  Leads(S, <<>>, S2) <=> S2 = S
<1>1. ASSUME Leads(S, <<>>, S2) PROVE S2 = S
  BY <1>1 DEF Leads
<1>2. ASSUME S2 = S PROVE Leads(S, <<>>, S2)
  <2> DEFINE t == [i \in 0..0 |-> S]
  <2>1. t \in [0..0 -> SUBSET Places] /\ t[0] = S
    OBVIOUS
  <2> HIDE DEF t
  <2>2. Len(<<>>) = 0
    OBVIOUS
  <2>3. QED
    BY <1>2, <2>1, <2>2 DEF Leads
<1>3. QED
  BY <1>1, <1>2

LEMMA LeadsHead ==
    ASSUME NEW X, NEW ms \in Seq(X), ms # <<>>, NEW S, NEW S2, Leads(S, ms, S2)
    PROVE  Leads(Taken(S, Head(ms)), Tail(ms), S2)
<1> DEFINE n == Len(ms)
<1>1. n \in Nat /\ n >= 1 /\ Head(ms) = ms[1] /\ Len(Tail(ms)) = n - 1
      /\ \A i \in 1..(n - 1) : Tail(ms)[i] = ms[i + 1]
  <2>1. n \in Nat /\ n # 0
    BY EmptySeq
  <2>2. Head(ms) = ms[1] /\ Len(Tail(ms)) = n - 1
    BY <2>1
  <2>3. \A i \in 1..(n - 1) : Tail(ms)[i] = ms[i + 1]
    BY <2>1
  <2>4. QED
    BY <2>1, <2>2, <2>3
<1>2. PICK t \in [0..n -> SUBSET Places] :
        t[0] = S /\ t[n] = S2 /\ \A i \in 1..n : t[i] = Taken(t[i - 1], ms[i])
  BY DEF Leads
<1> DEFINE u == [i \in 0..(n - 1) |-> t[i + 1]]
<1> HIDE DEF n
<1>3. u \in [0..(n - 1) -> SUBSET Places]
  BY <1>1, <1>2
<1>4. u[0] = Taken(S, Head(ms)) /\ u[n - 1] = S2
  <2>1. u[0] = t[1] /\ t[1] = Taken(t[0], ms[1])
    BY <1>1, <1>2
  <2>2. u[n - 1] = t[n]
    BY <1>1
  <2>3. QED
    BY <1>1, <1>2, <2>1, <2>2
<1>5. ASSUME NEW i \in 1..(n - 1) PROVE u[i] = Taken(u[i - 1], Tail(ms)[i])
  <2>1. i + 1 \in 1..n /\ i - 1 \in 0..(n - 1) /\ i \in 0..(n - 1) /\ (i + 1) - 1 = i
          /\ (i - 1) + 1 = i
    BY <1>1
  <2>2. u[i] = t[i + 1] /\ u[i - 1] = t[i]
    BY <2>1
  <2>3. t[i + 1] = Taken(t[i], ms[i + 1])
    BY <1>2, <2>1
  <2>4. QED
    BY <1>1, <2>2, <2>3
<1> HIDE DEF u
<1>6. QED
  BY <1>1, <1>3, <1>4, <1>5 DEF Leads

LEMMA LeadsAppend ==
    ASSUME NEW X, NEW ms \in Seq(X), NEW m \in X, NEW S, NEW S2, Leads(S, ms, S2)
    PROVE  Leads(S, Append(ms, m), Taken(S2, m))
<1> DEFINE n == Len(ms)
<1>1. n \in Nat /\ Len(Append(ms, m)) = n + 1 /\ Append(ms, m)[n + 1] = m
      /\ \A i \in 1..n : Append(ms, m)[i] = ms[i]
  OBVIOUS
<1>2. PICK t \in [0..n -> SUBSET Places] :
        t[0] = S /\ t[n] = S2 /\ \A i \in 1..n : t[i] = Taken(t[i - 1], ms[i])
  BY DEF Leads
<1> DEFINE u == [i \in 0..(n + 1) |-> IF i = n + 1 THEN Taken(t[n], m) ELSE t[i]]
<1> HIDE DEF n
<1>3. u \in [0..(n + 1) -> SUBSET Places]
  <2>1. t[n] \in SUBSET Places
    BY <1>1, <1>2
  <2>2. Taken(t[n], m) \in SUBSET Places
    BY <2>1, TakenType
  <2>3. \A i \in 0..(n + 1) : i # n + 1 => t[i] \in SUBSET Places
    BY <1>1, <1>2
  <2>4. QED
    BY <2>2, <2>3
<1>4. u[0] = S /\ u[n + 1] = Taken(S2, m)
  BY <1>1, <1>2
<1>5. ASSUME NEW i \in 1..(n + 1) PROVE u[i] = Taken(u[i - 1], Append(ms, m)[i])
  <2>1. CASE i = n + 1
    BY <1>1, <2>1
  <2>2. CASE i # n + 1
    <3>1. i \in 1..n /\ i - 1 \in 0..n /\ i - 1 # n + 1 /\ i \in 0..(n + 1) /\ i - 1 \in 0..(n + 1)
      BY <1>1, <2>2
    <3>2. u[i] = t[i] /\ u[i - 1] = t[i - 1]
      BY <2>2, <3>1
    <3>3. t[i] = Taken(t[i - 1], ms[i])
      BY <1>2, <3>1
    <3>4. QED
      BY <1>1, <3>1, <3>2, <3>3
  <2>3. QED
    BY <2>1, <2>2
<1> HIDE DEF u
<1>6. QED
  BY <1>1, <1>3, <1>4, <1>5 DEF Leads

LEMMA LeadsOne ==
    ASSUME NEW S \in SUBSET Places, NEW m
    PROVE  Leads(S, <<m>>, Taken(S, m))
<1>1. Leads(S, <<>>, S) /\ <<>> \in Seq({m})
  BY LeadsEmpty
<1>2. Append(<<>>, m) = <<m>>
  OBVIOUS
<1>3. QED
  BY <1>1, <1>2, LeadsAppend

(* Only presets that are added or removed change the places.               *)
LEMMA PlainTaken ==
    ASSUME NEW S, NEW m, m.o \notin {"add_preset", "remove_preset"}
    PROVE  Taken(S, m) = S
  BY DEF Taken

LEMMA MsgsOf ==
    /\ Msgs(<<>>) = <<>>
    /\ \A s : Msgs(<<s>>) = <<s.m>>
    /\ \A s, u, v : Msgs(<<s, u, v>>) = <<s.m, u.m, v.m>>
  BY DEF Msgs

LEMMA MsgsType ==
    ASSUME NEW steps \in Seq(Act)
    PROVE  /\ Msgs(steps) \in Seq(Valid) /\ Len(Msgs(steps)) = Len(steps)
           /\ \A i \in 1..Len(steps) : Msgs(steps)[i] = steps[i].m
<1> DEFINE n == Len(steps)
<1>1. n \in Nat /\ \A i \in 1..n : steps[i] \in Act
  OBVIOUS
<1>2. Msgs(steps) = [i \in 1..n |-> steps[i].m]
  BY DEF Msgs
<1>3. \A i \in 1..n : steps[i].m \in Valid
  BY <1>1 DEF Act
<1> HIDE DEF n
<1>4. Msgs(steps) \in Seq(Valid) /\ Len(Msgs(steps)) = n
  BY <1>1, <1>2, <1>3
<1>5. QED
  BY <1>2, <1>4 DEF n

LEMMA MsgsTail ==
    ASSUME NEW steps \in Seq(Act), steps # <<>>
    PROVE  /\ Msgs(steps) \in Seq(Valid) /\ Msgs(steps) # <<>>
           /\ Head(Msgs(steps)) = Head(steps).m /\ Tail(Msgs(steps)) = Msgs(Tail(steps))
<1> DEFINE n == Len(steps)
<1>1. n \in Nat /\ n # 0
  BY EmptySeq
<1>2. /\ Msgs(steps) \in Seq(Valid) /\ Len(Msgs(steps)) = n
      /\ \A i \in 1..n : Msgs(steps)[i] = steps[i].m
  BY MsgsType
<1>3. Msgs(steps) # <<>>
  BY <1>1, <1>2, EmptySeq
<1>4. Head(Msgs(steps)) = Head(steps).m
  <2>1. Head(Msgs(steps)) = Msgs(steps)[1] /\ Head(steps) = steps[1]
    BY <1>1, <1>2
  <2>2. QED
    BY <1>1, <1>2, <2>1
<1>5. /\ Tail(steps) \in Seq(Act) /\ Len(Tail(steps)) = n - 1
      /\ \A i \in 1..(n - 1) : Tail(steps)[i] = steps[i + 1]
  BY <1>1
<1>6. /\ Msgs(Tail(steps)) \in Seq(Valid) /\ Len(Msgs(Tail(steps))) = n - 1
      /\ \A i \in 1..(n - 1) : Msgs(Tail(steps))[i] = Tail(steps)[i].m
  BY <1>5, MsgsType
<1> DEFINE ms == Msgs(steps)
<1>7. ms \in Seq(Valid) /\ Len(ms) = n /\ ms # <<>> /\ \A i \in 1..n : ms[i] = steps[i].m
  BY <1>2, <1>3
<1> HIDE DEF ms, n
<1>8. /\ Tail(ms) \in Seq(Valid) /\ Len(Tail(ms)) = n - 1
      /\ \A i \in 1..(n - 1) : Tail(ms)[i] = ms[i + 1]
  BY <1>1, <1>7
<1>9. \A i \in 1..(n - 1) : Tail(ms)[i] = Msgs(Tail(steps))[i]
  <2>1. \A i \in 1..(n - 1) : i + 1 \in 1..n
    BY <1>1
  <2>2. QED
    BY <1>5, <1>6, <1>7, <1>8, <2>1
<1>10. Tail(ms) = Msgs(Tail(steps))
  BY <1>6, <1>8, <1>9, SeqEqual
<1>11. QED
  BY <1>2, <1>3, <1>4, <1>10 DEF ms

-----------------------------------------------------------------------------
(* What is called directly changes no preset.                              *)
LEMMA PlainActs ==
    /\ \A what : Step(what).m.o \notin PresetMessages
    /\ \A o, a, n : o \notin PresetMessages => Send(o, a, n).m.o \notin PresetMessages
  BY DEF Step, Nothing, Send, Option, PresetMessages

LEMMA PlainSteps ==
    ASSUME NEW x \in Message, x.o \notin PresetOptions
    PROVE  \A i \in DOMAIN Steps(x) : Steps(x)[i].m.o \notin PresetMessages
<1> DEFINE Plain(s) == s.m.o \notin PresetMessages
<1>0. /\ \A what : Plain(Step(what))
      /\ \A o, a, n : o \notin PresetMessages => Plain(Send(o, a, n))
  BY PlainActs
<1> HIDE DEF Plain
<1> DEFINE AllPlain == \A i \in DOMAIN Steps(x) : Plain(Steps(x)[i])
<1>1. CASE x.a = "none"
  <2>1. Steps(x) = <<>>
    BY <1>1 DEF Steps
  <2>2. QED
    BY <2>1 DEF Plain
<1>2. CASE x.a # "none" /\ x.o = "move"
  <2>1. Steps(x) = <<Send("move", Turn(x.a), 0)>>
    BY <1>2 DEF Steps
  <2>2. AllPlain
    BY <1>0, <2>1 DEF PresetMessages
  <2>3. QED
    BY <2>2 DEF Plain
<1>3. CASE x.a # "none" /\ x.o \in {"jump-abs", "jump-rel"}
  <2>1. Steps(x) = <<Step("read_ptz"), Send("jump", "position", 0)>>
    BY <1>3 DEF Steps
  <2>2. AllPlain
    BY <1>0, <2>1 DEF PresetMessages
  <2>3. QED
    BY <2>2 DEF Plain
<1>4. CASE x.a # "none" /\ x.o \in {"get-pos", "is_moving"}
  <2>1. Steps(x) = <<Step("read_ptz")>>
    BY <1>4 DEF Steps
  <2>2. AllPlain
    BY <1>0, <2>1
  <2>3. QED
    BY <2>2 DEF Plain
<1>5. CASE x.a # "none" /\ x.o = "preset"
  <2>1. Steps(x) = IF x.n = -1 THEN <<>> ELSE <<Send("preset", "number", x.n % 256)>>
    BY <1>5 DEF Steps
  <2>2. AllPlain
    BY <1>0, <2>1 DEF PresetMessages
  <2>3. QED
    BY <2>2 DEF Plain
<1>6. CASE x.o = "cruise" /\ x.a \in {"presets", "360"}
  <2>1. Steps(x) = <<Send("cruise", "on", 0), Step("sleep"), Send("cruise", x.a, 0)>>
    BY <1>6 DEF Steps
  <2>2. AllPlain
    BY <1>0, <2>1 DEF PresetMessages
  <2>3. QED
    BY <2>2 DEF Plain
<1>7. CASE x.a # "none" /\ x.o = "file"
  <2>1. Steps(x) = <<Step("read_file"), Send("file", "content", 0)>>
    BY <1>7 DEF Steps
  <2>2. AllPlain
    BY <1>0, <2>1 DEF PresetMessages
  <2>3. QED
    BY <2>2 DEF Plain
<1>8. CASE x.a # "none" /\ x.o = "start"
  <2>1. Steps(x) = <<Send("motion", "start", 0), Step("fork"), Step("sleep"),
                     Send("motion", "stop", 0)>>
    BY <1>8 DEF Steps, Start
  <2>2. AllPlain
    BY <1>0, <2>1 DEF PresetMessages
  <2>3. QED
    BY <2>2 DEF Plain
<1>9. CASE x.a # "none" /\ x.o = "stop"
  <2>1. Steps(x) = <<Send("motion", "stop", 0)>>
    BY <1>9 DEF Steps
  <2>2. AllPlain
    BY <1>0, <2>1 DEF PresetMessages
  <2>3. QED
    BY <2>2 DEF Plain
<1>10. CASE x.a # "none" /\ x.o = "save_config"
  <2>1. Steps(x) = <<Step("worker_queue"), Step("return")>>
    BY <1>10 DEF Steps
  <2>2. AllPlain
    BY <1>0, <2>1
  <2>3. QED
    BY <2>2 DEF Plain
<1>11. CASE /\ x.a # "none" /\ ~(x.o = "cruise" /\ x.a \in {"presets", "360"})
            /\ x.o \notin {"move", "jump-abs", "jump-rel", "get-pos", "is_moving", "preset",
                           "file", "start", "stop", "save_config"}
  <2>1. Steps(x) = <<Send(x.o, x.a, x.n)>>
    BY <1>11 DEF Steps, PresetOptions
  <2>2. AllPlain
    BY <1>0, <2>1 DEF PresetMessages, PresetOptions
  <2>3. QED
    BY <2>2 DEF Plain
<1>12. QED
  BY <1>1, <1>2, <1>3, <1>4, <1>5, <1>6, <1>7, <1>8, <1>9, <1>10, <1>11

LEMMA OthersStart ==
    ASSUME ScriptOnly, NEW line \in Lines
    PROVE  \A s \in Ahead(ProcessOf(line)) : s.m.o \notin PresetMessages
<1>1. CASE Rejects(line)
  BY <1>1, NoProcessIs DEF ProcessOf
<1>2. CASE ~Rejects(line)
  <2> DEFINE g == GivenBy(line)
  <2>0. line \in Seq(Message)
    BY CommandsAssumption
  <2>1. /\ DOMAIN g \subseteq DOMAIN Order
        /\ \A k \in DOMAIN g : g[k] = Value(line, Order[k]) /\ Steps(g[k]) # <<>>
    BY DEF GivenBy
  <2> HIDE DEF g
  <2>2. ASSUME NEW k \in DOMAIN g
        PROVE  g[k] \in Message /\ g[k].o \notin PresetOptions
    <3>1. Order[k] \in Words
      BY <2>1, OrderStrings
    <3>2. g[k] \in Message /\ g[k].o = Order[k] /\ g[k] = Value(line, Order[k])
      BY <2>0, <2>1, <3>1, ValueType
    <3>3. g[k] # Option(Order[k], "none", 0)
      BY <2>1 DEF Steps, Option
    <3>4. PICK i \in DOMAIN line : g[k] = Meant(line[i])
      BY <2>0, <3>1, <3>2, <3>3, ValueIs
    <3>5. line[i] \in Message /\ line[i].o \notin PresetOptions
      BY <2>0 DEF ScriptOnly
    <3>6. Meant(line[i]).o # "move" => Meant(line[i]) = line[i]
      BY <3>5, MeantType
    <3>7. QED
      BY <3>2, <3>4, <3>5, <3>6 DEF PresetOptions
  <2>3. /\ ProcessOf(line).given = g /\ ProcessOf(line).steps = <<Step("open")>>
    BY <1>2 DEF ProcessOf, g
  <2>4. QED
    BY <2>2, <2>3, AheadIs, PlainActs, PlainSteps
<1>3. QED
  BY <1>1, <1>2

-----------------------------------------------------------------------------
(* What the options of the script do to the camera's places.               *)
LEMMA NothingLeads ==
    ASSUME NEW S \in SUBSET Places
    PROVE  Leads(S, Msgs(<<Step("open")>>), S)
<1>1. Msgs(<<Step("open")>>) = <<Nothing>>
  BY MsgsOf DEF Step
<1>2. Taken(S, Nothing) = S
  BY NothingType, PlainTaken
<1>3. QED
  BY <1>1, <1>2, LeadsOne

LEMMA AddLeads ==
    ASSUME NEW S \in SUBSET Places, S # Places
    PROVE  Leads(S, Msgs(Steps(Flag("add_preset"))), S \cup {FirstFree(S)})
<1> DEFINE m == Option("add_preset", "given", 0)
<1>1. Msgs(Steps(Flag("add_preset"))) = <<m>>
  BY ScriptOptionSteps, ScriptActs, MsgsOf
<1>2. Taken(S, m) = S \cup {FirstFree(S)}
  BY DEF Taken, Option
<1>3. QED
  BY <1>1, <1>2, LeadsOne

LEMMA RemoveLeads ==
    ASSUME NEW S \in SUBSET Places, NEW n
    PROVE  Leads(S, Msgs(Steps(Option("remove_preset", "number", n))), S \ {n})
<1> DEFINE m == Option("remove_preset", "number", n)
<1>1. Msgs(Steps(m)) = <<m>>
  BY ScriptOptionSteps, ScriptActs, MsgsOf
<1>2. Taken(S, m) = S \ {n}
  BY DEF Taken, Option
<1>3. QED
  BY <1>1, <1>2, LeadsOne

LEMMA RemoveAllLeads ==
    ASSUME NEW S \in SUBSET Places
    PROVE  Leads(S, Msgs(Steps(Option("remove_preset", "all", 0))), {})
<1> DEFINE N == Cardinality(Places)
<1> DEFINE ms == [i \in 1..N |-> Option("remove_preset", "number", i - 1)]
<1>1. N \in Nat /\ Places = 0..(N - 1)
  BY PlacesType
<1>2. Msgs(Steps(Option("remove_preset", "all", 0))) = ms
  <2>1. Steps(Option("remove_preset", "all", 0))
          = [i \in 1..N |-> Send("remove_preset", "number", i - 1)]
    BY ScriptOptionSteps
  <2> DEFINE st == [i \in 1..N |-> Send("remove_preset", "number", i - 1)]
  <2>2. Len(st) = N /\ \A i \in 1..N : st[i].m = Option("remove_preset", "number", i - 1)
    BY <1>1, ScriptActs
  <2> HIDE DEF st, N
  <2>3. Msgs(st) = [i \in 1..N |-> Option("remove_preset", "number", i - 1)]
    BY <2>2 DEF Msgs
  <2>4. QED
    BY <2>1, <2>3 DEF st
<1>3. Len(ms) = N /\ \A i \in 1..N : ms[i].o = "remove_preset" /\ ms[i].n = i - 1
  BY <1>1 DEF Option
<1> DEFINE t == [j \in 0..N |-> S \ (0..(j - 1))]
<1> HIDE DEF N, ms
<1>4. t \in [0..N -> SUBSET Places] /\ t[0] = S /\ t[N] = {}
  BY <1>1
<1>5. ASSUME NEW i \in 1..N PROVE t[i] = Taken(t[i - 1], ms[i])
  <2>1. i \in 0..N /\ i - 1 \in 0..N
    BY <1>1
  <2>2. t[i] = S \ (0..(i - 1)) /\ t[i - 1] = S \ (0..(i - 2))
    BY <1>1, <2>1
  <2>3. Taken(t[i - 1], ms[i]) = t[i - 1] \ {i - 1}
    BY <1>3 DEF Taken
  <2>4. 0..(i - 1) = (0..(i - 2)) \cup {i - 1}
    BY <1>1
  <2>5. QED
    BY <2>2, <2>3, <2>4
<1> HIDE DEF t
<1>6. Leads(S, ms, {})
  BY <1>3, <1>4, <1>5 DEF Leads
<1>7. QED
  BY <1>2, <1>6

LEMMA FirstIsZero ==
    ASSUME NEW S \in SUBSET Places, 0 \notin S PROVE FirstFree(S) = 0 /\ S # Places
<1>1. 0 \in Places \ S /\ S # Places /\ Places \in SUBSET Nat
  BY PlacesType
<1>2. FirstFree(S) \in Places \ S /\ FirstFree(S) <= 0
  BY <1>1, FirstFreeIs
<1>3. FirstFree(S) \in Nat
  BY <1>1, <1>2
<1>4. QED
  BY <1>1, <1>2, <1>3

LEMMA LeadsThree ==
    ASSUME NEW S \in SUBSET Places, NEW S1 \in SUBSET Places, NEW S2 \in SUBSET Places,
           NEW S3 \in SUBSET Places, NEW m1, NEW m2, NEW m3,
           S1 = Taken(S, m1), S2 = Taken(S1, m2), S3 = Taken(S2, m3)
    PROVE  Leads(S, <<m1, m2, m3>>, S3)
<1> DEFINE ms == <<m1, m2, m3>>
<1> DEFINE t == [i \in 0..3 |-> IF i = 0 THEN S ELSE IF i = 1 THEN S1 ELSE IF i = 2 THEN S2 ELSE S3]
<1>1. Len(ms) = 3 /\ ms[1] = m1 /\ ms[2] = m2 /\ ms[3] = m3
  OBVIOUS
<1>2. t \in [0..3 -> SUBSET Places] /\ t[0] = S /\ t[1] = S1 /\ t[2] = S2 /\ t[3] = S3
  OBVIOUS
<1> HIDE DEF t, ms
<1>3. ASSUME NEW i \in 1..3 PROVE t[i] = Taken(t[i - 1], ms[i])
  <2>1. i = 1 \/ i = 2 \/ i = 3
    OBVIOUS
  <2>2. QED
    BY <1>1, <1>2, <2>1
<1>4. Leads(S, ms, S3)
  BY <1>1, <1>2, <1>3 DEF Leads
<1>5. QED
  BY <1>4 DEF ms

LEMMA HomeLeads ==
    ASSUME NEW S \in SUBSET Places
    PROVE  Leads(S, Msgs(Steps(Flag("set_home_position"))), S \cup {0})
<1> DEFINE r == Option("remove_preset", "number", 0)
<1> DEFINE a == Option("add_preset", "given", 0)
<1>1. Msgs(Steps(Flag("set_home_position"))) = <<r, Nothing, a>>
  BY ScriptOptionSteps, ScriptActs, MsgsOf DEF Home, Step
<1>2. Taken(S, r) = S \ {0} /\ Taken(S \ {0}, Nothing) = S \ {0}
  <2>1. Taken(S, r) = S \ {0}
    BY DEF Taken, Option
  <2>2. QED
    BY <2>1, NothingType, PlainTaken
<1>3. Taken(S \ {0}, a) = S \cup {0}
  <2>1. FirstFree(S \ {0}) = 0 /\ S \ {0} # Places
    BY FirstIsZero
  <2>2. Taken(S \ {0}, a) = (S \ {0}) \cup {0}
    BY <2>1 DEF Taken, Option
  <2>3. QED
    BY <2>2
<1>4. Leads(S, <<r, Nothing, a>>, S \cup {0})
  <2>1. S \ {0} \in SUBSET Places /\ S \cup {0} \in SUBSET Places
    BY PlacesType
  <2> HIDE DEF r, a
  <2>2. QED
    BY <1>2, <1>3, <2>1, LeadsThree
<1>5. QED
  BY <1>1, <1>4

-----------------------------------------------------------------------------
(* What the camera will have been told makes it agree with the list.       *)
LEMMA ScriptGoesOn ==
    ASSUME CmdIInv, edit.pc = "command", todo[Script] # NoProcess,
           NEW CONSTANT S \in SUBSET Places, Completes(S),
           NEW CONSTANT T, T = Taken(S, Head(todo[Script].steps).m),
           todo'[Script] = Rest(todo[Script]), edit' = edit, list' = list
    PROVE  Completes(T)'
<1> DEFINE r == todo[Script]
<1>0. IsProcess(r) /\ Stocked(r) /\ r # NoProcess /\ \A k, l \in DOMAIN r.given : k = l
  BY DEF CmdIInv, CommandsTypeOK, ScriptSteps, All
<1>1. PICK S2 \in SUBSET Places :
         /\ Leads(S, Msgs(r.steps), S2)
         /\ DOMAIN r.given = {} => S2 = Named(list)
         /\ \A k \in DOMAIN r.given : Leads(S2, Msgs(Steps(r.given[k])), Named(list))
  BY DEF Completes
<1>2. r.steps \in Seq(Act) /\ r.steps # <<>> /\ T \in SUBSET Places /\ Named(list) \in SUBSET Places
  BY <1>0, TakenType DEF IsProcess, Stocked, Named
<1>3. Leads(T, Msgs(Tail(r.steps)), S2)
  BY <1>1, <1>2, MsgsTail, LeadsHead
<1>4. Completes(T)' <=> \E S3 \in SUBSET Places :
                           /\ Leads(T, Msgs(Rest(r).steps), S3)
                           /\ DOMAIN Rest(r).given = {} => S3 = Named(list)
                           /\ \A k \in DOMAIN Rest(r).given :
                                 Leads(S3, Msgs(Steps(Rest(r).given[k])), Named(list))
  BY DEF Completes
<1>5. ASSUME Len(r.steps) = 1 PROVE T = S2
  <2>1. Tail(r.steps) = <<>>
    <3>1. Tail(r.steps) \in Seq(Act) /\ Len(Tail(r.steps)) = 0
      BY <1>2, <1>5
    <3>2. QED
      BY <3>1, EmptySeq
  <2>2. Leads(T, <<>>, S2)
    BY <1>3, <2>1, MsgsOf
  <2>3. QED
    BY <1>2, <2>2, LeadsEmpty
<1> HIDE DEF r
<1>6. CASE Len(r.steps) > 1 /\ Rest(r) = [given |-> r.given, steps |-> Tail(r.steps)]
  <2>1. Rest(r).given = r.given /\ Rest(r).steps = Tail(r.steps)
    BY <1>6
  <2>2. QED
    BY <1>1, <1>3, <1>4, <2>1 DEF r
<1>7. CASE Len(r.steps) = 1 /\ DOMAIN r.given = {} /\ Rest(r) = NoProcess
  <2>1. T = S2 /\ S2 = Named(list)
    BY <1>1, <1>5, <1>7
  <2>2. Leads(T, Msgs(Rest(r).steps), T) /\ DOMAIN Rest(r).given = {}
    BY <1>2, <1>7, NoProcessIs, MsgsOf, LeadsEmpty
  <2>3. QED
    BY <1>2, <1>4, <2>1, <2>2 DEF r
<1>8. ASSUME Len(r.steps) = 1, NEW k \in DOMAIN r.given,
             Rest(r) = [given |-> [l \in DOMAIN r.given \ {k} |-> r.given[l]],
                        steps |-> Steps(r.given[k])]
      PROVE  Completes(T)'
  <2>1. Rest(r).steps = Steps(r.given[k]) /\ DOMAIN Rest(r).given = DOMAIN r.given \ {k}
    BY <1>8
  <2>2. DOMAIN Rest(r).given = {}
    BY <1>0, <2>1
  <2>3. Leads(T, Msgs(Rest(r).steps), Named(list))
    BY <1>1, <1>5, <1>8, <2>1
  <2>4. QED
    BY <1>2, <1>4, <2>2, <2>3
<1>9. QED
  BY <1>0, <1>6, <1>7, <1>8, RestIs DEF r

(* The script has asked for a change that the list shows already.          *)
LEMMA ScriptWillComplete ==
    ASSUME NEW x \in Message, x.o \in ScriptOptions, ~Rejects(<<x>>), Steps(x) # <<>>,
           NEW S \in SUBSET Places, edit'.pc = "command",
           todo'[Script] = ProcessOf(<<x>>), Leads(S, Msgs(Steps(x)), Named(list'))
    PROVE  Completes(S)'
<1> DEFINE r == ProcessOf(<<x>>)
<1>1. /\ r.steps = <<Step("open")>> /\ \A k \in DOMAIN r.given : r.given[k] = x
  BY ScriptStarts
<1>2. DOMAIN r.given # {}
  <2>1. r # NoProcess
    BY <1>1, NoProcessIs
  <2>2. QED
    BY <2>1, ScriptStarts
<1>3. Leads(S, Msgs(r.steps), S)
  BY <1>1, NothingLeads
<1> HIDE DEF r
<1>4. \A k \in DOMAIN r.given : Leads(S, Msgs(Steps(r.given[k])), Named(list'))
  BY <1>1
<1>5. todo'[Script] = r
  BY DEF r
<1>6. QED
  BY <1>2, <1>3, <1>4, <1>5 DEF Completes, Named

(* Nobody but the script touches what it has to do.                        *)
LEMMA OthersGoOn ==
    ASSUME NEW CONSTANT S, Completes(S), todo'[Script] = todo[Script],
           edit'.pc = edit.pc, list' = list
    PROVE  Completes(S)'
  BY DEF Completes, Named

LEMMA BetweenCommands ==
    ASSUME NEW CONSTANT S, edit.pc # "command", edit'.pc # "command", Completes(S), list' = list
    PROVE  Completes(S)'
  BY DEF Completes, Named

LEMMA ListInit == CmdInit => ListIInv
<1> SUFFICES ASSUME CmdInit PROVE ListIInv
  OBVIOUS
<1>1. OthersPlain
  <2>1. \A p \in Procs : todo[p] = NoProcess
    BY DEF CmdInit, All
  <2>2. QED
    BY <2>1, NoProcessIs DEF OthersPlain
<1>2. NamesPlain
  BY DEF CmdInit, NamesPlain, Idle
<1>3. presets \in SUBSET Places /\ Named(list) = presets
  BY DEF CmdInit, Named
<1>4. Completes(presets)
  BY <1>3 DEF CmdInit, Completes, Idle
<1>5. Leads(presets, mq, presets)
  BY <1>3, LeadsEmpty DEF CmdInit
<1>6. QED
  BY <1>1, <1>2, <1>3, <1>4, <1>5 DEF ListIInv, Agreed

LEMMA ListRuns ==
    ASSUME CmdIInv, ListIInv, NEW p \in All, Runs(p)
    PROVE  ListIInv'
<1>0. CommandsTypeOK
  BY DEF CmdIInv
<1>1. PICK r : todo' = [todo EXCEPT ![p] = r] /\ (r = Rest(todo[p]) \/ r = NoProcess)
  BY DEF Runs, Sends, Succeeds, Fails, Returns, Forks
<1>2. todo[p] # NoProcess /\ list' = list /\ presets' = presets
  BY DEF Runs, Sends, Succeeds, Fails, Returns, Forks, Doing
<1>3. /\ todo'[p] = r /\ \A q \in All : q # p => todo'[q] = todo[q]
      /\ Ahead(r) \subseteq Ahead(todo[p])
  <2>1. IsProcess(todo[p]) /\ Stocked(todo[p])
    BY DEF CmdIInv, CommandsTypeOK
  <2>2. IsProcess(r) /\ Stocked(r) /\ Ahead(r) \subseteq Ahead(todo[p])
    BY <1>1, <1>2, <2>1, RestKeeps, NoProcessIs
  <2>3. QED
    BY <1>1, <2>2, TodoKeeps
<1>4. OthersPlain'
  BY <1>3 DEF OthersPlain, ListIInv, All
<1>5. NamesPlain'
  <2>1. edit' = edit \/ edit' = Idle
    BY DEF Runs, Sends, Succeeds, Fails, Returns, Forks
  <2>2. NamesPlain
    BY DEF ListIInv
  <2>3. CASE edit' = edit
    BY <1>2, <2>2, <2>3 DEF NamesPlain
  <2>4. CASE edit' = Idle
    <3>1. edit'.pc = "idle"
      BY <2>4, EditType
    <3>2. QED
      BY <1>2, <2>2, <3>1 DEF NamesPlain
  <2>5. QED
    BY <2>1, <2>3, <2>4
<1>6. ASSUME NEW CONSTANT S \in SUBSET Places, Leads(presets, mq, S), Completes(S)
      PROVE  Agreed'
  <2>1. CASE p # Script
    <3>1. todo'[Script] = todo[Script] /\ edit' = edit /\ p \in Procs
      BY <1>3, <2>1 DEF All, Runs, Sends, Succeeds, Fails, Returns, Forks
    <3>2. Completes(S)'
      BY <1>2, <1>6, <3>1, OthersGoOn
    <3>3. CASE mq' = mq
      BY <1>2, <1>6, <3>2, <3>3 DEF Agreed
    <3>4. CASE Sends(p)
      <4> DEFINE m == Head(todo[p].steps).m
      <4>1. m \in Valid /\ m.o \notin PresetMessages
        BY <3>1, <3>4, DoingIs DEF Sends, ListIInv, OthersPlain, Act
      <4>2. mq' = Append(mq, m) /\ mq \in Seq(Valid)
        BY <1>0, <3>4 DEF Sends, CommandsTypeOK
      <4>3. Taken(S, m) = S
        BY <4>1, PlainTaken DEF PresetMessages
      <4> HIDE DEF m
      <4>4. Leads(presets, Append(mq, m), S)
        BY <1>6, <4>1, <4>2, <4>3, LeadsAppend
      <4>5. QED
        BY <1>2, <3>2, <4>2, <4>4 DEF Agreed
    <3>5. QED
      BY <3>3, <3>4 DEF Runs, Sends, Succeeds, Fails, Returns, Forks
  <2>2. CASE p = Script /\ Fails(p)
    <3>1. CASE edit.pc = "command"
      BY <2>2, <3>1 DEF Fails, Agreed
    <3>2. CASE edit.pc # "command"
      <4>1. edit'.pc # "command" /\ mq' = mq
        BY <2>2, <3>2 DEF Fails, Idle
      <4>2. Completes(S)'
        BY <1>2, <1>6, <3>2, <4>1, BetweenCommands
      <4>3. QED
        BY <1>2, <1>6, <4>1, <4>2 DEF Agreed
    <3>3. QED
      BY <3>1, <3>2
  <2>3. CASE p = Script /\ (Sends(p) \/ Succeeds(p))
    <3> DEFINE m == Head(todo[p].steps).m
    <3>1. todo'[Script] = Rest(todo[Script]) /\ edit' = edit
      BY <1>3, <1>1, <2>3 DEF Sends, Succeeds, All, CmdIInv, CommandsTypeOK
    <3>2. Head(todo[p].steps) \in Ahead(todo[p]) /\ m \in Valid
      BY <2>3, DoingIs DEF Sends, Succeeds, Act
    <3>3. CASE Sends(p)
      <4>1. edit.pc = "command"
        BY <2>3, <3>2, <3>3 DEF Sends, Doing, CmdIInv, ScriptSteps
      <4>2. PICK T \in SUBSET Places : T = Taken(S, m)
        BY <1>6, TakenType
      <4>3. Completes(T)'
        BY <1>2, <1>6, <2>3, <3>1, <4>1, <4>2, ScriptGoesOn
      <4>4. mq' = Append(mq, m) /\ mq \in Seq(Valid)
        BY <1>0, <3>3 DEF Sends, CommandsTypeOK
      <4> HIDE DEF m
      <4>5. Leads(presets, Append(mq, m), T)
        BY <1>6, <3>2, <4>2, <4>4, LeadsAppend
      <4>6. QED
        BY <1>2, <4>3, <4>4, <4>5 DEF Agreed
    <3>4. CASE Succeeds(p)
      <4>1. mq' = mq
        BY <3>4 DEF Succeeds
      <4>2. Taken(S, m) = S
        <5>1. Head(todo[p].steps).do # "send"
          BY <3>4 DEF Succeeds, Doing, Fallible
        <5>2. m = Nothing
          BY <2>3, <3>2, <5>1 DEF CmdIInv, ScriptSteps
        <5>3. QED
          BY <5>2, NothingType, PlainTaken
      <4>3. Completes(S)'
        <5>1. CASE edit.pc = "command"
          BY <1>2, <1>6, <2>3, <3>1, <4>2, <5>1, ScriptGoesOn
        <5>2. CASE edit.pc # "command"
          BY <1>2, <1>6, <3>1, <5>2, BetweenCommands
        <5>3. QED
          BY <5>1, <5>2
      <4>4. QED
        BY <1>2, <1>6, <4>1, <4>3 DEF Agreed
    <3>5. QED
      BY <2>3, <3>3, <3>4
  <2>4. ~(p = Script /\ (Returns(p) \/ Forks(p)))
    BY DoingIs DEF Returns, Forks, ScriptDeeds
  <2>5. QED
    BY <2>1, <2>2, <2>3, <2>4 DEF Runs
<1>7. ASSUME gap PROVE Agreed'
  <2>1. gap'
    BY <1>7 DEF Runs, Sends, Succeeds, Fails, Returns, Forks
  <2>2. QED
    BY <2>1 DEF Agreed
<1>8. gap \/ \E S \in SUBSET Places : Leads(presets, mq, S) /\ Completes(S)
  BY DEF ListIInv, Agreed
<1>9. Agreed'
  BY <1>6, <1>7, <1>8
<1>10. QED
  BY <1>4, <1>5, <1>9 DEF ListIInv

(* The options of the script are accepted, a place there is not excepted.  *)
LEMMA NotRejected ==
    /\ ~Rejects(<<Flag("add_preset")>>) /\ ~Rejects(<<Flag("set_home_position")>>)
    /\ ~Rejects(<<Option("remove_preset", "all", 0)>>)
    /\ \A n \in Places : ~Rejects(<<Option("remove_preset", "number", n)>>)
<1>1. ASSUME NEW x, x.o \in ScriptOptions, Accepts(x) PROVE ~Rejects(<<x>>)
  <2>1. x.o # "help"
    BY <1>1 DEF ScriptOptions
  <2>2. <<x>> # <<>> /\ DOMAIN <<x>> = {1} /\ <<x>>[1] = x
    OBVIOUS
  <2>3. \A i \in DOMAIN <<x>> : <<x>>[i] = x
    BY <2>2
  <2>4. QED
    BY <1>1, <2>1, <2>2, <2>3 DEF Rejects
<1>2. Flag("add_preset").o \in ScriptOptions /\ Accepts(Flag("add_preset"))
  BY DEF Flag, Option, Accepts, OnOff, ScriptOptions
<1>3. Flag("set_home_position").o \in ScriptOptions /\ Accepts(Flag("set_home_position"))
  BY DEF Flag, Option, Accepts, OnOff, ScriptOptions
<1>4. /\ Option("remove_preset", "all", 0).o \in ScriptOptions
      /\ Accepts(Option("remove_preset", "all", 0))
  BY DEF Option, Accepts, OnOff, ScriptOptions
<1>5. \A n \in Places : /\ Option("remove_preset", "number", n).o \in ScriptOptions
                         /\ Accepts(Option("remove_preset", "number", n))
  BY DEF Option, Accepts, OnOff, ScriptOptions
<1>6. QED
  BY <1>1, <1>2, <1>3, <1>4, <1>5

LEMMA HaveSteps ==
    /\ Steps(Flag("add_preset")) # <<>> /\ Steps(Flag("set_home_position")) # <<>>
    /\ \A n : Steps(Option("remove_preset", "number", n)) # <<>>
    /\ Steps(Option("remove_preset", "all", 0)) # <<>>
<1>1. Steps(Flag("add_preset")) # <<>>
  BY ScriptOptionSteps
<1>2. Steps(Flag("set_home_position")) # <<>>
  BY ScriptOptionSteps DEF Home
<1>3. \A n : Steps(Option("remove_preset", "number", n)) # <<>>
  BY ScriptOptionSteps
<1>4. Steps(Option("remove_preset", "all", 0)) # <<>>
  <2>1. 1 \in 1..Cardinality(Places)
    BY PlacesType
  <2>2. DOMAIN Steps(Option("remove_preset", "all", 0)) = 1..Cardinality(Places)
    BY ScriptOptionSteps
  <2>3. DOMAIN <<>> = {}
    OBVIOUS
  <2>4. DOMAIN Steps(Option("remove_preset", "all", 0)) # {}
    BY <2>1, <2>2
  <2>5. QED
    BY ONLY <2>3, <2>4
<1>5. QED
  BY <1>1, <1>2, <1>3, <1>4

(* The script has changed the list and asks the camera to follow.          *)
LEMMA ListChanges ==
    ASSUME CmdIInv, ListIInv, edit.pc # "command",
           NEW x \in Message, x.o \in ScriptOptions,
           todo'[Script] = ProcessOf(<<x>>), \A q \in Procs : todo'[q] = todo[q],
           edit'.pc = "command", presets' = presets, mq' = mq, gap' = gap,
           \A i \in Places : list'[i] = "Home" => i = 0,
           \/ Rejects(<<x>>) /\ Named(list') = Named(list)
           \/ /\ ~Rejects(<<x>>) /\ Steps(x) # <<>>
              /\ Leads(Named(list), Msgs(Steps(x)), Named(list'))
    PROVE  ListIInv'
<1>1. OthersPlain'
  BY DEF OthersPlain, ListIInv
<1>2. NamesPlain'
  BY DEF NamesPlain
<1>3. ASSUME NEW CONSTANT S \in SUBSET Places, Leads(presets, mq, S), Completes(S)
      PROVE  Agreed'
  <2>1. S = Named(list)
    BY <1>3 DEF Completes
  <2>2. CASE Rejects(<<x>>) /\ Named(list') = Named(list)
    <3>1. todo'[Script] = NoProcess
      BY <2>2 DEF ProcessOf
    <3>2. Leads(S, Msgs(todo'[Script].steps), S) /\ DOMAIN todo'[Script].given = {}
      BY <3>1, NoProcessIs, MsgsOf, LeadsEmpty
    <3>3. Completes(S)'
      BY <2>1, <2>2, <3>2 DEF Completes, Named
    <3>4. QED
      BY <1>3, <3>3 DEF Agreed
  <2>3. CASE /\ ~Rejects(<<x>>) /\ Steps(x) # <<>>
             /\ Leads(Named(list), Msgs(Steps(x)), Named(list'))
    <3>1. Completes(S)'
      BY <2>1, <2>3, ScriptWillComplete
    <3>2. QED
      BY <1>3, <3>1 DEF Agreed
  <2>4. QED
    BY <2>2, <2>3
<1>4. ASSUME gap PROVE Agreed'
  BY <1>4 DEF Agreed
<1>5. gap \/ \E S \in SUBSET Places : Leads(presets, mq, S) /\ Completes(S)
  BY DEF ListIInv, Agreed
<1>6. Agreed'
  BY <1>3, <1>4, <1>5
<1>7. QED
  BY <1>1, <1>2, <1>6 DEF ListIInv

(* The list stays, and no command is under way before or after.            *)
LEMMA ListStays ==
    ASSUME ListIInv, list' = list, presets' = presets, mq' = mq, gap' = gap,
           \A q \in Procs : todo'[q] = todo[q],
           edit'.pc = "position" => edit'.n = -1 /\ edit'.name \notin {"", "Home"},
           \A S : Completes(S) => Completes(S)'
    PROVE  ListIInv'
<1>1. OthersPlain'
  BY DEF OthersPlain, ListIInv
<1>2. NamesPlain'
  BY DEF NamesPlain, ListIInv
<1>3. gap \/ \E S \in SUBSET Places : Leads(presets, mq, S) /\ Completes(S)
  BY DEF ListIInv, Agreed
<1>4. Agreed'
  BY <1>3 DEF Agreed
<1>5. QED
  BY <1>1, <1>2, <1>4 DEF ListIInv

(* What a change of the list leaves.                                       *)
LEMMA NamedWithout ==
    ASSUME NEW S
    PROVE  /\ Named(Without(S)) = Named(list) \ S
           /\ \A i \in Places : Without(S)[i] # "" => Without(S)[i] = list[i] /\ i \notin S
  BY DEF Named, Without

LEMMA ListAsked ==
    ASSUME PlainEdits, CmdIInv, ListIInv, NEW e \in Edits, Asked(e)
    PROVE  ListIInv'
<1>0. /\ list \in [Places -> Words] /\ edit.pc = "idle" /\ Named(list) \in SUBSET Places
      /\ presets' = presets /\ mq' = mq /\ gap' = gap /\ DOMAIN todo = All
  <2>1. edit = Idle
    BY DEF Asked
  <2>2. QED
    BY <2>1, EditType DEF CmdIInv, CommandsTypeOK, Asked, Named
<1>1. e.do \in {"add", "del", "all", "home"} /\ e.name \in Words /\ e.n \in Int
  BY CommandsAssumption
<1>2. \A i \in Places : list[i] = "Home" => i = 0
  BY DEF ListIInv, NamesPlain
<1>3. ASSUME NEW x, Commands(<<x>>)
      PROVE  /\ todo'[Script] = ProcessOf(<<x>>) /\ (\A q \in Procs : todo'[q] = todo[q])
             /\ edit'.pc = "command"
  <2>1. todo' = [todo EXCEPT ![Script] = ProcessOf(<<x>>)] /\ edit' = [edit EXCEPT !.pc = "command"]
    BY <1>3 DEF Commands
  <2>2. edit'.pc = "command"
    BY <2>1, EditType DEF CmdIInv, CommandsTypeOK, EditTypes
  <2>3. QED
    BY <1>0, <2>1, <2>2, CommandsAssumption DEF All
<1>4. CASE e.do = "add"
  <2>1. AddAsked(e.name, e.n)
    BY <1>4 DEF Asked
  <2>2. /\ edit'.pc = "position" /\ edit'.n = e.n /\ edit'.name = e.name /\ list' = list
        /\ todo' = [todo EXCEPT ![Script] = ProcessOf(<<Flag("get-pos")>>)]
    BY <2>1 DEF AddAsked
  <2>3. \A q \in Procs : todo'[q] = todo[q]
    BY <1>0, <2>2, CommandsAssumption DEF All
  <2>4. e.n = -1 /\ e.name \notin {"", "Home"}
    BY <1>4 DEF PlainEdits
  <2>5. \A S : Completes(S) => Completes(S)'
    BY <1>0, <2>2, BetweenCommands
  <2>6. QED
    BY <1>0, <2>2, <2>3, <2>4, <2>5, ListStays
<1>5. CASE e.do = "del"
  <2> DEFINE x == Option("remove_preset", "number", e.n)
  <2>1. list' = Without({e.n} \cap Places) /\ Commands(<<x>>)
    BY <1>5 DEF Asked, DelAsked
  <2>2. Named(list') = Named(list) \ {e.n} /\ \A i \in Places : list'[i] = "Home" => i = 0
    <3>1. Named(list') = Named(list) \ ({e.n} \cap Places)
      BY <2>1, NamedWithout
    <3>2. Named(list) \ ({e.n} \cap Places) = Named(list) \ {e.n}
      BY <1>0
    <3> DEFINE S == {e.n} \cap Places
    <3>3. \A i \in Places : Without(S)[i] # "" => Without(S)[i] = list[i]
      BY NamedWithout
    <3>4. list' = Without(S)
      BY <2>1
    <3> HIDE DEF S
    <3>5. \A i \in Places : list'[i] = "Home" => i = 0
      BY <1>2, <3>3, <3>4
    <3>6. QED
      BY <3>1, <3>2, <3>5
  <2>3. x \in Message /\ x.o \in ScriptOptions
    BY <1>1, ScriptAsksFor DEF ScriptOptions
  <2>4. Leads(Named(list), Msgs(Steps(x)), Named(list')) /\ Steps(x) # <<>>
    BY <1>0, <2>2, RemoveLeads, HaveSteps
  <2>5. Rejects(<<x>>) => Named(list') = Named(list)
    <3>1. Rejects(<<x>>) => e.n \notin Places
      BY NotRejected
    <3>2. QED
      BY <1>0, <2>2, <3>1
  <2>6. /\ todo'[Script] = ProcessOf(<<x>>) /\ (\A q \in Procs : todo'[q] = todo[q])
        /\ edit'.pc = "command"
    BY <1>3, <2>1
  <2> HIDE DEF x
  <2>7. QED
    BY <1>0, <2>2, <2>3, <2>4, <2>5, <2>6, ListChanges
<1>6. CASE e.do = "all"
  <2> DEFINE x == Option("remove_preset", "all", 0)
  <2>1. list' = Without(Places) /\ Commands(<<x>>)
    BY <1>6 DEF Asked, DelAsked
  <2>2. Named(list') = {} /\ \A i \in Places : list'[i] = "Home" => i = 0
    BY <1>0, <1>2, <2>1, NamedWithout
  <2>3. x \in Message /\ x.o \in ScriptOptions
    BY ScriptAsksFor DEF ScriptOptions
  <2>4. Leads(Named(list), Msgs(Steps(x)), Named(list')) /\ Steps(x) # <<>> /\ ~Rejects(<<x>>)
    BY <1>0, <2>2, RemoveAllLeads, HaveSteps, NotRejected
  <2>5. /\ todo'[Script] = ProcessOf(<<x>>) /\ (\A q \in Procs : todo'[q] = todo[q])
        /\ edit'.pc = "command"
    BY <1>3, <2>1
  <2> HIDE DEF x
  <2>6. QED
    BY <1>0, <2>2, <2>3, <2>4, <2>5, ListChanges
<1>7. CASE e.do = "home"
  <2> DEFINE x == Flag("set_home_position")
  <2> DEFINE l == Without({0})
  <2>1. /\ list' = IF \E i \in Places : l[i] = "Home" THEN l
                   ELSE [l EXCEPT ![FirstFree(Named(l))] = "Home"]
        /\ Commands(<<x>>)
    BY <1>7 DEF Asked, HomeAsked
  <2>2. /\ Named(l) = Named(list) \ {0} /\ l \in [Places -> Words]
        /\ \A i \in Places : l[i] # "" => l[i] = list[i] /\ i # 0
    BY NamedWithout, ListType
  <2> HIDE DEF l
  <2>3. \A i \in Places : l[i] # "Home"
    BY <1>2, <2>2
  <2>4. FirstFree(Named(l)) = 0
    BY <1>0, <2>2, FirstIsZero
  <2>5. list' = [l EXCEPT ![0] = "Home"] /\ 0 \in Places
    BY <2>1, <2>3, <2>4, PlacesType
  <2>6. Named(list') = Named(list) \cup {0} /\ \A i \in Places : list'[i] = "Home" => i = 0
    <3>1. \A i \in Places : list'[i] = IF i = 0 THEN "Home" ELSE l[i]
      BY <2>2, <2>5
    <3>2. \A i \in Places : i \in Named(l) <=> l[i] # ""
      BY DEF Named
    <3>3. \A i \in Places : i \in Named(list') <=> list'[i] # ""
      BY DEF Named
    <3>4. Named(list') \in SUBSET Places
      BY DEF Named
    <3>5. \A i \in Places : i \in Named(list') <=> i = 0 \/ i \in Named(list)
      BY <2>2, <3>1, <3>2, <3>3
    <3>6. Named(list') = Named(list) \cup {0}
      BY <1>0, <2>5, <3>4, <3>5
    <3>7. QED
      BY <2>3, <3>1, <3>6
  <2>7. x \in Message /\ x.o \in ScriptOptions
    BY ScriptAsksFor DEF ScriptOptions
  <2>8. Leads(Named(list), Msgs(Steps(x)), Named(list')) /\ Steps(x) # <<>> /\ ~Rejects(<<x>>)
    BY <1>0, <2>6, HomeLeads, HaveSteps, NotRejected
  <2>9. /\ todo'[Script] = ProcessOf(<<x>>) /\ (\A q \in Procs : todo'[q] = todo[q])
        /\ edit'.pc = "command"
    BY <1>3, <2>1
  <2> HIDE DEF x
  <2>10. QED
    BY <1>0, <2>6, <2>7, <2>8, <2>9, ListChanges
<1>8. QED
  BY <1>1, <1>4, <1>5, <1>6, <1>7

LEMMA ListPositioned ==
    ASSUME CmdIInv, ListIInv, Positioned
    PROVE  ListIInv'
<1>0. /\ list \in [Places -> Words] /\ edit.pc = "position" /\ Named(list) \in SUBSET Places
      /\ presets' = presets /\ mq' = mq /\ gap' = gap /\ DOMAIN todo = All
  BY DEF Positioned, CmdIInv, CommandsTypeOK, Named
<1>1. edit.n = -1 /\ edit.name \notin {"", "Home"} /\ \A i \in Places : list[i] = "Home" => i = 0
  BY <1>0 DEF ListIInv, NamesPlain
<1>2. CASE Refused
  <2>1. edit' = Idle /\ list' = list /\ todo' = todo
    BY <1>2 DEF Positioned
  <2>2. edit'.pc = "idle"
    BY <2>1, EditType
  <2>3. \A S : Completes(S) => Completes(S)'
    BY <1>0, <2>1, <2>2, BetweenCommands
  <2>4. QED
    BY <1>0, <2>1, <2>2, <2>3, ListStays
<1>3. CASE ~Refused
  <2> DEFINE x == Flag("add_preset")
  <2> DEFINE n == FirstFree(Named(list))
  <2>1. /\ list' = [i \in Places |-> IF i = n THEN edit.name ELSE list[i]]
        /\ Commands(<<x>>)
    BY <1>1, <1>3 DEF Positioned
  <2>2. Named(list) # Places
    BY <1>1, <1>3 DEF Refused
  <2>3. n \in Places
    BY <1>0, <2>2, FirstFreeIs
  <2> HIDE DEF n
  <2>4. Named(list') = Named(list) \cup {n} /\ \A i \in Places : list'[i] = "Home" => i = 0
    BY <1>0, <1>1, <2>1, <2>3 DEF Named
  <2>5. Leads(Named(list), Msgs(Steps(x)), Named(list')) /\ Steps(x) # <<>> /\ ~Rejects(<<x>>)
    BY <1>0, <2>2, <2>4, AddLeads, HaveSteps, NotRejected DEF n
  <2>6. x \in Message /\ x.o \in ScriptOptions
    BY ScriptAsksFor DEF ScriptOptions
  <2> HIDE DEF x
  <2>7. todo' = [todo EXCEPT ![Script] = ProcessOf(<<x>>)] /\ edit' = [edit EXCEPT !.pc = "command"]
    BY <2>1 DEF Commands
  <2>8. edit'.pc = "command"
    BY <2>7, EditType DEF CmdIInv, CommandsTypeOK, EditTypes
  <2>9. todo'[Script] = ProcessOf(<<x>>) /\ (\A q \in Procs : todo'[q] = todo[q])
    BY <1>0, <2>7, CommandsAssumption DEF All
  <2>10. QED
    BY <1>0, <2>4, <2>5, <2>6, <2>8, <2>9, ListChanges
<1>4. QED
  BY <1>2, <1>3

LEMMA ListStep ==
    ASSUME ScriptOnly, PlainEdits, CmdIInv, ListIInv, [CmdNext]_cmdVars
    PROVE  ListIInv'
<1>1. CASE CameraStarts \/ UNCHANGED cmdVars
  <2>1. /\ list' = list /\ presets' = presets /\ mq' = mq /\ gap' = gap /\ todo' = todo
        /\ edit' = edit
    BY <1>1 DEF CameraStarts, cmdVars
  <2>2. \A S : Completes(S) => Completes(S)'
    BY <2>1, OthersGoOn
  <2>3. edit'.pc = "position" => edit'.n = -1 /\ edit'.name \notin {"", "Home"}
    BY <2>1 DEF ListIInv, NamesPlain
  <2>4. QED
    BY <2>1, <2>2, <2>3, ListStays
<1>2. CASE Handle
  <2>1. /\ list' = list /\ gap' = gap /\ todo' = todo /\ edit' = edit
        /\ mq # <<>> /\ mq' = Tail(mq) /\ presets' = Taken(presets, Head(mq))
        /\ mq \in Seq(Valid)
    BY <1>2 DEF Handle, CmdIInv, CommandsTypeOK
  <2>2. OthersPlain' /\ NamesPlain'
    BY <2>1 DEF ListIInv, OthersPlain, NamesPlain
  <2>3. gap \/ \E S \in SUBSET Places : Leads(presets, mq, S) /\ Completes(S)
    BY DEF ListIInv, Agreed
  <2>4. ASSUME NEW CONSTANT S \in SUBSET Places, Leads(presets, mq, S), Completes(S)
        PROVE  Agreed'
    <3>1. Completes(S)'
      BY <2>1, <2>4, OthersGoOn
    <3>2. Leads(Taken(presets, Head(mq)), Tail(mq), S)
      BY <2>1, <2>4, LeadsHead
    <3>3. QED
      BY <2>1, <3>1, <3>2 DEF Agreed
  <2>5. ASSUME gap PROVE Agreed'
    BY <2>1, <2>5 DEF Agreed
  <2>6. Agreed'
    BY <2>3, <2>4, <2>5
  <2>7. QED
    BY <2>2, <2>6 DEF ListIInv
<1>3. CASE Positioned
  BY <1>3, ListPositioned
<1>4. CASE Finished
  <2>1. /\ list' = list /\ presets' = presets /\ mq' = mq /\ gap' = gap /\ todo' = todo
        /\ edit' = Idle /\ edit.pc = "command" /\ todo[Script] = NoProcess
    BY <1>4 DEF Finished
  <2>2. edit'.pc = "idle"
    BY <2>1, EditType
  <2>3. gap \/ \E S \in SUBSET Places : Leads(presets, mq, S) /\ Completes(S)
    BY DEF ListIInv, Agreed
  <2>4. ASSUME NEW CONSTANT S \in SUBSET Places, Leads(presets, mq, S), Completes(S)
        PROVE  Agreed'
    <3>1. PICK S2 \in SUBSET Places :
            Leads(S, Msgs(NoProcess.steps), S2) /\ (DOMAIN NoProcess.given = {} => S2 = Named(list))
      BY <2>1, <2>4 DEF Completes
    <3>2. S = Named(list)
      BY <3>1, NoProcessIs, MsgsOf, LeadsEmpty
    <3>3. Completes(S)'
      BY <2>1, <2>2, <3>2 DEF Completes, Named
    <3>4. QED
      BY <2>1, <2>4, <3>3 DEF Agreed
  <2>5. ASSUME gap PROVE Agreed'
    BY <2>1, <2>5 DEF Agreed
  <2>6. Agreed'
    BY <2>3, <2>4, <2>5
  <2>7. OthersPlain' /\ NamesPlain'
    BY <2>1, <2>2 DEF ListIInv, OthersPlain, NamesPlain
  <2>8. QED
    BY <2>6, <2>7 DEF ListIInv
<1>5. ASSUME NEW e \in Edits, Asked(e) PROVE ListIInv'
  BY <1>5, ListAsked
<1>6. ASSUME NEW p \in All, Runs(p) PROVE ListIInv'
  BY <1>6, ListRuns
<1>7. ASSUME NEW p \in Procs, NEW line \in Lines, Call(p, line) PROVE ListIInv'
  <2>1. /\ list' = list /\ presets' = presets /\ mq' = mq /\ gap' = gap /\ edit' = edit
        /\ todo' = [todo EXCEPT ![p] = ProcessOf(line)] /\ DOMAIN todo = All /\ p # Script
    BY <1>7, CommandsAssumption DEF Call, CmdIInv, CommandsTypeOK
  <2>2. todo'[Script] = todo[Script] /\ \A q \in Procs :
          todo'[q] = IF q = p THEN ProcessOf(line) ELSE todo[q]
    BY <2>1 DEF All
  <2>3. OthersPlain'
    BY <2>2, OthersStart DEF OthersPlain, ListIInv
  <2>4. NamesPlain'
    BY <2>1 DEF NamesPlain, ListIInv
  <2>5. gap \/ \E S \in SUBSET Places : Leads(presets, mq, S) /\ Completes(S)
    BY DEF ListIInv, Agreed
  <2>6. \A S : Completes(S) => Completes(S)'
    BY <2>1, <2>2, OthersGoOn
  <2>7. Agreed'
    BY <2>1, <2>5, <2>6 DEF Agreed
  <2>8. QED
    BY <2>3, <2>4, <2>7 DEF ListIInv
<1>8. QED
  BY <1>1, <1>2, <1>3, <1>4, <1>5, <1>6, <1>7 DEF CmdNext

(* The list of the presets and the camera agree about the places that are  *)
(* taken whenever all commands are handled and none of the script failed,  *)
(* for any number of places, edits and processes and whatever these send:  *)
(* the places the camera will have taken are always those the script has   *)
(* written down, although nobody tells it which ones it takes.             *)
THEOREM PresetsAgree ==
    ASSUME ScriptOnly, PlainEdits PROVE CmdSpec => []ListAgrees
<1>1. CmdIInv /\ ListIInv /\ [CmdNext]_cmdVars => ListIInv'
  BY ListStep
<1>2. ListIInv => ListAgrees
  <2> SUFFICES ASSUME ListIInv, edit = Idle, mq = <<>>, ~gap PROVE Named(list) = presets
    BY DEF ListAgrees
  <2>1. PICK S \in SUBSET Places : Leads(presets, mq, S) /\ Completes(S)
    BY DEF ListIInv, Agreed
  <2>2. S = Named(list)
    BY <2>1, EditType DEF Completes
  <2>3. S = presets
    BY <2>1 DEF Leads
  <2>4. QED
    BY <2>2, <2>3
<1>3. QED
  BY <1>1, <1>2, ListInit, CommandsInvariance, PTL DEF CmdSpec

-----------------------------------------------------------------------------
(* MCPrograms explores the three programs side by side; each of them takes *)
(* its own steps only, so what is proved of each one holds there too.      *)
LEMMA StepsOfEach ==
    [Next]_vars => [CmdNext]_cmdVars /\ [SetupNext]_setupVars /\ [SnapNext]_snapVars
  BY DEF Next, vars

(* In the run of all three the variables of ipc_cmd, of the script of the  *)
(* presets, of imggrabber and of thumb.sh have their types, whatever       *)
(* command lines, pids, files and rings there are.                         *)
THEOREM ProgramsTypeCorrect == FairSpec => []ProgramsTypeOK
<1>1. Init => CmdIInv /\ SnapIInv
  BY CmdInitIInv, SnapInitIInv DEF Init
<1>2. CmdIInv /\ [Next]_vars => CmdIInv'
  BY CmdStep, StepsOfEach
<1>3. SnapIInv /\ [Next]_vars => SnapIInv'
  BY StepsOfEach, SnapTypeStep, ExclusionStep DEF SnapIInv
<1>4. CmdIInv /\ SnapIInv => ProgramsTypeOK
  BY DEF ProgramsTypeOK, CmdIInv, SnapIInv
<1>5. QED
  BY <1>1, <1>2, <1>3, <1>4, PTL DEF FairSpec
===============================================================================
