---------------------------- MODULE SpeakerProofs ----------------------------
(***************************************************************************)
(* One object at most has the speaker, for any number of objects, packets  *)
(* and deaths of rRTSPServer.                                              *)
(***************************************************************************)
EXTENDS Speaker, TLAPS

(* An object is switched off by its thread only while it is on, and it     *)
(* cannot be switched on again before its semaphore is posted.             *)
OffIsOn ==
    \A s \in Speakers :
        /\ thr[s] \in {"offCounter", "offActive"} => active[s]
        /\ thr[s] = "post" => ~active[s]
        /\ onLoop = "setActive" /\ who = s => ~active[s] /\ thr[s] # "post"

(* A counter that is counted down is above 0: only the thread itself       *)
(* lowers it, and the event loop sets it to Full.                          *)
CountsDown ==
    \A s \in Speakers :
        /\ thr[s] = "sleep" /\ seen[s] > 0 => counter[s] > 0
        /\ thr[s] = "dec" => counter[s] > 0
        /\ thr[s] = "decWrite" => seen[s] > 0

(* Objects that are not there have no flag and no thread, and the event    *)
(* loop is in objects that are there.                                      *)
Lives ==
    /\ onLoop \in OnOpen => state[who] = "live"
    /\ onLoop = "deleting" => state[who] = "deleting"
    /\ \A s \in Speakers :
        /\ state[s] = "deleting" => onLoop = "deleting" /\ who = s
        /\ state[s] = "none" => thr[s] = "ended" /\ ~active[s]
        /\ thr[s] = "ended" => state[s] # "live"

IInv == SpeakerTypeOK /\ OneHolder /\ OffIsOn /\ CountsDown /\ Lives

-----------------------------------------------------------------------------
LEMMA InitIInv == SpeakerInit => IInv
<1> SUFFICES ASSUME SpeakerInit PROVE IInv
  OBVIOUS
<1>1. active \in [Speakers -> BOOLEAN] /\ gpio \in BOOLEAN
  BY DEF SpeakerInit
<1>2. SpeakerTypeOK
  BY <1>1, SpeakerAssumption DEF SpeakerInit, SpeakerTypeOK, ThrPcs
<1>3. OneHolder /\ OffIsOn /\ CountsDown
  BY DEF SpeakerInit, OneHolder, Holds, OffIsOn, CountsDown
<1>4. Lives
  BY DEF SpeakerInit, Lives, OnOpen
<1>5. QED
  BY <1>2, <1>3, <1>4 DEF IInv

-----------------------------------------------------------------------------
(* Every step keeps every variable in its type. Only a post could take the *)
(* semaphore above one, and who posts holds it.                            *)
LEMMA TypeStep == IInv /\ [SpeakerNext]_speakerVars => SpeakerTypeOK'
<1> SUFFICES ASSUME IInv, [SpeakerNext]_speakerVars PROVE SpeakerTypeOK'
  OBVIOUS
<1> USE SpeakerAssumption DEF IInv, SpeakerTypeOK, ThrPcs, OnOpen, OffOpen
<1>1. CASE SwitchOn
  <2>1. active' \in [Speakers -> BOOLEAN] /\ gpio' \in BOOLEAN
    BY <1>1 DEF SwitchOn, First, Second, Busy, TryWait, SetActive, SetCounter,
                IoctlOn, objVars
  <2>2. QED
    BY <1>1, <2>1 DEF SwitchOn, First, Second, Busy, TryWait, SetActive,
                      SetCounter, IoctlOn, At, objVars, boundVars
<1>2. CASE Deleted
  BY <1>2 DEF Deleted, At, boundVars
<1>3. CASE Kill
  BY <1>3 DEF Kill
<1>4. ASSUME NEW s \in Speakers, Client(s) PROVE SpeakerTypeOK'
  <2>1. active' \in [Speakers -> BOOLEAN] /\ gpio' \in BOOLEAN
    BY <1>4 DEF Client, MakeSpeaker, Packet, Delete, objVars
  <2>2. QED
    BY <1>4, <2>1 DEF Client, MakeSpeaker, Packet, Delete, objVars, loopVars, boundVars
<1>5. ASSUME NEW s \in Speakers, Thread(s), ~DecWrite(s), ~Post(s) PROVE SpeakerTypeOK'
  <2>1. active' \in [Speakers -> BOOLEAN] /\ gpio' \in BOOLEAN
    BY <1>5 DEF Thread, Exit, Look, Wake, DecRead, OffBegin, OffCheck,
                OffCounter, OffActive, IoctlOff, Reset
  <2>2. QED
    BY <1>5, <2>1 DEF Thread, Exit, Look, Wake, DecRead, OffBegin, OffCheck,
                      OffCounter, OffActive, IoctlOff, Reset, Move, loopVars,
                      boundVars
<1>6. ASSUME NEW s \in Speakers, DecWrite(s) PROVE SpeakerTypeOK'
  BY <1>6 DEF DecWrite, CountsDown, Move, loopVars, boundVars
<1>7. ASSUME NEW s \in Speakers, Post(s) PROVE SpeakerTypeOK'
  BY <1>7 DEF Post, OneHolder, Holds, Move, loopVars, boundVars
<1>8. CASE UNCHANGED speakerVars
  BY <1>8 DEF speakerVars, objVars, loopVars, boundVars
<1>9. QED
  BY <1>1, <1>2, <1>3, <1>4, <1>5, <1>6, <1>7, <1>8 DEF SpeakerNext

-----------------------------------------------------------------------------
(* Who has the speaker changes when it is taken, posted, or freed.         *)
LEMMA HolderStep == IInv /\ [SpeakerNext]_speakerVars => OneHolder'
<1> SUFFICES ASSUME IInv, [SpeakerNext]_speakerVars PROVE OneHolder'
  OBVIOUS
<1> USE DEF IInv, SpeakerTypeOK, OneHolder, Holds
<1>1. CASE SwitchOn
  BY <1>1 DEF SwitchOn, First, Second, Busy, TryWait, SetActive, SetCounter,
              IoctlOn, At, objVars
<1>2. CASE Deleted
  BY <1>2 DEF Deleted, At
<1>3. CASE Kill
  BY <1>3 DEF Kill
<1>4. ASSUME NEW s \in Speakers, Client(s) PROVE OneHolder'
  BY <1>4 DEF Client, MakeSpeaker, Packet, Delete, objVars, loopVars
<1>5. ASSUME NEW s \in Speakers, Thread(s), ~OffActive(s), ~Post(s) PROVE OneHolder'
  BY <1>5 DEF Thread, Exit, Look, Wake, DecRead, DecWrite, OffBegin, OffCheck,
              OffCounter, IoctlOff, Reset, Move, loopVars
<1>6. ASSUME NEW s \in Speakers, OffActive(s) PROVE OneHolder'
  BY <1>6 DEF OffActive, OffIsOn, Move, loopVars
<1>7. ASSUME NEW s \in Speakers, Post(s) PROVE OneHolder'
  BY <1>7 DEF Post, OffIsOn, Move, loopVars
<1>8. CASE UNCHANGED speakerVars
  BY <1>8 DEF speakerVars, objVars, loopVars
<1>9. QED
  BY <1>1, <1>2, <1>3, <1>4, <1>5, <1>6, <1>7, <1>8 DEF SpeakerNext

LEMMA OffStep == IInv /\ [SpeakerNext]_speakerVars => OffIsOn'
<1> SUFFICES ASSUME IInv, [SpeakerNext]_speakerVars PROVE OffIsOn'
  OBVIOUS
<1> USE DEF IInv, SpeakerTypeOK, OffIsOn
<1>1. CASE SwitchOn
  BY <1>1 DEF SwitchOn, First, Second, Busy, TryWait, SetActive, SetCounter,
              IoctlOn, At, objVars, OneHolder, Holds
<1>2. CASE Deleted
  BY <1>2 DEF Deleted, At
<1>3. CASE Kill
  BY <1>3 DEF Kill
<1>4. ASSUME NEW s \in Speakers, Client(s) PROVE OffIsOn'
  BY <1>4 DEF Client, MakeSpeaker, Packet, Delete, objVars, loopVars
<1>5. ASSUME NEW s \in Speakers, Thread(s) PROVE OffIsOn'
  BY <1>5 DEF Thread, Exit, Look, Wake, DecRead, DecWrite, OffBegin, OffCheck,
              OffCounter, OffActive, Post, IoctlOff, Reset, Move, loopVars,
              OneHolder, Holds
<1>6. CASE UNCHANGED speakerVars
  BY <1>6 DEF speakerVars, objVars, loopVars
<1>7. QED
  BY <1>1, <1>2, <1>3, <1>4, <1>5, <1>6 DEF SpeakerNext

LEMMA CountsStep == IInv /\ [SpeakerNext]_speakerVars => CountsDown'
<1> SUFFICES ASSUME IInv, [SpeakerNext]_speakerVars PROVE CountsDown'
  OBVIOUS
<1> USE SpeakerAssumption DEF IInv, SpeakerTypeOK, CountsDown
<1>1. CASE SwitchOn
  BY <1>1 DEF SwitchOn, First, Second, Busy, TryWait, SetActive, SetCounter,
              IoctlOn, At, objVars
<1>2. CASE Deleted
  BY <1>2 DEF Deleted, At
<1>3. CASE Kill
  BY <1>3 DEF Kill
<1>4. ASSUME NEW s \in Speakers, Client(s) PROVE CountsDown'
  BY <1>4 DEF Client, MakeSpeaker, Packet, Delete, objVars
<1>5. ASSUME NEW s \in Speakers, Thread(s) PROVE CountsDown'
  BY <1>5 DEF Thread, Exit, Look, Wake, DecRead, DecWrite, OffBegin, OffCheck,
              OffCounter, OffActive, Post, IoctlOff, Reset, Move
<1>6. CASE UNCHANGED speakerVars
  BY <1>6 DEF speakerVars, objVars
<1>7. QED
  BY <1>1, <1>2, <1>3, <1>4, <1>5, <1>6 DEF SpeakerNext

LEMMA LivesStep == IInv /\ [SpeakerNext]_speakerVars => Lives'
<1> SUFFICES ASSUME IInv, [SpeakerNext]_speakerVars PROVE Lives'
  OBVIOUS
<1> USE DEF IInv, SpeakerTypeOK, Lives, OnOpen
<1>1. CASE SwitchOn
  BY <1>1 DEF SwitchOn, First, Second, Busy, TryWait, SetActive, SetCounter,
              IoctlOn, At, objVars
<1>2. CASE Deleted
  BY <1>2 DEF Deleted, At
<1>3. CASE Kill
  BY <1>3 DEF Kill
<1>4. ASSUME NEW s \in Speakers, Client(s) PROVE Lives'
  BY <1>4 DEF Client, MakeSpeaker, Packet, Delete, objVars, loopVars
<1>5. ASSUME NEW s \in Speakers, Thread(s) PROVE Lives'
  BY <1>5 DEF Thread, Exit, Look, Wake, DecRead, DecWrite, OffBegin, OffCheck,
              OffCounter, OffActive, Post, IoctlOff, Reset, Move, loopVars
<1>6. CASE UNCHANGED speakerVars
  BY <1>6 DEF speakerVars, objVars, loopVars
<1>7. QED
  BY <1>1, <1>2, <1>3, <1>4, <1>5, <1>6 DEF SpeakerNext

-----------------------------------------------------------------------------
(* The inductive invariant of the objects, their threads and the event     *)
(* loop in switchSpeaker and ~Speaker.                                     *)
THEOREM Invariance == SpeakerSpec => []IInv
<1>1. SpeakerInit => IInv
  BY InitIInv
<1>2. IInv /\ [SpeakerNext]_speakerVars => IInv'
  BY TypeStep, HolderStep, OffStep, CountsStep, LivesStep DEF IInv
<1>3. QED
  BY <1>1, <1>2, PTL DEF SpeakerSpec

(* Every variable stays in its type: no counter falls below -1, and the    *)
(* semaphore is never posted above one.                                    *)
THEOREM TypeCorrect == SpeakerSpec => []SpeakerTypeOK
<1>1. IInv => SpeakerTypeOK
  BY DEF IInv
<1>2. QED
  BY <1>1, Invariance, PTL

(* One object at most has the speaker, through switchSpeaker of two        *)
(* threads without a lock, deletions and deaths of rRTSPServer.            *)
THEOREM OneHolderAlways == SpeakerSpec => []OneHolder
<1>1. IInv => OneHolder
  BY DEF IInv
<1>2. QED
  BY <1>1, Invariance, PTL
=============================================================================
