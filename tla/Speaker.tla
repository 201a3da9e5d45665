------------------------------- MODULE Speaker -------------------------------
(***************************************************************************)
(* The speaker of the camera, which the back channels of rRTSPServer share. *)
(*                                                                         *)
(* Every sink of a back channel has a Speaker.  The event loop calls       *)
(* switchSpeaker(SPEAKER_ON) for each packet; a thread of the object       *)
(* counts down 100 ms at a time and calls switchSpeaker(SPEAKER_OFF) when  *)
(* a second has passed without one.  A named semaphore, which outlives the *)
(* process, lets one object at a time switch on; no lock guards fIsActive, *)
(* the counter or the GPIO.                                                *)
(*                                                                         *)
(* Assumed: a thread notices fExitThread while the destructor sleeps, as   *)
(* long as the thread itself does (100 ms).                                *)
(***************************************************************************)
EXTENDS Integers, FiniteSets

CONSTANTS Speakers,     \* the objects: one for each sink
          Full,         \* SPEAKER_MAX_VALUE in steps of 100 ms: 10
          MaxFds,       \* descriptors the process may have open
          MaxPackets,   \* bound: packets of audio
          MaxKills      \* bound: times rRTSPServer is killed

ASSUME SpeakerAssumption == /\ IsFiniteSet(Speakers)
                            /\ Full \in Nat \ {0} /\ MaxFds \in Nat \ {0}
                            /\ MaxPackets \in Nat /\ MaxKills \in Nat

VARIABLES sem,       \* the semaphore SEM_FILE
          gpio,      \* the speaker is on
          state,     \* "none", "live", or "deleting": fExitThread is set
          active,    \* fIsActive
          counter,   \* fSpeakerCounter
          thr,       \* where the thread of an object is
          seen,      \* c, and the counter the thread subtracts from
          onLoop,    \* where the event loop is in switchSpeaker or ~Speaker
          who,       \* the object it is there for
          leaked,    \* descriptors of CPLD_DEV nobody closes
          packets, kills

objVars == <<state, active, counter>>
loopVars == <<onLoop, who>>
boundVars == <<packets, kills>>
speakerVars == <<sem, gpio, objVars, thr, seen, loopVars, leaked, boundVars>>

OnOpen == {"first", "second", "wait", "setActive", "setCounter", "ioctlOn"}
OffOpen == {"check", "offCounter", "offActive", "post", "ioctlOff"}

(* openCpld finds a free descriptor.                                       *)
OpenFds == leaked + Cardinality({s \in Speakers : thr[s] \in OffOpen})
                  + (IF onLoop \in OnOpen THEN 1 ELSE 0)
CanOpen == OpenFds < MaxFds

SpeakerInit == /\ sem = 1 /\ gpio = FALSE
               /\ state = [s \in Speakers |-> "none"]
               /\ active = [s \in Speakers |-> FALSE]
               /\ counter = [s \in Speakers |-> -1]
               /\ thr = [s \in Speakers |-> "ended"]
               /\ seen = [s \in Speakers |-> -1]
               /\ onLoop = "idle" /\ who \in Speakers
               /\ leaked = 0 /\ packets = 0 /\ kills = 0

-----------------------------------------------------------------------------
(* The event loop. *)

(* A back channel is set up: the sink is made, and its Speaker.            *)
MakeSpeaker(s) == /\ onLoop = "idle"
                  /\ state[s] = "none"
                  /\ state' = [state EXCEPT ![s] = "live"]
                  /\ active' = [active EXCEPT ![s] = FALSE]
                  /\ counter' = [counter EXCEPT ![s] = -1]
                  /\ thr' = [thr EXCEPT ![s] = "test"]
                  /\ UNCHANGED <<sem, gpio, seen, loopVars, leaked, boundVars>>

(* A packet: switchSpeaker(SPEAKER_ON) begins, or cannot open the device.  *)
Packet(s) == /\ onLoop = "idle"
             /\ state[s] = "live"
             /\ packets < MaxPackets
             /\ packets' = packets + 1
             /\ who' = s
             /\ onLoop' = IF CanOpen THEN "first" ELSE "idle"
             /\ UNCHANGED <<sem, gpio, objVars, thr, seen, leaked, kills>>

At(from, to) == onLoop = from /\ onLoop' = to /\ UNCHANGED <<who, boundVars>>

(* fIsActive is read, and read again in the else-if.                       *)
First == /\ At("first", IF active[who] THEN "second" ELSE "wait")
         /\ UNCHANGED <<sem, gpio, objVars, thr, seen, leaked>>

Second == /\ At("second", IF active[who] THEN "setCounter" ELSE "idle")
          /\ UNCHANGED <<sem, gpio, objVars, thr, seen, leaked>>

(* "Speaker is busy": the descriptor stays open.                           *)
Busy == /\ At("wait", "idle")
        /\ sem = 0
        /\ leaked' = leaked + 1
        /\ UNCHANGED <<sem, gpio, objVars, thr, seen>>

(* Definitions named Mut... are faults a change could bring in; the runs   *)
(* show which property each of them breaks.                                *)
MutTryWait == /\ At("wait", "setActive")
              /\ sem > 0
              /\ UNCHANGED <<sem, gpio, objVars, thr, seen, leaked>>

TryWait == /\ At("wait", "setActive")
           /\ sem > 0
           /\ sem' = sem - 1
           /\ UNCHANGED <<gpio, objVars, thr, seen, leaked>>

SetActive == /\ At("setActive", "setCounter")
             /\ active' = [active EXCEPT ![who] = TRUE]
             /\ UNCHANGED <<sem, gpio, state, counter, thr, seen, leaked>>

SetCounter == /\ At("setCounter", "ioctlOn")
              /\ counter' = [counter EXCEPT ![who] = Full]
              /\ UNCHANGED <<sem, gpio, state, active, thr, seen, leaked>>

IoctlOn == /\ At("ioctlOn", "idle")
           /\ gpio' = TRUE
           /\ UNCHANGED <<sem, objVars, thr, seen, leaked>>

(* The sink is closed, because its output closed or after the DESCRIBE it  *)
(* was made for: ~Speaker sets fExitThread, sleeps and frees.              *)
Delete(s) == /\ onLoop = "idle"
             /\ state[s] = "live"
             /\ state' = [state EXCEPT ![s] = "deleting"]
             /\ onLoop' = "deleting" /\ who' = s
             /\ UNCHANGED <<sem, gpio, active, counter, thr, seen, leaked, boundVars>>

Deleted == /\ At("deleting", "idle")
           /\ thr[who] = "ended"
           /\ state' = [state EXCEPT ![who] = "none"]
           /\ active' = [active EXCEPT ![who] = FALSE]
           /\ counter' = [counter EXCEPT ![who] = -1]
           /\ UNCHANGED <<sem, gpio, thr, seen, leaked>>

-----------------------------------------------------------------------------
(* The thread of an object: speaker(). *)

Move(s, from, to) == /\ thr[s] = from
                     /\ thr' = [thr EXCEPT ![s] = to]
                     /\ UNCHANGED <<state, loopVars, leaked, boundVars>>

Exit(s) == /\ state[s] = "deleting"
           /\ Move(s, "test", "ended")
           /\ UNCHANGED <<sem, gpio, active, counter, seen>>

Look(s) == /\ state[s] = "live"
           /\ Move(s, "test", "sleep")
           /\ seen' = [seen EXCEPT ![s] = counter[s]]
           /\ UNCHANGED <<sem, gpio, active, counter>>

MutWake(s) == /\ Move(s, "sleep", IF seen[s] >= 0 THEN "dec" ELSE "test")
              /\ UNCHANGED <<sem, gpio, active, counter, seen>>

(* What it has seen before it slept decides.                               *)
Wake(s) == /\ Move(s, "sleep", CASE seen[s] = 0 -> "off"
                                 [] seen[s] > 0 -> "dec"
                                 [] OTHER -> "test")
           /\ UNCHANGED <<sem, gpio, active, counter, seen>>

DecRead(s) == /\ Move(s, "dec", "decWrite")
              /\ seen' = [seen EXCEPT ![s] = counter[s]]
              /\ UNCHANGED <<sem, gpio, active, counter>>

DecWrite(s) == /\ Move(s, "decWrite", "test")
               /\ counter' = [counter EXCEPT ![s] = seen[s] - 1]
               /\ UNCHANGED <<sem, gpio, active, seen>>

(* switchSpeaker(SPEAKER_OFF)                                              *)
OffBegin(s) == /\ Move(s, "off", IF CanOpen THEN "check" ELSE "reset")
               /\ UNCHANGED <<sem, gpio, active, counter, seen>>

OffCheck(s) == /\ Move(s, "check", IF active[s] THEN "offCounter" ELSE "reset")
               /\ UNCHANGED <<sem, gpio, active, counter, seen>>

OffCounter(s) == /\ Move(s, "offCounter", "offActive")
                 /\ counter' = [counter EXCEPT ![s] = -1]
                 /\ UNCHANGED <<sem, gpio, active, seen>>

OffActive(s) == /\ Move(s, "offActive", "post")
                /\ active' = [active EXCEPT ![s] = FALSE]
                /\ UNCHANGED <<sem, gpio, counter, seen>>

Post(s) == /\ Move(s, "post", "ioctlOff")
           /\ sem' = sem + 1
           /\ UNCHANGED <<gpio, active, counter, seen>>

IoctlOff(s) == /\ Move(s, "ioctlOff", "reset")
               /\ gpio' = FALSE
               /\ UNCHANGED <<sem, active, counter, seen>>

(* setCounter(-1), whatever has happened since.                            *)
Reset(s) == /\ Move(s, "reset", "test")
            /\ counter' = [counter EXCEPT ![s] = -1]
            /\ UNCHANGED <<sem, gpio, active, seen>>

-----------------------------------------------------------------------------
(* rRTSPServer is killed; the semaphore and the GPIO stay as they are.     *)
Kill == /\ kills < MaxKills
        /\ kills' = kills + 1
        /\ state' = [s \in Speakers |-> "none"]
        /\ active' = [s \in Speakers |-> FALSE]
        /\ counter' = [s \in Speakers |-> -1]
        /\ thr' = [s \in Speakers |-> "ended"]
        /\ seen' = [s \in Speakers |-> -1]
        /\ onLoop' = "idle"
        /\ leaked' = 0
        /\ UNCHANGED <<sem, gpio, who, packets>>

SwitchOn == First \/ Second \/ Busy \/ TryWait \/ SetActive \/ SetCounter \/ IoctlOn

Client(s) == MakeSpeaker(s) \/ Packet(s) \/ Delete(s)

Thread(s) == \/ Exit(s) \/ Look(s) \/ Wake(s) \/ DecRead(s) \/ DecWrite(s)
             \/ OffBegin(s) \/ OffCheck(s) \/ OffCounter(s) \/ OffActive(s)
             \/ Post(s) \/ IoctlOff(s) \/ Reset(s)

SpeakerNext == \/ SwitchOn \/ Deleted \/ Kill
               \/ \E s \in Speakers : Client(s) \/ Thread(s)

SpeakerSpec == SpeakerInit /\ [][SpeakerNext]_speakerVars

(* Both kinds of thread run; clients need not do anything.                 *)
SpeakerFairness == /\ WF_speakerVars(SwitchOn) /\ WF_speakerVars(Deleted)
                   /\ \A s \in Speakers : WF_speakerVars(Thread(s))

-----------------------------------------------------------------------------
ThrPcs == {"ended", "test", "sleep", "dec", "decWrite", "off", "reset"} \cup OffOpen

(* Every variable stays in its type; the semaphore is never posted above   *)
(* one, by a thread that switches off what is off already.                 *)
SpeakerTypeOK == /\ sem \in {0, 1} /\ gpio \in BOOLEAN
                 /\ state \in [Speakers -> {"none", "live", "deleting"}]
                 /\ active \in [Speakers -> BOOLEAN]
                 /\ counter \in [Speakers -> -1..Full]
                 /\ thr \in [Speakers -> ThrPcs]
                 /\ seen \in [Speakers -> -1..Full]
                 /\ onLoop \in OnOpen \cup {"idle", "deleting"} /\ who \in Speakers
                 /\ leaked \in Nat /\ packets \in 0..MaxPackets /\ kills \in 0..MaxKills

(* The object that has taken the semaphore and not posted it.              *)
Holds(s) == active[s] \/ thr[s] = "post" \/ (onLoop = "setActive" /\ who = s)

(* One object at most has the speaker, and then nobody can take it, though *)
(* the flags are written by two threads without a lock.                    *)
OneHolder == /\ \A s, t \in Speakers : Holds(s) /\ Holds(t) => s = t
             /\ sem = 1 => \A s \in Speakers : ~Holds(s)

(* An object whose counter runs is switched off after the last packet,     *)
(* unless it is deleted, or the packets of another client, refused, have   *)
(* used up the descriptors.                                                *)
Counting(s) == /\ state[s] = "live" /\ active[s] /\ counter[s] > 0
               /\ thr[s] \in {"test", "sleep", "dec", "decWrite"}
RunsDown == \A s \in Speakers :
    Counting(s) ~> (~active[s] \/ state[s] # "live" \/ ~CanOpen)

(* "If semaphore is locked, exit", "Speaker is busy": who is turned away   *)
(* is turned away because another object has the speaker.                  *)
BusyIsInUse == sem = 0 => \E s \in Speakers : Holds(s)
=============================================================================
