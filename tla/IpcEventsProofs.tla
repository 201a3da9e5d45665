--------------------------- MODULE IpcEventsProofs ---------------------------
(***************************************************************************)
(* One reader at a time, no hidden alarm, no stale event and no event out  *)
(* of order, for any number of processes, queues and messages.             *)
(***************************************************************************)
EXTENDS IpcEvents, SequenceTheorems, TLAPS

Starting(p) == pc[p] \in {"checkPid", "createPid"}
Inside(p) == pc[p] \in {"clear", "clearTake", "loop", "receive", "handle", "unlink"}

(* The pid file names the process that is inside; one that has found no    *)
(* other alive is alone until it has written it; two never start at once.  *)
PidFileRight ==
    /\ \A p \in Procs : Inside(p) => pidFile = p
    /\ \A p, q \in Procs : pc[p] = "createPid" => ~Inside(q)
    /\ \A p, q \in Procs : Starting(p) /\ Starting(q) => p = q

(* A process that is not inside yet has seen no alarm.                     *)
FreshStart == \A p \in Procs :
    pc[p] \in {"off", "checkPid", "createPid"} => last[p] = None

IInv == TypeOK /\ PidFileRight /\ FreshStart /\ LastAlarmShown

-----------------------------------------------------------------------------
LEMMA QueueSteps ==
    ASSUME NEW S, NEW s \in Seq(S), NEW e \in S
    PROVE  /\ Append(s, e) \in Seq(S) /\ Len(Append(s, e)) = Len(s) + 1
           /\ s # <<>> => /\ Head(s) \in S /\ Tail(s) \in Seq(S)
                          /\ Len(Tail(s)) = Len(s) - 1
  BY AppendProperties

LEMMA InitIInv == Init => IInv
<1> SUFFICES ASSUME Init PROVE IInv
  OBVIOUS
<1>1. mq \in [Queues -> Seq(Messages)] /\ \A q \in Queues : Len(mq[q]) <= MaxMsg
  BY QueueAssumption DEF Init
<1>2. exitMain \in [Procs -> BOOLEAN]
  BY DEF Init
<1>3. TypeOK
  BY <1>1, <1>2, QueueAssumption DEF Init, TypeOK, Pcs, Queues
<1>4. QED
  BY <1>3, NameAssumption
  DEF Init, IInv, PidFileRight, FreshStart, LastAlarmShown, Inside, Starting, Kinds,
      Serving, Alive

-----------------------------------------------------------------------------
(* Every step keeps every variable in its type.                            *)
LEMMA TypeStep == TypeOK /\ [Next]_vars => TypeOK'
<1> SUFFICES ASSUME TypeOK, [Next]_vars PROVE TypeOK'
  OBVIOUS
<1> USE DEF TypeOK, Pcs, Goto
<1>1. ASSUME NEW k \in Kinds, Receive(k) PROVE TypeOK'
  <2>1. held' \in Messages
    BY <1>1, QueueAssumption DEF Receive, Messages
  <2>2. sent' \in 0..MaxSent /\ at' \in Queues
    BY <1>1, QueueAssumption DEF Receive, Queues
  <2>3. QED
    BY <1>1, <2>1, <2>2 DEF Receive, procVars
<1>2. CASE Forward
  <2>1. held \in Messages
    BY <1>2 DEF Forward
  <2>2. /\ mq' \in [Queues -> Seq(Messages)]
        /\ \A q \in Queues : Len(mq'[q]) <= MaxMsg
    BY <1>2, <2>1, QueueSteps, QueueAssumption DEF Forward
  <2>3. held' \in Messages \cup {NoMsg} /\ at' \in Queues
    BY <1>2, QueueAssumption DEF Forward, Queues
  <2>4. QED
    BY <1>2, <2>2, <2>3 DEF Forward, procVars
<1>3. ASSUME NEW p \in Procs, Start(p) \/ CheckPid(p) \/ ClearLook(p) \/ Loop(p)
      PROVE  TypeOK'
  BY <1>3 DEF Start, CheckPid, ClearLook, Loop, dispatchVars
<1>4. ASSUME NEW p \in Procs, Signal(p) PROVE TypeOK'
  <2>1. exitMain' \in [Procs -> BOOLEAN]
    BY <1>4 DEF Signal
  <2>2. QED
    BY <1>4, <2>1 DEF Signal, dispatchVars
<1>5. ASSUME NEW p \in Procs, Die(p) \/ Unlink(p) PROVE TypeOK'
  <2>1. timers' = [timers EXCEPT ![p] = 0] /\ pc' = [pc EXCEPT ![p] = "gone"]
    BY <1>5 DEF Die, Unlink
  <2>2. timers' \in [Procs -> Nat] /\ pc' \in [Procs -> Pcs]
    BY <2>1
  <2>3. pidFile' \in Procs \cup {None}
    BY <1>5 DEF Die, Unlink
  <2>4. QED
    BY <1>5, <2>2, <2>3 DEF Die, Unlink, dispatchVars
<1>6. ASSUME NEW p \in Procs, SoundStop(p) PROVE TypeOK'
  BY <1>6 DEF SoundStop, dispatchVars
<1>7. ASSUME NEW p \in Procs, CreatePid(p) PROVE TypeOK'
  <2>1. mq[Reader] \in Seq(Messages)
    BY QueueAssumption
  <2>2. mq[Reader] # <<>> => mq[Reader][Len(mq[Reader])] \in Messages
    BY <2>1
  <2>3. boot' \in [Procs -> 0..MaxSent]
    BY <1>7, <2>2, QueueAssumption DEF CreatePid, Messages
  <2>4. QED
    BY <1>7, <2>3 DEF CreatePid, dispatchVars
<1>8. ASSUME NEW p \in Procs, InitFails(p) PROVE TypeOK'
  BY <1>8 DEF InitFails, dispatchVars
<1>9. ASSUME NEW p \in Procs, ClearTake(p) \/ Take(p) PROVE TypeOK'
  <2>1. mq[Reader] \in Seq(Messages) /\ mq[Reader] # <<>>
    BY <1>9, QueueAssumption DEF ClearTake, Take
  <2>2. /\ Head(mq[Reader]) \in Messages
        /\ Tail(mq[Reader]) \in Seq(Messages)
        /\ Len(Tail(mq[Reader])) = Len(mq[Reader]) - 1
    BY <2>1
  <2>3. /\ mq' \in [Queues -> Seq(Messages)]
        /\ \A q \in Queues : Len(mq'[q]) <= MaxMsg
    <3>1. mq' = [mq EXCEPT ![Reader] = Tail(mq[Reader])]
      BY <1>9 DEF ClearTake, Take
    <3>2. Len(mq[Reader]) \in Nat /\ Len(mq[Reader]) <= MaxMsg
      BY <2>1, QueueAssumption
    <3>3. Len(Tail(mq[Reader])) <= MaxMsg
      BY <2>2, <3>2, QueueAssumption
    <3>4. QED
      BY <2>2, <3>1, <3>3
  <2>4. QED
    BY <1>9, <2>2, <2>3 DEF ClearTake, Take, dispatchVars
<1>10. ASSUME NEW p \in Procs,
              HandleAlarm(p) \/ HandleSound(p) \/ HandleFails(p) \/ HandleStop(p) \/ HandleOther(p)
       PROVE  TypeOK'
  <2>1. files' \subseteq Alarms \cup {Sound}
    BY <1>10 DEF HandleAlarm, HandleSound, HandleFails, HandleStop, HandleOther
  <2>2. last' \in [Procs -> Alarms \cup {Stop, None}]
    BY <1>10 DEF HandleAlarm, HandleSound, HandleFails, HandleStop, HandleOther
  <2>3. timers' \in [Procs -> Nat]
    BY <1>10 DEF HandleAlarm, HandleSound, HandleFails, HandleStop, HandleOther
  <2>4. pc' \in [Procs -> Pcs]
    BY <1>10 DEF HandleAlarm, HandleSound, HandleFails, HandleStop, HandleOther
  <2>5. QED
    BY <1>10, <2>1, <2>2, <2>3, <2>4
    DEF HandleAlarm, HandleSound, HandleFails, HandleStop, HandleOther, dispatchVars
<1>11. CASE UNCHANGED vars
  BY <1>11 DEF vars, dispatchVars, procVars
<1>12. QED
  BY <1>1, <1>2, <1>3, <1>4, <1>5, <1>6, <1>7, <1>8, <1>9, <1>10, <1>11
  DEF Next, Multiplex, Run

(* What a step does to the program counters and the pid file.              *)
LEMMA PidStep == TypeOK /\ PidFileRight /\ [Next]_vars => PidFileRight'
<1> SUFFICES ASSUME TypeOK, PidFileRight, [Next]_vars PROVE PidFileRight'
  OBVIOUS
<1>0. pc \in [Procs -> Pcs]
  BY DEF TypeOK
<1> USE <1>0 DEF PidFileRight, Inside, Starting, Pcs, Goto
<1>1. CASE UNCHANGED <<pc, pidFile>>
  BY <1>1
<1>2. ASSUME NEW p \in Procs, Start(p) PROVE PidFileRight'
  BY <1>2 DEF Start
<1>3. ASSUME NEW p \in Procs, CheckPid(p) PROVE PidFileRight'
  <2>1. CASE pc'[p] = "refused"
    BY <1>3, <2>1 DEF CheckPid
  <2>2. CASE pc'[p] = "createPid"
    <3>1. pidFile = None \/ ~Alive(pidFile)
      BY <1>3, <2>2 DEF CheckPid
    <3>2. \A q \in Procs : ~Inside(q)
      BY <3>1, NameAssumption DEF Alive
    <3>3. QED
      BY <1>3, <2>2, <3>2 DEF CheckPid
  <2>3. QED
    BY <1>3, <2>1, <2>2 DEF CheckPid
<1>4. ASSUME NEW p \in Procs, CreatePid(p) \/ InitFails(p) PROVE PidFileRight'
  BY <1>4 DEF CreatePid, InitFails
<1>5. ASSUME NEW p \in Procs, Die(p) PROVE PidFileRight'
  BY <1>5 DEF Die
<1>6. ASSUME NEW p \in Procs, Unlink(p) PROVE PidFileRight'
  BY <1>6, NameAssumption DEF Unlink
<1>7. ASSUME NEW p \in Procs,
             \/ ClearLook(p) \/ ClearTake(p) \/ Loop(p) \/ Take(p)
             \/ HandleAlarm(p) \/ HandleSound(p) \/ HandleFails(p)
             \/ HandleStop(p) \/ HandleOther(p)
      PROVE  PidFileRight'
  <2>1. /\ Inside(p) /\ pidFile' = pidFile
        /\ \E l \in {"clear", "clearTake", "loop", "receive", "handle", "unlink"} :
              pc' = [pc EXCEPT ![p] = l]
    BY <1>7 DEF ClearLook, ClearTake, Loop, Take, HandleAlarm, HandleSound,
                HandleFails, HandleStop, HandleOther
  <2>2. QED
    BY <2>1
<1>8. QED
  BY <1>1, <1>2, <1>3, <1>4, <1>5, <1>6, <1>7
  DEF Next, Multiplex, Run, Receive, Forward, Signal, SoundStop, vars, procVars

(* last_alarm is None until the first event.                               *)
LEMMA FreshStep == TypeOK /\ FreshStart /\ [Next]_vars => FreshStart'
<1> SUFFICES ASSUME TypeOK, FreshStart, [Next]_vars PROVE FreshStart'
  OBVIOUS
<1>0. pc \in [Procs -> Pcs] /\ last \in [Procs -> Alarms \cup {Stop, None}]
  BY DEF TypeOK
<1> USE <1>0 DEF FreshStart, Goto
<1>1. CASE UNCHANGED <<pc, last>>
  BY <1>1
<1>2. ASSUME NEW p \in Procs, Start(p) \/ CheckPid(p) PROVE FreshStart'
  BY <1>2 DEF Start, CheckPid
<1>3. ASSUME NEW p \in Procs,
             \/ CreatePid(p) \/ InitFails(p) \/ Die(p) \/ Unlink(p)
             \/ ClearLook(p) \/ ClearTake(p) \/ Loop(p) \/ Take(p)
             \/ HandleSound(p) \/ HandleFails(p) \/ HandleOther(p)
      PROVE  FreshStart'
  BY <1>3 DEF CreatePid, InitFails, Die, Unlink, ClearLook, ClearTake, Loop, Take,
              HandleSound, HandleFails, HandleOther
<1>4. ASSUME NEW p \in Procs, HandleAlarm(p) \/ HandleStop(p) PROVE FreshStart'
  BY <1>4 DEF HandleAlarm, HandleStop
<1>5. QED
  BY <1>1, <1>2, <1>3, <1>4
  DEF Next, Multiplex, Run, Receive, Forward, Signal, SoundStop, vars, procVars

(* The pid file lets one process at most be past its check.                *)
LEMMA OneInside == TypeOK /\ PidFileRight => SingleReader
<1> SUFFICES ASSUME TypeOK, PidFileRight,
                    NEW p \in Procs, NEW q \in Procs, Serving(p), Serving(q)
             PROVE  p = q
  BY DEF SingleReader
<1>1. (Inside(p) \/ pc[p] = "createPid") /\ (Inside(q) \/ pc[q] = "createPid")
  BY DEF TypeOK, Pcs, Serving, Alive, Inside
<1>2. QED
  BY <1>1 DEF PidFileRight, Starting

(* Only the process itself takes the file of its last alarm away.          *)
LEMMA AlarmStep == IInv /\ [Next]_vars => LastAlarmShown'
<1> SUFFICES ASSUME IInv, [Next]_vars, NEW p \in Procs,
                    Serving(p)', last'[p] \in Alarms
             PROVE  last'[p] \in files'
  BY DEF LastAlarmShown
<1>0. TypeOK /\ PidFileRight /\ FreshStart /\ LastAlarmShown /\ SingleReader
  BY OneInside DEF IInv
<1>1. pc \in [Procs -> Pcs] /\ last \in [Procs -> Alarms \cup {Stop, None}]
  BY <1>0 DEF TypeOK
<1> USE <1>1 DEF Serving, Alive, Goto
<1>2. None \notin Alarms /\ Stop \notin Alarms /\ Sound \notin Alarms
  BY NameAssumption DEF Kinds
<1>3. CASE UNCHANGED <<pc, last, files>>
  BY <1>0, <1>3 DEF LastAlarmShown
<1>4. ASSUME NEW q \in Procs,
             \/ Start(q) \/ CheckPid(q) \/ CreatePid(q) \/ InitFails(q) \/ Die(q) \/ Unlink(q)
             \/ ClearLook(q) \/ ClearTake(q) \/ Loop(q) \/ Take(q)
             \/ HandleFails(q) \/ HandleOther(q)
      PROVE  last'[p] \in files'
  <2>1. last' = last /\ files' = files
    BY <1>4 DEF Start, CheckPid, CreatePid, InitFails, Die, Unlink, ClearLook,
                ClearTake, Loop, Take, HandleFails, HandleOther
  <2>2. Serving(p)
    <3>1. pc[p] \notin {"off", "checkPid", "createPid"}
      BY <1>0, <1>2, <2>1 DEF FreshStart
    <3>2. pc'[p] # pc[p] => pc[p] \notin {"refused", "gone"}
      BY <1>4 DEF Start, CheckPid, CreatePid, InitFails, Die, Unlink, ClearLook,
                  ClearTake, Loop, Take, HandleFails, HandleOther
    <3>3. QED
      BY <3>1, <3>2
  <2>3. QED
    BY <1>0, <2>1, <2>2 DEF LastAlarmShown
<1>5. ASSUME NEW q \in Procs, HandleAlarm(q) \/ HandleSound(q) \/ HandleStop(q)
      PROVE  last'[p] \in files'
  <2>1. Serving(q) /\ Serving(q)'
    BY <1>5 DEF HandleAlarm, HandleSound, HandleStop
  <2>2. Serving(p)
    BY <1>5, <2>1 DEF HandleAlarm, HandleSound, HandleStop
  <2>3. p = q
    BY <1>0, <2>1, <2>2 DEF SingleReader
  <2>4. QED
    BY <1>0, <1>2, <1>5, <2>2, <2>3
    DEF HandleAlarm, HandleSound, HandleStop, LastAlarmShown
<1>6. ASSUME NEW q \in Procs, SoundStop(q) PROVE last'[p] \in files'
  <2>1. last' = last /\ pc' = pc /\ files' = files \ {Sound}
    BY <1>6 DEF SoundStop
  <2>2. QED
    BY <1>0, <1>2, <2>1 DEF LastAlarmShown
<1>7. QED
  BY <1>3, <1>4, <1>5, <1>6
  DEF Next, Multiplex, Run, Receive, Forward, Signal, vars, procVars

-----------------------------------------------------------------------------
(* Where a message can be on its way to the reader, oldest last: in the    *)
(* dispatcher's hands, in the queue, with the process that took it.  Past  *)
(* are the numbers of messages that need not come to the reader any more.  *)
Past(n) == n <= sent /\ (held # NoMsg /\ at <= Reader => n < sent)
Queued == {mq[Reader][i].n : i \in 1..Len(mq[Reader])}

HeldIsNewest == held # NoMsg => held.n = sent
QueueSorted == \A i, j \in 1..Len(mq[Reader]) :
                  i < j => mq[Reader][i].n < mq[Reader][j].n
PastSeen == /\ \A n \in Queued : Past(n)
            /\ \A p \in Procs : Past(msg[p].n) /\ Past(boot[p])
TakenBefore == \A p \in Procs, n \in Queued : msg[p].n < n

(* From the clearing of the queue on, nothing older than the start is left.*)
Cleared == \A p \in Procs :
    /\ pc[p] \in {"loop", "receive", "handle"} => \A n \in Queued : boot[p] < n
    /\ pc[p] = "handle" => boot[p] < msg[p].n

Ordered == HeldIsNewest /\ QueueSorted /\ PastSeen /\ TakenBefore /\ Cleared

LEMMA Numbers ==
    ASSUME TypeOK
    PROVE  /\ sent \in Nat /\ at \in Nat /\ Reader \in Nat
           /\ mq[Reader] \in Seq(Messages)
           /\ Queued \subseteq Nat /\ \A n \in Queued : n > 0
           /\ \A p \in Procs : msg[p].n \in Nat /\ boot[p] \in Nat
           /\ held.n \in Nat
           /\ held # NoMsg => held \in Messages
<1>1. mq[Reader] \in Seq(Messages)
  BY QueueAssumption DEF TypeOK
<1>2. \A i \in 1..Len(mq[Reader]) : mq[Reader][i] \in Messages
  BY <1>1
<1>3. \A m \in Messages : m.n \in Nat /\ m.n > 0
  BY QueueAssumption DEF Messages
<1>4. NoMsg.n = 0
  BY DEF NoMsg
<1>5. QED
  BY <1>1, <1>2, <1>3, <1>4, QueueAssumption DEF TypeOK, Queued, Queues

LEMMA InitOrdered == Init => Ordered
<1> SUFFICES ASSUME Init PROVE Ordered
  OBVIOUS
<1>1. TypeOK
  BY InitIInv DEF IInv
<1>2. Len(mq[Reader]) = 0 /\ Queued = {}
  BY QueueAssumption DEF Init, Queued
<1>3. held = NoMsg /\ sent = 0 /\ \A p \in Procs : msg[p].n = 0 /\ boot[p] = 0 /\ pc[p] = "off"
  BY DEF Init, NoMsg
<1>4. QED
  BY <1>2, <1>3
  DEF Ordered, HeldIsNewest, QueueSorted, PastSeen, Past, TakenBefore, Cleared

(* A new message of the camera: all the others are past.                   *)
LEMMA ReceiveOrdered ==
    ASSUME TypeOK, Ordered, NEW k \in Kinds, Receive(k) PROVE Ordered'
<1>1. sent' = sent + 1 /\ held'.n = sent' /\ UNCHANGED <<mq, msg, boot, pc>>
  BY DEF Receive, procVars
<1>2. Queued' = Queued
  BY <1>1 DEF Queued
<1>3. \A n \in Nat : Past(n) => Past(n)'
  BY <1>1, Numbers DEF Past
<1>4. QED
  BY <1>1, <1>2, <1>3, Numbers
  DEF Ordered, HeldIsNewest, QueueSorted, PastSeen, TakenBefore, Cleared

(* The message that is handed on is newer than all the reader has seen.    *)
LEMMA ForwardOrdered == ASSUME TypeOK, Ordered, Forward PROVE Ordered'
<1> DEFINE s == mq[Reader]
<1>0. held \in Messages /\ held.n = sent /\ UNCHANGED <<sent, msg, boot, pc>>
  BY Numbers DEF Forward, Ordered, HeldIsNewest, procVars
<1>1. \A n \in Nat : Past(n) => Past(n)'
  BY <1>0, Numbers, QueueAssumption DEF Forward, Past, Queues
<1>2. held' # NoMsg => held'.n = sent'
  BY <1>0 DEF Forward
<1>3. CASE mq'[Reader] = s
  <2>1. Queued' = Queued
    BY <1>3 DEF Queued
  <2>2. QED
    BY <1>0, <1>1, <1>2, <1>3, <2>1, Numbers
    DEF Ordered, HeldIsNewest, QueueSorted, PastSeen, TakenBefore, Cleared
<1>4. CASE mq'[Reader] # s
  <2>1. at = Reader /\ mq'[Reader] = Append(s, held)
    BY <1>4, QueueAssumption DEF Forward, TypeOK
  <2>2. s \in Seq(Messages) /\ Len(s) \in Nat
    BY Numbers
  <2>3. /\ Len(mq'[Reader]) = Len(s) + 1
        /\ \A i \in 1..Len(s) : mq'[Reader][i] = s[i]
        /\ mq'[Reader][Len(s) + 1] = held
    BY <1>0, <2>1, <2>2, AppendProperties
  <2>4. Queued' = Queued \cup {sent}
    BY <1>0, <2>2, <2>3 DEF Queued
  <2>5. ~(held' # NoMsg /\ at' <= Reader)
    BY <2>1, QueueAssumption DEF Forward, Queues
  <2>6. Past(sent)'
    BY <1>0, <2>5, Numbers DEF Past
  <2>7. \A n \in Nat : Past(n) => n < sent
    BY <2>1, Numbers DEF Forward, Past
  <2>8. \A n \in Queued : Past(n) /\ n < sent
    BY <2>7, Numbers DEF Ordered, PastSeen
  <2>9. QueueSorted'
    <3> SUFFICES ASSUME NEW i \in 1..(Len(s) + 1), NEW j \in 1..(Len(s) + 1), i < j
                 PROVE  mq'[Reader][i].n < mq'[Reader][j].n
      BY <2>3 DEF QueueSorted
    <3>1. i \in 1..Len(s) /\ mq'[Reader][i] = s[i] /\ s[i].n \in Queued
      BY <2>2, <2>3 DEF Queued
    <3>2. CASE j = Len(s) + 1
      BY <1>0, <2>3, <2>8, <3>1, <3>2
    <3>3. CASE j \in 1..Len(s)
      BY <2>3, <3>1, <3>3 DEF Ordered, QueueSorted
    <3>4. QED
      BY <2>2, <3>2, <3>3
  <2>10. PastSeen'
    BY <1>0, <1>1, <2>4, <2>6, Numbers DEF Ordered, PastSeen
  <2>11. \A p \in Procs : msg[p].n < sent /\ boot[p] < sent
    BY <2>7, Numbers DEF Ordered, PastSeen
  <2>12. TakenBefore' /\ Cleared'
    BY <1>0, <2>4, <2>11 DEF Ordered, TakenBefore, Cleared
  <2>13. QED
    BY <1>2, <2>9, <2>10, <2>12 DEF Ordered, HeldIsNewest
<1>5. QED
  BY <1>3, <1>4

(* A message is taken out of the queue: those that stay are newer.         *)
LEMMA TailOrdered ==
    ASSUME TypeOK, Ordered, mq[Reader] # <<>>, mq' = [mq EXCEPT ![Reader] = Tail(@)]
    PROVE  /\ QueueSorted'
           /\ Queued' \subseteq Queued
           /\ Head(mq[Reader]).n \in Queued
           /\ \A n \in Queued' : Head(mq[Reader]).n < n
<1> DEFINE s == mq[Reader]
<1>1. s \in Seq(Messages) /\ Len(s) \in Nat /\ Len(s) > 0 /\ mq'[Reader] = Tail(s)
  BY Numbers, QueueAssumption DEF TypeOK
<1>2. /\ Len(mq'[Reader]) = Len(s) - 1
      /\ \A i \in 1..(Len(s) - 1) : mq'[Reader][i] = s[i + 1]
      /\ Head(s) = s[1]
  <2>1. Len(Tail(s)) = Len(s) - 1 /\ \A i \in 1..Len(Tail(s)) : Tail(s)[i] = s[i + 1]
    BY <1>1, HeadTailProperties
  <2>2. Head(s) = s[1]
    BY <1>1
  <2>3. QED
    BY <1>1, <2>1, <2>2
<1>3. \A i, j \in 1..Len(s) : i < j => s[i].n < s[j].n
  BY DEF Ordered, QueueSorted
<1>4. QueueSorted'
  BY <1>1, <1>2, <1>3 DEF QueueSorted
<1>5. \A n \in Queued' : \E i \in 2..Len(s) : n = s[i].n
  <2> SUFFICES ASSUME NEW i \in 1..(Len(s) - 1)
               PROVE  \E j \in 2..Len(s) : mq'[Reader][i].n = s[j].n
    BY <1>2 DEF Queued
  <2>1. i + 1 \in 2..Len(s) /\ mq'[Reader][i] = s[i + 1]
    BY <1>1, <1>2
  <2>2. QED
    BY <2>1
<1>6. Queued' \subseteq Queued /\ s[1].n \in Queued
  BY <1>1, <1>5 DEF Queued
<1>7. \A n \in Queued' : s[1].n < n
  BY <1>1, <1>3, <1>5
<1>8. QED
  BY <1>2, <1>4, <1>6, <1>7

LEMMA TakeOrdered == ASSUME TypeOK, Ordered, NEW p \in Procs, Take(p) PROVE Ordered'
<1> DEFINE h == Head(mq[Reader])
<1>1. /\ QueueSorted' /\ Queued' \subseteq Queued /\ h.n \in Queued
      /\ \A n \in Queued' : h.n < n
  BY TailOrdered DEF Take
<1>2. /\ msg' = [msg EXCEPT ![p] = h] /\ pc[p] = "receive"
      /\ pc' = [pc EXCEPT ![p] = "handle"]
      /\ UNCHANGED <<sent, held, at, boot>>
  BY DEF Take, dispatchVars, Goto
<1>3. \A q \in Procs : /\ msg'[q] = (IF q = p THEN h ELSE msg[q])
                       /\ pc'[q] = (IF q = p THEN "handle" ELSE pc[q])
  BY <1>2 DEF TypeOK
<1>4. \A n \in Nat : Past(n) <=> Past(n)'
  BY <1>2 DEF Past
<1>5. PastSeen'
  BY <1>1, <1>2, <1>3, <1>4, Numbers DEF Ordered, PastSeen
<1>6. TakenBefore'
  BY <1>1, <1>3 DEF Ordered, TakenBefore
<1>7. Cleared'
  BY <1>1, <1>2, <1>3 DEF Ordered, Cleared
<1>8. QED
  BY <1>1, <1>2, <1>5, <1>6, <1>7 DEF Ordered, HeldIsNewest

LEMMA ClearTakeOrdered ==
    ASSUME TypeOK, Ordered, NEW p \in Procs, ClearTake(p) PROVE Ordered'
<1>1. QueueSorted' /\ Queued' \subseteq Queued
  BY TailOrdered DEF ClearTake
<1>2. /\ pc' = [pc EXCEPT ![p] = "clear"]
      /\ UNCHANGED <<sent, held, at, msg, boot>>
  BY DEF ClearTake, dispatchVars, Goto
<1>3. \A q \in Procs : pc'[q] = (IF q = p THEN "clear" ELSE pc[q])
  BY <1>2 DEF TypeOK
<1>4. \A n : Past(n) <=> Past(n)'
  BY <1>2 DEF Past
<1>5. QED
  BY <1>1, <1>2, <1>3, <1>4
  DEF Ordered, HeldIsNewest, PastSeen, TakenBefore, Cleared

(* A process that goes on without taking a message.                        *)
LEMMA ElseOrdered ==
    ASSUME TypeOK, Ordered, UNCHANGED <<dispatchVars, mq, msg>>, NEW p \in Procs,
           \A q \in Procs : q # p => pc'[q] = pc[q] /\ boot'[q] = boot[q],
           \/ boot'[p] = boot[p] /\ pc'[p] = "loop"
                 /\ (pc[p] = "handle" \/ Queued = {})
           \/ boot'[p] = boot[p] /\ pc'[p] = "receive" /\ pc[p] = "loop"
           \/ boot'[p] = boot[p] /\ pc'[p] = pc[p]
           \/ /\ pc'[p] \notin {"loop", "receive", "handle"}
              /\ boot'[p] \in Queued \cup {0, boot[p]}
    PROVE  Ordered'
<1>1. Queued' = Queued /\ HeldIsNewest' /\ QueueSorted' /\ TakenBefore'
  BY DEF Ordered, HeldIsNewest, QueueSorted, TakenBefore, Queued, dispatchVars
<1>2. \A n : Past(n) <=> Past(n)'
  BY DEF Past, dispatchVars
<1>3. Past(0)
  <2>1. held # NoMsg => held.n = sent /\ held.n > 0
    BY Numbers, QueueAssumption DEF Ordered, HeldIsNewest, Messages
  <2>2. QED
    BY <2>1, Numbers DEF Past
<1>4. PastSeen'
  BY <1>1, <1>2, <1>3 DEF Ordered, PastSeen
<1>5. Cleared'
  BY <1>1 DEF Ordered, Cleared
<1>6. QED
  BY <1>1, <1>4, <1>5 DEF Ordered

LEMMA OrderStep == TypeOK /\ Ordered /\ [Next]_vars => Ordered'
<1> SUFFICES ASSUME TypeOK, Ordered, [Next]_vars PROVE Ordered'
  OBVIOUS
<1>0. /\ pc \in [Procs -> Pcs] /\ boot \in [Procs -> 0..MaxSent]
      /\ mq[Reader] \in Seq(Messages)
  BY Numbers DEF TypeOK
<1>1. CASE UNCHANGED <<dispatchVars, mq, msg, boot, pc>>
  <2>1. Queued' = Queued /\ \A n : Past(n) <=> Past(n)'
    BY <1>1 DEF Queued, Past, dispatchVars
  <2>2. QED
    BY <1>1, <2>1
    DEF Ordered, HeldIsNewest, QueueSorted, PastSeen, TakenBefore, Cleared, dispatchVars
<1>2. ASSUME NEW p \in Procs, CreatePid(p) PROVE Ordered'
  <2>1. mq[Reader] # <<>> => mq[Reader][Len(mq[Reader])].n \in Queued
    BY <1>0 DEF Queued
  <2>2. boot'[p] \in Queued \cup {0} /\ \A q \in Procs : q # p => boot'[q] = boot[q]
    BY <1>0, <1>2, <2>1 DEF CreatePid
  <2>3. QED
    BY <1>0, <1>2, <2>2, ElseOrdered DEF CreatePid, Goto
<1>3. ASSUME NEW p \in Procs, ClearLook(p) PROVE Ordered'
  <2>1. mq[Reader] = <<>> => Queued = {}
    BY DEF Queued
  <2>2. QED
    BY <1>0, <1>3, <2>1, ElseOrdered DEF ClearLook, Goto
<1>4. ASSUME NEW p \in Procs,
             Start(p) \/ CheckPid(p) \/ InitFails(p) \/ Die(p) \/ Unlink(p)
      PROVE  Ordered'
  <2>1. /\ UNCHANGED <<dispatchVars, mq, msg, boot>>
        /\ \E l \in {"checkPid", "refused", "createPid", "gone"} : pc' = [pc EXCEPT ![p] = l]
    BY <1>4 DEF Start, CheckPid, InitFails, Die, Unlink, Goto
  <2>2. QED
    BY <1>0, <2>1, ElseOrdered
<1>5. ASSUME NEW p \in Procs, Loop(p) PROVE Ordered'
  BY <1>0, <1>5, ElseOrdered DEF Loop, Goto
<1>6. ASSUME NEW p \in Procs,
             HandleAlarm(p) \/ HandleSound(p) \/ HandleFails(p) \/ HandleStop(p) \/ HandleOther(p)
      PROVE  Ordered'
  <2>1. /\ UNCHANGED <<dispatchVars, mq, msg, boot>>
        /\ pc[p] = "handle" /\ pc' = [pc EXCEPT ![p] = "loop"]
    BY <1>6 DEF HandleAlarm, HandleSound, HandleFails, HandleStop, HandleOther, Goto
  <2>2. QED
    BY <1>0, <2>1, ElseOrdered
<1>7. QED
  BY <1>1, <1>2, <1>3, <1>4, <1>5, <1>6,
     ReceiveOrdered, ForwardOrdered, TakeOrdered, ClearTakeOrdered
  DEF Next, Multiplex, Run, Signal, SoundStop, vars, procVars

-----------------------------------------------------------------------------
(* The invariant of the pid file, the queues and the alarm files.          *)
THEOREM Invariance == Spec => []IInv
<1>1. IInv /\ [Next]_vars => IInv'
  BY TypeStep, PidStep, FreshStep, AlarmStep DEF IInv
<1>2. QED
  BY InitIInv, <1>1, PTL DEF Spec

(* Every queue keeps its size, whatever readers do.                        *)
THEOREM TypeCorrect == Spec => []TypeOK
<1>1. IInv => TypeOK
  BY DEF IInv
<1>2. QED
  BY <1>1, Invariance, PTL

(* One ipc2file reads at a time, through any number of starts that do not  *)
(* overlap, stops and crashes.                                             *)
THEOREM OneReader == Spec => []SingleReader
<1>1. IInv => SingleReader
  BY OneInside DEF IInv
<1>2. QED
  BY <1>1, Invariance, PTL

(* The last alarm reported has its file as long as it is the last one.     *)
THEOREM AlarmsShown == Spec => []LastAlarmShown
<1>1. IInv => LastAlarmShown
  BY DEF IInv
<1>2. QED
  BY <1>1, Invariance, PTL

(* The invariant of the order of the messages.                             *)
THEOREM OrderInvariance == Spec => []Ordered
  BY InitOrdered, OrderStep, TypeCorrect, PTL DEF Spec

(* A process acts on no message that was queued before it came up.         *)
THEOREM NothingStale == Spec => []NoStaleEvent
<1>1. TypeOK /\ Ordered => NoStaleEvent
  BY Numbers DEF Ordered, Cleared, NoStaleEvent
<1>2. QED
  BY <1>1, OrderInvariance, TypeCorrect, PTL

(* The events of a process come in the order they were sent, none twice,   *)
(* however many are lost in a full queue.                                  *)
THEOREM AlwaysInOrder == Spec => EventsInOrder
<1> DEFINE Later == \A p \in Procs : pc[p] = "receive" /\ pc'[p] = "handle"
                                        => msg'[p].n > msg[p].n
<1>1. TypeOK /\ Ordered /\ [Next]_vars => [Later]_vars
  <2> SUFFICES ASSUME TypeOK, Ordered, Next, NEW p \in Procs,
                      pc[p] = "receive", pc'[p] = "handle"
               PROVE  msg'[p].n > msg[p].n
    BY DEF vars
  <2>1. pc \in [Procs -> Pcs] /\ msg \in [Procs -> Messages \cup {NoMsg}]
    BY DEF TypeOK
  <2>2. Take(p)
    BY <2>1 DEF Next, Multiplex, Run, Receive, Forward, Start, Signal, Die, SoundStop,
       CheckPid, CreatePid, InitFails, ClearLook, ClearTake, Loop, Take, HandleAlarm,
       HandleSound, HandleFails, HandleStop, HandleOther, Unlink, Goto, procVars
  <2>3. msg'[p] = Head(mq[Reader]) /\ Head(mq[Reader]).n \in Queued
    BY <2>1, <2>2, TailOrdered DEF Take
  <2>4. QED
    BY <2>3, Numbers DEF Ordered, TakenBefore
<1>2. QED
  BY <1>1, OrderInvariance, TypeCorrect, PTL DEF Spec, EventsInOrder
=============================================================================
