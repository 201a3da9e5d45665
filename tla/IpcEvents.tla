------------------------------ MODULE IpcEvents ------------------------------
(***************************************************************************)
(* From the camera's internal messages to the files the ONVIF server       *)
(* watches: ipc_multiplex and ipc2file.                                    *)
(*                                                                         *)
(* ipc_multiplex is preloaded into the camera's own dispatcher.  Its       *)
(* mq_receive hands every message on to nine further queues without ever   *)
(* waiting: a queue that is full goes without.  ipc2file reads one of      *)
(* them, keeps a file for each alarm that is on, and takes a sound's file  *)
(* away after 60 seconds from a thread of its own.  service.sh starts it   *)
(* and stops it with a signal that only sets a flag; a pid file is to keep *)
(* a second one from starting.                                             *)
(***************************************************************************)
EXTENDS Naturals, Sequences

CONSTANTS NumQueues,   \* the ipc_dispatch queues, 9
          MaxMsg,      \* mq_maxmsg, 64
          Reader,      \* the queue ipc2file reads, 2
          Alarms,      \* alarms a MOTION_STOP ends: motion, human, ..., crying
          Sound,       \* IPC_SOUND_DETECTION, which ends by itself
          Stop,        \* IPC_MOTION_STOP
          Other,       \* a message parse_message does not recognise
          None,        \* no message, no alarm, no process
          Procs,       \* the ipc2file processes that are ever started
          MaxSent      \* bound: messages of the camera

Queues == 1..NumQueues
Kinds == Alarms \cup {Sound, Stop, Other}
Messages == [n : 1..MaxSent, kind : Kinds]

ASSUME QueueAssumption == /\ NumQueues \in Nat \ {0} /\ Reader \in Queues
                          /\ MaxMsg \in Nat \ {0} /\ MaxSent \in Nat
ASSUME NameAssumption == /\ Sound \notin Alarms /\ Stop \notin Alarms \cup {Sound}
                         /\ Other \notin Alarms \cup {Sound, Stop}
                         /\ None \notin Kinds \cup Procs \cup Messages

VARIABLES sent,      \* messages the camera has received so far
          held,      \* the message mq_receive is handing on
          at,        \* the queue it sends to next: i
          mq,        \* the queues
          files,     \* the files in /tmp/onvif_notify_server
          pidFile,   \* the process the pid file names
          pc,        \* where each ipc2file is
          exitMain,  \* exit_main
          msg,       \* the message it has received
          last,      \* last_alarm
          timers,    \* its sound_stop_threads that still sleep
          boot       \* the newest message in the queue when it opened it

dispatchVars == <<sent, held, at>>
procVars == <<pc, exitMain, msg, last, timers, boot>>
vars == <<dispatchVars, mq, files, pidFile, procVars>>

NoMsg == [n |-> 0, kind |-> None]

Init == /\ sent = 0 /\ held = NoMsg /\ at = 1
        /\ mq = [q \in Queues |-> <<>>]
        /\ files = {} /\ pidFile = None
        /\ pc = [p \in Procs |-> "off"]
        /\ exitMain = [p \in Procs |-> FALSE]
        /\ msg = [p \in Procs |-> NoMsg]
        /\ last = [p \in Procs |-> None]
        /\ timers = [p \in Procs |-> 0]
        /\ boot = [p \in Procs |-> 0]

-----------------------------------------------------------------------------
(* ipc_multiplex: the preloaded mq_receive. *)

(* The original mq_receive returns a message of the camera.                *)
Receive(k) == /\ held = NoMsg
              /\ sent < MaxSent
              /\ sent' = sent + 1
              /\ held' = [n |-> sent + 1, kind |-> k]
              /\ at' = 1
              /\ UNCHANGED <<mq, files, pidFile, procVars>>

(* Definitions named Mut... are faults a change could bring in; the runs   *)
(* show that each of them breaks a property.                               *)
MutForwardBlocks ==
    /\ held # NoMsg
    /\ Len(mq[at]) < MaxMsg
    /\ mq' = [mq EXCEPT ![at] = Append(@, held)]
    /\ IF at = NumQueues THEN held' = NoMsg /\ UNCHANGED at
                         ELSE at' = at + 1 /\ UNCHANGED held
    /\ UNCHANGED <<sent, files, pidFile, procVars>>

MutForwardUrgent ==
    /\ held # NoMsg
    /\ mq' = [mq EXCEPT ![at] = CASE Len(@) = MaxMsg -> @
                                 [] Len(@) < MaxMsg /\ held.kind \in Alarms -> <<held>> \o @
                                 [] OTHER -> Append(@, held)]
    /\ IF at = NumQueues THEN held' = NoMsg /\ UNCHANGED at
                         ELSE at' = at + 1 /\ UNCHANGED held
    /\ UNCHANGED <<sent, files, pidFile, procVars>>

(* mq_send to one queue; EAGAIN, the queue is full, is no error.           *)
Forward == /\ held # NoMsg
           /\ mq' = [mq EXCEPT ![at] = IF Len(@) < MaxMsg THEN Append(@, held) ELSE @]
           /\ IF at = NumQueues THEN held' = NoMsg /\ UNCHANGED at
                                ELSE at' = at + 1 /\ UNCHANGED held
           /\ UNCHANGED <<sent, files, pidFile, procVars>>

-----------------------------------------------------------------------------
(* ipc2file: starting and stopping. *)

Goto(p, label) == pc' = [pc EXCEPT ![p] = label]

(* kill(pid, 0) finds the process.                                         *)
Alive(p) == pc[p] \notin {"off", "refused", "gone"}

(* service.sh starts one at a time.                                        *)
Start(p) == /\ pc[p] = "off"
            /\ \A q \in Procs : pc[q] \notin {"checkPid", "createPid"}
            /\ Goto(p, "checkPid")
            /\ UNCHANGED <<dispatchVars, mq, files, pidFile,
                           exitMain, msg, last, timers, boot>>

MutCheckPid(p) == /\ pc[p] = "checkPid"
                  /\ Goto(p, IF pidFile = p THEN "refused" ELSE "createPid")
                  /\ UNCHANGED <<dispatchVars, mq, files, pidFile,
                                 exitMain, msg, last, timers, boot>>

(* "Program is already running."                                           *)
CheckPid(p) == /\ pc[p] = "checkPid"
               /\ Goto(p, IF pidFile # None /\ Alive(pidFile) THEN "refused"
                          ELSE "createPid")
               /\ UNCHANGED <<dispatchVars, mq, files, pidFile,
                              exitMain, msg, last, timers, boot>>

CreatePid(p) == /\ pc[p] = "createPid"
                /\ pidFile' = p
                /\ boot' = [boot EXCEPT ![p] =
                       IF mq[Reader] = <<>> THEN 0 ELSE mq[Reader][Len(mq[Reader])].n]
                /\ Goto(p, "clear")
                /\ UNCHANGED <<dispatchVars, mq, files, exitMain, msg, last, timers>>

(* ipc_init fails while the multiplexer has not made the queues.  The pid   *)
(* file stays.                                                             *)
InitFails(p) == /\ pc[p] = "createPid"
                /\ sent = 0
                /\ pidFile' = p
                /\ Goto(p, "gone")
                /\ UNCHANGED <<dispatchVars, mq, files,
                               exitMain, msg, last, timers, boot>>

MutClearLook(p) == /\ pc[p] = "clear"
                   /\ Goto(p, IF Len(mq[Reader]) <= 1 THEN "loop" ELSE "clearTake")
                   /\ UNCHANGED <<dispatchVars, mq, files, pidFile,
                                  exitMain, msg, last, timers, boot>>

(* clear_queue: as long as mq_getattr counts messages, one is taken out.   *)
ClearLook(p) == /\ pc[p] = "clear"
                /\ Goto(p, IF mq[Reader] = <<>> THEN "loop" ELSE "clearTake")
                /\ UNCHANGED <<dispatchVars, mq, files, pidFile,
                               exitMain, msg, last, timers, boot>>

ClearTake(p) == /\ pc[p] = "clearTake"
                /\ mq[Reader] # <<>>
                /\ mq' = [mq EXCEPT ![Reader] = Tail(@)]
                /\ Goto(p, "clear")
                /\ UNCHANGED <<dispatchVars, files, pidFile,
                               exitMain, msg, last, timers, boot>>

(* killall: the handler sets the flag, and mq_receive is restarted.        *)
Signal(p) == /\ Alive(p)
             /\ exitMain' = [exitMain EXCEPT ![p] = TRUE]
             /\ UNCHANGED <<dispatchVars, mq, files, pidFile,
                            pc, msg, last, timers, boot>>

(* The process dies: its threads with it, its files remain.                *)
Die(p) == /\ Alive(p)
          /\ Goto(p, "gone")
          /\ timers' = [timers EXCEPT ![p] = 0]
          /\ UNCHANGED <<dispatchVars, mq, files, pidFile, exitMain, msg, last, boot>>

-----------------------------------------------------------------------------
(* ipc2file: the main loop. *)

Loop(p) == /\ pc[p] = "loop"
           /\ Goto(p, IF exitMain[p] THEN "unlink" ELSE "receive")
           /\ UNCHANGED <<dispatchVars, mq, files, pidFile,
                          exitMain, msg, last, timers, boot>>

(* mq_receive waits for a message.                                         *)
Take(p) == /\ pc[p] = "receive"
           /\ mq[Reader] # <<>>
           /\ msg' = [msg EXCEPT ![p] = Head(mq[Reader])]
           /\ mq' = [mq EXCEPT ![Reader] = Tail(@)]
           /\ Goto(p, "handle")
           /\ UNCHANGED <<dispatchVars, files, pidFile, exitMain, last, timers, boot>>

Kind(p) == msg[p].kind

(* process_event for an alarm that lasts until MOTION_STOP.                *)
HandleAlarm(p) == /\ pc[p] = "handle" /\ Kind(p) \in Alarms
                  /\ files' = files \cup {Kind(p)}
                  /\ last' = [last EXCEPT ![p] = Kind(p)]
                  /\ Goto(p, "loop")
                  /\ UNCHANGED <<dispatchVars, mq, pidFile,
                                 exitMain, msg, timers, boot>>

MutHandleSound(p) == /\ pc[p] = "handle" /\ Kind(p) = Sound
                     /\ files' = files \cup {Sound}
                     /\ timers' = [timers EXCEPT ![p] = IF Sound \in files THEN @ ELSE @ + 1]
                     /\ Goto(p, "loop")
                     /\ UNCHANGED <<dispatchVars, mq, pidFile,
                                    exitMain, msg, last, boot>>

(* ... for a sound, whose file a new thread removes later on. The thread   *)
(* can be made: pthread_create is taken to succeed.                        *)
HandleSound(p) == /\ pc[p] = "handle" /\ Kind(p) = Sound
                  /\ files' = files \cup {Sound}
                  /\ timers' = [timers EXCEPT ![p] = @ + 1]
                  /\ Goto(p, "loop")
                  /\ UNCHANGED <<dispatchVars, mq, pidFile,
                                 exitMain, msg, last, boot>>

(* ... for either when the file cannot be made.                            *)
HandleFails(p) == /\ pc[p] = "handle" /\ Kind(p) \in Alarms \cup {Sound}
                  /\ Kind(p) \notin files
                  /\ Goto(p, "loop")
                  /\ UNCHANGED <<dispatchVars, mq, files, pidFile,
                                 exitMain, msg, last, timers, boot>>

MutHandleStop(p) == /\ pc[p] = "handle" /\ Kind(p) = Stop
                    /\ files' = files \ {last[p]}
                    /\ Goto(p, "loop")
                    /\ UNCHANGED <<dispatchVars, mq, pidFile,
                                   exitMain, msg, last, timers, boot>>

(* ... for MOTION_STOP, which takes away the file of the last alarm.       *)
HandleStop(p) == /\ pc[p] = "handle" /\ Kind(p) = Stop
                 /\ files' = files \ {last[p]}
                 /\ last' = [last EXCEPT ![p] = Stop]
                 /\ Goto(p, "loop")
                 /\ UNCHANGED <<dispatchVars, mq, pidFile,
                                exitMain, msg, timers, boot>>

HandleOther(p) == /\ pc[p] = "handle" /\ Kind(p) = Other
                  /\ Goto(p, "loop")
                  /\ UNCHANGED <<dispatchVars, mq, files, pidFile,
                                 exitMain, msg, last, timers, boot>>

(* sound_stop_thread wakes up.                                             *)
SoundStop(p) == /\ timers[p] > 0
                /\ timers' = [timers EXCEPT ![p] = @ - 1]
                /\ files' = files \ {Sound}
                /\ UNCHANGED <<dispatchVars, mq, pidFile,
                               pc, exitMain, msg, last, boot>>

(* The last thing it does is to remove the pid file.                       *)
Unlink(p) == /\ pc[p] = "unlink"
             /\ pidFile' = None
             /\ Goto(p, "gone")
             /\ timers' = [timers EXCEPT ![p] = 0]
             /\ UNCHANGED <<dispatchVars, mq, files, exitMain, msg, last, boot>>

-----------------------------------------------------------------------------
Multiplex == (\E k \in Kinds : Receive(k)) \/ Forward

Run(p) == \/ CheckPid(p) \/ CreatePid(p) \/ InitFails(p) \/ ClearLook(p) \/ ClearTake(p)
          \/ Loop(p) \/ Take(p)
          \/ HandleAlarm(p) \/ HandleSound(p) \/ HandleFails(p)
          \/ HandleStop(p) \/ HandleOther(p) \/ Unlink(p)

Next == Multiplex \/ \E p \in Procs : Start(p) \/ Signal(p) \/ Die(p) \/ Run(p) \/ SoundStop(p)

Spec == Init /\ [][Next]_vars

(* mq_receive of the camera, the processes and their threads keep running; *)
(* nobody has to start, stop or kill anything, nor the camera to talk.     *)
FairSpec == /\ Spec
            /\ WF_vars(Forward)
            /\ \A p \in Procs : WF_vars(Run(p)) /\ WF_vars(SoundStop(p))

-----------------------------------------------------------------------------
Pcs == {"off", "checkPid", "refused", "createPid", "clear", "clearTake", "loop",
        "receive", "handle", "unlink", "gone"}

(* Every variable stays in its type, no queue beyond its size.             *)
TypeOK == /\ sent \in 0..MaxSent
          /\ held \in Messages \cup {NoMsg} /\ at \in Queues
          /\ mq \in [Queues -> Seq(Messages)]
          /\ \A q \in Queues : Len(mq[q]) <= MaxMsg
          /\ files \subseteq Alarms \cup {Sound}
          /\ pidFile \in Procs \cup {None}
          /\ pc \in [Procs -> Pcs]
          /\ exitMain \in [Procs -> BOOLEAN]
          /\ msg \in [Procs -> Messages \cup {NoMsg}]
          /\ last \in [Procs -> Alarms \cup {Stop, None}]
          /\ timers \in [Procs -> Nat]
          /\ boot \in [Procs -> 0..MaxSent]

(* One ipc2file at most is past the check of the pid file, through stops,  *)
(* crashes and restarts, as long as starts do not overlap: events are      *)
(* never divided between two of them.                                      *)
Serving(p) == Alive(p) /\ pc[p] # "checkPid"
SingleReader == \A p, q \in Procs : Serving(p) /\ Serving(q) => p = q

(* While an alarm is the last one reported, its file is there: no removal  *)
(* by a late MOTION_STOP, another process or a sound's thread hides it.    *)
LastAlarmShown == \A p \in Procs : Serving(p) /\ last[p] \in Alarms => last[p] \in files

(* A process acts on no message that was in its queue before it came up,   *)
(* and on the others in the order they were sent, none twice.              *)
NoStaleEvent == \A p \in Procs : pc[p] = "handle" => msg[p].n > boot[p]
EventsInOrder == [][\A p \in Procs : pc[p] = "receive" /\ pc'[p] = "handle"
                                      => msg'[p].n > msg[p].n]_vars

(* The camera's dispatcher is never held up: it gets every message back,   *)
(* with queues full and readers dead or never started.                     *)
DispatcherReturns == (held # NoMsg) ~> (held = NoMsg)

(* The file of a sound that has just been reported goes, whether it was     *)
(* there before or not - another process may have left it and died - and   *)
(* however often it is reported meanwhile, unless this process ends first. *)
SoundEnds == \A p \in Procs :
    (pc[p] = "loop" /\ Kind(p) = Sound /\ Sound \in files)
        ~> (Sound \notin files \/ ~Alive(p))

(* "Program is already running.": a process that waits for messages and so *)
(* makes a start give up is one that goes on running, and has not been     *)
(* told to end.                                                            *)
AlreadyRunning == \A p \in Procs :
    pc[p] = "checkPid" /\ pidFile # None /\ pc[pidFile] = "receive" => ~exitMain[pidFile]
=============================================================================
