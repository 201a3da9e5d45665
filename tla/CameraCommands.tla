---------------------------- MODULE CameraCommands ----------------------------
(***************************************************************************)
(* ipc_cmd and ptz_presets.sh: commands for the camera.                    *)
(*                                                                         *)
(* ipc_cmd reads all of its options first, then sends one message or more  *)
(* for each of them into the queue of the camera's dispatcher, in an order *)
(* of its own.  A motion event is ended by a daemon: the process forks,    *)
(* sleeps and sends the end; what is left of its options is done after     *)
(* that.  ptz_presets.sh keeps the names of the PTZ presets in a file; the *)
(* camera keeps the positions and gives no numbers back, so script and     *)
(* camera count the free places on their own.  -w and its last message go  *)
(* to the queue of a worker: that step only succeeds or fails here.        *)
(*                                                                         *)
(* Left out: the bytes of the messages and the coordinates of -j and -J.   *)
(* Assumed of ptz_presets.sh: one call of it at a time; presets are        *)
(* changed by it only.  External: the camera, which handles the messages   *)
(* in order.                                                               *)
(***************************************************************************)
EXTENDS Integers, Sequences, FiniteSetsExt, Functions

CONSTANTS Procs,      \* processes of ipc_cmd that are called directly
          Script,     \* the one ptz_presets.sh calls
          Lines,      \* the command lines of the former: sequences of options
          Edits,      \* what ptz_presets.sh is asked to do
          Words,      \* the strings: arguments, and names of presets
          Places,     \* positions of presets, 0..7
          QueueSize,  \* mq_maxmsg of /ipc_dispatch
          PtzKind,    \* is_ptz: how this camera turns
          MaxCalls,   \* bound: calls of ipc_cmd that are not the script's
          MaxEdits    \* bound: calls of ptz_presets.sh

-----------------------------------------------------------------------------
(* Options, in the order in which main() acts on them.                     *)
Order == <<"switch", "sensitivity", "led", "save", "ir", "rotate",
           "setalertallowstate_human", "aihuman", "aivehicle", "aianimal", "aimotion",
           "face", "tracking", "mic", "sound", "babycrying", "soundsensitivity",
           "move", "jump-abs", "jump-rel", "preset", "add_preset", "get-pos",
           "is_moving", "set_home_position", "remove_preset", "cruise", "file",
           "start", "stop", "save_config", "xxx">>

(* An option of a command line, which becomes a message: its name, what is *)
(* given, and a number.                                                    *)
Message == [o : Words, a : Words, n : Int]
Literals == {Order[k] : k \in DOMAIN Order}
            \cup {"", "old", "Home", "none", "given", "number", "all", "position", "content",
                  "motion", "jump", "start", "stop", "on", "left", "right", "up", "down"}

ASSUME CommandsAssumption == /\ Script \notin Procs
                             /\ Literals \subseteq Words
                             /\ Lines \subseteq Seq(Message)
                             /\ Edits \subseteq [do : {"add", "del", "all", "home"},
                                               name : Words, n : Int]
                             /\ IsFiniteSet(Places) /\ 0 \in Places
                             /\ Places = 0..(Cardinality(Places) - 1)
                             /\ QueueSize \in Nat \ {0}
                             /\ PtzKind \in {"none", "mstar", "v1", "v2", "v2_alt"}
                             /\ MaxCalls \in Nat /\ MaxEdits \in Nat

VARIABLES up,       \* the camera has made its queue
          mq,       \* the messages in it
          todo,     \* of each process, what it has not done yet
          daemon,   \* processes that have left their caller
          motion,   \* of the camera: a motion event is on
          presets,  \* of the camera: the places taken
          list,     \* ptz_presets.conf: the names by place
          edit,     \* what the script is doing
          orphan,   \* a fork failed: an event has nobody to end it
          gap,      \* a command of the script was not sent
          calls, edits

cmdVars == <<up, mq, todo, daemon, motion, presets, list, edit, orphan, gap, calls, edits>>

All == Procs \cup {Script}

-----------------------------------------------------------------------------
(* The options of a command line.                                          *)
OnOff == {"switch", "led", "ir", "rotate", "aihuman", "aivehicle", "aianimal",
          "aimotion", "face", "tracking", "mic", "sound"}

Option(o, a, n) == [o |-> o, a |-> a, n |-> n]
Flag(o) == Option(o, "given", 0)

(* The arguments that are accepted; upper case, yes and no are left out.   *)
Accepts(x) ==
    CASE x.o \in OnOff -> x.a \in {"on", "off"}
      [] x.o = "sensitivity" -> x.a \in {"low", "medium", "high"}
      [] x.o = "save" -> x.a \in {"always", "detect"}
      [] x.o = "soundsensitivity" ->
            x.a \in {"30", "35", "40", "45", "50", "60", "70", "80", "90"}
      [] x.o \in {"move", "move-reverse"} -> x.a \in {"right", "left", "down", "up", "stop"}
      [] x.o = "remove_preset" -> x.a = "all" \/ (x.a = "number" /\ x.n \in Places)
      [] x.o = "cruise" -> x.a \in {"on", "off", "presets", "360"}
      [] x.o = "start" -> x.a = "number" /\ x.n \in 1..300
      [] OTHER -> x.a # "invalid"

(* An invalid argument ends the program, and so does -h, both before       *)
(* anything is sent.  Not so an invalid argument of -B, which changes      *)
(* nothing, and an option that does not exist, which is passed over.       *)
Known(o) == o = "move-reverse" \/ \E i \in DOMAIN Order : Order[i] = o
Rejects(line) ==
    \/ line = <<>>
    \/ \E i \in DOMAIN line :
          \/ line[i].o = "help"
          \/ Known(line[i].o) /\ line[i].o # "babycrying" /\ ~Accepts(line[i])

Opposite(d) == CASE d = "left" -> "right" [] d = "right" -> "left"
                 [] d = "up" -> "down" [] d = "down" -> "up" [] OTHER -> d

(* -m and -M set one variable; of options that repeat, the last one counts.*)
Meant(x) == IF x.o = "move-reverse" THEN Option("move", Opposite(x.a), 0) ELSE x
Value(line, o) ==
    LET at == {i \in DOMAIN line :
                 Meant(line[i]).o = o /\ (o = "babycrying" => line[i].a \in {"on", "off"})} IN
    IF at = {} THEN Option(o, "none", 0)
    ELSE Meant(line[CHOOSE i \in at : \A j \in at : j <= i])

(* What a camera of this kind must be told to turn in a direction.         *)
Turn(d) == CASE PtzKind = "v2" -> Opposite(d)
             [] PtzKind = "v2_alt" /\ d \in {"left", "right"} -> Opposite(d)
             [] OTHER -> d

-----------------------------------------------------------------------------
(* The steps for one option.                                               *)
Nothing == Option("none", "none", 0)
Step(what) == [do |-> what, m |-> Nothing]
Send(o, a, n) == [do |-> "send", m |-> Option(o, a, n)]

(* Definitions named Mut... are faults a change could bring in; the runs   *)
(* show which property each of them breaks.                                *)
MutHome == <<Step("sleep"), Send("add_preset", "given", 0)>>
Home == <<Send("remove_preset", "number", 0), Step("sleep"), Send("add_preset", "given", 0)>>

MutStart == <<Send("motion", "start", 0), Step("fork"), Step("sleep")>>
Start == <<Send("motion", "start", 0), Step("fork"), Step("sleep"), Send("motion", "stop", 0)>>

Steps(x) == IF x.a = "none" THEN <<>> ELSE
    CASE x.o = "move" -> <<Send("move", Turn(x.a), 0)>>
      [] x.o \in {"jump-abs", "jump-rel"} -> <<Step("read_ptz"), Send("jump", "position", 0)>>
      [] x.o \in {"get-pos", "is_moving"} -> <<Step("read_ptz")>>
      [] x.o = "preset" -> IF x.n = -1 THEN <<>> ELSE <<Send("preset", "number", x.n % 256)>>
      [] x.o = "set_home_position" -> Home
      [] x.o = "remove_preset" /\ x.a = "all" ->
            [i \in 1..Cardinality(Places) |-> Send(x.o, "number", i - 1)]
      [] x.o = "cruise" /\ x.a \in {"presets", "360"} ->
            <<Send("cruise", "on", 0), Step("sleep"), Send("cruise", x.a, 0)>>
      [] x.o = "file" -> <<Step("read_file"), Send("file", "content", 0)>>
      [] x.o = "start" -> Start
      [] x.o = "stop" -> <<Send("motion", "stop", 0)>>
      [] x.o = "save_config" -> <<Step("worker_queue"), Step("return")>>
      [] OTHER -> <<Send(x.o, x.a, x.n)>>

(* The variables that getopt_long() leaves set, by their place in Order. A *)
(* process is those it has not acted on yet, and what it still has to do   *)
(* for the one it is at.                                                   *)
NoProcess == [given |-> <<>>, steps |-> <<>>]
GivenBy(line) ==
    LET value == [k \in DOMAIN Order |-> Value(line, Order[k])] IN
    [k \in {k \in DOMAIN Order : Steps(value[k]) # <<>>} |-> value[k]]

ProcessOf(line) == IF Rejects(line) THEN NoProcess
                   ELSE [given |-> GivenBy(line), steps |-> <<Step("open")>>]

(* What is left of a process when it has done a step.                      *)
Rest(r) == CASE Len(r.steps) > 1 -> [r EXCEPT !.steps = Tail(@)]
             [] Len(r.steps) <= 1 /\ DOMAIN r.given = {} -> NoProcess
             [] OTHER -> LET k == Min(DOMAIN r.given) IN
                         [given |-> Restrict(r.given, DOMAIN r.given \ {k}),
                          steps |-> Steps(r.given[k])]

-----------------------------------------------------------------------------
Idle == [pc |-> "idle", name |-> "", n |-> -1]

CmdInit == /\ up \in BOOLEAN
           /\ mq = <<>> /\ todo = [p \in All |-> NoProcess] /\ daemon = {}
           /\ motion = FALSE /\ presets \in SUBSET Places
           /\ list = [i \in Places |-> IF i \in presets THEN "old" ELSE ""]
           /\ edit = Idle
           /\ orphan = FALSE /\ gap = FALSE
           /\ calls = 0 /\ edits = 0

CameraStarts == /\ ~up /\ up' = TRUE
                /\ UNCHANGED <<mq, todo, daemon, motion, presets, list, edit, orphan,
                               gap, calls, edits>>

(* A web page or a script calls ipc_cmd.                                   *)
Call(p, line) == /\ todo[p] = NoProcess /\ calls < MaxCalls
                 /\ calls' = calls + 1
                 /\ todo' = [todo EXCEPT ![p] = ProcessOf(line)]
                 /\ daemon' = daemon \ {p}
                 /\ UNCHANGED <<up, mq, motion, presets, list, edit, orphan, gap, edits>>

Doing(p, what) == todo[p] # NoProcess /\ Head(todo[p].steps).do = what

(* mq_send waits while the queue is full.                                  *)
MutSends(p) == /\ Doing(p, "send")
               /\ mq' = Append(mq, Head(todo[p].steps).m)
               /\ todo' = [todo EXCEPT ![p] = Rest(@)]
               /\ UNCHANGED <<up, daemon, motion, presets, list, edit, orphan, gap, calls, edits>>
Sends(p) == /\ Doing(p, "send")
            /\ Len(mq) < QueueSize
            /\ mq' = Append(mq, Head(todo[p].steps).m)
            /\ todo' = [todo EXCEPT ![p] = Rest(@)]
            /\ UNCHANGED <<up, daemon, motion, presets, list, edit, orphan, gap, calls, edits>>

(* What may fail, and what only takes time.                                *)
Fallible == {"read_ptz", "read_file", "worker_queue"}
Succeeds(p) == /\ \/ Doing(p, "open") /\ up
                  \/ \E what \in Fallible \cup {"sleep"} : Doing(p, what)
               /\ todo' = [todo EXCEPT ![p] = Rest(@)]
               /\ UNCHANGED <<up, mq, daemon, motion, presets, list, edit, orphan,
                              gap, calls, edits>>

(* The program ends.  The script takes an empty answer to -g for a failure *)
(* and does not look at the other results.                                 *)
Fails(p) == /\ \/ Doing(p, "open") /\ ~up
               \/ \E what \in Fallible : Doing(p, what)
            /\ todo' = [todo EXCEPT ![p] = NoProcess]
            /\ gap' = (gap \/ (p = Script /\ edit.pc = "command"))
            /\ edit' = IF p = Script /\ edit.pc = "position" THEN Idle ELSE edit
            /\ UNCHANGED <<up, mq, daemon, motion, presets, list, orphan, calls, edits>>

Returns(p) == /\ Doing(p, "return")
              /\ todo' = [todo EXCEPT ![p] = NoProcess]
              /\ UNCHANGED <<up, mq, daemon, motion, presets, list, edit, orphan,
                             gap, calls, edits>>

(* The caller goes on, and a child of the child does what is left.         *)
Forks(p) == /\ Doing(p, "fork")
            /\ \/ /\ todo' = [todo EXCEPT ![p] = Rest(@)] /\ daemon' = daemon \cup {p}
                  /\ UNCHANGED orphan
               \/ /\ todo' = [todo EXCEPT ![p] = NoProcess] /\ orphan' = TRUE
                  /\ UNCHANGED daemon
            /\ UNCHANGED <<up, mq, motion, presets, list, edit, gap, calls, edits>>

-----------------------------------------------------------------------------
(* External: the camera takes the first free place for a new preset.       *)
FirstFree(taken) == CHOOSE n \in Places \ taken : \A m \in Places \ taken : n <= m
Taken(S, m) == CASE m.o = "add_preset" /\ S # Places -> S \cup {FirstFree(S)}
                 [] m.o = "remove_preset" -> S \ {m.n}
                 [] OTHER -> S
Handle == /\ mq # <<>>
          /\ mq' = Tail(mq)
          /\ LET m == Head(mq) IN
               /\ motion' = IF m.o = "motion" THEN m.a = "start" ELSE motion
               /\ presets' = Taken(presets, m)
          /\ UNCHANGED <<up, todo, daemon, list, edit, orphan, gap, calls, edits>>

-----------------------------------------------------------------------------
(* ptz_presets.sh.                                                         *)
Named(l) == {i \in Places : l[i] # ""}
Without(S) == [i \in Places |-> IF i \in S THEN "" ELSE list[i]]

Commands(line) == /\ todo' = [todo EXCEPT ![Script] = ProcessOf(line)]
                  /\ edit' = [edit EXCEPT !.pc = "command"]

(* add_preset asks for the position first, for the list.                   *)
AddAsked(name, n) == /\ edit' = [pc |-> "position", name |-> name, n |-> n]
                     /\ todo' = [todo EXCEPT ![Script] = ProcessOf(<<Flag("get-pos")>>)]
                     /\ UNCHANGED list

DelAsked(S, x) == list' = Without(S) /\ Commands(<<x>>)

(* edit_preset del 0, then edit_preset add: not if the name is in use.     *)
HomeAsked == LET l == Without({0}) IN
             /\ list' = IF \E i \in Places : l[i] = "Home" THEN l
                        ELSE [l EXCEPT ![FirstFree(Named(l))] = "Home"]
             /\ Commands(<<Flag("set_home_position")>>)

Asked(e) == /\ edit = Idle /\ edits < MaxEdits
            /\ edits' = edits + 1
            /\ CASE e.do = "add" -> AddAsked(e.name, e.n)
                 [] e.do = "del" -> DelAsked({e.n} \cap Places,
                                             Option("remove_preset", "number", e.n))
                 [] e.do = "all" -> DelAsked(Places, Option("remove_preset", "all", 0))
                 [] e.do = "home" -> HomeAsked
            /\ UNCHANGED <<up, mq, daemon, motion, presets, orphan, gap, calls>>

(* edit_preset add: refused if the name is there or no place is free.  A   *)
(* number that was given replaces what is there.                           *)
Refused == edit.n = -1 /\ ((\E i \in Places : list[i] = edit.name) \/ Named(list) = Places)

Positioned == /\ edit.pc = "position" /\ todo[Script] = NoProcess
              /\ IF Refused THEN edit' = Idle /\ UNCHANGED <<list, todo>>
                 ELSE LET n == IF edit.n = -1 THEN FirstFree(Named(list)) ELSE edit.n IN
                      /\ list' = [i \in Places |-> IF i = n THEN edit.name ELSE list[i]]
                      /\ Commands(<<Flag("add_preset")>>)
              /\ UNCHANGED <<up, mq, daemon, motion, presets, orphan, gap, calls, edits>>

Finished == /\ edit.pc = "command" /\ todo[Script] = NoProcess
            /\ edit' = Idle
            /\ UNCHANGED <<up, mq, todo, daemon, motion, presets, list, orphan, gap,
                           calls, edits>>

-----------------------------------------------------------------------------
Runs(p) == Sends(p) \/ Succeeds(p) \/ Fails(p) \/ Returns(p) \/ Forks(p)
CmdNext == \/ CameraStarts \/ Handle \/ Positioned \/ Finished
           \/ \E e \in Edits : Asked(e)
           \/ \E p \in All : Runs(p)
           \/ \E p \in Procs, line \in Lines : Call(p, line)

(* Processes run on, sleep() ends, and the camera reads its queue.         *)
CmdFairness == WF_cmdVars(Handle) /\ \A p \in All : WF_cmdVars(Runs(p))
CmdSpec == CmdInit /\ [][CmdNext]_cmdVars /\ CmdFairness

-----------------------------------------------------------------------------
(* Type invariant of the commands: what is queued or still to be sent is a *)
(* message the camera can take, and the queue keeps its size.              *)
IsMessage(m) == m.o = "remove_preset" => m.a = "number" /\ m.n \in Places
Valid == {m \in Message : IsMessage(m)}
Deeds == {"open", "send", "sleep", "fork", "return"} \cup Fallible
Act == [do : Deeds, m : Valid]
IsProcess(r) == /\ r = [given |-> r.given, steps |-> r.steps] /\ r.steps \in Seq(Act)
                /\ DOMAIN r.given \subseteq DOMAIN Order
                /\ \A k \in DOMAIN r.given : r.given[k] \in Message
CommandsTypeOK ==
    /\ up \in BOOLEAN /\ motion \in BOOLEAN /\ orphan \in BOOLEAN /\ gap \in BOOLEAN
    /\ DOMAIN todo = All /\ \A p \in All : IsProcess(todo[p])
    /\ mq \in Seq(Valid) /\ Len(mq) <= QueueSize
    /\ daemon \subseteq Procs /\ presets \subseteq Places
    /\ list \in [Places -> Words]
    /\ edit \in [pc : {"idle", "position", "command"}, name : Words, n : Int]
    /\ edit.pc = "idle" => edit = Idle /\ todo[Script] = NoProcess
    /\ calls \in 0..MaxCalls /\ edits \in 0..MaxEdits

(* A motion event that was started ends, unless the process that was to    *)
(* end it could not be made.                                               *)
MotionEnds == motion ~> (~motion \/ orphan)

(* The list of the presets and the camera agree about the places that are  *)
(* taken once all commands are handled, although each finds the first free *)
(* place on its own, if no command of the script failed.  They need not if *)
(* presets are changed by others as well, if an add gives a place that is  *)
(* not the first free one, or if a preset of somebody else is called Home: *)
(* the camera is told nothing of that.                                     *)
PresetOptions == {"add_preset", "remove_preset", "set_home_position"}
ScriptOnly == \A line \in Lines : \A i \in DOMAIN line : line[i].o \notin PresetOptions
PlainEdits == \A e \in Edits : e.do = "add" => e.n = -1 /\ e.name \notin {"", "Home"}
ListAgrees == (edit = Idle /\ mq = <<>> /\ ~gap) => Named(list) = presets
=============================================================================
