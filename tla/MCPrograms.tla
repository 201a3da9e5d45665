------------------------------ MODULE MCPrograms ------------------------------
(***************************************************************************)
(* Three programs that share nothing, each explored on its own: the        *)
(* commands of ipc_cmd with the script of the presets, the start of        *)
(* rRTSPServer, and the thumbnails with the other snapshots.               *)
(***************************************************************************)
EXTENDS CameraCommands, ServerSetup, Snapshot

VARIABLE program

vars == <<cmdVars, setupVars, snapVars, program>>

(* Command lines as the web pages and scripts give them: one that goes on  *)
(* after the daemon has slept, one that is refused, and one of which two   *)
(* options are passed over.                                                *)
MCLines == {<<Flag("save_config"), Option("start", "number", 1), Flag("xxx")>>,
            <<Option("rotate", "o", 0), Option("start", "number", 60)>>,
            <<Option("move", "left", 0), Flag("unknown"), Option("babycrying", "maybe", 0),
              Option("file", "name", 0)>>}

(* Not among them: an add with a number on a place that is taken or not    *)
(* the first free one, and a preset of somebody else that is called Home.  *)
(* The camera is not told of either, so list and camera may disagree.      *)
MCEdits == {[do |-> "add", name |-> "door", n |-> -1],
            [do |-> "del", name |-> "", n |-> 0],
            [do |-> "del", name |-> "", n |-> 9],
            [do |-> "all", name |-> "", n |-> 0],
            [do |-> "home", name |-> "", n |-> 0]}

MCWords == STRING

(* These lines and edits are such as the theorem about the presets is for. *)
ASSUME ListAssumption == ScriptOnly /\ PlainEdits

(* Option lists of service.sh, of a user, and none at all.                 *)
Opts(m, r, a, b) == [model |-> m, res |-> r, audio |-> a, back |-> b]
NoOpts == Opts("", "", "", "")
MCArgs == {NoOpts} \cup {Opts(m, r, a, b) : m \in {"y20ga", "r40ga"},
                           r \in {"low", "high", "both", "none", "all"},
                           a \in {"", "no", "alaw", "aac"}, b \in {"", "ulaw", "aac"}}
MCEnvs == {NoOpts, Opts("y21ga", "both", "", "mp3"), Opts("", "none", "pcm", "alaw")}

(* A stream of H.264, and files with one to three samples of H.264 or of  *)
(* H.265, the first one a key frame: with delimiters and SEI, in two       *)
(* slices, P frames of either importance.                                  *)
MCGop == <<"sps", "pps", "idr">>
Samples(K, P) == LET Q == K \cup P IN
    K \cup {k \o x : k \in K, x \in Q} \cup {k \o x \o y : k \in K, x \in Q, y \in Q}
MCFiles == Samples({<<103, 104, 101>>, <<9, 103, 104, 6, 101, 101>>}, {<<65>>, <<97>>})
           \cup Samples({<<64, 66, 68, 38>>, <<64, 66, 68, 78, 38>>}, {<<2>>})

(* All of them are such as the theorem about the picture is for.           *)
ASSUME FilesAssumption == \A f \in MCFiles : KeyFrameFirst(f)

Init == /\ CmdInit /\ SetupInit /\ SnapInit
        /\ program \in {"commands", "server", "thumbs"}
        /\ program # "commands" => ~up
        /\ ~up => presets = {}     \* a bound: a camera that starts late has none
        /\ program # "server" => args = NoOpts /\ env = NoOpts
        /\ on = (program = "thumbs") /\ (enabled \/ program = "thumbs")

Next == \/ program = "commands" /\ CmdNext /\ UNCHANGED <<setupVars, snapVars, program>>
        \/ program = "server" /\ SetupNext /\ UNCHANGED <<cmdVars, snapVars, program>>
        \/ program = "thumbs" /\ SnapNext /\ UNCHANGED <<cmdVars, setupVars, program>>

FairSpec == Init /\ [][Next]_vars /\ CmdFairness /\ SnapFairness

(* The variables of each program have their types.                         *)
ProgramsTypeOK == CommandsTypeOK /\ SnapTypeOK
=============================================================================
