------------------------------ MODULE MqttConfig ------------------------------
(***************************************************************************)
(* mqtt-config: changes to the configuration that arrive over MQTT.        *)
(*                                                                         *)
(* The program subscribes to PREFIX/cmnd/#.  A message PREFIX/cmnd/file/   *)
(* param is checked against a table; a parameter of system.conf is written *)
(* to the file, one of the camera is given to a command.  The file is      *)
(* copied, changed, to a temporary file and then written over in place, so *)
(* for a moment it is empty; each of the opens and writes may fail.  The   *)
(* web interface edits the same file with sed -i and neither program locks *)
(* it.                                                                     *)
(*                                                                         *)
(* External: the broker and libmosquitto.  mosquitto_connect sends CONNECT *)
(* and returns; mosquitto_loop handles one packet, or the loss of the      *)
(* connection; a session is clean, so a new connection has no              *)
(* subscription.  The file (930 bytes) is shorter than a buffer of stdio:  *)
(* it is read in one piece, and written in one piece when it is closed or  *)
(* not at all.  What was written before a power cut is in the flash.  sed  *)
(* reads the file, and renames a changed copy to it.                       *)
(***************************************************************************)
EXTENDS Naturals

CONSTANTS MaxMessages,   \* bound: messages the broker delivers
          MaxEdits,      \* bound: edits by the web interface
          MaxCuts        \* bound: power cuts

ASSUME MqttConfigAssumption == /\ MaxMessages \in Nat /\ MaxEdits \in Nat
                               /\ MaxCuts \in Nat

VARIABLES pc,        \* where main() is
          started,   \* mqtt_connect has returned to main() once
          run,       \* the flag SIGTERM clears
          state,     \* conn_state
          link,      \* the connection: none, CONNECT sent, up, or lost unnoticed
          sub,       \* SUBSCRIBE was sent on it
          broker,    \* what the broker does with a CONNECT
          tmp,       \* the temporary file of config_replace
          held,      \* the file it writes is still the one in the directory
          file,      \* system.conf: its parameters and their values
          saving,    \* the line config_replace changes, and to what
          draft,     \* the copy sed makes
          edit,      \* the line sed changes, and whether it is at it
          want,      \* history: what was saved last, by either program
          missed,    \* history: lines saved elsewhere since a copy was made
          blanked,   \* history: something has emptied a file or a copy
          messages, edits, cuts

mqttVars == <<pc, started, run, state, link, sub, broker>>
fileVars == <<tmp, held, file, saving, draft, edit, want, missed, blanked>>
counters == <<messages, edits, cuts>>
vars == <<mqttVars, fileVars, counters>>

-----------------------------------------------------------------------------
(* Rows of config_params, one for each case the code tells apart.  Column 8*)
(* is the command; `"string" ""` is one literal, so such a row has no      *)
(* eighth column and the pointer there is NULL.  RTSP_AUDIO_NR_LEVEL has no*)
(* line in system.conf, FTP_HOST= is there without a value.                *)
Rows == [HTTPD               |-> [type |-> "bool",   command |-> "no"],
         RTSP_AUDIO_NR_LEVEL |-> [type |-> "int",    command |-> "no"],
         FREE_SPACE          |-> [type |-> "int",    command |-> "no"],
         RTSP_STREAM         |-> [type |-> "enum",   command |-> "no"],
         FTP_HOST            |-> [type |-> "string", command |-> "no"],
         NTP_SERVER          |-> [type |-> "string", command |-> "null"],
         SWITCH_ON           |-> [type |-> "bool",   command |-> "yes"]]

Params == DOMAIN Rows
Lines == {"HTTPD", "FREE_SPACE", "RTSP_STREAM", "FTP_HOST"}   \* of system.conf
Empty == "empty"                                  \* a line without a value
Installed == [p \in Lines |-> CASE p = "HTTPD" -> "yes"
                                [] p = "FREE_SPACE" -> "7"
                                [] p = "RTSP_STREAM" -> "word"
                                [] p = "FTP_HOST" -> Empty]

(* Payloads: words for a bool, a number, a number with text behind it, a   *)
(* number out of range, a word of the enum, a text of 128 characters.      *)
Payloads == {"yes", "on", "7", "7x", "400", "word", "long"}

(* validate_param; strtol stops at the first character it cannot use.      *)
Valid(p, v) == CASE Rows[p].type = "bool"   -> v \in {"yes", "on"}
                 [] Rows[p].type = "int"    -> v \in {"7", "7x"}
                 [] Rows[p].type = "enum"   -> v = "word"
                 [] Rows[p].type = "string" -> v # "long"

(* A text with v in the line of p, if it has one.                          *)
Put(text, p, v) == [q \in DOMAIN text |-> IF q = p THEN v ELSE text[q]]

(* What config_replace changes: a line in which sscanf finds both the key  *)
(* and a value.                                                            *)
None == [param |-> "none", value |-> Empty]
Change(p, v) == IF p \in DOMAIN file /\ file[p] # Empty
                THEN [param |-> p, value |-> v] ELSE None

Nothing == [p \in {} |-> Empty]   \* an empty file

Stopped == pc \in {"ended", "dead"}
Replacing == pc \in {"copied", "truncated"}

Init == /\ pc = "connect" /\ started = FALSE /\ run = TRUE
        /\ state = "disconnected" /\ link = "none" /\ sub = FALSE
        /\ broker \in {"accepts", "refuses", "down"}
        /\ tmp = Nothing /\ held = FALSE /\ saving = None
        /\ draft = Nothing /\ edit = [param |-> "none", value |-> Empty, open |-> FALSE]
        /\ file = Installed /\ want = Installed /\ blanked = FALSE
        /\ missed = [file |-> {}, tmp |-> {}, draft |-> {}]
        /\ messages = 0 /\ edits = 0 /\ cuts = 0

-----------------------------------------------------------------------------
(* mqtt_connect.  mosquitto_connect is tried, half a second apart, until   *)
(* it succeeds; nothing looks at run.                                      *)
Connect == /\ pc = "connect"
           /\ sub' = FALSE
           /\ IF broker = "down"
              THEN link' = "none" /\ UNCHANGED <<pc, state>>
              ELSE link' = "sent" /\ pc' = "subscribe" /\ state' = "connecting"
           /\ UNCHANGED <<started, run, broker, fileVars, counters>>

(* mqtt_connect returns: to main(), which looks at run, or, from           *)
(* mqtt_check_connection, to the mosquitto_loop of main().                 *)
Return == /\ pc' = IF started THEN "loop" ELSE "check"
          /\ started' = TRUE

(* Definitions named Mut... are faults a change could bring in; the runs   *)
(* show which property each of them breaks.                                *)
MutSubscribe == /\ pc = "subscribe"
                /\ state' = "connected" /\ pc' = "inner"
                /\ UNCHANGED <<started, run, sub, link, broker, fileVars, counters>>

(* That the connection is gone may only be found out later.  CONNACK has   *)
(* not come yet: connected is set without it.                              *)
Subscribe == /\ pc = "subscribe"
             /\ \/ /\ sub' = TRUE /\ state' = "connected" /\ pc' = "inner"
                   /\ UNCHANGED started
                \/ link = "lost" /\ Return /\ UNCHANGED <<sub, state>>
             /\ UNCHANGED <<run, link, broker, fileVars, counters>>

-----------------------------------------------------------------------------
(* mosquitto_loop is called once in mqtt_connect, which starts over if the *)
(* connection is gone, and in main().                                      *)
Loop == CASE pc = "inner" /\ state' # "connected" ->
               pc' = "connect" /\ UNCHANGED started
          [] pc = "inner" /\ state' = "connected" -> Return
          [] pc = "loop" -> pc' = "check" /\ UNCHANGED started
          [] OTHER -> FALSE

(* connect_callback.  After a refusal the library closes the connection.   *)
Connack == /\ link = "sent"
           /\ \/ link' = "up" /\ state' = "connected"
              \/ broker = "refuses" /\ link' = "none" /\ state' = "disconnected"
           /\ Loop
           /\ UNCHANGED <<run, sub, broker, fileVars, counters>>

MutDisconnected == /\ link = "lost"
                   /\ link' = "none" /\ UNCHANGED state
                   /\ Loop
                   /\ UNCHANGED <<run, sub, broker, fileVars, counters>>

(* disconnect_callback.                                                    *)
Disconnected == /\ link = "lost"
                /\ link' = "none" /\ state' = "disconnected"
                /\ Loop
                /\ UNCHANGED <<run, sub, broker, fileVars, counters>>

(* No packet: the time is up, or there is no connection.                   *)
Quiet == /\ link # "lost"
         /\ UNCHANGED state
         /\ Loop
         /\ UNCHANGED <<run, link, sub, broker, fileVars, counters>>

-----------------------------------------------------------------------------
(* message_callback, in the loop of main().                                *)
Message == /\ pc = "loop" /\ link = "up" /\ sub
           /\ messages < MaxMessages
           /\ messages' = messages + 1
           /\ UNCHANGED <<started, run, state, link, sub, broker,
                          held, file, draft, edit, want, edits, cuts>>

(* A topic or a value that is turned down, or a dump of the configuration, *)
(* which a script does.                                                    *)
Ignore == /\ Message
          /\ \E p \in Params, v \in Payloads : ~Valid(p, v)
          /\ pc' = "check"
          /\ UNCHANGED <<tmp, saving, missed, blanked>>

(* extract_param copies column 8.  NULL cannot be copied; a command does   *)
(* not fit into the two bytes there are: it is run, or the program dies.   *)
Command == /\ Message
           /\ \E p \in Params, v \in Payloads :
                /\ Valid(p, v)
                /\ \/ Rows[p].command = "yes" /\ pc' \in {"command", "dead"}
                   \/ Rows[p].command = "null" /\ pc' = "dead"
           /\ UNCHANGED <<tmp, saving, missed, blanked>>

(* system() returns once the command has been run.                         *)
CommandEnds == /\ pc = "command" /\ pc' = "check"
               /\ UNCHANGED <<started, run, state, link, sub, broker, fileVars, counters>>

(* config_replace: the copy, the file opened for writing, the copy back.   *)
(* Only the opens are looked at: a write that fails leaves an empty file.  *)
Copy == /\ Message
        /\ \E p \in Params, v \in Payloads :
             /\ Valid(p, v) /\ Rows[p].command = "no"
             /\ saving' = Change(p, v)
             /\ \/ tmp' = Put(file, saving'.param, v) /\ UNCHANGED blanked
                \/ tmp' = Nothing /\ blanked' = TRUE
        /\ missed' = [missed EXCEPT !.tmp = missed.file]
        /\ pc' = "copied"

(* The file or the temporary file cannot be opened.                        *)
NotCopied == /\ Message
             /\ \E p \in Params, v \in Payloads :
                  Valid(p, v) /\ Rows[p].command = "no"
             /\ pc' = "check"
             /\ UNCHANGED <<tmp, saving, missed, blanked>>

Truncate == /\ pc = "copied" /\ pc' = "truncated"
            /\ file' = Nothing /\ held' = TRUE
            /\ UNCHANGED <<started, run, state, link, sub, broker, tmp, saving,
                           draft, edit, want, missed, blanked, counters>>

(* The end of a config_replace.  A temporary file that stays behind is of  *)
(* no use: the next one has another name.                                  *)
Ends == /\ pc' = "check"
        /\ tmp' = Nothing /\ held' = FALSE /\ saving' = None
        /\ UNCHANGED <<started, run, state, link, sub, broker, draft, edit, counters>>

(* The file cannot be opened for writing.                                  *)
NotTruncated == /\ pc = "copied" /\ Ends
                /\ missed' = [missed EXCEPT !.tmp = {}]
                /\ UNCHANGED <<file, want, blanked>>

MutWrite == /\ pc = "truncated" /\ Ends
            /\ missed' = [missed EXCEPT !.tmp = {}]
            /\ UNCHANGED <<file, want, blanked>>

(* What is written goes to the file that was opened, which the directory   *)
(* may have no more.                                                       *)
Write == LET saved == {saving.param} \cap Lines IN
         /\ pc = "truncated" /\ Ends
         /\ file' = IF held THEN tmp ELSE file
         /\ want' = Put(want, saving.param, saving.value)
         /\ missed' = [file  |-> IF held THEN missed.tmp \ saved ELSE missed.file \cup saved,
                       tmp   |-> {},
                       draft |-> IF edit.open THEN missed.draft \cup saved ELSE {}]
         /\ UNCHANGED blanked

(* The temporary file cannot be opened again, or the last write fails: the *)
(* file stays as Truncate has left it.                                     *)
NotWritten == /\ pc = "truncated" /\ Ends
              /\ blanked' = (blanked \/ held)
              /\ missed' = [missed EXCEPT !.tmp = {}]
              /\ UNCHANGED <<file, want>>

-----------------------------------------------------------------------------
MutCheck == /\ pc = "check"
            /\ IF state = "connected" THEN pc' = "loop" ELSE pc' = "connect"
            /\ UNCHANGED <<started, run, state, link, sub, broker, fileVars, counters>>

(* main(): while(run), mqtt_check_connection.                              *)
Check == /\ pc = "check"
         /\ CASE ~run -> pc' = "ended" /\ link' = "none" /\ UNCHANGED state
              [] run /\ state = "connected" -> pc' = "loop" /\ UNCHANGED <<link, state>>
              [] run /\ state # "connected" ->
                   pc' = "connect" /\ state' = "disconnected" /\ UNCHANGED link
         /\ UNCHANGED <<started, run, sub, broker, fileVars, counters>>

(* service.sh: killall sends SIGTERM; a start is a new process.            *)
Terminate == /\ ~Stopped /\ run' = FALSE
             /\ UNCHANGED <<pc, started, state, link, sub, broker, fileVars, counters>>

Fresh == /\ pc' = "connect" /\ started' = FALSE /\ run' = TRUE
         /\ state' = "disconnected" /\ link' = "none" /\ sub' = FALSE

Start == /\ Stopped /\ Fresh
         /\ UNCHANGED <<broker, fileVars, counters>>

(* The broker or the network comes and goes.                               *)
BrokerChanges == /\ broker' \in {"accepts", "refuses", "down"} \ {broker}
                 /\ link' \in IF link \in {"sent", "up"} /\ broker' = "down"
                              THEN {"lost"} ELSE {link}
                 /\ UNCHANGED <<pc, started, run, state, sub, fileVars, counters>>

(* set_configs.sh: sed -i reads the file, makes a copy and renames it to   *)
(* this one.                                                               *)
EditReads == /\ edits < MaxEdits /\ ~edit.open
             /\ \E p \in Lines, v \in {"yes", Empty} :
                  /\ edit' = [param |-> p, value |-> v, open |-> TRUE]
                  /\ draft' = Put(file, p, v)
             /\ missed' = [missed EXCEPT !.draft = missed.file]
             /\ blanked' = (blanked \/ (pc = "truncated" /\ held))
             /\ edits' = edits + 1
             /\ UNCHANGED <<mqttVars, tmp, held, file, saving, want, messages, cuts>>

EditRenames == /\ edit.open /\ edit' = [edit EXCEPT !.open = FALSE]
               /\ file' = draft /\ held' = FALSE /\ draft' = Nothing
               /\ want' = Put(want, edit.param, edit.value)
               /\ missed' = [file  |-> missed.draft \ {edit.param},
                             tmp   |-> IF Replacing THEN missed.tmp \cup {edit.param} ELSE {},
                             draft |-> {}]
               /\ UNCHANGED <<mqttVars, tmp, saving, blanked, counters>>

(* /tmp is in memory; the program is started again at boot.                *)
PowerCut == /\ cuts < MaxCuts
            /\ cuts' = cuts + 1
            /\ Fresh
            /\ tmp' = Nothing /\ held' = FALSE /\ saving' = None
            /\ draft' = Nothing /\ edit' = [edit EXCEPT !.open = FALSE]
            /\ missed' = [missed EXCEPT !.tmp = {}, !.draft = {}]
            /\ blanked' = (blanked \/ (pc = "truncated" /\ held))
            /\ UNCHANGED <<broker, file, want, messages, edits>>

Program == \/ Connect \/ Subscribe \/ Connack \/ Disconnected \/ Quiet
           \/ CommandEnds \/ Truncate \/ NotTruncated \/ Write \/ NotWritten \/ Check
Next == \/ Program \/ Ignore \/ Command \/ Copy \/ NotCopied
        \/ Terminate \/ Start \/ BrokerChanges \/ EditReads \/ EditRenames \/ PowerCut

Spec == Init /\ [][Next]_vars

(* The program goes on; a packet of the broker, or the loss of the         *)
(* connection (the keep-alive is 15 s), is found in the end.               *)
FairSpec == Spec /\ WF_vars(Program) /\ SF_vars(Connack) /\ SF_vars(Disconnected)

-----------------------------------------------------------------------------
(* Type invariant of mqtt-config and of the file it writes.                *)
Texts == Payloads \cup {Empty}
Files == {Nothing} \cup [Lines -> Texts]
Changes == [param : Lines \cup {"none"}, value : Texts]
Edits == [param : Lines \cup {"none"}, value : Texts, open : BOOLEAN]
Misses == [file : SUBSET Lines, tmp : SUBSET Lines, draft : SUBSET Lines]

MqttTypes == /\ pc \in {"connect", "subscribe", "inner", "check", "loop", "command",
                        "copied", "truncated", "ended", "dead"}
             /\ started \in BOOLEAN /\ run \in BOOLEAN
             /\ state \in {"disconnected", "connecting", "connected"}
             /\ link \in {"none", "sent", "up", "lost"} /\ sub \in BOOLEAN
             /\ broker \in {"accepts", "refuses", "down"}
FileTypes == /\ tmp \in Files /\ file \in Files /\ draft \in Files
             /\ want \in [Lines -> Texts]
             /\ saving \in Changes /\ edit \in Edits /\ missed \in Misses
             /\ held \in BOOLEAN /\ blanked \in BOOLEAN
Bounds == /\ messages \in 0..MaxMessages /\ edits \in 0..MaxEdits
          /\ cuts \in 0..MaxCuts
TypeOK == MqttTypes /\ FileTypes /\ Bounds

(* How far the damage goes.  system.conf is empty only while config_replace*)
(* writes it, or after one of three things has happened: the power was cut *)
(* there, sed read it there, or an open or a write of config_replace       *)
(* failed.  Otherwise every line holds what was saved there last, by the   *)
(* web or by MQTT, but for the lines that one of them saved while the      *)
(* other had a copy under way.                                             *)
AsSaved == /\ file = Nothing => (pc = "truncated" /\ held) \/ blanked
           /\ file # Nothing => \A p \in Lines \ missed.file : file[p] = want[p]

(* What set_configs.sh has edited, and answered with no error, is in the   *)
(* file until the parameter is saved again.  It is not if config_replace   *)
(* had made its copy before: another line is written back as it was.       *)
EditKept == LET p == edit.param IN
            p \in Lines /\ ~edit.open /\ want[p] = edit.value
              => file = Nothing \/ file[p] = edit.value

(* When main() waits for messages and takes itself to be connected, then   *)
(* it is, with a subscription, or the loss will be noticed.                *)
NobodyDeaf == pc = "loop" /\ state = "connected" =>
                link = "lost" \/ (link \in {"sent", "up"} /\ sub)

(* As long as the broker accepts connections the program subscribes again  *)
(* after every loss, until it is to stop.                                  *)
Unavailable == broker # "accepts" \/ ~run \/ Stopped
HearsAgain == []<>(Unavailable \/ (link = "up" /\ sub))

(* SIGTERM ends the program while the broker accepts connections: without  *)
(* it mqtt_connect never returns to look at run.                           *)
StopHeeded == ~run ~> (Stopped \/ broker # "accepts" \/ run)
=============================================================================
