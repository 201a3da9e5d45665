-------------------------- MODULE MqttConfigProofs --------------------------
(***************************************************************************)
(* Theorems about mqtt-config, for any number of messages, edits and power *)
(* cuts, and wherever a config_replace fails: what system.conf holds, and  *)
(* that main() does not wait on a connection without a subscription.       *)
(***************************************************************************)
EXTENDS MqttConfig, TLAPS

(* A copy has what its writer changes, and elsewhere what was saved last,  *)
(* but for the lines that were saved since it was made.                    *)
Right(text, change, old) ==
    \A p \in Lines : IF p = change.param THEN text[p] = change.value
                                         ELSE p \in old \/ text[p] = want[p]

CopyIsRight == Replacing => IF tmp = Nothing THEN blanked
                                             ELSE Right(tmp, saving, missed.tmp)
DraftIsRight ==
    edit.open => /\ edit.param \in Lines
                 /\ IF draft = Nothing THEN blanked ELSE Right(draft, edit, missed.draft)

(* From the SUBSCRIBE on, wherever main() is.                              *)
Listening == {"inner", "check", "loop", "command", "copied", "truncated"}
Heard == /\ pc \in Listening => /\ link \in {"sent", "up"} => sub
                                /\ state = "connected" => link # "none"
         /\ pc = "subscribe" => link \in {"sent", "lost"}

FileInv == CopyIsRight /\ DraftIsRight /\ AsSaved
IInv == TypeOK /\ FileInv /\ Heard

LEMMA NothingIsFile == Nothing \in Files /\ DOMAIN Nothing = {}
BY DEF Nothing, Files

LEMMA InstalledIsFile == Installed \in [Lines -> Texts] /\ Installed \in Files
BY DEF Installed, Lines, Texts, Payloads, Empty, Files

(* A file is empty or has every line.                                      *)
LEMMA FileCases == ASSUME NEW f \in Files
                   PROVE  /\ f # Nothing => f \in [Lines -> Texts]
                          /\ f \in [Lines -> Texts] => f # Nothing
<1>1. "HTTPD" \in Lines
  BY DEF Lines
<1> QED BY <1>1, NothingIsFile DEF Files

LEMMA PutLines == ASSUME NEW f \in [Lines -> Texts], NEW p, NEW v \in Texts
                  PROVE  /\ Put(f, p, v) \in [Lines -> Texts]
                         /\ \A q \in Lines : Put(f, p, v)[q] = IF q = p THEN v ELSE f[q]
BY DEF Put

(* A changed text is empty if the text was.                                *)
LEMMA PutFile == ASSUME NEW f \in Files, NEW p, NEW v \in Texts
                 PROVE  /\ Put(f, p, v) \in Files
                        /\ Put(f, p, v) = Nothing <=> f = Nothing
                        /\ f # Nothing => \A q \in Lines :
                             Put(f, p, v)[q] = IF q = p THEN v ELSE f[q]
<1>1. CASE f = Nothing
  <2>1. Put(f, p, v) = Nothing
    BY <1>1, NothingIsFile DEF Put, Nothing
  <2> QED BY <1>1, <2>1, NothingIsFile
<1>2. CASE f # Nothing
  <2>1. f \in [Lines -> Texts]
    BY <1>2, FileCases
  <2>2. Put(f, p, v) \in [Lines -> Texts] /\ Put(f, p, v) \in Files
    BY <2>1, PutLines DEF Files
  <2> QED BY <1>2, <2>1, <2>2, PutLines, FileCases
<1> QED BY <1>1, <1>2

(* What config_replace changes is a line of a file that is not empty.      *)
LEMMA ChangeType == ASSUME NEW p, NEW v \in Texts, file \in Files
                    PROVE  /\ Change(p, v) \in Changes
                           /\ Change(p, v).param \in Lines => file # Nothing
<1>1. DOMAIN file \subseteq Lines
  BY NothingIsFile, FileCases
<1>2. Empty \in Texts /\ "none" \notin Lines
  BY DEF Texts, Lines
<1> QED BY <1>1, <1>2, NothingIsFile DEF Change, Changes, None

(* mosquitto_loop is called in two places and leads to three.              *)
LEMMA LoopMoves == ASSUME Loop, started \in BOOLEAN
                   PROVE  /\ pc \in {"inner", "loop"}
                          /\ pc' \in {"connect", "check", "loop"}
                          /\ started' \in BOOLEAN
BY DEF Loop, Return

LEMMA InitInv == ASSUME Init PROVE IInv
<1>1. TypeOK
  <2>1. /\ tmp \in Files /\ file \in Files /\ draft \in Files
        /\ want \in [Lines -> Texts]
    BY NothingIsFile, InstalledIsFile DEF Init
  <2>2. /\ messages \in 0..MaxMessages /\ edits \in 0..MaxEdits
        /\ cuts \in 0..MaxCuts
    BY MqttConfigAssumption DEF Init
  <2>3. Empty \in Texts
    BY DEF Texts
  <2>4. saving \in Changes /\ edit \in Edits /\ missed \in Misses
    BY <2>3 DEF Init, None, Changes, Edits, Misses
  <2> QED BY <2>1, <2>2, <2>4 DEF Init, TypeOK, MqttTypes, FileTypes, Bounds
<1>2. FileInv
  BY InstalledIsFile, FileCases
     DEF Init, FileInv, CopyIsRight, DraftIsRight, AsSaved, Replacing
<1>3. Heard
  BY DEF Init, Heard, Listening
<1> QED BY <1>1, <1>2, <1>3 DEF IInv

-----------------------------------------------------------------------------
(* What a message does to the file and to where main() is.                 *)
LEMMA MessageInv ==
    ASSUME IInv, Message, pc' \in {"check", "command", "dead"},
           UNCHANGED <<tmp, saving, missed, blanked>>
    PROVE  IInv'
<1>1. TypeOK'
  BY MqttConfigAssumption DEF IInv, TypeOK, MqttTypes, FileTypes, Bounds, Message
<1>2. FileInv'
  BY DEF IInv, FileInv, CopyIsRight, DraftIsRight, AsSaved, Right, Replacing, Message
<1>3. Heard'
  BY DEF IInv, Heard, Listening, Message
<1> QED BY <1>1, <1>2, <1>3 DEF IInv

LEMMA CopyInv == ASSUME IInv, Copy PROVE IInv'
<1> PICK p \in Params, v \in Payloads :
      /\ saving' = Change(p, v)
      /\ \/ tmp' = Put(file, saving'.param, v) /\ UNCHANGED blanked
         \/ tmp' = Nothing /\ blanked' = TRUE
  BY DEF Copy
<1> USE DEF IInv, TypeOK, MqttTypes, FileTypes, Bounds, Changes, Edits, Misses
<1>1. v \in Texts
  BY DEF Texts
<1>2. /\ saving' \in Changes
      /\ saving'.param \in Lines => saving'.value = v
  BY <1>1, ChangeType DEF Change, None, Lines
<1>3. /\ missed' \in Misses
      /\ missed'.tmp = missed.file /\ missed'.draft = missed.draft
      /\ missed'.file = missed.file
  BY DEF Copy
<1>4. tmp' \in Files /\ blanked' \in BOOLEAN
  <2>1. Put(file, saving'.param, v) \in Files
    BY <1>1, PutFile
  <2> QED BY <2>1, NothingIsFile
<1>5. UNCHANGED <<file, draft, edit, want>> /\ ~Replacing /\ pc = "loop"
  BY DEF Copy, Message, Replacing
<1>6. TypeOK'
  BY <1>2, <1>3, <1>4, MqttConfigAssumption DEF Copy, Message
<1>7. blanked => blanked'
  OBVIOUS
<1>8. CopyIsRight'
  <2>1. CASE tmp' = Nothing
    <3>1. CASE blanked'
      BY <2>1, <3>1 DEF CopyIsRight
    <3>2. CASE tmp' = Put(file, saving'.param, v)
      <4>1. file = Nothing
        BY <1>1, <2>1, <3>2, PutFile
      <4> QED BY <1>5, <1>7, <2>1, <4>1 DEF FileInv, AsSaved, CopyIsRight
    <3> QED BY <3>1, <3>2
  <2>2. CASE tmp' # Nothing
    <3>1. tmp' = Put(file, saving'.param, v) /\ file # Nothing
      BY <1>1, <2>2, PutFile
    <3>2. \A q \in Lines : tmp'[q] = IF q = saving'.param THEN v ELSE file[q]
      BY <1>1, <3>1, PutFile
    <3>3. \A q \in Lines \ missed.file : file[q] = want[q]
      BY <3>1 DEF FileInv, AsSaved
    <3>4. Right(tmp, saving, missed.tmp)'
      BY <1>2, <1>3, <1>5, <3>2, <3>3 DEF Right
    <3> QED BY <2>2, <3>4 DEF CopyIsRight
  <2> QED BY <2>1, <2>2
<1>9. DraftIsRight'
  BY <1>3, <1>5, <1>7 DEF FileInv, DraftIsRight, Right
<1>10. AsSaved'
  BY <1>3, <1>5, <1>7 DEF FileInv, AsSaved
<1>11. Heard'
  BY DEF Heard, Listening, Copy, Message
<1> QED BY <1>6, <1>8, <1>9, <1>10, <1>11 DEF FileInv

LEMMA TruncateInv == ASSUME IInv, Truncate PROVE IInv'
<1>1. TypeOK'
  BY NothingIsFile DEF IInv, TypeOK, MqttTypes, FileTypes, Bounds, Truncate, counters
<1>2. FileInv'
  BY DEF IInv, FileInv, CopyIsRight, DraftIsRight, AsSaved, Right, Replacing, Truncate
<1>3. Heard'
  BY DEF IInv, Heard, Listening, Truncate
<1> QED BY <1>1, <1>2, <1>3 DEF IInv

(* The three ends of a config_replace have these in common.                *)
LEMMA EndsInv == ASSUME IInv, Ends, Replacing,
                        file' \in Files, want' \in [Lines -> Texts], blanked' \in BOOLEAN,
                        missed' \in Misses,
                        DraftIsRight', AsSaved'
                 PROVE  IInv'
<1>1. Empty \in Texts
  BY DEF Texts
<1>2. saving' \in Changes /\ tmp' \in Files
  BY <1>1, NothingIsFile DEF Ends, None, Changes
<1>3. TypeOK'
  BY <1>2 DEF IInv, TypeOK, MqttTypes, FileTypes, Bounds, Ends, counters
<1>4. CopyIsRight'
  BY DEF CopyIsRight, Replacing, Ends
<1>5. Heard'
  BY DEF IInv, Heard, Listening, Ends, Replacing
<1> QED BY <1>3, <1>4, <1>5 DEF IInv, FileInv

LEMMA NotTruncatedInv == ASSUME IInv, NotTruncated PROVE IInv'
<1>1. /\ missed' \in Misses
      /\ missed'.file = missed.file /\ missed'.draft = missed.draft
  BY DEF IInv, TypeOK, FileTypes, Misses, NotTruncated
<1>2. UNCHANGED <<file, want, draft, edit, blanked>> /\ Ends /\ Replacing /\ pc = "copied"
  BY DEF NotTruncated, Ends, Replacing
<1>3. DraftIsRight' /\ AsSaved'
  BY <1>1, <1>2 DEF IInv, FileInv, DraftIsRight, AsSaved, Right
<1> QED BY <1>1, <1>2, <1>3, EndsInv DEF IInv, TypeOK, FileTypes

LEMMA NotWrittenInv == ASSUME IInv, NotWritten PROVE IInv'
<1>1. /\ missed' \in Misses
      /\ missed'.file = missed.file /\ missed'.draft = missed.draft
  BY DEF IInv, TypeOK, FileTypes, Misses, NotWritten
<1>2. /\ UNCHANGED <<file, want, draft, edit>> /\ Ends /\ Replacing
      /\ blanked' \in BOOLEAN /\ blanked' = (blanked \/ held)
  BY DEF NotWritten, Ends, Replacing, IInv, TypeOK
<1>3. DraftIsRight' /\ AsSaved'
  BY <1>1, <1>2 DEF IInv, FileInv, DraftIsRight, AsSaved, Right
<1> QED BY <1>1, <1>2, <1>3, EndsInv DEF IInv, TypeOK, FileTypes

LEMMA WriteInv == ASSUME IInv, Write PROVE IInv'
<1> DEFINE saved == {saving.param} \cap Lines
<1> USE DEF IInv, TypeOK, MqttTypes, FileTypes, Bounds, Changes, Edits, Misses
<1>1. /\ Ends /\ Replacing /\ pc = "truncated" /\ UNCHANGED <<draft, edit, blanked>>
      /\ file' = IF held THEN tmp ELSE file
  BY DEF Write, Ends, Replacing
<1>2. /\ missed' \in Misses
      /\ missed'.file = IF held THEN missed.tmp \ saved ELSE missed.file \cup saved
      /\ edit.open => missed'.draft = missed.draft \cup saved
  BY DEF Write
<1>3. /\ want' \in [Lines -> Texts]
      /\ \A q \in Lines : want'[q] = IF q = saving.param THEN saving.value ELSE want[q]
  BY PutLines DEF Write
<1>4. DraftIsRight'
  <2>1. ASSUME edit.open, draft # Nothing PROVE Right(draft, edit, missed.draft)'
    BY <1>1, <1>2, <1>3, <2>1 DEF FileInv, DraftIsRight, Right
  <2> QED BY <1>1, <2>1 DEF FileInv, DraftIsRight
<1>5. AsSaved'
  <2>1. CASE held
    <3>1. file' = Nothing => blanked'
      BY <1>1, <2>1 DEF FileInv, CopyIsRight
    <3>2. ASSUME file' # Nothing, NEW q \in Lines \ missed'.file PROVE file'[q] = want'[q]
      BY <1>1, <1>2, <1>3, <2>1, <3>2 DEF FileInv, CopyIsRight, Right
    <3> QED BY <3>1, <3>2 DEF AsSaved
  <2>2. CASE ~held
    BY <1>1, <1>2, <1>3, <2>2 DEF FileInv, AsSaved
  <2> QED BY <2>1, <2>2
<1> QED BY <1>1, <1>2, <1>3, <1>4, <1>5, EndsInv

LEMMA EditReadsInv == ASSUME IInv, EditReads PROVE IInv'
<1> PICK p \in Lines, v \in {"yes", Empty} :
      /\ edit' = [param |-> p, value |-> v, open |-> TRUE]
      /\ draft' = Put(file, p, v)
  BY DEF EditReads
<1> USE DEF IInv, TypeOK, MqttTypes, FileTypes, Bounds, Changes, Edits, Misses
<1>1. v \in Texts
  BY DEF Texts, Payloads
<1>2. /\ missed' \in Misses
      /\ missed'.draft = missed.file /\ missed'.tmp = missed.tmp
      /\ missed'.file = missed.file
  BY DEF EditReads
<1>3. /\ draft' \in Files /\ edits' \in 0..MaxEdits /\ blanked' \in BOOLEAN
      /\ edit' \in Edits
  BY <1>1, PutFile, MqttConfigAssumption DEF EditReads
<1>4. TypeOK'
  BY <1>2, <1>3 DEF EditReads, mqttVars
<1>5. /\ UNCHANGED <<pc, tmp, held, file, saving, want>>
      /\ blanked' = (blanked \/ (pc = "truncated" /\ held))
  BY DEF EditReads, mqttVars
<1>6. CopyIsRight' /\ AsSaved'
  BY <1>2, <1>5 DEF FileInv, CopyIsRight, AsSaved, Right, Replacing
<1>7. DraftIsRight'
  <2>1. CASE file = Nothing
    <3>1. draft' = Nothing /\ blanked'
      BY <1>1, <1>5, <2>1, PutFile DEF FileInv, AsSaved
    <3> QED BY <3>1 DEF DraftIsRight
  <2>2. CASE file # Nothing
    <3>1. /\ draft' # Nothing
          /\ \A q \in Lines : draft'[q] = IF q = p THEN v ELSE file[q]
      BY <1>1, <2>2, PutFile
    <3>2. \A q \in Lines \ missed.file : file[q] = want[q]
      BY <2>2 DEF FileInv, AsSaved
    <3>3. Right(draft, edit, missed.draft)'
      BY <1>2, <1>5, <3>1, <3>2 DEF Right
    <3> QED BY <3>1, <3>3 DEF DraftIsRight
  <2> QED BY <2>1, <2>2
<1>8. Heard'
  BY DEF Heard, EditReads, mqttVars
<1> QED BY <1>4, <1>6, <1>7, <1>8 DEF FileInv

LEMMA EditRenamesInv == ASSUME IInv, EditRenames PROVE IInv'
<1> DEFINE p == edit.param
<1> USE DEF IInv, TypeOK, MqttTypes, FileTypes, Bounds
<1>1. /\ UNCHANGED <<pc, tmp, saving, blanked>> /\ file' = draft /\ held' = FALSE
      /\ draft' = Nothing /\ edit' = [edit EXCEPT !.open = FALSE] /\ edit.open
  BY DEF EditRenames, mqttVars
<1>2. /\ missed' \in Misses
      /\ missed'.file = missed.draft \ {p}
      /\ Replacing => missed'.tmp = missed.tmp \cup {p}
      /\ p \in Lines
  <2>1. p \in Lines
    BY <1>1 DEF FileInv, DraftIsRight
  <2> QED BY <2>1 DEF EditRenames, Misses
<1>3. /\ want' \in [Lines -> Texts]
      /\ \A q \in Lines : want'[q] = IF q = p THEN edit.value ELSE want[q]
  BY PutLines DEF EditRenames, Edits
<1>4. edit' \in Edits /\ edit'.open = FALSE
  BY <1>1 DEF Edits
<1>5. TypeOK'
  <2>1. UNCHANGED <<started, run, state, link, sub, broker, messages, edits, cuts>>
    BY DEF EditRenames, mqttVars, counters
  <2>2. MqttTypes'
    BY <1>1, <2>1
  <2>3. file' \in Files /\ draft' \in Files
    BY <1>1, NothingIsFile
  <2>4. tmp' \in Files /\ saving' \in Changes /\ held' \in BOOLEAN /\ blanked' \in BOOLEAN
    BY <1>1
  <2>5. Bounds'
    BY <2>1
  <2> HIDE DEF Bounds, MqttTypes, IInv
  <2> QED BY <1>2, <1>3, <1>4, <2>2, <2>3, <2>4, <2>5
<1>6. CopyIsRight'
  <2>1. ASSUME Replacing, tmp # Nothing PROVE Right(tmp, saving, missed.tmp)'
    BY <1>1, <1>2, <1>3, <2>1 DEF FileInv, CopyIsRight, Right, Misses
  <2> QED BY <1>1, <2>1 DEF FileInv, CopyIsRight, Replacing
<1>7. AsSaved'
  <2>1. ASSUME draft # Nothing, NEW q \in Lines \ missed'.file PROVE draft[q] = want'[q]
    BY <1>1, <1>2, <1>3, <2>1 DEF FileInv, DraftIsRight, Right, Misses
  <2>2. draft = Nothing => blanked
    BY <1>1 DEF FileInv, DraftIsRight
  <2> QED BY <1>1, <2>1, <2>2 DEF AsSaved
<1>8. DraftIsRight' /\ Heard'
  BY <1>4 DEF DraftIsRight, Heard, EditRenames, mqttVars
<1> QED BY <1>5, <1>6, <1>7, <1>8 DEF FileInv

LEMMA PowerCutInv == ASSUME IInv, PowerCut PROVE IInv'
<1>1. TypeOK'
  <2>1. cuts' \in 0..MaxCuts
    BY MqttConfigAssumption DEF IInv, TypeOK, Bounds, PowerCut
  <2>2. Empty \in Texts
    BY DEF Texts
  <2>3. /\ tmp' \in Files /\ draft' \in Files /\ held' \in BOOLEAN /\ blanked' \in BOOLEAN
        /\ saving' \in Changes /\ edit' \in Edits /\ missed' \in Misses
    BY <2>2, NothingIsFile
       DEF IInv, TypeOK, FileTypes, Changes, Edits, Misses, PowerCut, None
  <2> QED BY <2>1, <2>3 DEF IInv, TypeOK, MqttTypes, FileTypes, Bounds, PowerCut, Fresh
<1>2. /\ missed'.file = missed.file /\ edit'.open = FALSE
      /\ blanked' = (blanked \/ (pc = "truncated" /\ held))
  BY DEF IInv, TypeOK, FileTypes, Misses, Edits, PowerCut
<1>3. FileInv'
  BY <1>2 DEF IInv, FileInv, CopyIsRight, DraftIsRight, AsSaved, Replacing, PowerCut, Fresh
<1>4. Heard'
  BY DEF Heard, Listening, PowerCut, Fresh
<1> QED BY <1>1, <1>3, <1>4 DEF IInv

-----------------------------------------------------------------------------
(* The steps of the connection: the file stays as it is, and main() is not *)
(* in a config_replace unless it stays in the same one.                    *)
LEMMA ConnectionInv ==
    ASSUME IInv, UNCHANGED <<fileVars, counters>>, MqttTypes', Heard',
           \/ pc' = pc
           \/ ~Replacing /\ pc' \notin {"copied", "truncated"}
    PROVE  IInv'
<1>1. FileInv'
  BY DEF IInv, FileInv, CopyIsRight, DraftIsRight, AsSaved, Right, Replacing, fileVars
<1>2. FileTypes' /\ Bounds'
  BY DEF IInv, TypeOK, FileTypes, Bounds, fileVars, counters
<1> QED BY <1>1, <1>2 DEF IInv, TypeOK

LEMMA ConnectInv == ASSUME IInv, Connect PROVE IInv'
<1>1. MqttTypes'
  BY DEF IInv, TypeOK, MqttTypes, Connect
<1>2. Heard'
  BY DEF Heard, Listening, Connect
<1> QED BY <1>1, <1>2, ConnectionInv DEF Connect, Replacing

LEMMA SubscribeInv == ASSUME IInv, Subscribe PROVE IInv'
<1>1. MqttTypes'
  BY DEF IInv, TypeOK, MqttTypes, Subscribe, Return
<1>2. Heard'
  BY DEF IInv, Heard, Listening, Subscribe, Return
<1> QED BY <1>1, <1>2, ConnectionInv DEF Subscribe, Return, Replacing

LEMMA LoopInv == ASSUME IInv, Loop, UNCHANGED <<run, sub, broker, fileVars, counters>>,
                        link' \in {"none", "sent", "up", "lost"},
                        state' \in {"disconnected", "connecting", "connected"},
                        link' \in {"sent", "up"} => link \in {"sent", "up"},
                        state' = "connected" => link' # "none"
                 PROVE  IInv'
<1>1. /\ pc \in {"inner", "loop"} /\ pc' \in {"connect", "check", "loop"}
      /\ started' \in BOOLEAN
  BY LoopMoves DEF IInv, TypeOK, MqttTypes
<1>2. MqttTypes'
  BY <1>1 DEF IInv, TypeOK, MqttTypes
<1>3. Heard'
  BY <1>1 DEF IInv, Heard, Listening
<1> QED BY <1>1, <1>2, <1>3, ConnectionInv DEF Replacing

LEMMA ConnackInv == ASSUME IInv, Connack PROVE IInv'
BY LoopInv DEF Connack

LEMMA DisconnectedInv == ASSUME IInv, Disconnected PROVE IInv'
BY LoopInv DEF Disconnected

LEMMA QuietInv == ASSUME IInv, Quiet PROVE IInv'
<1>1. pc \in {"inner", "loop"}
  BY LoopMoves DEF IInv, TypeOK, MqttTypes, Quiet
<1>2. state = "connected" => link # "none"
  BY <1>1 DEF IInv, Heard, Listening
<1>3. /\ link \in {"none", "sent", "up", "lost"}
      /\ state \in {"disconnected", "connecting", "connected"}
  BY DEF IInv, TypeOK, MqttTypes
<1> QED BY <1>2, <1>3, LoopInv DEF Quiet

LEMMA CommandEndsInv == ASSUME IInv, CommandEnds PROVE IInv'
<1>1. MqttTypes'
  BY DEF IInv, TypeOK, MqttTypes, CommandEnds
<1>2. Heard'
  BY DEF IInv, Heard, Listening, CommandEnds
<1> QED BY <1>1, <1>2, ConnectionInv DEF CommandEnds, Replacing

LEMMA CheckInv == ASSUME IInv, Check PROVE IInv'
<1>1. pc' \in {"ended", "loop", "connect"} /\ ~Replacing
  BY DEF Check, Replacing
<1>2. MqttTypes'
  BY <1>1 DEF IInv, TypeOK, MqttTypes, Check
<1>3. Heard'
  BY DEF IInv, TypeOK, MqttTypes, Heard, Listening, Check
<1> QED BY <1>1, <1>2, <1>3, ConnectionInv DEF Check

LEMMA StartInv == ASSUME IInv, Start PROVE IInv'
<1>1. MqttTypes'
  BY DEF IInv, TypeOK, MqttTypes, Start, Fresh
<1>2. Heard'
  BY DEF Heard, Listening, Start, Fresh
<1> QED BY <1>1, <1>2, ConnectionInv DEF Start, Fresh, Stopped, Replacing

LEMMA TerminateInv == ASSUME IInv, Terminate PROVE IInv'
<1>1. MqttTypes'
  BY DEF IInv, TypeOK, MqttTypes, Terminate
<1>2. Heard'
  BY DEF IInv, Heard, Terminate
<1> QED BY <1>1, <1>2, ConnectionInv DEF Terminate

LEMMA BrokerInv == ASSUME IInv, BrokerChanges PROVE IInv'
<1>1. link' = link \/ (link' = "lost" /\ link \in {"sent", "up"})
  BY DEF BrokerChanges
<1>2. MqttTypes'
  BY <1>1 DEF IInv, TypeOK, MqttTypes, BrokerChanges
<1>3. Heard'
  BY <1>1 DEF IInv, Heard, BrokerChanges
<1> QED BY <1>2, <1>3, ConnectionInv DEF BrokerChanges

LEMMA NextInv == ASSUME IInv, [Next]_vars PROVE IInv'
<1>1. CASE UNCHANGED vars
  <2>1. MqttTypes'
    BY <1>1 DEF IInv, TypeOK, MqttTypes, vars, mqttVars
  <2>2. Heard'
    BY <1>1 DEF IInv, Heard, vars, mqttVars
  <2> QED BY <1>1, <2>1, <2>2, ConnectionInv DEF vars, mqttVars
<1>2. CASE Program
  BY <1>2, ConnectInv, SubscribeInv, ConnackInv, DisconnectedInv, QuietInv,
     CommandEndsInv, TruncateInv, NotTruncatedInv, WriteInv, NotWrittenInv, CheckInv
     DEF Program
<1>3. CASE Ignore
  BY <1>3, MessageInv DEF Ignore
<1>4. CASE Command
  BY <1>4, MessageInv DEF Command
<1>5. CASE NotCopied
  BY <1>5, MessageInv DEF NotCopied
<1> QED BY <1>1, <1>2, <1>3, <1>4, <1>5, CopyInv, TerminateInv, StartInv, BrokerInv,
           EditReadsInv, EditRenamesInv, PowerCutInv DEF Next

-----------------------------------------------------------------------------
(* The strengthened invariant: a copy under way has what was saved last    *)
(* where the history does not say otherwise, and a connection in use has   *)
(* been subscribed on.                                                     *)
THEOREM Invariance == Spec => []IInv
BY InitInv, NextInv, PTL DEF Spec

(* The variables of mqtt-config keep to their types.                       *)
THEOREM TypeCorrect == Spec => []TypeOK
<1>1. IInv => TypeOK
  BY DEF IInv
<1> QED BY <1>1, Invariance, PTL

(* system.conf is empty only where it is being written, or after a power   *)
(* cut, a read by sed or a failure there; and it lacks only what one       *)
(* program saved while the other had a copy under way.                     *)
THEOREM FileIsAsSaved == Spec => []AsSaved
<1>1. IInv => AsSaved
  BY DEF IInv, FileInv
<1> QED BY <1>1, Invariance, PTL

(* main() does not wait for messages on a connection it believes in but    *)
(* that has ended or was never subscribed on.                              *)
THEOREM WaitsSubscribed == Spec => []NobodyDeaf
<1>1. IInv => NobodyDeaf
  BY DEF IInv, TypeOK, MqttTypes, Heard, Listening, NobodyDeaf
<1> QED BY <1>1, Invariance, PTL
=============================================================================
