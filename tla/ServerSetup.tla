------------------------------ MODULE ServerSetup ------------------------------
(***************************************************************************)
(* main() of rRTSPServer: from its options to the sessions it offers.      *)
(*                                                                         *)
(* The options are overridden by variables of the environment; some of     *)
(* them need a file.  Then the capture thread is started: it finds out the *)
(* codec of each stream from the ring and fills the queues (FrameQueue has *)
(* the queues), while main() waits for both codecs and builds one RTSP     *)
(* session per stream.                                                     *)
(*                                                                         *)
(* Left out: port, user and password, the debug mask, the clock of the     *)
(* timestamps, and the offset and header size that go with each model.  Of *)
(* the models only the generation is kept, which decides about the speaker.*)
(***************************************************************************)
EXTENDS Integers, FiniteSets

CONSTANTS Args,   \* option lists, with "" for an option that is not given
          Envs    \* environments, likewise

Given == [model : STRING, res : STRING, audio : STRING, back : STRING]
ASSUME SetupAssumption == Args \subseteq Given /\ Envs \subseteq Given

VARIABLES args, env,
          setting,    \* v, resolution, audio, convertTo, back_channel
          step,       \* where main() is
          codecOf,    \* stream_type.codec_low, codec_high
          queueType,  \* type of output_queue_low, _high, _audio
          sessions    \* the subsessions of each session that was added

setupVars == <<args, env, setting, step, codecOf, queueType, sessions>>

Video == {"low", "high"}
V1 == {"y20ga", "y25ga", "y30qa", "y501gc"}
V2 == {"y21ga", "y211ga", "y211ba", "y213ga", "y291ga", "h30ga", "r30gb", "r35gb",
       "r37gb", "r40ga", "h51ga", "h52ga", "h60ga", "y28ga", "y29ga", "y623",
       "q321br_lsx", "qg311r", "b091qp"}

Default == [v |-> 2, res |-> "high", audio |-> 1, convert |-> "ulaw", back |-> "none"]

SetupInit == /\ args \in Args /\ env \in Envs
             /\ setting = Default
             /\ step = "options"
             /\ codecOf = [s \in Video |-> "none"]
             /\ queueType = [q \in Video \cup {"audio"} |-> "none"]
             /\ sessions = << >>

-----------------------------------------------------------------------------
(* Options.  A value that is not known changes nothing, but for a back     *)
(* channel it means none.                                                  *)
Model(s, x) == IF x \in V1 THEN [s EXCEPT !.v = 1]
               ELSE IF x \in V2 THEN [s EXCEPT !.v = 2] ELSE s
Res(s, x) == IF x \in {"low", "high", "both", "none"} THEN [s EXCEPT !.res = x] ELSE s
Audio(s, x) == CASE x = "no" -> [s EXCEPT !.audio = 0]
                 [] x = "aac" -> [s EXCEPT !.audio = 2]
                 [] x \in {"yes", "ulaw"} -> [s EXCEPT !.audio = 1, !.convert = "ulaw"]
                 [] x \in {"alaw", "pcm"} -> [s EXCEPT !.audio = 1, !.convert = x]
                 [] OTHER -> s
Back(s, x) == CASE x = "" -> s
                [] x \in {"alaw", "ulaw", "aac"} -> [s EXCEPT !.back = x]
                [] OTHER -> [s EXCEPT !.back = "none"]
Apply(s, given) ==
    Back(Audio(Res(Model(s, given.model), given.res), given.audio), given.back)

ReadOptions == /\ step = "options"
               /\ setting' = Apply(setting, args)
               /\ step' = "environment"
               /\ UNCHANGED <<args, env, codecOf, queueType, sessions>>

ReadEnvironment == /\ step = "environment"
                   /\ setting' = Apply(setting, env)
                   /\ step' = "files"
                   /\ UNCHANGED <<args, env, codecOf, queueType, sessions>>

(* Without the camera's ring there is no server, without its audio FIFO    *)
(* there is no PCM audio.                                                  *)
NoBuffer == /\ step = "files"
            /\ step' = "failed"
            /\ UNCHANGED <<args, env, setting, codecOf, queueType, sessions>>

CheckFiles == /\ step = "files"
              /\ \E fifo \in BOOLEAN :
                    setting' = IF setting.audio = 1 /\ ~fifo
                               THEN [setting EXCEPT !.audio = 0] ELSE setting
              /\ step' = "queues"
              /\ UNCHANGED <<args, env, codecOf, queueType, sessions>>

Offers(s) == setting.res \in {s, "both"}

SetQueues == /\ step = "queues"
             /\ queueType' = [q \in DOMAIN queueType |->
                                IF q = "audio"
                                THEN IF setting.audio = 2 THEN "aac" ELSE "none"
                                ELSE IF Offers(q) THEN q ELSE "none"]
             /\ step' = "wait"      \* the capture thread runs from here on
             /\ UNCHANGED <<args, env, setting, codecOf, sessions>>

-----------------------------------------------------------------------------
(* The capture thread: the first SPS of a stream tells its codec, whether  *)
(* anybody wants that stream or not.                                       *)
Detection(s) == /\ step \notin {"options", "environment", "files", "queues", "failed"}
                /\ codecOf[s] = "none"
                /\ \E c \in {"h264", "h265"} : codecOf' = [codecOf EXCEPT ![s] = c]
                /\ UNCHANGED <<args, env, setting, step, queueType, sessions>>

(* The queues it writes frames to.                                         *)
Filled == {s \in Video : Offers(s) /\ codecOf[s] # "none"}
          \cup {q \in {"audio"} : setting.audio = 2}

-----------------------------------------------------------------------------
(* Definitions named Mut... are faults a change could bring in; the runs   *)
(* show which property each of them breaks.                                *)
MutCodecsKnown == \E s \in Video : codecOf[s] # "none"
CodecsKnown == \A s \in Video : codecOf[s] # "none"

ServerUp == /\ step = "wait" /\ CodecsKnown
            /\ step' \in {"high", "failed"}     \* the port may be in use
            /\ UNCHANGED <<args, env, setting, codecOf, queueType, sessions>>

VideoSub(s) == IF codecOf[s] = "none" THEN {} ELSE {[kind |-> codecOf[s], from |-> s]}
AudioSub == CASE setting.audio = 1 -> {[kind |-> setting.convert, from |-> "audio_fifo"]}
              [] setting.audio = 2 -> {[kind |-> "aac", from |-> "audio"]}
              [] OTHER -> {}
BackSub == IF setting.back = "none" THEN {}
           ELSE {[kind |-> setting.back, from |-> "client"]}

Add(s, subs) == sessions' = [x \in DOMAIN sessions \cup {s} |->
                               IF x = s THEN subs ELSE sessions[x]]

BuildHigh == /\ step = "high" /\ step' = "low"
             /\ IF Offers("high") THEN Add("high", VideoSub("high") \cup AudioSub \cup BackSub)
                                  ELSE UNCHANGED sessions
             /\ UNCHANGED <<args, env, setting, codecOf, queueType>>

(* With both streams the back channel is in the first session only.        *)
BuildLow == /\ step = "low" /\ step' = "audio"
            /\ IF Offers("low")
               THEN Add("low", VideoSub("low") \cup AudioSub
                               \cup IF setting.res = "low" THEN BackSub ELSE {})
               ELSE UNCHANGED sessions
            /\ UNCHANGED <<args, env, setting, codecOf, queueType>>

(* The session without video has the back channel if it is the only one.   *)
BuildAudio == /\ step = "audio" /\ step' = "serving"
              /\ IF setting.audio # 0
                 THEN Add("audio", AudioSub \cup IF setting.res = "none" THEN BackSub ELSE {})
                 ELSE UNCHANGED sessions
              /\ UNCHANGED <<args, env, setting, codecOf, queueType>>

SetupNext == \/ ReadOptions \/ ReadEnvironment \/ NoBuffer \/ CheckFiles \/ SetQueues
             \/ ServerUp \/ BuildHigh \/ BuildLow \/ BuildAudio
             \/ \E s \in Video : Detection(s)

SetupSpec == SetupInit /\ [][SetupNext]_setupVars

-----------------------------------------------------------------------------
(* What is offered is what is captured: a stream has a session exactly if  *)
(* its queue is filled, with the codec that was found; the queues read by  *)
(* subsessions are those that are filled, and are marked so; and the back  *)
(* channel, which has one FIFO, one stream and one speaker behind it, is   *)
(* offered once, and only once, if any session is there to hold it.        *)
OfferedIsFed ==
    step = "serving" =>
       /\ \A s \in Video : /\ s \in DOMAIN sessions <=> s \in Filled
                           /\ s \in DOMAIN sessions =>
                                 [kind |-> codecOf[s], from |-> s] \in sessions[s]
       /\ \A q \in DOMAIN queueType :
             LET reading == \E s \in DOMAIN sessions : \E u \in sessions[s] : u.from = q IN
             /\ reading <=> q \in Filled
             /\ reading <=> queueType[q] # "none"
       /\ Cardinality({s \in DOMAIN sessions : \E u \in sessions[s] : u.from = "client"})
            = IF setting.back # "none" /\ DOMAIN sessions # {} THEN 1 ELSE 0
=============================================================================
