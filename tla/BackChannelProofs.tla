-------------------------- MODULE BackChannelProofs --------------------------
(***************************************************************************)
(* Theorems about the two ways of the audio.  The back channel, for any    *)
(* sessions and any number of streams: there is one sink at a time, and who *)
(* plays in TCP stays connected.  The handler of the PCM source, for every *)
(* size of FIFO, block and buffer and any number of times the device is    *)
(* closed: a request is heard.                                             *)
(***************************************************************************)
EXTENDS BackChannel, AudioFifo, SequenceTheorems, TLAPS

(* A stream that has played and was not reclaimed has what it plays with.  *)
Whole(s) == s.playing => s.sink /\ s.src # "none"

IInv == TypeOK /\ LastIsTheOne /\ PlayedIsConnected

LEMMA StateTypes == ASSUME NEW s \in States, NEW c \in Clients
                    PROVE  /\ Started(s, c) \in States
                           /\ Reclaimed(s) \in States
                           /\ [s EXCEPT !.ref = @ + 1] \in States
                           /\ [s EXCEPT !.tcp = @ \ {c}] \in States
<1>1. /\ s.sink \in BOOLEAN /\ s.socket \in BOOLEAN /\ s.rtcp \in BOOLEAN
      /\ s.playing \in BOOLEAN /\ s.reading \in BOOLEAN
      /\ s.src \in {"rtp", "udp", "none"} /\ s.tcp \subseteq Clients /\ s.ref \in Nat
  BY DEF States
<1>2. /\ [s EXCEPT !.ref = @ + 1] \in States
      /\ [s EXCEPT !.tcp = @ \ {c}] \in States
  <2>1. s.ref + 1 \in Nat /\ s.tcp \ {c} \in SUBSET Clients
    BY <1>1
  <2> QED BY <2>1 DEF States
<1> DEFINE joins == s.src = "rtp" /\ dest[c] = "tcp"
           begins == s.sink /\ s.src # "none"
           tcp == IF joins THEN s.tcp \cup {c} ELSE s.tcp
           socket == s.socket /\ ~joins
           rtcp == s.rtcp \/ s.src = "rtp"
           playing == s.playing \/ begins
           reads == s.reading \/ (begins /\ ~s.playing)
<1>3. /\ socket \in BOOLEAN /\ rtcp \in BOOLEAN
      /\ playing \in BOOLEAN /\ reads \in BOOLEAN
  OBVIOUS
<1>4. tcp \in SUBSET Clients
  BY <1>1
<1>5. Started(s, c) = [s EXCEPT !.rtcp = rtcp, !.tcp = tcp, !.socket = socket,
                               !.playing = playing, !.reading = reads]
  BY DEF Started
<1> HIDE DEF joins, begins, tcp, socket, rtcp, playing, reads
<1>6. Started(s, c) \in States
  BY <1>3, <1>4, <1>5 DEF States
<1>7. Reclaimed(s) \in States
  BY <1>1 DEF States, Reclaimed
<1> QED BY <1>2, <1>6, <1>7

LEMMA NewTypes == ASSUME NEW t \in Transports, NEW opens \in BOOLEAN
                  PROVE  NewState(t, opens) \in States /\ Whole(NewState(t, opens))
<1>1. Source(t, opens) \in {"rtp", "udp", "none"}
  BY DEF Source, Transports
<1>2. (t # "noport") \in BOOLEAN
  OBVIOUS
<1> QED BY <1>1, <1>2 DEF NewState, States, Whole

(* What the requests and the end of an output make of a stream.            *)
LEMMA Kept == ASSUME NEW s \in States, NEW c \in Clients
              PROVE  /\ Whole(s) => Whole(Started(s, c))
                     /\ Whole(s) => Whole([s EXCEPT !.ref = @ + 1])
                     /\ Whole(s) => Whole([s EXCEPT !.tcp = @ \ {c}])
                     /\ TornDown(s) => TornDown(Started(s, c))
                     /\ TornDown(s) => TornDown([s EXCEPT !.tcp = @ \ {c}])
                     /\ TornDown(Reclaimed(s))
BY DEF States, Started, Reclaimed, Whole, TornDown

LEMMA InitInv == ASSUME Init PROVE IInv
<1>1. streams \in Seq(States) /\ Len(streams) = 0
  BY EmptySeq DEF Init
<1>2. TypeOK
  <2>1. dest \in [Clients -> Transports \cup {"none"}] /\ sdp \in BOOLEAN
    BY DEF Init
  <2>2. token \in [Clients -> 0..Len(streams)] /\ last \in 0..Len(streams)
    BY <1>1 DEF Init
  <2> QED BY <1>1, <2>1, <2>2, BackChannelAssumption DEF Init, TypeOK
<1>3. LastIsTheOne /\ PlayedIsConnected
  BY <1>1 DEF Init, LastIsTheOne, PlayedIsConnected
<1> QED BY <1>2, <1>3 DEF IInv

LEMMA ReuseInv == ASSUME IInv, NEW c \in Clients, NEW t \in Transports, Reuse(c, t)
                  PROVE  IInv'
<1> DEFINE s == streams[last]
           n == [s EXCEPT !.ref = @ + 1]
<1>1. streams \in Seq(States) /\ s \in States /\ last \in 1..Len(streams)
  BY DEF IInv, TypeOK, Reuse
<1>2. n \in States /\ (Whole(s) => Whole(n)) /\ n.tcp = s.tcp /\ n.src = s.src
  BY <1>1, StateTypes, Kept DEF States
<1>3. streams' = [streams EXCEPT ![last] = n]
  BY DEF Reuse
<1> HIDE DEF n
<1>4. /\ streams' \in Seq(States) /\ Len(streams') = Len(streams)
      /\ \A i \in 1..Len(streams) : streams'[i] = IF i = last THEN n ELSE streams[i]
  BY <1>1, <1>2, <1>3, ExceptSeq
<1>5. TypeOK'
  BY <1>1, <1>4, BackChannelAssumption DEF IInv, TypeOK, Reuse, Setup
<1>6. LastIsTheOne'
  BY <1>1, <1>2, <1>4 DEF IInv, LastIsTheOne, Whole, Reuse
<1>7. PlayedIsConnected'
  BY <1>1, <1>2, <1>4 DEF IInv, TypeOK, PlayedIsConnected, Reuse, Setup
<1> QED BY <1>5, <1>6, <1>7 DEF IInv

LEMMA CreateInv == ASSUME IInv, NEW c \in Clients, NEW t \in Transports, Create(c, t)
                   PROVE  IInv'
<1>1. PICK opens \in BOOLEAN : streams' = Append(streams, NewState(t, opens))
  BY DEF Create, Opens
<1> DEFINE n == NewState(t, opens)
<1>2. n \in States /\ Whole(n)
  BY NewTypes
<1> HIDE DEF n
<1>3. /\ streams \in Seq(States) /\ streams' \in Seq(States)
      /\ Len(streams) \in Nat /\ Len(streams') = Len(streams) + 1
      /\ \A i \in 1..Len(streams) : streams'[i] = streams[i]
      /\ streams'[Len(streams) + 1] = n
  BY <1>1, <1>2, AppendProperties DEF IInv, TypeOK, n
<1>4. TypeOK'
  BY <1>3, BackChannelAssumption DEF IInv, TypeOK, Create, Setup
<1>5. LastIsTheOne'
  BY <1>2, <1>3 DEF IInv, LastIsTheOne, Whole, Create
<1>6. PlayedIsConnected'
  BY <1>3 DEF IInv, TypeOK, PlayedIsConnected, Create, Setup
<1> QED BY <1>4, <1>5, <1>6 DEF IInv

LEMMA PlayInv == ASSUME IInv, NEW c \in Clients, Play(c) PROVE IInv'
<1> DEFINE s == streams[token[c]]
           n == Started(s, c)
<1>1. streams \in Seq(States) /\ s \in States /\ token[c] \in 1..Len(streams)
  BY DEF IInv, TypeOK, Play
<1>2. /\ n \in States
      /\ (Whole(s) => Whole(n)) /\ (TornDown(s) => TornDown(n))
  BY <1>1, StateTypes, Kept
<1>3. /\ n.src = s.src /\ s.tcp \subseteq n.tcp
      /\ dest[c] = "tcp" /\ s.src = "rtp" => c \in n.tcp
  BY <1>1 DEF States, Started
<1>4. streams' = [streams EXCEPT ![token[c]] = n]
  BY DEF Play
<1> HIDE DEF n
<1>5. /\ streams' \in Seq(States) /\ Len(streams') = Len(streams)
      /\ \A i \in 1..Len(streams) : streams'[i] = IF i = token[c] THEN n ELSE streams[i]
  BY <1>1, <1>2, <1>4, ExceptSeq
<1>6. TypeOK'
  BY <1>1, <1>5 DEF IInv, TypeOK, Play
<1>7. LastIsTheOne'
  BY <1>1, <1>2, <1>5 DEF IInv, LastIsTheOne, Whole, Play
<1>8. PlayedIsConnected'
  BY <1>1, <1>3, <1>5 DEF IInv, TypeOK, PlayedIsConnected, Play
<1> QED BY <1>6, <1>7, <1>8 DEF IInv

LEMMA LeaveInv == ASSUME IInv, NEW c \in Clients, Leave(c) PROVE IInv'
<1> DEFINE n(s) == [s EXCEPT !.tcp = @ \ {c}]
<1>1. /\ streams \in Seq(States) /\ DOMAIN streams = 1..Len(streams)
      /\ Len(streams) \in Nat
      /\ \A i \in 1..Len(streams) : streams[i] \in States
  BY DEF IInv, TypeOK
<1>2. \A s \in States : /\ n(s) \in States
                        /\ (Whole(s) => Whole(n(s))) /\ (TornDown(s) => TornDown(n(s)))
                        /\ n(s).src = s.src /\ n(s).tcp = s.tcp \ {c}
  BY StateTypes, Kept DEF States
<1>3. streams' = [i \in 1..Len(streams) |-> n(streams[i])]
  BY <1>1 DEF Leave
<1> HIDE DEF n
<1>4. /\ streams' \in Seq(States) /\ Len(streams') = Len(streams)
      /\ \A i \in 1..Len(streams) : streams'[i] = n(streams[i])
  BY <1>1, <1>2, <1>3
<1>5. TypeOK'
  BY <1>4 DEF IInv, TypeOK, Leave
<1>6. LastIsTheOne'
  <2>1. \A i \in 1..Len(streams) : IF i = last THEN Whole(n(streams[i]))
                                              ELSE TornDown(n(streams[i]))
    BY <1>1, <1>2 DEF IInv, LastIsTheOne, Whole
  <2> QED BY <1>4, <2>1 DEF LastIsTheOne, Whole, Leave
<1>7. PlayedIsConnected'
  BY <1>1, <1>2, <1>4 DEF IInv, TypeOK, PlayedIsConnected, Leave
<1> QED BY <1>5, <1>6, <1>7 DEF IInv

LEMMA ClosesInv == ASSUME IInv, NEW c \in Clients, OutputCloses(c) PROVE IInv'
<1> DEFINE s == streams[token[c]]
           n == Reclaimed(s)
<1>1. /\ streams \in Seq(States) /\ s \in States /\ s.sink
      /\ token[c] \in 1..Len(streams)
  BY DEF IInv, TypeOK, OutputCloses, Audible, Served
<1>2. last = token[c]
  BY <1>1 DEF IInv, LastIsTheOne, TornDown
<1>3. n \in States /\ TornDown(n) /\ n.src # "rtp"
  BY <1>1, StateTypes, Kept DEF TornDown
<1>4. streams' = [streams EXCEPT ![token[c]] = n]
  BY DEF OutputCloses
<1> HIDE DEF n
<1>5. /\ streams' \in Seq(States) /\ Len(streams') = Len(streams)
      /\ \A i \in 1..Len(streams) : streams'[i] = IF i = token[c] THEN n ELSE streams[i]
  BY <1>1, <1>3, <1>4, ExceptSeq
<1>6. TypeOK'
  BY <1>1, <1>5 DEF IInv, TypeOK, OutputCloses
<1>7. LastIsTheOne'
  BY <1>1, <1>2, <1>3, <1>5 DEF IInv, LastIsTheOne, Whole, OutputCloses
<1>8. PlayedIsConnected'
  BY <1>1, <1>3, <1>5 DEF IInv, TypeOK, PlayedIsConnected, OutputCloses
<1> QED BY <1>6, <1>7, <1>8 DEF IInv

LEMMA StepInv == ASSUME IInv, [Next]_vars PROVE IInv'
<1>1. CASE Describe \/ UNCHANGED vars
  BY <1>1 DEF IInv, TypeOK, LastIsTheOne, PlayedIsConnected, Describe, Opens, vars
<1>2. ASSUME NEW c \in Clients, Request(c) PROVE IInv'
  BY <1>2, ReuseInv, CreateInv, PlayInv, LeaveInv DEF Request
<1>3. ASSUME NEW c \in Clients, NEW f \in FrameKinds, Frame(c, f) PROVE IInv'
  BY <1>3 DEF IInv, TypeOK, LastIsTheOne, PlayedIsConnected, Frame
<1>4. ASSUME NEW c \in Clients, OutputCloses(c) PROVE IInv'
  BY <1>4, ClosesInv
<1> QED BY <1>1, <1>2, <1>3, <1>4 DEF Next

(* The inductive invariant of the stream states of the back channel.       *)
THEOREM Invariance == Spec => []IInv
<1>1. Init => IInv
  BY InitInv
<1>2. IInv /\ [Next]_vars => IInv'
  BY StepInv
<1> QED BY <1>1, <1>2, PTL DEF Spec

(* No session holds a stream that was never made.                          *)
THEOREM TypeCorrect == Spec => []TypeOK
<1>1. IInv => TypeOK
  BY DEF IInv
<1> QED BY <1>1, Invariance, PTL

(* One sink at a time, and no client is ever given a stream that was       *)
(* reclaimed, whatever transports the clients ask for.                     *)
THEOREM OneStream == Spec => []LastIsTheOne
<1>1. IInv => LastIsTheOne
  BY DEF IInv
<1> QED BY <1>1, Invariance, PTL

(* A client that has played in TCP stays connected to the source.          *)
THEOREM PlayersStayConnected == Spec => []PlayedIsConnected
<1>1. IInv => PlayedIsConnected
  BY DEF IInv
<1> QED BY <1>1, Invariance, PTL

-----------------------------------------------------------------------------
(***************************************************************************)
(* The PCM source.                                                         *)
(***************************************************************************)

(* fHaveStartedReading is on exactly while the handler is, and the event   *)
(* loop reads for a request only.                                          *)
FlagIsRight == reading = handler
ReadsForRequest == loop = "read" => awaiting

AudioIInv == AudioTypeOK /\ FlagIsRight /\ ReadsForRequest /\ RequestHeard

LEMMA WordRange ==
    ASSUME NEW x \in Int PROVE x % Word \in 0..(Word - 1)
<1>1. Word \in Nat \ {0}
  BY AudioAssumption
<1>2. QED
  BY <1>1, SMT

-----------------------------------------------------------------------------
LEMMA AudioInitIInv == AudioInit => AudioIInv
<1>1. 0 \in 0..FifoSize /\ 0 \in 0..(Word - 1) /\ 0 \in 0..MaxCloses
  BY AudioAssumption
<1>2. QED
  BY <1>1 DEF AudioInit, AudioIInv, AudioTypeOK, FlagIsRight, ReadsForRequest, RequestHeard

(* A read of n bytes, failed or not.                                       *)
LEMMA GotKeeps ==
    ASSUME AudioIInv, NEW n \in Int, Got(n)
    PROVE  /\ frameSize' \in 0..(Word - 1) /\ maxSize' \in 0..(Word - 1)
           /\ awaiting' \in BOOLEAN /\ loop' = "select"
           /\ UNCHANGED <<capturing, handler, reading, closes>>
<1>1. frameSize + n \in Int /\ maxSize - n \in Int
  BY DEF AudioIInv, AudioTypeOK
<1>2. ((frameSize + n) % 2 # 0) \in BOOLEAN
  OBVIOUS
<1>3. QED
  BY <1>1, <1>2, WordRange DEF Got

LEMMA AudioStep == AudioIInv /\ [AudioNext]_audioVars => AudioIInv'
<1> SUFFICES ASSUME AudioIInv, [AudioNext]_audioVars PROVE AudioIInv'
  OBVIOUS
<1> USE AudioAssumption DEF AudioIInv, AudioTypeOK, FlagIsRight, ReadsForRequest, RequestHeard
<1>1. CASE Captures \/ Uncaptures
  <2>1. closes' \in 0..MaxCloses
    <3>1. closes' = closes \/ (closes < MaxCloses /\ closes' = closes + 1)
      BY <1>1 DEF Captures, Uncaptures
    <3>2. QED
      BY <3>1
  <2>2. capturing' \in BOOLEAN
    BY <1>1 DEF Captures, Uncaptures
  <2>3. UNCHANGED <<fifo, handler, reading, awaiting, loop, frameSize, maxSize, failed>>
    BY <1>1 DEF Captures, Uncaptures
  <2>4. QED
    BY <2>1, <2>2, <2>3
<1>2. CASE Snoop
  <2>1. PICK n \in Blocks : fifo + n <= FifoSize /\ fifo' = fifo + n
    BY <1>2 DEF Snoop
  <2>2. fifo' \in 0..FifoSize
    BY <2>1
  <2>3. QED
    BY <1>2, <2>2 DEF Snoop
<1>3. ASSUME NEW room \in Buffers, GetNextFrame(room) PROVE AudioIInv'
  <2>1. room \in 0..(Word - 1) /\ 0 \in 0..(Word - 1) /\ 0 \in 0..FifoSize
    OBVIOUS
  <2>2. QED
    BY <1>3, <2>1 DEF GetNextFrame, CleanFifo
<1>4. CASE StopGettingFrames
  BY <1>4 DEF StopGettingFrames, Stopped
<1>5. CASE NotReady
  BY <1>5 DEF NotReady, Readable, Stopped
<1>6. CASE ReadFromFile
  BY <1>6 DEF ReadFromFile, Readable
<1>7. CASE ReadSome
  <2> DEFINE n == IF fifo < BytesToRead THEN fifo ELSE BytesToRead
  <2>1. BytesToRead \in Int
    <3>1. maxSize % 2 \in Int
      OBVIOUS
    <3>2. QED
      BY <3>1 DEF BytesToRead
  <2>2. n \in 1..fifo
    BY <1>7, <2>1 DEF ReadSome
  <2>3. fifo' = fifo - n /\ Got(n) /\ UNCHANGED failed /\ loop = "read"
    BY <1>7 DEF ReadSome
  <2> HIDE DEF n
  <2>4. n \in Int /\ fifo' \in 0..FifoSize
    BY <2>2, <2>3
  <2>5. handler /\ reading
    BY <2>3
  <2>6. QED
    BY <2>3, <2>4, <2>5, GotKeeps
<1>8. CASE ReadNothing
  <2>1. Got(Word - 1) /\ Word - 1 \in Int /\ failed' = TRUE /\ fifo' = fifo /\ loop = "read"
    BY <1>8 DEF ReadNothing
  <2>2. handler /\ reading
    BY <2>1
  <2>3. QED
    BY <2>1, <2>2, GotKeeps
<1>9. CASE UNCHANGED audioVars
  BY <1>9 DEF audioVars
<1>10. QED
  BY <1>1, <1>2, <1>3, <1>4, <1>5, <1>6, <1>7, <1>8, <1>9 DEF AudioNext, EventLoop

-----------------------------------------------------------------------------
(* What the source, its handler and the FIFO keep in every state.          *)
THEOREM AudioInvariance == AudioSpec => []AudioIInv
  BY AudioInitIInv, AudioStep, PTL DEF AudioSpec

(* Every variable of the PCM source stays in its type: the counters that   *)
(* are unsigned in the code never leave a word, failed reads included.     *)
THEOREM AudioTypeCorrect == AudioSpec => []AudioTypeOK
<1>1. AudioIInv => AudioTypeOK
  BY DEF AudioIInv
<1>2. QED
  BY <1>1, AudioInvariance, PTL

(* A request for audio never waits without a handler, whoever switched the *)
(* handler off before.                                                     *)
THEOREM RequestsAreHeard == AudioSpec => []RequestHeard
<1>1. AudioIInv => RequestHeard
  BY DEF AudioIInv
<1>2. QED
  BY <1>1, AudioInvariance, PTL
=============================================================================
