----------------------------- MODULE BackChannel -----------------------------
(***************************************************************************)
(* The back channel of rRTSPServer: audio that clients send to the camera. *)
(*                                                                         *)
(* OnDemandServerMediaSubsession_BC gives every client session the same    *)
(* StreamState_BC (reuseFirstSource is True): one RTP source, one sink     *)
(* that writes to the camera's FIFO and owns the Speaker.  Nothing counts  *)
(* the sessions down again (deleteStream is commented out): a stream lives *)
(* until its output closes, which reclaims it under the sessions that      *)
(* still hold it.                                                          *)
(*                                                                         *)
(* External, as live555 does it: setStreamSocket adds a TCP client to a    *)
(* source and closes the datagram socket of the source; a connection that  *)
(* closes is taken out of the source; the session of a client is forgotten *)
(* when the client leaves.  pauseStream does nothing with reuseFirstSource.*)
(* Port numbers and the search for free ones are left out.                 *)
(***************************************************************************)
EXTENDS Integers, Sequences

CONSTANTS Clients,      \* client sessions, each of them used once
          MaxStreams,   \* bound: StreamState_BC objects
          MaxSetups     \* bound: SETUP requests

ASSUME BackChannelAssumption == MaxStreams \in Nat \ {0} /\ MaxSetups \in Nat

VARIABLES codec,     \* of the one back channel main() makes: G.711 or AAC
          streams,   \* the StreamState_BC objects, which are never freed
          last,      \* fLastStreamToken: an index of streams, or 0
          token,     \* what the session of a client holds: an index, or 0
          dest,      \* fDestinationsHashTable, by the kind of transport
          started,   \* clients whose PLAY was handled
          gone,      \* clients that have left
          sdp,       \* fSDPLines is known
          heard,     \* clients of whom audio has reached the speaker
          setups

vars == <<codec, streams, last, token, dest, started, gone, sdp, heard, setups>>

(* RTP in TCP, RTP in UDP, raw UDP, and UDP without a client_port, which   *)
(* live555 takes for an RTP port of 0 and an RTCP port of 1.               *)
Transports == {"tcp", "udp", "raw", "noport"}

Init == /\ codec \in {"pcm", "aac"}
        /\ streams = <<>> /\ last = 0
        /\ token = [c \in Clients |-> 0]
        /\ dest = [c \in Clients |-> "none"]
        /\ started = {} /\ gone = {} /\ heard = {}
        /\ sdp = FALSE /\ setups = 0

-----------------------------------------------------------------------------
(* createNewStreamDestination: there is no sink if the output file cannot  *)
(* be opened.                                                              *)
Opens == BOOLEAN

(* createNewRTPSource is called for a sink; raw UDP has a source without.  *)
(* A client without a port gets neither sockets nor a source.              *)
Source(t, opens) == CASE t = "raw" -> "udp"
                      [] t = "noport" -> "none"
                      [] OTHER -> IF opens THEN "rtp" ELSE "none"

(* A stream for the transport of its first client.                         *)
NewState(t, opens) ==
    [sink |-> opens, src |-> Source(t, opens),
     socket |-> t # "noport", rtcp |-> FALSE, playing |-> FALSE, reading |-> FALSE,
     tcp |-> {}, ref |-> 1]

-----------------------------------------------------------------------------
(* DESCRIBE: a sink is made and closed again, unless the SDP is cached.    *)
Describe == /\ ~sdp
            /\ sdp' \in Opens
            /\ UNCHANGED <<codec, streams, last, token, dest, started, gone, heard, setups>>

(* SETUP, by a session that may have been set up before.                   *)
Setup(c, t) == /\ c \notin gone
               /\ setups < MaxSetups
               /\ setups' = setups + 1
               /\ dest' = [dest EXCEPT ![c] = t]
               /\ started' = started \ {c}
               /\ UNCHANGED <<codec, gone, sdp, heard>>

Reuse(c, t) == /\ Setup(c, t)
               /\ last # 0
               /\ streams' = [streams EXCEPT ![last].ref = @ + 1]
               /\ token' = [token EXCEPT ![c] = last]
               /\ UNCHANGED last

Create(c, t) == /\ Setup(c, t)
                /\ last = 0
                /\ Len(streams) < MaxStreams
                /\ \E opens \in Opens :
                     streams' = Append(streams, NewState(t, opens))
                /\ last' = Len(streams')
                /\ token' = [token EXCEPT ![c] = last']

(* Definitions named Mut... are faults a change could bring in; the runs   *)
(* show which property each of them breaks.                                *)
MutStarted(s, c) ==
    LET tcp == s.src = "rtp" /\ dest[c] = "tcp" /\ ~s.playing IN
    [s EXCEPT !.rtcp = @ \/ s.src = "rtp",
              !.tcp = IF tcp THEN @ \cup {c} ELSE @,
              !.socket = @ /\ ~tcp,
              !.playing = @ \/ (s.sink /\ s.src # "none"),
              !.reading = @ \/ (s.sink /\ s.src # "none" /\ ~s.playing)]

(* StreamState_BC::startPlaying.                                           *)
Started(s, c) ==
    LET tcp == s.src = "rtp" /\ dest[c] = "tcp" IN
    [s EXCEPT !.rtcp = @ \/ s.src = "rtp",
              !.tcp = IF tcp THEN @ \cup {c} ELSE @,
              !.socket = @ /\ ~tcp,
              !.playing = @ \/ (s.sink /\ s.src # "none"),
              !.reading = @ \/ (s.sink /\ s.src # "none" /\ ~s.playing)]

Play(c) == /\ token[c] # 0
           /\ streams' = [streams EXCEPT ![token[c]] = Started(@, c)]
           /\ started' = started \cup {c}
           /\ UNCHANGED <<codec, last, token, dest, gone, sdp, heard, setups>>

(* TEARDOWN, or the connection closes.                                     *)
Leave(c) == /\ token[c] # 0
            /\ gone' = gone \cup {c} /\ started' = started \ {c}
            /\ token' = [token EXCEPT ![c] = 0]
            /\ streams' = [i \in DOMAIN streams |->
                             [streams[i] EXCEPT !.tcp = @ \ {c}]]
            /\ UNCHANGED <<codec, last, dest, sdp, heard, setups>>

-----------------------------------------------------------------------------
(* What the source takes packets from.                                     *)
Reaches(c, s) == CASE dest[c] = "tcp" -> c \in s.tcp
                   [] dest[c] \in {"udp", "noport"} -> s.socket /\ s.src # "none"
                   [] OTHER -> s.socket /\ s.src = "udp"

Served(c) == /\ c \in started
             /\ streams[token[c]].sink
             /\ Reaches(c, streams[token[c]])

Audible(c) == Served(c) /\ streams[token[c]].reading

(* What addData gives up: a G.711 frame too large for the buffer once      *)
(* decoded and oversampled, an AAC frame without a header or not to be     *)
(* decoded.                                                                *)
FrameKinds == {"good", "large", "short", "broken"}
PcmSounds(f) == f # "large"
AacSounds(f) == f \notin {"short", "broken"}

MutFrame(c, f) == /\ Audible(c)
                  /\ heard' = heard \cup {c}
                  /\ streams' = [streams EXCEPT ![token[c]].reading = FALSE]
                  /\ UNCHANGED <<codec, last, token, dest, started, gone, sdp, setups>>

(* afterGettingFrame: the speaker is switched on, the frame written and    *)
(* flushed, and the next one asked for, if it was given up too.            *)
Frame(c, f) ==
    /\ Audible(c)
    /\ heard' = IF IF codec = "pcm" THEN PcmSounds(f) ELSE AacSounds(f)
                THEN heard \cup {c} ELSE heard
    /\ UNCHANGED <<codec, streams, last, token, dest, started, gone, sdp, setups>>

(* reclaim(): the RTCP instance, the sink, the sources and the sockets go; *)
(* fAreCurrentlyPlaying and the object stay.                               *)
Reclaimed(s) == [s EXCEPT !.rtcp = FALSE, !.sink = FALSE, !.src = "none",
                          !.socket = FALSE, !.reading = FALSE, !.tcp = {}]

MutOutputCloses(c) ==
    /\ Audible(c)
    /\ streams' = [streams EXCEPT ![token[c]] = Reclaimed(@)]
    /\ UNCHANGED <<codec, last, token, dest, started, gone, sdp, heard, setups>>

(* A frame comes in and the output has closed (fflush returns EOF).        *)
OutputCloses(c) ==
    /\ Audible(c)
    /\ streams' = [streams EXCEPT ![token[c]] = Reclaimed(@)]
    /\ last' = IF last = token[c] THEN 0 ELSE last
    /\ UNCHANGED <<codec, token, dest, started, gone, sdp, heard, setups>>

Request(c) == \/ \E t \in Transports : Reuse(c, t) \/ Create(c, t)
              \/ Play(c) \/ Leave(c)

Next == \/ Describe
        \/ \E c \in Clients : \/ Request(c) \/ OutputCloses(c)
                             \/ \E f \in FrameKinds : Frame(c, f)

Spec == Init /\ [][Next]_vars

(* The event loop runs, and clients that are playing send good frames.     *)
FairSpec == Spec /\ \A c \in Clients : WF_vars(Frame(c, "good"))

-----------------------------------------------------------------------------
States == [sink : BOOLEAN, src : {"rtp", "udp", "none"}, socket : BOOLEAN,
           rtcp : BOOLEAN, playing : BOOLEAN,
           reading : BOOLEAN, tcp : SUBSET Clients, ref : Nat]

(* Every variable stays in its type; tokens are those of streams made.     *)
TypeOK == /\ codec \in {"pcm", "aac"}
          /\ streams \in Seq(States) /\ last \in 0..Len(streams)
          /\ token \in [Clients -> 0..Len(streams)]
          /\ dest \in [Clients -> Transports \cup {"none"}]
          /\ started \subseteq {c \in Clients : token[c] # 0}
          /\ gone \subseteq Clients /\ heard \subseteq Clients
          /\ sdp \in BOOLEAN /\ setups \in 0..MaxSetups

(* One sink, and so one Speaker, at a time: every stream but the last one  *)
(* has been reclaimed, though sessions go on holding, and playing, those.  *)
(* The last one, which who comes next is given, has not been reclaimed: if *)
(* it has ever played it has its sink and its source still.                *)
TornDown(s) == ~s.socket /\ ~s.sink /\ s.src = "none" /\ s.tcp = {}
LastIsTheOne == \A i \in 1..Len(streams) :
    IF i = last
    THEN streams[i].playing => streams[i].sink /\ streams[i].src # "none"
    ELSE TornDown(streams[i])

(* A client in TCP whose PLAY was handled is in the source, no matter how  *)
(* many came before or after it and how they play, unless the stream is    *)
(* raw UDP or torn down.                                                   *)
PlayedIsConnected == \A c \in started :
    LET s == streams[token[c]] IN
    dest[c] = "tcp" /\ s.src = "rtp" => c \in s.tcp

(* A client that the source takes packets from is heard, unless it leaves, *)
(* is set up again, or the output closes.                                  *)
PlayedIsHeard == \A c \in Clients : Served(c) ~> (c \in heard \/ ~Served(c))
=============================================================================
