---------------------------- MODULE MCBackChannel ----------------------------
(***************************************************************************)
(* The two ways of audio through rRTSPServer, which share nothing but its  *)
(* event loop, each explored on its own: from the clients to the speaker   *)
(* (BackChannel) and from the camera to the clients (AudioFifo).           *)
(***************************************************************************)
EXTENDS BackChannel, AudioFifo

CONSTANTS c1, c2, c3

VARIABLE way

AudioWaysInit == Init /\ AudioInit /\ way \in {"back", "forth"}

AudioWaysNext == \/ way = "back" /\ Next /\ UNCHANGED <<audioVars, way>>
                 \/ way = "forth" /\ AudioNext /\ UNCHANGED <<vars, way>>

AudioWays == /\ AudioWaysInit /\ [][AudioWaysNext]_<<vars, audioVars, way>>
             /\ AudioFairness /\ \A c \in Clients : WF_vars(Frame(c, "good"))
=============================================================================
