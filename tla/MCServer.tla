------------------------------ MODULE MCServer ------------------------------
(***************************************************************************)
(* Two parts of rRTSPServer that share nothing, each explored on its own:  *)
(* the capture thread on the ring, and the speaker.                        *)
(***************************************************************************)
EXTENDS CaptureRing, Speaker

VARIABLE part

ServerInit == /\ Init /\ SpeakerInit /\ part \in {"ring", "speaker"}
              /\ part = "ring" => who = CHOOSE s \in Speakers : TRUE

ServerNext == \/ part = "ring" /\ Next /\ UNCHANGED <<speakerVars, part>>
              \/ part = "speaker" /\ SpeakerNext /\ UNCHANGED <<vars, part>>

(* capture() never stops, and the camera finishes the table it began.  A   *)
(* speaker that nobody has made has nothing to do; capture() has, and is   *)
(* held to it where it is explored.                                        *)
Server == /\ ServerInit /\ [][ServerNext]_<<vars, speakerVars, part>>
          /\ WF_vars(part = "ring" /\ Reader)
          /\ WF_vars(\E w \in Words : Publish(w))
          /\ SpeakerFairness
=============================================================================
