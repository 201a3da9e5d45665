------------------------------ MODULE LossyFifo ------------------------------
(***************************************************************************)
(* What an output_queue of rRTSPServer promises to the RTP sink behind it: *)
(* a first-in first-out buffer of at most Capacity frames per stream that  *)
(* may lose frames, but only from its old end, and never reorders, repeats *)
(* or invents one.  Only frames of Deliverable ever reach the sink.        *)
(***************************************************************************)
EXTENDS Naturals, Sequences

CONSTANTS Streams,      \* the streams that have a queue
          Frames,       \* everything a producer may queue
          Deliverable,  \* the frames a sink may be handed
          Capacity,     \* MAX_QUEUE_SIZE
          NoFrame       \* nothing delivered yet

VARIABLES fifo,         \* fifo[s]: the frames that wait, oldest first
          out           \* out[s]: the last frame the sink of s was handed

fifoVars == <<fifo, out>>

Init == /\ fifo = [s \in Streams |-> <<>>]
        /\ out = [s \in Streams |-> NoFrame]

(* The newest frame is always accepted; a full queue pays with its oldest. *)
Put(s, f) ==
    /\ fifo' = [fifo EXCEPT ![s] = IF Len(@) < Capacity THEN Append(@, f)
                                   ELSE Tail(Append(@, f))]
    /\ UNCHANGED out

(* The oldest frame is lost: malformed, too large, or stale at a start.    *)
Lose(s) == /\ fifo[s] # <<>>
           /\ fifo' = [fifo EXCEPT ![s] = Tail(@)]
           /\ UNCHANGED out

(* The oldest frame goes to the sink, once.                                *)
Get(s) == /\ fifo[s] # <<>>
          /\ Head(fifo[s]) \in Deliverable
          /\ out' = [out EXCEPT ![s] = Head(fifo[s])]
          /\ fifo' = [fifo EXCEPT ![s] = Tail(@)]

Next == \E s \in Streams : \/ \E f \in Frames : Put(s, f)
                           \/ Lose(s)
                           \/ Get(s)

Spec == Init /\ [][Next]_fifoVars
=============================================================================
