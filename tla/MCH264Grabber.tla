---------------------------- MODULE MCH264Grabber ----------------------------
(***************************************************************************)
(* A command line with FIFOs, as service.sh starts the program, two with  *)
(* a single output, as go2rtc does, and one that is refused.               *)
(***************************************************************************)
EXTENDS H264Grabber

Lines == {[res |-> "high", audio |-> TRUE, fifo |-> TRUE, sti |-> TRUE],
          [res |-> "low", audio |-> FALSE, fifo |-> FALSE, sti |-> FALSE],
          [res |-> "none", audio |-> TRUE, fifo |-> FALSE, sti |-> TRUE],
          [res |-> "both", audio |-> FALSE, fifo |-> FALSE, sti |-> TRUE]}

(* One low SPS and a high one of each way in which it is looked up.        *)
Cameras == {[v |-> 2, size |-> 360], [v |-> 4, size |-> 1296], [v |-> 8, size |-> 1080]}
=============================================================================
