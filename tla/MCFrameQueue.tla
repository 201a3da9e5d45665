---------------------------- MODULE MCFrameQueue ----------------------------
(* Small instances of FrameQueue for TLC. *)
EXTENDS FrameQueue

CONSTANTS low, high, aac,                  \* streams
          sps, bad, large, empty, none     \* classes of frames
=============================================================================
