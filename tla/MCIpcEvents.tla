----------------------------- MODULE MCIpcEvents -----------------------------
(* A small instance of IpcEvents for TLC. *)
EXTENDS IpcEvents

CONSTANTS motion, sound, stop, other, none, p1, p2
=============================================================================
