------------------------------- MODULE AudioFifo -------------------------------
(***************************************************************************)
(* WAVAudioFifoSource: the PCM audio of the camera, from the FIFO          *)
(* /tmp/audio_fifo to the filters and the replicator of rRTSPServer.       *)
(*                                                                         *)
(* The writer is in the camera's process: the patch of alsa-lib opens the  *)
(* FIFO with the capture device and writes to it without waiting; a block  *)
(* that does not fit is lost.  The reader is called by the event loop when *)
(* the descriptor is readable, which it is too while nobody has the FIFO   *)
(* open for writing: then read() returns 0 and the loop in doReadFromFile  *)
(* waits, and with it the event loop, until there is a writer again.       *)
(*                                                                         *)
(* Bytes are counted, modulo Word where the code counts in unsigned: the   *)
(* -1 of a read that would wait is more than 0 there.  A sample is two     *)
(* bytes.  Left out: presentation times, and the limit on the bytes to     *)
(* stream, which nothing sets.                                             *)
(***************************************************************************)
EXTENDS Integers

CONSTANTS FifoSize,   \* bytes the FIFO holds, 8192
          Blocks,     \* sizes of the writer's blocks
          Buffers,    \* room the sink offers: fMaxSize
          Preferred,  \* fPreferredFrameSize, 1024
          Word,       \* 2^32
          MaxCloses   \* bound: how often the capture device is closed

ASSUME AudioAssumption ==
    /\ FifoSize \in Nat /\ Blocks # {} /\ Blocks \subseteq 1..FifoSize
    /\ \A n \in Blocks : n % 2 = 0
    /\ Word \in Nat /\ Word % 2 = 0 /\ FifoSize < Word
    /\ Buffers \subseteq 2..(Word - 1) /\ Preferred \in 2..(Word - 1)
    /\ MaxCloses \in Nat

VARIABLES capturing,  \* the camera has the capture device and the FIFO open
          fifo,       \* bytes in the FIFO
          handler,    \* background read handling is on
          reading,    \* fHaveStartedReading
          awaiting,   \* isCurrentlyAwaitingData()
          loop,       \* where the event loop is: at its select, or in doReadFromFile
          frameSize,  \* fFrameSize
          maxSize,    \* fMaxSize
          failed,     \* a read found the FIFO open and empty
          closes      \* how often the device was closed

audioVars == <<capturing, fifo, handler, reading, awaiting, loop, frameSize, maxSize, failed, closes>>

AudioInit == /\ capturing = FALSE /\ fifo = 0
             /\ handler = FALSE /\ reading = FALSE /\ awaiting = FALSE
             /\ loop = "select" /\ frameSize = 0 /\ maxSize = 0
             /\ failed = FALSE /\ closes = 0

-----------------------------------------------------------------------------
(* The capture device. *)
Captures == /\ ~capturing /\ capturing' = TRUE
            /\ UNCHANGED <<fifo, handler, reading, awaiting, loop, frameSize, maxSize, failed, closes>>

Uncaptures == /\ capturing /\ closes < MaxCloses
              /\ capturing' = FALSE /\ closes' = closes + 1
              /\ UNCHANGED <<fifo, handler, reading, awaiting, loop, frameSize, maxSize, failed>>

Snoop == /\ capturing
         /\ \E n \in Blocks : fifo + n <= FifoSize /\ fifo' = fifo + n
         /\ UNCHANGED <<capturing, handler, reading, awaiting, loop, frameSize, maxSize, failed, closes>>

-----------------------------------------------------------------------------
CleanFifo == fifo' = 0

(* doGetNextFrame: what piled up while nobody listened is thrown away.     *)
GetNextFrame(room) ==
    /\ loop = "select" /\ ~awaiting
    /\ awaiting' = TRUE /\ frameSize' = 0 /\ maxSize' = room
    /\ IF reading THEN UNCHANGED <<fifo, handler, reading>>
       ELSE CleanFifo /\ handler' = TRUE /\ reading' = TRUE
    /\ UNCHANGED <<capturing, loop, failed, closes>>

(* Definitions named Mut... are faults a change could bring in; the runs   *)
(* show which property each of them breaks.                                *)

(* doStopGettingFrames: the last client has gone, or there is data nobody  *)
(* asked for.                                                              *)
MutStopped == handler' = FALSE /\ UNCHANGED reading
Stopped == handler' = FALSE /\ reading' = FALSE

StopGettingFrames ==
    /\ loop = "select" /\ awaiting
    /\ Stopped /\ awaiting' = FALSE
    /\ UNCHANGED <<capturing, fifo, loop, frameSize, maxSize, failed, closes>>

(* fileReadableHandler.                                                    *)
Readable == loop = "select" /\ handler /\ (fifo > 0 \/ ~capturing)

NotReady == /\ Readable /\ ~awaiting
            /\ Stopped
            /\ UNCHANGED <<capturing, fifo, awaiting, loop, frameSize, maxSize, failed, closes>>

ReadFromFile == /\ Readable /\ awaiting
                /\ loop' = "read"
                /\ maxSize' = IF Preferred < maxSize THEN Preferred ELSE maxSize
                /\ UNCHANGED <<capturing, fifo, handler, reading, awaiting, frameSize, failed, closes>>

BytesToRead == maxSize - (maxSize % 2)

(* n bytes more.  Half a sample is not delivered, the rest is waited for.  *)
Got(n) ==
    /\ loop' = "select"
    /\ frameSize' = (frameSize + n) % Word
    /\ maxSize' = (maxSize - n) % Word
    /\ awaiting' = ((frameSize + n) % 2 # 0)
    /\ UNCHANGED <<capturing, handler, reading, closes>>

ReadSome == /\ loop = "read" /\ fifo > 0 /\ BytesToRead > 0
            /\ LET n == IF fifo < BytesToRead THEN fifo ELSE BytesToRead IN
               fifo' = fifo - n /\ Got(n)
            /\ UNCHANGED failed

(* The FIFO was at its end when select looked, and has a writer now.       *)
ReadNothing == /\ loop = "read" /\ fifo = 0 /\ capturing /\ BytesToRead > 0
               /\ Got(Word - 1)
               /\ failed' = TRUE
               /\ UNCHANGED fifo

-----------------------------------------------------------------------------
EventLoop == NotReady \/ ReadFromFile \/ ReadSome \/ ReadNothing

AudioNext == \/ Captures \/ Uncaptures \/ Snoop \/ StopGettingFrames \/ EventLoop
             \/ \E room \in Buffers : GetNextFrame(room)

AudioSpec == AudioInit /\ [][AudioNext]_audioVars

(* An open device captures, and the event loop runs.                       *)
AudioFairness == WF_audioVars(Snoop) /\ WF_audioVars(EventLoop)

AudioTypeOK ==
    /\ capturing \in BOOLEAN /\ fifo \in 0..FifoSize /\ handler \in BOOLEAN
    /\ reading \in BOOLEAN /\ awaiting \in BOOLEAN /\ loop \in {"select", "read"}
    /\ frameSize \in 0..(Word - 1) /\ maxSize \in 0..(Word - 1)
    /\ failed \in BOOLEAN /\ closes \in 0..MaxCloses

(* A request that waits has a handler to answer it, although the handler   *)
(* is switched off by clients that leave and by data nobody asked for, and *)
(* a flag of its own says whether it is on.                                *)
RequestHeard == awaiting => handler

(* A request for audio is answered while the camera captures, though       *)
(* clients come and go, the handler switches itself off when nobody asks,  *)
(* and the device is closed and opened.  Except after a read that failed:  *)
(* from there on the frame has half a sample too many, the room for it     *)
(* runs down to nothing, and then the event loop waits for bytes it does   *)
(* not read.                                                               *)
AudioFlows == awaiting ~> (~awaiting \/ ~capturing \/ failed)
=============================================================================
