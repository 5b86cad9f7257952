---------------------------- MODULE DoubleBuffer ----------------------------
(***************************************************************************)
(* What the camera driver promises main(): frames are published from the    *)
(* buffers in strict alternation; each take hands main() the newest frame,  *)
(* and no frame is handed out twice.  It does not promise that the producer *)
(* waits: a frame that was not taken is replaced by the next one, and       *)
(* publishing goes on while main() reads.  FramePipeline implements it.     *)
(***************************************************************************)
CONSTANTS
  Buffer,     \* the two image buffers
  NoBuffer

VARIABLES
  filling,    \* the buffer that is published next
  fresh,      \* the published frame has not been taken
  reading     \* the buffer main() reads, or NoBuffer

handOver == <<filling, fresh, reading>>

Init ==
  /\ filling \in Buffer
  /\ fresh = FALSE
  /\ reading = NoBuffer

\* The full buffer is published, another one is filled.
Publish ==
  /\ filling' \in Buffer \ {filling}
  /\ fresh' = TRUE
  /\ UNCHANGED reading

\* main() takes what was published last.
Take ==
  /\ fresh
  /\ reading = NoBuffer
  /\ reading' \in Buffer \ {filling}
  /\ fresh' = FALSE
  /\ UNCHANGED filling

Release ==
  /\ reading # NoBuffer
  /\ reading' = NoBuffer
  /\ UNCHANGED <<filling, fresh>>

Next == Publish \/ Take \/ Release

Spec == Init /\ [][Next]_handOver
=============================================================================
