--------------------------- MODULE FramePipeline ---------------------------
(***************************************************************************)
(* The path of a camera frame: the CSI peripheral writes frames by DMA into *)
(* the two buffers of SEEKFREE_MT9V03X_CSI.c, the CSI interrupt (fsl_csi.c, *)
(* csi_isr) recycles the finished buffer at once, publishes it in           *)
(* mt9v03x_csi_image and releases csi_done_sem, and the loop of main()      *)
(* takes the semaphore and filters the published buffer.                    *)
(*                                                                         *)
(* Nothing locks the buffers: a frame is read whole only because main()     *)
(* starts right after the interrupt and is faster than the camera.  Time is *)
(* therefore part of the model: Tick advances it, and three constants bound *)
(* what the hardware and the scheduler may do.                              *)
(***************************************************************************)
EXTENDS Naturals

CONSTANTS
  FRAME,    \* ticks the camera takes for one frame (20 ms at 50 fps)
  LATENCY,  \* ticks the CSI interrupt may stay pending (interrupts masked)
  FILTER,   \* ticks main() may take from being runnable to the filtered image
  SEM_MAX   \* RT_SEM_VALUE_MAX

ASSUME FramePipelineAssumption ==
  /\ FRAME \in Nat \ {0}
  /\ LATENCY \in Nat
  /\ FILTER \in Nat
  /\ SEM_MAX \in Nat \ {0}

csi1 == 1       \* mt9v03x_csi1_image
csi2 == 2       \* mt9v03x_csi2_image
Buffer == {csi1, csi2}
NoBuffer == 0   \* the NULL address in a zeroed handle

CSI_DRIVER_QUEUE_SIZE == 2
CSI_DRIVER_ACTUAL_QUEUE_SIZE == CSI_DRIVER_QUEUE_SIZE + 1
QueueIdx == 0 .. CSI_DRIVER_ACTUAL_QUEUE_SIZE - 1

VARIABLES
  csi,      \* csi_handle_t and the registers CSIDMASA_FB1, CSIDMASA_FB2
  cur,      \* the register whose buffer the DMA fills next or now
  hunting,  \* the DMA waits for the first data of the next frame
  done,     \* CSISR: the DMA_TSF_DONE flags of the two registers
  phase,    \* ticks since the camera began the current frame
  pending,  \* ticks the interrupt has been pending
  image,    \* mt9v03x_csi_image
  sem,      \* csi_done_sem->value
  main,     \* where the thread main() is
  elapsed,  \* ticks main() has been runnable since it was last woken or reset
  src,      \* the buffer gray_mean_filter is reading
  consumed, \* history: main() has already filtered what image holds
  lag       \* history: how late the interrupt came for the frame main() is given

vars == <<csi, cur, hunting, done, phase, pending, image, sem, main, elapsed,
          src, consumed, lag>>

camera == <<cur, hunting, done, phase, pending>>

----------------------------------------------------------------------------
(* The buffer queue of fsl_csi.c, as functions of the handle h.             *)

\* The wrapped case adds where it should subtract; only 0 and 2 are compared.
CSI_TransferGetQueueDelta(startIdx, endIdx) ==
  IF endIdx >= startIdx
    THEN endIdx - startIdx
    ELSE startIdx + CSI_DRIVER_ACTUAL_QUEUE_SIZE - endIdx

CSI_TransferIncreaseQueueIdx(idx) ==
  IF idx + 1 >= CSI_DRIVER_ACTUAL_QUEUE_SIZE THEN 0 ELSE idx + 1

CSI_TransferGetEmptyBufferCount(h) ==
  CSI_TransferGetQueueDelta(h.drvRead, h.userWrite)

\* CSI_TransferCreateHandle zeroes the handle.
CSI_TransferCreateHandle ==
  [queue |-> [i \in QueueIdx |-> NoBuffer],
   userRead |-> 0, userWrite |-> 0, drvRead |-> 0, drvWrite |-> 0,
   next |-> 0, active |-> 0, started |-> FALSE, onGoing |-> FALSE,
   fb |-> [r \in {0, 1} |-> NoBuffer]]

CSI_TransferLoadBufferToDevice(h) ==
  [h EXCEPT !.fb[h.next] = h.queue[h.drvRead],
            !.drvRead = CSI_TransferIncreaseQueueIdx(@),
            !.active = @ + 1,
            !.next = 1 - @]

LoadBothBuffers(h) ==
  CSI_TransferLoadBufferToDevice(CSI_TransferLoadBufferToDevice(h))

\* The restart of a stopped transfer also reflashes the DMA (cur, hunting): not
\* written out, since by CaptureNeverStarves the transfer never stops.
CSI_TransferSubmitEmptyBuffer(h, b) ==
  IF CSI_TransferGetQueueDelta(h.userRead, h.userWrite) = CSI_DRIVER_QUEUE_SIZE
    THEN h
    ELSE LET q == [h EXCEPT !.queue[h.userWrite] = b,
                            !.userWrite = CSI_TransferIncreaseQueueIdx(@)]
         IN  IF q.started /\ ~q.onGoing /\ CSI_TransferGetEmptyBufferCount(q) >= 2
               THEN LoadBothBuffers([q EXCEPT !.onGoing = TRUE, !.next = 0])
               ELSE q

CSI_TransferStart(h) ==
  IF CSI_TransferGetEmptyBufferCount(h) < 2
    THEN h
    ELSE [LoadBothBuffers([h EXCEPT !.next = 0, !.active = 0])
            EXCEPT !.started = TRUE, !.onGoing = TRUE]

HasFullBuffer(h) == h.userRead # h.drvWrite

CSI_TransferGetFullBuffer(h) ==
  [buffer |-> h.queue[h.userRead],
   handle |-> [h EXCEPT !.userRead = CSI_TransferIncreaseQueueIdx(@)]]

\* Fault variant: nextBufferIdx keeps its value across the reset.
ResetActiveBuffers_KeepsNext(h) ==
  [h EXCEPT !.fb = [r \in {0, 1} |->
                      IF r = 0 THEN h.queue[h.drvWrite]
                      ELSE h.queue[CSI_TransferIncreaseQueueIdx(h.drvWrite)]]]

\* Both done flags: the registers are reloaded with the buffers in use.
ResetActiveBuffers(h) ==
  IF h.active = 0
    THEN h
    ELSE IF h.active = 2
      THEN [h EXCEPT !.fb = [r \in {0, 1} |->
                               IF r = 0 THEN h.queue[h.drvWrite]
                               ELSE h.queue[CSI_TransferIncreaseQueueIdx(h.drvWrite)]],
                     !.next = 0]
      ELSE [h EXCEPT !.fb[0] = h.queue[h.drvWrite], !.next = 1]

\* One done flag: the oldest active buffer is full.
FinishOldestBuffer(h) ==
  [h EXCEPT !.drvWrite = CSI_TransferIncreaseQueueIdx(@), !.active = @ - 1]

\* Fault variant: the peripheral is stopped but the register not reloaded.
RefillOrStop_NoRefill(h) ==
  IF h.active = 0 THEN [h EXCEPT !.onGoing = FALSE] ELSE h

\* After the callback: stop the peripheral or give it the next empty buffer.
RefillOrStop(h) ==
  IF h.active = 0
    THEN [h EXCEPT !.onGoing = FALSE]
    ELSE IF CSI_TransferGetEmptyBufferCount(h) # 0
           THEN CSI_TransferLoadBufferToDevice(h)
           ELSE h

----------------------------------------------------------------------------
Init ==
  /\ csi = CSI_TransferCreateHandle
  /\ cur = 0 /\ hunting = TRUE /\ done = {} /\ phase = 0 /\ pending = 0
  /\ image = NoBuffer
  /\ sem = 0
  /\ main = "init"
  /\ elapsed = 0
  /\ src = NoBuffer
  /\ consumed = TRUE
  /\ lag = 0

\* The capture part of mt9v03x_csi_init; interrupts are off from csi_init to
\* its last line.
mt9v03x_csi_init ==
  /\ main = "init"
  /\ csi' = CSI_TransferStart(
              CSI_TransferSubmitEmptyBuffer(
                CSI_TransferSubmitEmptyBuffer(csi, csi1), csi2))
  /\ image' = csi1
  /\ main' = "reset"
  /\ UNCHANGED <<camera, sem, elapsed, src, consumed, lag>>

----------------------------------------------------------------------------
(* The camera and the DMA engine (hardware).                                *)

\* One tick.  The interrupt is served within LATENCY and main() reaches the
\* end of the filter within FILTER ticks of running.
Tick ==
  /\ done # {} => pending < LATENCY
  /\ main \in {"take", "woken", "filter"} => elapsed < FILTER
  /\ pending' = IF done # {} THEN pending + 1 ELSE 0
  /\ elapsed' = IF main \in {"take", "woken", "filter"} THEN elapsed + 1 ELSE 0
  /\ phase' = IF phase + 1 < FRAME THEN phase + 1 ELSE 0
  /\ IF phase + 1 < FRAME \/ ~csi.onGoing
       THEN UNCHANGED <<cur, hunting, done>>
       ELSE IF hunting
         THEN /\ hunting' = FALSE
              /\ UNCHANGED <<cur, done>>
         ELSE /\ done' = done \cup {cur}
              /\ cur' = 1 - cur
              /\ UNCHANGED hunting
  /\ UNCHANGED <<csi, image, sem, main, src, consumed, lag>>

\* The buffer the DMA engine is writing.
Writing(b) == csi.onGoing /\ ~hunting /\ csi.fb[cur] = b

----------------------------------------------------------------------------
(* The CSI interrupt.                                                       *)

\* rt_sem_release(csi_done_sem): hand over to main() if it is suspended.
rt_sem_release ==
  IF main = "blocked"
    THEN main' = "woken" /\ UNCHANGED sem
    ELSE sem' = (IF sem < SEM_MAX THEN sem + 1 ELSE sem) /\ UNCHANGED main

\* Fault variant: the buffer is kept for main() instead of being resubmitted.
RecycleFullBuffer_Kept(h) ==
  IF HasFullBuffer(h) THEN CSI_TransferGetFullBuffer(h).handle ELSE h

\* csi_isr, the driver's callback: the full buffer goes straight back into the
\* queue of empty ones ...
RecycleFullBuffer(h) ==
  IF HasFullBuffer(h)
    THEN LET full == CSI_TransferGetFullBuffer(h)
         IN  CSI_TransferSubmitEmptyBuffer(full.handle, full.buffer)
    ELSE h

\* Fault variant: a frame main() has not filtered yet is not replaced.
csi_isr_KeepsOld(h) ==
  IF HasFullBuffer(h)
    THEN /\ image' = IF consumed THEN CSI_TransferGetFullBuffer(h).buffer ELSE image
         /\ consumed' = FALSE
         /\ rt_sem_release
    ELSE UNCHANGED <<image, consumed, sem, main>>

\* ... and is published to main().  (mt9v03x_csi_finish_flag is never read.)
csi_isr(h) ==
  IF HasFullBuffer(h)
    THEN /\ image' = CSI_TransferGetFullBuffer(h).buffer
         /\ consumed' = FALSE
         /\ rt_sem_release
    ELSE UNCHANGED <<image, consumed, sem, main>>

\* CSI_TransferHandleIRQ with one done flag set.
FrameDone ==
  /\ done \in {{0}, {1}}
  /\ done' = {}
  /\ csi_isr(FinishOldestBuffer(csi))
  /\ csi' = RefillOrStop(RecycleFullBuffer(FinishOldestBuffer(csi)))
  /\ lag' = IF main = "filter" THEN lag ELSE pending
  /\ UNCHANGED <<cur, hunting>>

\* CSI_TransferHandleIRQ with both done flags set: the interrupt came more
\* than a frame late, the transfer restarts from frame buffer 0.
FrameOverrun ==
  /\ done = {0, 1}
  /\ done' = {}
  /\ csi' = ResetActiveBuffers(csi)
  /\ cur' = 0
  /\ hunting' = TRUE
  /\ UNCHANGED <<image, consumed, sem, main, lag>>

CSI_IRQHandler ==
  /\ FrameDone \/ FrameOverrun
  /\ pending' = 0
  /\ UNCHANGED <<phase, elapsed, src>>

----------------------------------------------------------------------------
(* The loop of main().                                                      *)

\* Fault variant: releases left over from the last iteration are kept.
ResetSem_KeepsCount ==
  /\ main = "reset"
  /\ main' = "take"
  /\ elapsed' = 0
  /\ UNCHANGED <<csi, camera, image, sem, src, consumed, lag>>

\* rt_sem_control(csi_done_sem, RT_IPC_CMD_RESET, RT_NULL)
ResetSem ==
  /\ main = "reset"
  /\ sem' = 0
  /\ main' = "take"
  /\ elapsed' = 0
  /\ UNCHANGED <<csi, camera, image, src, consumed, lag>>

\* rt_sem_take(csi_done_sem, RT_WAITING_FOREVER)
TakeSem ==
  /\ main = "take"
  /\ IF sem > 0
       THEN sem' = sem - 1 /\ main' = "woken" /\ UNCHANGED elapsed
       ELSE sem' = sem /\ main' = "blocked" /\ elapsed' = 0
  /\ UNCHANGED <<csi, camera, image, src, consumed, lag>>

\* gray_mean_filter(mt9v03x_csi_image, FilterImage): the pointer is read once.
StartFilter ==
  /\ main = "woken"
  /\ src' = image
  /\ consumed' = TRUE
  /\ main' = "filter"
  /\ UNCHANGED <<csi, camera, image, sem, elapsed, lag>>

FinishFilter ==
  /\ main = "filter"
  /\ src' = NoBuffer
  /\ main' = "control"
  /\ UNCHANGED <<csi, camera, image, sem, elapsed, consumed, lag>>

\* The rest of the iteration: binary image, lines, steering, display.
FinishIteration ==
  /\ main = "control"
  /\ main' = "reset"
  /\ UNCHANGED <<csi, camera, image, sem, elapsed, src, consumed, lag>>

MainStep ==
  \/ mt9v03x_csi_init
  \/ ResetSem
  \/ TakeSem
  \/ StartFilter
  \/ FinishFilter
  \/ FinishIteration

Next == Tick \/ CSI_IRQHandler \/ MainStep

\* Time passes, an unmasked interrupt is served, and main() runs whenever it is
\* runnable: only the shell has a higher priority and it waits for input.
Fairness == WF_vars(Tick) /\ WF_vars(CSI_IRQHandler) /\ WF_vars(MainStep)

Spec == Init /\ [][Next]_vars

FairSpec == Spec /\ Fairness

----------------------------------------------------------------------------
(* Properties.                                                              *)

Handle ==
  [queue : [QueueIdx -> Buffer \cup {NoBuffer}],
   userRead : QueueIdx, userWrite : QueueIdx, drvRead : QueueIdx, drvWrite : QueueIdx,
   next : {0, 1}, active : 0 .. 2, started : BOOLEAN, onGoing : BOOLEAN,
   fb : [{0, 1} -> Buffer \cup {NoBuffer}]]

\* Every variable stays in its type; the semaphore never passes RT_SEM_VALUE_MAX.
TypeOK ==
  /\ csi \in Handle
  /\ cur \in {0, 1} /\ hunting \in BOOLEAN /\ done \in SUBSET {0, 1}
  /\ phase \in 0 .. FRAME - 1 /\ pending \in 0 .. LATENCY
  /\ image \in Buffer \cup {NoBuffer} /\ src \in Buffer \cup {NoBuffer}
  /\ sem \in 0 .. SEM_MAX
  /\ main \in {"init", "reset", "take", "blocked", "woken", "filter", "control"}
  /\ elapsed \in 0 .. FILTER
  /\ consumed \in BOOLEAN
  /\ lag \in 0 .. LATENCY

\* The camera is never left without a buffer and never shares one: from
\* mt9v03x_csi_init on the transfer is on, both registers hold different
\* buffers, and they are the two the driver's queue counts as active, however
\* late the interrupts came (CSI_TransferHandleIRQ, csi_isr).
CaptureNeverStarves ==
  main # "init" =>
    /\ csi.onGoing /\ csi.active = 2
    /\ csi.fb[0] # csi.fb[1]
    /\ csi.fb[csi.next] = csi.queue[csi.drvWrite]
    /\ csi.userRead = csi.drvWrite

\* The interrupt that acknowledges one finished register publishes the buffer of
\* that register and not the one the DMA has moved on to (csi_isr trusts the
\* order of the driver's queue, not the flag).
PublishesFinishedBuffer ==
  [][\A r \in {0, 1} : done = {r} /\ done' = {} =>
        image' = csi.fb[r] /\ ~Writing(csi.fb[r])]_vars

\* No frame is torn: the buffer main() is filtering is not the one the DMA is
\* writing as long as the lateness of that frame's interrupt and the time main()
\* has taken since it could run add up to less than a frame.  What went before
\* (late interrupts, overruns, slow iterations) does not count: main.c resets the
\* semaphore, so the release it answers is for the newest frame.
NoTornFrame == main = "filter" /\ lag + elapsed < FRAME => ~Writing(src)

\* main() never filters the same frame a second time: what it starts on was
\* published after it finished the previous iteration.
FreshFrame == [][main = "woken" /\ main' = "filter" => ~consumed]_vars

\* The buffer csi_isr publishes next: the oldest one the driver counts as active.
Filling == IF main = "init" THEN csi1 ELSE csi.queue[csi.drvWrite]

HandOver == INSTANCE DoubleBuffer
  WITH filling <- Filling, fresh <- ~consumed, reading <- src

\* Driver, callback and main() together are a double buffer: through overruns,
\* resets of the semaphore and frames main() misses, csi_isr publishes the two
\* buffers in turn, and gray_mean_filter is given the newest of them, once.
DoubleBuffered == HandOver!Spec

\* The control loop never dries up: once interrupts are no longer a whole frame
\* late (the handler publishes nothing after an overrun), main() filters a frame
\* again and again, whatever overruns went before.
KeepsProcessing == <>[](done # {0, 1}) => []<>(main = "filter")
============================================================================
