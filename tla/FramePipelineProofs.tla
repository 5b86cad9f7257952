------------------------ MODULE FramePipelineProofs ------------------------
(***************************************************************************)
(* Proofs about FramePipeline, for every frame time, latency, filter time   *)
(* and semaphore limit.  DriverInv and DmaInv tie the driver's queue to the *)
(* registers and to the DMA engine whatever the interrupt latency; LagInv   *)
(* adds how far the camera can have got with the next frame while main() may *)
(* still read the published one.                                            *)
(***************************************************************************)
EXTENDS FramePipeline, TLAPS

IncIdx(i) == CSI_TransferIncreaseQueueIdx(i)

\* Both buffers are loaded, oldest first, and the queue is in step with them.
QueueInStep(h) ==
  /\ h.started /\ h.onGoing /\ h.active = 2
  /\ h.userRead = h.drvWrite
  /\ h.drvRead = h.userWrite
  /\ h.userWrite = IncIdx(IncIdx(h.drvWrite))
  /\ h.fb[h.next] = h.queue[h.drvWrite]
  /\ h.fb[1 - h.next] = h.queue[IncIdx(h.drvWrite)]
  /\ h.fb[0] \in Buffer /\ h.fb[1] \in Buffer
  /\ h.fb[0] # h.fb[1]

DriverInv ==
  IF main = "init"
    THEN csi = CSI_TransferCreateHandle /\ done = {} /\ hunting /\ cur = 0
    ELSE QueueInStep(csi)

\* The DMA works on the register the driver will hear of next.
DmaInv ==
  /\ done = {} => cur = csi.next
  /\ \A r \in {0, 1} : done = {r} => r = csi.next /\ cur = 1 - csi.next
  /\ hunting => done = {}

\* A release main() has not yet answered was made for a frame it has not seen.
FreshInv == (main = "take" /\ sem > 0) \/ main = "woken" => ~consumed

Inv == TypeOK /\ DriverInv /\ DmaInv /\ FreshInv

----------------------------------------------------------------------------
\* The queue index runs through 0, 1, 2 and back to 0.
LEMMA QueueIndex ==
  /\ QueueIdx = {0, 1, 2}
  /\ IncIdx(0) = 1 /\ IncIdx(1) = 2 /\ IncIdx(2) = 0
  /\ \A i : IncIdx(i) = CSI_TransferIncreaseQueueIdx(i)
BY DEF IncIdx, CSI_TransferIncreaseQueueIdx, QueueIdx, CSI_DRIVER_ACTUAL_QUEUE_SIZE,
       CSI_DRIVER_QUEUE_SIZE

\* FinishOldestBuffer and CSI_TransferGetFullBuffer move one index each.
LEMMA FinishAndGet ==
  ASSUME NEW h \in Handle, QueueInStep(h),
         NEW g, g = CSI_TransferGetFullBuffer(FinishOldestBuffer(h)).handle
  PROVE  /\ HasFullBuffer(FinishOldestBuffer(h))
         /\ CSI_TransferGetFullBuffer(FinishOldestBuffer(h)).buffer = h.queue[h.drvWrite]
         /\ g \in Handle
         /\ g.queue = h.queue /\ g.fb = h.fb /\ g.next = h.next /\ g.active = 1
         /\ g.drvWrite = IncIdx(h.drvWrite) /\ g.userRead = IncIdx(h.drvWrite)
         /\ g.drvRead = h.drvRead /\ g.userWrite = h.userWrite
         /\ g.started /\ g.onGoing
<1> DEFINE f == FinishOldestBuffer(h)
<1>1. IncIdx(h.drvWrite) \in QueueIdx /\ IncIdx(h.drvWrite) # h.drvWrite
  BY QueueIndex DEF Handle
<1>2. h.active = 2 /\ h.userRead = h.drvWrite
  BY DEF QueueInStep
<1>3. /\ f \in Handle
      /\ f.queue = h.queue /\ f.fb = h.fb /\ f.next = h.next /\ f.active = 1
      /\ f.drvWrite = IncIdx(h.drvWrite) /\ f.userRead = h.drvWrite
      /\ f.drvRead = h.drvRead /\ f.userWrite = h.userWrite
  <2>1. h.active - 1 = 1 /\ 1 \in 0 .. 2
    BY <1>2
  <2>. QED
    BY <1>1, <1>2, <2>1, QueueIndex DEF FinishOldestBuffer, Handle
<1>4. f.started = h.started /\ f.onGoing = h.onGoing
  BY DEF FinishOldestBuffer, Handle
<1> HIDE DEF f
<1>5. CSI_TransferGetFullBuffer(f).handle = [f EXCEPT !.userRead = IncIdx(h.drvWrite)]
  BY <1>3, QueueIndex DEF CSI_TransferGetFullBuffer
<1>6. CSI_TransferGetFullBuffer(f).buffer = h.queue[h.drvWrite]
  BY <1>3 DEF CSI_TransferGetFullBuffer
<1>7. HasFullBuffer(f)
  BY <1>1, <1>3 DEF HasFullBuffer
<1>8. g = [f EXCEPT !.userRead = IncIdx(h.drvWrite)]
  BY <1>5 DEF f
<1>9. /\ g \in Handle
      /\ g.queue = h.queue /\ g.fb = h.fb /\ g.next = h.next /\ g.active = 1
      /\ g.drvWrite = IncIdx(h.drvWrite) /\ g.userRead = IncIdx(h.drvWrite)
      /\ g.drvRead = h.drvRead /\ g.userWrite = h.userWrite
  BY <1>1, <1>3, <1>8 DEF Handle
<1>10. g.started = h.started /\ g.onGoing = h.onGoing
  BY <1>3, <1>4, <1>8 DEF Handle
<1>. QED
  BY <1>6, <1>7, <1>9, <1>10 DEF f, QueueInStep

\* CSI_TransferSubmitEmptyBuffer on a queue with room, when it need not restart
\* the peripheral.
LEMMA SubmitFields ==
  ASSUME NEW h \in Handle, NEW b \in Buffer,
         CSI_TransferGetQueueDelta(h.userRead, h.userWrite) # CSI_DRIVER_QUEUE_SIZE,
         h.onGoing \/ ~h.started,
         NEW s, s = CSI_TransferSubmitEmptyBuffer(h, b)
  PROVE  /\ s \in Handle
         /\ s.queue = [h.queue EXCEPT ![h.userWrite] = b]
         /\ s.userWrite = IncIdx(h.userWrite)
         /\ s.userRead = h.userRead /\ s.drvRead = h.drvRead /\ s.drvWrite = h.drvWrite
         /\ s.fb = h.fb /\ s.next = h.next /\ s.active = h.active
         /\ s.started = h.started /\ s.onGoing = h.onGoing
<1> DEFINE q == [h EXCEPT !.queue[h.userWrite] = b,
                          !.userWrite = CSI_TransferIncreaseQueueIdx(@)]
<1>1. IncIdx(h.userWrite) \in QueueIdx /\ h.userWrite \in QueueIdx
  BY QueueIndex DEF Handle
<1>2. /\ q \in Handle
      /\ q.queue = [h.queue EXCEPT ![h.userWrite] = b]
      /\ q.userWrite = IncIdx(h.userWrite)
      /\ q.userRead = h.userRead /\ q.drvRead = h.drvRead /\ q.drvWrite = h.drvWrite
      /\ q.fb = h.fb /\ q.next = h.next /\ q.active = h.active
  BY <1>1, QueueIndex DEF Handle
<1>3. q.started = h.started /\ q.onGoing = h.onGoing
  BY DEF Handle
<1>4. q.onGoing \/ ~q.started
  BY <1>3
<1>5. s = q
  BY <1>4, Zenon DEF CSI_TransferSubmitEmptyBuffer
<1> HIDE DEF q
<1>. QED
  BY <1>2, <1>3, <1>5

\* CSI_TransferLoadBufferToDevice fills the register nextBufferIdx names.
LEMMA LoadFields ==
  ASSUME NEW h \in Handle, h.active < 2,
         NEW l, l = CSI_TransferLoadBufferToDevice(h)
  PROVE  /\ l \in Handle
         /\ l.fb = [h.fb EXCEPT ![h.next] = h.queue[h.drvRead]]
         /\ l.drvRead = IncIdx(h.drvRead)
         /\ l.active = h.active + 1 /\ l.next = 1 - h.next
         /\ l.queue = h.queue /\ l.userRead = h.userRead
         /\ l.userWrite = h.userWrite /\ l.drvWrite = h.drvWrite
         /\ l.started = h.started /\ l.onGoing = h.onGoing
<1> DEFINE fb2 == [h.fb EXCEPT ![h.next] = h.queue[h.drvRead]]
<1>1. /\ IncIdx(h.drvRead) \in QueueIdx
      /\ IncIdx(h.drvRead) = CSI_TransferIncreaseQueueIdx(h.drvRead)
  BY QueueIndex DEF Handle
<1>2. h.active + 1 \in 0 .. 2 /\ 1 - h.next \in {0, 1}
  BY DEF Handle
<1>3. fb2 \in [{0, 1} -> Buffer \cup {NoBuffer}]
  BY DEF Handle
<1>4. l = [h EXCEPT !.fb = fb2, !.drvRead = IncIdx(h.drvRead),
                    !.active = h.active + 1, !.next = 1 - h.next]
  BY <1>1 DEF CSI_TransferLoadBufferToDevice, Handle
<1> HIDE DEF fb2
<1>5. /\ l.fb = fb2 /\ l.drvRead = IncIdx(h.drvRead)
      /\ l.active = h.active + 1 /\ l.next = 1 - h.next
      /\ l.queue = h.queue /\ l.userRead = h.userRead
      /\ l.userWrite = h.userWrite /\ l.drvWrite = h.drvWrite
  BY <1>4 DEF Handle
<1>6. l.started = h.started /\ l.onGoing = h.onGoing
  BY <1>4 DEF Handle
<1>7. l \in Handle
  BY <1>1, <1>2, <1>3, <1>4 DEF Handle
<1>. QED
  BY <1>5, <1>6, <1>7 DEF fb2

\* What an interrupt for one frame does to a queue that is in step: the oldest
\* buffer is handed out and goes back to the register it came from.
LEMMA HandleFrame ==
  ASSUME NEW h \in Handle, QueueInStep(h),
         NEW l, l = RefillOrStop(RecycleFullBuffer(FinishOldestBuffer(h)))
  PROVE  /\ HasFullBuffer(FinishOldestBuffer(h))
         /\ CSI_TransferGetFullBuffer(FinishOldestBuffer(h)).buffer = h.fb[h.next]
         /\ l \in Handle
         /\ QueueInStep(l)
         /\ l.next = 1 - h.next
         /\ l.fb = h.fb
<1> DEFINE full == CSI_TransferGetFullBuffer(FinishOldestBuffer(h))
           g == full.handle
           b == full.buffer
           s == CSI_TransferSubmitEmptyBuffer(g, b)
<1>1. /\ HasFullBuffer(FinishOldestBuffer(h))
      /\ b = h.queue[h.drvWrite]
      /\ g \in Handle
      /\ g.queue = h.queue /\ g.fb = h.fb /\ g.next = h.next /\ g.active = 1
      /\ g.drvWrite = IncIdx(h.drvWrite) /\ g.userRead = IncIdx(h.drvWrite)
      /\ g.drvRead = h.drvRead /\ g.userWrite = h.userWrite
      /\ g.started /\ g.onGoing
  BY FinishAndGet
<1>2. /\ h.next \in {0, 1} /\ h.drvWrite \in {0, 1, 2}
      /\ h.fb \in [{0, 1} -> Buffer \cup {NoBuffer}]
      /\ h.queue \in [{0, 1, 2} -> Buffer \cup {NoBuffer}]
  BY QueueIndex DEF Handle
<1>3. /\ h.drvRead = IncIdx(IncIdx(h.drvWrite))
      /\ h.userWrite = IncIdx(IncIdx(h.drvWrite))
      /\ h.fb[h.next] = h.queue[h.drvWrite]
      /\ h.fb[1 - h.next] = h.queue[IncIdx(h.drvWrite)]
      /\ h.fb[0] \in Buffer /\ h.fb[1] \in Buffer /\ h.fb[0] # h.fb[1]
  BY DEF QueueInStep
<1>4. b = h.fb[h.next] /\ b \in Buffer
  BY <1>1, <1>2, <1>3
<1>5. RecycleFullBuffer(FinishOldestBuffer(h)) = s
  BY <1>1 DEF RecycleFullBuffer
<1> HIDE DEF full, g, b, s
<1>6. /\ s \in Handle
      /\ s.queue = [h.queue EXCEPT ![h.userWrite] = b]
      /\ s.userWrite = h.drvWrite
      /\ s.userRead = IncIdx(h.drvWrite) /\ s.drvWrite = IncIdx(h.drvWrite)
      /\ s.drvRead = IncIdx(IncIdx(h.drvWrite))
      /\ s.fb = h.fb /\ s.next = h.next /\ s.active = 1
      /\ s.started /\ s.onGoing
  <2>1. IncIdx(IncIdx(IncIdx(h.drvWrite))) = h.drvWrite
    BY <1>2, QueueIndex
  <2>2. CSI_TransferGetQueueDelta(g.userRead, g.userWrite) # CSI_DRIVER_QUEUE_SIZE
    BY <1>1, <1>2, <1>3, QueueIndex
       DEF CSI_TransferGetQueueDelta, CSI_DRIVER_QUEUE_SIZE, CSI_DRIVER_ACTUAL_QUEUE_SIZE
  <2>3. /\ s \in Handle
        /\ s.queue = [g.queue EXCEPT ![g.userWrite] = b]
        /\ s.userWrite = IncIdx(g.userWrite)
        /\ s.userRead = g.userRead /\ s.drvRead = g.drvRead /\ s.drvWrite = g.drvWrite
        /\ s.fb = g.fb /\ s.next = g.next /\ s.active = g.active
        /\ s.started = g.started /\ s.onGoing = g.onGoing
    BY <1>1, <1>4, <2>2, SubmitFields DEF s
  <2>. QED
    BY <1>1, <1>3, <2>1, <2>3
<1>7. CSI_TransferGetEmptyBufferCount(s) # 0
  BY <1>2, <1>6, QueueIndex
     DEF CSI_TransferGetEmptyBufferCount, CSI_TransferGetQueueDelta,
         CSI_DRIVER_ACTUAL_QUEUE_SIZE, CSI_DRIVER_QUEUE_SIZE
<1>8. l = CSI_TransferLoadBufferToDevice(s)
  BY <1>5, <1>6, <1>7 DEF RefillOrStop
<1>9. /\ s.queue[s.drvRead] = b
      /\ IncIdx(s.drvRead) = h.drvWrite
      /\ IncIdx(s.drvRead) \in QueueIdx
  BY <1>2, <1>3, <1>6, QueueIndex
<1>10. /\ l \in Handle
       /\ l.queue = s.queue /\ l.userRead = s.userRead /\ l.userWrite = s.userWrite
       /\ l.drvWrite = s.drvWrite /\ l.drvRead = h.drvWrite
       /\ l.active = 2 /\ l.next = 1 - h.next
       /\ l.fb = [h.fb EXCEPT ![h.next] = b]
  <2>1. s.active < 2 /\ s.active + 1 = 2
    BY <1>6
  <2>2. /\ l \in Handle
        /\ l.fb = [s.fb EXCEPT ![s.next] = s.queue[s.drvRead]]
        /\ l.drvRead = IncIdx(s.drvRead)
        /\ l.active = s.active + 1 /\ l.next = 1 - s.next
        /\ l.queue = s.queue /\ l.userRead = s.userRead
        /\ l.userWrite = s.userWrite /\ l.drvWrite = s.drvWrite
    <3>1. s \in Handle /\ l = CSI_TransferLoadBufferToDevice(s)
      BY <1>6, <1>8
    <3>. QED
      BY <2>1, <3>1, LoadFields
  <2>. QED
    BY <1>6, <1>9, <2>1, <2>2
<1>11. l.started = s.started /\ l.onGoing = s.onGoing
  <2>1. s.active < 2
    BY <1>6
  <2>. QED
    BY <1>6, <1>8, <2>1, LoadFields
<1>12. l.fb = h.fb
  BY <1>2, <1>4, <1>10
<1>13. /\ l.fb[l.next] = l.queue[l.drvWrite]
       /\ l.fb[1 - l.next] = l.queue[IncIdx(l.drvWrite)]
  BY <1>2, <1>3, <1>4, <1>6, <1>10, <1>12, QueueIndex
<1>14. l.userWrite = IncIdx(IncIdx(l.drvWrite)) /\ l.drvRead = l.userWrite
  BY <1>2, <1>6, <1>10, QueueIndex
<1>15. QueueInStep(l)
  BY <1>3, <1>6, <1>10, <1>11, <1>12, <1>13, <1>14 DEF QueueInStep
<1>. QED
  BY <1>1, <1>4, <1>10, <1>12, <1>15 DEF b, full

\* An overrun leaves the queue in step and the oldest buffer in register 0.
LEMMA HandleOverrun ==
  ASSUME NEW h \in Handle, QueueInStep(h)
  PROVE  /\ ResetActiveBuffers(h) \in Handle
         /\ QueueInStep(ResetActiveBuffers(h))
         /\ ResetActiveBuffers(h).next = 0
<1> DEFINE fb2 == [r \in {0, 1} |->
                     IF r = 0 THEN h.queue[h.drvWrite]
                     ELSE h.queue[CSI_TransferIncreaseQueueIdx(h.drvWrite)]]
           l == [h EXCEPT !.fb = fb2, !.next = 0]
<1>1. ResetActiveBuffers(h) = l
  BY DEF ResetActiveBuffers, QueueInStep
<1>2. /\ h.next \in {0, 1} /\ h.drvWrite \in {0, 1, 2} /\ IncIdx(h.drvWrite) \in {0, 1, 2}
      /\ h.queue \in [{0, 1, 2} -> Buffer \cup {NoBuffer}]
  BY QueueIndex DEF Handle
<1>3. /\ fb2 \in [{0, 1} -> Buffer \cup {NoBuffer}]
      /\ fb2[0] = h.queue[h.drvWrite] /\ fb2[1] = h.queue[IncIdx(h.drvWrite)]
  BY <1>2, QueueIndex
<1>4. /\ fb2[0] \in Buffer /\ fb2[1] \in Buffer /\ fb2[0] # fb2[1]
  BY <1>2, <1>3 DEF QueueInStep
<1> HIDE DEF fb2
<1>5. /\ l \in Handle
      /\ l.queue = h.queue /\ l.userRead = h.userRead /\ l.userWrite = h.userWrite
      /\ l.drvRead = h.drvRead /\ l.drvWrite = h.drvWrite /\ l.active = h.active
      /\ l.next = 0 /\ l.fb = fb2
  BY <1>3 DEF Handle
<1>6. l.started = h.started /\ l.onGoing = h.onGoing
  BY DEF Handle
<1> HIDE DEF l
<1>7. QueueInStep(l)
  BY <1>3, <1>4, <1>5, <1>6 DEF QueueInStep
<1>. QED
  BY <1>1, <1>5, <1>7

\* mt9v03x_csi_init submits both buffers and starts with csi1 in register 0.
LEMMA StartCapture ==
  ASSUME NEW l, l = CSI_TransferStart(
                      CSI_TransferSubmitEmptyBuffer(
                        CSI_TransferSubmitEmptyBuffer(CSI_TransferCreateHandle, csi1), csi2))
  PROVE  l \in Handle /\ QueueInStep(l) /\ l.next = 0 /\ l.fb[0] = csi1
<1> DEFINE h0 == CSI_TransferCreateHandle
           h1 == CSI_TransferSubmitEmptyBuffer(h0, csi1)
           h2 == CSI_TransferSubmitEmptyBuffer(h1, csi2)
           h3 == [h2 EXCEPT !.next = 0, !.active = 0]
           h4 == CSI_TransferLoadBufferToDevice(h3)
           h5 == CSI_TransferLoadBufferToDevice(h4)
<1> USE DEF CSI_TransferGetQueueDelta, CSI_DRIVER_QUEUE_SIZE
<1>0. csi1 \in Buffer /\ csi2 \in Buffer /\ csi1 # csi2
  BY DEF Buffer, csi1, csi2
<1>1. /\ h0 \in Handle
      /\ h0.userRead = 0 /\ h0.userWrite = 0 /\ h0.drvRead = 0 /\ h0.drvWrite = 0
      /\ ~h0.started
  BY QueueIndex DEF CSI_TransferCreateHandle, Handle
<1> HIDE DEF h0
<1>2. /\ h1 \in Handle
      /\ h1.queue = [h0.queue EXCEPT ![0] = csi1]
      /\ h1.userRead = 0 /\ h1.userWrite = 1 /\ h1.drvRead = 0 /\ h1.drvWrite = 0
      /\ ~h1.started
  BY <1>0, <1>1, QueueIndex, SubmitFields
<1> HIDE DEF h1
<1>3. /\ h2 \in Handle
      /\ h2.queue = [h1.queue EXCEPT ![1] = csi2]
      /\ h2.userRead = 0 /\ h2.userWrite = 2 /\ h2.drvRead = 0 /\ h2.drvWrite = 0
  BY <1>0, <1>2, QueueIndex, SubmitFields
<1>4. h2.queue[0] = csi1 /\ h2.queue[1] = csi2
  <2>1. h0.queue \in [{0, 1, 2} -> Buffer \cup {NoBuffer}]
    BY <1>1, QueueIndex DEF Handle
  <2>. QED
    BY <1>2, <1>3, <2>1
<1> HIDE DEF h2
<1>5. /\ h3 \in Handle
      /\ h3.queue = h2.queue
      /\ h3.userRead = 0 /\ h3.userWrite = 2 /\ h3.drvRead = 0 /\ h3.drvWrite = 0
      /\ h3.next = 0 /\ h3.active = 0
  <2>1. 0 \in 0 .. 2
    OBVIOUS
  <2>. QED
    BY <1>3, <2>1 DEF Handle
<1> HIDE DEF h3
<1>6. /\ h4 \in Handle
      /\ h4.fb = [h3.fb EXCEPT ![0] = csi1]
      /\ h4.queue = h2.queue
      /\ h4.userRead = 0 /\ h4.userWrite = 2 /\ h4.drvRead = 1 /\ h4.drvWrite = 0
      /\ h4.next = 1 /\ h4.active = 1
  BY <1>4, <1>5, QueueIndex, LoadFields
<1> HIDE DEF h4
<1>7. /\ h5 \in Handle
      /\ h5.fb = [h4.fb EXCEPT ![1] = csi2]
      /\ h5.queue = h2.queue
      /\ h5.userRead = 0 /\ h5.userWrite = 2 /\ h5.drvRead = 2 /\ h5.drvWrite = 0
      /\ h5.next = 0 /\ h5.active = 2
  BY <1>4, <1>6, QueueIndex, LoadFields
<1>8. h5.fb[0] = csi1 /\ h5.fb[1] = csi2
  <2>1. h3.fb \in [{0, 1} -> Buffer \cup {NoBuffer}]
    BY <1>5 DEF Handle
  <2>. QED
    BY <1>6, <1>7, <2>1
<1>9. l = [h5 EXCEPT !.started = TRUE, !.onGoing = TRUE]
  <2>1. CSI_TransferGetEmptyBufferCount(h2) = 2
    BY <1>3 DEF CSI_TransferGetEmptyBufferCount
  <2>. QED
    BY <2>1 DEF CSI_TransferStart, LoadBothBuffers, h0, h1, h2, h3, h4
<1> HIDE DEF h5
<1>10. /\ l \in Handle
       /\ l.queue = h2.queue /\ l.fb = h5.fb
       /\ l.userRead = 0 /\ l.userWrite = 2 /\ l.drvRead = 2 /\ l.drvWrite = 0
       /\ l.next = 0 /\ l.active = 2
  BY <1>7, <1>9 DEF Handle
<1>11. l.started /\ l.onGoing
  BY <1>7, <1>9 DEF Handle
<1>12. QueueInStep(l)
  BY <1>0, <1>4, <1>8, <1>10, <1>11, QueueIndex DEF QueueInStep
<1>. QED
  BY <1>8, <1>10, <1>12

----------------------------------------------------------------------------
\* The invariant holds when main() starts, before the camera is configured.
LEMMA InitInv == Init => Inv
<1> SUFFICES ASSUME Init PROVE Inv
  OBVIOUS
<1>1. CSI_TransferCreateHandle \in Handle
  BY QueueIndex DEF CSI_TransferCreateHandle, Handle
<1>2. csi.next = 0
  BY DEF Init, CSI_TransferCreateHandle
<1>3. TypeOK
  BY <1>1, FramePipelineAssumption DEF Init, TypeOK
<1>4. DriverInv /\ FreshInv
  BY DEF Init, DriverInv, FreshInv
<1>5. DmaInv
  BY <1>2 DEF Init, DmaInv
<1>. QED
  BY <1>3, <1>4, <1>5 DEF Inv

\* A tick changes only time and the DMA engine, which flags the register it
\* finished and goes on with the other one.
LEMMA TickInv == Inv /\ Tick => Inv'
<1> SUFFICES ASSUME Inv, Tick PROVE Inv'
  OBVIOUS
<1> USE DEF Inv
<1>1. TypeOK'
  <2>1. /\ phase' \in 0 .. FRAME - 1
        /\ pending' \in 0 .. LATENCY
        /\ elapsed' \in 0 .. FILTER
    <3>1. phase' \in 0 .. FRAME - 1
      BY FramePipelineAssumption DEF TypeOK, Tick
    <3>2. pending' \in 0 .. LATENCY
      <4>1. CASE done = {}
        BY <4>1, FramePipelineAssumption DEF Tick
      <4>2. CASE done # {}
        BY <4>2, FramePipelineAssumption DEF TypeOK, Tick
      <4>. QED
        BY <4>1, <4>2
    <3>3. elapsed' \in 0 .. FILTER
      <4> DEFINE busy == main \in {"take", "woken", "filter"}
      <4>1. elapsed' = (IF busy THEN elapsed + 1 ELSE 0) /\ (busy => elapsed < FILTER)
        BY DEF Tick
      <4> HIDE DEF busy
      <4>. QED
        BY <4>1, FramePipelineAssumption DEF TypeOK
    <3>. QED
      BY <3>1, <3>2, <3>3
  <2>2. cur' \in {0, 1} /\ done' \in SUBSET {0, 1}
    <3>1. cur \in {0, 1} /\ 1 - cur \in {0, 1} /\ done \in SUBSET {0, 1}
      BY DEF TypeOK
    <3>2. \/ UNCHANGED <<cur, done>>
          \/ cur' = 1 - cur /\ done' = done \cup {cur}
      BY DEF Tick
    <3>. QED
      BY <3>1, <3>2
  <2>3. hunting' \in BOOLEAN
    BY Zenon DEF TypeOK, Tick
  <2>4. UNCHANGED <<csi, image, sem, main, src, consumed, lag>>
    BY DEF Tick
  <2>. QED
    BY <2>1, <2>2, <2>3, <2>4 DEF TypeOK
<1>2. FreshInv'
  BY DEF FreshInv, Tick
<1>3. main = "init" => ~csi.onGoing
  BY DEF DriverInv, CSI_TransferCreateHandle
<1>4. DriverInv'
  <2>1. UNCHANGED <<main, csi>>
    BY DEF Tick
  <2>2. CASE main = "init"
    <3>1. UNCHANGED <<cur, hunting, done>>
      BY <1>3, <2>2 DEF Tick
    <3>. QED
      BY <2>1, <2>2, <3>1 DEF DriverInv
  <2>3. CASE main # "init"
    BY <2>1, <2>3 DEF DriverInv
  <2>. QED
    BY <2>2, <2>3
<1>5. csi.next \in {0, 1} /\ cur \in {0, 1} /\ done \in SUBSET {0, 1}
  BY DEF TypeOK, Handle
<1>6. DmaInv'
  <2>1. CASE UNCHANGED <<cur, hunting, done>>
    BY <2>1 DEF DmaInv, Tick
  <2>2. CASE hunting /\ hunting' = FALSE /\ UNCHANGED <<cur, done>>
    BY <2>2 DEF DmaInv, Tick
  <2>3. CASE ~hunting /\ done' = done \cup {cur} /\ cur' = 1 - cur /\ UNCHANGED hunting
    BY <1>5, <2>3 DEF DmaInv, Tick
  <2>. QED
    BY <2>1, <2>2, <2>3 DEF Tick
<1>. QED
  BY <1>1, <1>2, <1>4, <1>6

\* An interrupt for one finished frame (CSI_TransferHandleIRQ, csi_isr) keeps the
\* invariant: queue, registers and DMA engine move on together.
LEMMA FrameDoneInv == Inv /\ CSI_IRQHandler /\ FrameDone => Inv'
<1> SUFFICES ASSUME Inv, CSI_IRQHandler, FrameDone PROVE Inv'
  OBVIOUS
<1> USE DEF Inv
<1>1. main # "init" /\ csi \in Handle /\ QueueInStep(csi)
  BY DEF DriverInv, FrameDone, TypeOK
<1>2. /\ csi' \in Handle /\ QueueInStep(csi')
      /\ csi'.next = 1 - csi.next
      /\ image' = csi.fb[csi.next] /\ consumed' = FALSE
      /\ rt_sem_release
  BY <1>1, HandleFrame DEF FrameDone, csi_isr
<1>3. main' # "init" /\ sem' \in 0 .. SEM_MAX
  BY <1>1, <1>2, FramePipelineAssumption DEF rt_sem_release, TypeOK
<1>4. TypeOK'
  <2>1. main' \in {"reset", "take", "blocked", "woken", "filter", "control"}
    BY <1>1, <1>2 DEF rt_sem_release, TypeOK
  <2>2. csi.next \in {0, 1} /\ csi.fb[csi.next] \in Buffer \cup {NoBuffer}
    BY <1>1 DEF Handle
  <2>3. done' = {} /\ UNCHANGED <<cur, hunting, phase, elapsed, src>>
    BY DEF FrameDone, CSI_IRQHandler
  <2>4. pending' \in 0 .. LATENCY /\ lag' \in 0 .. LATENCY
    <3>1. pending \in 0 .. LATENCY /\ lag \in 0 .. LATENCY
      BY DEF TypeOK
    <3>2. pending' = 0 /\ (lag' = lag \/ lag' = pending)
      BY DEF CSI_IRQHandler, FrameDone
    <3>. QED
      BY <3>1, <3>2, FramePipelineAssumption
  <2>. QED
    BY <1>2, <1>3, <2>1, <2>2, <2>3, <2>4 DEF TypeOK
<1>5. DriverInv'
  BY <1>2, <1>3 DEF DriverInv
<1>6. DmaInv'
  <2>1. csi.next \in {0, 1}
    BY <1>1 DEF Handle
  <2>. QED
    <3>1. done' = {} /\ cur' = cur /\ hunting' = hunting
      BY DEF FrameDone
    <3>2. cur = 1 - csi.next
      BY DEF DmaInv, FrameDone
    <3>. QED
      BY <1>2, <2>1, <3>1, <3>2 DEF DmaInv
<1>7. FreshInv'
  BY <1>2 DEF FreshInv
<1>. QED
  BY <1>4, <1>5, <1>6, <1>7

\* An interrupt that finds both frames finished restarts the DMA at register 0
\* and keeps the invariant.
LEMMA FrameOverrunInv == Inv /\ CSI_IRQHandler /\ FrameOverrun => Inv'
<1> SUFFICES ASSUME Inv, CSI_IRQHandler, FrameOverrun PROVE Inv'
  OBVIOUS
<1> USE DEF Inv
<1>1. main # "init" /\ csi \in Handle /\ QueueInStep(csi)
  BY DEF DriverInv, FrameOverrun, TypeOK
<1>2. csi' \in Handle /\ QueueInStep(csi') /\ csi'.next = 0
  BY <1>1, HandleOverrun DEF FrameOverrun
<1>3. TypeOK'
  BY <1>2, FramePipelineAssumption DEF TypeOK, CSI_IRQHandler, FrameOverrun
<1>4. DriverInv'
  BY <1>1, <1>2 DEF DriverInv, FrameOverrun
<1>5. DmaInv'
  BY <1>2 DEF DmaInv, FrameOverrun
<1>6. FreshInv'
  BY DEF FreshInv, FrameOverrun
<1>. QED
  BY <1>3, <1>4, <1>5, <1>6

\* No step of main() touches the queue or the registers after the initialisation.
LEMMA MainStepInv == Inv /\ MainStep => Inv'
<1> SUFFICES ASSUME Inv, MainStep PROVE Inv'
  OBVIOUS
<1> USE DEF Inv
<1>1. CASE mt9v03x_csi_init
  <2>1. csi' \in Handle /\ QueueInStep(csi') /\ csi'.next = 0
    BY <1>1, StartCapture DEF mt9v03x_csi_init, DriverInv
  <2>2. TypeOK'
    BY <1>1, <2>1 DEF TypeOK, mt9v03x_csi_init, camera, Buffer
  <2>3. DriverInv' /\ FreshInv'
    BY <1>1, <2>1 DEF DriverInv, FreshInv, mt9v03x_csi_init
  <2>4. DmaInv'
    BY <1>1, <2>1 DEF DmaInv, DriverInv, mt9v03x_csi_init, camera
  <2>. QED
    BY <2>2, <2>3, <2>4
<1>2. CASE ResetSem
  BY <1>2, FramePipelineAssumption
     DEF ResetSem, TypeOK, DriverInv, DmaInv, FreshInv, camera
<1>3. CASE TakeSem
  BY <1>3, FramePipelineAssumption
     DEF TakeSem, TypeOK, DriverInv, DmaInv, FreshInv, camera
<1>4. CASE StartFilter
  BY <1>4 DEF StartFilter, TypeOK, DriverInv, DmaInv, FreshInv, camera
<1>5. CASE FinishFilter
  BY <1>5 DEF FinishFilter, TypeOK, DriverInv, DmaInv, FreshInv, camera
<1>6. CASE FinishIteration
  BY <1>6 DEF FinishIteration, TypeOK, DriverInv, DmaInv, FreshInv, camera
<1>. QED
  BY <1>1, <1>2, <1>3, <1>4, <1>5, <1>6 DEF MainStep

\* Every step keeps the invariant.
LEMMA StepInv == Inv /\ [Next]_vars => Inv'
<1>1. Inv /\ UNCHANGED vars => Inv'
  BY DEF Inv, vars, TypeOK, DriverInv, DmaInv, FreshInv
<1>2. Inv /\ CSI_IRQHandler => Inv'
  BY FrameDoneInv, FrameOverrunInv DEF CSI_IRQHandler
<1>. QED
  BY <1>1, <1>2, TickInv, MainStepInv DEF Next

\* Inv holds in every reachable state.
LEMMA InvHolds == Spec => []Inv
BY InitInv, StepInv, PTL DEF Spec

\* Type correctness, which includes that csi_done_sem never exceeds its limit.
THEOREM TypeCorrect == Spec => []TypeOK
<1>1. Inv => TypeOK
  BY DEF Inv
<1>. QED
  BY <1>1, InvHolds, PTL

\* The DMA always has two different buffers to write, however late the CSI
\* interrupt is served (fsl_csi.c, csi_isr).
THEOREM CaptureSafe == Spec => []CaptureNeverStarves
<1>1. Inv => CaptureNeverStarves
  BY DEF Inv, DriverInv, CaptureNeverStarves, QueueInStep
<1>. QED
  BY <1>1, InvHolds, PTL

\* csi_isr always publishes the buffer whose register raised the flag.
THEOREM PublicationCorrect == Spec => PublishesFinishedBuffer
<1> DEFINE A == \A r \in {0, 1} : done = {r} /\ done' = {} =>
                  image' = csi.fb[r] /\ ~Writing(csi.fb[r])
<1>1. Inv /\ [Next]_vars => [A]_vars
  <2> SUFFICES ASSUME Inv, Next, NEW r \in {0, 1}, done = {r}, done' = {}
               PROVE  image' = csi.fb[r] /\ ~Writing(csi.fb[r])
    OBVIOUS
  <2>1. csi \in Handle /\ QueueInStep(csi) /\ r = csi.next /\ cur = 1 - csi.next
    BY DEF Inv, TypeOK, DriverInv, DmaInv
  <2>2. csi.fb[0] # csi.fb[1] /\ csi.next \in {0, 1}
    BY <2>1 DEF QueueInStep, Handle
  <2>3. ~Writing(csi.fb[r])
    BY <2>1, <2>2 DEF Writing
  <2>4. FrameDone
    BY DEF Next, Tick, CSI_IRQHandler, FrameOverrun, MainStep, mt9v03x_csi_init, ResetSem,
           TakeSem, StartFilter, FinishFilter, FinishIteration, camera
  <2>5. image' = csi.fb[csi.next]
    BY <2>1, <2>4, HandleFrame DEF FrameDone, csi_isr
  <2>. QED
    BY <2>1, <2>3, <2>5
<1>. QED
  BY <1>1, InvHolds, PTL DEF Spec, PublishesFinishedBuffer

\* main() never filters one frame twice.
THEOREM NoFrameTwice == Spec => FreshFrame
<1>1. Inv /\ [Next]_vars => [main = "woken" /\ main' = "filter" => ~consumed]_vars
  BY DEF Inv, FreshInv
<1>. QED
  BY <1>1, InvHolds, PTL DEF Spec, FreshFrame

----------------------------------------------------------------------------
(* Timing.  While main() may still read the published frame, and its interrupt *)
(* and main() together took less than a frame, the camera is on the next one.  *)

Reading == (main = "take" /\ sem > 0) \/ main \in {"woken", "filter"}

InTime == lag + elapsed < FRAME

\* The camera is still filling the other buffer.
NextFrame ==
  /\ phase <= lag + elapsed
  /\ done = {} /\ ~hunting

LagInv ==
  /\ \A r \in {0, 1} : done = {r} => pending = phase
  /\ Reading /\ InTime => NextFrame
  /\ (main = "take" /\ sem > 0) \/ main = "woken" => (InTime => image = csi.fb[1 - cur])
  /\ main = "filter" => (InTime => src = csi.fb[1 - cur])

\* A tick keeps the camera on the next frame as long as the sum is below a frame.
LEMMA TickLag == Inv /\ LagInv /\ Tick => LagInv'
<1> SUFFICES ASSUME Inv, LagInv, Tick PROVE LagInv'
  OBVIOUS
<1>1. /\ FRAME \in Nat \ {0} /\ LATENCY \in Nat /\ FILTER \in Nat
      /\ phase \in Nat /\ pending \in Nat /\ elapsed \in Nat /\ lag \in Nat
      /\ cur \in {0, 1} /\ done \in SUBSET {0, 1}
  BY FramePipelineAssumption DEF Inv, TypeOK
<1>2. UNCHANGED <<csi, image, sem, main, src, lag>>
  BY DEF Tick
<1>3. \A r \in {0, 1} : done' = {r} => pending' = phase'
  <2> SUFFICES ASSUME NEW r \in {0, 1}, done' = {r} PROVE pending' = phase'
    OBVIOUS
  <2>1. CASE done = {}
    <3>1. pending' = 0
      BY <2>1 DEF Tick
    <3>2. ~UNCHANGED done
      BY <2>1
    <3>3. ~(phase + 1 < FRAME)
      BY <3>2 DEF Tick
    <3>. QED
      BY <3>1, <3>3 DEF Tick
  <2>2. CASE done # {}
    <3>1. pending' = pending + 1
      BY <2>2 DEF Tick
    <3>2. csi.onGoing /\ ~hunting /\ done = {1 - cur}
      <4>1. ~hunting
        BY <2>2 DEF Inv, DmaInv
      <4>2. main # "init" /\ QueueInStep(csi)
        BY <2>2 DEF Inv, DriverInv
      <4>3. done \subseteq done'
        BY DEF Tick
      <4>4. done = {r}
        BY <2>2, <4>3
      <4>5. r = csi.next /\ cur = 1 - csi.next
        BY <4>4 DEF Inv, DmaInv
      <4>. QED
        BY <4>1, <4>2, <4>4, <4>5, <1>1 DEF QueueInStep
    <3>3. phase + 1 < FRAME
      <4> SUFFICES ASSUME ~(phase + 1 < FRAME) PROVE FALSE
        OBVIOUS
      <4>1. done' = done \cup {cur}
        BY <3>2 DEF Tick
      <4>. QED
        BY <1>1, <3>2, <4>1
    <3>4. phase' = phase + 1 /\ pending = phase
      <4>1. phase' = phase + 1
        BY <3>3 DEF Tick
      <4>2. 1 - cur \in {0, 1}
        BY <1>1
      <4>3. pending = phase
        BY <3>2, <4>2 DEF LagInv
      <4>. QED
        BY <4>1, <4>3
    <3>. QED
      BY <3>1, <3>4
  <2>. QED
    BY <2>1, <2>2
<1>4. CASE Reading /\ InTime'
  <2>1. elapsed' = elapsed + 1
    BY <1>4 DEF Reading, Tick
  <2>2. lag + elapsed + 1 < FRAME
    BY <1>1, <1>2, <1>4, <2>1 DEF InTime
  <2>3. InTime
    BY <1>1, <2>2 DEF InTime
  <2>4. NextFrame
    BY <1>4, <2>3 DEF LagInv
  <2>5. phase + 1 < FRAME /\ phase + 1 <= lag' + elapsed'
    BY <1>1, <1>2, <2>1, <2>2, <2>4 DEF NextFrame
  <2>6. phase' = phase + 1 /\ UNCHANGED <<cur, hunting, done>>
    BY <2>5 DEF Tick
  <2>7. NextFrame'
    BY <2>4, <2>5, <2>6 DEF NextFrame
  <2>. QED
    BY <1>2, <1>3, <1>4, <2>3, <2>6, <2>7 DEF LagInv, Reading
<1>5. CASE ~(Reading /\ InTime')
  <2>1. (Reading <=> Reading')
    BY <1>2 DEF Reading
  <2>. QED
    BY <1>2, <1>3, <1>5, <2>1 DEF LagInv, Reading
<1>. QED
  BY <1>4, <1>5

\* The interrupt publishes the frame finished `pending` ticks ago.
LEMMA IrqLag == Inv /\ LagInv /\ CSI_IRQHandler => LagInv'
<1> SUFFICES ASSUME Inv, LagInv, CSI_IRQHandler PROVE LagInv'
  OBVIOUS
<1>1. done' = {} /\ done # {} /\ UNCHANGED <<phase, elapsed, src>>
  BY DEF CSI_IRQHandler, FrameDone, FrameOverrun
<1>2. ~(Reading /\ InTime)
  BY <1>1 DEF LagInv, NextFrame
<1>3. CASE FrameOverrun
  <2>1. UNCHANGED <<image, sem, main, lag>>
    BY <1>3 DEF FrameOverrun
  <2>2. ~(Reading /\ InTime)'
    BY <1>1, <1>2, <2>1 DEF Reading, InTime
  <2>. QED
    BY <1>1, <2>2 DEF LagInv, Reading
<1>4. CASE FrameDone
  <2>1. main # "init" /\ csi \in Handle /\ QueueInStep(csi)
    BY <1>4 DEF Inv, TypeOK, DriverInv, FrameDone
  <2>2. PICK r \in {0, 1} : done = {r}
    BY <1>4 DEF FrameDone
  <2>3. /\ ~hunting /\ csi.next \in {0, 1} /\ cur = 1 - csi.next /\ pending = phase
    BY <2>1, <2>2 DEF Inv, DmaInv, LagInv, Handle
  <2>4. /\ image' = csi.fb[csi.next] /\ csi'.fb = csi.fb
        /\ UNCHANGED <<cur, hunting>>
        /\ lag' = (IF main = "filter" THEN lag ELSE pending)
        /\ rt_sem_release
    BY <1>4, <2>1, HandleFrame DEF FrameDone, csi_isr
  <2>5. phase \in Nat /\ elapsed \in Nat
    BY FramePipelineAssumption DEF Inv, TypeOK
  <2>6. image' = csi'.fb[1 - cur']
    BY <2>3, <2>4
  <2>7. CASE main = "filter"
    <3>1. ~InTime /\ lag' = lag /\ elapsed' = elapsed
      BY <1>1, <1>2, <2>4, <2>7 DEF Reading
    <3>2. ~InTime'
      BY <3>1 DEF InTime
    <3>. QED
      BY <1>1, <3>2 DEF LagInv
  <2>8. CASE main # "filter"
    <3>1. main' # "filter"
      BY <2>4, <2>8 DEF rt_sem_release
    <3>2. lag' = phase
      BY <2>3, <2>4, <2>8
    <3>3. NextFrame'
      BY <1>1, <2>3, <2>4, <2>5, <3>2 DEF NextFrame
    <3>. QED
      BY <1>1, <2>6, <3>1, <3>3 DEF LagInv
  <2>. QED
    BY <2>7, <2>8
<1>. QED
  BY <1>3, <1>4 DEF CSI_IRQHandler

\* main() reads what the last interrupt published: the reset discards older
\* releases.
LEMMA MainLag == Inv /\ LagInv /\ MainStep => LagInv'
<1> SUFFICES ASSUME Inv, LagInv, MainStep PROVE LagInv'
  OBVIOUS
<1> USE DEF LagInv, Reading, InTime, NextFrame, camera
<1>1. CASE mt9v03x_csi_init
  BY <1>1 DEF mt9v03x_csi_init
<1>2. CASE ResetSem
  BY <1>2 DEF ResetSem
<1>3. CASE TakeSem
  BY <1>3 DEF TakeSem
<1>4. CASE StartFilter
  BY <1>4 DEF StartFilter
<1>5. CASE FinishFilter
  BY <1>5 DEF FinishFilter
<1>6. CASE FinishIteration
  BY <1>6 DEF FinishIteration
<1>. QED
  BY <1>1, <1>2, <1>3, <1>4, <1>5, <1>6 DEF MainStep

\* LagInv holds in every reachable state, whatever the latency.
LEMMA LagHolds == Spec => []LagInv
<1>1. Init => LagInv
  BY DEF Init, LagInv, Reading
<1>2. Inv /\ LagInv /\ [Next]_vars => LagInv'
  <2>1. LagInv /\ UNCHANGED vars => LagInv'
    BY DEF LagInv, Reading, InTime, NextFrame, vars
  <2>. QED
    BY <2>1, TickLag, IrqLag, MainLag DEF Next
<1>. QED
  BY <1>1, <1>2, InvHolds, PTL DEF Spec

\* Whenever the interrupt of the frame main() reads and main() itself together
\* took less than a frame, the buffer is not the one the DMA is writing.
THEOREM NoTearing == Spec => []NoTornFrame
<1>1. Inv /\ LagInv => NoTornFrame
  <2> SUFFICES ASSUME Inv, LagInv, main = "filter", InTime PROVE ~Writing(src)
    BY DEF NoTornFrame, InTime
  <2>1. src = csi.fb[1 - cur] /\ cur \in {0, 1}
    BY DEF LagInv, Inv, TypeOK
  <2>2. main # "init" /\ csi.fb[0] # csi.fb[1]
    BY DEF Inv, DriverInv, QueueInStep
  <2>. QED
    BY <2>1, <2>2 DEF Writing
<1>. QED
  BY <1>1, LagHolds, InvHolds, PTL

\* If the interrupt and the filter together always take less than a frame, main()
\* never reads the buffer the DMA is writing.
THEOREM TimelyMeansWhole ==
  ASSUME LATENCY + FILTER < FRAME
  PROVE  Spec => [](main = "filter" => ~Writing(src))
<1>1. TypeOK /\ NoTornFrame => (main = "filter" => ~Writing(src))
  <2> SUFFICES ASSUME TypeOK, NoTornFrame, main = "filter" PROVE ~Writing(src)
    OBVIOUS
  <2>1. lag \in 0 .. LATENCY /\ elapsed \in 0 .. FILTER
    BY DEF TypeOK
  <2>2. lag + elapsed < FRAME
    BY <2>1, FramePipelineAssumption
  <2>. QED
    BY <2>2 DEF NoTornFrame
<1>. QED
  BY <1>1, TypeCorrect, NoTearing, PTL

----------------------------------------------------------------------------
(* The hand-over to main() is a double buffer.                              *)

\* What relates the variables DoubleBuffer sees: main() reads a buffer only while
\* it filters, and a frame it has not filtered is not in the buffer being filled.
HandOverInv ==
  /\ main = "init" => consumed
  /\ main # "filter" => src = NoBuffer
  /\ main = "filter" => src \in Buffer
  /\ ~consumed => image \in Buffer /\ image # Filling

\* Once the capture runs, the buffer published next is that of the register the
\* driver will hear of next (QueueInStep).
LEMMA FillingIs ==
  ASSUME Inv, main # "init"
  PROVE  /\ Filling = csi.fb[csi.next]
         /\ Filling \in Buffer
         /\ csi.next \in {0, 1}
         /\ csi.fb[0] # csi.fb[1]
<1>1. csi \in Handle /\ QueueInStep(csi)
  BY DEF Inv, TypeOK, DriverInv
<1>. QED
  BY <1>1 DEF Filling, QueueInStep, Handle

\* An interrupt for one frame publishes the buffer being filled and fills the
\* other one (CSI_TransferHandleIRQ, csi_isr).
LEMMA FrameDonePublishes ==
  ASSUME Inv, CSI_IRQHandler, FrameDone
  PROVE  /\ main # "init" /\ main' # "init"
         /\ main' = "filter" <=> main = "filter"
         /\ image' = Filling /\ Filling \in Buffer
         /\ Filling' \in Buffer /\ Filling' # Filling
         /\ consumed' = FALSE /\ src' = src
<1>1. main # "init" /\ csi \in Handle /\ QueueInStep(csi)
  BY DEF Inv, TypeOK, DriverInv, FrameDone
<1>2. /\ csi'.next = 1 - csi.next /\ csi'.fb = csi.fb
      /\ image' = csi.fb[csi.next] /\ consumed' = FALSE
      /\ rt_sem_release
  BY <1>1, HandleFrame DEF FrameDone, csi_isr
<1>3. main' # "init" /\ (main' = "filter" <=> main = "filter")
  BY <1>1, <1>2 DEF rt_sem_release
<1>4. /\ Filling = csi.fb[csi.next] /\ Filling \in Buffer
      /\ csi.next \in {0, 1} /\ csi.fb[0] # csi.fb[1]
  BY <1>1, FillingIs
<1>5. Inv'
  BY FrameDoneInv
<1>6. QueueInStep(csi)'
  BY <1>3, <1>5 DEF Inv, DriverInv
<1>7. Filling' = csi'.fb[csi'.next]
  BY <1>3, <1>6 DEF Filling, QueueInStep
<1>8. csi'.fb[0] \in Buffer /\ csi'.fb[1] \in Buffer
  BY <1>6 DEF QueueInStep
<1>9. Filling' \in Buffer /\ Filling' # Filling
  BY <1>2, <1>4, <1>7, <1>8
<1>. QED
  BY <1>1, <1>2, <1>3, <1>4, <1>9 DEF CSI_IRQHandler

\* Whatever else happens - ticks, overruns, the initialisation, the other steps of
\* main() - leaves the buffer that is published next as it is.
LEMMA FillingKept ==
  ASSUME Inv, [Next]_vars, ~(CSI_IRQHandler /\ FrameDone)
  PROVE  Filling' = Filling
<1>1. CASE CSI_IRQHandler /\ FrameOverrun
  <2>1. main # "init" /\ csi \in Handle /\ QueueInStep(csi) /\ main' = main
    BY <1>1 DEF Inv, TypeOK, DriverInv, FrameOverrun
  <2>2. csi' = [csi EXCEPT !.fb = [r \in {0, 1} |->
                               IF r = 0 THEN csi.queue[csi.drvWrite]
                               ELSE csi.queue[CSI_TransferIncreaseQueueIdx(csi.drvWrite)]],
                     !.next = 0]
    BY <1>1, <2>1 DEF FrameOverrun, ResetActiveBuffers, QueueInStep
  <2>3. csi'.queue = csi.queue /\ csi'.drvWrite = csi.drvWrite
    BY <2>1, <2>2 DEF Handle
  <2>. QED
    BY <2>1, <2>3 DEF Filling
<1>2. CASE mt9v03x_csi_init
  <2>1. main = "init" /\ csi = CSI_TransferCreateHandle /\ main' = "reset"
    BY <1>2 DEF Inv, DriverInv, mt9v03x_csi_init
  <2>2. csi' \in Handle /\ QueueInStep(csi') /\ csi'.next = 0 /\ csi'.fb[0] = csi1
    BY <1>2, <2>1, StartCapture DEF mt9v03x_csi_init
  <2>. QED
    BY <2>1, <2>2 DEF Filling, QueueInStep
<1>3. CASE Tick
  BY <1>3 DEF Tick, Filling
<1>4. CASE ResetSem \/ TakeSem \/ StartFilter \/ FinishFilter \/ FinishIteration
  BY <1>4 DEF ResetSem, TakeSem, StartFilter, FinishFilter, FinishIteration, Filling
<1>5. CASE UNCHANGED vars
  BY <1>5 DEF vars, Filling
<1>. QED
  BY <1>1, <1>2, <1>3, <1>4, <1>5 DEF Next, CSI_IRQHandler, MainStep

\* HandOverInv is kept by every step.
LEMMA HandOverStep == Inv /\ HandOverInv /\ [Next]_vars => HandOverInv'
<1> SUFFICES ASSUME Inv, HandOverInv, [Next]_vars PROVE HandOverInv'
  OBVIOUS
<1>1. CASE CSI_IRQHandler /\ FrameDone
  BY <1>1, FrameDonePublishes DEF HandOverInv
<1>2. CASE ~(CSI_IRQHandler /\ FrameDone)
  <2>1. Filling' = Filling
    BY <1>2, FillingKept
  <2>2. CASE mt9v03x_csi_init
    <3>1. consumed' = consumed /\ src' = src /\ main = "init" /\ main' = "reset"
      BY <2>2 DEF mt9v03x_csi_init
    <3>2. consumed
      BY <3>1 DEF HandOverInv
    <3>. QED
      BY <3>1, <3>2 DEF HandOverInv
  <2>3. CASE StartFilter
    <3>1. image \in Buffer
      BY <2>3 DEF StartFilter, Inv, FreshInv, HandOverInv
    <3>. QED
      BY <2>1, <2>3, <3>1 DEF StartFilter, HandOverInv
  <2>4. CASE FinishFilter
    BY <2>1, <2>4 DEF FinishFilter, HandOverInv
  <2>5. CASE ResetSem \/ TakeSem \/ FinishIteration
    BY <2>1, <2>5 DEF ResetSem, TakeSem, FinishIteration, HandOverInv
  <2>6. CASE Tick \/ (CSI_IRQHandler /\ FrameOverrun) \/ UNCHANGED vars
    <3>1. UNCHANGED <<image, consumed, main, src>>
      BY <2>6 DEF Tick, CSI_IRQHandler, FrameOverrun, vars
    <3>. QED
      BY <2>1, <3>1 DEF HandOverInv
  <2>. QED
    BY <1>2, <2>2, <2>3, <2>4, <2>5, <2>6 DEF Next, CSI_IRQHandler, MainStep
<1>. QED
  BY <1>1, <1>2

\* Each step is a step of DoubleBuffer or a stutter: the interrupt for one frame
\* publishes, gray_mean_filter takes and releases, all else changes nothing.
LEMMA StepHandsOver ==
  Inv /\ HandOverInv /\ [Next]_vars => [HandOver!Next]_(HandOver!handOver)
<1> SUFFICES ASSUME Inv, HandOverInv, [Next]_vars
             PROVE  HandOver!Next \/ UNCHANGED <<Filling, ~consumed, src>>
  BY DEF HandOver!handOver
<1>1. CASE CSI_IRQHandler /\ FrameDone
  <2>1. /\ Filling' \in Buffer \ {Filling}
        /\ (~consumed') = TRUE
        /\ src' = src
    BY <1>1, FrameDonePublishes
  <2>. QED
    BY <2>1 DEF HandOver!Next, HandOver!Publish
<1>2. CASE ~(CSI_IRQHandler /\ FrameDone)
  <2>1. Filling' = Filling
    BY <1>2, FillingKept
  <2>2. CASE StartFilter
    <3>1. /\ ~consumed /\ image \in Buffer /\ image # Filling /\ src = NoBuffer
      BY <2>2 DEF StartFilter, Inv, FreshInv, HandOverInv
    <3>2. src' = image /\ (~consumed') = FALSE
      BY <2>2 DEF StartFilter
    <3>. QED
      BY <2>1, <3>1, <3>2 DEF HandOver!Next, HandOver!Take
  <2>3. CASE FinishFilter
    <3>1. src \in Buffer /\ NoBuffer \notin Buffer
      BY <2>3 DEF FinishFilter, HandOverInv, Buffer, NoBuffer, csi1, csi2
    <3>2. src # NoBuffer /\ src' = NoBuffer /\ consumed' = consumed
      BY <2>3, <3>1 DEF FinishFilter
    <3>. QED
      BY <2>1, <3>2 DEF HandOver!Next, HandOver!Release
  <2>4. CASE mt9v03x_csi_init \/ ResetSem \/ TakeSem \/ FinishIteration
    <3>1. UNCHANGED <<consumed, src>>
      BY <2>4 DEF mt9v03x_csi_init, ResetSem, TakeSem, FinishIteration
    <3>. QED
      BY <2>1, <3>1
  <2>5. CASE Tick \/ (CSI_IRQHandler /\ FrameOverrun) \/ UNCHANGED vars
    <3>1. UNCHANGED <<consumed, src>>
      BY <2>5 DEF Tick, CSI_IRQHandler, FrameOverrun, vars
    <3>. QED
      BY <2>1, <3>1
  <2>. QED
    BY <1>2, <2>2, <2>3, <2>4, <2>5 DEF Next, CSI_IRQHandler, MainStep
<1>. QED
  BY <1>1, <1>2

\* The CSI driver, its callback and the loop of main() implement DoubleBuffer,
\* whatever the latency of the interrupt and the time main() takes: csi_isr
\* publishes the two buffers in turn, main() gets the newest of them and none twice.
THEOREM ImplementsDoubleBuffer == Spec => DoubleBuffered
<1>1. Init => HandOver!Init /\ HandOverInv
  <2> SUFFICES ASSUME Init PROVE HandOver!Init /\ HandOverInv
    OBVIOUS
  <2>1. Filling = csi1 /\ csi1 \in Buffer /\ (~consumed) = FALSE /\ src = NoBuffer
    BY DEF Init, Filling, Buffer
  <2>2. HandOverInv
    BY DEF Init, HandOverInv
  <2>. QED
    BY <2>1, <2>2 DEF HandOver!Init
<1>2. Spec => []HandOverInv
  BY <1>1, HandOverStep, InvHolds, PTL DEF Spec
<1>. QED
  BY <1>1, <1>2, StepHandsOver, InvHolds, PTL DEF Spec, DoubleBuffered, HandOver!Spec
============================================================================
