----------------------------- MODULE Interrupts -----------------------------
(***************************************************************************)
(* rt_interrupt_nest: how RT-Thread knows that it runs in an interrupt.     *)
(*                                                                         *)
(* SysTick_Handler calls rt_interrupt_enter first and rt_interrupt_leave    *)
(* last; the handlers of interrupt.c and the one of the console's UART call *)
(* the two the other way round.  A handler is interrupted, between any two  *)
(* of its steps, by one of higher priority.                                 *)
(***************************************************************************)
EXTENDS Integers

\* Handlers and their NVIC priorities (0 is the highest, and the default).
Priority ==
  [CSI |-> 0, PIT |-> 0, GPIO2_16_31 |-> 0, GPIO2_0_15 |-> 0,
   LPUART1 |-> 14, SysTick |-> 15]

Handler == DOMAIN Priority

\* The handlers that call rt_interrupt_leave first.
LeaveFirst == Handler \ {"SysTick"}

NEST == 256   \* rt_interrupt_nest is an rt_uint8_t

VARIABLES
  phase,              \* of each handler: not active, or where it is
  rt_interrupt_nest

vars == <<phase, rt_interrupt_nest>>

Active == {h \in Handler : phase[h] # "idle"}

Init ==
  /\ phase = [h \in Handler |-> "idle"]
  /\ rt_interrupt_nest = 0

\* Fault variant: the counter saturates instead of wrapping.
rt_interrupt_leave_Saturating ==
  rt_interrupt_nest' = IF rt_interrupt_nest = 0 THEN 0 ELSE rt_interrupt_nest - 1

rt_interrupt_enter == rt_interrupt_nest' = (rt_interrupt_nest + 1) % NEST
rt_interrupt_leave == rt_interrupt_nest' = (rt_interrupt_nest - 1) % NEST

\* The processor takes an interrupt of higher priority than all active ones.
Take(h) ==
  /\ phase[h] = "idle"
  /\ \A g \in Active : Priority[h] < Priority[g]
  /\ phase' = [phase EXCEPT ![h] = "entry"]
  /\ UNCHANGED rt_interrupt_nest

\* h is the handler that runs: the active one of highest priority.
Runs(h) == h \in Active /\ \A g \in Active : Priority[h] <= Priority[g]

\* The call before the body of the handler.
Begin(h) ==
  /\ Runs(h) /\ phase[h] = "entry"
  /\ phase' = [phase EXCEPT ![h] = "body"]
  /\ IF h \in LeaveFirst THEN rt_interrupt_leave ELSE rt_interrupt_enter

\* The call after it.
End(h) ==
  /\ Runs(h) /\ phase[h] = "body"
  /\ phase' = [phase EXCEPT ![h] = "exit"]
  /\ IF h \in LeaveFirst THEN rt_interrupt_enter ELSE rt_interrupt_leave

Return(h) ==
  /\ Runs(h) /\ phase[h] = "exit"
  /\ phase' = [phase EXCEPT ![h] = "idle"]
  /\ UNCHANGED rt_interrupt_nest

Next == \E h \in Handler : Take(h) \/ Begin(h) \/ End(h) \/ Return(h)

Spec == Init /\ [][Next]_vars

----------------------------------------------------------------------------
(* Properties.                                                              *)

\* A thread never finds itself "in an interrupt" (rt_sem_take and the other
\* blocking calls assert that): with no handler active the counter is 0, in
\* spite of the wrap below 0 in the handlers that leave first.
ThreadContextKnown == Active = {} => rt_interrupt_nest = 0

\* irq.c: rt_interrupt_get_nest tells "whether current context is interrupt
\* context": in the body of a handler the counter is not 0.
InterruptContextKnown ==
  (\E h \in Handler : Runs(h) /\ phase[h] = "body") => rt_interrupt_nest # 0
============================================================================
