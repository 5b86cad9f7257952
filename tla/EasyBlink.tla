----------------------------- MODULE EasyBlink -----------------------------
(***************************************************************************)
(* The blink daemon that drives the error LED and the beeper                *)
(* (FlexBlink/easyblink.c).  A caller describes a pattern (how many         *)
(* flashes, -1 for ever; ticks lit, ticks dark) in a slot of eb_leds; the   *)
(* daemon sleeps on eb_sem until the slot whose state changes first is due. *)
(*                                                                         *)
(* The callers (the main thread, priority 10) preempt the daemon (priority  *)
(* 30) between any two of its accesses to a slot and run to their end       *)
(* before it goes on.  So a call is one step, and the daemon's code is cut  *)
(* at its accesses; a read-modify-write is a load and a store.  As built    *)
(* there is no lock; PKG_EASYBLINK_USING_MUTEX (MUTEX here) adds one that   *)
(* easyblink and the daemon take, the other calls do not.                   *)
(***************************************************************************)
EXTENDS Integers

CONSTANTS
  N,              \* PKG_EASYBLINK_MAX_LED_NUMS
  MUTEX,          \* is PKG_EASYBLINK_USING_MUTEX defined?
  WAIT_START,     \* PKG_EASYBLINK_WAIT_MS_START in ticks
  WAIT_END,       \* PKG_EASYBLINK_WAIT_MS_END in ticks
  WAIT_MAX,       \* bound: stands for PKG_EASYBLINK_WAIT_MAX_TICK
  LOW,            \* bound: ticks of an idle slot stop falling at -LOW
  SEM_MAX,        \* bound: no request while eb_sem has this count
  LATE,           \* bound: ticks the daemon may lose to other threads per wake
  E_PULSE, E_GAP, \* lit and dark ticks of the endless pattern of main.c
  B_PULSE, B_GAP, \* lit and dark ticks of a burst
  COUNTS,         \* flashes of a burst
  PROGRAMS,       \* sets of calls, each those of a program after its start:
                  \* "burst", "endless", "stop", "init", "deinit"
  USED            \* the slots "burst", "endless" and "stop" are called with

ASSUME EasyBlinkAssumption ==
  /\ N \in Nat /\ N >= 2
  /\ MUTEX \in BOOLEAN
  /\ WAIT_START \in Nat /\ WAIT_END \in Nat /\ WAIT_MAX \in Nat /\ WAIT_MAX > 0
  /\ LOW \in Nat /\ LATE \in Nat /\ SEM_MAX \in Nat
  /\ E_PULSE \in Nat /\ E_PULSE > 0 /\ E_GAP \in Nat
  /\ B_PULSE \in Nat /\ B_PULSE > 0 /\ B_GAP \in Nat
  /\ COUNTS \subseteq Nat \ {0} /\ COUNTS # {}
  /\ USED \subseteq 1..N

VARIABLES
  led,      \* eb_leds: per slot flag, the pattern, its backup, ticks
  pin,      \* is the slot's LED lit?
  sem,      \* count of eb_sem
  pc, i,    \* where the daemon is, and at which slot of its loop
  wait,     \* its wait_tick (tick_min while it looks for the minimum)
  slept,    \* ticks since it read tick
  left,     \* ticks until its rt_sem_take times out
  reg,      \* what it loaded for a read-modify-write
  late,     \* ticks passed while it was ready, since it last slept
  boot,     \* calls of main.c:64-67 still to make
  calls,    \* the calls the program makes after them
  since     \* history: ticks since pin last changed

daemonVars == <<pc, i, wait, slept, left, reg, late>>
vars == <<led, pin, sem, daemonVars, boot, calls, since>>

Slot == 1..N
Flag == {"INIT", "ACTIVE", "CORRECT", "SHOULD_ON"}
Pattern(n, p, g) == [nums |-> n, pulse |-> p, npulse |-> g]
NoPattern == Pattern(0, 0, 0)
Endless == Pattern(-1, E_PULSE, E_GAP)
Burst(n) == Pattern(n, B_PULSE, B_GAP)
Unused == [flag |-> {}, pat |-> NoPattern, bak |-> NoPattern, ticks |-> 0]
NoReg == [flag |-> {}, num |-> 0]

Least(a, b) == IF a < b THEN a ELSE b
\* since and the ticks of an idle slot are counted up to a bound only.
SINCE_MAX == E_PULSE + E_GAP + B_PULSE + B_GAP + WAIT_START + WAIT_END + 1
Floor(t) == IF t < -LOW THEN -LOW ELSE t

Init ==
  /\ led = [l \in Slot |-> Unused] /\ pin = [l \in Slot |-> FALSE]
  /\ sem = 0
  /\ pc = "none" /\ i = 1 /\ wait = 0 /\ slept = 0 /\ left = 0
  /\ reg = NoReg /\ late = 0
  /\ boot = 4 /\ calls \in PROGRAMS
  /\ since = [l \in Slot |-> SINCE_MAX]

----------------------------------------------------------------------------
(* The pins.                                                                *)

Light(l, on) ==
  /\ pin' = [pin EXCEPT ![l] = on]
  /\ since' = IF pin[l] = on THEN since ELSE [since EXCEPT ![l] = 0]

\* rt_sem_release: a waiting daemon is made ready and gets the count.
SemRelease ==
  IF pc = "sleep" THEN pc' = "woken" /\ sem' = sem
                  ELSE pc' = pc /\ sem' = sem + 1

----------------------------------------------------------------------------
(* The calls.                                                               *)

\* The daemon is inside correct_or_get_min_ticks or its loop over the slots.
InLoop == pc \notin {"none", "begin", "enter", "take", "sleep", "woken", "out"}
\* With the lock, easyblink waits for the daemon to leave its loop.  The two
\* ticks it is willing to wait are enough: the daemon inherits its priority.
MayCall == MUTEX => ~InLoop

\* Fault variant: led_blink_delay does not release the semaphore.
BlinkDelay_silent(l, pat, bak, delay) ==
  /\ led' = [led EXCEPT ![l] =
               [flag |-> @.flag \cup {"SHOULD_ON", "ACTIVE", "CORRECT"},
                pat |-> pat, bak |-> bak, ticks |-> delay]]
  /\ UNCHANGED <<pc, sem>>

\* led_blink_delay: the slot is due after delay, the daemon is woken.
BlinkDelay(l, pat, bak, delay) ==
  /\ led' = [led EXCEPT ![l] =
               [flag |-> @.flag \cup {"SHOULD_ON", "ACTIVE", "CORRECT"},
                pat |-> pat, bak |-> bak, ticks |-> delay]]
  /\ SemRelease

\* An endless pattern goes to the backup and the LED rests for WAIT_START.
Replace(l, pat) ==
  /\ led[l].pat.nums = -1
  /\ Light(l, FALSE)
  /\ BlinkDelay(l, pat, led[l].pat, WAIT_START)

\* The slot is blinking: the request waits in the backup.
Save(l, pat) ==
  /\ led[l].pat.nums # -1 /\ "ACTIVE" \in led[l].flag
  /\ led' = [led EXCEPT ![l].bak = pat]
  /\ UNCHANGED <<pin, sem, pc, since>>

Start(l, pat) ==
  /\ led[l].pat.nums # -1 /\ "ACTIVE" \notin led[l].flag
  /\ BlinkDelay(l, pat, led[l].bak, 0)
  /\ UNCHANGED <<pin, since>>

easyblink(l, pat) == MayCall /\ (Replace(l, pat) \/ Save(l, pat) \/ Start(l, pat))

easyblink_stop(l) ==
  /\ Light(l, FALSE)
  /\ led' = [led EXCEPT ![l] = [flag |-> @.flag \ {"ACTIVE"}, pat |-> @.pat,
                               bak |-> NoPattern, ticks |-> @.ticks]]
  /\ UNCHANGED <<sem, pc>>

Full == \A l \in Slot : "INIT" \in led[l].flag
FirstFree == CHOOSE l \in Slot : /\ "INIT" \notin led[l].flag
                                 /\ \A k \in 1..(l-1) : "INIT" \in led[k].flag
\* The handle easyblink_init_led returns: its loop ends at the last slot when
\* every slot is in use.
Handle == IF Full THEN N ELSE FirstFree

\* The first slot that is free is taken; the daemon and its semaphore are
\* created when there are none.  The daemon first runs when the caller blocks.
easyblink_init_led ==
  /\ IF Full THEN UNCHANGED <<led, pin, since>>
     ELSE /\ led' = [led EXCEPT ![FirstFree].flag = @ \cup {"INIT"}]
          /\ Light(FirstFree, FALSE)
  /\ IF Full \/ pc # "none" THEN UNCHANGED <<pc, i, wait, sem>>
     ELSE pc' = "begin" /\ i' = 1 /\ wait' = 0 /\ sem' = 0

\* Fault variant: the daemon goes with the slot the pointer led last saw.
easyblink_deinit_last(l) ==
  /\ led' = [led EXCEPT ![l] = Unused]
  /\ Light(l, FALSE)
  /\ IF "INIT" \in led'[1].flag
     THEN UNCHANGED <<pc, i, wait, slept, left, reg, late, sem>>
     ELSE /\ pc' = "none" /\ i' = 1 /\ wait' = 0 /\ slept' = 0 /\ left' = 0
          /\ reg' = NoReg /\ late' = 0 /\ sem' = 0

\* The slot is wiped; with the last one go the semaphore and the daemon.  The
\* pin becomes an input: the LED is dark.
easyblink_deinit(l) ==
  /\ led' = [led EXCEPT ![l] = Unused]
  /\ Light(l, FALSE)
  /\ IF \E k \in Slot : "INIT" \in led'[k].flag
     THEN UNCHANGED <<pc, i, wait, slept, left, reg, late, sem>>
     ELSE /\ pc' = "none" /\ i' = 1 /\ wait' = 0 /\ slept' = 0 /\ left' = 0
          /\ reg' = NoReg /\ late' = 0 /\ sem' = 0

----------------------------------------------------------------------------
(* The callers: main.c:64-67 initialises the LED and the beeper and starts  *)
(* both without blocking; later calls come from the program.                *)

callerFrame == UNCHANGED <<slept, left, reg, late, calls>>

Boot ==
  /\ boot > 0 /\ boot' = boot - 1
  /\ \/ boot \in {4, 2} /\ easyblink_init_led
     \/ boot = 3 /\ easyblink(1, Endless) /\ UNCHANGED <<i, wait>>
     \/ boot = 1 /\ (\E n \in COUNTS : easyblink(2, Burst(n))) /\ UNCHANGED <<i, wait>>
  /\ callerFrame

\* A caller uses a handle between init and deinit.
Users == {l \in USED : "INIT" \in led[l].flag}

CallBlink ==
  /\ boot = 0 /\ sem < SEM_MAX
  /\ \E l \in Users :
       \/ "burst" \in calls /\ \E n \in COUNTS : easyblink(l, Burst(n))
       \/ "endless" \in calls /\ easyblink(l, Endless)
  /\ UNCHANGED <<i, wait, boot>> /\ callerFrame

CallStop ==
  /\ boot = 0 /\ "stop" \in calls
  /\ \E l \in Users : easyblink_stop(l)
  /\ UNCHANGED <<i, wait, boot>> /\ callerFrame

CallInit ==
  /\ boot = 0 /\ "init" \in calls
  /\ easyblink_init_led
  /\ UNCHANGED boot /\ callerFrame

CallDeinit ==
  /\ boot = 0 /\ "deinit" \in calls
  /\ \E l \in Slot : "INIT" \in led[l].flag /\ easyblink_deinit(l)
  /\ UNCHANGED <<boot, calls>>

----------------------------------------------------------------------------
(* The daemon.  No step of it runs before main blocks for the first time.   *)

At(p) == pc = p /\ boot = 0
callsFrame == UNCHANGED <<boot, calls>>
\* The daemon goes to p and keeps its slot and the rest of its locals.
GoTo(p) == pc' = p /\ UNCHANGED <<i, wait, slept, left, late>>
Dark == UNCHANGED <<pin, since>>
StoreTicks(v) == led' = [led EXCEPT ![i].ticks = v]
StoreFlag(v) == led' = [led EXCEPT ![i].flag = v]
LoadFlag(p) ==
  /\ reg' = [reg EXCEPT !.flag = led[i].flag]
  /\ GoTo(p) /\ UNCHANGED <<led, sem>> /\ Dark

\* The end of one turn of correct_or_get_min_ticks' loop; at the last slot a
\* negative minimum is returned as 0.
NextMin(p, min) ==
  /\ wait' = IF i = N /\ min < 0 THEN 0 ELSE min
  /\ i' = IF i = N THEN 1 ELSE i + 1
  /\ pc' = IF i = N THEN "enter" ELSE p

\* while (1): call correct_or_get_min_ticks(0, RT_FALSE).
Begin ==
  /\ At("begin")
  /\ pc' = "min" /\ wait' = WAIT_MAX
  /\ UNCHANGED <<led, sem, i, reg, slept, left, late>> /\ Dark /\ callsFrame

MinTicks ==
  /\ At("min")
  /\ NextMin("min", IF "ACTIVE" \in led[i].flag THEN Least(led[i].ticks, wait) ELSE wait)
  /\ UNCHANGED <<led, sem, reg, slept, left, late>> /\ Dark /\ callsFrame

\* while (wait_tick): read the time, or go on to the slots.
Enter ==
  /\ At("enter")
  /\ pc' = IF wait = 0 THEN "work" ELSE "take"
  /\ slept' = 0
  /\ UNCHANGED <<led, sem, i, wait, left, reg, late>> /\ Dark /\ callsFrame

SemTake ==
  /\ At("take")
  /\ IF sem > 0 THEN pc' = "woken" /\ sem' = sem - 1 /\ UNCHANGED <<left, late>>
                ELSE pc' = "sleep" /\ left' = wait /\ late' = 0 /\ UNCHANGED sem
  /\ UNCHANGED <<led, i, wait, slept, reg>> /\ Dark /\ callsFrame

\* rt_sem_take timed out: break.
TimedOut ==
  /\ At("out")
  /\ GoTo("work") /\ UNCHANGED <<led, sem, reg>> /\ Dark /\ callsFrame

\* correct_or_get_min_ticks(tick, RT_TRUE): the time that has passed is fixed.
Woken ==
  /\ At("woken")
  /\ pc' = "corr" /\ i' = 1 /\ wait' = WAIT_MAX /\ left' = 0
  /\ UNCHANGED <<led, sem, slept, reg, late>> /\ Dark /\ callsFrame

CorrectLoad ==
  /\ At("corr")
  /\ IF "ACTIVE" \in led[i].flag
     THEN GoTo("correct") /\ reg' = [flag |-> led[i].flag, num |-> led[i].ticks]
     ELSE NextMin("corr", wait) /\ UNCHANGED <<reg, slept, left, late>>
  /\ UNCHANGED <<led, sem>> /\ Dark /\ callsFrame

\* Fault variant: a slot is charged for one tick too many.
CorrectStore_over ==
  /\ At("correct")
  /\ IF "CORRECT" \in reg.flag THEN StoreFlag(reg.flag \ {"CORRECT"})
                               ELSE StoreTicks(reg.num - slept - 1)
  /\ NextMin("corr", Least(led'[i].ticks, wait))
  /\ reg' = NoReg
  /\ UNCHANGED <<sem, slept, left, late>> /\ Dark /\ callsFrame

\* Fault variant: the minimum is taken before the slot is charged.
CorrectStore_early ==
  /\ At("correct")
  /\ IF "CORRECT" \in reg.flag THEN StoreFlag(reg.flag \ {"CORRECT"})
                               ELSE StoreTicks(reg.num - slept)
  /\ NextMin("corr", Least(reg.num, wait))
  /\ reg' = NoReg
  /\ UNCHANGED <<sem, slept, left, late>> /\ Dark /\ callsFrame

\* A slot started during this wait is not charged for it.
CorrectStore ==
  /\ At("correct")
  /\ IF "CORRECT" \in reg.flag THEN StoreFlag(reg.flag \ {"CORRECT"})
                               ELSE StoreTicks(reg.num - slept)
  /\ NextMin("corr", Least(led'[i].ticks, wait))
  /\ reg' = NoReg
  /\ UNCHANGED <<sem, slept, left, late>> /\ Dark /\ callsFrame

\* led->ticks -= wait_tick, for every slot.
WorkLoad ==
  /\ At("work")
  /\ reg' = [reg EXCEPT !.num = led[i].ticks]
  /\ GoTo("charge") /\ UNCHANGED <<led, sem>> /\ Dark /\ callsFrame

WorkStore ==
  /\ At("charge")
  /\ StoreTicks(Floor(reg.num - wait)) /\ reg' = NoReg
  /\ GoTo("test") /\ UNCHANGED sem /\ Dark /\ callsFrame

\* On to the next slot, or back to while (1).
NextSlot ==
  /\ i' = IF i = N THEN 1 ELSE i + 1
  /\ pc' = IF i = N THEN "begin" ELSE "work"
  /\ UNCHANGED <<wait, slept, left, late>>

\* Is the slot due, and for what?
Test ==
  /\ At("test")
  /\ LET due_now == "ACTIVE" \in led[i].flag /\ led[i].ticks <= 0 IN
       IF ~due_now THEN NextSlot
       ELSE GoTo(IF "SHOULD_ON" \notin led[i].flag THEN "off"
                 ELSE IF led[i].pat.nums > 0 \/ led[i].pat.nums = -1 THEN "on"
                 ELSE "spent")
  /\ UNCHANGED <<led, sem, reg>> /\ Dark /\ callsFrame

\* Time to light it: eb_led_on, clear SHOULD_ON, ticks = pulse.  (The
\* pin number of a wiped slot is no longer that of its LED.)
TurnOn ==
  /\ At("on")
  /\ Light(i, "INIT" \in led[i].flag)
  /\ GoTo("on_load") /\ UNCHANGED <<led, sem, reg>> /\ callsFrame
OnLoad == At("on_load") /\ LoadFlag("on_store") /\ callsFrame
OnStore ==
  /\ At("on_store")
  /\ StoreFlag(reg.flag \ {"SHOULD_ON"}) /\ reg' = NoReg
  /\ GoTo("on_ticks") /\ UNCHANGED sem /\ Dark /\ callsFrame
OnTicks ==
  /\ At("on_ticks")
  /\ StoreTicks(led[i].pat.pulse)
  /\ NextSlot /\ UNCHANGED <<sem, reg>> /\ Dark /\ callsFrame

\* Fault variant: the last flash of a burst is left lit.
TurnOff_last ==
  /\ At("off")
  /\ Light(i, led[i].pat.nums = 1)
  /\ GoTo("off_load") /\ UNCHANGED <<led, sem, reg>> /\ callsFrame

\* Time to darken it: eb_led_off, set SHOULD_ON, ticks = npulse, nums--.
TurnOff ==
  /\ At("off")
  /\ Light(i, FALSE)
  /\ GoTo("off_load") /\ UNCHANGED <<led, sem, reg>> /\ callsFrame
OffLoad == At("off_load") /\ LoadFlag("off_store") /\ callsFrame
OffStore ==
  /\ At("off_store")
  /\ StoreFlag(reg.flag \cup {"SHOULD_ON"}) /\ reg' = NoReg
  /\ GoTo("off_ticks") /\ UNCHANGED sem /\ Dark /\ callsFrame
OffTicks ==
  /\ At("off_ticks")
  /\ StoreTicks(led[i].pat.npulse) /\ reg' = [reg EXCEPT !.num = led[i].pat.nums]
  /\ GoTo("dec") /\ UNCHANGED sem /\ Dark /\ callsFrame
\* Fault variant: an endless pattern is counted down as well.
Decrement_all ==
  /\ At("dec")
  /\ led' = [led EXCEPT ![i].pat.nums = reg.num - 1]
  /\ reg' = NoReg
  /\ NextSlot /\ UNCHANGED sem /\ Dark /\ callsFrame

Decrement ==
  /\ At("dec")
  /\ IF reg.num > 0 THEN led' = [led EXCEPT ![i].pat.nums = reg.num - 1] ELSE UNCHANGED led
  /\ reg' = NoReg
  /\ NextSlot /\ UNCHANGED sem /\ Dark /\ callsFrame

\* The flashes are used up: is there a pattern in the backup?
Spent ==
  /\ At("spent")
  /\ GoTo(IF led[i].bak.pulse # 0 THEN "restore" ELSE "end_load")
  /\ UNCHANGED <<led, sem, reg>> /\ Dark /\ callsFrame
EndLoad == At("end_load") /\ LoadFlag("end_store") /\ callsFrame
EndStore ==
  /\ At("end_store")
  /\ StoreFlag(reg.flag \ {"ACTIVE"}) /\ reg' = NoReg
  /\ NextSlot /\ UNCHANGED sem /\ Dark /\ callsFrame

\* Take the pattern from the backup: the count, the times, then empty it.
RestoreNums ==
  /\ At("restore")
  /\ led' = [led EXCEPT ![i].pat.nums = led[i].bak.nums]
  /\ GoTo("restore_times") /\ UNCHANGED <<sem, reg>> /\ Dark /\ callsFrame
RestoreTimes ==
  /\ At("restore_times")
  /\ led' = [led EXCEPT ![i].pat.pulse = led[i].bak.pulse, ![i].pat.npulse = led[i].bak.npulse]
  /\ GoTo("restore_clear") /\ UNCHANGED <<sem, reg>> /\ Dark /\ callsFrame
RestoreClear ==
  /\ At("restore_clear")
  /\ led' = [led EXCEPT ![i].bak = NoPattern,
                        ![i].ticks = IF led[i].pat.nums = -1 THEN WAIT_END ELSE 0]
  /\ NextSlot /\ UNCHANGED <<sem, reg>> /\ Dark /\ callsFrame

Daemon ==
  \/ Begin \/ MinTicks \/ Enter \/ SemTake \/ TimedOut \/ Woken \/ CorrectLoad \/ CorrectStore
  \/ WorkLoad \/ WorkStore \/ Test \/ TurnOn \/ OnLoad \/ OnStore \/ OnTicks
  \/ TurnOff \/ OffLoad \/ OffStore \/ OffTicks \/ Decrement
  \/ Spent \/ EndLoad \/ EndStore \/ RestoreNums \/ RestoreTimes \/ RestoreClear

\* The system tick.  The daemon, once ready, runs before LATE + 1 more ticks.
Tick ==
  /\ boot = 0
  /\ pc \notin {"none", "sleep"} => late < LATE
  /\ late' = IF pc \in {"none", "sleep"} THEN late ELSE late + 1
  /\ since' = [l \in Slot |-> Least(since[l] + 1, SINCE_MAX)]
  /\ slept' = IF pc \in {"take", "sleep", "woken"} THEN slept + 1 ELSE slept
  /\ left' = IF pc = "sleep" THEN left - 1 ELSE left
  /\ pc' = IF pc = "sleep" /\ left = 1 THEN "out" ELSE pc
  /\ UNCHANGED <<led, pin, sem, i, wait, reg, boot, calls>>

Next == Boot \/ CallBlink \/ CallStop \/ CallInit \/ CallDeinit \/ Daemon \/ Tick

\* Main goes through its start; the tick never stops and the daemon is not
\* starved: the threads above it block in every frame.
Spec == Init /\ [][Next]_vars /\ WF_vars(Boot) /\ WF_vars(Daemon) /\ WF_vars(Tick)

----------------------------------------------------------------------------
(* Properties.                                                              *)

Place == {"none", "begin", "min", "enter", "take", "sleep", "out", "woken", "corr", "correct",
          "work", "charge", "test", "on", "on_load", "on_store", "on_ticks",
          "off", "off_load", "off_store", "off_ticks", "dec", "spent",
          "end_load", "end_store", "restore", "restore_times", "restore_clear"}
PatternType == [nums : Int, pulse : Nat, npulse : Nat]
LedType == [flag : SUBSET Flag, pat : PatternType, bak : PatternType, ticks : Int]

\* The daemon's state has its types, and it sleeps only for a time it chose.
TypeOK ==
  /\ led \in [Slot -> LedType] /\ pin \in [Slot -> BOOLEAN] /\ sem \in Nat
  /\ pc \in Place /\ i \in Slot /\ wait \in Int /\ slept \in Nat /\ left \in Nat
  /\ reg \in [flag : SUBSET Flag, num : Int] /\ late \in Nat
  /\ boot \in 0..4 /\ calls \in PROGRAMS
  /\ since \in [Slot -> Nat]
  /\ pc = "sleep" => left > 0

\* A slot marked "do not charge for this wait" (PKG_EASYBLINK_CORRECT) has a
\* wake-up on its way that clears the mark: no later, longer wait is forgiven.
CorrectionPending ==
  \A l \in Slot : {"ACTIVE", "CORRECT"} \subseteq led[l].flag =>
    \/ sem > 0
    \/ pc = "woken"
    \/ pc \in {"corr", "correct"} /\ i <= l

\* The daemon never sleeps past the moment a slot is due: whatever calls came
\* between its look at a slot and rt_sem_take, the timeout is at most the ticks of
\* every slot that is blinking (eb_daemon_thread_entry).
WakesInTime ==
  pc = "sleep" => \A l \in Slot : "ACTIVE" \in led[l].flag => wait <= led[l].ticks

\* A request in the backup belongs to a slot that is blinking, whose end will
\* play it (README.md:99).
NothingStranded ==
  \A l \in Slot : led[l].bak # NoPattern => "ACTIVE" \in led[l].flag

\* A slot in use has a daemon, however calls of init and deinit and the
\* daemon's stores to a slot that was just wiped interleave.
DaemonServesSlots ==
  (\E l \in Slot : "INIT" \in led[l].flag) => pc # "none"

\* The calls main.c and the beeps of the track make.
Project == calls = {"burst"}

\* A flash lasts its pulse although requests for the other slot interrupt the
\* daemon's wait, and no longer than that if the daemon is never late.
FlashLength ==
  [][\A l \in Slot : Project /\ pin[l] /\ ~pin'[l] =>
       /\ since[l] >= led[l].pat.pulse
       /\ LATE = 0 => since[l] = led[l].pat.pulse]_vars

\* The error LED goes on blinking whatever the beeper is asked to do.
ErrorLedBlinks == []Project => []<>pin[1] /\ []<>~pin[1]

\* A beep ends.
BeepFallsSilent == []Project => (pin[2] ~> ~pin[2])
=============================================================================
