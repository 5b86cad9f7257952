---------------------------- MODULE AgileButton ----------------------------
(***************************************************************************)
(* One button of agile_button.c: the thread btn_process polls its pin every *)
(* few milliseconds with lock_mtx held and runs the state machine that      *)
(* debounces presses, counts repeated ones and raises the events; the other *)
(* threads create, configure, start, stop and delete it under the same      *)
(* mutex, so a pass and a call are each one step.                           *)
(*                                                                         *)
(* Time is rt_tick_get(), which wraps after RT_TICK_MAX; a tick is a        *)
(* millisecond.  The thread has a low priority and a callback may send an   *)
(* image over the serial port, so what is known of a pass is only that it   *)
(* comes POLL to GAP ticks after the one before, and that a callback takes  *)
(* up to CALLBACK ticks.  The other buttons of a pass are part of GAP.      *)
(***************************************************************************)
EXTENDS Integers, Sequences

CONSTANTS
  TICK_MAX,     \* RT_TICK_MAX
  REPEAT_MAX,   \* the largest value of the uint8_t repeat_cnt
  INTERVAL,     \* AGILE_BUTTON_TWO_INTERVAL_TIME_DEFAULT
  ELIM_MIN, ELIM_MAX,    \* the elimination times callers choose; default ELIM_MIN
  CYCLE_MIN, CYCLE_MAX,  \* the hold cycles callers choose; default CYCLE_MIN
  POLL, GAP,    \* ticks from one pass of btn_process to the next
  CALLBACK,     \* ticks a callback may take
  RECONFIGURE,  \* callers also stop, delete and configure: key_create does not
  CLOCK_MAX     \* bound of the ghost clocks, which stop there

ASSUME AgileButtonAssumption ==
  /\ TICK_MAX \in Nat \ {0} /\ REPEAT_MAX \in Nat \ {0} /\ POLL \in Nat \ {0}
  /\ INTERVAL \in Nat /\ GAP \in Nat /\ CALLBACK \in Nat /\ CLOCK_MAX \in Nat
  /\ ELIM_MIN \in Nat /\ ELIM_MAX \in Nat
  /\ CYCLE_MIN \in Nat /\ CYCLE_MAX \in Nat
  /\ ELIM_MIN <= ELIM_MAX /\ ELIM_MAX <= TICK_MAX \div 2
  /\ ELIM_MIN <= CLOCK_MAX
  /\ CYCLE_MIN <= CYCLE_MAX
  /\ POLL <= GAP
  /\ RECONFIGURE \in BOOLEAN

\* What the bounds on time need: elimination times (uint8_t, 15 by default) are
\* below the interval (500); the times and delays are short against 2^32 ticks,
\* and the ghost clocks run for longer than a hold cycle.
ASSUME TimeAssumption ==
  /\ 0 < ELIM_MAX /\ ELIM_MAX <= INTERVAL
  /\ 2 * GAP < TICK_MAX \div 2
  /\ INTERVAL + CALLBACK <= TICK_MAX
  /\ CYCLE_MAX + CALLBACK + GAP < TICK_MAX
  /\ CYCLE_MAX + CALLBACK + GAP < CLOCK_MAX

VARIABLES
  is_initialized,
  created,   \* the object exists: created and not deleted
  btn,       \* agile_btn_t
  listed,    \* how often the button is in agile_btn_list
  now,       \* rt_tick_get()
  gap,       \* ticks since the last pass of btn_process ended
  raised,    \* the events raised in the last step, in order
  level,     \* ghost: the last reading of the pin was the active level
  steady,    \* ghost: ticks since the first of the readings equal to it
  since      \* ghost: ticks since the last event

vars == <<is_initialized, created, btn, listed, now, gap, raised, level,
          steady, since>>

NONE_PRESS == "BTN_STATE_NONE_PRESS"
CHECK_PRESS == "BTN_STATE_CHECK_PRESS"
PRESS_DOWN == "BTN_STATE_PRESS_DOWN"
PRESS_HOLD == "BTN_STATE_PRESS_HOLD"
PRESS_UP == "BTN_STATE_PRESS_UP"
State == {NONE_PRESS, CHECK_PRESS, PRESS_DOWN, PRESS_HOLD, PRESS_UP}

Started == created /\ btn.active

Pressed == btn.state \in {PRESS_HOLD, PRESS_UP}

Events == INSTANCE ButtonEvents
            WITH pressed <- Pressed, count <- btn.repeat_cnt
DOWN == Events!DOWN
HOLD == Events!HOLD
UP == Events!UP
CLICK == Events!CLICK
Event == {DOWN, HOLD, UP, CLICK}

\* The events for which key_create installs a callback.
CallbackEvent == {CLICK, HOLD}

TickValue == 0 .. TICK_MAX

AgileBtn == [active : BOOLEAN, repeat_cnt : 0 .. REPEAT_MAX,
             elimination_time : ELIM_MIN .. ELIM_MAX, state : State,
             hold_time : TickValue, prev_hold_time : TickValue,
             hold_cycle_time : CYCLE_MIN .. CYCLE_MAX,
             tick_timeout : TickValue, event_cb : SUBSET CallbackEvent]

TypeOK ==
  /\ is_initialized \in BOOLEAN
  /\ created \in BOOLEAN
  /\ btn \in AgileBtn
  /\ listed \in Nat
  /\ now \in TickValue
  /\ gap \in 0 .. GAP
  /\ raised \in Seq(Event)
  /\ level \in BOOLEAN
  /\ steady \in 0 .. CLOCK_MAX
  /\ since \in 0 .. CLOCK_MAX

----------------------------------------------------------------------------
(* Ticks.                                                                   *)

Wrap(n) == n % (TICK_MAX + 1)

Later(clock, d) == IF clock + d < CLOCK_MAX THEN clock + d ELSE CLOCK_MAX

\* Fault variant: the ticks are compared as if they never wrapped.
Reached_naive(t) == now >= t

\* The test of btn_process that the tick t has been reached.
Reached(t) == Wrap(now - t) < TICK_MAX \div 2

\* Fault variant: the ticks after the wrap of the counter are not counted.
cal_hold_time_before ==
  IF now < btn.tick_timeout THEN TICK_MAX - btn.tick_timeout
                            ELSE now - btn.tick_timeout

\* The first branch forgets that the counter passes through 0: it is one short.
agile_btn_cal_hold_time ==
  IF now < btn.tick_timeout THEN TICK_MAX - btn.tick_timeout + now
                            ELSE now - btn.tick_timeout

----------------------------------------------------------------------------
(* The calls of other threads.                                              *)

\* What create and start have in common: the state machine begins anew.
Fresh(b) == [b EXCEPT !.repeat_cnt = 0, !.state = NONE_PRESS, !.hold_time = 0,
                      !.prev_hold_time = 0, !.tick_timeout = now]

NewButton ==
  [active |-> FALSE, repeat_cnt |-> 0, elimination_time |-> ELIM_MIN,
   state |-> NONE_PRESS, hold_time |-> 0, prev_hold_time |-> 0,
   hold_cycle_time |-> CYCLE_MIN, tick_timeout |-> now, event_cb |-> {}]

Silent ==
  /\ raised' = << >>
  /\ UNCHANGED <<is_initialized, now, gap>>

Unread == UNCHANGED <<level, steady, since>>

agile_btn_init ==
  /\ ~is_initialized
  /\ is_initialized' = TRUE
  /\ gap' = 0
  /\ raised' = << >>
  /\ UNCHANGED <<created, btn, listed, now>>
  /\ Unread

\* Before agile_btn_init it returns RT_NULL.
agile_btn_create ==
  /\ is_initialized
  /\ ~created
  /\ created' = TRUE
  /\ btn' = NewButton
  /\ UNCHANGED listed
  /\ Silent
  /\ Unread

\* Nothing reads the freed object: its content is set to that of the next.
agile_btn_delete ==
  /\ created
  /\ created' = FALSE
  /\ listed' = IF listed > 0 THEN listed - 1 ELSE 0
  /\ btn' = NewButton
  /\ Silent
  /\ Unread

\* Fault variant: a button that is started already is started again.
agile_btn_start_twice ==
  /\ created
  /\ btn' = [Fresh(btn) EXCEPT !.active = TRUE]
  /\ listed' = listed + 1
  /\ level' = FALSE
  /\ steady' = 0
  /\ since' = 0
  /\ UNCHANGED created
  /\ Silent

\* The ghost clocks start here: what was read before a stop is forgotten.
agile_btn_start ==
  /\ created
  /\ ~btn.active
  /\ btn' = [Fresh(btn) EXCEPT !.active = TRUE]
  /\ listed' = listed + 1
  /\ level' = FALSE
  /\ steady' = 0
  /\ since' = 0
  /\ UNCHANGED created
  /\ Silent

agile_btn_stop ==
  /\ created
  /\ btn.active
  /\ btn' = [btn EXCEPT !.active = FALSE]
  /\ listed' = IF listed > 0 THEN listed - 1 ELSE 0
  /\ UNCHANGED created
  /\ Silent
  /\ Unread

agile_btn_set_elimination_time(ms) ==
  /\ created
  /\ btn' = [btn EXCEPT !.elimination_time = ms]
  /\ UNCHANGED <<created, listed>>
  /\ Silent
  /\ Unread

agile_btn_set_hold_cycle_time(ms) ==
  /\ created
  /\ btn' = [btn EXCEPT !.hold_cycle_time = ms]
  /\ UNCHANGED <<created, listed>>
  /\ Silent
  /\ Unread

\* key_create's callbacks; for BTN_EVENT_SUM the call returns an error.
agile_btn_set_event_cb(event) ==
  /\ created
  /\ btn' = [btn EXCEPT !.event_cb = @ \cup {event}]
  /\ UNCHANGED <<created, listed>>
  /\ Silent
  /\ Unread

----------------------------------------------------------------------------
(* A pass of btn_process over the button, one action per state.             *)

\* The pass is due and takes d ticks in its callbacks.
Pass(d) ==
  /\ is_initialized
  /\ gap >= POLL
  /\ gap' = 0
  /\ now' = Wrap(now + d)
  /\ UNCHANGED <<is_initialized, created, listed>>

InState(s) == listed > 0 /\ btn.state = s

\* The pin reads as the active level, or not, and nothing is raised.
Read(pin) ==
  /\ level' = pin
  /\ steady' = IF pin = level THEN steady ELSE 0

\* The events are raised, the callbacks installed for them run for d ticks.
Raise(evts, d) ==
  /\ d > 0 => \E i \in DOMAIN evts : evts[i] \in btn.event_cb
  /\ raised' = evts
  /\ since' = Later(0, d)

NothingRaised ==
  /\ raised' = << >>
  /\ UNCHANGED since

EmptyPass ==
  /\ listed = 0
  /\ Pass(0)
  /\ NothingRaised
  /\ UNCHANGED <<btn, level, steady>>

NonePress(pin) ==
  /\ InState(NONE_PRESS)
  /\ Pass(0)
  /\ Read(pin)
  /\ NothingRaised
  /\ btn' = IF pin
              THEN [btn EXCEPT !.state = CHECK_PRESS,
                               !.tick_timeout = Wrap(now + btn.elimination_time)]
              ELSE [btn EXCEPT !.repeat_cnt =
                                 IF Reached(btn.tick_timeout) THEN 0 ELSE @]

\* Fault variant: an inactive reading does not end the debouncing.
CheckPress_sticky(pin) ==
  /\ InState(CHECK_PRESS)
  /\ Pass(0)
  /\ Read(pin)
  /\ NothingRaised
  /\ btn' = IF pin /\ Reached(btn.tick_timeout)
              THEN [btn EXCEPT !.state = PRESS_DOWN]
              ELSE btn

CheckPress(pin) ==
  /\ InState(CHECK_PRESS)
  /\ Pass(0)
  /\ Read(pin)
  /\ NothingRaised
  /\ btn' = [btn EXCEPT !.state = IF ~pin THEN NONE_PRESS
                                  ELSE IF Reached(btn.tick_timeout)
                                    THEN PRESS_DOWN ELSE @]

\* The hold time counts from the end of the callback.
PressDown(d) ==
  /\ InState(PRESS_DOWN)
  /\ Pass(d)
  /\ Raise(<<DOWN>>, d)
  /\ btn' = [btn EXCEPT !.hold_time = 0, !.prev_hold_time = 0,
                        !.repeat_cnt = (@ + 1) % (REPEAT_MAX + 1),
                        !.tick_timeout = Wrap(now + d),
                        !.state = PRESS_HOLD]
  /\ UNCHANGED level
  /\ steady' = Later(steady, d)

HoldDue == Wrap(agile_btn_cal_hold_time - btn.prev_hold_time) >= btn.hold_cycle_time

\* The pin is still pressed: a HOLD event once per hold cycle.
PressHold(pin, d) ==
  /\ InState(PRESS_HOLD)
  /\ Pass(d)
  /\ level' = pin
  /\ steady' = Later(IF pin = level THEN steady ELSE 0, d)
  /\ IF pin /\ HoldDue
       THEN Raise(<<HOLD>>, d)
       ELSE d = 0 /\ NothingRaised
  /\ btn' = IF pin
              THEN [btn EXCEPT !.hold_time = agile_btn_cal_hold_time,
                               !.prev_hold_time =
                                 IF HoldDue THEN agile_btn_cal_hold_time ELSE @]
              ELSE [btn EXCEPT !.state = PRESS_UP]

\* Fault variant: the state is left as it is.
PressUp_again(d) ==
  /\ InState(PRESS_UP)
  /\ Pass(d)
  /\ Raise(<<UP, CLICK>>, d)
  /\ btn' = [btn EXCEPT !.tick_timeout = Wrap(now + d + INTERVAL)]
  /\ UNCHANGED level
  /\ steady' = Later(steady, d)

PressUp(d) ==
  /\ InState(PRESS_UP)
  /\ Pass(d)
  /\ Raise(<<UP, CLICK>>, d)
  /\ btn' = [btn EXCEPT !.tick_timeout = Wrap(now + d + INTERVAL),
                        !.state = NONE_PRESS]
  /\ UNCHANGED level
  /\ steady' = Later(steady, d)

\* A tick; the thread is late by at most GAP.
Tick ==
  /\ is_initialized => gap < GAP
  /\ now' = Wrap(now + 1)
  /\ gap' = IF is_initialized THEN gap + 1 ELSE gap
  /\ steady' = Later(steady, 1)
  /\ since' = Later(since, 1)
  /\ raised' = << >>
  /\ UNCHANGED <<is_initialized, created, btn, listed, level>>

----------------------------------------------------------------------------

Init ==
  /\ is_initialized = FALSE
  /\ created = FALSE
  /\ now \in TickValue
  /\ btn = NewButton
  /\ listed = 0
  /\ gap = 0
  /\ raised = << >>
  /\ level = FALSE
  /\ steady = 0
  /\ since = 0

\* The calls of key_create, in its order and in any other.
Create ==
  \/ agile_btn_init
  \/ agile_btn_create
  \/ agile_btn_start
  \/ \E event \in CallbackEvent : agile_btn_set_event_cb(event)

Reconfigure ==
  /\ RECONFIGURE
  /\ \/ agile_btn_delete
     \/ agile_btn_stop
     \/ \E ms \in ELIM_MIN .. ELIM_MAX : agile_btn_set_elimination_time(ms)
     \/ \E ms \in CYCLE_MIN .. CYCLE_MAX : agile_btn_set_hold_cycle_time(ms)

btn_process ==
  \/ EmptyPass
  \/ \E pin \in BOOLEAN : NonePress(pin) \/ CheckPress(pin)
  \/ \E d \in 0 .. CALLBACK : PressDown(d) \/ PressUp(d)
  \/ \E pin \in BOOLEAN, d \in 0 .. CALLBACK : PressHold(pin, d)

Next == Create \/ Reconfigure \/ btn_process \/ Tick

Spec == Init /\ [][Next]_vars

----------------------------------------------------------------------------
(* Properties.                                                              *)

\* agile_btn_start, _stop, _delete: the button is in agile_btn_list exactly
\* once while it is started, and never after its memory is freed.
ListedOnce == listed = IF Started THEN 1 ELSE 0

\* The callbacks see the protocol of ButtonEvents: DOWN, HOLDs, UP with CLICK,
\* and the repeat count given with DOWN, whatever is stopped and restarted.
Protocol == Events!Spec

\* BTN_STATE_CHECK_PRESS: a press is believed only when the readings of the
\* pin were active without exception for the elimination time, across a wrap
\* of the tick counter too.
Debounced ==
  [][btn'.state = PRESS_DOWN /\ btn.state # PRESS_DOWN =>
       level /\ level' /\ steady >= ELIM_MIN]_vars

\* btn_process: a pin that reads active for the elimination time and two
\* more passes has been reported as pressed.
PressReported ==
  Started /\ level /\ steady >= ELIM_MAX + 2 * GAP => btn.state = PRESS_HOLD

\* BTN_STATE_NONE_PRESS: a button left alone for the interval starts a new
\* series, so its next press counts as the first.
RepeatForgotten ==
  Started /\ ~level /\ steady >= INTERVAL + 2 * GAP + CALLBACK
    => btn.repeat_cnt = 0

\* BTN_STATE_PRESS_HOLD: HOLD events follow DOWN and each other by the hold
\* cycle, never more than a tick early (agile_btn_cal_hold_time is a tick short
\* until the counter has gone all the way round) and never forgotten.
HoldPeriod ==
  [][/\ raised' = <<HOLD>> => since + 1 >= CYCLE_MIN
     /\ Pressed /\ Started /\ level =>
          since <= CYCLE_MAX + CALLBACK + GAP]_vars

\* Comment of AGILE_BUTTON_TWO_INTERVAL_TIME_DEFAULT: the repeat count is
\* cleared when two presses are more than the interval apart, hence not
\* earlier.
RepeatWindow ==
  [][Started /\ Started' /\ btn.state = NONE_PRESS
     /\ btn.repeat_cnt # 0 /\ btn'.repeat_cnt = 0
       => since >= INTERVAL]_vars
=============================================================================
