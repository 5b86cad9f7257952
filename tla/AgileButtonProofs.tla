-------------------------- MODULE AgileButtonProofs --------------------------
(***************************************************************************)
(* Theorems about AgileButton, for every tick range, interval and poll      *)
(* period.  The inductive invariant is typing together with ListedOnce: a   *)
(* button in agile_btn_list is a live, started one.  From it follow that    *)
(* the list holds no button twice and that the state machine implements     *)
(* ButtonEvents; with DebounceInv, that no press is believed too early.     *)
(***************************************************************************)
EXTENDS AgileButton, TLAPS

\* A wrapped tick count is a value of rt_tick_t.
LEMMA WrapType == \A n \in Int : Wrap(n) \in TickValue
BY AgileButtonAssumption DEF Wrap, TickValue

\* The ghost clocks stay within their bound.
LEMMA LaterType == \A c \in 0 .. CLOCK_MAX, d \in Nat : Later(c, d) \in 0 .. CLOCK_MAX
BY AgileButtonAssumption DEF Later

\* The computed hold time is a value of rt_tick_t: no branch underflows.
LEMMA HoldTimeType == TypeOK => agile_btn_cal_hold_time \in TickValue
<1> SUFFICES ASSUME TypeOK PROVE agile_btn_cal_hold_time \in TickValue
  OBVIOUS
<1>1. now \in TickValue /\ btn.tick_timeout \in TickValue
  BY DEF TypeOK, AgileBtn
<1> QED
  BY <1>1, AgileButtonAssumption DEF TickValue, agile_btn_cal_hold_time

IInv == TypeOK /\ ListedOnce

LEMMA NewButtonType == now \in TickValue => NewButton \in AgileBtn
BY AgileButtonAssumption DEF NewButton, AgileBtn, State, TickValue

LEMMA FreshType ==
  TypeOK => /\ Fresh(btn) \in AgileBtn
            /\ Fresh(btn).active = btn.active
            /\ Fresh(btn).state = NONE_PRESS
            /\ Fresh(btn).repeat_cnt = 0
<1> SUFFICES ASSUME TypeOK
    PROVE /\ Fresh(btn) \in AgileBtn
          /\ Fresh(btn).active = btn.active
          /\ Fresh(btn).state = NONE_PRESS
          /\ Fresh(btn).repeat_cnt = 0
  OBVIOUS
<1>1. btn \in AgileBtn /\ now \in TickValue /\ 0 \in TickValue
  BY AgileButtonAssumption DEF TypeOK, TickValue
<1>2. NONE_PRESS \in State /\ 0 \in 0 .. REPEAT_MAX
  BY AgileButtonAssumption DEF State
<1> QED
  BY <1>1, <1>2 DEF Fresh, AgileBtn

LEMMA InitInv == Init => IInv
<1> SUFFICES ASSUME Init PROVE IInv
  OBVIOUS
<1>1. TypeOK
  <2>1. is_initialized \in BOOLEAN /\ created \in BOOLEAN /\ level \in BOOLEAN
    BY Zenon DEF Init
  <2> QED
    BY <2>1, NewButtonType, AgileButtonAssumption DEF Init, TypeOK
<1>2. ListedOnce
  BY DEF Init, ListedOnce, Started
<1> QED
  BY <1>1, <1>2 DEF IInv

\* The calls of other threads preserve the invariant.
LEMMA CallInv == IInv /\ (Create \/ Reconfigure) => IInv'
<1> SUFFICES ASSUME IInv, Create \/ Reconfigure PROVE IInv'
  OBVIOUS
<1> USE DEF IInv
<1>1. CASE agile_btn_init
  BY <1>1, AgileButtonAssumption
     DEF agile_btn_init, Unread, TypeOK, ListedOnce, Started
<1>2. CASE agile_btn_create
  BY <1>2, NewButtonType
     DEF agile_btn_create, Silent, Unread, TypeOK, ListedOnce, Started, NewButton
<1>3. CASE agile_btn_start
  <2>1. btn' \in AgileBtn /\ btn'.active
    BY <1>3, FreshType DEF agile_btn_start, AgileBtn
  <2>2. listed' = 1 /\ listed' \in Nat
    BY <1>3 DEF agile_btn_start, ListedOnce, Started
  <2>3. level' \in BOOLEAN
    BY <1>3, Zenon DEF agile_btn_start
  <2> QED
    BY <1>3, <2>1, <2>2, <2>3, AgileButtonAssumption
       DEF agile_btn_start, Silent, TypeOK, ListedOnce, Started
<1>4. ASSUME NEW event \in CallbackEvent, agile_btn_set_event_cb(event) PROVE IInv'
  <2>1. btn' \in AgileBtn /\ btn'.active = btn.active
    BY <1>4 DEF agile_btn_set_event_cb, TypeOK, AgileBtn
  <2> QED
    BY <1>4, <2>1 DEF agile_btn_set_event_cb, Silent, Unread, TypeOK, ListedOnce, Started
<1>5. CASE agile_btn_delete
  <2>1. btn' \in AgileBtn
    BY <1>5, NewButtonType DEF agile_btn_delete, TypeOK
  <2>2. listed' = 0 /\ ListedOnce'
    BY <1>5 DEF agile_btn_delete, ListedOnce, Started
  <2>3. created' \in BOOLEAN
    BY <1>5, Zenon DEF agile_btn_delete
  <2> QED
    BY <1>5, <2>1, <2>2, <2>3 DEF agile_btn_delete, Silent, Unread, TypeOK
<1>6. CASE agile_btn_stop
  <2>1. btn' \in AgileBtn /\ ~btn'.active
    BY <1>6 DEF agile_btn_stop, TypeOK, AgileBtn
  <2>2. listed' = 0
    BY <1>6 DEF agile_btn_stop, ListedOnce, Started
  <2> QED
    BY <1>6, <2>1, <2>2
       DEF agile_btn_stop, Silent, Unread, TypeOK, ListedOnce, Started
<1>7. ASSUME NEW ms \in ELIM_MIN .. ELIM_MAX, agile_btn_set_elimination_time(ms)
      PROVE IInv'
  <2>1. btn' \in AgileBtn /\ btn'.active = btn.active
    BY <1>7 DEF agile_btn_set_elimination_time, TypeOK, AgileBtn
  <2> QED
    BY <1>7, <2>1
       DEF agile_btn_set_elimination_time, Silent, Unread, TypeOK, ListedOnce, Started
<1>8. ASSUME NEW ms \in CYCLE_MIN .. CYCLE_MAX, agile_btn_set_hold_cycle_time(ms)
      PROVE IInv'
  <2>1. btn' \in AgileBtn /\ btn'.active = btn.active
    BY <1>8 DEF agile_btn_set_hold_cycle_time, TypeOK, AgileBtn
  <2> QED
    BY <1>8, <2>1
       DEF agile_btn_set_hold_cycle_time, Silent, Unread, TypeOK, ListedOnce, Started
<1> QED
  BY <1>1, <1>2, <1>3, <1>4, <1>5, <1>6, <1>7, <1>8 DEF Create, Reconfigure

\* A pass of btn_process or a tick preserves the invariant once the button
\* keeps its type and its active flag.
LEMMA PassInv ==
  ASSUME IInv, NEW d \in Nat, Pass(d), btn' \in AgileBtn, btn'.active = btn.active,
         raised' \in Seq(Event), level' \in BOOLEAN,
         steady' \in 0 .. CLOCK_MAX, since' \in 0 .. CLOCK_MAX
  PROVE  IInv'
<1>1. now' \in TickValue
  <2>1. now + d \in Int
    BY AgileButtonAssumption DEF IInv, TypeOK, TickValue
  <2> QED
    BY <2>1, WrapType DEF Pass
<1>2. gap' \in 0 .. GAP
  BY AgileButtonAssumption DEF Pass
<1>3. TypeOK'
  BY <1>1, <1>2 DEF IInv, Pass, TypeOK
<1>4. ListedOnce'
  BY DEF IInv, ListedOnce, Started, Pass
<1> QED
  BY <1>3, <1>4 DEF IInv

\* What Raise and NothingRaised leave in the event log and its clock.
LEMMA RaiseType ==
  ASSUME NEW evts \in Seq(Event), NEW d \in Nat, Raise(evts, d)
  PROVE  raised' \in Seq(Event) /\ since' \in 0 .. CLOCK_MAX
<1>1. 0 \in 0 .. CLOCK_MAX
  BY AgileButtonAssumption
<1> QED
  BY <1>1, LaterType DEF Raise

LEMMA NothingRaisedType ==
  ASSUME TypeOK, NothingRaised
  PROVE  raised' \in Seq(Event) /\ since' \in 0 .. CLOCK_MAX
BY DEF TypeOK, NothingRaised

LEMMA ReadType ==
  ASSUME TypeOK, NEW pin \in BOOLEAN, Read(pin)
  PROVE  level' \in BOOLEAN /\ steady' \in 0 .. CLOCK_MAX
BY AgileButtonAssumption DEF TypeOK, Read

LEMMA ProcessInv == IInv /\ btn_process => IInv'
<1> SUFFICES ASSUME IInv, btn_process PROVE IInv'
  OBVIOUS
<1>0. /\ TypeOK
      /\ btn \in AgileBtn
      /\ now \in Int
      /\ steady \in 0 .. CLOCK_MAX
      /\ 0 \in Nat
      /\ {NONE_PRESS, CHECK_PRESS, PRESS_DOWN, PRESS_HOLD, PRESS_UP} \subseteq State
  BY AgileButtonAssumption DEF IInv, TypeOK, TickValue, State
<1>1. CASE EmptyPass
  BY <1>1, <1>0, NothingRaisedType, PassInv DEF EmptyPass, TypeOK
<1>2. ASSUME NEW pin \in BOOLEAN, NonePress(pin) PROVE IInv'
  <2>1. Wrap(now + btn.elimination_time) \in TickValue
    BY <1>0, WrapType, AgileButtonAssumption DEF AgileBtn
  <2>2. 0 \in 0 .. REPEAT_MAX
    BY AgileButtonAssumption
  <2>3. btn' \in AgileBtn /\ btn'.active = btn.active
    BY <1>0, <1>2, <2>1, <2>2 DEF NonePress, AgileBtn
  <2> QED
    BY <1>0, <1>2, <2>3, NothingRaisedType, ReadType, PassInv DEF NonePress
<1>3. ASSUME NEW pin \in BOOLEAN, CheckPress(pin) PROVE IInv'
  <2>1. btn' \in AgileBtn /\ btn'.active = btn.active
    BY <1>0, <1>3 DEF CheckPress, AgileBtn
  <2> QED
    BY <1>0, <1>3, <2>1, NothingRaisedType, ReadType, PassInv DEF CheckPress
<1>4. ASSUME NEW d \in 0 .. CALLBACK, PressDown(d) PROVE IInv'
  <2>1. /\ d \in Nat
        /\ Wrap(now + d) \in TickValue
        /\ 0 \in TickValue
        /\ (btn.repeat_cnt + 1) % (REPEAT_MAX + 1) \in 0 .. REPEAT_MAX
    BY <1>0, WrapType, AgileButtonAssumption DEF AgileBtn, TickValue
  <2>2. btn' \in AgileBtn /\ btn'.active = btn.active
    BY <1>0, <1>4, <2>1 DEF PressDown, AgileBtn
  <2>3. <<DOWN>> \in Seq(Event)
    BY DEF Event
  <2>4. level' \in BOOLEAN /\ steady' \in 0 .. CLOCK_MAX
    BY <1>0, <1>4, <2>1, LaterType DEF PressDown, TypeOK
  <2> QED
    BY <1>4, <2>1, <2>2, <2>3, <2>4, RaiseType, PassInv DEF PressDown
<1>5. ASSUME NEW d \in 0 .. CALLBACK, PressUp(d) PROVE IInv'
  <2>1. d \in Nat /\ Wrap(now + d + INTERVAL) \in TickValue
    BY <1>0, WrapType, AgileButtonAssumption
  <2>2. btn' \in AgileBtn /\ btn'.active = btn.active
    BY <1>0, <1>5, <2>1 DEF PressUp, AgileBtn
  <2>3. <<UP, CLICK>> \in Seq(Event)
    BY DEF Event
  <2>4. level' \in BOOLEAN /\ steady' \in 0 .. CLOCK_MAX
    BY <1>0, <1>5, <2>1, LaterType DEF PressUp, TypeOK
  <2> QED
    BY <1>5, <2>1, <2>2, <2>3, <2>4, RaiseType, PassInv DEF PressUp
<1>6. ASSUME NEW pin \in BOOLEAN, NEW d \in 0 .. CALLBACK, PressHold(pin, d)
      PROVE IInv'
  <2>1. d \in Nat /\ agile_btn_cal_hold_time \in TickValue
    BY <1>0, HoldTimeType, AgileButtonAssumption
  <2>2. btn' \in AgileBtn /\ btn'.active = btn.active
    BY <1>0, <1>6, <2>1 DEF PressHold, AgileBtn
  <2>3. <<HOLD>> \in Seq(Event)
    BY DEF Event
  <2>4. level' \in BOOLEAN
    BY <1>6, Zenon DEF PressHold
  <2>5. steady' \in 0 .. CLOCK_MAX
    BY <1>0, <1>6, <2>1, LaterType, AgileButtonAssumption DEF PressHold
  <2>6. raised' \in Seq(Event) /\ since' \in 0 .. CLOCK_MAX
    BY <1>0, <1>6, <2>1, <2>3, RaiseType, NothingRaisedType DEF PressHold
  <2> QED
    BY <1>6, <2>1, <2>2, <2>4, <2>5, <2>6, PassInv DEF PressHold
<1> QED
  BY <1>1, <1>2, <1>3, <1>4, <1>5, <1>6 DEF btn_process

LEMMA TickInv == IInv /\ Tick => IInv'
<1> SUFFICES ASSUME IInv, Tick PROVE IInv'
  OBVIOUS
<1>1. now' \in TickValue
  BY WrapType, AgileButtonAssumption DEF IInv, TypeOK, TickValue, Tick
<1>2. gap' \in 0 .. GAP
  BY AgileButtonAssumption DEF IInv, TypeOK, Tick
<1>3. steady' \in 0 .. CLOCK_MAX /\ since' \in 0 .. CLOCK_MAX
  BY LaterType, AgileButtonAssumption DEF IInv, TypeOK, Tick
<1> QED
  BY <1>1, <1>2, <1>3 DEF IInv, TypeOK, ListedOnce, Started, Tick

\* agile_button.c: typing and ListedOnce hold in every reachable state.
THEOREM ButtonInvariance == Spec => []IInv
<1>1. IInv /\ [Next]_vars => IInv'
  <2> SUFFICES ASSUME IInv, [Next]_vars PROVE IInv'
    OBVIOUS
  <2>1. CASE UNCHANGED vars
    BY <2>1 DEF vars, IInv, TypeOK, ListedOnce, Started
  <2> QED
    BY <2>1, CallInv, ProcessInv, TickInv DEF Next
<1> QED
  BY <1>1, InitInv, PTL DEF Spec

\* The button has its types: tick values stay in rt_tick_t, the repeat count
\* in uint8_t, whatever is called and however late the thread is.
THEOREM ButtonTypeCorrect == Spec => []TypeOK
BY ButtonInvariance, PTL DEF IInv

\* agile_btn_start, _stop, _delete: a button is in agile_btn_list exactly
\* once while started, never when freed.
THEOREM ButtonListedOnce == Spec => []ListedOnce
BY ButtonInvariance, PTL DEF IInv

\* Each step of the state machine is a step of ButtonEvents or a stutter.
LEMMA StepImplements == IInv /\ [Next]_vars => [Events!Next]_(Events!events)
<1> SUFFICES ASSUME IInv, [Next]_vars PROVE [Events!Next]_(Events!events)
  OBVIOUS
<1>0. btn \in AgileBtn
  BY DEF IInv, TypeOK
<1> USE DEF Pressed, NONE_PRESS, CHECK_PRESS, PRESS_DOWN, PRESS_HOLD, PRESS_UP
<1>1. ASSUME raised' = << >>, Pressed' = Pressed, btn'.repeat_cnt = btn.repeat_cnt
      PROVE Events!Next
  BY <1>1 DEF Events!Next, Events!Silent
<1>2. ASSUME raised' = << >>, ~Pressed', btn'.repeat_cnt = 0
      PROVE Events!Next
  <2>1. Pressed' = FALSE
    BY <1>2
  <2> QED
    BY <1>2, <2>1 DEF Events!Next, Events!Reset
<1>3. CASE agile_btn_init \/ EmptyPass \/ Tick
  BY <1>3, <1>1 DEF agile_btn_init, EmptyPass, NothingRaised, Tick
<1>4. CASE agile_btn_create \/ agile_btn_delete
  BY <1>4, <1>2 DEF agile_btn_create, agile_btn_delete, NewButton, Silent
<1>5. CASE agile_btn_start
  <2>1. btn'.state = NONE_PRESS /\ btn'.repeat_cnt = 0
    BY <1>5, FreshType DEF agile_btn_start, AgileBtn, IInv
  <2> QED
    BY <1>5, <2>1, <1>2 DEF agile_btn_start, Silent
<1>6. ASSUME \/ agile_btn_stop
             \/ \E ms \in ELIM_MIN .. ELIM_MAX : agile_btn_set_elimination_time(ms)
             \/ \E ms \in CYCLE_MIN .. CYCLE_MAX : agile_btn_set_hold_cycle_time(ms)
             \/ \E event \in CallbackEvent : agile_btn_set_event_cb(event)
      PROVE Events!Next
  <2>1. raised' = << >> /\ btn'.state = btn.state /\ btn'.repeat_cnt = btn.repeat_cnt
    BY <1>0, <1>6 DEF agile_btn_stop, agile_btn_set_elimination_time,
       agile_btn_set_hold_cycle_time, agile_btn_set_event_cb, Silent, AgileBtn
  <2> QED
    BY <2>1, <1>1
<1>7. ASSUME NEW pin \in BOOLEAN, NonePress(pin) PROVE Events!Next
  <2>1. /\ raised' = << >> /\ ~Pressed /\ ~Pressed'
        /\ btn'.repeat_cnt \in {0, btn.repeat_cnt}
    BY <1>0, <1>7 DEF NonePress, InState, NothingRaised, AgileBtn
  <2> QED
    BY <2>1, <1>1, <1>2
<1>8. ASSUME NEW pin \in BOOLEAN, CheckPress(pin) PROVE Events!Next
  <2>1. raised' = << >> /\ ~Pressed /\ ~Pressed' /\ btn'.repeat_cnt = btn.repeat_cnt
    BY <1>0, <1>8 DEF CheckPress, InState, NothingRaised, AgileBtn
  <2> QED
    BY <2>1, <1>1
<1>9. ASSUME NEW d \in 0 .. CALLBACK, PressDown(d) PROVE Events!Next
  <2>1. /\ raised' = <<DOWN>> /\ ~Pressed /\ btn'.state = PRESS_HOLD
        /\ btn'.repeat_cnt = (btn.repeat_cnt + 1) % (REPEAT_MAX + 1)
    BY <1>0, <1>9 DEF PressDown, InState, Raise, AgileBtn
  <2>2. Pressed' = TRUE
    BY <2>1
  <2> QED
    BY <2>1, <2>2 DEF Events!Next, Events!Press, DOWN
<1>10. ASSUME NEW d \in 0 .. CALLBACK, PressUp(d) PROVE Events!Next
  <2>1. /\ raised' = <<UP, CLICK>> /\ Pressed /\ btn'.state = NONE_PRESS
        /\ btn'.repeat_cnt = btn.repeat_cnt
    BY <1>0, <1>10 DEF PressUp, InState, Raise, AgileBtn
  <2>2. Pressed' = FALSE
    BY <2>1
  <2> QED
    BY <2>1, <2>2 DEF Events!Next, Events!Release, UP, CLICK
<1>11. ASSUME NEW pin \in BOOLEAN, NEW d \in 0 .. CALLBACK, PressHold(pin, d)
       PROVE Events!Next
  <2>1. Pressed /\ Pressed' /\ btn'.repeat_cnt = btn.repeat_cnt
    BY <1>0, <1>11 DEF PressHold, InState, AgileBtn
  <2>2. raised' \in {<<HOLD>>, << >>}
    BY <1>11 DEF PressHold, Raise, NothingRaised
  <2>3. CASE raised' = << >>
    BY <2>1, <2>3, <1>1
  <2>4. CASE raised' = <<HOLD>>
    BY <2>1, <2>4 DEF Events!Next, Events!Hold, HOLD
  <2> QED
    BY <2>2, <2>3, <2>4
<1>12. CASE UNCHANGED vars
  BY <1>12 DEF vars, Events!events
<1> QED
  BY <1>3, <1>4, <1>5, <1>6, <1>7, <1>8, <1>9, <1>10, <1>11, <1>12
     DEF Next, Create, Reconfigure, btn_process

\* btn_process implements ButtonEvents: callbacks see DOWN, HOLDs, UP with
\* CLICK, and the click sees the repeat count its press was given.
THEOREM ButtonProtocol == Spec => Protocol
<1>1. Init => Events!Init
  BY DEF Init, Events!Init, NewButton, Pressed, NONE_PRESS, PRESS_HOLD, PRESS_UP
<1> QED
  BY <1>1, StepImplements, ButtonInvariance, PTL DEF Spec, Protocol, Events!Spec

----------------------------------------------------------------------------
(* Debouncing.  While the button waits in BTN_STATE_CHECK_PRESS, either the *)
(* pin has read active for the elimination time, or tick_timeout is r ticks *)
(* ahead, on this side of the wrap or beyond it, and the readings will have *)
(* been active for long enough when it is reached.                          *)

Ahead(r) == btn.tick_timeout \in {now + r, now + r - (TICK_MAX + 1)}

DebounceInv ==
  Started =>
    /\ btn.state \in {NONE_PRESS, PRESS_UP} => ~level
    /\ btn.state = CHECK_PRESS =>
         /\ level
         /\ \/ steady >= ELIM_MIN
            \/ \E r \in 1 .. ELIM_MAX : steady + r >= ELIM_MIN /\ Ahead(r)

\* A small negative difference of ticks wraps to a large one.
LEMMA WrapNegative == \A n \in -TICK_MAX .. -1 : Wrap(n) = n + TICK_MAX + 1
BY AgileButtonAssumption DEF Wrap

\* A tick value and a small advance wrap at most once.
LEMMA WrapOnce ==
  \A n \in 0 .. 2 * TICK_MAX : Wrap(n) = IF n <= TICK_MAX THEN n ELSE n - (TICK_MAX + 1)
BY AgileButtonAssumption DEF Wrap

\* Adding an elimination time to now puts tick_timeout that far ahead.
LEMMA ArmedAhead ==
  ASSUME TypeOK
  PROVE  Wrap(now + btn.elimination_time)
           \in {now + btn.elimination_time,
                now + btn.elimination_time - (TICK_MAX + 1)}
<1>1. now \in TickValue /\ btn.elimination_time \in ELIM_MIN .. ELIM_MAX
  BY DEF TypeOK, AgileBtn
<1> QED
  BY <1>1, WrapOnce, AgileButtonAssumption DEF TickValue

\* A tick_timeout that is ahead has not been reached.
LEMMA AheadNotReached ==
  ASSUME TypeOK, NEW r \in 1 .. ELIM_MAX, Ahead(r)
  PROVE  ~Reached(btn.tick_timeout)
<1>1. now \in TickValue
  BY DEF TypeOK
<1>2. now - btn.tick_timeout \in {-r, TICK_MAX + 1 - r}
  BY <1>1, AgileButtonAssumption DEF Ahead, TickValue
<1>3. Wrap(now - btn.tick_timeout) = TICK_MAX + 1 - r
  BY <1>2, WrapNegative, WrapOnce, AgileButtonAssumption
<1> QED
  BY <1>3, AgileButtonAssumption DEF Reached

\* A tick brings tick_timeout one tick nearer.
LEMMA TickDebounce == IInv /\ DebounceInv /\ Tick => DebounceInv'
<1> SUFFICES ASSUME IInv, DebounceInv, Tick PROVE DebounceInv'
  OBVIOUS
<1>1. /\ now \in TickValue /\ steady \in 0 .. CLOCK_MAX
      /\ btn.tick_timeout \in TickValue
  BY DEF IInv, TypeOK, AgileBtn
<1>2. btn' = btn /\ created' = created /\ level' = level
  BY DEF Tick
<1>3. now' = IF now < TICK_MAX THEN now + 1 ELSE 0
  BY <1>1, WrapOnce, AgileButtonAssumption DEF Tick, TickValue
<1>4. steady' >= steady /\ (steady' = steady + 1 \/ steady' >= ELIM_MIN)
  BY <1>1, AgileButtonAssumption DEF Tick, Later
<1>5. steady' \in Nat
  BY <1>1, AgileButtonAssumption DEF Tick, Later
<1>6. ASSUME NEW r \in 1 .. ELIM_MAX, steady + r >= ELIM_MIN, Ahead(r)
      PROVE \/ steady' >= ELIM_MIN
            \/ \E q \in 1 .. ELIM_MAX : steady' + q >= ELIM_MIN /\ Ahead(q)'
  <2>1. CASE r = 1 \/ steady' >= ELIM_MIN
    BY <2>1, <1>1, <1>4, <1>5, <1>6, AgileButtonAssumption
  <2>2. CASE r # 1 /\ steady' = steady + 1
    <3>1. r - 1 \in 1 .. ELIM_MAX /\ steady' + (r - 1) >= ELIM_MIN
      BY <2>2, <1>1, <1>6, AgileButtonAssumption
    <3>2. Ahead(r - 1)'
      BY <1>1, <1>2, <1>3, <1>6, AgileButtonAssumption DEF Ahead, TickValue
    <3> QED
      BY <3>1, <3>2
  <2> QED
    BY <1>4, <2>1, <2>2
<1>7. ASSUME Started', btn'.state = CHECK_PRESS
      PROVE \/ steady' >= ELIM_MIN
            \/ \E q \in 1 .. ELIM_MAX : steady' + q >= ELIM_MIN /\ Ahead(q)'
  <2>1. \/ steady >= ELIM_MIN
        \/ \E r \in 1 .. ELIM_MAX : steady + r >= ELIM_MIN /\ Ahead(r)
    BY <1>2, <1>7 DEF DebounceInv, Started
  <2>2. steady >= ELIM_MIN => steady' >= ELIM_MIN
    BY <1>1, <1>4, <1>5, AgileButtonAssumption
  <2> QED
    BY <2>1, <2>2, <1>6, Zenon
<1> QED
  BY <1>2, <1>7 DEF DebounceInv, Started

LEMMA CallDebounce == IInv /\ DebounceInv /\ (Create \/ Reconfigure) => DebounceInv'
<1> SUFFICES ASSUME IInv, DebounceInv, Create \/ Reconfigure PROVE DebounceInv'
  OBVIOUS
<1>0. btn \in AgileBtn
  BY DEF IInv, TypeOK
<1>1. ASSUME ~Started' PROVE DebounceInv'
  BY <1>1 DEF DebounceInv
<1>2. CASE agile_btn_create \/ agile_btn_delete
  BY <1>1, <1>2 DEF agile_btn_create, agile_btn_delete, NewButton, Started
<1>3. CASE agile_btn_stop
  <2>1. ~btn'.active
    BY <1>0, <1>3 DEF agile_btn_stop, AgileBtn
  <2> QED
    BY <1>1, <2>1 DEF Started
<1>4. CASE agile_btn_start
  <2>1. btn'.state = NONE_PRESS
    BY <1>4, FreshType DEF agile_btn_start, AgileBtn, IInv
  <2>2. ~level'
    BY <1>4 DEF agile_btn_start
  <2> QED
    BY <2>1, <2>2 DEF DebounceInv, NONE_PRESS, CHECK_PRESS
<1>5. ASSUME \/ agile_btn_init
             \/ \E ms \in ELIM_MIN .. ELIM_MAX : agile_btn_set_elimination_time(ms)
             \/ \E ms \in CYCLE_MIN .. CYCLE_MAX : agile_btn_set_hold_cycle_time(ms)
             \/ \E event \in CallbackEvent : agile_btn_set_event_cb(event)
      PROVE DebounceInv'
  <2>1. /\ btn'.state = btn.state /\ btn'.active = btn.active
        /\ btn'.tick_timeout = btn.tick_timeout
    BY <1>0, <1>5 DEF agile_btn_init, agile_btn_set_elimination_time,
       agile_btn_set_hold_cycle_time, agile_btn_set_event_cb, AgileBtn
  <2>2. /\ created' = created /\ now' = now
        /\ level' = level /\ steady' = steady
    BY <1>5 DEF agile_btn_init, agile_btn_set_elimination_time,
       agile_btn_set_hold_cycle_time, agile_btn_set_event_cb, Silent, Unread
  <2> QED
    BY <2>1, <2>2 DEF DebounceInv, Started, Ahead
<1> QED
  BY <1>2, <1>3, <1>4, <1>5 DEF Create, Reconfigure

LEMMA ProcessDebounce == IInv /\ DebounceInv /\ btn_process => DebounceInv'
<1> SUFFICES ASSUME IInv, DebounceInv, btn_process PROVE DebounceInv'
  OBVIOUS
<1>0. btn \in AgileBtn /\ now \in TickValue /\ steady \in 0 .. CLOCK_MAX
  BY DEF IInv, TypeOK
<1>1. listed > 0 => Started
  BY DEF IInv, ListedOnce
<1>2. Pass(0) => now' = now
  BY <1>0, WrapOnce, AgileButtonAssumption DEF Pass, TickValue
<1> USE DEF NONE_PRESS, CHECK_PRESS, PRESS_DOWN, PRESS_HOLD, PRESS_UP
<1>3. CASE EmptyPass
  <2>1. ~Started /\ created' = created /\ btn' = btn
    BY <1>3 DEF EmptyPass, Pass, IInv, ListedOnce
  <2> QED
    BY <2>1 DEF DebounceInv, Started
<1>4. ASSUME NEW pin \in BOOLEAN, NonePress(pin) PROVE DebounceInv'
  <2>1. CASE ~pin
    BY <1>0, <1>4, <2>1 DEF NonePress, InState, Read, DebounceInv, AgileBtn
  <2>2. CASE pin
    <3>1. ~level
      BY <1>1, <1>4 DEF NonePress, InState, DebounceInv
    <3>2. level' /\ steady' = 0
      BY <1>4, <2>2, <3>1 DEF NonePress, Read
    <3>3. /\ btn'.state = CHECK_PRESS
          /\ btn'.tick_timeout = Wrap(now + btn.elimination_time)
      BY <1>0, <1>4, <2>2 DEF NonePress, AgileBtn
    <3>4. btn.elimination_time \in ELIM_MIN .. ELIM_MAX
      BY <1>0 DEF AgileBtn
    <3>5. btn'.tick_timeout \in {now' + btn.elimination_time,
                                 now' + btn.elimination_time - (TICK_MAX + 1)}
      BY <1>2, <1>4, <3>3, ArmedAhead DEF NonePress, IInv
    <3>6. \/ steady' >= ELIM_MIN
          \/ \E r \in 1 .. ELIM_MAX : steady' + r >= ELIM_MIN /\ Ahead(r)'
      BY <3>2, <3>4, <3>5, AgileButtonAssumption DEF Ahead
    <3> QED
      BY <3>2, <3>3, <3>6 DEF DebounceInv
  <2> QED
    BY <2>1, <2>2
<1>5. ASSUME NEW pin \in BOOLEAN, CheckPress(pin) PROVE DebounceInv'
  <2>1. CASE ~pin
    BY <1>0, <1>5, <2>1 DEF CheckPress, InState, Read, DebounceInv, AgileBtn
  <2>2. CASE pin /\ Reached(btn.tick_timeout)
    BY <1>0, <1>5, <2>2 DEF CheckPress, DebounceInv, AgileBtn
  <2>3. CASE pin /\ ~Reached(btn.tick_timeout)
    <3>1. level
      BY <1>1, <1>5 DEF CheckPress, InState, DebounceInv
    <3>2. level' /\ steady' = steady
      BY <1>5, <2>3, <3>1 DEF CheckPress, Read
    <3>3. /\ btn'.state = btn.state /\ btn'.active = btn.active
          /\ btn'.tick_timeout = btn.tick_timeout
          /\ created' = created /\ now' = now
      BY <1>0, <1>2, <1>5, <2>3 DEF CheckPress, Pass, AgileBtn
    <3> QED
      BY <3>1, <3>2, <3>3 DEF DebounceInv, Started, Ahead
  <2> QED
    BY <2>1, <2>2, <2>3
<1>6. ASSUME NEW d \in 0 .. CALLBACK, PressDown(d) PROVE DebounceInv'
  BY <1>0, <1>6 DEF PressDown, DebounceInv, AgileBtn
<1>7. ASSUME NEW d \in 0 .. CALLBACK, PressUp(d) PROVE DebounceInv'
  <2>1. ~level'
    BY <1>1, <1>7 DEF PressUp, InState, DebounceInv
  <2> QED
    BY <1>0, <1>7, <2>1 DEF PressUp, DebounceInv, AgileBtn
<1>8. ASSUME NEW pin \in BOOLEAN, NEW d \in 0 .. CALLBACK, PressHold(pin, d)
      PROVE DebounceInv'
  BY <1>0, <1>8 DEF PressHold, InState, DebounceInv, AgileBtn
<1> QED
  BY <1>3, <1>4, <1>5, <1>6, <1>7, <1>8 DEF btn_process

LEMMA DebounceInvariance == Spec => []DebounceInv
<1>1. Init => DebounceInv
  BY DEF Init, DebounceInv, Started
<1>2. IInv /\ DebounceInv /\ [Next]_vars => DebounceInv'
  <2>1. IInv /\ DebounceInv /\ UNCHANGED vars => DebounceInv'
    BY DEF vars, DebounceInv, Started, Ahead
  <2> QED
    BY <2>1, TickDebounce, CallDebounce, ProcessDebounce DEF Next
<1> QED
  BY <1>1, <1>2, ButtonInvariance, PTL DEF Spec

\* btn_process believes a press only after the elimination time of unbroken
\* active readings, for every tick range, also when the counter wraps.
THEOREM ButtonDebounced == Spec => Debounced
<1>1. IInv /\ DebounceInv /\ [Next]_vars =>
        [btn'.state = PRESS_DOWN /\ btn.state # PRESS_DOWN =>
           level /\ level' /\ steady >= ELIM_MIN]_vars
  <2> SUFFICES ASSUME IInv, DebounceInv, Next,
                      btn'.state = PRESS_DOWN, btn.state # PRESS_DOWN
      PROVE level /\ level' /\ steady >= ELIM_MIN
    OBVIOUS
  <2>0. btn \in AgileBtn
    BY DEF IInv, TypeOK
  <2>1. \E pin \in BOOLEAN : CheckPress(pin)
    <3> USE DEF NONE_PRESS, CHECK_PRESS, PRESS_DOWN, PRESS_HOLD, PRESS_UP
    <3>1. ~(Create \/ Reconfigure)
      <4>1. ~agile_btn_start
        BY FreshType DEF agile_btn_start, AgileBtn, IInv
      <4> QED
        BY <2>0, <4>1 DEF Create, Reconfigure, agile_btn_init, agile_btn_create,
           agile_btn_delete, agile_btn_stop, agile_btn_set_elimination_time,
           agile_btn_set_hold_cycle_time, agile_btn_set_event_cb, NewButton, AgileBtn
    <3>2. btn_process
      BY <3>1 DEF Next, Tick
    <3> QED
      BY <2>0, <3>2 DEF btn_process, EmptyPass, NonePress, PressDown, PressUp,
         PressHold, AgileBtn
  <2>2. PICK pin \in BOOLEAN : CheckPress(pin)
    BY <2>1
  <2>3. pin /\ Reached(btn.tick_timeout) /\ btn.state = CHECK_PRESS /\ listed > 0
    BY <2>0, <2>2
       DEF CheckPress, InState, AgileBtn, NONE_PRESS, PRESS_DOWN
  <2>4. /\ level
        /\ \/ steady >= ELIM_MIN
           \/ \E r \in 1 .. ELIM_MAX : steady + r >= ELIM_MIN /\ Ahead(r)
    BY <2>3 DEF IInv, ListedOnce, DebounceInv
  <2>5. level'
    BY <2>2, <2>3 DEF CheckPress, Read
  <2> QED
    BY <2>3, <2>4, <2>5, AheadNotReached DEF IInv
<1> QED
  BY <1>1, DebounceInvariance, ButtonInvariance, PTL DEF Spec, Debounced

----------------------------------------------------------------------------
(* Time.  In the states that wait for tick_timeout it is either so near     *)
(* that the clock of the readings stays within its bound, or overdue, and   *)
(* then since the last pass at the earliest.  HoldInv relates the hold      *)
(* times to the clock of the events: p is the tick at which the last of     *)
(* them was raised (the end of DOWN's callback), s the ticks since.         *)

Behind(l) == btn.tick_timeout \in {now - l, now - l + (TICK_MAX + 1)}

\* The timeout will be seen before the readings are older than limit and a gap.
Due(limit, late) ==
  \/ \E r \in 1 .. TICK_MAX : Ahead(r) /\ steady + r <= limit
  \/ \E l \in 0 .. late + gap : Behind(l) /\ steady < limit + gap

HeldAt(n) == IF n < btn.tick_timeout THEN TICK_MAX - btn.tick_timeout + n
                                     ELSE n - btn.tick_timeout

HoldInv ==
  \E p \in TickValue, s \in 0 .. since :
    /\ now \in {p + s, p + s - (TICK_MAX + 1)}
    /\ btn.prev_hold_time = HeldAt(p)
    /\ since <= s + CALLBACK
    /\ since <= CYCLE_MAX + CALLBACK + gap

Forgetting == INTERVAL + GAP + CALLBACK

StateInv ==
  /\ btn.state = NONE_PRESS => btn.repeat_cnt = 0 \/ Due(Forgetting, GAP)
  /\ btn.state = CHECK_PRESS => level /\ Due(ELIM_MAX, 0)
  /\ btn.state = PRESS_DOWN => level /\ steady < ELIM_MAX + GAP + gap
  /\ btn.state = PRESS_HOLD => level /\ HoldInv
  /\ btn.state = PRESS_UP => steady <= gap

TimeInv == (created => is_initialized) /\ (Started => StateInv)

\* The constants as the provers need them.
LEMMA Times ==
  /\ TICK_MAX \in Nat /\ INTERVAL \in Nat /\ GAP \in Nat /\ CALLBACK \in Nat
  /\ ELIM_MAX \in Nat /\ CYCLE_MAX \in Nat /\ CLOCK_MAX \in Nat
  /\ 0 < ELIM_MAX /\ ELIM_MAX <= INTERVAL
  /\ 2 * GAP < TICK_MAX /\ INTERVAL + CALLBACK <= TICK_MAX
  /\ CYCLE_MAX + CALLBACK + GAP < TICK_MAX /\ CYCLE_MAX + CALLBACK + GAP < CLOCK_MAX
  /\ Forgetting \in Nat
BY AgileButtonAssumption, TimeAssumption DEF Forgetting

\* The variables the bounds are about.
LEMMA TimeTypes ==
  ASSUME TypeOK
  PROVE  /\ now \in TickValue /\ now \in Int /\ gap \in 0 .. GAP
         /\ steady \in 0 .. CLOCK_MAX /\ since \in 0 .. CLOCK_MAX
         /\ btn.tick_timeout \in TickValue /\ btn.prev_hold_time \in TickValue
         /\ btn.elimination_time \in ELIM_MIN .. ELIM_MAX /\ ELIM_MIN \in Nat
         /\ btn.hold_cycle_time \in CYCLE_MIN .. CYCLE_MAX /\ CYCLE_MIN \in Nat
BY AgileButtonAssumption DEF TypeOK, AgileBtn, TickValue

\* A timeout overdue by less than two gaps is seen to be reached.
LEMMA BehindReached ==
  ASSUME TypeOK, NEW l \in 0 .. 2 * GAP, Behind(l)
  PROVE  Reached(btn.tick_timeout)
<1>1. now - btn.tick_timeout \in {l, l - (TICK_MAX + 1)}
  BY TimeTypes, Times DEF Behind, TickValue
<1>2. l = 0 => now - btn.tick_timeout = 0
  BY TimeTypes, Times DEF Behind, TickValue
<1>3. Wrap(now - btn.tick_timeout) = l
  BY <1>1, <1>2, WrapNegative, WrapOnce, Times
<1> QED
  BY <1>3, TimeAssumption, Times DEF Reached

\* A tick moves the clocks on by one.
LEMMA TickMoves ==
  ASSUME TypeOK, is_initialized, Tick
  PROVE  /\ now' = IF now < TICK_MAX THEN now + 1 ELSE 0
         /\ gap' = gap + 1 /\ gap < GAP
         /\ steady' \in 0 .. steady + 1
         /\ since' \in 0 .. CLOCK_MAX /\ (since < CLOCK_MAX => since' = since + 1)
         /\ UNCHANGED <<is_initialized, created, btn, level>>
<1>1. now' = IF now < TICK_MAX THEN now + 1 ELSE 0
  BY TimeTypes, WrapOnce, Times DEF Tick, TickValue
<1>2. steady' \in 0 .. steady + 1
  BY TimeTypes, Times DEF Tick, Later
<1>3. since' \in 0 .. CLOCK_MAX /\ (since < CLOCK_MAX => since' = since + 1)
  <2>1. since' = IF since + 1 < CLOCK_MAX THEN since + 1 ELSE CLOCK_MAX
    BY DEF Tick, Later
  <2>2. since \in 0 .. CLOCK_MAX /\ CLOCK_MAX \in Nat
    BY TimeTypes, Times
  <2> QED
    BY <2>1, <2>2
<1> QED
  BY <1>1, <1>2, <1>3, TimeTypes, Times DEF Tick

LEMMA TickDue ==
  ASSUME TypeOK, is_initialized, Tick, NEW limit \in Nat, NEW late \in 0 .. GAP,
         Due(limit, late)
  PROVE  Due(limit, late)'
<1>1. /\ now' = IF now < TICK_MAX THEN now + 1 ELSE 0
      /\ gap' = gap + 1 /\ gap < GAP /\ steady' \in 0 .. steady + 1
      /\ btn' = btn
  BY TickMoves
<1>2. ASSUME NEW r \in 1 .. TICK_MAX, Ahead(r), steady + r <= limit
      PROVE  Due(limit, late)'
  <2>1. CASE r = 1
    <3>1. Behind(0)'
      BY <2>1, <1>1, <1>2, TimeTypes, Times DEF Ahead, Behind, TickValue
    <3>2. steady' < limit + gap' /\ 0 \in 0 .. late + gap'
      BY <2>1, <1>1, <1>2, TimeTypes, Times
    <3> QED
      BY <3>1, <3>2 DEF Due
  <2>2. CASE r # 1
    <3>1. r - 1 \in 1 .. TICK_MAX /\ steady' + (r - 1) <= limit
      <4>1. PICK c \in Int : steady' = c
        BY <1>1, TimeTypes
      <4>2. steady \in Int /\ c <= steady + 1 /\ TICK_MAX \in Nat
        BY <1>1, <4>1, TimeTypes, Times
      <4> QED
        BY <4>1, <4>2, <2>2, <1>2
    <3>2. Ahead(r - 1)'
      BY <1>1, <1>2, TimeTypes, Times DEF Ahead, TickValue
    <3> QED
      BY <3>1, <3>2 DEF Due
  <2> QED
    BY <2>1, <2>2
<1>3. ASSUME NEW l \in 0 .. late + gap, Behind(l), steady < limit + gap
      PROVE  Due(limit, late)'
  <2>1. l + 1 \in 0 .. late + gap' /\ steady' < limit + gap'
    BY <1>1, <1>3, TimeTypes, Times
  <2>2. Behind(l + 1)'
    BY <1>1, <1>3, TimeTypes, Times DEF Behind, TickValue
  <2> QED
    BY <2>1, <2>2 DEF Due
<1> QED
  BY <1>2, <1>3 DEF Due

LEMMA TickTime == IInv /\ TimeInv /\ Tick => TimeInv'
<1> SUFFICES ASSUME IInv, TimeInv, Tick PROVE TimeInv'
  OBVIOUS
<1>1. TypeOK /\ btn' = btn /\ created' = created /\ is_initialized' = is_initialized
  BY DEF IInv, Tick
<1> SUFFICES ASSUME Started PROVE StateInv'
  BY <1>1 DEF TimeInv, Started
<1>2. is_initialized /\ StateInv
  BY DEF TimeInv, Started
<1>3. /\ now' = IF now < TICK_MAX THEN now + 1 ELSE 0
      /\ gap' = gap + 1 /\ gap < GAP /\ steady' \in 0 .. steady + 1
      /\ since' \in 0 .. CLOCK_MAX /\ (since < CLOCK_MAX => since' = since + 1)
      /\ level' = level
  BY <1>1, <1>2, TickMoves
<1>4. /\ Due(Forgetting, GAP) => Due(Forgetting, GAP)'
      /\ Due(ELIM_MAX, 0) => Due(ELIM_MAX, 0)'
  BY <1>1, <1>2, TickDue, Times
<1>5. HoldInv => HoldInv'
  <2> SUFFICES ASSUME NEW p \in TickValue, NEW s \in 0 .. since,
                      now \in {p + s, p + s - (TICK_MAX + 1)},
                      btn.prev_hold_time = HeldAt(p),
                      since <= s + CALLBACK, since <= CYCLE_MAX + CALLBACK + gap
               PROVE  HoldInv'
    BY DEF HoldInv
  <2>1. since' = since + 1 /\ s + 1 \in 0 .. since'
    BY <1>1, <1>3, TimeTypes, Times
  <2>2. since' <= (s + 1) + CALLBACK /\ since' <= CYCLE_MAX + CALLBACK + gap'
    BY <2>1, <1>1, <1>3, TimeTypes, Times
  <2>3. s < TICK_MAX
    BY <1>1, <1>3, TimeTypes, Times
  <2>4. now' \in {p + (s + 1), p + (s + 1) - (TICK_MAX + 1)}
    BY <2>3, <1>1, <1>3, TimeTypes, Times DEF TickValue
  <2>5. btn'.prev_hold_time = HeldAt(p)'
    BY <1>1 DEF HeldAt
  <2> QED
    BY <2>1, <2>2, <2>4, <2>5 DEF HoldInv
<1>6. steady < ELIM_MAX + GAP + gap => steady' < ELIM_MAX + GAP + gap'
  BY <1>1, <1>3, TimeTypes, Times
<1>7. steady <= gap => steady' <= gap'
  BY <1>1, <1>3, TimeTypes, Times
<1> QED
  BY <1>1, <1>2, <1>3, <1>4, <1>5, <1>6, <1>7 DEF StateInv

LEMMA CallTime == IInv /\ TimeInv /\ (Create \/ Reconfigure) => TimeInv'
<1> SUFFICES ASSUME IInv, TimeInv, Create \/ Reconfigure PROVE TimeInv'
  OBVIOUS
<1>0. btn \in AgileBtn
  BY DEF IInv, TypeOK
<1>1. CASE agile_btn_init
  BY <1>1 DEF agile_btn_init, TimeInv, Started
<1>2. CASE agile_btn_create \/ agile_btn_delete
  BY <1>2 DEF agile_btn_create, agile_btn_delete, NewButton, Silent, Started, TimeInv
<1>3. CASE agile_btn_stop
  <2>1. ~btn'.active
    BY <1>0, <1>3 DEF agile_btn_stop, AgileBtn
  <2> QED
    BY <1>3, <2>1 DEF agile_btn_stop, Silent, Started, TimeInv
<1>4. CASE agile_btn_start
  <2>1. btn'.state = NONE_PRESS /\ btn'.repeat_cnt = 0
    BY <1>4, FreshType DEF agile_btn_start, AgileBtn, IInv
  <2>2. created /\ created' = created /\ is_initialized' = is_initialized
    BY <1>4 DEF agile_btn_start, Silent
  <2> QED
    BY <2>1, <2>2
       DEF TimeInv, StateInv, NONE_PRESS, CHECK_PRESS, PRESS_DOWN, PRESS_HOLD, PRESS_UP
<1>5. ASSUME \/ \E ms \in ELIM_MIN .. ELIM_MAX : agile_btn_set_elimination_time(ms)
             \/ \E ms \in CYCLE_MIN .. CYCLE_MAX : agile_btn_set_hold_cycle_time(ms)
             \/ \E event \in CallbackEvent : agile_btn_set_event_cb(event)
      PROVE TimeInv'
  <2>1. /\ btn'.state = btn.state /\ btn'.active = btn.active
        /\ btn'.tick_timeout = btn.tick_timeout /\ btn'.repeat_cnt = btn.repeat_cnt
        /\ btn'.prev_hold_time = btn.prev_hold_time
    BY <1>0, <1>5 DEF agile_btn_set_elimination_time,
       agile_btn_set_hold_cycle_time, agile_btn_set_event_cb, AgileBtn
  <2>2. UNCHANGED <<is_initialized, created, now, gap, level, steady, since>>
    BY <1>5 DEF agile_btn_set_elimination_time,
       agile_btn_set_hold_cycle_time, agile_btn_set_event_cb, Silent, Unread
  <2>3. Started' = Started
    BY <2>1, <2>2 DEF Started
  <2>4. /\ Due(Forgetting, GAP)' = Due(Forgetting, GAP)
        /\ Due(ELIM_MAX, 0)' = Due(ELIM_MAX, 0)
    BY <2>1, <2>2 DEF Due, Ahead, Behind
  <2>5. HoldInv' = HoldInv
    BY <2>1, <2>2 DEF HoldInv, HeldAt
  <2> QED
    BY <2>1, <2>2, <2>3, <2>4, <2>5 DEF TimeInv, StateInv
<1> QED
  BY <1>1, <1>2, <1>3, <1>4, <1>5 DEF Create, Reconfigure

\* Hold times taken s ticks apart differ by s, or by one more or less.
LEMMA HoldTimes ==
  ASSUME TypeOK, NEW p \in TickValue, NEW s \in 0 .. TICK_MAX - 1,
         now \in {p + s, p + s - (TICK_MAX + 1)}
  PROVE  Wrap(HeldAt(now) - HeldAt(p)) \in {s - 1, s, s + 1}
<1> DEFINE diff == HeldAt(now) - HeldAt(p)
<1>1. /\ now \in 0 .. TICK_MAX /\ p \in 0 .. TICK_MAX
      /\ btn.tick_timeout \in 0 .. TICK_MAX /\ TICK_MAX \in Nat
  BY TimeTypes, Times DEF TickValue
<1>2. \/ diff \in {s, s - 1} /\ diff \in 0 .. TICK_MAX
      \/ diff \in {s - TICK_MAX, s - (TICK_MAX + 1)} /\ diff \in -TICK_MAX .. -1
  BY <1>1 DEF HeldAt
<1> HIDE DEF diff
<1>3. CASE diff \in {s, s - 1} /\ diff \in 0 .. TICK_MAX
  <2>1. Wrap(diff) = diff
    BY <1>3, WrapOnce, Times
  <2> QED
    BY <1>3, <2>1 DEF diff
<1>4. CASE diff \in {s - TICK_MAX, s - (TICK_MAX + 1)} /\ diff \in -TICK_MAX .. -1
  <2>1. Wrap(diff) = diff + TICK_MAX + 1
    BY <1>4, WrapNegative
  <2>2. diff + TICK_MAX + 1 \in {s, s + 1}
    BY <1>4, Times
  <2> QED
    BY <2>1, <2>2 DEF diff
<1> QED
  BY <1>2, <1>3, <1>4

LEMMA NonePressTime ==
  ASSUME IInv, TimeInv, DebounceInv, NEW pin \in BOOLEAN, NonePress(pin)
  PROVE  TimeInv'
<1>0. TypeOK /\ btn \in AgileBtn /\ btn.state = NONE_PRESS
  BY DEF IInv, TypeOK, NonePress, InState
<1>1. /\ Started /\ StateInv /\ is_initialized /\ ~level
      /\ is_initialized' = is_initialized /\ created' = created /\ gap' = 0
  BY <1>0 DEF NonePress, InState, Pass, IInv, ListedOnce, TimeInv, DebounceInv
<1>2. now' = now
  BY <1>0, TimeTypes, WrapOnce, Times DEF NonePress, Pass, TickValue
<1>3. level' = pin /\ steady' = IF pin = level THEN steady ELSE 0
  BY DEF NonePress, Read
<1> USE DEF NONE_PRESS, CHECK_PRESS, PRESS_DOWN, PRESS_HOLD, PRESS_UP
<1>4. CASE pin
  <2>1. btn'.state = CHECK_PRESS /\ btn'.tick_timeout = Wrap(now + btn.elimination_time)
    BY <1>0, <1>4 DEF NonePress, AgileBtn
  <2>2. level' /\ steady' = 0
    BY <1>1, <1>3, <1>4
  <2>3. Due(ELIM_MAX, 0)'
    <3>1. btn.elimination_time \in 0 .. ELIM_MAX /\ now \in 0 .. TICK_MAX
      BY <1>0, TimeTypes, Times DEF TickValue
    <3>2. CASE btn.elimination_time = 0
      <4>1. btn'.tick_timeout = now
        BY <3>1, <3>2, <2>1, WrapOnce, Times
      <4>2. Behind(0)'
        BY <4>1, <3>1, <1>2 DEF Behind
      <4>3. 0 \in 0 .. 0 + gap' /\ steady' < ELIM_MAX + gap'
        BY <1>1, <2>2, Times
      <4> QED
        BY <4>2, <4>3 DEF Due
    <3>3. CASE btn.elimination_time # 0
      <4>1. btn.elimination_time \in 1 .. TICK_MAX
            /\ steady' + btn.elimination_time <= ELIM_MAX
        BY <3>1, <3>3, <2>2, Times
      <4>2. btn'.tick_timeout \in {now' + btn.elimination_time,
                                   now' + btn.elimination_time - (TICK_MAX + 1)}
        BY <1>0, <1>2, <2>1, ArmedAhead
      <4> QED
        BY <4>1, <4>2 DEF Due, Ahead
    <3> QED
      BY <3>2, <3>3
  <2> QED
    BY <1>1, <2>1, <2>2, <2>3 DEF TimeInv, StateInv
<1>5. CASE ~pin
  <2>1. /\ btn'.state = NONE_PRESS /\ btn'.tick_timeout = btn.tick_timeout
        /\ btn'.repeat_cnt = IF Reached(btn.tick_timeout) THEN 0 ELSE btn.repeat_cnt
    BY <1>0, <1>5 DEF NonePress, AgileBtn
  <2>2. steady' = steady
    <3>1. level = FALSE /\ pin = FALSE
      BY <1>0, <1>1, <1>5 DEF TypeOK
    <3> QED
      BY <1>3, <3>1
  <2>3. ASSUME btn'.repeat_cnt # 0 PROVE Due(Forgetting, GAP)'
    <3>1. ~Reached(btn.tick_timeout) /\ Due(Forgetting, GAP)
      BY <2>1, <2>3, <1>0, <1>1 DEF StateInv
    <3>2. \A l \in 0 .. GAP + gap : ~Behind(l)
      BY <3>1, <1>0, BehindReached, TimeTypes, Times
    <3>3. PICK r \in 1 .. TICK_MAX : Ahead(r) /\ steady + r <= Forgetting
      BY <3>1, <3>2 DEF Due
    <3>4. Ahead(r)' /\ steady' + r <= Forgetting
      BY <3>3, <2>1, <2>2, <1>2 DEF Ahead
    <3> QED
      BY <3>4 DEF Due
  <2> QED
    BY <1>1, <2>1, <2>3 DEF TimeInv, StateInv
<1> QED
  BY <1>4, <1>5

LEMMA CheckPressTime ==
  ASSUME IInv, TimeInv, NEW pin \in BOOLEAN, CheckPress(pin)
  PROVE  TimeInv'
<1>0. TypeOK /\ btn \in AgileBtn /\ btn.state = CHECK_PRESS
  BY DEF IInv, TypeOK, CheckPress, InState
<1>1. /\ Started /\ StateInv /\ is_initialized
      /\ is_initialized' = is_initialized /\ created' = created /\ gap' = 0
  BY <1>0 DEF CheckPress, InState, Pass, IInv, ListedOnce, TimeInv
<1>2. now' = now
  BY <1>0, TimeTypes, WrapOnce, Times DEF CheckPress, Pass, TickValue
<1>3. level' = pin /\ steady' = IF pin = level THEN steady ELSE 0
  BY DEF CheckPress, Read
<1> USE DEF NONE_PRESS, CHECK_PRESS, PRESS_DOWN, PRESS_HOLD, PRESS_UP
<1>4. level /\ Due(ELIM_MAX, 0)
  BY <1>0, <1>1 DEF StateInv
<1>5. btn'.tick_timeout = btn.tick_timeout
  BY <1>0 DEF CheckPress, AgileBtn
<1>6. CASE ~pin
  <2>1. btn'.state = NONE_PRESS /\ steady' = 0
    BY <1>0, <1>3, <1>4, <1>6 DEF CheckPress, AgileBtn
  <2>2. Due(Forgetting, GAP)'
    <3>1. ASSUME NEW r \in 1 .. TICK_MAX, Ahead(r), steady + r <= ELIM_MAX
          PROVE  Due(Forgetting, GAP)'
      <4>1. steady' + r <= Forgetting
        BY <3>1, <2>1, <1>0, TimeTypes, Times DEF Forgetting
      <4>2. Ahead(r)'
        BY <3>1, <1>2, <1>5 DEF Ahead
      <4> QED
        BY <4>1, <4>2 DEF Due
    <3>2. ASSUME NEW l \in 0 .. 0 + gap, Behind(l)
          PROVE  Due(Forgetting, GAP)'
      <4>1. l \in 0 .. GAP + gap' /\ steady' < Forgetting + gap'
        BY <2>1, <1>0, <1>1, TimeTypes, Times DEF Forgetting
      <4>2. Behind(l)'
        BY <3>2, <1>2, <1>5 DEF Behind
      <4> QED
        BY <4>1, <4>2 DEF Due
    <3> QED
      BY <3>1, <3>2, <1>4 DEF Due
  <2> QED
    BY <1>1, <2>1, <2>2 DEF TimeInv, StateInv
<1>7. CASE pin /\ Reached(btn.tick_timeout)
  <2>1. btn'.state = PRESS_DOWN /\ level' /\ steady' = steady
    BY <1>0, <1>3, <1>4, <1>7 DEF CheckPress, AgileBtn
  <2>2. steady < ELIM_MAX + GAP
    BY <1>0, <1>4, TimeTypes, Times DEF Due
  <2>3. steady' < ELIM_MAX + GAP + gap'
    BY <1>1, <2>1, <2>2, Times
  <2> QED
    BY <1>1, <2>1, <2>3 DEF TimeInv, StateInv
<1>8. CASE pin /\ ~Reached(btn.tick_timeout)
  <2>1. btn'.state = CHECK_PRESS /\ level' /\ steady' = steady
    BY <1>0, <1>3, <1>4, <1>8 DEF CheckPress, AgileBtn
  <2>2. \A l \in 0 .. 0 + gap : ~Behind(l)
    BY <1>8, <1>0, BehindReached, TimeTypes, Times
  <2>3. PICK r \in 1 .. TICK_MAX : Ahead(r) /\ steady + r <= ELIM_MAX
    BY <1>4, <2>2 DEF Due
  <2>4. Ahead(r)' /\ steady' + r <= ELIM_MAX
    BY <2>3, <2>1, <1>2, <1>5 DEF Ahead
  <2>5. Due(ELIM_MAX, 0)'
    BY <2>4 DEF Due
  <2> QED
    BY <1>1, <2>1, <2>5 DEF TimeInv, StateInv
<1> QED
  BY <1>6, <1>7, <1>8

LEMMA PressDownTime ==
  ASSUME IInv, TimeInv, NEW d \in 0 .. CALLBACK, PressDown(d)
  PROVE  TimeInv'
<1>0. TypeOK /\ btn \in AgileBtn /\ btn.state = PRESS_DOWN
  BY DEF IInv, TypeOK, PressDown, InState
<1>1. /\ Started /\ StateInv /\ is_initialized
      /\ is_initialized' = is_initialized /\ created' = created /\ gap' = 0
      /\ level' = level /\ now' = Wrap(now + d) /\ since' = Later(0, d)
  BY <1>0 DEF PressDown, InState, Pass, Raise, IInv, ListedOnce, TimeInv
<1> USE DEF NONE_PRESS, CHECK_PRESS, PRESS_DOWN, PRESS_HOLD, PRESS_UP
<1>2. level'
  BY <1>0, <1>1 DEF StateInv
<1>3. /\ btn'.state = PRESS_HOLD /\ btn'.prev_hold_time = 0
      /\ btn'.tick_timeout = now'
  BY <1>0, <1>1 DEF PressDown, AgileBtn
<1>4. now' \in TickValue
  BY <1>0, <1>1, TimeTypes, WrapType, Times
<1>5. since' = d
  BY <1>1, Times DEF Later
<1>6. HoldInv'
  <2>1. PICK p \in TickValue : now' = p
    BY <1>4
  <2>2. p \in {p + 0, p + 0 - (TICK_MAX + 1)} /\ p - p = 0
    BY Times DEF TickValue
  <2>3. 0 \in 0 .. since' /\ since' <= 0 + CALLBACK
        /\ since' <= CYCLE_MAX + CALLBACK + gap'
    BY <1>1, <1>5, Times
  <2>4. HeldAt(p)' = 0
    BY <1>3, <2>1, <2>2, Times DEF HeldAt, TickValue
  <2> QED
    BY <1>3, <2>1, <2>2, <2>3, <2>4 DEF HoldInv
<1> QED
  BY <1>1, <1>2, <1>3, <1>6 DEF TimeInv, StateInv

LEMMA PressUpTime ==
  ASSUME IInv, TimeInv, NEW d \in 0 .. CALLBACK, PressUp(d)
  PROVE  TimeInv'
<1>0. TypeOK /\ btn \in AgileBtn /\ btn.state = PRESS_UP
  BY DEF IInv, TypeOK, PressUp, InState
<1>1. /\ Started /\ StateInv /\ is_initialized
      /\ is_initialized' = is_initialized /\ created' = created /\ gap' = 0
      /\ now' = Wrap(now + d) /\ steady' = Later(steady, d)
  BY <1>0 DEF PressUp, InState, Pass, IInv, ListedOnce, TimeInv
<1> USE DEF NONE_PRESS, CHECK_PRESS, PRESS_DOWN, PRESS_HOLD, PRESS_UP
<1>2. steady <= gap
  BY <1>0, <1>1 DEF StateInv
<1>3. btn'.state = NONE_PRESS /\ btn'.tick_timeout = Wrap(now + d + INTERVAL)
  BY <1>0 DEF PressUp, AgileBtn
<1>4. steady' + INTERVAL <= Forgetting
  <2>1. PICK c \in Int : steady' = c /\ c <= GAP + CALLBACK
    BY <1>0, <1>1, <1>2, TimeTypes, Times DEF Later
  <2> QED
    BY <2>1, Times DEF Forgetting
<1>5. Ahead(INTERVAL)'
  <2>1. now \in 0 .. TICK_MAX
    BY <1>0, TimeTypes DEF TickValue
  <2>2. now' = IF now + d <= TICK_MAX THEN now + d ELSE now + d - (TICK_MAX + 1)
    BY <1>1, <2>1, WrapOnce, Times
  <2>3. btn'.tick_timeout = IF now + d + INTERVAL <= TICK_MAX THEN now + d + INTERVAL
                            ELSE now + d + INTERVAL - (TICK_MAX + 1)
    BY <1>3, <2>1, WrapOnce, Times
  <2> QED
    BY <2>1, <2>2, <2>3, Times DEF Ahead
<1>6. INTERVAL \in 1 .. TICK_MAX
  BY Times
<1>7. Due(Forgetting, GAP)'
  BY <1>4, <1>5, <1>6 DEF Due
<1> QED
  BY <1>1, <1>3, <1>7 DEF TimeInv, StateInv

LEMMA PressHoldTime ==
  ASSUME IInv, TimeInv, NEW pin \in BOOLEAN, NEW d \in 0 .. CALLBACK, PressHold(pin, d)
  PROVE  TimeInv'
<1>0. TypeOK /\ btn \in AgileBtn /\ btn.state = PRESS_HOLD
  BY DEF IInv, TypeOK, PressHold, InState
<1>1. /\ Started /\ StateInv /\ is_initialized
      /\ is_initialized' = is_initialized /\ created' = created /\ gap' = 0
      /\ level' = pin /\ now' = Wrap(now + d)
      /\ steady' = Later(IF pin = level THEN steady ELSE 0, d)
  BY <1>0 DEF PressHold, InState, Pass, IInv, ListedOnce, TimeInv
<1> USE DEF NONE_PRESS, CHECK_PRESS, PRESS_DOWN, PRESS_HOLD, PRESS_UP
<1>2. level /\ HoldInv
  BY <1>0, <1>1 DEF StateInv
<1>3. CASE ~pin
  <2>1. btn'.state = PRESS_UP /\ d = 0
    BY <1>0, <1>3 DEF PressHold, AgileBtn
  <2>2. steady' = 0
    <3>1. pin # level
      BY <1>2, <1>3
    <3>2. steady' = Later(0, 0)
      BY <1>1, <2>1, <3>1
    <3> QED
      BY <3>2, Times DEF Later
  <2> QED
    BY <1>1, <2>1, <2>2 DEF TimeInv, StateInv
<1>4. CASE pin /\ HoldDue
  <2>1. /\ btn'.state = PRESS_HOLD /\ btn'.tick_timeout = btn.tick_timeout
        /\ btn'.prev_hold_time = agile_btn_cal_hold_time
    BY <1>0, <1>4 DEF PressHold, AgileBtn
  <2>2. since' = d
    BY <1>4, Times DEF PressHold, Raise, Later
  <2>3. now' \in {now + d, now + d - (TICK_MAX + 1)}
    BY <1>0, <1>1, TimeTypes, WrapOnce, Times DEF TickValue
  <2>4. btn'.prev_hold_time = (IF now < btn'.tick_timeout
                                 THEN TICK_MAX - btn'.tick_timeout + now
                                 ELSE now - btn'.tick_timeout)
    BY <2>1 DEF agile_btn_cal_hold_time
  <2>5. /\ now \in TickValue /\ d \in 0 .. since' /\ since' <= d + CALLBACK
        /\ since' <= CYCLE_MAX + CALLBACK + gap'
    BY <1>0, <1>1, <2>2, TimeTypes, Times
  <2>6. HoldInv'
    <3>1. PICK p \in TickValue : p = now
      BY <2>5
    <3>2. /\ now' \in {p + d, p + d - (TICK_MAX + 1)}
          /\ btn'.prev_hold_time = (IF p < btn'.tick_timeout
                                       THEN TICK_MAX - btn'.tick_timeout + p
                                       ELSE p - btn'.tick_timeout)
      BY <2>3, <2>4, <3>1
    <3> QED
      BY <2>5, <3>2 DEF HoldInv, HeldAt
  <2> QED
    BY <1>1, <1>4, <2>1, <2>6 DEF TimeInv, StateInv
<1>5. CASE pin /\ ~HoldDue
  <2>1. /\ btn'.state = PRESS_HOLD /\ btn'.tick_timeout = btn.tick_timeout
        /\ btn'.prev_hold_time = btn.prev_hold_time
    BY <1>0, <1>5 DEF PressHold, AgileBtn
  <2>2. since' = since /\ d = 0
    BY <1>5 DEF PressHold, NothingRaised
  <2>3. now' = now
    BY <1>0, <1>1, <2>2, TimeTypes, WrapOnce, Times DEF TickValue
  <2>4. PICK p \in TickValue, s \in 0 .. since :
          /\ now \in {p + s, p + s - (TICK_MAX + 1)}
          /\ btn.prev_hold_time = HeldAt(p)
          /\ since <= s + CALLBACK
          /\ since <= CYCLE_MAX + CALLBACK + gap
    BY <1>2 DEF HoldInv
  <2>5. s <= CYCLE_MAX
    <3>1. s \in 0 .. TICK_MAX - 1
      BY <2>4, <1>0, TimeTypes, Times
    <3>2. Wrap(HeldAt(now) - HeldAt(p)) \in {s - 1, s, s + 1}
      BY <1>0, <2>4, <3>1, HoldTimes
    <3>3. ~(Wrap(HeldAt(now) - HeldAt(p)) >= btn.hold_cycle_time)
      BY <1>5, <2>4 DEF HoldDue, agile_btn_cal_hold_time, HeldAt
    <3> QED
      BY <3>1, <3>2, <3>3, <1>0, TimeTypes, Times
  <2>6. since' <= s + CALLBACK /\ since' <= CYCLE_MAX + CALLBACK + gap' /\ s \in 0 .. since'
    BY <2>2, <2>4, <2>5, <1>0, <1>1, TimeTypes, Times
  <2>7. HoldInv'
    BY <2>1, <2>3, <2>4, <2>6 DEF HoldInv, HeldAt
  <2> QED
    BY <1>1, <1>5, <2>1, <2>7 DEF TimeInv, StateInv
<1> QED
  BY <1>3, <1>4, <1>5

LEMMA ProcessTime == IInv /\ TimeInv /\ DebounceInv /\ btn_process => TimeInv'
<1> SUFFICES ASSUME IInv, TimeInv, DebounceInv, btn_process PROVE TimeInv'
  OBVIOUS
<1>1. CASE EmptyPass
  <2>1. ~Started /\ UNCHANGED <<created, btn, is_initialized>>
    BY <1>1 DEF EmptyPass, Pass, IInv, ListedOnce
  <2> QED
    BY <2>1 DEF TimeInv, Started
<1> QED
  BY <1>1, NonePressTime, CheckPressTime, PressDownTime, PressUpTime, PressHoldTime
     DEF btn_process

LEMMA TimeInvariance == Spec => []TimeInv
<1>1. Init => TimeInv
  BY DEF Init, TimeInv, Started
<1>2. IInv /\ DebounceInv /\ TimeInv /\ [Next]_vars => TimeInv'
  <2>1. IInv /\ TimeInv /\ UNCHANGED vars => TimeInv'
    BY DEF vars, TimeInv, StateInv, Started, Due, Ahead, Behind, HoldInv, HeldAt
  <2> QED
    BY <2>1, TickTime, CallTime, ProcessTime DEF Next
<1> QED
  BY <1>1, <1>2, ButtonInvariance, DebounceInvariance, PTL DEF Spec

\* btn_process reports a press: a pin that reads active for the elimination time
\* and two more passes, also across a wrap of the counter, is in PRESS_HOLD.
THEOREM ButtonPressReported == Spec => []PressReported
<1>1. IInv /\ DebounceInv /\ TimeInv => PressReported
  <2> SUFFICES ASSUME IInv, DebounceInv, TimeInv, Started, level,
                      steady >= ELIM_MAX + 2 * GAP
               PROVE  btn.state = PRESS_HOLD
    BY DEF PressReported
  <2>1. TypeOK /\ StateInv /\ btn.state \in State
    BY DEF IInv, TypeOK, AgileBtn, TimeInv
  <2>2. btn.state \notin {NONE_PRESS, PRESS_UP}
    BY DEF DebounceInv
  <2>3. btn.state # CHECK_PRESS
    <3>1. ~Due(ELIM_MAX, 0)
      BY <2>1, TimeTypes, Times DEF Due
    <3> QED
      BY <3>1, <2>1 DEF StateInv
  <2>4. btn.state # PRESS_DOWN
    BY <2>1, TimeTypes, Times DEF StateInv
  <2> QED
    BY <2>1, <2>2, <2>3, <2>4 DEF State
<1> QED
  BY <1>1, ButtonInvariance, DebounceInvariance, TimeInvariance, PTL

\* BTN_STATE_NONE_PRESS forgets a series of presses: a button that reads inactive
\* for the interval and the delays of two passes and a callback counts from 0.
THEOREM ButtonRepeatForgotten == Spec => []RepeatForgotten
<1>1. IInv /\ TimeInv => RepeatForgotten
  <2> SUFFICES ASSUME IInv, TimeInv, Started, ~level,
                      steady >= INTERVAL + 2 * GAP + CALLBACK
               PROVE  btn.repeat_cnt = 0
    BY DEF RepeatForgotten
  <2>1. TypeOK /\ StateInv /\ btn.state \in State
    BY DEF IInv, TypeOK, AgileBtn, TimeInv
  <2>2. btn.state \in {NONE_PRESS, PRESS_UP}
    BY <2>1 DEF StateInv, State
  <2>3. btn.state # PRESS_UP
    BY <2>1, TimeTypes, Times DEF StateInv
  <2>4. ~Due(Forgetting, GAP)
    BY <2>1, TimeTypes, Times DEF Due, Forgetting
  <2> QED
    BY <2>1, <2>2, <2>3, <2>4 DEF StateInv
<1> QED
  BY <1>1, ButtonInvariance, TimeInvariance, PTL

\* BTN_STATE_PRESS_HOLD: HOLD events are at most a tick early, where
\* agile_btn_cal_hold_time loses or gains the one at the wrap, and never later
\* than a cycle, a callback and a pass.
THEOREM ButtonHoldPeriod == Spec => HoldPeriod
<1> DEFINE Period == /\ raised' = <<HOLD>> => since + 1 >= CYCLE_MIN
                     /\ Pressed /\ Started /\ level =>
                          since <= CYCLE_MAX + CALLBACK + GAP
<1>1. ASSUME IInv, DebounceInv, TimeInv, Pressed, Started, level
      PROVE  since <= CYCLE_MAX + CALLBACK + GAP
  <2>1. btn.state = PRESS_HOLD /\ StateInv
    BY <1>1 DEF Pressed, DebounceInv, TimeInv
  <2>2. since <= CYCLE_MAX + CALLBACK + gap
    BY <2>1 DEF StateInv, HoldInv
  <2> QED
    BY <2>2, <1>1, TimeTypes, Times DEF IInv
<1>2. ASSUME IInv, TimeInv, Next, raised' = <<HOLD>>
      PROVE  since + 1 >= CYCLE_MIN
  <2>1. \E pin \in BOOLEAN, d \in 0 .. CALLBACK : PressHold(pin, d)
    <3>1. ~(Create \/ Reconfigure \/ Tick)
      BY <1>2 DEF Create, Reconfigure, Tick, agile_btn_init, agile_btn_create,
         agile_btn_start, agile_btn_set_event_cb, agile_btn_delete, agile_btn_stop,
         agile_btn_set_elimination_time, agile_btn_set_hold_cycle_time, Silent
    <3>2. <<HOLD>> # <<DOWN>> /\ <<HOLD>> # <<UP, CLICK>> /\ <<HOLD>> # << >>
      BY DEF HOLD, DOWN, Events!HOLD, Events!DOWN
    <3> QED
      BY <1>2, <3>1, <3>2 DEF Next, btn_process, EmptyPass, NonePress, CheckPress,
         PressDown, PressUp, NothingRaised, Raise
  <2>2. PICK pin \in BOOLEAN, d \in 0 .. CALLBACK : PressHold(pin, d)
    BY <2>1
  <2>3. HoldDue /\ listed > 0 /\ btn.state = PRESS_HOLD
    BY <1>2, <2>2 DEF PressHold, InState, NothingRaised
  <2>4. HoldInv /\ TypeOK
    BY <1>2, <2>3 DEF IInv, ListedOnce, TimeInv, StateInv
  <2>5. PICK p \in TickValue, s \in 0 .. since :
          /\ now \in {p + s, p + s - (TICK_MAX + 1)}
          /\ btn.prev_hold_time = HeldAt(p)
          /\ since <= CYCLE_MAX + CALLBACK + gap
    BY <2>4 DEF HoldInv
  <2>6. s \in 0 .. TICK_MAX - 1
    BY <2>4, <2>5, TimeTypes, Times
  <2>7. Wrap(HeldAt(now) - HeldAt(p)) \in {s - 1, s, s + 1}
    BY <2>4, <2>5, <2>6, HoldTimes
  <2>8. Wrap(HeldAt(now) - HeldAt(p)) >= btn.hold_cycle_time
    BY <2>3, <2>5 DEF HoldDue, agile_btn_cal_hold_time, HeldAt
  <2> QED
    BY <2>4, <2>6, <2>7, <2>8, TimeTypes, Times
<1>3. IInv /\ DebounceInv /\ TimeInv /\ [Next]_vars => [Period]_vars
  BY <1>1, <1>2
<1> QED
  BY <1>3, ButtonInvariance, DebounceInvariance, TimeInvariance, PTL DEF Spec, HoldPeriod
=============================================================================
