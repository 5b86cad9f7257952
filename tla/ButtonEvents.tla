---------------------------- MODULE ButtonEvents ----------------------------
(***************************************************************************)
(* What agile_button promises a callback: the events of one button come as  *)
(* DOWN, any number of HOLDs, then UP with CLICK; the repeat count advances *)
(* once per press, with DOWN, and is forgotten only between presses, so the *)
(* click callback dispatches on the count its own press was given.          *)
(* AgileButton implements it.                                               *)
(***************************************************************************)
EXTENDS Integers, Sequences

CONSTANT REPEAT_MAX   \* the largest value of the uint8_t repeat_cnt

VARIABLES
  pressed,   \* DOWN was raised and UP was not
  count,     \* presses of the current series
  raised     \* the events raised in the last step, in order

events == <<pressed, count, raised>>

DOWN == "BTN_PRESS_DOWN_EVENT"
HOLD == "BTN_HOLD_EVENT"
UP == "BTN_PRESS_UP_EVENT"
CLICK == "BTN_CLICK_EVENT"

Init ==
  /\ pressed = FALSE
  /\ count = 0
  /\ raised = << >>

Press ==
  /\ ~pressed
  /\ pressed' = TRUE
  /\ count' = (count + 1) % (REPEAT_MAX + 1)
  /\ raised' = <<DOWN>>

Hold ==
  /\ pressed
  /\ raised' = <<HOLD>>
  /\ UNCHANGED <<pressed, count>>

Release ==
  /\ pressed
  /\ pressed' = FALSE
  /\ raised' = <<UP, CLICK>>
  /\ UNCHANGED count

\* The series of presses is over.
Forget ==
  /\ ~pressed
  /\ count' = 0
  /\ raised' = << >>
  /\ UNCHANGED pressed

\* The button is created or started anew.
Reset ==
  /\ pressed' = FALSE
  /\ count' = 0
  /\ raised' = << >>

Silent ==
  /\ raised' = << >>
  /\ UNCHANGED <<pressed, count>>

Next == Press \/ Hold \/ Release \/ Forget \/ Reset \/ Silent

Spec == Init /\ [][Next]_events
=============================================================================
