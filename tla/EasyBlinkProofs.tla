-------------------------- MODULE EasyBlinkProofs --------------------------
(***************************************************************************)
(* Proofs about the blink daemon, for any number of slots, all patterns and *)
(* times, with and without the lock and for every mix of calls.  Inv        *)
(* strengthens CorrectionPending and DaemonServesSlots to an inductive      *)
(* invariant; BackupInv is what the lock adds.  FlashInv adds a clock to    *)
(* each slot, for the calls this project makes.  WakeInv relates the time   *)
(* the daemon sleeps to the slots it has looked at.                         *)
(***************************************************************************)
EXTENDS EasyBlink, TLAPS

\* The daemon waits only for a positive time.
WaitInv ==
  /\ pc = "enter" => wait >= 0
  /\ pc = "take" => wait > 0
  /\ pc = "sleep" => left > 0

\* Where the daemon is between a load and a store of a slot's flags.
Loaded == pc \in {"correct", "on_store", "off_store", "end_store"}

\* Only a slot in use is blinking, in the slot and in what the daemon loaded of
\* it; while any is in use the daemon exists.
ActiveInv ==
  /\ \A l \in Slot : "ACTIVE" \in led[l].flag => "INIT" \in led[l].flag
  /\ Loaded /\ "ACTIVE" \in reg.flag => "INIT" \in reg.flag
  /\ DaemonServesSlots

\* How far main.c:64-67 has come.
BootInv ==
  /\ boot > 0 => pc \in {"none", "begin"}
  /\ boot = 4 => \A l \in Slot : "INIT" \notin led[l].flag
  /\ boot \in {2, 3} => \A l \in Slot : "INIT" \in led[l].flag <=> l = 1
  /\ boot = 1 => \A l \in Slot : "INIT" \in led[l].flag <=> l \in {1, 2}

\* What the daemon loaded may be older than a request, but only if the request
\* has left a count in the semaphore.
RegInv ==
  /\ pc \in {"on_store", "off_store", "end_store"} /\ {"ACTIVE", "CORRECT"} \subseteq reg.flag
       => sem > 0
  /\ pc = "correct" /\ {"ACTIVE", "CORRECT"} \subseteq led[i].flag
       => "CORRECT" \in reg.flag \/ sem > 0

Inv == TypeOK /\ WaitInv /\ ActiveInv /\ BootInv /\ RegInv /\ CorrectionPending

\* With the lock, and with no calls but easyblink, nothing the daemon loaded is
\* old, and a backup is a pattern.
Locked == MUTEX = TRUE /\ PROGRAMS \subseteq SUBSET {"burst", "endless"}

BackupInv ==
  /\ Loaded => reg.flag = led[i].flag
  /\ \A l \in Slot : led[l].bak = NoPattern \/ led[l].bak.pulse > 0
  /\ \A l \in Slot : led[l].pat.nums = -1 =>
       led[l].pat.pulse > 0 \/ (pc = "restore_times" /\ i = l)
  /\ pc \in {"restore", "restore_times"} => led[i].bak.pulse > 0
  /\ pc \in {"end_load", "end_store"} => led[i].bak = NoPattern

----------------------------------------------------------------------------
(* Facts about one slot.                                                    *)

\* A slot with a new flag, new ticks or a new pattern is a slot.
LEMMA SlotTypes ==
  ASSUME led \in [Slot -> LedType], NEW l \in Slot
  PROVE  /\ \A f \in SUBSET Flag : [led EXCEPT ![l].flag = f] \in [Slot -> LedType]
         /\ \A t \in Int : [led EXCEPT ![l].ticks = t] \in [Slot -> LedType]
         /\ \A p \in PatternType : [led EXCEPT ![l].bak = p] \in [Slot -> LedType]
         /\ \A p \in PatternType : [led EXCEPT ![l].pat = p] \in [Slot -> LedType]
<1>1. ASSUME NEW f \in SUBSET Flag PROVE [led EXCEPT ![l].flag = f] \in [Slot -> LedType]
  BY DEF LedType
<1>2. ASSUME NEW t \in Int PROVE [led EXCEPT ![l].ticks = t] \in [Slot -> LedType]
  BY DEF LedType
<1>3. ASSUME NEW p \in PatternType PROVE [led EXCEPT ![l].bak = p] \in [Slot -> LedType]
  BY DEF LedType
<1>4. ASSUME NEW p \in PatternType PROVE [led EXCEPT ![l].pat = p] \in [Slot -> LedType]
  BY DEF LedType
<1> QED
  BY <1>1, <1>2, <1>3, <1>4

\* The parts of a slot have their types.
LEMMA SlotFields ==
  ASSUME TypeOK, NEW l \in Slot
  PROVE  /\ led[l].flag \in SUBSET Flag /\ led[l].ticks \in Int
         /\ led[l].pat \in PatternType /\ led[l].bak \in PatternType
         /\ led[l].pat.nums \in Int /\ led[l].bak.nums \in Int
         /\ led[l].pat.pulse \in Nat /\ led[l].bak.pulse \in Nat
         /\ led[l].pat.npulse \in Nat /\ led[l].bak.npulse \in Nat
<1>1. led[l] \in LedType
  BY DEF TypeOK
<1>2. /\ led[l].flag \in SUBSET Flag /\ led[l].ticks \in Int
      /\ led[l].pat \in PatternType /\ led[l].bak \in PatternType
  BY <1>1 DEF LedType
<1> QED
  BY <1>2 DEF PatternType

\* A register with a new flag or a new number.
LEMMA RegTypes ==
  ASSUME TypeOK
  PROVE  /\ NoReg \in [flag : SUBSET Flag, num : Int]
         /\ \A f \in SUBSET Flag : [reg EXCEPT !.flag = f] \in [flag : SUBSET Flag, num : Int]
         /\ \A n \in Int : [reg EXCEPT !.num = n] \in [flag : SUBSET Flag, num : Int]
         /\ reg.flag \in SUBSET Flag /\ reg.num \in Int
  BY DEF TypeOK, NoReg

\* Lighting or darkening a pin.
LEMMA LightTypes ==
  ASSUME TypeOK, NEW l \in Slot, NEW on \in BOOLEAN, Light(l, on)
  PROVE  pin' \in [Slot -> BOOLEAN] /\ since' \in [Slot -> Nat]
<1>1. pin \in [Slot -> BOOLEAN] /\ since \in [Slot -> Nat]
  BY DEF TypeOK
<1>2. pin' \in [Slot -> BOOLEAN]
  BY <1>1 DEF Light
<1>3. since' \in [Slot -> Nat]
  BY <1>1 DEF Light
<1> QED
  BY <1>2, <1>3

\* The daemon's next slot is a slot.
LEMMA NextInSlot ==
  ASSUME i \in Slot
  PROVE  (IF i = N THEN 1 ELSE i + 1) \in Slot
  BY EasyBlinkAssumption DEF Slot

----------------------------------------------------------------------------
(* What steps of the daemon have in common.                                 *)

\* A step that changes no flag, outside the correction of the ticks.
LEMMA SameFlags ==
  ASSUME Inv, boot = 0, boot' = 0, sem' = sem,
         \A l \in Slot : led'[l].flag = led[l].flag,
         pc \notin {"none", "woken", "corr", "correct"},
         pc' \notin {"none", "correct", "on_store", "off_store", "end_store"}
  PROVE  ActiveInv' /\ BootInv' /\ RegInv' /\ CorrectionPending'
<1>1. ActiveInv'
  BY DEF Inv, ActiveInv, DaemonServesSlots, Loaded
<1>2. CorrectionPending'
  BY DEF Inv, CorrectionPending
<1>3. BootInv' /\ RegInv'
  BY DEF BootInv, RegInv
<1> QED
  BY <1>1, <1>2, <1>3

\* The daemon loads the flags of its slot.
LEMMA LoadKeeps ==
  ASSUME Inv, boot = 0, boot' = 0, sem' = sem, led' = led, i' = i,
         pc \notin {"none", "woken", "corr", "correct"},
         pc' \in {"on_store", "off_store", "end_store"},
         reg'.flag = led[i].flag
  PROVE  ActiveInv' /\ BootInv' /\ RegInv' /\ CorrectionPending'
<1>1. i \in Slot
  BY DEF Inv, TypeOK
<1>2. ActiveInv'
  BY <1>1 DEF Inv, ActiveInv, DaemonServesSlots, Loaded
<1>3. CorrectionPending'
  BY DEF Inv, CorrectionPending
<1>4. RegInv'
  BY <1>1 DEF Inv, RegInv, CorrectionPending
<1>5. BootInv'
  BY DEF BootInv
<1> QED
  BY <1>2, <1>3, <1>4, <1>5

\* The daemon stores flags that are those it loaded or fewer.
LEMMA StoreKeeps ==
  ASSUME Inv, boot = 0, boot' = 0, sem' = sem, NEW f \in SUBSET Flag,
         led' = [led EXCEPT ![i].flag = f],
         pc \in {"on_store", "off_store", "end_store"},
         pc' \notin {"none", "correct", "on_store", "off_store", "end_store"},
         "ACTIVE" \in f => "ACTIVE" \in reg.flag,
         "CORRECT" \in f => "CORRECT" \in reg.flag,
         "INIT" \in f <=> "INIT" \in reg.flag
  PROVE  ActiveInv' /\ BootInv' /\ RegInv' /\ CorrectionPending'
<1>1. led \in [Slot -> LedType] /\ i \in Slot
  BY DEF Inv, TypeOK
<1>2. /\ led'[i].flag = f
      /\ \A l \in Slot : l # i => led'[l] = led[l]
  BY <1>1 DEF LedType
<1>3. ActiveInv'
  BY <1>1, <1>2 DEF Inv, ActiveInv, DaemonServesSlots, Loaded
<1>4. CorrectionPending'
  <2> SUFFICES ASSUME NEW l \in Slot, {"ACTIVE", "CORRECT"} \subseteq led'[l].flag
               PROVE  sem > 0
    BY DEF CorrectionPending
  <2>1. CASE l = i
    BY <1>2, <2>1 DEF Inv, RegInv
  <2>2. CASE l # i
    BY <1>2, <2>2 DEF Inv, CorrectionPending
  <2> QED
    BY <2>1, <2>2
<1>5. BootInv' /\ RegInv'
  BY DEF BootInv, RegInv
<1> QED
  BY <1>3, <1>4, <1>5

----------------------------------------------------------------------------
(* The daemon's steps.                                                      *)

\* The daemon starts to look for the minimum.
LEMMA BeginPreserves == Inv /\ Begin => Inv'
<1> SUFFICES ASSUME Inv, Begin PROVE Inv'
  OBVIOUS
<1>1. pc' \in Place /\ pc' # "sleep"
  BY DEF Begin, Place
<1>2. wait' \in Int
  BY EasyBlinkAssumption DEF Begin
<1>3. TypeOK'
  BY <1>1, <1>2 DEF Begin, Inv, TypeOK, Dark, callsFrame
<1>4. WaitInv'
  BY DEF Begin, WaitInv
<1>5. ActiveInv' /\ BootInv' /\ RegInv' /\ CorrectionPending'
  BY SameFlags DEF Begin, At, callsFrame
<1> QED
  BY <1>3, <1>4, <1>5 DEF Inv

\* One slot of the minimum.
LEMMA MinTicksPreserves == Inv /\ MinTicks => Inv'
<1> SUFFICES ASSUME Inv, MinTicks PROVE Inv'
  OBVIOUS
<1>1. pc' \in {"enter", "min"} /\ pc' \in Place
  BY DEF MinTicks, NextMin, Place
<1>2. led[i].ticks \in Int /\ wait \in Int /\ i \in Slot
  BY SlotFields DEF Inv, TypeOK
<1>3. wait' \in Int /\ i' \in Slot /\ (pc' = "enter" => wait' >= 0)
  BY <1>2, EasyBlinkAssumption DEF MinTicks, NextMin, Slot, Least
<1>4. TypeOK'
  BY <1>1, <1>3 DEF MinTicks, Inv, TypeOK, Dark, callsFrame
<1>5. WaitInv'
  BY <1>1, <1>3 DEF WaitInv
<1>6. ActiveInv' /\ BootInv' /\ RegInv' /\ CorrectionPending'
  BY <1>1, SameFlags DEF MinTicks, At, callsFrame
<1> QED
  BY <1>4, <1>5, <1>6 DEF Inv

\* The daemon waits only for a positive time.
LEMMA EnterPreserves == Inv /\ Enter => Inv'
<1> SUFFICES ASSUME Inv, Enter PROVE Inv'
  OBVIOUS
<1>1. pc' \in {"work", "take"} /\ pc' \in Place
  BY DEF Enter, Place
<1>2. TypeOK'
  BY <1>1 DEF Enter, Inv, TypeOK, Dark, callsFrame
<1>3. WaitInv'
  BY DEF Enter, At, Inv, TypeOK, WaitInv
<1>4. ActiveInv' /\ BootInv' /\ RegInv' /\ CorrectionPending'
  BY <1>1, SameFlags DEF Enter, At, callsFrame
<1> QED
  BY <1>2, <1>3, <1>4 DEF Inv

\* The daemon takes a count, or sleeps because there is none: then no
\* correction is pending.
LEMMA SemTakePreserves == Inv /\ SemTake => Inv'
<1> SUFFICES ASSUME Inv, SemTake PROVE Inv'
  OBVIOUS
<1>1. pc' \in {"woken", "sleep"} /\ pc' \in Place
  BY DEF SemTake, Place
<1>2. /\ pc = "take" /\ boot = 0 /\ boot' = 0 /\ led' = led /\ i' = i /\ wait' = wait
      /\ reg' = reg /\ sem \in Nat /\ wait \in Int /\ wait > 0
  BY DEF SemTake, At, callsFrame, Inv, TypeOK, WaitInv
<1>3. sem' \in Nat /\ left' \in Nat /\ late' \in Nat /\ (pc' = "sleep" => left' > 0)
  BY <1>2 DEF SemTake, Inv, TypeOK
<1>4. TypeOK'
  BY <1>1, <1>3 DEF SemTake, Inv, TypeOK, Dark, callsFrame
<1>5. WaitInv'
  BY <1>1, <1>3 DEF WaitInv
<1>6. CorrectionPending'
  BY <1>2 DEF SemTake, Inv, CorrectionPending
<1>7. ActiveInv' /\ BootInv' /\ RegInv'
  BY <1>1, <1>2 DEF Inv, ActiveInv, DaemonServesSlots, Loaded, BootInv, RegInv
<1> QED
  BY <1>4, <1>5, <1>6, <1>7 DEF Inv

\* The wait timed out.
LEMMA TimedOutPreserves == Inv /\ TimedOut => Inv'
<1> SUFFICES ASSUME Inv, TimedOut PROVE Inv'
  OBVIOUS
<1>1. pc' \in Place /\ pc' # "sleep"
  BY DEF TimedOut, Place, GoTo
<1>2. TypeOK'
  BY <1>1 DEF TimedOut, Inv, TypeOK, Dark, callsFrame, GoTo
<1>3. WaitInv'
  BY DEF TimedOut, WaitInv, GoTo
<1>4. ActiveInv' /\ BootInv' /\ RegInv' /\ CorrectionPending'
  BY SameFlags DEF TimedOut, At, callsFrame, GoTo
<1> QED
  BY <1>2, <1>3, <1>4 DEF Inv

\* A request woke the daemon: it corrects every slot.
LEMMA WokenPreserves == Inv /\ Woken => Inv'
<1> SUFFICES ASSUME Inv, Woken PROVE Inv'
  OBVIOUS
<1>1. pc' = "corr" /\ pc' \in Place /\ i' = 1 /\ i' \in Slot
  BY EasyBlinkAssumption DEF Woken, Place, Slot
<1>2. led' = led /\ boot = 0 /\ boot' = 0 /\ pc = "woken" /\ wait' \in Int
  BY EasyBlinkAssumption DEF Woken, At, callsFrame
<1>3. TypeOK'
  BY <1>1, <1>2 DEF Woken, Inv, TypeOK, Dark, callsFrame
<1>4. WaitInv'
  BY <1>1 DEF WaitInv
<1>5. CorrectionPending'
  BY <1>1 DEF CorrectionPending, Slot
<1>6. ActiveInv' /\ BootInv' /\ RegInv'
  BY <1>1, <1>2 DEF Inv, ActiveInv, DaemonServesSlots, Loaded, BootInv, RegInv
<1> QED
  BY <1>3, <1>4, <1>5, <1>6 DEF Inv

\* A slot that blinks is loaded for the correction, any other is passed over.
LEMMA CorrectLoadPreserves == Inv /\ CorrectLoad => Inv'
<1> SUFFICES ASSUME Inv, CorrectLoad PROVE Inv'
  OBVIOUS
<1>1. pc = "corr" /\ boot = 0 /\ boot' = 0 /\ led' = led /\ sem' = sem /\ i \in Slot
  BY DEF CorrectLoad, At, callsFrame, Inv, TypeOK
<1>2. CASE "ACTIVE" \in led[i].flag
  <2>1. /\ pc' = "correct" /\ i' = i /\ UNCHANGED <<wait, slept, left, late>>
        /\ reg' = [flag |-> led[i].flag, num |-> led[i].ticks] /\ pc' \in Place
    BY <1>2 DEF CorrectLoad, GoTo, Place
  <2>2. reg'.flag = led[i].flag /\ reg' \in [flag : SUBSET Flag, num : Int]
    BY <1>1, <2>1, SlotFields DEF Inv
  <2>3. TypeOK'
    BY <2>1, <2>2 DEF CorrectLoad, Inv, TypeOK, Dark, callsFrame
  <2>4. WaitInv'
    BY <2>1 DEF WaitInv
  <2>5. CorrectionPending'
    BY <1>1, <2>1 DEF Inv, CorrectionPending
  <2>6. ActiveInv' /\ BootInv' /\ RegInv'
    BY <1>1, <2>1, <2>2 DEF Inv, ActiveInv, DaemonServesSlots, Loaded, BootInv, RegInv
  <2> QED
    BY <2>3, <2>4, <2>5, <2>6 DEF Inv
<1>3. CASE "ACTIVE" \notin led[i].flag
  <2>1. /\ NextMin("corr", wait) /\ UNCHANGED <<reg, slept, left, late>>
    BY <1>3 DEF CorrectLoad
  <2>2. /\ pc' \in {"corr", "enter"} /\ pc' \in Place
        /\ pc' = "corr" => i' = i + 1
        /\ pc' = "enter" => i = N
    BY <2>1 DEF NextMin, Place
  <2>3. wait \in Int
    BY DEF Inv, TypeOK
  <2>4. wait' \in Int /\ i' \in Slot /\ (pc' = "enter" => wait' >= 0)
    BY <1>1, <2>1, <2>3, EasyBlinkAssumption DEF NextMin, Slot
  <2>5. TypeOK'
    BY <2>1, <2>2, <2>4 DEF CorrectLoad, Inv, TypeOK, Dark, callsFrame
  <2>6. WaitInv'
    BY <2>2, <2>4 DEF WaitInv
  <2>7. CorrectionPending'
    <3> SUFFICES ASSUME NEW l \in Slot, {"ACTIVE", "CORRECT"} \subseteq led[l].flag
                 PROVE  sem > 0 \/ (pc' = "corr" /\ i' <= l)
      BY <1>1 DEF CorrectionPending
    <3>1. l # i /\ (sem > 0 \/ i <= l)
      BY <1>1, <1>3 DEF Inv, CorrectionPending
    <3> QED
      BY <1>1, <2>2, <3>1, EasyBlinkAssumption DEF Slot
  <2>8. ActiveInv' /\ BootInv' /\ RegInv'
    BY <1>1, <2>2 DEF Inv, ActiveInv, DaemonServesSlots, Loaded, BootInv, RegInv
  <2> QED
    BY <2>5, <2>6, <2>7, <2>8 DEF Inv
<1> QED
  BY <1>2, <1>3

\* A slot that was started during the wait loses its mark; one started since it
\* was loaded has left a count.
LEMMA CorrectStorePreserves == Inv /\ CorrectStore => Inv'
<1> SUFFICES ASSUME Inv, CorrectStore PROVE Inv'
  OBVIOUS
<1>1. /\ pc = "correct" /\ boot = 0 /\ boot' = 0 /\ sem' = sem /\ i \in Slot
      /\ led \in [Slot -> LedType] /\ reg' = NoReg /\ wait \in Int /\ slept \in Nat
  BY DEF CorrectStore, At, callsFrame, Inv, TypeOK
<1>2. reg.flag \in SUBSET Flag /\ reg.num \in Int /\ NoReg \in [flag : SUBSET Flag, num : Int]
  BY RegTypes DEF Inv
<1>3. \/ /\ "CORRECT" \in reg.flag
         /\ led' = [led EXCEPT ![i].flag = reg.flag \ {"CORRECT"}]
      \/ /\ "CORRECT" \notin reg.flag
         /\ led' = [led EXCEPT ![i].ticks = reg.num - slept]
  BY DEF CorrectStore, StoreFlag, StoreTicks
<1>4. led' \in [Slot -> LedType]
  <2>1. reg.flag \ {"CORRECT"} \in SUBSET Flag /\ reg.num - slept \in Int
    BY <1>1, <1>2
  <2> QED
    BY <1>1, <1>3, <2>1, SlotTypes
<1>5. /\ \A l \in Slot : l # i => led'[l] = led[l]
      /\ led'[i].ticks \in Int
      /\ \/ "CORRECT" \in reg.flag /\ led'[i].flag = reg.flag \ {"CORRECT"}
         \/ "CORRECT" \notin reg.flag /\ led'[i].flag = led[i].flag
  <2>1. \A l \in Slot : l # i => led'[l] = led[l]
    BY <1>1, <1>3
  <2>2. led'[i].ticks \in Int
    BY <1>1, <1>4 DEF LedType
  <2>3. led[i] \in LedType
    BY <1>1
  <2>4. \/ "CORRECT" \in reg.flag /\ led'[i].flag = reg.flag \ {"CORRECT"}
        \/ "CORRECT" \notin reg.flag /\ led'[i].flag = led[i].flag
    BY <1>1, <1>3, <2>3 DEF LedType
  <2> QED
    BY <2>1, <2>2, <2>4
<1>6. NextMin("corr", Least(led'[i].ticks, wait))
  BY DEF CorrectStore
<1>7. /\ pc' \in {"corr", "enter"} /\ pc' \in Place
      /\ pc' = "corr" => i' = i + 1
      /\ pc' = "enter" => i = N
  BY <1>6 DEF NextMin, Place
<1>8. wait' \in Int /\ i' \in Slot /\ (pc' = "enter" => wait' >= 0)
  BY <1>1, <1>5, <1>6, EasyBlinkAssumption DEF NextMin, Slot, Least
<1>9. TypeOK'
  BY <1>1, <1>2, <1>4, <1>7, <1>8 DEF CorrectStore, Inv, TypeOK, Dark, callsFrame
<1>10. WaitInv'
  BY <1>7, <1>8 DEF WaitInv
<1>11. CorrectionPending'
  <2> SUFFICES ASSUME NEW l \in Slot, {"ACTIVE", "CORRECT"} \subseteq led'[l].flag
               PROVE  sem > 0 \/ (pc' = "corr" /\ i' <= l)
    BY <1>1 DEF CorrectionPending
  <2>1. CASE l = i
    BY <1>1, <1>5, <2>1 DEF Inv, RegInv
  <2>2. CASE l # i
    <3>1. sem > 0 \/ i <= l
      BY <1>1, <1>5, <2>2 DEF Inv, CorrectionPending
    <3> QED
      BY <1>1, <1>7, <2>2, <3>1, EasyBlinkAssumption DEF Slot
  <2> QED
    BY <2>1, <2>2
<1>12. ActiveInv'
  BY <1>1, <1>5, <1>7 DEF Inv, ActiveInv, DaemonServesSlots, Loaded
<1>13. BootInv' /\ RegInv'
  BY <1>1, <1>7 DEF BootInv, RegInv
<1> QED
  BY <1>9, <1>10, <1>11, <1>12, <1>13 DEF Inv

\* The ticks of a slot are loaded.
LEMMA WorkLoadPreserves == Inv /\ WorkLoad => Inv'
<1> SUFFICES ASSUME Inv, WorkLoad PROVE Inv'
  OBVIOUS
<1>1. pc' \in Place /\ pc' # "sleep"
  BY DEF WorkLoad, Place, GoTo
<1>2. reg' \in [flag : SUBSET Flag, num : Int]
  BY RegTypes, SlotFields DEF WorkLoad, Inv, TypeOK
<1>3. TypeOK'
  BY <1>1, <1>2 DEF WorkLoad, Inv, TypeOK, Dark, callsFrame, GoTo
<1>4. WaitInv'
  BY DEF WorkLoad, WaitInv, GoTo
<1>5. ActiveInv' /\ BootInv' /\ RegInv' /\ CorrectionPending'
  BY SameFlags DEF WorkLoad, At, callsFrame, GoTo
<1> QED
  BY <1>3, <1>4, <1>5 DEF Inv

\* The time waited is charged to a slot.
LEMMA WorkStorePreserves == Inv /\ WorkStore => Inv'
<1> SUFFICES ASSUME Inv, WorkStore PROVE Inv'
  OBVIOUS
<1>1. pc' \in Place /\ pc' # "sleep"
  BY DEF WorkStore, Place, GoTo
<1>2. i \in Slot /\ led \in [Slot -> LedType]
  BY DEF Inv, TypeOK
<1>3. i' \in Slot
  BY <1>2, NextInSlot DEF WorkStore, GoTo
<1>4. Floor(reg.num - wait) \in Int
  BY RegTypes, EasyBlinkAssumption DEF Inv, TypeOK, Floor
<1>5. /\ led' \in [Slot -> LedType]
      /\ \A l \in Slot : led'[l].flag = led[l].flag
  <2>1. led' = [led EXCEPT ![i].ticks = Floor(reg.num - wait)]
    BY DEF WorkStore, StoreTicks
  <2>2. led' \in [Slot -> LedType]
    BY <1>2, <1>4, <2>1, SlotTypes
  <2>3. \A l \in Slot : led[l] \in LedType
    BY <1>2
  <2> QED
    BY <1>2, <2>1, <2>2, <2>3 DEF LedType
<1>6. reg' \in [flag : SUBSET Flag, num : Int]
  BY RegTypes, SlotFields DEF WorkStore, Inv, TypeOK, GoTo
<1>7. TypeOK'
  BY <1>1, <1>3, <1>5, <1>6 DEF WorkStore, Inv, TypeOK, Dark, callsFrame, GoTo
<1>8. WaitInv'
  BY DEF WorkStore, WaitInv, GoTo
<1>9. ActiveInv' /\ BootInv' /\ RegInv' /\ CorrectionPending'
  BY <1>5, SameFlags DEF WorkStore, At, callsFrame, GoTo
<1> QED
  BY <1>7, <1>8, <1>9 DEF Inv

\* The daemon decides what a slot is due for.
LEMMA TestPreserves == Inv /\ Test => Inv'
<1> SUFFICES ASSUME Inv, Test PROVE Inv'
  OBVIOUS
<1>1. pc' \in {"begin", "work", "off", "on", "spent"} /\ pc' \in Place
  BY DEF Test, NextSlot, GoTo, Place
<1>2. i' \in Slot /\ UNCHANGED <<wait, slept, left, late>>
  <2>1. i \in Slot
    BY DEF Inv, TypeOK
  <2> QED
    BY <2>1, NextInSlot DEF Test, NextSlot, GoTo
<1>3. TypeOK'
  BY <1>1, <1>2 DEF Test, Inv, TypeOK, Dark, callsFrame
<1>4. WaitInv'
  BY <1>1 DEF WaitInv
<1>5. ActiveInv' /\ BootInv' /\ RegInv' /\ CorrectionPending'
  BY <1>1, SameFlags DEF Test, At, callsFrame
<1> QED
  BY <1>3, <1>4, <1>5 DEF Inv

\* The slot is lit.
LEMMA TurnOnPreserves == Inv /\ TurnOn => Inv'
<1> SUFFICES ASSUME Inv, TurnOn PROVE Inv'
  OBVIOUS
<1>1. pc' \in Place /\ pc' # "sleep"
  BY DEF TurnOn, Place, GoTo
<1>2. pin' \in [Slot -> BOOLEAN] /\ since' \in [Slot -> Nat]
  <2>1. i \in Slot /\ ("INIT" \in led[i].flag) \in BOOLEAN
    BY DEF Inv, TypeOK
  <2>2. Light(i, "INIT" \in led[i].flag)
    BY DEF TurnOn
  <2> QED
    BY <2>1, <2>2, LightTypes DEF Inv
<1>4. TypeOK'
  BY <1>1, <1>2 DEF TurnOn, Inv, TypeOK, Dark, callsFrame, GoTo
<1>5. WaitInv'
  BY DEF TurnOn, WaitInv, GoTo
<1>6. ActiveInv' /\ BootInv' /\ RegInv' /\ CorrectionPending'
  BY SameFlags DEF TurnOn, At, callsFrame, GoTo
<1> QED
  BY <1>4, <1>5, <1>6 DEF Inv

\* The slot is darkened.
LEMMA TurnOffPreserves == Inv /\ TurnOff => Inv'
<1> SUFFICES ASSUME Inv, TurnOff PROVE Inv'
  OBVIOUS
<1>1. pc' \in Place /\ pc' # "sleep"
  BY DEF TurnOff, Place, GoTo
<1>2. pin' \in [Slot -> BOOLEAN] /\ since' \in [Slot -> Nat]
  <2>1. i \in Slot /\ FALSE \in BOOLEAN /\ Light(i, FALSE)
    BY DEF TurnOff, Inv, TypeOK
  <2> QED
    BY <2>1, LightTypes DEF Inv
<1>3. TypeOK'
  BY <1>1, <1>2 DEF TurnOff, Inv, TypeOK, Dark, callsFrame, GoTo
<1>4. WaitInv'
  BY DEF TurnOff, WaitInv, GoTo
<1>5. ActiveInv' /\ BootInv' /\ RegInv' /\ CorrectionPending'
  BY SameFlags DEF TurnOff, At, callsFrame, GoTo
<1> QED
  BY <1>3, <1>4, <1>5 DEF Inv

\* The flags are loaded.
LEMMA OnLoadPreserves == Inv /\ OnLoad => Inv'
<1> SUFFICES ASSUME Inv, OnLoad PROVE Inv'
  OBVIOUS
<1>1. pc' = "on_store" /\ pc' \in Place
  BY DEF OnLoad, LoadFlag, GoTo, Place
<1>2. i \in Slot /\ led[i].flag \in SUBSET Flag
  BY SlotFields DEF Inv, TypeOK
<1>3. reg' = [reg EXCEPT !.flag = led[i].flag]
  BY DEF OnLoad, LoadFlag
<1>4. reg' \in [flag : SUBSET Flag, num : Int] /\ reg'.flag = led[i].flag
  BY <1>2, <1>3, RegTypes DEF Inv, TypeOK
<1>5. TypeOK'
  BY <1>1, <1>4 DEF OnLoad, LoadFlag, GoTo, Inv, TypeOK, Dark, callsFrame
<1>6. WaitInv'
  BY <1>1 DEF WaitInv
<1>7. ActiveInv' /\ BootInv' /\ RegInv' /\ CorrectionPending'
  BY <1>1, <1>4, LoadKeeps DEF OnLoad, LoadFlag, GoTo, At, callsFrame
<1> QED
  BY <1>5, <1>6, <1>7 DEF Inv

\* The flags are loaded.
LEMMA OffLoadPreserves == Inv /\ OffLoad => Inv'
<1> SUFFICES ASSUME Inv, OffLoad PROVE Inv'
  OBVIOUS
<1>1. pc' = "off_store" /\ pc' \in Place
  BY DEF OffLoad, LoadFlag, GoTo, Place
<1>2. i \in Slot /\ led[i].flag \in SUBSET Flag
  BY SlotFields DEF Inv, TypeOK
<1>3. reg' = [reg EXCEPT !.flag = led[i].flag]
  BY DEF OffLoad, LoadFlag
<1>4. reg' \in [flag : SUBSET Flag, num : Int] /\ reg'.flag = led[i].flag
  BY <1>2, <1>3, RegTypes DEF Inv, TypeOK
<1>5. TypeOK'
  BY <1>1, <1>4 DEF OffLoad, LoadFlag, GoTo, Inv, TypeOK, Dark, callsFrame
<1>6. WaitInv'
  BY <1>1 DEF WaitInv
<1>7. ActiveInv' /\ BootInv' /\ RegInv' /\ CorrectionPending'
  BY <1>1, <1>4, LoadKeeps DEF OffLoad, LoadFlag, GoTo, At, callsFrame
<1> QED
  BY <1>5, <1>6, <1>7 DEF Inv

\* The flags are loaded.
LEMMA EndLoadPreserves == Inv /\ EndLoad => Inv'
<1> SUFFICES ASSUME Inv, EndLoad PROVE Inv'
  OBVIOUS
<1>1. pc' = "end_store" /\ pc' \in Place
  BY DEF EndLoad, LoadFlag, GoTo, Place
<1>2. i \in Slot /\ led[i].flag \in SUBSET Flag
  BY SlotFields DEF Inv, TypeOK
<1>3. reg' = [reg EXCEPT !.flag = led[i].flag]
  BY DEF EndLoad, LoadFlag
<1>4. reg' \in [flag : SUBSET Flag, num : Int] /\ reg'.flag = led[i].flag
  BY <1>2, <1>3, RegTypes DEF Inv, TypeOK
<1>5. TypeOK'
  BY <1>1, <1>4 DEF EndLoad, LoadFlag, GoTo, Inv, TypeOK, Dark, callsFrame
<1>6. WaitInv'
  BY <1>1 DEF WaitInv
<1>7. ActiveInv' /\ BootInv' /\ RegInv' /\ CorrectionPending'
  BY <1>1, <1>4, LoadKeeps DEF EndLoad, LoadFlag, GoTo, At, callsFrame
<1> QED
  BY <1>5, <1>6, <1>7 DEF Inv

\* What was loaded is stored, without SHOULD_ON.
LEMMA OnStorePreserves == Inv /\ OnStore => Inv'
<1> SUFFICES ASSUME Inv, OnStore PROVE Inv'
  OBVIOUS
<1> DEFINE f == reg.flag \ {"SHOULD_ON"}
<1>1. pc' \in Place /\ pc' \notin {"none", "sleep", "enter", "take", "correct", "on_store", "off_store", "end_store"}
  BY DEF OnStore, GoTo, Place
<1>2. i \in Slot /\ i' \in Slot
  <2>1. i \in Slot
    BY DEF Inv, TypeOK
  <2> QED
    BY <2>1, NextInSlot DEF OnStore, GoTo
<1>3. f \in SUBSET Flag /\ reg' \in [flag : SUBSET Flag, num : Int]
  BY RegTypes DEF Inv, OnStore, Flag
<1>4. led' = [led EXCEPT ![i].flag = f]
  BY DEF OnStore, StoreFlag
<1>5. led' \in [Slot -> LedType]
  <2> HIDE DEF f
  <2> QED
    BY <1>2, <1>3, <1>4, SlotTypes DEF Inv, TypeOK
<1>6. TypeOK'
  BY <1>1, <1>2, <1>3, <1>5 DEF OnStore, GoTo, Inv, TypeOK, Dark, callsFrame
<1>7. WaitInv'
  BY <1>1 DEF WaitInv
<1>8. ActiveInv' /\ BootInv' /\ RegInv' /\ CorrectionPending'
  <2>1. /\ "ACTIVE" \in f => "ACTIVE" \in reg.flag
        /\ "CORRECT" \in f => "CORRECT" \in reg.flag
        /\ "INIT" \in f <=> "INIT" \in reg.flag
    OBVIOUS
  <2> HIDE DEF f
  <2> QED
    BY <1>1, <1>3, <1>4, <2>1, StoreKeeps DEF OnStore, At, callsFrame
<1> QED
  BY <1>6, <1>7, <1>8 DEF Inv

\* What was loaded is stored, with SHOULD_ON.
LEMMA OffStorePreserves == Inv /\ OffStore => Inv'
<1> SUFFICES ASSUME Inv, OffStore PROVE Inv'
  OBVIOUS
<1> DEFINE f == reg.flag \cup {"SHOULD_ON"}
<1>1. pc' \in Place /\ pc' \notin {"none", "sleep", "enter", "take", "correct", "on_store", "off_store", "end_store"}
  BY DEF OffStore, GoTo, Place
<1>2. i \in Slot /\ i' \in Slot
  <2>1. i \in Slot
    BY DEF Inv, TypeOK
  <2> QED
    BY <2>1, NextInSlot DEF OffStore, GoTo
<1>3. f \in SUBSET Flag /\ reg' \in [flag : SUBSET Flag, num : Int]
  BY RegTypes DEF Inv, OffStore, Flag
<1>4. led' = [led EXCEPT ![i].flag = f]
  BY DEF OffStore, StoreFlag
<1>5. led' \in [Slot -> LedType]
  <2> HIDE DEF f
  <2> QED
    BY <1>2, <1>3, <1>4, SlotTypes DEF Inv, TypeOK
<1>6. TypeOK'
  BY <1>1, <1>2, <1>3, <1>5 DEF OffStore, GoTo, Inv, TypeOK, Dark, callsFrame
<1>7. WaitInv'
  BY <1>1 DEF WaitInv
<1>8. ActiveInv' /\ BootInv' /\ RegInv' /\ CorrectionPending'
  <2>1. /\ "ACTIVE" \in f => "ACTIVE" \in reg.flag
        /\ "CORRECT" \in f => "CORRECT" \in reg.flag
        /\ "INIT" \in f <=> "INIT" \in reg.flag
    OBVIOUS
  <2> HIDE DEF f
  <2> QED
    BY <1>1, <1>3, <1>4, <2>1, StoreKeeps DEF OffStore, At, callsFrame
<1> QED
  BY <1>6, <1>7, <1>8 DEF Inv

\* What was loaded is stored, without ACTIVE.
LEMMA EndStorePreserves == Inv /\ EndStore => Inv'
<1> SUFFICES ASSUME Inv, EndStore PROVE Inv'
  OBVIOUS
<1> DEFINE f == reg.flag \ {"ACTIVE"}
<1>1. pc' \in Place /\ pc' \notin {"none", "sleep", "enter", "take", "correct", "on_store", "off_store", "end_store"}
  BY DEF EndStore, NextSlot, Place
<1>2. i \in Slot /\ i' \in Slot
  <2>1. i \in Slot
    BY DEF Inv, TypeOK
  <2> QED
    BY <2>1, NextInSlot DEF EndStore, NextSlot
<1>3. f \in SUBSET Flag /\ reg' \in [flag : SUBSET Flag, num : Int]
  BY RegTypes DEF Inv, EndStore, Flag
<1>4. led' = [led EXCEPT ![i].flag = f]
  BY DEF EndStore, StoreFlag
<1>5. led' \in [Slot -> LedType]
  <2> HIDE DEF f
  <2> QED
    BY <1>2, <1>3, <1>4, SlotTypes DEF Inv, TypeOK
<1>6. TypeOK'
  BY <1>1, <1>2, <1>3, <1>5 DEF EndStore, NextSlot, Inv, TypeOK, Dark, callsFrame
<1>7. WaitInv'
  BY <1>1 DEF WaitInv
<1>8. ActiveInv' /\ BootInv' /\ RegInv' /\ CorrectionPending'
  <2>1. /\ "ACTIVE" \in f => "ACTIVE" \in reg.flag
        /\ "CORRECT" \in f => "CORRECT" \in reg.flag
        /\ "INIT" \in f <=> "INIT" \in reg.flag
    OBVIOUS
  <2> HIDE DEF f
  <2> QED
    BY <1>1, <1>3, <1>4, <2>1, StoreKeeps DEF EndStore, At, callsFrame
<1> QED
  BY <1>6, <1>7, <1>8 DEF Inv

\* The slot is lit for its pulse.
LEMMA OnTicksPreserves == Inv /\ OnTicks => Inv'
<1> SUFFICES ASSUME Inv, OnTicks PROVE Inv'
  OBVIOUS
<1>1. pc' \in Place /\ pc' # "sleep"
  BY DEF OnTicks, Place, NextSlot
<1>2. i \in Slot /\ led \in [Slot -> LedType]
  BY DEF Inv, TypeOK
<1>3. i' \in Slot
  BY <1>2, NextInSlot DEF OnTicks, NextSlot
<1>4. led[i].pat.pulse \in Int
  BY SlotFields DEF Inv, TypeOK
<1>5. /\ led' \in [Slot -> LedType]
      /\ \A l \in Slot : led'[l].flag = led[l].flag
  <2>1. led' = [led EXCEPT ![i].ticks = led[i].pat.pulse]
    BY DEF OnTicks, StoreTicks
  <2>2. led' \in [Slot -> LedType]
    BY <1>2, <1>4, <2>1, SlotTypes
  <2>3. \A l \in Slot : led[l] \in LedType
    BY <1>2
  <2> QED
    BY <1>2, <2>1, <2>2, <2>3 DEF LedType
<1>6. reg' \in [flag : SUBSET Flag, num : Int]
  BY RegTypes, SlotFields DEF OnTicks, Inv, TypeOK, NextSlot
<1>7. TypeOK'
  BY <1>1, <1>3, <1>5, <1>6 DEF OnTicks, Inv, TypeOK, Dark, callsFrame, NextSlot
<1>8. WaitInv'
  BY DEF OnTicks, WaitInv, NextSlot
<1>9. ActiveInv' /\ BootInv' /\ RegInv' /\ CorrectionPending'
  BY <1>5, SameFlags DEF OnTicks, At, callsFrame, NextSlot
<1> QED
  BY <1>7, <1>8, <1>9 DEF Inv

\* The slot is dark for its npulse.
LEMMA OffTicksPreserves == Inv /\ OffTicks => Inv'
<1> SUFFICES ASSUME Inv, OffTicks PROVE Inv'
  OBVIOUS
<1>1. pc' \in Place /\ pc' # "sleep"
  BY DEF OffTicks, Place, GoTo
<1>2. i \in Slot /\ led \in [Slot -> LedType]
  BY DEF Inv, TypeOK
<1>3. i' \in Slot
  BY <1>2, NextInSlot DEF OffTicks, GoTo
<1>4. led[i].pat.npulse \in Int
  BY SlotFields DEF Inv, TypeOK
<1>5. /\ led' \in [Slot -> LedType]
      /\ \A l \in Slot : led'[l].flag = led[l].flag
  <2>1. led' = [led EXCEPT ![i].ticks = led[i].pat.npulse]
    BY DEF OffTicks, StoreTicks
  <2>2. led' \in [Slot -> LedType]
    BY <1>2, <1>4, <2>1, SlotTypes
  <2>3. \A l \in Slot : led[l] \in LedType
    BY <1>2
  <2> QED
    BY <1>2, <2>1, <2>2, <2>3 DEF LedType
<1>6. reg' \in [flag : SUBSET Flag, num : Int]
  BY RegTypes, SlotFields DEF OffTicks, Inv, TypeOK, GoTo
<1>7. TypeOK'
  BY <1>1, <1>3, <1>5, <1>6 DEF OffTicks, Inv, TypeOK, Dark, callsFrame, GoTo
<1>8. WaitInv'
  BY DEF OffTicks, WaitInv, GoTo
<1>9. ActiveInv' /\ BootInv' /\ RegInv' /\ CorrectionPending'
  BY <1>5, SameFlags DEF OffTicks, At, callsFrame, GoTo
<1> QED
  BY <1>7, <1>8, <1>9 DEF Inv

\* A flash is counted.
LEMMA DecrementPreserves == Inv /\ Decrement => Inv'
<1> SUFFICES ASSUME Inv, Decrement PROVE Inv'
  OBVIOUS
<1>1. pc' \in Place /\ pc' \notin {"none", "sleep", "enter", "take", "correct", "on_store", "off_store", "end_store"}
  BY DEF Decrement, NextSlot, Place
<1>2. i \in Slot /\ i' \in Slot /\ led \in [Slot -> LedType]
  <2>1. i \in Slot /\ led \in [Slot -> LedType]
    BY DEF Inv, TypeOK
  <2> QED
    BY <2>1, NextInSlot DEF Decrement, NextSlot
<1>3. \A l \in Slot : led[l] \in LedType
  BY <1>2
<1>4. reg.num \in Int
  BY RegTypes DEF Inv
<1>5. /\ led' \in [Slot -> LedType]
      /\ \A l \in Slot : led'[l].flag = led[l].flag
  <2>1. led'[i] \in LedType /\ led'[i].flag = led[i].flag
    <3>1. led[i] \in LedType /\ led[i].pat \in PatternType
      BY <1>2, <1>3 DEF LedType
    <3>2. led' = [led EXCEPT ![i].pat.nums = reg.num - 1] \/ led' = led
      BY DEF Decrement
    <3> QED
      BY <1>2, <1>4, <3>1, <3>2 DEF LedType, PatternType
  <2>2. led' = [led EXCEPT ![i] = led'[i]]
    BY <1>2 DEF Decrement
  <2> HIDE DEF LedType
  <2> QED
    BY <1>2, <2>1, <2>2
<1>6. reg' \in [flag : SUBSET Flag, num : Int]
  BY RegTypes DEF Decrement, Inv, TypeOK
<1>7. TypeOK'
  BY <1>1, <1>2, <1>5, <1>6 DEF Decrement, NextSlot, Inv, TypeOK, Dark, callsFrame
<1>8. WaitInv'
  BY <1>1 DEF WaitInv
<1>9. ActiveInv' /\ BootInv' /\ RegInv' /\ CorrectionPending'
  BY <1>1, <1>5, SameFlags DEF Decrement, At, callsFrame
<1> QED
  BY <1>7, <1>8, <1>9 DEF Inv

\* The count comes from the backup.
LEMMA RestoreNumsPreserves == Inv /\ RestoreNums => Inv'
<1> SUFFICES ASSUME Inv, RestoreNums PROVE Inv'
  OBVIOUS
<1>1. pc' \in Place /\ pc' \notin {"none", "sleep", "enter", "take", "correct", "on_store", "off_store", "end_store"}
  BY DEF RestoreNums, GoTo, Place
<1>2. i \in Slot /\ i' \in Slot /\ led \in [Slot -> LedType]
  <2>1. i \in Slot /\ led \in [Slot -> LedType]
    BY DEF Inv, TypeOK
  <2> QED
    BY <2>1, NextInSlot DEF RestoreNums, GoTo
<1>3. \A l \in Slot : led[l] \in LedType
  BY <1>2
<1>4. led[i].bak.nums \in Int
  BY <1>2, SlotFields DEF Inv
<1>5. /\ led' \in [Slot -> LedType]
      /\ \A l \in Slot : led'[l].flag = led[l].flag
  <2>1. led'[i] \in LedType /\ led'[i].flag = led[i].flag
    <3>1. led[i] \in LedType /\ led[i].pat \in PatternType
      BY <1>2, <1>3 DEF LedType
    <3>2. led' = [led EXCEPT ![i].pat.nums = led[i].bak.nums]
      BY DEF RestoreNums
    <3> QED
      BY <1>2, <1>4, <3>1, <3>2 DEF LedType, PatternType
  <2>2. led' = [led EXCEPT ![i] = led'[i]]
    BY <1>2 DEF RestoreNums
  <2> HIDE DEF LedType
  <2> QED
    BY <1>2, <2>1, <2>2
<1>6. reg' \in [flag : SUBSET Flag, num : Int]
  BY RegTypes DEF RestoreNums, Inv, TypeOK
<1>7. TypeOK'
  BY <1>1, <1>2, <1>5, <1>6 DEF RestoreNums, GoTo, Inv, TypeOK, Dark, callsFrame
<1>8. WaitInv'
  BY <1>1 DEF WaitInv
<1>9. ActiveInv' /\ BootInv' /\ RegInv' /\ CorrectionPending'
  BY <1>1, <1>5, SameFlags DEF RestoreNums, At, callsFrame
<1> QED
  BY <1>7, <1>8, <1>9 DEF Inv

\* The times come from the backup.
LEMMA RestoreTimesPreserves == Inv /\ RestoreTimes => Inv'
<1> SUFFICES ASSUME Inv, RestoreTimes PROVE Inv'
  OBVIOUS
<1>1. pc' \in Place /\ pc' \notin {"none", "sleep", "enter", "take", "correct", "on_store", "off_store", "end_store"}
  BY DEF RestoreTimes, GoTo, Place
<1>2. i \in Slot /\ i' \in Slot /\ led \in [Slot -> LedType]
  <2>1. i \in Slot /\ led \in [Slot -> LedType]
    BY DEF Inv, TypeOK
  <2> QED
    BY <2>1, NextInSlot DEF RestoreTimes, GoTo
<1>3. \A l \in Slot : led[l] \in LedType
  BY <1>2
<1>4. led[i].bak.pulse \in Nat /\ led[i].bak.npulse \in Nat
  BY <1>2, SlotFields DEF Inv
<1>5. /\ led' \in [Slot -> LedType]
      /\ \A l \in Slot : led'[l].flag = led[l].flag
  <2>1. led'[i] \in LedType /\ led'[i].flag = led[i].flag
    <3>1. led[i] \in LedType /\ led[i].pat \in PatternType
      BY <1>2, <1>3 DEF LedType
    <3>2. led'[i] = [led[i] EXCEPT !.pat = [led[i].pat EXCEPT !.pulse = led[i].bak.pulse,
                                                                !.npulse = led[i].bak.npulse]]
      BY <1>2, <3>1 DEF RestoreTimes, LedType, PatternType
    <3> QED
      BY <1>2, <1>4, <3>1, <3>2 DEF LedType, PatternType
  <2>2. led' = [led EXCEPT ![i] = led'[i]]
    BY <1>2 DEF RestoreTimes
  <2> HIDE DEF LedType
  <2> QED
    BY <1>2, <2>1, <2>2
<1>6. reg' \in [flag : SUBSET Flag, num : Int]
  BY RegTypes DEF RestoreTimes, Inv, TypeOK
<1>7. TypeOK'
  BY <1>1, <1>2, <1>5, <1>6 DEF RestoreTimes, GoTo, Inv, TypeOK, Dark, callsFrame
<1>8. WaitInv'
  BY <1>1 DEF WaitInv
<1>9. ActiveInv' /\ BootInv' /\ RegInv' /\ CorrectionPending'
  BY <1>1, <1>5, SameFlags DEF RestoreTimes, At, callsFrame
<1> QED
  BY <1>7, <1>8, <1>9 DEF Inv

\* The backup is emptied.
LEMMA RestoreClearPreserves == Inv /\ RestoreClear => Inv'
<1> SUFFICES ASSUME Inv, RestoreClear PROVE Inv'
  OBVIOUS
<1>1. pc' \in Place /\ pc' \notin {"none", "sleep", "enter", "take", "correct", "on_store", "off_store", "end_store"}
  BY DEF RestoreClear, NextSlot, Place
<1>2. i \in Slot /\ i' \in Slot /\ led \in [Slot -> LedType]
  <2>1. i \in Slot /\ led \in [Slot -> LedType]
    BY DEF Inv, TypeOK
  <2> QED
    BY <2>1, NextInSlot DEF RestoreClear, NextSlot
<1>3. \A l \in Slot : led[l] \in LedType
  BY <1>2
<1>4. NoPattern \in PatternType /\ WAIT_END \in Int
  BY EasyBlinkAssumption DEF NoPattern, Pattern, PatternType
<1>5. /\ led' \in [Slot -> LedType]
      /\ \A l \in Slot : led'[l].flag = led[l].flag
  <2>1. led'[i] \in LedType /\ led'[i].flag = led[i].flag
    <3>1. led[i] \in LedType /\ led[i].pat \in PatternType
      BY <1>2, <1>3 DEF LedType
    <3> DEFINE t == IF led[i].pat.nums = -1 THEN WAIT_END ELSE 0
    <3>2. t \in Int /\ led' = [led EXCEPT ![i].bak = NoPattern, ![i].ticks = t]
      BY <1>4 DEF RestoreClear
    <3> HIDE DEF t
    <3> QED
      BY <1>2, <1>4, <3>1, <3>2 DEF LedType, PatternType
  <2>2. led' = [led EXCEPT ![i] = led'[i]]
    BY <1>2 DEF RestoreClear
  <2> HIDE DEF LedType
  <2> QED
    BY <1>2, <2>1, <2>2
<1>6. reg' \in [flag : SUBSET Flag, num : Int]
  BY RegTypes DEF RestoreClear, Inv, TypeOK
<1>7. TypeOK'
  BY <1>1, <1>2, <1>5, <1>6 DEF RestoreClear, NextSlot, Inv, TypeOK, Dark, callsFrame
<1>8. WaitInv'
  BY <1>1 DEF WaitInv
<1>9. ActiveInv' /\ BootInv' /\ RegInv' /\ CorrectionPending'
  BY <1>1, <1>5, SameFlags DEF RestoreClear, At, callsFrame
<1> QED
  BY <1>7, <1>8, <1>9 DEF Inv

\* The daemon looks for a backup.
LEMMA SpentPreserves == Inv /\ Spent => Inv'
<1> SUFFICES ASSUME Inv, Spent PROVE Inv'
  OBVIOUS
<1>1. pc' \in Place /\ pc' # "sleep"
  BY DEF Spent, Place, GoTo
<1>2. TypeOK'
  BY <1>1 DEF Spent, Inv, TypeOK, Dark, callsFrame, GoTo
<1>3. WaitInv'
  BY DEF Spent, WaitInv, GoTo
<1>4. ActiveInv' /\ BootInv' /\ RegInv' /\ CorrectionPending'
  BY SameFlags DEF Spent, At, callsFrame, GoTo
<1> QED
  BY <1>2, <1>3, <1>4 DEF Inv

----------------------------------------------------------------------------
(* The calls and the tick.                                                  *)

\* What a call keeps, except for how far main has come.
CallInv == TypeOK /\ WaitInv /\ ActiveInv /\ RegInv /\ CorrectionPending

\* The patterns of the callers are patterns.
LEMMA CalledPatterns ==
  /\ Endless \in PatternType /\ NoPattern \in PatternType
  /\ \A n \in COUNTS : Burst(n) \in PatternType
  BY EasyBlinkAssumption DEF Endless, NoPattern, Burst, Pattern, PatternType

\* led_blink_delay releases the semaphore, so every correction is pending.
LEMMA BlinkDelayKeeps ==
  ASSUME Inv, NEW l \in Slot, NEW pat \in PatternType, NEW bak \in PatternType,
         NEW delay \in Int, "INIT" \in led[l].flag, BlinkDelay(l, pat, bak, delay),
         i' = i, wait' = wait, reg' = reg, left' = left
  PROVE  /\ led' \in [Slot -> LedType]
         /\ sem' \in Nat /\ pc' \in Place /\ (pc' = "sleep" => left' > 0)
         /\ WaitInv' /\ ActiveInv' /\ RegInv' /\ CorrectionPending'
         /\ \A k \in Slot : "INIT" \in led'[k].flag <=> "INIT" \in led[k].flag
         /\ pc' = (IF pc = "sleep" THEN "woken" ELSE pc)
<1>1. led \in [Slot -> LedType] /\ sem \in Nat /\ pc \in Place
  BY DEF Inv, TypeOK
<1>2. /\ pc' = (IF pc = "sleep" THEN "woken" ELSE pc)
      /\ pc' = "woken" \/ sem' > 0
      /\ sem' \in Nat
  BY <1>1 DEF BlinkDelay, SemRelease
<1>3. pc' \in Place /\ pc' # "sleep"
  BY <1>1, <1>2 DEF Place
<1> DEFINE new == [flag |-> led[l].flag \cup {"SHOULD_ON", "ACTIVE", "CORRECT"},
                   pat |-> pat, bak |-> bak, ticks |-> delay]
<1>4. led' = [led EXCEPT ![l] = new] /\ new \in LedType
  <2>1. led[l] \in LedType
    BY <1>1
  <2>2. led[l].flag \cup {"SHOULD_ON", "ACTIVE", "CORRECT"} \in SUBSET Flag
    BY <2>1 DEF LedType, Flag
  <2> QED
    BY <2>2 DEF BlinkDelay, LedType
<1>5. "INIT" \in new.flag
  OBVIOUS
<1> HIDE DEF new
<1>6. led' \in [Slot -> LedType]
  BY <1>1, <1>4
<1>7. \A k \in Slot : "INIT" \in led'[k].flag <=> "INIT" \in led[k].flag
  BY <1>1, <1>4, <1>5
<1>9. WaitInv'
  BY <1>2 DEF Inv, WaitInv
<1>10. ActiveInv'
  <2>1. \A k \in Slot : "ACTIVE" \in led'[k].flag => "INIT" \in led'[k].flag
    BY <1>1, <1>4, <1>5 DEF Inv, ActiveInv
  <2>2. pc' # "none"
    BY <1>2 DEF Inv, ActiveInv, DaemonServesSlots
  <2>3. Loaded' => Loaded
    BY <1>2 DEF Loaded
  <2> QED
    BY <2>1, <2>2, <2>3 DEF Inv, ActiveInv, DaemonServesSlots
<1>11. RegInv' /\ CorrectionPending'
  BY <1>2 DEF RegInv, CorrectionPending
<1> QED
  BY <1>2, <1>3, <1>6, <1>7, <1>9, <1>10, <1>11

\* A request keeps the invariant, whether it starts the slot, replaces an endless
\* pattern or is saved.
LEMMA RequestKeeps ==
  ASSUME Inv, NEW l \in Slot, NEW pat \in PatternType, "INIT" \in led[l].flag,
         easyblink(l, pat), UNCHANGED <<i, wait>>, callerFrame, boot' \in 0..4
  PROVE  /\ CallInv'
         /\ \A k \in Slot : "INIT" \in led'[k].flag <=> "INIT" \in led[k].flag
         /\ pc' = (IF pc = "sleep" THEN "woken" ELSE pc) \/ pc' = pc
<1>1. led[l].pat \in PatternType /\ led[l].bak \in PatternType /\ WAIT_START \in Int
  BY SlotFields, EasyBlinkAssumption DEF Inv
<1>2. /\ i' = i /\ wait' = wait /\ reg' = reg /\ left' = left /\ slept' = slept /\ late' = late
      /\ calls' = calls
  BY DEF callerFrame
<1>3. CASE Replace(l, pat)
  <2>1. pin' \in [Slot -> BOOLEAN] /\ since' \in [Slot -> Nat]
    BY <1>3, LightTypes DEF Replace, Inv
  <2>2. BlinkDelay(l, pat, led[l].pat, WAIT_START)
    BY <1>3 DEF Replace
  <2>3. /\ led' \in [Slot -> LedType]
        /\ sem' \in Nat /\ pc' \in Place /\ (pc' = "sleep" => left' > 0)
        /\ WaitInv' /\ ActiveInv' /\ RegInv' /\ CorrectionPending'
        /\ \A k \in Slot : "INIT" \in led'[k].flag <=> "INIT" \in led[k].flag
        /\ pc' = (IF pc = "sleep" THEN "woken" ELSE pc)
    BY <1>1, <1>2, <2>2, BlinkDelayKeeps
  <2>4. TypeOK'
    BY <1>2, <2>1, <2>3 DEF Inv, TypeOK
  <2> QED
    BY <2>3, <2>4 DEF CallInv
<1>4. CASE Start(l, pat)
  <2>1. pin' = pin /\ since' = since
    BY <1>4 DEF Start
  <2>2. BlinkDelay(l, pat, led[l].bak, 0)
    BY <1>4 DEF Start
  <2>3. /\ led' \in [Slot -> LedType]
        /\ sem' \in Nat /\ pc' \in Place /\ (pc' = "sleep" => left' > 0)
        /\ WaitInv' /\ ActiveInv' /\ RegInv' /\ CorrectionPending'
        /\ \A k \in Slot : "INIT" \in led'[k].flag <=> "INIT" \in led[k].flag
        /\ pc' = (IF pc = "sleep" THEN "woken" ELSE pc)
    BY <1>1, <1>2, <2>2, BlinkDelayKeeps
  <2>4. TypeOK'
    BY <1>2, <2>1, <2>3 DEF Inv, TypeOK
  <2> QED
    BY <2>3, <2>4 DEF CallInv
<1>5. CASE Save(l, pat)
  <2>1. /\ led' = [led EXCEPT ![l].bak = pat]
        /\ pin' = pin /\ sem' = sem /\ pc' = pc /\ since' = since
    BY <1>5 DEF Save
  <2>2. led \in [Slot -> LedType] /\ led' \in [Slot -> LedType]
    BY <2>1, SlotTypes DEF Inv, TypeOK
  <2>3. \A k \in Slot : led'[k].flag = led[k].flag
    BY <2>1, <2>2 DEF LedType
  <2>5. TypeOK'
    BY <1>2, <2>1, <2>2 DEF Inv, TypeOK
  <2>6. WaitInv' /\ ActiveInv'
    BY <1>2, <2>1, <2>3 DEF Inv, WaitInv, ActiveInv, Loaded, DaemonServesSlots
  <2>7. i \in Slot
    BY DEF Inv, TypeOK
  <2>8. RegInv' /\ CorrectionPending'
    BY <1>2, <2>1, <2>3, <2>7 DEF Inv, RegInv, CorrectionPending
  <2> QED
    BY <2>1, <2>3, <2>5, <2>6, <2>8 DEF CallInv
<1> QED
  BY <1>3, <1>4, <1>5 DEF easyblink

\* Initialising a slot keeps the invariant: a daemon that is created finds no
\* slot blinking.
LEMMA InitLedKeeps ==
  ASSUME Inv, easyblink_init_led, callerFrame, boot' \in 0..4
  PROVE  CallInv'
<1>1. led \in [Slot -> LedType] /\ i \in Slot
  BY DEF Inv, TypeOK
<1>2. /\ reg' = reg /\ left' = left /\ slept' = slept /\ late' = late
      /\ calls' = calls
  BY DEF callerFrame
<1>3. CASE Full
  <2>1. UNCHANGED <<led, pin, since, pc, i, wait, sem>>
    BY <1>3 DEF easyblink_init_led
  <2> QED
    BY <1>2, <2>1 DEF Inv, CallInv, TypeOK, WaitInv, ActiveInv, RegInv, CorrectionPending,
       Loaded, DaemonServesSlots
<1>4. CASE ~Full
  <2>1. /\ led' = [led EXCEPT ![FirstFree].flag = @ \cup {"INIT"}]
        /\ Light(FirstFree, FALSE)
    BY <1>4 DEF easyblink_init_led
  <2>2. /\ led' \in [Slot -> LedType]
        /\ \A k \in Slot : /\ led[k].flag \subseteq led'[k].flag
                           /\ led'[k].flag \subseteq led[k].flag \cup {"INIT"}
    <3>1. CASE FirstFree \in Slot
      <4>1. led[FirstFree].flag \cup {"INIT"} \in SUBSET Flag
        BY <1>1, <3>1 DEF LedType, Flag
      <4>2. led' \in [Slot -> LedType]
        BY <1>1, <2>1, <3>1, <4>1, SlotTypes
      <4> QED
        BY <1>1, <2>1, <3>1, <4>2 DEF LedType
    <3>2. CASE FirstFree \notin Slot
      <4>1. led' = led
        BY <1>1, <2>1, <3>2
      <4> QED
        BY <1>1, <4>1
    <3> QED
      BY <3>1, <3>2
  <2>3. pin' \in [Slot -> BOOLEAN] /\ since' \in [Slot -> Nat]
    BY <2>1 DEF Inv, TypeOK, Light
  <2>4. CASE pc # "none"
    <3>1. pc' = pc /\ i' = i /\ wait' = wait /\ sem' = sem
      BY <2>4 DEF easyblink_init_led
    <3>2. TypeOK'
      BY <1>2, <2>2, <2>3, <3>1 DEF Inv, TypeOK
    <3>3. WaitInv' /\ ActiveInv'
      BY <1>2, <2>2, <2>4, <3>1 DEF Inv, WaitInv, ActiveInv, Loaded, DaemonServesSlots
    <3>4. RegInv' /\ CorrectionPending'
      BY <1>1, <1>2, <2>2, <3>1 DEF Inv, RegInv, CorrectionPending
    <3> QED
      BY <3>2, <3>3, <3>4 DEF CallInv
  <2>5. CASE pc = "none"
    <3>1. pc' = "begin" /\ i' = 1 /\ wait' = 0 /\ sem' = 0
      BY <1>4, <2>5 DEF easyblink_init_led
    <3>2. 1 \in Slot /\ "begin" \in Place
      BY EasyBlinkAssumption DEF Slot, Place
    <3>3. TypeOK'
      BY <1>2, <2>2, <2>3, <3>1, <3>2 DEF Inv, TypeOK
    <3>4. \A k \in Slot : "INIT" \notin led[k].flag /\ "ACTIVE" \notin led[k].flag
      BY <2>5 DEF Inv, ActiveInv, DaemonServesSlots
    <3>5. \A k \in Slot : "ACTIVE" \notin led'[k].flag
      BY <2>2, <3>4
    <3>6. WaitInv' /\ ActiveInv'
      BY <3>1, <3>5 DEF WaitInv, ActiveInv, Loaded, DaemonServesSlots
    <3>7. RegInv' /\ CorrectionPending'
      BY <3>1, <3>5 DEF RegInv, CorrectionPending
    <3> QED
      BY <3>3, <3>6, <3>7 DEF CallInv
  <2> QED
    BY <2>4, <2>5
<1> QED
  BY <1>3, <1>4

\* The first slot that is free, while main fills them in order.
LEMMA BootSlots ==
  ASSUME led \in [Slot -> LedType], NEW l \in Slot,
         \A k \in Slot : "INIT" \in led[k].flag <=> k < l
  PROVE  ~Full /\ FirstFree = l
<1>1. ~Full
  BY DEF Full, Slot
<1>2. "INIT" \notin led[l].flag /\ \A k \in 1..(l-1) : "INIT" \in led[k].flag
  BY EasyBlinkAssumption DEF Slot
<1>3. \A m \in Slot : "INIT" \notin led[m].flag /\ (\A k \in 1..(m-1) : "INIT" \in led[k].flag)
        => m = l
  <2> SUFFICES ASSUME NEW m \in Slot, "INIT" \notin led[m].flag,
                      \A k \in 1..(m-1) : "INIT" \in led[k].flag
               PROVE  m = l
    OBVIOUS
  <2>1. m >= l
    BY DEF Slot
  <2>2. ~(l < m)
    BY <1>2 DEF Slot
  <2> QED
    BY <2>1, <2>2 DEF Slot
<1> QED
  BY <1>1, <1>2, <1>3 DEF FirstFree

\* main.c:64-67: initialise, start, initialise, start.
LEMMA BootPreserves == Inv /\ Boot => Inv'
<1> SUFFICES ASSUME Inv, Boot PROVE Inv'
  OBVIOUS
<1>1. /\ boot \in 1..4 /\ boot' = boot - 1 /\ callerFrame /\ boot' \in 0..4
      /\ led \in [Slot -> LedType] /\ pc \in {"none", "begin"}
      /\ 1 \in Slot /\ 2 \in Slot
  BY EasyBlinkAssumption DEF Boot, Inv, TypeOK, BootInv, Slot
<1>2. CASE boot \in {4, 2} /\ easyblink_init_led
  <2>1. CallInv'
    BY <1>1, <1>2, InitLedKeeps
  <2>2. pc' \in {"none", "begin"}
    BY <1>1, <1>2 DEF easyblink_init_led
  <2>3. CASE boot = 4
    <3>1. ~Full /\ FirstFree = 1
      <4>1. \A k \in Slot : "INIT" \in led[k].flag <=> k < 1
        BY <2>3 DEF Inv, BootInv, Slot
      <4> QED
        BY <1>1, <4>1, BootSlots
    <3>2. led' = [led EXCEPT ![1].flag = @ \cup {"INIT"}]
      BY <1>2, <3>1 DEF easyblink_init_led
    <3>3. \A k \in Slot : "INIT" \in led'[k].flag <=> k = 1
      BY <1>1, <2>3, <3>2 DEF Inv, BootInv, LedType
    <3> QED
      BY <1>1, <2>1, <2>2, <2>3, <3>3 DEF CallInv, Inv, BootInv
  <2>4. CASE boot = 2
    <3>1. ~Full /\ FirstFree = 2
      <4>1. \A k \in Slot : "INIT" \in led[k].flag <=> k < 2
        BY <2>4 DEF Inv, BootInv, Slot
      <4> QED
        BY <1>1, <4>1, BootSlots
    <3>2. led' = [led EXCEPT ![2].flag = @ \cup {"INIT"}]
      BY <1>2, <3>1 DEF easyblink_init_led
    <3>3. \A k \in Slot : "INIT" \in led'[k].flag <=> k \in {1, 2}
      BY <1>1, <2>4, <3>2 DEF Inv, BootInv, LedType
    <3> QED
      BY <1>1, <2>1, <2>2, <2>4, <3>3 DEF CallInv, Inv, BootInv
  <2> QED
    BY <1>2, <2>3, <2>4
<1>3. CASE boot = 3 /\ easyblink(1, Endless) /\ UNCHANGED <<i, wait>>
  <2>1. "INIT" \in led[1].flag /\ \A k \in Slot : "INIT" \in led[k].flag <=> k = 1
    BY <1>1, <1>3 DEF Inv, BootInv
  <2>2. /\ CallInv'
        /\ \A k \in Slot : "INIT" \in led'[k].flag <=> "INIT" \in led[k].flag
        /\ pc' = (IF pc = "sleep" THEN "woken" ELSE pc) \/ pc' = pc
    BY <1>1, <1>3, <2>1, RequestKeeps, CalledPatterns
  <2> QED
    BY <1>1, <1>3, <2>1, <2>2 DEF CallInv, Inv, BootInv
<1>4. CASE boot = 1 /\ (\E n \in COUNTS : easyblink(2, Burst(n))) /\ UNCHANGED <<i, wait>>
  <2>1. "INIT" \in led[2].flag /\ boot' = 0
    BY <1>1, <1>4 DEF Inv, BootInv
  <2>2. CallInv'
    BY <1>1, <1>4, <2>1, RequestKeeps, CalledPatterns
  <2> QED
    BY <2>1, <2>2 DEF CallInv, Inv, BootInv
<1> QED
  BY <1>2, <1>3, <1>4 DEF Boot

\* A later request.
LEMMA CallBlinkPreserves == Inv /\ CallBlink => Inv'
<1> SUFFICES ASSUME Inv, CallBlink PROVE Inv'
  OBVIOUS
<1>1. PICK l \in Users :
        \/ "burst" \in calls /\ \E n \in COUNTS : easyblink(l, Burst(n))
        \/ "endless" \in calls /\ easyblink(l, Endless)
  BY DEF CallBlink
<1>2. l \in Slot /\ "INIT" \in led[l].flag
  BY <1>1, EasyBlinkAssumption DEF Users, Slot
<1>3. PICK pat \in PatternType : easyblink(l, pat)
  BY <1>1, CalledPatterns
<1>4. UNCHANGED <<i, wait>> /\ callerFrame /\ boot' = 0 /\ boot' \in 0..4
  BY DEF CallBlink
<1>5. CallInv'
  BY <1>2, <1>3, <1>4, RequestKeeps
<1> QED
  BY <1>4, <1>5 DEF CallInv, Inv, BootInv

\* A stopped slot is no longer blinking.
LEMMA CallStopPreserves == Inv /\ CallStop => Inv'
<1> SUFFICES ASSUME Inv, CallStop PROVE Inv'
  OBVIOUS
<1>1. PICK l \in Users : easyblink_stop(l)
  BY DEF CallStop
<1>2. l \in Slot
  BY <1>1, EasyBlinkAssumption DEF Users, Slot
<1>3. /\ boot' = 0 /\ UNCHANGED <<i, wait, slept, left, reg, late, sem, pc, calls>>
  BY <1>1 DEF CallStop, callerFrame, easyblink_stop
<1>4. pin' \in [Slot -> BOOLEAN] /\ since' \in [Slot -> Nat]
  BY <1>1, <1>2, LightTypes DEF easyblink_stop, Inv
<1>5. /\ led' \in [Slot -> LedType]
      /\ \A k \in Slot : /\ led'[k].flag \subseteq led[k].flag
                         /\ "INIT" \in led[k].flag => "INIT" \in led'[k].flag
  <2>1. led' = [led EXCEPT ![l] = [flag |-> @.flag \ {"ACTIVE"}, pat |-> @.pat,
                                  bak |-> NoPattern, ticks |-> @.ticks]]
    BY <1>1 DEF easyblink_stop
  <2>2. NoPattern \in PatternType /\ led \in [Slot -> LedType] /\ led[l].flag \in SUBSET Flag
    BY <1>2, CalledPatterns, SlotFields DEF Inv, TypeOK
  <2> DEFINE new == [flag |-> led[l].flag \ {"ACTIVE"}, pat |-> led[l].pat,
                     bak |-> NoPattern, ticks |-> led[l].ticks]
  <2>3. led[l] \in LedType
    BY <1>2, <2>2
  <2>4. new \in LedType
    BY <2>2, <2>3 DEF LedType
  <2>5. led' = [led EXCEPT ![l] = new]
    BY <2>1
  <2>6. new.flag = led[l].flag \ {"ACTIVE"}
    OBVIOUS
  <2> HIDE DEF new
  <2>7. led' \in [Slot -> LedType] /\ led'[l] = new
    BY <1>2, <2>2, <2>4, <2>5
  <2>8. \A k \in Slot : k # l => led'[k] = led[k]
    BY <2>2, <2>5
  <2> QED
    BY <2>6, <2>7, <2>8
<1>6. TypeOK'
  BY <1>3, <1>4, <1>5 DEF Inv, TypeOK
<1>7. WaitInv' /\ BootInv'
  BY <1>3 DEF Inv, WaitInv, BootInv
<1>8. ActiveInv'
  <2>1. \A k \in Slot : "ACTIVE" \in led'[k].flag => "INIT" \in led'[k].flag
    BY <1>5 DEF Inv, ActiveInv
  <2>2. DaemonServesSlots'
    BY <1>3, <1>5 DEF Inv, ActiveInv, DaemonServesSlots
  <2> QED
    BY <1>3, <2>1, <2>2 DEF Inv, ActiveInv, Loaded
<1>9. RegInv' /\ CorrectionPending'
  <2>1. i \in Slot
    BY DEF Inv, TypeOK
  <2> QED
    BY <1>3, <1>5, <2>1 DEF Inv, RegInv, CorrectionPending
<1> QED
  BY <1>6, <1>7, <1>8, <1>9 DEF Inv

\* A later initialisation.
LEMMA CallInitPreserves == Inv /\ CallInit => Inv'
<1> SUFFICES ASSUME Inv, CallInit PROVE Inv'
  OBVIOUS
<1>1. boot' = 0 /\ boot' \in 0..4
  BY DEF CallInit
<1>2. CallInv'
  BY <1>1, InitLedKeeps DEF CallInit
<1> QED
  BY <1>1, <1>2 DEF CallInv, Inv, BootInv

\* A wiped slot is not blinking; with the last slot goes the daemon.
LEMMA CallDeinitPreserves == Inv /\ CallDeinit => Inv'
<1> SUFFICES ASSUME Inv, CallDeinit PROVE Inv'
  OBVIOUS
<1>1. PICK l \in Slot : easyblink_deinit(l)
  BY DEF CallDeinit
<1>2. boot = 0 /\ boot' = 0 /\ calls' = calls
  BY DEF CallDeinit
<1>3. pin' \in [Slot -> BOOLEAN] /\ since' \in [Slot -> Nat]
  BY <1>1, LightTypes DEF easyblink_deinit, Inv
<1>5. Unused \in LedType /\ led \in [Slot -> LedType] /\ led' = [led EXCEPT ![l] = Unused]
  BY <1>1, CalledPatterns DEF easyblink_deinit, Inv, TypeOK, Unused, LedType
<1>6. led' \in [Slot -> LedType] /\ led'[l].flag = {} /\ \A k \in Slot \ {l} : led'[k] = led[k]
  BY <1>5 DEF Unused
<1>7. CASE \E k \in Slot : "INIT" \in led'[k].flag
  <2>1. UNCHANGED <<pc, i, wait, slept, left, reg, late, sem>>
    BY <1>1, <1>7 DEF easyblink_deinit
  <2>2. TypeOK'
    BY <1>2, <1>3, <1>6, <2>1 DEF Inv, TypeOK
  <2>3. WaitInv' /\ BootInv'
    BY <1>2, <2>1 DEF Inv, WaitInv, BootInv
  <2>4. ActiveInv'
    BY <1>6, <2>1 DEF Inv, ActiveInv, Loaded, DaemonServesSlots
  <2>5. i \in Slot
    BY DEF Inv, TypeOK
  <2>6. RegInv' /\ CorrectionPending'
    BY <1>6, <2>1, <2>5 DEF Inv, RegInv, CorrectionPending
  <2> QED
    BY <2>2, <2>3, <2>4, <2>6 DEF Inv
<1>8. CASE ~\E k \in Slot : "INIT" \in led'[k].flag
  <2>1. /\ pc' = "none" /\ i' = 1 /\ wait' = 0 /\ slept' = 0 /\ left' = 0
        /\ reg' = NoReg /\ late' = 0 /\ sem' = 0
    BY <1>1, <1>8 DEF easyblink_deinit
  <2>2. 1 \in Slot /\ "none" \in Place /\ NoReg \in [flag : SUBSET Flag, num : Int]
    BY EasyBlinkAssumption, RegTypes DEF Slot, Place, Inv
  <2>3. TypeOK'
    BY <1>2, <1>3, <1>6, <2>1, <2>2 DEF Inv, TypeOK
  <2>4. \A k \in Slot : "ACTIVE" \notin led'[k].flag
    BY <1>6, <1>8 DEF Inv, ActiveInv
  <2> QED
    BY <1>2, <1>8, <2>1, <2>3, <2>4
       DEF Inv, WaitInv, BootInv, ActiveInv, Loaded, DaemonServesSlots, RegInv, CorrectionPending
<1> QED
  BY <1>7, <1>8

\* The tick ends a wait only when its time is over.
LEMMA TickPreserves == Inv /\ Tick => Inv'
<1> SUFFICES ASSUME Inv, Tick PROVE Inv'
  OBVIOUS
<1>1. UNCHANGED <<led, pin, sem, i, wait, reg, boot, calls>> /\ boot = 0
  BY DEF Tick
<1>2. SINCE_MAX \in Nat
  BY EasyBlinkAssumption DEF SINCE_MAX
<1>3. since' \in [Slot -> Nat]
  BY <1>2 DEF Tick, Inv, TypeOK, Least
<1>4. late' \in Nat /\ slept' \in Nat
  BY DEF Tick, Inv, TypeOK
<1>5. /\ left' \in Nat
      /\ pc' = "sleep" => pc = "sleep" /\ left' > 0
      /\ pc' = pc \/ (pc = "sleep" /\ pc' = "out")
  BY DEF Tick, Inv, TypeOK
<1>6. pc' \in Place
  BY <1>5 DEF Inv, TypeOK, Place
<1>7. TypeOK'
  BY <1>1, <1>3, <1>4, <1>5, <1>6 DEF Inv, TypeOK
<1>8. WaitInv'
  BY <1>1, <1>5 DEF Inv, WaitInv
<1>9. BootInv' /\ RegInv'
  BY <1>1, <1>5 DEF Inv, BootInv, RegInv
<1>10. ActiveInv'
  BY <1>1, <1>5 DEF Inv, ActiveInv, Loaded, DaemonServesSlots
<1>11. CorrectionPending'
  BY <1>1, <1>5 DEF Inv, CorrectionPending
<1> QED
  BY <1>7, <1>8, <1>9, <1>10, <1>11 DEF Inv

----------------------------------------------------------------------------
(* The invariant.                                                           *)

\* Before main starts the daemon, no slot is in use.
LEMMA InitInv == Init => Inv
<1> SUFFICES ASSUME Init PROVE Inv
  OBVIOUS
<1>1. 1 \in Slot /\ "none" \in Place /\ SINCE_MAX \in Nat
  BY EasyBlinkAssumption DEF Slot, Place, SINCE_MAX
<1>2. Unused \in LedType /\ Unused.flag = {}
  BY CalledPatterns DEF Unused, LedType
<1>3. NoReg \in [flag : SUBSET Flag, num : Int]
  BY DEF NoReg
<1>4. led = [l \in Slot |-> Unused] /\ pin \in [Slot -> BOOLEAN] /\ since \in [Slot -> Nat]
  BY <1>1 DEF Init
<1>5. TypeOK
  <2> HIDE DEF LedType
  <2> QED
    BY <1>1, <1>2, <1>3, <1>4 DEF Init, TypeOK
<1>6. WaitInv /\ BootInv /\ ActiveInv /\ RegInv /\ CorrectionPending
  BY <1>2, <1>4 DEF Init, WaitInv, BootInv, ActiveInv, Loaded, DaemonServesSlots, RegInv,
     CorrectionPending
<1> QED
  BY <1>5, <1>6 DEF Inv

LEMMA DaemonPreserves == Inv /\ Daemon => Inv'
  BY BeginPreserves, MinTicksPreserves, EnterPreserves, SemTakePreserves, TimedOutPreserves,
     WokenPreserves, CorrectLoadPreserves, CorrectStorePreserves, WorkLoadPreserves,
     WorkStorePreserves, TestPreserves, TurnOnPreserves, OnLoadPreserves, OnStorePreserves,
     OnTicksPreserves, TurnOffPreserves, OffLoadPreserves, OffStorePreserves,
     OffTicksPreserves, DecrementPreserves, SpentPreserves, EndLoadPreserves,
     EndStorePreserves, RestoreNumsPreserves, RestoreTimesPreserves, RestoreClearPreserves
     DEF Daemon

LEMMA NextInv == Inv /\ [Next]_vars => Inv'
<1> SUFFICES ASSUME Inv, [Next]_vars PROVE Inv'
  OBVIOUS
<1>1. CASE Boot
  BY <1>1, BootPreserves
<1>2. CASE CallBlink
  BY <1>2, CallBlinkPreserves
<1>3. CASE CallStop
  BY <1>3, CallStopPreserves
<1>4. CASE CallInit
  BY <1>4, CallInitPreserves
<1>5. CASE CallDeinit
  BY <1>5, CallDeinitPreserves
<1>6. CASE Daemon
  BY <1>6, DaemonPreserves
<1>7. CASE Tick
  BY <1>7, TickPreserves
<1>8. CASE UNCHANGED vars
  BY <1>8 DEF vars, daemonVars, Inv, TypeOK, WaitInv, ActiveInv, Loaded,
     DaemonServesSlots, BootInv, RegInv, CorrectionPending
<1> QED
  BY <1>1, <1>2, <1>3, <1>4, <1>5, <1>6, <1>7, <1>8 DEF Next

\* Inv is an invariant of the daemon and its callers.
THEOREM Invariance == Spec => []Inv
  BY InitInv, NextInv, PTL DEF Spec

\* The daemon's state keeps its types, and it sleeps only for a time it chose
\* (easyblink.c:312-395).
THEOREM EasyBlinkTypeCorrect == Spec => []TypeOK
<1>1. Inv => TypeOK
  BY DEF Inv
<1> QED
  BY <1>1, Invariance, PTL

\* A slot that is not to be charged for the current wait has a wake-up on its way
\* that will say so (easyblink.c:267, 412-428), wherever the callers cut into the
\* daemon's loads and stores.
THEOREM CorrectionsPending == Spec => []CorrectionPending
<1>1. Inv => CorrectionPending
  BY DEF Inv
<1> QED
  BY <1>1, Invariance, PTL

\* A slot in use has a daemon, however init and deinit interleave with the
\* daemon's stores to a slot that was wiped (easyblink.c:54-173).
THEOREM DaemonServes == Spec => []DaemonServesSlots
<1>1. Inv => DaemonServesSlots
  BY DEF Inv, ActiveInv
<1> QED
  BY <1>1, Invariance, PTL

----------------------------------------------------------------------------
(* With the lock: no request is stranded in a backup.                       *)

LockPart == BackupInv /\ NothingStranded

\* Places the parts of BackupInv speak about.
Special == {"correct", "on_store", "off_store", "end_store", "end_load",
            "restore", "restore_times"}

\* A step that changes at most ticks.
LEMMA QuietKeeps ==
  ASSUME LockPart, pc # "restore_times", pc' \notin Special,
         \A l \in Slot : /\ led'[l].flag = led[l].flag
                         /\ led'[l].bak = led[l].bak /\ led'[l].pat = led[l].pat
  PROVE  LockPart'
  BY DEF LockPart, BackupInv, NothingStranded, Loaded, Special

\* A load of the flags; before the end of a burst the backup was empty.
LEMMA LoadKeepsBackup ==
  ASSUME LockPart, led' = led, i' = i, reg'.flag = led[i].flag, pc # "restore_times",
         \/ pc' \in {"correct", "on_store", "off_store"}
         \/ pc = "end_load" /\ pc' = "end_store"
  PROVE  LockPart'
  BY DEF LockPart, BackupInv, NothingStranded, Loaded

\* A store of flags that still hold ACTIVE, or of a slot with an empty backup.
LEMMA StoreKeepsBackup ==
  ASSUME Inv, LockPart, Loaded, NEW f \in SUBSET Flag, led' = [led EXCEPT ![i].flag = f],
         pc' \notin Special, "ACTIVE" \in led[i].flag => "ACTIVE" \in f \/ led[i].bak = NoPattern
  PROVE  LockPart'
<1>1. led \in [Slot -> LedType] /\ i \in Slot
  BY DEF Inv, TypeOK
<1>2. \A l \in Slot : /\ led'[l].bak = led[l].bak /\ led'[l].pat = led[l].pat
                      /\ l # i => led'[l] = led[l]
  BY <1>1 DEF LedType
<1>3. led'[i].flag = f
  BY <1>1 DEF LedType
<1>4. BackupInv'
  BY <1>2 DEF LockPart, BackupInv, Loaded, Special
<1>5. NothingStranded'
  BY <1>2, <1>3 DEF LockPart, NothingStranded
<1> QED
  BY <1>4, <1>5 DEF LockPart

\* The daemon's steps.
LEMMA DaemonKeepsBackup == Inv /\ LockPart /\ Daemon => LockPart'
<1> SUFFICES ASSUME Inv, LockPart, Daemon PROVE LockPart'
  OBVIOUS
<1>1. led \in [Slot -> LedType] /\ i \in Slot
  BY DEF Inv, TypeOK
<1>2. led[i] \in LedType /\ led[i].flag \in SUBSET Flag /\ reg.flag \in SUBSET Flag
  BY <1>1, SlotFields, RegTypes DEF Inv
<1>3. CASE Begin \/ Enter \/ SemTake \/ TimedOut \/ Woken \/ WorkLoad \/ TurnOn \/ TurnOff
  <2>1. led' = led /\ pc # "restore_times" /\ pc' \notin Special
    BY <1>3 DEF Begin, Enter, SemTake, TimedOut, Woken, WorkLoad, TurnOn, TurnOff, At, GoTo,
       Special
  <2> QED
    BY <2>1, QuietKeeps
<1>4. CASE MinTicks \/ Test
  <2>1. CASE MinTicks
    <3>1. led' = led /\ pc # "restore_times" /\ pc' \notin Special
      BY <2>1 DEF MinTicks, NextMin, At, Special
    <3> QED
      BY <3>1, QuietKeeps
  <2>2. CASE Test
    <3>1. led' = led /\ pc # "restore_times" /\ pc' \notin Special
      BY <2>2 DEF Test, NextSlot, At, GoTo, Special
    <3> QED
      BY <3>1, QuietKeeps
  <2> QED
    BY <1>4, <2>1, <2>2
<1>5. CASE CorrectLoad
  <2>1. led' = led /\ pc = "corr"
    BY <1>5 DEF CorrectLoad, At
  <2>2. CASE "ACTIVE" \in led[i].flag
    <3>1. pc' = "correct" /\ i' = i /\ reg'.flag = led[i].flag
      BY <1>5, <2>2 DEF CorrectLoad, GoTo
    <3> QED
      BY <2>1, <3>1, LoadKeepsBackup
  <2>3. CASE "ACTIVE" \notin led[i].flag
    <3>1. pc' \in {"corr", "enter"}
      BY <1>5, <2>3 DEF CorrectLoad, NextMin
    <3> QED
      BY <2>1, <3>1, QuietKeeps DEF Special
  <2> QED
    BY <2>2, <2>3
<1>6. CASE OnLoad \/ OffLoad \/ EndLoad
  <2>1. led' = led /\ i' = i /\ reg'.flag = led[i].flag
    BY <1>6, RegTypes DEF OnLoad, OffLoad, EndLoad, LoadFlag, GoTo, Inv, TypeOK
  <2>2. /\ pc # "restore_times"
        /\ \/ pc' \in {"correct", "on_store", "off_store"}
           \/ pc = "end_load" /\ pc' = "end_store"
    BY <1>6 DEF OnLoad, OffLoad, EndLoad, LoadFlag, GoTo, At
  <2> QED
    BY <2>1, <2>2, LoadKeepsBackup
<1>7. CASE CorrectStore
  <2>1. /\ pc = "correct" /\ Loaded /\ pc' \in {"corr", "enter"} /\ pc' \notin Special
        /\ reg.flag = led[i].flag
    BY <1>7 DEF CorrectStore, NextMin, At, Loaded, Special, LockPart, BackupInv
  <2>2. CASE "CORRECT" \in reg.flag
    <3>1. led' = [led EXCEPT ![i].flag = reg.flag \ {"CORRECT"}]
      BY <1>7, <2>2 DEF CorrectStore, StoreFlag
    <3>2. reg.flag \ {"CORRECT"} \in SUBSET Flag
      BY <1>2
    <3> QED
      BY <2>1, <3>1, <3>2, StoreKeepsBackup
  <2>3. CASE "CORRECT" \notin reg.flag
    <3>1. led' = [led EXCEPT ![i].ticks = reg.num - slept]
      BY <1>7, <2>3 DEF CorrectStore, StoreTicks
    <3>2. \A l \in Slot : /\ led'[l].flag = led[l].flag
                          /\ led'[l].bak = led[l].bak /\ led'[l].pat = led[l].pat
      BY <1>1, <3>1 DEF LedType
    <3> QED
      BY <2>1, <3>2, QuietKeeps
  <2> QED
    BY <2>2, <2>3
<1>8. CASE WorkStore \/ OnTicks \/ OffTicks
  <2>1. PICK t : led' = [led EXCEPT ![i].ticks = t]
    BY <1>8 DEF WorkStore, OnTicks, OffTicks, StoreTicks
  <2>2. \A l \in Slot : /\ led'[l].flag = led[l].flag
                        /\ led'[l].bak = led[l].bak /\ led'[l].pat = led[l].pat
    BY <1>1, <2>1 DEF LedType
  <2>3. pc # "restore_times" /\ pc' \notin Special
    BY <1>8 DEF WorkStore, OnTicks, OffTicks, At, GoTo, NextSlot, Special
  <2> QED
    BY <2>2, <2>3, QuietKeeps
<1>9. CASE OnStore \/ OffStore \/ EndStore
  <2>1. Loaded /\ pc' \notin Special /\ reg.flag = led[i].flag
    <3>1. Loaded /\ pc' \notin Special
      BY <1>9 DEF OnStore, OffStore, EndStore, At, GoTo, NextSlot, Special, Loaded
    <3> QED
      BY <3>1 DEF LockPart, BackupInv
  <2>2. CASE OnStore
    <3>1. led' = [led EXCEPT ![i].flag = reg.flag \ {"SHOULD_ON"}]
      BY <2>2 DEF OnStore, StoreFlag
    <3>2. reg.flag \ {"SHOULD_ON"} \in SUBSET Flag
      BY <1>2
    <3> QED
      BY <2>1, <3>1, <3>2, StoreKeepsBackup
  <2>3. CASE OffStore
    <3>1. led' = [led EXCEPT ![i].flag = reg.flag \cup {"SHOULD_ON"}]
      BY <2>3 DEF OffStore, StoreFlag
    <3>2. reg.flag \cup {"SHOULD_ON"} \in SUBSET Flag
      BY <1>2 DEF Flag
    <3> QED
      BY <2>1, <3>1, <3>2, StoreKeepsBackup
  <2>4. CASE EndStore
    <3>1. led' = [led EXCEPT ![i].flag = reg.flag \ {"ACTIVE"}] /\ pc = "end_store"
      BY <2>4 DEF EndStore, StoreFlag, At
    <3>2. reg.flag \ {"ACTIVE"} \in SUBSET Flag
      BY <1>2
    <3>3. led[i].bak = NoPattern
      BY <3>1 DEF LockPart, BackupInv
    <3> QED
      BY <2>1, <3>1, <3>2, <3>3, StoreKeepsBackup
  <2> QED
    BY <1>9, <2>2, <2>3, <2>4
<1>10. CASE Decrement
  <2>1. pc = "dec" /\ pc' \notin Special
    BY <1>10 DEF Decrement, At, NextSlot, Special
  <2>2. CASE reg.num > 0
    <3>1. led' = [led EXCEPT ![i].pat.nums = reg.num - 1]
      BY <1>10, <2>2 DEF Decrement
    <3>2. \A l \in Slot : /\ led'[l].flag = led[l].flag /\ led'[l].bak = led[l].bak
                          /\ led'[l].pat = led[l].pat \/ (l = i /\ led'[l].pat.nums = reg.num - 1)
      BY <1>1, <3>1 DEF LedType, PatternType
    <3>3. reg.num - 1 # -1
      BY <2>2, RegTypes DEF Inv
    <3> QED
      BY <2>1, <3>2, <3>3 DEF LockPart, BackupInv, NothingStranded, Loaded, Special
  <2>3. CASE ~(reg.num > 0)
    <3>1. led' = led
      BY <1>10, <2>3 DEF Decrement
    <3> QED
      BY <2>1, <3>1, QuietKeeps
  <2> QED
    BY <2>2, <2>3
<1>11. CASE Spent
  <2>1. /\ pc = "spent" /\ led' = led /\ i' = i
        /\ pc' = (IF led[i].bak.pulse # 0 THEN "restore" ELSE "end_load")
    BY <1>11 DEF Spent, At, GoTo
  <2>2. led[i].bak = NoPattern \/ led[i].bak.pulse > 0
    BY <1>1 DEF LockPart, BackupInv
  <2>3. NoPattern.pulse = 0
    BY DEF NoPattern, Pattern
  <2>4. /\ pc' = "restore" => led[i].bak.pulse > 0
        /\ pc' = "end_load" => led[i].bak = NoPattern
        /\ pc' \in {"restore", "end_load"}
    BY <2>1, <2>2, <2>3
  <2> QED
    BY <2>1, <2>4 DEF LockPart, BackupInv, NothingStranded, Loaded
<1>12. CASE RestoreNums
  <2>1. /\ pc = "restore" /\ pc' = "restore_times" /\ i' = i
        /\ led' = [led EXCEPT ![i].pat.nums = led[i].bak.nums]
    BY <1>12 DEF RestoreNums, At, GoTo
  <2>2. \A l \in Slot : /\ led'[l].flag = led[l].flag /\ led'[l].bak = led[l].bak
                        /\ l # i => led'[l].pat = led[l].pat
    BY <1>1, <2>1 DEF LedType
  <2> QED
    BY <1>1, <2>1, <2>2 DEF LockPart, BackupInv, NothingStranded, Loaded
<1>13. CASE RestoreTimes
  <2>1. /\ pc = "restore_times" /\ pc' = "restore_clear" /\ i' = i
        /\ led' = [led EXCEPT ![i].pat.pulse = led[i].bak.pulse,
                              ![i].pat.npulse = led[i].bak.npulse]
    BY <1>13 DEF RestoreTimes, At, GoTo
  <2>2. \A l \in Slot : /\ led'[l].flag = led[l].flag /\ led'[l].bak = led[l].bak
                        /\ l # i => led'[l].pat = led[l].pat
    BY <1>1, <2>1 DEF LedType
  <2>3. led'[i].pat.pulse = led[i].bak.pulse
    BY <1>1, <1>2, <2>1 DEF LedType, PatternType
  <2> QED
    BY <1>1, <2>1, <2>2, <2>3 DEF LockPart, BackupInv, NothingStranded, Loaded
<1>14. CASE RestoreClear
  <2>1. /\ pc = "restore_clear" /\ pc' \in {"begin", "work"}
        /\ led' = [led EXCEPT ![i].bak = NoPattern,
                              ![i].ticks = IF led[i].pat.nums = -1 THEN WAIT_END ELSE 0]
    BY <1>14 DEF RestoreClear, At, NextSlot
  <2>2. \A l \in Slot : /\ led'[l].flag = led[l].flag /\ led'[l].pat = led[l].pat
                        /\ l # i => led'[l].bak = led[l].bak
    BY <1>1, <2>1 DEF LedType
  <2>3. led'[i].bak = NoPattern
    BY <1>1, <1>2, <2>1 DEF LedType
  <2> QED
    BY <1>1, <2>1, <2>2, <2>3 DEF LockPart, BackupInv, NothingStranded, Loaded
<1> QED
  BY <1>3, <1>4, <1>5, <1>6, <1>7, <1>8, <1>9, <1>10, <1>11, <1>12, <1>13, <1>14 DEF Daemon

\* A pattern the callers ask for is one that blinks.
LEMMA CalledBlink ==
  /\ Endless.pulse > 0
  /\ \A n \in COUNTS : Burst(n).pulse > 0 /\ Burst(n).nums # -1
  BY EasyBlinkAssumption DEF Endless, Burst, Pattern

\* A request, made while the daemon is out of its loop.
LEMMA RequestKeepsBackup ==
  ASSUME Inv, LockPart, NEW l \in Slot, NEW pat \in PatternType, pat.pulse > 0,
         MUTEX = TRUE, easyblink(l, pat), i' = i, reg' = reg
  PROVE  LockPart'
<1>1. led \in [Slot -> LedType] /\ led[l] \in LedType
  BY DEF Inv, TypeOK
<1>2. pc \notin Special /\ pc \in Place
  <2>1. pc \in {"none", "begin", "enter", "take", "sleep", "woken", "out"} /\ pc \in Place
    BY DEF easyblink, MayCall, InLoop, Inv, TypeOK
  <2> QED
    BY <2>1 DEF Special
<1>3. \A k \in Slot : led[k].pat.nums = -1 => led[k].pat.pulse > 0
  BY <1>2 DEF LockPart, BackupInv, Special
<1>4. ASSUME NEW bak, bak = NoPattern \/ bak.pulse > 0, NEW delay, BlinkDelay(l, pat, bak, delay)
      PROVE  LockPart'
  <2> DEFINE new == [flag |-> led[l].flag \cup {"SHOULD_ON", "ACTIVE", "CORRECT"},
                     pat |-> pat, bak |-> bak, ticks |-> delay]
  <2>1. led' = [led EXCEPT ![l] = new]
    BY <1>4 DEF BlinkDelay
  <2>2. "ACTIVE" \in new.flag /\ new.pat = pat /\ new.bak = bak
    OBVIOUS
  <2> HIDE DEF new
  <2>3. led'[l] = new /\ \A k \in Slot : k # l => led'[k] = led[k]
    BY <1>1, <2>1
  <2>4. pc' \notin Special
    BY <1>2, <1>4 DEF BlinkDelay, SemRelease, Special
  <2>5. BackupInv'
    BY <1>3, <1>4, <2>2, <2>3, <2>4 DEF LockPart, BackupInv, Loaded, Special
  <2>6. NothingStranded'
    BY <2>2, <2>3 DEF LockPart, NothingStranded
  <2> QED
    BY <2>5, <2>6 DEF LockPart
<1>5. CASE Replace(l, pat)
  <2>1. BlinkDelay(l, pat, led[l].pat, WAIT_START) /\ led[l].pat.pulse > 0
    BY <1>3, <1>5 DEF Replace
  <2> QED
    BY <1>4, <2>1
<1>6. CASE Start(l, pat)
  <2>1. BlinkDelay(l, pat, led[l].bak, 0)
    BY <1>6 DEF Start
  <2>2. led[l].bak = NoPattern \/ led[l].bak.pulse > 0
    BY DEF LockPart, BackupInv
  <2> QED
    BY <1>4, <2>1, <2>2
<1>7. CASE Save(l, pat)
  <2>1. /\ led' = [led EXCEPT ![l].bak = pat] /\ pc' = pc
        /\ "ACTIVE" \in led[l].flag
    BY <1>7 DEF Save
  <2>2. \A k \in Slot : /\ led'[k].flag = led[k].flag /\ led'[k].pat = led[k].pat
                        /\ led'[k].bak = IF k = l THEN pat ELSE led[k].bak
    BY <1>1, <2>1 DEF LedType
  <2>3. BackupInv'
    BY <1>2, <2>1, <2>2 DEF LockPart, BackupInv, Loaded, Special
  <2>4. NothingStranded'
    BY <2>1, <2>2 DEF LockPart, NothingStranded
  <2> QED
    BY <2>3, <2>4 DEF LockPart
<1> QED
  BY <1>5, <1>6, <1>7 DEF easyblink

\* The start and the tick.
LEMMA RestKeepsBackup ==
  ASSUME Inv, LockPart, Locked, Boot \/ CallBlink \/ Tick \/ UNCHANGED vars
  PROVE  LockPart'
<1>1. led \in [Slot -> LedType]
  BY DEF Inv, TypeOK
<1>2. CASE Boot
  <2>1. callerFrame /\ boot > 0 /\ reg' = reg
    BY <1>2 DEF Boot, callerFrame
  <2>2. pc \in {"none", "begin"}
    BY <2>1 DEF Inv, BootInv
  <2>3. CASE easyblink_init_led
    <3>1. pc' \in {"none", "begin"}
      BY <2>2, <2>3 DEF easyblink_init_led
    <3>2. \A k \in Slot : /\ led[k].flag \subseteq led'[k].flag
                          /\ led'[k].bak = led[k].bak /\ led'[k].pat = led[k].pat
      <4>1. CASE Full
        BY <2>3, <4>1 DEF easyblink_init_led
      <4>2. CASE ~Full
        BY <1>1, <2>3, <4>2 DEF easyblink_init_led, LedType
      <4> QED
        BY <4>1, <4>2
    <3> QED
      BY <2>2, <3>1, <3>2 DEF LockPart, BackupInv, NothingStranded, Loaded
  <2>4. CASE easyblink(1, Endless) /\ UNCHANGED <<i, wait>>
    <3>1. 1 \in Slot
      BY EasyBlinkAssumption DEF Slot
    <3> QED
      BY <2>1, <2>4, <3>1, RequestKeepsBackup, CalledPatterns, CalledBlink DEF Locked
  <2>5. CASE (\E n \in COUNTS : easyblink(2, Burst(n))) /\ UNCHANGED <<i, wait>>
    <3>1. 2 \in Slot
      BY EasyBlinkAssumption DEF Slot
    <3> QED
      BY <2>1, <2>5, <3>1, RequestKeepsBackup, CalledPatterns, CalledBlink DEF Locked
  <2> QED
    BY <1>2, <2>3, <2>4, <2>5 DEF Boot
<1>3. CASE CallBlink
  <2>1. i' = i /\ reg' = reg
    BY <1>3 DEF CallBlink, callerFrame
  <2>2. PICK l \in Users : (\E n \in COUNTS : easyblink(l, Burst(n))) \/ easyblink(l, Endless)
    BY <1>3 DEF CallBlink
  <2>3. l \in Slot
    BY <2>2, EasyBlinkAssumption DEF Users, Slot
  <2> QED
    BY <2>1, <2>2, <2>3, RequestKeepsBackup, CalledPatterns, CalledBlink DEF Locked
<1>4. CASE Tick
  <2>1. /\ led' = led /\ i' = i /\ reg' = reg
        /\ pc' = pc \/ (pc = "sleep" /\ pc' = "out")
    BY <1>4 DEF Tick
  <2>2. CASE pc' = pc
    BY <2>1, <2>2 DEF LockPart, BackupInv, NothingStranded, Loaded
  <2>3. CASE pc = "sleep" /\ pc' = "out"
    BY <2>1, <2>3, QuietKeeps DEF Special
  <2> QED
    BY <2>1, <2>2, <2>3
<1>5. CASE UNCHANGED vars
  BY <1>5 DEF vars, daemonVars, LockPart, BackupInv, NothingStranded, Loaded
<1> QED
  BY <1>2, <1>3, <1>4, <1>5

\* Initially no slot has a pattern.
LEMMA InitBackup == Init => LockPart
<1> SUFFICES ASSUME Init PROVE LockPart
  OBVIOUS
<1>1. pc = "none" /\ \A l \in Slot : led[l] = Unused
  BY DEF Init
<1>2. Unused.bak = NoPattern /\ Unused.pat.nums # -1
  BY DEF Unused, NoPattern, Pattern
<1> QED
  BY <1>1, <1>2 DEF LockPart, BackupInv, NothingStranded, Loaded

\* Built with the lock, and with no calls but easyblink, every request that was
\* put in a backup belongs to a slot that is blinking, whose end will play it
\* (FlexBlink/README.md:99).  Without the lock, as built, it does not.
THEOREM LockStrandsNothing == Locked => (Spec => []NothingStranded)
<1> SUFFICES ASSUME Locked PROVE Spec => []NothingStranded
  OBVIOUS
<1>1. Init => LockPart
  BY InitBackup
<1>2. Inv /\ LockPart /\ [Next]_vars => LockPart'
  <2> SUFFICES ASSUME Inv, LockPart, [Next]_vars PROVE LockPart'
    OBVIOUS
  <2>1. ~CallStop /\ ~CallInit /\ ~CallDeinit
    BY DEF Locked, CallStop, CallInit, CallDeinit, Inv, TypeOK
  <2> QED
    BY <2>1, DaemonKeepsBackup, RestKeepsBackup DEF Next
<1>3. LockPart => NothingStranded
  BY DEF LockPart
<1> QED
  BY <1>1, <1>2, <1>3, Invariance, PTL DEF Spec

----------------------------------------------------------------------------
(* How long a flash lasts.                                                  *)

\* Once main.c has started the error LED on slot 1, only other slots are asked for
\* bursts, as by the beeps of the track.
Sole == Project /\ 1 \notin USED

Lighting == {"on_load", "on_store", "on_ticks"}
OnPlaces == {"on", "on_load", "on_store"}
EndPlaces == {"spent", "end_load", "end_store", "restore", "restore_times", "restore_clear"}
OffPlaces == {"off", "off_load", "off_store", "off_ticks", "dec"}
Working == OnPlaces \cup EndPlaces \cup OffPlaces \cup {"test", "on_ticks"}

\* The patterns are those main.c asks for, and only slot 1 has an endless one.
PatternInv ==
  \A l \in Slot :
    /\ led[l].pat.pulse <= E_PULSE + B_PULSE /\ led[l].bak.pulse <= E_PULSE + B_PULSE
    /\ l # 1 => led[l].pat.nums >= 0 /\ led[l].bak.nums >= 0

\* A slot that is lit is blinking, and waits for the time to go dark.  While main.c
\* makes its first calls none is lit.
LitInv ==
  /\ boot > 0 => \A l \in Slot : ~pin[l]
  /\ boot >= 3 => led[1].pat.nums # -1
  /\ \A l \in Slot : pin[l] =>
       /\ "ACTIVE" \in led[l].flag
       /\ "SHOULD_ON" \in led[l].flag => i = l /\ pc \in {"on_load", "on_store"}

\* What the daemon knows of its slot: no caller changes one that is blinking, so
\* what was loaded of it is not old.  Between its loops it stands at slot 1.
PlaceInv ==
  /\ pc \in {"begin", "enter", "take", "sleep", "out"} => i = 1
  /\ pc \in {"correct", "on_ticks"} \cup OnPlaces \cup EndPlaces \cup OffPlaces
       => "ACTIVE" \in led[i].flag
  /\ pc \in OnPlaces \cup EndPlaces => "SHOULD_ON" \in led[i].flag
  /\ pc \in {"off_load", "off_store", "off_ticks", "dec"} => ~pin[i]
  /\ pc = "off" => led[i].ticks <= 0
  /\ Loaded => reg.flag = led[i].flag
  /\ pc = "correct" => reg.num = led[i].ticks
  /\ pc = "charge" /\ pin[i] => reg.num = led[i].ticks

\* The daemon sleeps only when nobody has called, and not longer than it chose.
SleepInv ==
  /\ pc = "sleep" => sem = 0 /\ slept + left >= wait
  /\ LATE = 0 /\ pc = "take" => slept = 0
  /\ LATE = 0 /\ pc = "sleep" => slept + left = wait

\* The ticks that have passed and are still to be taken off slot l.
Charge(l) ==
  IF pc \in {"take", "sleep", "woken"} \/ (pc \in {"corr", "correct"} /\ i <= l) THEN slept
  ELSE IF pc = "out" \/ (pc \in {"work", "charge"} /\ i <= l) \/ (pc \in Working /\ i < l) THEN wait
  ELSE 0

\* Is slot l lit, with its pulse in ticks?
Lit(l) == pin[l] /\ ~(pc \in Lighting /\ i = l)

\* A slot is charged for no tick that has not passed since it was lit.
ClockInv ==
  \A l \in Slot : Lit(l) =>
    since[l] = SINCE_MAX \/ since[l] >= led[l].pat.pulse - led[l].ticks + Charge(l)

\* If the daemon is never late it is charged for every one, and the daemon never
\* sleeps beyond the end of a flash.
ExactInv ==
  LATE = 0 =>
    /\ pc \in Lighting /\ pin[i] => since[i] = 0
    /\ \A l \in Slot : Lit(l) =>
       /\ since[l] = led[l].pat.pulse - led[l].ticks + Charge(l)
       /\ Charge(l) <= led[l].ticks
       /\ pc \in {"enter", "take", "sleep", "out"} => wait <= led[l].ticks
       /\ pc \in {"min", "corr", "correct"} /\ l < i => wait <= led[l].ticks
       /\ pc = "woken" \/ (pc \in {"corr", "correct"} /\ i <= l) =>
            ("CORRECT" \in led[l].flag => slept = 0)

FlashInv == PatternInv /\ LitInv /\ PlaceInv /\ SleepInv /\ ClockInv /\ ExactInv

\* The types that the arithmetic of the clocks needs.
LEMMA FlashTypes ==
  ASSUME TypeOK
  PROVE  /\ N \in Nat /\ N >= 2 /\ i \in Int /\ 1 <= i /\ i <= N /\ i \in Slot
         /\ wait \in Int /\ slept \in Nat /\ left \in Nat /\ sem \in Nat /\ reg.num \in Int
         /\ pc \in Place /\ boot \in Nat
         /\ \A l \in Slot : /\ l \in Int /\ 1 <= l /\ l <= N
                            /\ since[l] \in Nat /\ pin[l] \in BOOLEAN
                            /\ led[l].ticks \in Int /\ led[l].pat.pulse \in Nat
                            /\ Charge(l) \in Int
<1>1. /\ N \in Nat /\ N >= 2 /\ i \in Slot /\ \A l \in Slot : l \in Int /\ 1 <= l /\ l <= N
  BY EasyBlinkAssumption DEF TypeOK, Slot
<1>2. /\ wait \in Int /\ slept \in Nat /\ left \in Nat /\ sem \in Nat /\ reg.num \in Int
      /\ pc \in Place /\ boot \in Nat
  BY DEF TypeOK
<1>3. ASSUME NEW l \in Slot
      PROVE  /\ since[l] \in Nat /\ pin[l] \in BOOLEAN /\ led[l].ticks \in Int
             /\ led[l].pat.pulse \in Nat /\ Charge(l) \in Int
  <2>1. since[l] \in Nat /\ pin[l] \in BOOLEAN
    BY DEF TypeOK
  <2>2. Charge(l) \in Int
    BY <1>2 DEF Charge
  <2> QED
    BY <2>1, <2>2, SlotFields
<1> QED
  BY <1>1, <1>2, <1>3

\* A step between two slots of the loop, that neither lights nor charges a slot
\* that stays lit.
LEMMA WorkKeepsClock ==
  ASSUME TypeOK, ClockInv, ExactInv,
         pc \in Working \cup {"work", "charge"},
         pc' \in Working \cup {"work", "charge", "begin"},
         wait' = wait,
         \A l \in Slot : Lit(l)' =>
           /\ Lit(l) /\ Charge(l)' = Charge(l) /\ since'[l] = since[l]
           /\ led'[l].pat.pulse = led[l].pat.pulse /\ led'[l].ticks = led[l].ticks,
         LATE = 0 /\ pc' \in Lighting /\ pin'[i'] => since'[i'] = 0
  PROVE  SleepInv' /\ ClockInv' /\ ExactInv'
<1>1. pc' \notin {"enter", "take", "sleep", "out", "min", "corr", "correct", "woken"}
  BY DEF Working, OnPlaces, EndPlaces, OffPlaces
<1>2. SleepInv'
  BY <1>1 DEF SleepInv
<1>3. ClockInv'
  BY DEF ClockInv
<1>4. ExactInv'
  BY <1>1 DEF ExactInv
<1> QED
  BY <1>2, <1>3, <1>4

\* From one slot of the loop to the next, or back to while (1).
LEMMA NextSlotCharge ==
  ASSUME TypeOK, NextSlot, pc \in Working, NEW l \in Slot
  PROVE  /\ Charge(l)' = Charge(l) /\ pc' \in {"work", "begin"} /\ wait' = wait
         /\ (pin'[l] = pin[l] => (Lit(l)' <=> pin[l]))
<1>1. i \in Int /\ l \in Int /\ N \in Int /\ i <= N /\ l <= N
  BY FlashTypes
<1>2. /\ i' = IF i = N THEN 1 ELSE i + 1
      /\ pc' = IF i = N THEN "begin" ELSE "work"
      /\ wait' = wait
  BY DEF NextSlot
<1>3. pc \notin {"take", "sleep", "woken", "corr", "correct", "out", "work", "charge"}
  BY DEF Working, OnPlaces, EndPlaces, OffPlaces
<1>4. Charge(l) = IF i < l THEN wait ELSE 0
  BY <1>3 DEF Charge
<1>5. Charge(l)' = IF i < l THEN wait ELSE 0
  <2>1. CASE i = N
    BY <1>1, <1>2, <2>1 DEF Charge, Working, OnPlaces, EndPlaces, OffPlaces
  <2>2. CASE i # N
    <3>1. pc' = "work" /\ i' = i + 1
      BY <1>2, <2>2
    <3>2. (i' <= l) <=> (i < l)
      BY <1>1, <3>1
    <3> QED
      BY <1>2, <3>1, <3>2 DEF Charge, Working, OnPlaces, EndPlaces, OffPlaces
  <2> QED
    BY <2>1, <2>2
<1>6. pc' \notin Lighting
  BY <1>2 DEF Lighting
<1> QED
  BY <1>2, <1>4, <1>5, <1>6 DEF Lit

\* From one place to the next at the same slot.
LEMMA SameSlotCharge ==
  ASSUME pc \in Working, pc' \in Working, i' = i, wait' = wait, NEW l \in Slot
  PROVE  Charge(l)' = Charge(l)
<1>1. /\ pc \notin {"take", "sleep", "woken", "corr", "correct", "out", "work", "charge"}
      /\ pc' \notin {"take", "sleep", "woken", "corr", "correct", "out", "work", "charge"}
  BY DEF Working, OnPlaces, EndPlaces, OffPlaces
<1> QED
  BY <1>1 DEF Charge

----------------------------------------------------------------------------
(* The steps at a slot of the loop.                                         *)

\* The daemon looks whether the slot is due, and for what.
LEMMA TestFlash ==
  ASSUME Inv, FlashInv, Test
  PROVE  FlashInv'
<1>t. TypeOK /\ ClockInv /\ ExactInv /\ i \in Slot
  BY FlashTypes DEF Inv, FlashInv
<1>1. PatternInv'
  BY <1>t DEF FlashInv, PatternInv, Test, At, GoTo, Dark, callsFrame, NextSlot
<1>2. LitInv'
  BY <1>t DEF FlashInv, LitInv, PlaceInv, OnPlaces, EndPlaces, OffPlaces, Test, At, GoTo, Dark, callsFrame, NextSlot
<1>3. PlaceInv'
  BY <1>t DEF FlashInv, PlaceInv, LitInv, Loaded, OnPlaces, EndPlaces, OffPlaces, Test, At, GoTo, Dark, callsFrame, NextSlot
<1>4. ASSUME NEW l \in Slot, Lit(l)'
      PROVE  /\ Lit(l) /\ Charge(l)' = Charge(l) /\ since'[l] = since[l]
             /\ led'[l].pat.pulse = led[l].pat.pulse /\ led'[l].ticks = led[l].ticks
  <2>1. Charge(l)' = Charge(l) /\ Lit(l)
    <3>1. CASE NextSlot
      BY <1>t, <1>4, <3>1, NextSlotCharge DEF Working, Lit, Lighting, Dark, Test, At
    <3>2. CASE ~NextSlot
      <4>1. pc \in Working /\ pc' \in Working /\ i' = i /\ wait' = wait /\ pin' = pin /\ pc = "test"
        BY <3>2 DEF Working, OnPlaces, EndPlaces, OffPlaces, Test, At, GoTo, Dark
      <4> QED
        BY <4>1, <1>4, SameSlotCharge DEF Lit, Lighting
    <3> QED
      BY <3>1, <3>2
  <2> QED
    BY <2>1 DEF Test, Dark
<1>5. pc \in Working \cup {"work", "charge"} /\ pc' \in Working \cup {"work", "charge", "begin"} /\ wait' = wait
  BY DEF Working, OnPlaces, EndPlaces, OffPlaces, Test, At, GoTo, Dark, callsFrame, NextSlot
<1>6. LATE = 0 /\ pc' \in Lighting /\ pin'[i'] => since'[i'] = 0
  BY <1>t DEF ExactInv, Lighting, FlashInv, PlaceInv, LitInv, TypeOK, OnPlaces, EndPlaces, OffPlaces, Test, At, GoTo, Dark, callsFrame, NextSlot
<1>7. SleepInv' /\ ClockInv' /\ ExactInv'
  BY <1>t, <1>4, <1>5, <1>6, WorkKeepsClock
<1> QED
  BY <1>1, <1>2, <1>3, <1>7 DEF FlashInv

\* The daemon lights the LED: it was dark, and the flash begins.
LEMMA TurnOnFlash ==
  ASSUME Inv, FlashInv, TurnOn
  PROVE  FlashInv'
<1>t. TypeOK /\ ClockInv /\ ExactInv /\ i \in Slot
  BY FlashTypes DEF Inv, FlashInv
<1>1. PatternInv'
  BY <1>t DEF FlashInv, PatternInv, TurnOn, At, GoTo, Dark, callsFrame, Light
<1>2. LitInv'
  BY <1>t DEF FlashInv, LitInv, PlaceInv, OnPlaces, EndPlaces, OffPlaces, TurnOn, At, GoTo, Dark, callsFrame, Light
<1>3. PlaceInv'
  BY <1>t DEF FlashInv, PlaceInv, LitInv, Loaded, OnPlaces, EndPlaces, OffPlaces, TurnOn, At, GoTo, Dark, callsFrame, Light
<1>4. ASSUME NEW l \in Slot, Lit(l)'
      PROVE  /\ Lit(l) /\ Charge(l)' = Charge(l) /\ since'[l] = since[l]
             /\ led'[l].pat.pulse = led[l].pat.pulse /\ led'[l].ticks = led[l].ticks
  <2>1. Charge(l)' = Charge(l)
    BY <1>t, SameSlotCharge DEF Working, OnPlaces, EndPlaces, OffPlaces, TurnOn, At, GoTo, Dark, callsFrame, Light
  <2> QED
    BY <1>t, <1>4, <2>1 DEF FlashInv, LitInv, PlaceInv, Lit, Lighting, OnPlaces, EndPlaces, OffPlaces, TurnOn, At, GoTo, Dark, callsFrame, Light
<1>5. pc \in Working \cup {"work", "charge"} /\ pc' \in Working \cup {"work", "charge", "begin"} /\ wait' = wait
  BY DEF Working, OnPlaces, EndPlaces, OffPlaces, TurnOn, At, GoTo, Dark, callsFrame, Light
<1>6. LATE = 0 /\ pc' \in Lighting /\ pin'[i'] => since'[i'] = 0
  BY <1>t DEF ExactInv, Lighting, FlashInv, PlaceInv, LitInv, TypeOK, OnPlaces, EndPlaces, OffPlaces, TurnOn, At, GoTo, Dark, callsFrame, Light
<1>7. SleepInv' /\ ClockInv' /\ ExactInv'
  BY <1>t, <1>4, <1>5, <1>6, WorkKeepsClock
<1> QED
  BY <1>1, <1>2, <1>3, <1>7 DEF FlashInv

\* The daemon loads the flags of a slot it has lit.
LEMMA OnLoadFlash ==
  ASSUME Inv, FlashInv, OnLoad
  PROVE  FlashInv'
<1>t. TypeOK /\ ClockInv /\ ExactInv /\ i \in Slot
  BY FlashTypes DEF Inv, FlashInv
<1>1. PatternInv'
  BY <1>t DEF FlashInv, PatternInv, OnLoad, At, GoTo, Dark, callsFrame, LoadFlag
<1>2. LitInv'
  BY <1>t DEF FlashInv, LitInv, PlaceInv, OnPlaces, EndPlaces, OffPlaces, OnLoad, At, GoTo, Dark, callsFrame, LoadFlag
<1>3. PlaceInv'
  BY <1>t DEF FlashInv, PlaceInv, LitInv, Loaded, OnPlaces, EndPlaces, OffPlaces, OnLoad, At, GoTo, Dark, callsFrame, LoadFlag
<1>4. ASSUME NEW l \in Slot, Lit(l)'
      PROVE  /\ Lit(l) /\ Charge(l)' = Charge(l) /\ since'[l] = since[l]
             /\ led'[l].pat.pulse = led[l].pat.pulse /\ led'[l].ticks = led[l].ticks
  <2>1. Charge(l)' = Charge(l)
    BY <1>t, SameSlotCharge DEF Working, OnPlaces, EndPlaces, OffPlaces, OnLoad, At, GoTo, Dark, callsFrame, LoadFlag
  <2> QED
    BY <1>t, <1>4, <2>1 DEF FlashInv, LitInv, PlaceInv, Lit, Lighting, OnPlaces, EndPlaces, OffPlaces, OnLoad, At, GoTo, Dark, callsFrame, LoadFlag
<1>5. pc \in Working \cup {"work", "charge"} /\ pc' \in Working \cup {"work", "charge", "begin"} /\ wait' = wait
  BY DEF Working, OnPlaces, EndPlaces, OffPlaces, OnLoad, At, GoTo, Dark, callsFrame, LoadFlag
<1>6. LATE = 0 /\ pc' \in Lighting /\ pin'[i'] => since'[i'] = 0
  BY <1>t DEF ExactInv, Lighting, FlashInv, PlaceInv, LitInv, TypeOK, OnPlaces, EndPlaces, OffPlaces, OnLoad, At, GoTo, Dark, callsFrame, LoadFlag
<1>7. SleepInv' /\ ClockInv' /\ ExactInv'
  BY <1>t, <1>4, <1>5, <1>6, WorkKeepsClock
<1> QED
  BY <1>1, <1>2, <1>3, <1>7 DEF FlashInv

\* The daemon loads the flags of a slot it has darkened.
LEMMA OffLoadFlash ==
  ASSUME Inv, FlashInv, OffLoad
  PROVE  FlashInv'
<1>t. TypeOK /\ ClockInv /\ ExactInv /\ i \in Slot
  BY FlashTypes DEF Inv, FlashInv
<1>1. PatternInv'
  BY <1>t DEF FlashInv, PatternInv, OffLoad, At, GoTo, Dark, callsFrame, LoadFlag
<1>2. LitInv'
  BY <1>t DEF FlashInv, LitInv, PlaceInv, OnPlaces, EndPlaces, OffPlaces, OffLoad, At, GoTo, Dark, callsFrame, LoadFlag
<1>3. PlaceInv'
  BY <1>t DEF FlashInv, PlaceInv, LitInv, Loaded, OnPlaces, EndPlaces, OffPlaces, OffLoad, At, GoTo, Dark, callsFrame, LoadFlag
<1>4. ASSUME NEW l \in Slot, Lit(l)'
      PROVE  /\ Lit(l) /\ Charge(l)' = Charge(l) /\ since'[l] = since[l]
             /\ led'[l].pat.pulse = led[l].pat.pulse /\ led'[l].ticks = led[l].ticks
  <2>1. Charge(l)' = Charge(l)
    BY <1>t, SameSlotCharge DEF Working, OnPlaces, EndPlaces, OffPlaces, OffLoad, At, GoTo, Dark, callsFrame, LoadFlag
  <2> QED
    BY <1>t, <1>4, <2>1 DEF FlashInv, LitInv, PlaceInv, Lit, Lighting, OnPlaces, EndPlaces, OffPlaces, OffLoad, At, GoTo, Dark, callsFrame, LoadFlag
<1>5. pc \in Working \cup {"work", "charge"} /\ pc' \in Working \cup {"work", "charge", "begin"} /\ wait' = wait
  BY DEF Working, OnPlaces, EndPlaces, OffPlaces, OffLoad, At, GoTo, Dark, callsFrame, LoadFlag
<1>6. LATE = 0 /\ pc' \in Lighting /\ pin'[i'] => since'[i'] = 0
  BY <1>t DEF ExactInv, Lighting, FlashInv, PlaceInv, LitInv, TypeOK, OnPlaces, EndPlaces, OffPlaces, OffLoad, At, GoTo, Dark, callsFrame, LoadFlag
<1>7. SleepInv' /\ ClockInv' /\ ExactInv'
  BY <1>t, <1>4, <1>5, <1>6, WorkKeepsClock
<1> QED
  BY <1>1, <1>2, <1>3, <1>7 DEF FlashInv

\* The daemon loads the flags of a slot whose flashes are used up.
LEMMA EndLoadFlash ==
  ASSUME Inv, FlashInv, EndLoad
  PROVE  FlashInv'
<1>t. TypeOK /\ ClockInv /\ ExactInv /\ i \in Slot
  BY FlashTypes DEF Inv, FlashInv
<1>1. PatternInv'
  BY <1>t DEF FlashInv, PatternInv, EndLoad, At, GoTo, Dark, callsFrame, LoadFlag
<1>2. LitInv'
  BY <1>t DEF FlashInv, LitInv, PlaceInv, OnPlaces, EndPlaces, OffPlaces, EndLoad, At, GoTo, Dark, callsFrame, LoadFlag
<1>3. PlaceInv'
  BY <1>t DEF FlashInv, PlaceInv, LitInv, Loaded, OnPlaces, EndPlaces, OffPlaces, EndLoad, At, GoTo, Dark, callsFrame, LoadFlag
<1>4. ASSUME NEW l \in Slot, Lit(l)'
      PROVE  /\ Lit(l) /\ Charge(l)' = Charge(l) /\ since'[l] = since[l]
             /\ led'[l].pat.pulse = led[l].pat.pulse /\ led'[l].ticks = led[l].ticks
  <2>1. Charge(l)' = Charge(l)
    BY <1>t, SameSlotCharge DEF Working, OnPlaces, EndPlaces, OffPlaces, EndLoad, At, GoTo, Dark, callsFrame, LoadFlag
  <2> QED
    BY <1>t, <1>4, <2>1 DEF FlashInv, LitInv, PlaceInv, Lit, Lighting, OnPlaces, EndPlaces, OffPlaces, EndLoad, At, GoTo, Dark, callsFrame, LoadFlag
<1>5. pc \in Working \cup {"work", "charge"} /\ pc' \in Working \cup {"work", "charge", "begin"} /\ wait' = wait
  BY DEF Working, OnPlaces, EndPlaces, OffPlaces, EndLoad, At, GoTo, Dark, callsFrame, LoadFlag
<1>6. LATE = 0 /\ pc' \in Lighting /\ pin'[i'] => since'[i'] = 0
  BY <1>t DEF ExactInv, Lighting, FlashInv, PlaceInv, LitInv, TypeOK, OnPlaces, EndPlaces, OffPlaces, EndLoad, At, GoTo, Dark, callsFrame, LoadFlag
<1>7. SleepInv' /\ ClockInv' /\ ExactInv'
  BY <1>t, <1>4, <1>5, <1>6, WorkKeepsClock
<1> QED
  BY <1>1, <1>2, <1>3, <1>7 DEF FlashInv

\* The daemon darkens the LED.
LEMMA TurnOffFlash ==
  ASSUME Inv, FlashInv, TurnOff
  PROVE  FlashInv'
<1>t. TypeOK /\ ClockInv /\ ExactInv /\ i \in Slot
  BY FlashTypes DEF Inv, FlashInv
<1>x. ~pin'[i] /\ \A l \in Slot : l # i => pin'[l] = pin[l] /\ since'[l] = since[l]
  BY <1>t DEF TurnOff, Light, TypeOK
<1>1. PatternInv'
  BY <1>t DEF FlashInv, PatternInv, TurnOff, At, GoTo, Dark, callsFrame, Light
<1>2. LitInv'
  BY <1>t, <1>x DEF FlashInv, LitInv, PlaceInv, OnPlaces, EndPlaces, OffPlaces, TurnOff, At, GoTo, Dark, callsFrame, Light
<1>3. PlaceInv'
  BY <1>t, <1>x DEF FlashInv, PlaceInv, LitInv, Loaded, OnPlaces, EndPlaces, OffPlaces, TurnOff, At, GoTo, Dark, callsFrame, Light
<1>4. ASSUME NEW l \in Slot, Lit(l)'
      PROVE  /\ Lit(l) /\ Charge(l)' = Charge(l) /\ since'[l] = since[l]
             /\ led'[l].pat.pulse = led[l].pat.pulse /\ led'[l].ticks = led[l].ticks
  <2>1. Charge(l)' = Charge(l)
    BY <1>t, SameSlotCharge DEF Working, OnPlaces, EndPlaces, OffPlaces, TurnOff, At, GoTo, Dark, callsFrame, Light
  <2> QED
    BY <1>t, <1>x, <1>4, <2>1 DEF FlashInv, LitInv, PlaceInv, Lit, Lighting, OnPlaces, EndPlaces, OffPlaces, TurnOff, At, GoTo, Dark, callsFrame, Light
<1>5. pc \in Working \cup {"work", "charge"} /\ pc' \in Working \cup {"work", "charge", "begin"} /\ wait' = wait
  BY DEF Working, OnPlaces, EndPlaces, OffPlaces, TurnOff, At, GoTo, Dark, callsFrame, Light
<1>6. LATE = 0 /\ pc' \in Lighting /\ pin'[i'] => since'[i'] = 0
  BY <1>t, <1>x DEF ExactInv, Lighting, FlashInv, PlaceInv, LitInv, TypeOK, OnPlaces, EndPlaces, OffPlaces, TurnOff, At, GoTo, Dark, callsFrame, Light
<1>7. SleepInv' /\ ClockInv' /\ ExactInv'
  BY <1>t, <1>4, <1>5, <1>6, WorkKeepsClock
<1> QED
  BY <1>1, <1>2, <1>3, <1>7 DEF FlashInv

\* The daemon looks for a pattern in the backup.
LEMMA SpentFlash ==
  ASSUME Inv, FlashInv, Spent
  PROVE  FlashInv'
<1>t. TypeOK /\ ClockInv /\ ExactInv /\ i \in Slot
  BY FlashTypes DEF Inv, FlashInv
<1>1. PatternInv'
  BY <1>t DEF FlashInv, PatternInv, Spent, At, GoTo, Dark, callsFrame
<1>2. LitInv'
  BY <1>t DEF FlashInv, LitInv, PlaceInv, OnPlaces, EndPlaces, OffPlaces, Spent, At, GoTo, Dark, callsFrame
<1>3. PlaceInv'
  BY <1>t DEF FlashInv, PlaceInv, LitInv, Loaded, OnPlaces, EndPlaces, OffPlaces, Spent, At, GoTo, Dark, callsFrame
<1>4. ASSUME NEW l \in Slot, Lit(l)'
      PROVE  /\ Lit(l) /\ Charge(l)' = Charge(l) /\ since'[l] = since[l]
             /\ led'[l].pat.pulse = led[l].pat.pulse /\ led'[l].ticks = led[l].ticks
  <2>1. Charge(l)' = Charge(l)
    BY <1>t, SameSlotCharge DEF Working, OnPlaces, EndPlaces, OffPlaces, Spent, At, GoTo, Dark, callsFrame
  <2> QED
    BY <1>t, <1>4, <2>1 DEF FlashInv, LitInv, PlaceInv, Lit, Lighting, OnPlaces, EndPlaces, OffPlaces, Spent, At, GoTo, Dark, callsFrame
<1>5. pc \in Working \cup {"work", "charge"} /\ pc' \in Working \cup {"work", "charge", "begin"} /\ wait' = wait
  BY DEF Working, OnPlaces, EndPlaces, OffPlaces, Spent, At, GoTo, Dark, callsFrame
<1>6. LATE = 0 /\ pc' \in Lighting /\ pin'[i'] => since'[i'] = 0
  BY <1>t DEF ExactInv, Lighting, FlashInv, PlaceInv, LitInv, TypeOK, OnPlaces, EndPlaces, OffPlaces, Spent, At, GoTo, Dark, callsFrame
<1>7. SleepInv' /\ ClockInv' /\ ExactInv'
  BY <1>t, <1>4, <1>5, <1>6, WorkKeepsClock
<1> QED
  BY <1>1, <1>2, <1>3, <1>7 DEF FlashInv

\* The slot will go dark next.
LEMMA OnStoreFlash ==
  ASSUME Inv, FlashInv, OnStore
  PROVE  FlashInv'
<1>t. TypeOK /\ ClockInv /\ ExactInv /\ i \in Slot
  BY FlashTypes DEF Inv, FlashInv
<1>s. /\ \A l \in Slot : led'[l].pat = led[l].pat /\ led'[l].bak = led[l].bak /\ led'[l].ticks = led[l].ticks
      /\ \A l \in Slot : led'[l].flag = IF l = i THEN led[i].flag \ {"SHOULD_ON"} ELSE led[l].flag
  <2>1. led \in [Slot -> LedType] /\ reg.flag = led[i].flag
    BY DEF Inv, TypeOK, FlashInv, PlaceInv, Loaded, OnStore, At
  <2>2. led' = [led EXCEPT ![i].flag = led[i].flag \ {"SHOULD_ON"}]
    BY <2>1 DEF OnStore, StoreFlag
  <2> QED
    BY <2>1, <2>2, <1>t DEF LedType
<1>1. PatternInv'
  BY <1>t, <1>s DEF FlashInv, PatternInv
<1>2. LitInv'
  BY <1>t, <1>s DEF FlashInv, LitInv, PlaceInv, OnPlaces, EndPlaces, OffPlaces, OnStore, At, GoTo, Dark, callsFrame, StoreFlag
<1>3. PlaceInv'
  BY <1>t, <1>s DEF FlashInv, PlaceInv, LitInv, Loaded, OnPlaces, EndPlaces, OffPlaces, OnStore, At, GoTo, Dark, callsFrame, StoreFlag
<1>4. ASSUME NEW l \in Slot, Lit(l)'
      PROVE  /\ Lit(l) /\ Charge(l)' = Charge(l) /\ since'[l] = since[l]
             /\ led'[l].pat.pulse = led[l].pat.pulse /\ led'[l].ticks = led[l].ticks
  <2>1. Charge(l)' = Charge(l)
    BY <1>t, SameSlotCharge DEF Working, OnPlaces, EndPlaces, OffPlaces, OnStore, At, GoTo, Dark, callsFrame, StoreFlag
  <2> QED
    BY <1>t, <1>s, <1>4, <2>1 DEF FlashInv, LitInv, PlaceInv, Lit, Lighting, OnPlaces, EndPlaces, OffPlaces, OnStore, At, GoTo, Dark, callsFrame, StoreFlag
<1>5. pc \in Working \cup {"work", "charge"} /\ pc' \in Working \cup {"work", "charge", "begin"} /\ wait' = wait
  BY DEF Working, OnPlaces, EndPlaces, OffPlaces, OnStore, At, GoTo, Dark, callsFrame, StoreFlag
<1>6. LATE = 0 /\ pc' \in Lighting /\ pin'[i'] => since'[i'] = 0
  BY <1>t, <1>s DEF ExactInv, Lighting, FlashInv, PlaceInv, LitInv, TypeOK, OnPlaces, EndPlaces, OffPlaces, OnStore, At, GoTo, Dark, callsFrame, StoreFlag
<1>7. SleepInv' /\ ClockInv' /\ ExactInv'
  BY <1>t, <1>4, <1>5, <1>6, WorkKeepsClock
<1> QED
  BY <1>1, <1>2, <1>3, <1>7 DEF FlashInv

\* The slot will be lit next.
LEMMA OffStoreFlash ==
  ASSUME Inv, FlashInv, OffStore
  PROVE  FlashInv'
<1>t. TypeOK /\ ClockInv /\ ExactInv /\ i \in Slot
  BY FlashTypes DEF Inv, FlashInv
<1>s. /\ \A l \in Slot : led'[l].pat = led[l].pat /\ led'[l].bak = led[l].bak /\ led'[l].ticks = led[l].ticks
      /\ \A l \in Slot : led'[l].flag = IF l = i THEN led[i].flag \cup {"SHOULD_ON"} ELSE led[l].flag
  <2>1. led \in [Slot -> LedType] /\ reg.flag = led[i].flag
    BY DEF Inv, TypeOK, FlashInv, PlaceInv, Loaded, OffStore, At
  <2>2. led' = [led EXCEPT ![i].flag = led[i].flag \cup {"SHOULD_ON"}]
    BY <2>1 DEF OffStore, StoreFlag
  <2> QED
    BY <2>1, <2>2, <1>t DEF LedType
<1>1. PatternInv'
  BY <1>t, <1>s DEF FlashInv, PatternInv
<1>2. LitInv'
  BY <1>t, <1>s DEF FlashInv, LitInv, PlaceInv, OnPlaces, EndPlaces, OffPlaces, OffStore, At, GoTo, Dark, callsFrame, StoreFlag
<1>3. PlaceInv'
  BY <1>t, <1>s DEF FlashInv, PlaceInv, LitInv, Loaded, OnPlaces, EndPlaces, OffPlaces, OffStore, At, GoTo, Dark, callsFrame, StoreFlag
<1>4. ASSUME NEW l \in Slot, Lit(l)'
      PROVE  /\ Lit(l) /\ Charge(l)' = Charge(l) /\ since'[l] = since[l]
             /\ led'[l].pat.pulse = led[l].pat.pulse /\ led'[l].ticks = led[l].ticks
  <2>1. Charge(l)' = Charge(l)
    BY <1>t, SameSlotCharge DEF Working, OnPlaces, EndPlaces, OffPlaces, OffStore, At, GoTo, Dark, callsFrame, StoreFlag
  <2> QED
    BY <1>t, <1>s, <1>4, <2>1 DEF FlashInv, LitInv, PlaceInv, Lit, Lighting, OnPlaces, EndPlaces, OffPlaces, OffStore, At, GoTo, Dark, callsFrame, StoreFlag
<1>5. pc \in Working \cup {"work", "charge"} /\ pc' \in Working \cup {"work", "charge", "begin"} /\ wait' = wait
  BY DEF Working, OnPlaces, EndPlaces, OffPlaces, OffStore, At, GoTo, Dark, callsFrame, StoreFlag
<1>6. LATE = 0 /\ pc' \in Lighting /\ pin'[i'] => since'[i'] = 0
  BY <1>t, <1>s DEF ExactInv, Lighting, FlashInv, PlaceInv, LitInv, TypeOK, OnPlaces, EndPlaces, OffPlaces, OffStore, At, GoTo, Dark, callsFrame, StoreFlag
<1>7. SleepInv' /\ ClockInv' /\ ExactInv'
  BY <1>t, <1>4, <1>5, <1>6, WorkKeepsClock
<1> QED
  BY <1>1, <1>2, <1>3, <1>7 DEF FlashInv

\* The slot is no longer blinking: it was dark.
LEMMA EndStoreFlash ==
  ASSUME Inv, FlashInv, EndStore
  PROVE  FlashInv'
<1>t. TypeOK /\ ClockInv /\ ExactInv /\ i \in Slot
  BY FlashTypes DEF Inv, FlashInv
<1>s. /\ \A l \in Slot : led'[l].pat = led[l].pat /\ led'[l].bak = led[l].bak /\ led'[l].ticks = led[l].ticks
      /\ \A l \in Slot : led'[l].flag = IF l = i THEN led[i].flag \ {"ACTIVE"} ELSE led[l].flag
  <2>1. led \in [Slot -> LedType] /\ reg.flag = led[i].flag
    BY DEF Inv, TypeOK, FlashInv, PlaceInv, Loaded, EndStore, At
  <2>2. led' = [led EXCEPT ![i].flag = led[i].flag \ {"ACTIVE"}]
    BY <2>1 DEF EndStore, StoreFlag
  <2> QED
    BY <2>1, <2>2, <1>t DEF LedType
<1>1. PatternInv'
  BY <1>t, <1>s DEF FlashInv, PatternInv
<1>2. LitInv'
  BY <1>t, <1>s DEF FlashInv, LitInv, PlaceInv, OnPlaces, EndPlaces, OffPlaces, EndStore, At, GoTo, Dark, callsFrame, StoreFlag, NextSlot
<1>3. PlaceInv'
  BY <1>t, <1>s DEF FlashInv, PlaceInv, LitInv, Loaded, OnPlaces, EndPlaces, OffPlaces, EndStore, At, GoTo, Dark, callsFrame, StoreFlag, NextSlot
<1>4. ASSUME NEW l \in Slot, Lit(l)'
      PROVE  /\ Lit(l) /\ Charge(l)' = Charge(l) /\ since'[l] = since[l]
             /\ led'[l].pat.pulse = led[l].pat.pulse /\ led'[l].ticks = led[l].ticks
  <2>1. /\ Charge(l)' = Charge(l) /\ (Lit(l)' <=> pin[l])
    BY <1>t, NextSlotCharge DEF Working, OnPlaces, EndPlaces, OffPlaces, EndStore, At, GoTo, Dark, callsFrame, StoreFlag, NextSlot
  <2> QED
    BY <1>t, <1>s, <1>4, <2>1 DEF FlashInv, LitInv, PlaceInv, Lit, Lighting, OnPlaces, EndPlaces, OffPlaces, EndStore, At, GoTo, Dark, callsFrame, StoreFlag, NextSlot
<1>5. pc \in Working \cup {"work", "charge"} /\ pc' \in Working \cup {"work", "charge", "begin"} /\ wait' = wait
  BY DEF Working, OnPlaces, EndPlaces, OffPlaces, EndStore, At, GoTo, Dark, callsFrame, StoreFlag, NextSlot
<1>6. LATE = 0 /\ pc' \in Lighting /\ pin'[i'] => since'[i'] = 0
  BY <1>t, <1>s DEF ExactInv, Lighting, FlashInv, PlaceInv, LitInv, TypeOK, OnPlaces, EndPlaces, OffPlaces, EndStore, At, GoTo, Dark, callsFrame, StoreFlag, NextSlot
<1>7. SleepInv' /\ ClockInv' /\ ExactInv'
  BY <1>t, <1>4, <1>5, <1>6, WorkKeepsClock
<1> QED
  BY <1>1, <1>2, <1>3, <1>7 DEF FlashInv

\* The slot is dark for its gap.
LEMMA OffTicksFlash ==
  ASSUME Inv, FlashInv, OffTicks
  PROVE  FlashInv'
<1>t. TypeOK /\ ClockInv /\ ExactInv /\ i \in Slot
  BY FlashTypes DEF Inv, FlashInv
<1>s. /\ \A l \in Slot : led'[l].flag = led[l].flag
      /\ \A l \in Slot : l # i => led'[l] = led[l]
      /\ led'[i].pat = led[i].pat /\ led'[i].bak = led[i].bak
  BY <1>t DEF OffTicks, StoreTicks, TypeOK, LedType, PatternType, NoPattern, Pattern
<1>1. PatternInv'
  BY <1>t, <1>s DEF FlashInv, PatternInv
<1>2. LitInv'
  BY <1>t, <1>s DEF FlashInv, LitInv, PlaceInv, OnPlaces, EndPlaces, OffPlaces, OffTicks, At, GoTo, Dark, callsFrame, StoreTicks
<1>3. PlaceInv'
  BY <1>t, <1>s DEF FlashInv, PlaceInv, LitInv, Loaded, OnPlaces, EndPlaces, OffPlaces, OffTicks, At, GoTo, Dark, callsFrame, StoreTicks
<1>4. ASSUME NEW l \in Slot, Lit(l)'
      PROVE  /\ Lit(l) /\ Charge(l)' = Charge(l) /\ since'[l] = since[l]
             /\ led'[l].pat.pulse = led[l].pat.pulse /\ led'[l].ticks = led[l].ticks
  <2>1. Charge(l)' = Charge(l)
    BY <1>t, SameSlotCharge DEF Working, OnPlaces, EndPlaces, OffPlaces, OffTicks, At, GoTo, Dark, callsFrame, StoreTicks
  <2> QED
    BY <1>t, <1>s, <1>4, <2>1 DEF FlashInv, LitInv, PlaceInv, Lit, Lighting, OnPlaces, EndPlaces, OffPlaces, OffTicks, At, GoTo, Dark, callsFrame, StoreTicks
<1>5. pc \in Working \cup {"work", "charge"} /\ pc' \in Working \cup {"work", "charge", "begin"} /\ wait' = wait
  BY DEF Working, OnPlaces, EndPlaces, OffPlaces, OffTicks, At, GoTo, Dark, callsFrame, StoreTicks
<1>6. LATE = 0 /\ pc' \in Lighting /\ pin'[i'] => since'[i'] = 0
  BY <1>t, <1>s DEF ExactInv, Lighting, FlashInv, PlaceInv, LitInv, TypeOK, OnPlaces, EndPlaces, OffPlaces, OffTicks, At, GoTo, Dark, callsFrame, StoreTicks
<1>7. SleepInv' /\ ClockInv' /\ ExactInv'
  BY <1>t, <1>4, <1>5, <1>6, WorkKeepsClock
<1> QED
  BY <1>1, <1>2, <1>3, <1>7 DEF FlashInv

\* A flash of a pattern that ends is used up.
LEMMA DecrementFlash ==
  ASSUME Inv, FlashInv, Decrement
  PROVE  FlashInv'
<1>t. TypeOK /\ ClockInv /\ ExactInv /\ i \in Slot
  BY FlashTypes DEF Inv, FlashInv
<1>s. /\ \A l \in Slot : led'[l].flag = led[l].flag
      /\ \A l \in Slot : l # i => led'[l] = led[l]
      /\ led'[i].pat.pulse = led[i].pat.pulse /\ led'[i].bak = led[i].bak
      /\ led'[i].pat.nums = led[i].pat.nums \/ led'[i].pat.nums >= 0
  <2>1. CASE reg.num > 0
    <3>1. led' = [led EXCEPT ![i].pat.nums = reg.num - 1] /\ reg.num - 1 >= 0
      BY <2>1, <1>t, FlashTypes DEF Decrement
    <3> QED
      BY <3>1, <1>t DEF TypeOK, LedType, PatternType
  <2>2. CASE ~(reg.num > 0)
    BY <2>2 DEF Decrement
  <2> QED
    BY <2>1, <2>2
<1>1. PatternInv'
  BY <1>t, <1>s DEF FlashInv, PatternInv
<1>2. LitInv'
  BY <1>t, <1>s DEF FlashInv, LitInv, PlaceInv, OnPlaces, EndPlaces, OffPlaces, Decrement, At, GoTo, Dark, callsFrame, NextSlot
<1>3. PlaceInv'
  BY <1>t, <1>s DEF FlashInv, PlaceInv, LitInv, Loaded, OnPlaces, EndPlaces, OffPlaces, Decrement, At, GoTo, Dark, callsFrame, NextSlot
<1>4. ASSUME NEW l \in Slot, Lit(l)'
      PROVE  /\ Lit(l) /\ Charge(l)' = Charge(l) /\ since'[l] = since[l]
             /\ led'[l].pat.pulse = led[l].pat.pulse /\ led'[l].ticks = led[l].ticks
  <2>1. /\ Charge(l)' = Charge(l) /\ (Lit(l)' <=> pin[l])
    BY <1>t, NextSlotCharge DEF Working, OnPlaces, EndPlaces, OffPlaces, Decrement, At, GoTo, Dark, callsFrame, NextSlot
  <2> QED
    BY <1>t, <1>s, <1>4, <2>1 DEF FlashInv, LitInv, PlaceInv, Lit, Lighting, OnPlaces, EndPlaces, OffPlaces, Decrement, At, GoTo, Dark, callsFrame, NextSlot
<1>5. pc \in Working \cup {"work", "charge"} /\ pc' \in Working \cup {"work", "charge", "begin"} /\ wait' = wait
  BY DEF Working, OnPlaces, EndPlaces, OffPlaces, Decrement, At, GoTo, Dark, callsFrame, NextSlot
<1>6. LATE = 0 /\ pc' \in Lighting /\ pin'[i'] => since'[i'] = 0
  BY <1>t, <1>s DEF ExactInv, Lighting, FlashInv, PlaceInv, LitInv, TypeOK, OnPlaces, EndPlaces, OffPlaces, Decrement, At, GoTo, Dark, callsFrame, NextSlot
<1>7. SleepInv' /\ ClockInv' /\ ExactInv'
  BY <1>t, <1>4, <1>5, <1>6, WorkKeepsClock
<1> QED
  BY <1>1, <1>2, <1>3, <1>7 DEF FlashInv

\* The daemon takes the count from the backup.
LEMMA RestoreNumsFlash ==
  ASSUME Inv, FlashInv, RestoreNums
  PROVE  FlashInv'
<1>t. TypeOK /\ ClockInv /\ ExactInv /\ i \in Slot
  BY FlashTypes DEF Inv, FlashInv
<1>s. /\ \A l \in Slot : led'[l].flag = led[l].flag
      /\ \A l \in Slot : l # i => led'[l] = led[l]
      /\ led'[i].pat.pulse = led[i].pat.pulse /\ led'[i].bak = led[i].bak
      /\ led'[i].pat.nums = led[i].bak.nums
  BY <1>t DEF RestoreNums, StoreTicks, TypeOK, LedType, PatternType, NoPattern, Pattern
<1>1. PatternInv'
  BY <1>t, <1>s DEF FlashInv, PatternInv
<1>2. LitInv'
  BY <1>t, <1>s DEF FlashInv, LitInv, PlaceInv, OnPlaces, EndPlaces, OffPlaces, RestoreNums, At, GoTo, Dark, callsFrame
<1>3. PlaceInv'
  BY <1>t, <1>s DEF FlashInv, PlaceInv, LitInv, Loaded, OnPlaces, EndPlaces, OffPlaces, RestoreNums, At, GoTo, Dark, callsFrame
<1>4. ASSUME NEW l \in Slot, Lit(l)'
      PROVE  /\ Lit(l) /\ Charge(l)' = Charge(l) /\ since'[l] = since[l]
             /\ led'[l].pat.pulse = led[l].pat.pulse /\ led'[l].ticks = led[l].ticks
  <2>1. Charge(l)' = Charge(l)
    BY <1>t, SameSlotCharge DEF Working, OnPlaces, EndPlaces, OffPlaces, RestoreNums, At, GoTo, Dark, callsFrame
  <2> QED
    BY <1>t, <1>s, <1>4, <2>1 DEF FlashInv, LitInv, PlaceInv, Lit, Lighting, OnPlaces, EndPlaces, OffPlaces, RestoreNums, At, GoTo, Dark, callsFrame
<1>5. pc \in Working \cup {"work", "charge"} /\ pc' \in Working \cup {"work", "charge", "begin"} /\ wait' = wait
  BY DEF Working, OnPlaces, EndPlaces, OffPlaces, RestoreNums, At, GoTo, Dark, callsFrame
<1>6. LATE = 0 /\ pc' \in Lighting /\ pin'[i'] => since'[i'] = 0
  BY <1>t, <1>s DEF ExactInv, Lighting, FlashInv, PlaceInv, LitInv, TypeOK, OnPlaces, EndPlaces, OffPlaces, RestoreNums, At, GoTo, Dark, callsFrame
<1>7. SleepInv' /\ ClockInv' /\ ExactInv'
  BY <1>t, <1>4, <1>5, <1>6, WorkKeepsClock
<1> QED
  BY <1>1, <1>2, <1>3, <1>7 DEF FlashInv

\* The daemon takes the times from the backup.
LEMMA RestoreTimesFlash ==
  ASSUME Inv, FlashInv, RestoreTimes
  PROVE  FlashInv'
<1>t. TypeOK /\ ClockInv /\ ExactInv /\ i \in Slot
  BY FlashTypes DEF Inv, FlashInv
<1>s. /\ \A l \in Slot : led'[l].flag = led[l].flag
      /\ \A l \in Slot : l # i => led'[l] = led[l]
      /\ led'[i].pat.pulse = led[i].bak.pulse /\ led'[i].bak = led[i].bak
      /\ led'[i].pat.nums = led[i].pat.nums
  BY <1>t DEF RestoreTimes, StoreTicks, TypeOK, LedType, PatternType, NoPattern, Pattern
<1>1. PatternInv'
  BY <1>t, <1>s DEF FlashInv, PatternInv
<1>b. ~(boot' > 0) /\ ~(boot' >= 3)
  BY DEF RestoreTimes, At, callsFrame
<1>2. LitInv'
  BY <1>t, <1>s, <1>b DEF FlashInv, LitInv, PlaceInv, OnPlaces, EndPlaces, OffPlaces, RestoreTimes, At, GoTo, Dark, callsFrame
<1>3. PlaceInv'
  BY <1>t, <1>s DEF FlashInv, PlaceInv, LitInv, Loaded, OnPlaces, EndPlaces, OffPlaces, RestoreTimes, At, GoTo, Dark, callsFrame
<1>4. ASSUME NEW l \in Slot, Lit(l)'
      PROVE  /\ Lit(l) /\ Charge(l)' = Charge(l) /\ since'[l] = since[l]
             /\ led'[l].pat.pulse = led[l].pat.pulse /\ led'[l].ticks = led[l].ticks
  <2>1. Charge(l)' = Charge(l)
    BY <1>t, SameSlotCharge DEF Working, OnPlaces, EndPlaces, OffPlaces, RestoreTimes, At, GoTo, Dark, callsFrame
  <2> QED
    BY <1>t, <1>s, <1>4, <2>1 DEF FlashInv, LitInv, PlaceInv, Lit, Lighting, OnPlaces, EndPlaces, OffPlaces, RestoreTimes, At, GoTo, Dark, callsFrame
<1>5. pc \in Working \cup {"work", "charge"} /\ pc' \in Working \cup {"work", "charge", "begin"} /\ wait' = wait
  BY DEF Working, OnPlaces, EndPlaces, OffPlaces, RestoreTimes, At, GoTo, Dark, callsFrame
<1>6. LATE = 0 /\ pc' \in Lighting /\ pin'[i'] => since'[i'] = 0
  BY <1>t, <1>s DEF ExactInv, Lighting, FlashInv, PlaceInv, LitInv, TypeOK, OnPlaces, EndPlaces, OffPlaces, RestoreTimes, At, GoTo, Dark, callsFrame
<1>7. SleepInv' /\ ClockInv' /\ ExactInv'
  BY <1>t, <1>4, <1>5, <1>6, WorkKeepsClock
<1> QED
  BY <1>1, <1>2, <1>3, <1>7 DEF FlashInv

\* The daemon empties the backup.
LEMMA RestoreClearFlash ==
  ASSUME Inv, FlashInv, RestoreClear
  PROVE  FlashInv'
<1>t. TypeOK /\ ClockInv /\ ExactInv /\ i \in Slot
  BY FlashTypes DEF Inv, FlashInv
<1>s. /\ \A l \in Slot : led'[l].flag = led[l].flag
      /\ \A l \in Slot : l # i => led'[l] = led[l]
      /\ led'[i].pat = led[i].pat
      /\ led'[i].bak.pulse = 0 /\ led'[i].bak.nums = 0
  BY <1>t DEF RestoreClear, StoreTicks, TypeOK, LedType, PatternType, NoPattern, Pattern
<1>1. PatternInv'
  BY <1>t, <1>s, EasyBlinkAssumption DEF FlashInv, PatternInv
<1>b. ~(boot' > 0) /\ ~(boot' >= 3)
  BY DEF RestoreClear, At, callsFrame
<1>2. LitInv'
  BY <1>t, <1>s, <1>b DEF FlashInv, LitInv, PlaceInv, OnPlaces, EndPlaces, OffPlaces, RestoreClear, At, GoTo, Dark, callsFrame, NextSlot
<1>3. PlaceInv'
  BY <1>t, <1>s DEF FlashInv, PlaceInv, LitInv, Loaded, OnPlaces, EndPlaces, OffPlaces, RestoreClear, At, GoTo, Dark, callsFrame, NextSlot
<1>4. ASSUME NEW l \in Slot, Lit(l)'
      PROVE  /\ Lit(l) /\ Charge(l)' = Charge(l) /\ since'[l] = since[l]
             /\ led'[l].pat.pulse = led[l].pat.pulse /\ led'[l].ticks = led[l].ticks
  <2>1. /\ Charge(l)' = Charge(l) /\ (Lit(l)' <=> pin[l])
    BY <1>t, NextSlotCharge DEF Working, OnPlaces, EndPlaces, OffPlaces, RestoreClear, At, GoTo, Dark, callsFrame, NextSlot
  <2> QED
    BY <1>t, <1>s, <1>4, <2>1 DEF FlashInv, LitInv, PlaceInv, Lit, Lighting, OnPlaces, EndPlaces, OffPlaces, RestoreClear, At, GoTo, Dark, callsFrame, NextSlot
<1>5. pc \in Working \cup {"work", "charge"} /\ pc' \in Working \cup {"work", "charge", "begin"} /\ wait' = wait
  BY DEF Working, OnPlaces, EndPlaces, OffPlaces, RestoreClear, At, GoTo, Dark, callsFrame, NextSlot
<1>6. LATE = 0 /\ pc' \in Lighting /\ pin'[i'] => since'[i'] = 0
  BY <1>t, <1>s DEF ExactInv, Lighting, FlashInv, PlaceInv, LitInv, TypeOK, OnPlaces, EndPlaces, OffPlaces, RestoreClear, At, GoTo, Dark, callsFrame, NextSlot
<1>7. SleepInv' /\ ClockInv' /\ ExactInv'
  BY <1>t, <1>4, <1>5, <1>6, WorkKeepsClock
<1> QED
  BY <1>1, <1>2, <1>3, <1>7 DEF FlashInv

\* The daemon loads the ticks of its slot.
LEMMA WorkLoadFlash ==
  ASSUME Inv, FlashInv, WorkLoad
  PROVE  FlashInv'
<1>t. TypeOK /\ ClockInv /\ ExactInv /\ i \in Slot
  BY FlashTypes DEF Inv, FlashInv
<1>1. PatternInv'
  BY <1>t DEF FlashInv, PatternInv, WorkLoad, At, GoTo, Dark, callsFrame
<1>2. LitInv'
  BY <1>t DEF FlashInv, LitInv, PlaceInv, OnPlaces, EndPlaces, OffPlaces, WorkLoad, At, GoTo, Dark, callsFrame
<1>3. PlaceInv'
  BY <1>t DEF FlashInv, PlaceInv, LitInv, Loaded, OnPlaces, EndPlaces, OffPlaces, WorkLoad, At, GoTo, Dark, callsFrame
<1>4. ASSUME NEW l \in Slot, Lit(l)'
      PROVE  /\ Lit(l) /\ Charge(l)' = Charge(l) /\ since'[l] = since[l]
             /\ led'[l].pat.pulse = led[l].pat.pulse /\ led'[l].ticks = led[l].ticks
  <2>1. Charge(l)' = Charge(l)
    BY DEF Charge, Working, OnPlaces, EndPlaces, OffPlaces, WorkLoad, At, GoTo
  <2> QED
    BY <1>t, <1>4, <2>1 DEF Lit, Lighting, WorkLoad, At, GoTo, Dark
<1>5. pc \in Working \cup {"work", "charge"} /\ pc' \in Working \cup {"work", "charge", "begin"} /\ wait' = wait
  BY DEF Working, OnPlaces, EndPlaces, OffPlaces, WorkLoad, At, GoTo, Dark, callsFrame
<1>6. LATE = 0 /\ pc' \in Lighting /\ pin'[i'] => since'[i'] = 0
  BY <1>t DEF ExactInv, Lighting, FlashInv, PlaceInv, LitInv, TypeOK, OnPlaces, EndPlaces, OffPlaces, WorkLoad, At, GoTo, Dark, callsFrame
<1>7. SleepInv' /\ ClockInv' /\ ExactInv'
  BY <1>t, <1>4, <1>5, <1>6, WorkKeepsClock
<1> QED
  BY <1>1, <1>2, <1>3, <1>7 DEF FlashInv

\* The slot is charged for the wait.
LEMMA WorkStoreFlash ==
  ASSUME Inv, FlashInv, WorkStore
  PROVE  FlashInv'
<1>t. TypeOK /\ ClockInv /\ ExactInv /\ i \in Slot
  BY FlashTypes DEF Inv, FlashInv
<1>s. /\ \A l \in Slot : led'[l].pat = led[l].pat /\ led'[l].bak = led[l].bak
                           /\ led'[l].flag = led[l].flag
      /\ \A l \in Slot : led'[l].ticks = IF l = i THEN Floor(reg.num - wait) ELSE led[l].ticks
  BY <1>t DEF WorkStore, StoreTicks, TypeOK, LedType
<1>1. PatternInv'
  BY <1>t, <1>s DEF FlashInv, PatternInv
<1>2. LitInv'
  BY <1>t, <1>s DEF FlashInv, LitInv, WorkStore, At, GoTo, Dark, callsFrame
<1>3. PlaceInv'
  BY <1>t DEF PlaceInv, Loaded, OnPlaces, EndPlaces, OffPlaces, WorkStore, At, GoTo
<1>4. SleepInv'
  BY DEF SleepInv, WorkStore, At, GoTo
<1>5. ASSUME NEW l \in Slot, Lit(l)'
      PROVE  /\ since'[l] = since[l] /\ led'[l].pat.pulse = led[l].pat.pulse
             /\ Lit(l) /\ Charge(l) \in Int /\ Charge(l)' \in Int /\ led'[l].ticks \in Int
             /\ l # i => led'[l].ticks = led[l].ticks /\ Charge(l)' = Charge(l)
             /\ l = i => /\ Charge(l) = wait /\ Charge(l)' = 0
                         /\ led'[l].ticks >= led[l].ticks - wait
                         /\ led[l].ticks >= wait => led'[l].ticks = led[l].ticks - wait
  <2>t. /\ l \in Int /\ i \in Int /\ wait \in Int /\ led[l].ticks \in Int /\ reg.num \in Int
        /\ Charge(l) \in Int
    BY <1>t, FlashTypes
  <2>1. since'[l] = since[l] /\ pin'[l] = pin[l] /\ i' = i /\ pc = "charge" /\ pc' = "test" /\ wait' = wait
    BY DEF WorkStore, At, GoTo, Dark
  <2>2. pin[l] /\ Lit(l)
    BY <1>5, <2>1 DEF Lit, Lighting
  <2>3. Charge(l) = (IF i <= l THEN wait ELSE 0) /\ Charge(l)' = IF i < l THEN wait ELSE 0
    BY <2>1 DEF Charge, Working, OnPlaces, EndPlaces, OffPlaces
  <2>4. CASE l # i
    BY <1>s, <2>t, <2>1, <2>2, <2>3, <2>4
  <2>5. CASE l = i
    <3>1. led'[l].ticks = Floor(led[l].ticks - wait)
      BY <1>s, <2>1, <2>2, <2>5 DEF FlashInv, PlaceInv
    <3>2. /\ led'[l].ticks \in Int /\ led'[l].ticks >= led[l].ticks - wait
          /\ led[l].ticks >= wait => led'[l].ticks = led[l].ticks - wait
      BY <3>1, <2>t, EasyBlinkAssumption DEF Floor
    <3> QED
      BY <3>2, <1>s, <2>t, <2>1, <2>2, <2>3, <2>5
  <2> QED
    BY <2>4, <2>5
<1>6. ClockInv'
  <2> SUFFICES ASSUME NEW l \in Slot, Lit(l)', since'[l] # SINCE_MAX
               PROVE  since'[l] >= led'[l].pat.pulse - led'[l].ticks + Charge(l)'
    BY DEF ClockInv, SINCE_MAX
  <2>1. since[l] >= led[l].pat.pulse - led[l].ticks + Charge(l)
    BY <1>t, <1>5 DEF ClockInv
  <2>2. since[l] \in Int /\ led[l].pat.pulse \in Int /\ led[l].ticks \in Int /\ wait \in Int
    BY <1>t, FlashTypes
  <2> QED
    BY <1>5, <2>1, <2>2
<1>7. ExactInv'
  <2>1. pc' = "test" /\ wait' = wait
    BY DEF WorkStore, GoTo
  <2> SUFFICES ASSUME LATE = 0, NEW l \in Slot, Lit(l)'
               PROVE  /\ since'[l] = led'[l].pat.pulse - led'[l].ticks + Charge(l)'
                      /\ Charge(l)' <= led'[l].ticks
    BY <2>1 DEF ExactInv, Lighting
  <2>2. since[l] = led[l].pat.pulse - led[l].ticks + Charge(l) /\ Charge(l) <= led[l].ticks
    BY <1>t, <1>5 DEF ExactInv
  <2>3. since[l] \in Int /\ led[l].pat.pulse \in Int /\ led[l].ticks \in Int /\ wait \in Int
    BY <1>t, FlashTypes
  <2> QED
    BY <1>5, <2>2, <2>3
<1> QED
  BY <1>1, <1>2, <1>3, <1>4, <1>6, <1>7 DEF FlashInv

\* The flash has its pulse in ticks.
LEMMA OnTicksFlash ==
  ASSUME Inv, FlashInv, OnTicks
  PROVE  FlashInv'
<1>t. TypeOK /\ ClockInv /\ ExactInv /\ i \in Slot
  BY FlashTypes DEF Inv, FlashInv
<1>s. /\ \A l \in Slot : led'[l].pat = led[l].pat /\ led'[l].bak = led[l].bak
                           /\ led'[l].flag = led[l].flag
      /\ \A l \in Slot : led'[l].ticks = IF l = i THEN led[i].pat.pulse ELSE led[l].ticks
  BY <1>t DEF OnTicks, StoreTicks, TypeOK, LedType
<1>p. pc = "on_ticks" /\ pc' \in {"work", "begin"} /\ pin' = pin /\ since' = since /\ boot' = 0
  BY DEF OnTicks, At, NextSlot, Dark, callsFrame
<1>1. PatternInv'
  BY <1>t, <1>s DEF FlashInv, PatternInv
<1>2. LitInv'
  BY <1>s, <1>p DEF FlashInv, LitInv
<1>3. PlaceInv'
  BY <1>p DEF PlaceInv, Loaded, OnPlaces, EndPlaces, OffPlaces, OnTicks, NextSlot
<1>4. SleepInv'
  BY <1>p DEF SleepInv
<1>5. ASSUME NEW l \in Slot, Lit(l)'
      PROVE  /\ since'[l] = since[l] /\ led'[l].pat.pulse = led[l].pat.pulse
             /\ l # i => Lit(l) /\ led'[l].ticks = led[l].ticks /\ Charge(l)' = Charge(l)
             /\ l = i => Charge(l)' = 0 /\ led'[l].ticks = led[l].pat.pulse /\ pin[l]
  <2>1. Charge(l)' = Charge(l) /\ (Lit(l)' <=> pin[l])
    BY <1>t, <1>p, NextSlotCharge DEF OnTicks, Working
  <2>2. l = i => Charge(l) = 0
    BY <1>p, <1>t, FlashTypes DEF Charge, Working, OnPlaces, EndPlaces, OffPlaces
  <2> QED
    BY <1>5, <1>s, <1>p, <2>1, <2>2 DEF Lit
<1>6. ClockInv'
  <2> SUFFICES ASSUME NEW l \in Slot, Lit(l)', since'[l] # SINCE_MAX
               PROVE  since'[l] >= led'[l].pat.pulse - led'[l].ticks + Charge(l)'
    BY DEF ClockInv, SINCE_MAX
  <2>1. since[l] \in Nat /\ led[l].pat.pulse \in Nat
    BY <1>t, FlashTypes
  <2>2. CASE l = i
    BY <1>5, <2>1, <2>2
  <2>3. CASE l # i
    BY <1>t, <1>5, <2>3 DEF ClockInv
  <2> QED
    BY <2>2, <2>3
<1>7. ExactInv'
  <2> SUFFICES ASSUME LATE = 0, NEW l \in Slot, Lit(l)'
               PROVE  /\ since'[l] = led'[l].pat.pulse - led'[l].ticks + Charge(l)'
                      /\ Charge(l)' <= led'[l].ticks
    BY <1>p DEF ExactInv, Lighting
  <2>1. since[l] \in Nat /\ led[l].pat.pulse \in Nat
    BY <1>t, FlashTypes
  <2>2. CASE l = i
    <3>1. since[l] = 0
      BY <1>t, <1>p, <1>5, <2>2 DEF ExactInv, Lighting
    <3> QED
      BY <1>5, <2>1, <2>2, <3>1
  <2>3. CASE l # i
    BY <1>t, <1>5, <2>3 DEF ExactInv
  <2> QED
    BY <2>2, <2>3
<1> QED
  BY <1>1, <1>2, <1>3, <1>4, <1>6, <1>7 DEF FlashInv

----------------------------------------------------------------------------
(* The wait between two loops.                                              *)

Waiting == {"min", "enter", "take", "sleep", "out", "woken", "corr", "work"}

\* A step of the wait leaves the slots and the pins alone.
LEMMA WaitKeeps ==
  ASSUME FlashInv, led' = led, pin' = pin, since' = since, boot' = boot,
         pc \in Waiting \cup {"begin"}, pc' \in Waiting,
         pc' \in {"enter", "take", "sleep", "out"} => i' = 1
  PROVE  /\ PatternInv' /\ LitInv' /\ PlaceInv'
         /\ \A l \in Slot : Lit(l) /\ Lit(l)' <=> pin[l]
<1>1. PatternInv'
  BY DEF FlashInv, PatternInv
<1>2. /\ pc \notin {"on_load", "on_store", "on_ticks"}
      /\ pc' \notin {"begin", "on_load", "on_store", "on_ticks", "correct", "charge"}
      /\ pc' \notin OnPlaces \cup EndPlaces \cup OffPlaces
      /\ ~Loaded'
  BY DEF Waiting, OnPlaces, EndPlaces, OffPlaces, Loaded
<1>3. LitInv'
  BY <1>2 DEF FlashInv, LitInv
<1>4. PlaceInv'
  BY <1>2 DEF PlaceInv, OnPlaces, EndPlaces, OffPlaces
<1>5. \A l \in Slot : Lit(l) /\ Lit(l)' <=> pin[l]
  BY <1>2 DEF Lit, Lighting
<1> QED
  BY <1>1, <1>3, <1>4, <1>5

\* If no more is to be taken off a slot than before, the clock still agrees.
LEMMA WaitClock ==
  ASSUME TypeOK, ClockInv, led' = led, since' = since,
         \A l \in Slot : Lit(l)' => Lit(l) /\ Charge(l)' \in Int /\ Charge(l)' <= Charge(l)
  PROVE  ClockInv'
<1> SUFFICES ASSUME NEW l \in Slot, Lit(l)', since[l] # SINCE_MAX
             PROVE  since[l] >= led[l].pat.pulse - led[l].ticks + Charge(l)'
  BY DEF ClockInv, SINCE_MAX
<1>1. since[l] >= led[l].pat.pulse - led[l].ticks + Charge(l)
  BY DEF ClockInv
<1>2. /\ since[l] \in Int /\ led[l].pat.pulse \in Int /\ led[l].ticks \in Int
      /\ Charge(l) \in Int /\ Charge(l)' <= Charge(l)
  BY FlashTypes
<1>3. PICK c \in Int : c = Charge(l)'
  OBVIOUS
<1> QED
  BY <1>1, <1>2, <1>3

\* What ExactInv says of a lit slot when the daemon is never late.
ExactAt(l) ==
  /\ since[l] = led[l].pat.pulse - led[l].ticks + Charge(l)
  /\ Charge(l) <= led[l].ticks
  /\ pc \in {"enter", "take", "sleep", "out"} => wait <= led[l].ticks
  /\ pc \in {"min", "corr", "correct"} /\ l < i => wait <= led[l].ticks
  /\ pc = "woken" \/ (pc \in {"corr", "correct"} /\ i <= l) =>
       ("CORRECT" \in led[l].flag => slept = 0)

\* ExactAt is what there is to show and to use.
LEMMA ExactNext ==
  ASSUME pc' \notin Lighting, \A l \in Slot : LATE = 0 /\ Lit(l)' => ExactAt(l)'
  PROVE  ExactInv'
  BY DEF ExactInv, ExactAt

LEMMA ExactNow ==
  ASSUME ExactInv, LATE = 0, NEW l \in Slot, Lit(l)
  PROVE  ExactAt(l)
  BY DEF ExactInv, ExactAt

\* The daemon begins to look for the minimum.
LEMMA BeginFlash ==
  ASSUME Inv, FlashInv, Begin
  PROVE  FlashInv'
<1>t. TypeOK /\ ClockInv /\ ExactInv
  BY DEF Inv, FlashInv
<1>p. /\ pc = "begin" /\ pc' = "min" /\ led' = led /\ pin' = pin /\ since' = since
      /\ boot' = boot /\ i' = i /\ i = 1
  BY DEF Begin, At, Dark, callsFrame, FlashInv, PlaceInv
<1>1. /\ PatternInv' /\ LitInv' /\ PlaceInv'
      /\ \A l \in Slot : Lit(l) /\ Lit(l)' <=> pin[l]
  BY <1>p, WaitKeeps DEF Waiting
<1>2. \A l \in Slot : Charge(l) = 0 /\ Charge(l)' = 0
  BY <1>p DEF Charge, Working, OnPlaces, EndPlaces, OffPlaces
<1>3. SleepInv'
  BY <1>p DEF SleepInv
<1>4. ClockInv'
  BY <1>t, <1>p, <1>1, <1>2, WaitClock DEF Lit
<1>5. ExactInv'
  <2>1. ASSUME NEW l \in Slot, LATE = 0, Lit(l)' PROVE ExactAt(l)'
    <3>1. ExactAt(l)
      BY <1>t, <1>p, <2>1, ExactNow DEF Lit, Lighting
    <3>2. ~(l < i')
      BY <1>t, <1>p, FlashTypes
    <3> QED
      BY <1>p, <1>2, <3>1, <3>2 DEF ExactAt
  <2> QED
    BY <1>p, <2>1, ExactNext DEF Lighting
<1> QED
  BY <1>1, <1>3, <1>4, <1>5 DEF FlashInv

\* The minimum does not go past the ticks of a slot that was looked at.
LEMMA MinTicksFlash ==
  ASSUME Inv, FlashInv, MinTicks
  PROVE  FlashInv'
<1>t. TypeOK /\ ClockInv /\ ExactInv
  BY DEF Inv, FlashInv
<1> DEFINE min == IF "ACTIVE" \in led[i].flag THEN Least(led[i].ticks, wait) ELSE wait
<1>p. /\ pc = "min" /\ led' = led /\ pin' = pin /\ since' = since /\ boot' = boot
      /\ wait' = (IF i = N /\ min < 0 THEN 0 ELSE min)
      /\ i' = (IF i = N THEN 1 ELSE i + 1) /\ pc' = IF i = N THEN "enter" ELSE "min"
  BY DEF MinTicks, NextMin, At, Dark, callsFrame
<1>1. /\ PatternInv' /\ LitInv' /\ PlaceInv'
      /\ \A l \in Slot : Lit(l) /\ Lit(l)' <=> pin[l]
  BY <1>p, WaitKeeps DEF Waiting
<1>2. \A l \in Slot : Charge(l) = 0 /\ Charge(l)' = 0
  BY <1>p DEF Charge, Working, OnPlaces, EndPlaces, OffPlaces
<1>3. SleepInv'
  BY <1>p DEF SleepInv
<1>4. ClockInv'
  BY <1>t, <1>p, <1>1, <1>2, WaitClock DEF Lit, Lighting
<1>5. ExactInv'
  <2>1. ASSUME NEW l \in Slot, LATE = 0, Lit(l)' PROVE ExactAt(l)'
    <3>1. ExactAt(l)
      BY <1>t, <1>p, <2>1, ExactNow DEF Lit, Lighting
    <3>2. pin[l] /\ "ACTIVE" \in led[l].flag
      BY <1>p, <2>1 DEF Lit, FlashInv, LitInv
    <3>t. /\ wait \in Int /\ i \in Int /\ l \in Int /\ l <= N /\ i <= N /\ N \in Int
          /\ led[l].ticks \in Int /\ led[i].ticks \in Int
      BY <1>t, FlashTypes
    <3>3. l <= i => min <= led[l].ticks
      BY <3>1, <3>2, <3>t, <1>p DEF ExactAt, Least
    <3>4. led[l].ticks >= 0
      BY <3>1, <3>t, <1>2 DEF ExactAt
    <3>5. l <= i => wait' <= led[l].ticks
      <4> HIDE DEF min
      <4> QED
        BY <1>p, <3>3, <3>4
    <3>6. l < i' => l <= i
      BY <1>p, <3>t, FlashTypes, <1>t
    <3>7. pc' = "enter" => l <= i
      BY <1>p, <3>t
    <3> QED
      BY <1>p, <1>2, <3>1, <3>5, <3>6, <3>7 DEF ExactAt
  <2> QED
    BY <1>p, <2>1, ExactNext DEF Lighting
<1> QED
  BY <1>1, <1>3, <1>4, <1>5 DEF FlashInv

\* The daemon reads the time, or has nothing to wait for.
LEMMA EnterFlash ==
  ASSUME Inv, FlashInv, Enter
  PROVE  FlashInv'
<1>t. TypeOK /\ ClockInv /\ ExactInv
  BY DEF Inv, FlashInv
<1>p. /\ pc = "enter" /\ led' = led /\ pin' = pin /\ since' = since /\ boot' = boot
      /\ i' = i /\ i = 1 /\ wait' = wait /\ slept' = 0
      /\ pc' = IF wait = 0 THEN "work" ELSE "take"
  BY DEF Enter, At, Dark, callsFrame, FlashInv, PlaceInv
<1>1. /\ PatternInv' /\ LitInv' /\ PlaceInv'
      /\ \A l \in Slot : Lit(l) /\ Lit(l)' <=> pin[l]
  BY <1>p, WaitKeeps DEF Waiting
<1>2. \A l \in Slot : Charge(l) = 0 /\ Charge(l)' = 0
  BY <1>p DEF Charge, Working, OnPlaces, EndPlaces, OffPlaces
<1>3. SleepInv'
  BY <1>p DEF SleepInv
<1>4. ClockInv'
  BY <1>t, <1>p, <1>1, <1>2, WaitClock DEF Lit, Lighting
<1>5. ExactInv'
  <2>1. ASSUME NEW l \in Slot, LATE = 0, Lit(l)' PROVE ExactAt(l)'
    <3>1. ExactAt(l)
      BY <1>t, <1>p, <2>1, ExactNow DEF Lit, Lighting
    <3> QED
      BY <1>p, <1>2, <3>1 DEF ExactAt
  <2> QED
    BY <1>p, <2>1, ExactNext DEF Lighting
<1> QED
  BY <1>1, <1>3, <1>4, <1>5 DEF FlashInv

\* The daemon finds a call, or goes to sleep.
LEMMA SemTakeFlash ==
  ASSUME Inv, FlashInv, SemTake
  PROVE  FlashInv'
<1>t. TypeOK /\ ClockInv /\ ExactInv
  BY DEF Inv, FlashInv
<1>p. /\ pc = "take" /\ led' = led /\ pin' = pin /\ since' = since /\ boot' = boot
      /\ i' = i /\ i = 1 /\ wait' = wait /\ slept' = slept
      /\ \/ pc' = "woken"
         \/ pc' = "sleep" /\ sem = 0 /\ sem' = 0 /\ left' = wait
  BY <1>t DEF SemTake, At, Dark, callsFrame, FlashInv, PlaceInv, TypeOK
<1>1. /\ PatternInv' /\ LitInv' /\ PlaceInv'
      /\ \A l \in Slot : Lit(l) /\ Lit(l)' <=> pin[l]
  BY <1>p, WaitKeeps DEF Waiting
<1>2. \A l \in Slot : Charge(l) = slept /\ Charge(l)' = slept
  BY <1>p DEF Charge
<1>3. SleepInv'
  BY <1>p, <1>t, FlashTypes DEF SleepInv, FlashInv
<1>4. ClockInv'
  BY <1>t, <1>p, <1>1, <1>2, FlashTypes, WaitClock DEF Lit, Lighting
<1>5. ExactInv'
  <2>1. ASSUME NEW l \in Slot, LATE = 0, Lit(l)' PROVE ExactAt(l)'
    <3>1. ExactAt(l)
      BY <1>t, <1>p, <2>1, ExactNow DEF Lit, Lighting
    <3>2. slept = 0
      BY <2>1, <1>p DEF FlashInv, SleepInv
    <3> QED
      BY <1>p, <1>2, <3>1, <3>2 DEF ExactAt
  <2> QED
    BY <1>p, <2>1, ExactNext DEF Lighting
<1> QED
  BY <1>1, <1>3, <1>4, <1>5 DEF FlashInv

\* The wait is over: the slots are charged with it.
LEMMA TimedOutFlash ==
  ASSUME Inv, FlashInv, TimedOut
  PROVE  FlashInv'
<1>t. TypeOK /\ ClockInv /\ ExactInv
  BY DEF Inv, FlashInv
<1>p. /\ pc = "out" /\ led' = led /\ pin' = pin /\ since' = since /\ boot' = boot
      /\ i' = i /\ i = 1 /\ wait' = wait /\ pc' = "work"
  BY DEF TimedOut, At, GoTo, Dark, callsFrame, FlashInv, PlaceInv
<1>1. /\ PatternInv' /\ LitInv' /\ PlaceInv'
      /\ \A l \in Slot : Lit(l) /\ Lit(l)' <=> pin[l]
  BY <1>p, WaitKeeps DEF Waiting
<1>2. \A l \in Slot : Charge(l) = wait /\ Charge(l)' = wait
  BY <1>p, <1>t, FlashTypes DEF Charge
<1>3. SleepInv'
  BY <1>p DEF SleepInv
<1>4. ClockInv'
  BY <1>t, <1>p, <1>1, <1>2, FlashTypes, WaitClock DEF Lit, Lighting
<1>5. ExactInv'
  <2>1. ASSUME NEW l \in Slot, LATE = 0, Lit(l)' PROVE ExactAt(l)'
    <3>1. ExactAt(l)
      BY <1>t, <1>p, <2>1, ExactNow DEF Lit, Lighting
    <3> QED
      BY <1>p, <1>2, <3>1 DEF ExactAt
  <2> QED
    BY <1>p, <2>1, ExactNext DEF Lighting
<1> QED
  BY <1>1, <1>3, <1>4, <1>5 DEF FlashInv

\* A call has woken the daemon: the slots are corrected by the time slept.
LEMMA WokenFlash ==
  ASSUME Inv, FlashInv, Woken
  PROVE  FlashInv'
<1>t. TypeOK /\ ClockInv /\ ExactInv
  BY DEF Inv, FlashInv
<1>p. /\ pc = "woken" /\ led' = led /\ pin' = pin /\ since' = since /\ boot' = boot
      /\ i' = 1 /\ slept' = slept /\ pc' = "corr"
  BY DEF Woken, At, Dark, callsFrame
<1>1. /\ PatternInv' /\ LitInv' /\ PlaceInv'
      /\ \A l \in Slot : Lit(l) /\ Lit(l)' <=> pin[l]
  BY <1>p, WaitKeeps DEF Waiting
<1>2. \A l \in Slot : Charge(l) = slept /\ Charge(l)' = slept /\ ~(l < i')
  BY <1>p, <1>t, FlashTypes DEF Charge
<1>3. SleepInv'
  BY <1>p DEF SleepInv
<1>4. ClockInv'
  BY <1>t, <1>p, <1>1, <1>2, FlashTypes, WaitClock DEF Lit, Lighting
<1>5. ExactInv'
  <2>1. ASSUME NEW l \in Slot, LATE = 0, Lit(l)' PROVE ExactAt(l)'
    <3>1. ExactAt(l)
      BY <1>t, <1>p, <2>1, ExactNow DEF Lit, Lighting
    <3> QED
      BY <1>p, <1>2, <3>1 DEF ExactAt
  <2> QED
    BY <1>p, <2>1, ExactNext DEF Lighting
<1> QED
  BY <1>1, <1>3, <1>4, <1>5 DEF FlashInv

\* The daemon loads a slot that is blinking, and passes over one that is not.
LEMMA CorrectLoadFlash ==
  ASSUME Inv, FlashInv, CorrectLoad
  PROVE  FlashInv'
<1>t. TypeOK /\ ClockInv /\ ExactInv
  BY DEF Inv, FlashInv
<1>p. /\ pc = "corr" /\ led' = led /\ pin' = pin /\ since' = since /\ boot' = boot
      /\ slept' = slept /\ boot = 0
  BY DEF CorrectLoad, GoTo, At, Dark, callsFrame
<1>z. /\ i \in Int /\ N \in Int /\ i <= N /\ slept \in Nat /\ wait \in Int
      /\ \A l \in Slot : l \in Int /\ l <= N /\ led[l].ticks \in Int
  BY <1>t, FlashTypes
<1>1. CASE "ACTIVE" \in led[i].flag
  <2>p. /\ pc' = "correct" /\ i' = i /\ wait' = wait
        /\ reg' = [flag |-> led[i].flag, num |-> led[i].ticks]
    BY <1>1 DEF CorrectLoad, GoTo
  <2>1. PatternInv' /\ LitInv' /\ SleepInv'
    BY <1>p, <2>p DEF FlashInv, PatternInv, LitInv, SleepInv
  <2>2. PlaceInv'
    BY <1>p, <1>1, <2>p DEF PlaceInv, Loaded, OnPlaces, EndPlaces, OffPlaces
  <2>3. \A l \in Slot : Charge(l)' = Charge(l) /\ (Lit(l)' <=> Lit(l))
    BY <1>p, <2>p DEF Charge, Lit, Lighting, Working, OnPlaces, EndPlaces, OffPlaces
  <2>4. ClockInv'
    BY <1>t, <1>p, <2>3, FlashTypes, WaitClock
  <2>5. ExactInv'
    <3>1. ASSUME NEW l \in Slot, LATE = 0, Lit(l)' PROVE ExactAt(l)'
      <4>1. ExactAt(l)
        BY <1>t, <2>3, <3>1, ExactNow
      <4> QED
        BY <1>p, <2>p, <2>3, <4>1 DEF ExactAt
    <3> QED
      BY <2>p, <3>1, ExactNext DEF Lighting
  <2> QED
    BY <2>1, <2>2, <2>4, <2>5 DEF FlashInv
<1>2. CASE "ACTIVE" \notin led[i].flag
  <2>p. /\ wait' = (IF i = N /\ wait < 0 THEN 0 ELSE wait)
        /\ i' = (IF i = N THEN 1 ELSE i + 1) /\ pc' = IF i = N THEN "enter" ELSE "corr"
    BY <1>2 DEF CorrectLoad, NextMin
  <2>1. /\ PatternInv' /\ LitInv' /\ PlaceInv'
        /\ \A l \in Slot : Lit(l) /\ Lit(l)' <=> pin[l]
    BY <1>p, <2>p, WaitKeeps DEF Waiting
  <2>2. SleepInv'
    BY <2>p DEF SleepInv
  <2>3. ASSUME NEW l \in Slot, Lit(l)'
        PROVE  /\ l # i /\ Lit(l) /\ Charge(l)' = Charge(l)
               /\ pc' = "enter" => l < i
               /\ pc' = "corr" => (l < i' <=> l < i) /\ (i' <= l <=> i <= l)
    <3>1. pin[l] /\ Lit(l) /\ l # i
      BY <1>p, <1>2, <2>3 DEF Lit, Lighting, FlashInv, LitInv
    <3>2. CASE i = N
      <4>1. pc' = "enter" /\ l < i
        BY <2>p, <3>1, <3>2, <1>z
      <4>2. Charge(l) = 0 /\ Charge(l)' = 0
        BY <1>p, <4>1, <1>z DEF Charge, Working, OnPlaces, EndPlaces, OffPlaces
      <4> QED
        BY <3>1, <4>1, <4>2
    <3>3. CASE i # N
      <4>1. pc' = "corr" /\ (l < i' <=> l < i) /\ (i' <= l <=> i <= l)
        BY <2>p, <3>1, <3>3, <1>z
      <4>2. Charge(l)' = Charge(l)
        BY <1>p, <4>1 DEF Charge, Working, OnPlaces, EndPlaces, OffPlaces
      <4> QED
        BY <3>1, <4>1, <4>2
    <3> QED
      BY <3>2, <3>3
  <2>4. ClockInv'
    BY <1>t, <1>p, <2>3, FlashTypes, WaitClock
  <2>5. ExactInv'
    <3>1. ASSUME NEW l \in Slot, LATE = 0, Lit(l)' PROVE ExactAt(l)'
      <4>1. ExactAt(l)
        BY <1>t, <2>3, <3>1, ExactNow
      <4>2. led[l].ticks >= 0
        BY <4>1, <1>p, <1>z DEF ExactAt, Charge, Working, OnPlaces, EndPlaces, OffPlaces
      <4>3. l < i => wait' <= led[l].ticks
        BY <4>1, <4>2, <1>p, <2>p, <1>z DEF ExactAt
      <4> QED
        BY <1>p, <2>p, <2>3, <3>1, <4>1, <4>3 DEF ExactAt
    <3> QED
      BY <2>p, <3>1, ExactNext DEF Lighting
  <2> QED
    BY <2>1, <2>2, <2>4, <2>5 DEF FlashInv
<1> QED
  BY <1>1, <1>2

\* The slot is charged for the time slept, or has not been lit for it.
LEMMA CorrectStoreFlash ==
  ASSUME Inv, FlashInv, CorrectStore
  PROVE  FlashInv'
<1>t. TypeOK /\ ClockInv /\ ExactInv /\ i \in Slot
  BY FlashTypes DEF Inv, FlashInv
<1>z. /\ i \in Int /\ N \in Int /\ i <= N /\ slept \in Nat /\ wait \in Int
      /\ \A l \in Slot : l \in Int /\ l <= N /\ led[l].ticks \in Int
  BY <1>t, FlashTypes
<1> DEFINE spared == "CORRECT" \in led[i].flag
           left_i == IF spared THEN led[i].ticks ELSE led[i].ticks - slept
           min == Least(left_i, wait)
<1>p. /\ pc = "correct" /\ pin' = pin /\ since' = since /\ boot' = 0 /\ slept' = slept
      /\ reg.flag = led[i].flag /\ reg.num = led[i].ticks /\ boot = 0
  BY DEF CorrectStore, At, Dark, callsFrame, FlashInv, PlaceInv, Loaded
<1>s. /\ \A l \in Slot : led'[l].pat = led[l].pat /\ led'[l].bak = led[l].bak
      /\ \A l \in Slot : led'[l].ticks = IF l = i THEN left_i ELSE led[l].ticks
      /\ \A l \in Slot : led'[l].flag = IF l = i THEN led[l].flag \ {"CORRECT"} ELSE led[l].flag
  <2>1. CASE spared
    <3>1. led' = [led EXCEPT ![i].flag = led[i].flag \ {"CORRECT"}]
      BY <1>p, <2>1 DEF CorrectStore, StoreFlag
    <3> QED
      BY <2>1, <3>1, <1>t DEF TypeOK, LedType
  <2>2. CASE ~spared
    <3>1. led' = [led EXCEPT ![i].ticks = led[i].ticks - slept]
      BY <1>p, <2>2 DEF CorrectStore, StoreTicks
    <3>2. led[i].flag \ {"CORRECT"} = led[i].flag
      BY <2>2
    <3> QED
      BY <2>2, <3>1, <3>2, <1>t DEF TypeOK, LedType
  <2> QED
    BY <2>1, <2>2
<1>q. /\ wait' = (IF i = N /\ min < 0 THEN 0 ELSE min)
      /\ i' = (IF i = N THEN 1 ELSE i + 1) /\ pc' = IF i = N THEN "enter" ELSE "corr"
  <2>1. led'[i].ticks = left_i
    BY <1>s, <1>t
  <2> HIDE DEF left_i
  <2> QED
    BY <2>1 DEF CorrectStore, NextMin
<1>w. left_i \in Int /\ min \in Int /\ wait' \in Int
  <2>1. left_i \in Int
    BY <1>z, <1>t
  <2> HIDE DEF left_i
  <2>2. min \in Int
    BY <2>1, <1>z DEF Least
  <2> HIDE DEF min
  <2> QED
    BY <2>1, <2>2, <1>q
<1>1. PatternInv'
  BY <1>s DEF FlashInv, PatternInv
<1>2. LitInv'
  <2>1. ~(boot' > 0) /\ ~(boot' >= 3) /\ pc' \notin {"on_load", "on_store"}
    BY <1>p, <1>q
  <2>2. ASSUME NEW l \in Slot, pin[l]
        PROVE  "ACTIVE" \in led[l].flag /\ "SHOULD_ON" \notin led[l].flag
    BY <1>p, <2>2 DEF FlashInv, LitInv
  <2> HIDE DEF left_i, min
  <2>3. ASSUME NEW l \in Slot, pin'[l]
        PROVE  "ACTIVE" \in led'[l].flag /\ "SHOULD_ON" \notin led'[l].flag
    BY <1>s, <1>p, <2>2, <2>3
  <2> QED
    BY <2>1, <2>3 DEF LitInv
<1>3. PlaceInv'
  BY <1>q DEF PlaceInv, Loaded, OnPlaces, EndPlaces, OffPlaces
<1>4. SleepInv'
  BY <1>q DEF SleepInv
<1>5. ASSUME NEW l \in Slot, Lit(l)'
      PROVE  /\ Lit(l) /\ Charge(l) = (IF i <= l THEN slept ELSE 0)
             /\ Charge(l)' = (IF i < l THEN slept ELSE 0)
             /\ pc' = "enter" => l <= i
             /\ pc' = "corr" => (l < i' <=> l <= i) /\ (i' <= l <=> i < l)
  <2>1. Lit(l)
    BY <1>p, <1>q, <1>5 DEF Lit, Lighting
  <2>2. Charge(l) = IF i <= l THEN slept ELSE 0
    BY <1>p DEF Charge, Working, OnPlaces, EndPlaces, OffPlaces
  <2>3. CASE i = N
    <3>1. pc' = "enter" /\ l <= i /\ ~(i < l)
      BY <1>q, <2>3, <1>z
    <3>2. Charge(l)' = 0
      BY <3>1 DEF Charge, Working, OnPlaces, EndPlaces, OffPlaces
    <3> QED
      BY <2>1, <2>2, <3>1, <3>2
  <2>4. CASE i # N
    <3>1. pc' = "corr" /\ (l < i' <=> l <= i) /\ (i' <= l <=> i < l)
      BY <1>q, <2>4, <1>z
    <3>2. Charge(l)' = IF i < l THEN slept ELSE 0
      BY <1>p, <3>1 DEF Charge, Working, OnPlaces, EndPlaces, OffPlaces
    <3> QED
      BY <2>1, <2>2, <3>1, <3>2
  <2> QED
    BY <2>3, <2>4
<1>6. ClockInv'
  <2> SUFFICES ASSUME NEW l \in Slot, Lit(l)', since'[l] # SINCE_MAX
               PROVE  since'[l] >= led'[l].pat.pulse - led'[l].ticks + Charge(l)'
    BY DEF ClockInv, SINCE_MAX
  <2>1. since[l] >= led[l].pat.pulse - led[l].ticks + Charge(l)
    BY <1>t, <1>p, <1>5 DEF ClockInv
  <2>2. since[l] \in Int /\ led[l].pat.pulse \in Int /\ led[l].ticks \in Int
    BY <1>t, FlashTypes
  <2>3. CASE l = i
    <3>1. Charge(l) = slept /\ Charge(l)' = 0 /\ led'[l].ticks = left_i
      BY <1>5, <1>s, <1>z, <2>3
    <3>2. left_i >= led[l].ticks - slept
      BY <1>z, <2>3
    <3> HIDE DEF left_i
    <3> QED
      BY <1>s, <1>p, <1>w, <1>z, <2>1, <2>2, <3>1, <3>2
  <2>4. CASE l # i
    <3>1. Charge(l)' = Charge(l) /\ led'[l].ticks = led[l].ticks
      BY <1>5, <1>s, <1>z, <2>4
    <3> QED
      BY <1>s, <1>p, <2>1, <3>1
  <2> QED
    BY <2>3, <2>4
<1>7. ExactInv'
  <2>1. ASSUME NEW l \in Slot, LATE = 0, Lit(l)' PROVE ExactAt(l)'
    <3>1. ExactAt(l)
      BY <1>t, <1>5, <2>1, ExactNow
    <3>2. /\ since[l] \in Int /\ led[l].pat.pulse \in Int /\ led[l].ticks \in Int
          /\ led'[l].pat = led[l].pat /\ since'[l] = since[l]
      BY <1>t, <1>s, <1>p, FlashTypes
    <3>3. CASE l = i
      <4>1. Charge(l) = slept /\ Charge(l)' = 0 /\ led'[l].ticks = left_i
        BY <1>5, <2>1, <1>s, <1>z, <3>3
      <4>2. spared => slept = 0
        BY <3>1, <3>3, <1>p, <1>z DEF ExactAt
      <4>3. left_i = led[l].ticks - slept
        BY <4>2, <3>3, <1>z
      <4>4. left_i >= 0
        BY <4>1, <4>3, <3>1, <3>2, <1>z DEF ExactAt
      <4>5. min <= left_i
        <5> HIDE DEF left_i
        <5> QED
          BY <1>w, <1>z DEF Least
      <4>6. wait' <= left_i
        <5> HIDE DEF left_i, min
        <5> QED
          BY <1>q, <1>w, <4>4, <4>5
      <4>7. since[l] = led[l].pat.pulse - left_i + 0
        BY <4>1, <4>3, <3>1, <3>2, <1>z, <1>w DEF ExactAt
      <4>8. ~(i' <= l /\ pc' = "corr") /\ pc' \in {"corr", "enter"}
        BY <1>5, <2>1, <3>3, <1>q, <1>z
      <4> HIDE DEF left_i, min
      <4> QED
        BY <4>1, <4>4, <4>6, <4>7, <4>8, <3>2 DEF ExactAt
    <3>4. CASE l # i
      <4>1. Charge(l)' = Charge(l) /\ led'[l].ticks = led[l].ticks /\ led'[l].flag = led[l].flag
        <5>1. (i <= l) <=> (i < l)
          BY <1>z, <3>4
        <5>2. Charge(l)' = Charge(l)
          BY <1>5, <2>1, <5>1
        <5> HIDE DEF left_i
        <5>3. led'[l].ticks = led[l].ticks /\ led'[l].flag = led[l].flag
          BY <1>s, <3>4
        <5> QED
          BY <5>2, <5>3
      <4>2. led[l].ticks >= 0
        <5>1. Charge(l) \in Int /\ Charge(l) >= 0
          BY <1>5, <2>1, <1>z
        <5> QED
          BY <3>1, <3>2, <5>1 DEF ExactAt
      <4>3. l <= i => wait <= led[l].ticks
        BY <3>1, <3>4, <1>p, <1>z DEF ExactAt
      <4>4. min <= wait
        <5> HIDE DEF left_i
        <5> QED
          BY <1>w, <1>z DEF Least
      <4>5. l <= i => wait' <= led[l].ticks
        <5> HIDE DEF left_i, min
        <5> QED
          BY <1>q, <1>w, <1>z, <3>2, <4>2, <4>3, <4>4
      <4>6. i < l \/ l <= i
        BY <1>z
      <4>7. i < l => i <= l
        BY <1>z
      <4>8. pc' \in {"corr", "enter"}
        BY <1>q
      <4> HIDE DEF left_i, min
      <4> QED
        BY <4>1, <4>5, <4>6, <4>7, <4>8, <3>1, <3>2, <1>5, <2>1, <1>p DEF ExactAt
    <3> QED
      BY <3>3, <3>4
  <2> QED
    BY <1>q, <2>1, ExactNext DEF Lighting
<1> QED
  BY <1>1, <1>2, <1>3, <1>4, <1>6, <1>7 DEF FlashInv

----------------------------------------------------------------------------
(* The tick.                                                                *)

\* A tick is one more to be taken off while the daemon waits; a wait that ends is
\* as long as the daemon chose, or longer.
LEMMA TickCharge ==
  ASSUME Inv, FlashInv, Tick, NEW l \in Slot
  PROVE  /\ Charge(l)' \in Int /\ Charge(l)' <= Charge(l) + 1
         /\ pc = "sleep" /\ LATE = 0 => Charge(l) = slept /\ Charge(l)' = slept + 1
<1>t. /\ wait \in Int /\ slept \in Nat /\ left \in Nat /\ i \in Int /\ l \in Int
      /\ Charge(l) \in Int
  BY FlashTypes DEF Inv
<1>p. /\ i' = i /\ wait' = wait
      /\ slept' = (IF pc \in {"take", "sleep", "woken"} THEN slept + 1 ELSE slept)
      /\ pc' = IF pc = "sleep" /\ left = 1 THEN "out" ELSE pc
  BY DEF Tick
<1>1. CASE pc = "sleep"
  <2>1. Charge(l) = slept /\ slept' = slept + 1 /\ slept + left >= wait
    BY <1>1, <1>p DEF Charge, FlashInv, SleepInv
  <2>2. CASE left = 1
    <3>1. Charge(l)' = wait
      BY <1>1, <1>p, <2>2 DEF Charge
    <3>2. LATE = 0 => slept + left = wait
      BY <1>1 DEF FlashInv, SleepInv
    <3> QED
      BY <1>t, <2>1, <2>2, <3>1, <3>2
  <2>3. CASE left # 1
    <3>1. Charge(l)' = slept + 1
      BY <1>1, <1>p, <2>3 DEF Charge
    <3> QED
      BY <1>t, <2>1, <3>1
  <2> QED
    BY <2>2, <2>3
<1>2. CASE pc \in {"take", "woken"}
  <2>1. Charge(l) = slept /\ Charge(l)' = slept + 1
    BY <1>2, <1>p DEF Charge
  <2> QED
    BY <1>t, <1>2, <2>1
<1>3. CASE pc \notin {"take", "sleep", "woken"}
  <2>1. Charge(l)' = Charge(l)
    BY <1>3, <1>p DEF Charge
  <2> QED
    BY <1>t, <1>3, <2>1
<1> QED
  BY <1>1, <1>2, <1>3

\* The clocks of the slots go on, and with them what the daemon has to take off.
LEMMA TickFlash ==
  ASSUME Inv, FlashInv, Tick
  PROVE  FlashInv'
<1>t. TypeOK /\ ClockInv /\ ExactInv /\ PatternInv /\ late \in Nat
  BY DEF Inv, FlashInv, TypeOK
<1>p. /\ led' = led /\ pin' = pin /\ sem' = sem /\ i' = i /\ wait' = wait /\ reg' = reg
      /\ boot' = 0 /\ boot = 0
      /\ pc' = pc \/ (pc = "sleep" /\ pc' = "out")
  BY DEF Tick
<1>m. SINCE_MAX \in Nat /\ SINCE_MAX' = SINCE_MAX /\ E_PULSE + B_PULSE < SINCE_MAX
      /\ E_PULSE \in Nat /\ B_PULSE \in Nat
  BY EasyBlinkAssumption DEF SINCE_MAX
<1>q. \A l \in Slot : since'[l] = Least(since[l] + 1, SINCE_MAX)
  BY DEF Tick
<1>l. \A l \in Slot : Lit(l)' <=> Lit(l)
  BY <1>p DEF Lit, Lighting
<1>d. LATE = 0 => pc \in {"none", "sleep"}
  BY <1>t, EasyBlinkAssumption DEF Tick
<1>1. PatternInv'
  BY <1>p DEF FlashInv, PatternInv
<1>2. LitInv'
  BY <1>p DEF FlashInv, LitInv
<1>3. PlaceInv'
  BY <1>p DEF FlashInv, PlaceInv, Loaded, OnPlaces, EndPlaces, OffPlaces
<1>4. SleepInv'
  <2>1. CASE pc' = "sleep"
    <3>1. pc = "sleep" /\ slept' = slept + 1 /\ left' = left - 1
      BY <1>p, <2>1 DEF Tick
    <3> QED
      BY <1>p, <1>t, FlashTypes, <2>1, <3>1 DEF FlashInv, SleepInv
  <2>2. CASE pc' # "sleep"
    BY <1>p, <1>d, <2>2 DEF SleepInv
  <2> QED
    BY <2>1, <2>2
<1>5. ClockInv'
  <2> SUFFICES ASSUME NEW l \in Slot, Lit(l)', since'[l] # SINCE_MAX
               PROVE  since'[l] >= led'[l].pat.pulse - led'[l].ticks + Charge(l)'
    BY DEF ClockInv, SINCE_MAX
  <2>1. since[l] \in Int /\ led[l].pat.pulse \in Int /\ led[l].ticks \in Int /\ Charge(l) \in Int
    BY <1>t, FlashTypes
  <2>2. Charge(l)' \in Int /\ Charge(l)' <= Charge(l) + 1
    BY TickCharge
  <2>3. since'[l] = since[l] + 1 /\ since[l] # SINCE_MAX
    BY <1>q, <1>m, <2>1 DEF Least
  <2>4. since[l] >= led[l].pat.pulse - led[l].ticks + Charge(l)
    BY <1>t, <1>l, <2>3 DEF ClockInv
  <2>5. PICK c \in Int : c = Charge(l)'
    BY <2>2
  <2> QED
    BY <1>p, <2>1, <2>2, <2>3, <2>4, <2>5
<1>6. ExactInv'
  <2>1. ASSUME NEW l \in Slot, LATE = 0, Lit(l)' PROVE ExactAt(l)' /\ pc = "sleep"
    <3>1. pin[l] /\ "INIT" \in led[l].flag
      BY <2>1, <1>p DEF Lit, FlashInv, LitInv, Inv, ActiveInv
    <3>2. pc = "sleep"
      BY <1>d, <2>1, <3>1 DEF Inv, ActiveInv, DaemonServesSlots
    <3>3. ExactAt(l) /\ slept + left = wait
      BY <1>t, <1>l, <2>1, <3>2, ExactNow DEF FlashInv, SleepInv
    <3>4. Charge(l) = slept /\ Charge(l)' = slept + 1
      BY <2>1, <3>2, TickCharge
    <3>t. /\ since[l] \in Int /\ led[l].pat.pulse \in Int /\ led[l].ticks \in Int
          /\ slept \in Int /\ left \in Int /\ wait \in Int /\ left > 0
      BY <1>t, <3>2, FlashTypes DEF TypeOK
    <3>5. wait <= led[l].ticks /\ since[l] = led[l].pat.pulse - led[l].ticks + slept
      BY <3>2, <3>3, <3>4 DEF ExactAt
    <3>6. slept + 1 <= wait
      BY <3>3, <3>t
    <3>7. led[l].pat.pulse <= E_PULSE + B_PULSE
      BY <1>t DEF PatternInv
    <3>8. since[l] + 1 < SINCE_MAX
      BY <1>m, <3>t, <3>5, <3>6, <3>7
    <3>9. since'[l] = since[l] + 1
      BY <1>q, <1>m, <3>t, <3>8 DEF Least
    <3>10. /\ since'[l] = led[l].pat.pulse - led[l].ticks + (slept + 1)
           /\ slept + 1 <= led[l].ticks
      BY <3>t, <3>5, <3>6, <3>9
    <3>11. pc' \in {"sleep", "out"}
      BY <1>p, <3>2
    <3> QED
      BY <1>p, <3>2, <3>4, <3>5, <3>10, <3>11 DEF ExactAt
  <2>2. LATE = 0 => pc' \notin Lighting
    BY <1>p, <1>d DEF Lighting
  <2>3. CASE LATE = 0
    BY <2>1, <2>2, <2>3, ExactNext
  <2>4. CASE LATE # 0
    BY <2>4 DEF ExactInv
  <2> QED
    BY <2>3, <2>4
<1> QED
  BY <1>1, <1>2, <1>3, <1>4, <1>5, <1>6 DEF FlashInv

----------------------------------------------------------------------------
(* The callers.                                                             *)

\* A request is saved or starts a slot that is not blinking, and so is dark: no
\* slot that is lit is touched.  A daemon that is woken has corrected all of them.
LEMMA RequestFlash ==
  ASSUME Inv, FlashInv, NEW l \in Slot, NEW pat \in PatternType,
         led[l].pat.nums # -1, pat.pulse <= E_PULSE + B_PULSE, l # 1 => pat.nums >= 0,
         easyblink(l, pat), UNCHANGED <<i, wait>>, callerFrame,
         ~(boot' >= 3), boot' > 0 => boot > 0
  PROVE  FlashInv'
<1>t. TypeOK /\ ClockInv /\ ExactInv /\ led \in [Slot -> LedType] /\ i \in Slot
  BY DEF Inv, FlashInv, TypeOK
<1>p. /\ pin' = pin /\ since' = since /\ i' = i /\ wait' = wait /\ slept' = slept
      /\ left' = left /\ reg' = reg
      /\ pc' = pc \/ (pc = "sleep" /\ pc' = "woken")
      /\ pc' = "sleep" => sem' = sem
  BY DEF easyblink, Replace, Save, Start, BlinkDelay, SemRelease, callerFrame
<1>s. /\ \A k \in Slot : k # l => led'[k] = led[k]
      /\ led'[l].bak.pulse <= E_PULSE + B_PULSE /\ led'[l].pat.pulse <= E_PULSE + B_PULSE
      /\ l # 1 => led'[l].bak.nums >= 0 /\ led'[l].pat.nums >= 0
      /\ \/ "ACTIVE" \notin led[l].flag
         \/ /\ led'[l].flag = led[l].flag /\ led'[l].pat = led[l].pat
            /\ led'[l].ticks = led[l].ticks
  <2>1. CASE Save(l, pat)
    <3>1. led' = [led EXCEPT ![l].bak = pat]
      BY <2>1 DEF Save
    <3>2. led'[l].bak = pat /\ led'[l].flag = led[l].flag /\ led'[l].pat = led[l].pat
          /\ led'[l].ticks = led[l].ticks /\ \A k \in Slot : k # l => led'[k] = led[k]
      BY <3>1, <1>t DEF LedType
    <3> QED
      BY <3>2 DEF FlashInv, PatternInv
  <2>2. CASE Start(l, pat)
    <3>1. led' = [led EXCEPT ![l] =
                    [flag |-> @.flag \cup {"SHOULD_ON", "ACTIVE", "CORRECT"},
                     pat |-> pat, bak |-> led[l].bak, ticks |-> 0]]
          /\ "ACTIVE" \notin led[l].flag
      BY <2>2 DEF Start, BlinkDelay
    <3>2. led'[l].bak = led[l].bak /\ led'[l].pat = pat
          /\ \A k \in Slot : k # l => led'[k] = led[k]
      BY <3>1, <1>t DEF LedType
    <3> QED
      BY <3>1, <3>2 DEF FlashInv, PatternInv
  <2> QED
    BY <2>1, <2>2 DEF easyblink, Replace
<1>k. ASSUME NEW k \in Slot, "ACTIVE" \in led[k].flag
      PROVE  led'[k].flag = led[k].flag /\ led'[k].pat = led[k].pat /\ led'[k].ticks = led[k].ticks
  BY <1>s, <1>k
<1>l. ASSUME NEW k \in Slot, pin[k]
      PROVE  /\ "ACTIVE" \in led[k].flag
             /\ led'[k].flag = led[k].flag /\ led'[k].pat = led[k].pat /\ led'[k].ticks = led[k].ticks
  BY <1>k, <1>l DEF FlashInv, LitInv
<1>1. PatternInv'
  BY <1>s DEF FlashInv, PatternInv
<1>2. LitInv'
  <2>1. \A k \in Slot : pin'[k] =>
          /\ "ACTIVE" \in led'[k].flag
          /\ "SHOULD_ON" \in led'[k].flag => i' = k /\ pc' \in {"on_load", "on_store"}
    BY <1>p, <1>l DEF FlashInv, LitInv
  <2>2. boot' > 0 => \A k \in Slot : ~pin'[k]
    BY <1>p DEF FlashInv, LitInv
  <2> QED
    BY <2>1, <2>2 DEF LitInv
<1>3. PlaceInv'
  BY <1>t, <1>p, <1>k, <1>l DEF FlashInv, PlaceInv, Loaded, OnPlaces, EndPlaces, OffPlaces
<1>4. SleepInv'
  BY <1>p DEF FlashInv, SleepInv
<1>5. \A k \in Slot : Charge(k)' = Charge(k) /\ (Lit(k)' <=> Lit(k))
  BY <1>p DEF Charge, Lit, Lighting, Working, OnPlaces, EndPlaces, OffPlaces
<1>6. ClockInv'
  <2> SUFFICES ASSUME NEW k \in Slot, Lit(k)', since'[k] # SINCE_MAX
               PROVE  since'[k] >= led'[k].pat.pulse - led'[k].ticks + Charge(k)'
    BY DEF ClockInv, SINCE_MAX
  <2>1. Lit(k) /\ pin[k]
    BY <1>5 DEF Lit
  <2> QED
    BY <1>t, <1>p, <1>l, <1>5, <2>1 DEF ClockInv
<1>7. ExactInv'
  <2> SUFFICES ASSUME LATE = 0 PROVE ExactInv'
    BY DEF ExactInv
  <2>1. ASSUME NEW k \in Slot, Lit(k)'
        PROVE  ExactAt(k)'
    <3>1. Lit(k) /\ pin[k]
      BY <1>5, <2>1 DEF Lit
    <3>2. ExactAt(k)
      BY <1>t, <3>1, ExactNow
    <3>3. pc = "sleep" => "CORRECT" \notin led[k].flag
      BY <1>l, <3>1 DEF FlashInv, SleepInv, Inv, CorrectionPending
    <3>4. led'[k].flag = led[k].flag /\ led'[k].pat = led[k].pat /\ led'[k].ticks = led[k].ticks
      BY <1>l, <3>1
    <3>5. CASE pc' = pc
      BY <1>p, <1>5, <3>2, <3>4, <3>5 DEF ExactAt
    <3>6. CASE pc = "sleep" /\ pc' = "woken"
      BY <1>p, <1>5, <3>2, <3>3, <3>4, <3>6 DEF ExactAt
    <3> QED
      BY <1>p, <3>5, <3>6
  <2>2. pc' \in Lighting /\ pin'[i'] => since'[i'] = 0
    BY <1>t, <1>p DEF ExactInv, Lighting
  <2> QED
    BY <2>1, <2>2 DEF ExactInv, ExactAt
<1> QED
  BY <1>1, <1>2, <1>3, <1>4, <1>6, <1>7 DEF FlashInv

\* The patterns of main.c and of the beeps.
LEMMA CalledPulses ==
  /\ Endless \in PatternType /\ Endless.pulse <= E_PULSE + B_PULSE
  /\ \A n \in COUNTS : /\ Burst(n) \in PatternType /\ Burst(n).pulse <= E_PULSE + B_PULSE
                       /\ Burst(n).nums >= 0
  BY CalledPatterns, EasyBlinkAssumption DEF Endless, Burst, Pattern

\* While main.c makes its first calls every slot is dark.
LEMMA BootFlash ==
  ASSUME Inv, FlashInv, Boot
  PROVE  FlashInv'
<1>t. TypeOK /\ led \in [Slot -> LedType] /\ pin \in [Slot -> BOOLEAN]
      /\ 1 \in Slot /\ 2 \in Slot
  BY EasyBlinkAssumption DEF Inv, TypeOK, Slot
<1>p. /\ boot \in 1..4 /\ boot' = boot - 1 /\ callerFrame /\ pc \in {"none", "begin"}
      /\ \A l \in Slot : ~pin[l]
  BY DEF Boot, Inv, TypeOK, BootInv, FlashInv, LitInv
<1>1. CASE boot \in {4, 2} /\ easyblink_init_led
  <2>1. /\ \A l \in Slot : ~pin'[l]
        /\ \A l \in Slot : led'[l].pat = led[l].pat /\ led'[l].bak = led[l].bak
    <3>1. CASE Full
      BY <1>1, <1>p, <3>1 DEF easyblink_init_led
    <3>2. CASE ~Full
      <4>1. /\ led' = [led EXCEPT ![FirstFree].flag = @ \cup {"INIT"}]
            /\ pin' = [pin EXCEPT ![FirstFree] = FALSE]
        BY <1>1, <3>2 DEF easyblink_init_led, Light
      <4> QED
        BY <1>t, <1>p, <4>1 DEF LedType
    <3> QED
      BY <3>1, <3>2
  <2>2. pc' \in {"none", "begin"} /\ (pc' = "begin" => i' = 1)
    BY <1>1, <1>p DEF easyblink_init_led, FlashInv, PlaceInv
  <2>3. PatternInv'
    BY <2>1 DEF FlashInv, PatternInv
  <2>4. boot' >= 3 => boot >= 3
    BY <1>p
  <2>5. LitInv'
    BY <1>t, <2>1, <2>4 DEF FlashInv, LitInv
  <2>6. PlaceInv' /\ SleepInv'
    BY <2>2 DEF PlaceInv, SleepInv, Loaded, OnPlaces, EndPlaces, OffPlaces
  <2>7. ClockInv' /\ ExactInv'
    BY <2>1, <2>2 DEF ClockInv, ExactInv, Lit, Lighting
  <2> QED
    BY <2>3, <2>5, <2>6, <2>7 DEF FlashInv
<1>2. CASE boot = 3 /\ easyblink(1, Endless) /\ UNCHANGED <<i, wait>>
  <2>1. led[1].pat.nums # -1
    BY <1>2 DEF FlashInv, LitInv
  <2>2. ~(boot' >= 3) /\ (boot' > 0 => boot > 0)
    BY <1>p, <1>2
  <2> QED
    BY <1>t, <1>p, <1>2, <2>1, <2>2, CalledPulses, RequestFlash
<1>3. CASE boot = 1 /\ (\E n \in COUNTS : easyblink(2, Burst(n))) /\ UNCHANGED <<i, wait>>
  <2>1. PICK n \in COUNTS : easyblink(2, Burst(n))
    BY <1>3
  <2>2. led[2].pat.nums # -1
    <3>1. led[2].pat.nums >= 0
      BY <1>t DEF FlashInv, PatternInv
    <3> QED
      BY <3>1
  <2>3. ~(boot' >= 3) /\ (boot' > 0 => boot > 0)
    BY <1>p, <1>3
  <2> QED
    BY <1>t, <1>p, <1>3, <2>1, <2>2, <2>3, CalledPulses, RequestFlash
<1> QED
  BY <1>1, <1>2, <1>3 DEF Boot

\* A beep of the track.
LEMMA CallBlinkFlash ==
  ASSUME Inv, FlashInv, Sole, CallBlink
  PROVE  FlashInv'
<1>1. PICK l \in Users, n \in COUNTS : easyblink(l, Burst(n))
  BY DEF CallBlink, Sole, Project
<1>2. l \in Slot /\ l # 1
  BY <1>1, EasyBlinkAssumption DEF Users, Slot, Sole
<1>3. led[l].pat.nums # -1
  <2>1. led[l].pat.nums >= 0
    BY <1>2 DEF FlashInv, PatternInv
  <2> QED
    BY <2>1
<1>4. UNCHANGED <<i, wait>> /\ callerFrame /\ ~(boot' >= 3) /\ (boot' > 0 => boot > 0)
  BY DEF CallBlink
<1> QED
  BY <1>1, <1>2, <1>3, <1>4, CalledPulses, RequestFlash

----------------------------------------------------------------------------
(* The flash lasts its pulse.                                               *)

\* At first every slot is dark.
LEMMA InitFlash == Init => FlashInv
<1> SUFFICES ASSUME Init PROVE FlashInv
  OBVIOUS
<1>1. /\ pc = "none" /\ \A l \in Slot : ~pin[l]
      /\ \A l \in Slot : led[l] = Unused
  BY DEF Init
<1>2. /\ Unused.pat.nums = 0 /\ Unused.bak.nums = 0
      /\ Unused.pat.pulse = 0 /\ Unused.bak.pulse = 0
  BY DEF Unused, NoPattern, Pattern
<1>3. 1 \in Slot /\ 0 <= E_PULSE + B_PULSE
  BY EasyBlinkAssumption DEF Slot
<1>4. PatternInv
  BY <1>1, <1>2, <1>3 DEF PatternInv
<1>5. LitInv
  BY <1>1, <1>2, <1>3 DEF LitInv
<1> QED
  BY <1>1, <1>4, <1>5 DEF FlashInv, PlaceInv, SleepInv, ClockInv, ExactInv, Lit, Lighting,
     Loaded, OnPlaces, EndPlaces, OffPlaces

\* Every step of the daemon, and then every step.
LEMMA DaemonFlash == Inv /\ FlashInv /\ Daemon => FlashInv'
  BY BeginFlash, MinTicksFlash, EnterFlash, SemTakeFlash, TimedOutFlash, WokenFlash,
     CorrectLoadFlash, CorrectStoreFlash, WorkLoadFlash, WorkStoreFlash, TestFlash, TurnOnFlash,
     OnLoadFlash, OnStoreFlash, OnTicksFlash, TurnOffFlash, OffLoadFlash, OffStoreFlash,
     OffTicksFlash, DecrementFlash, SpentFlash, EndLoadFlash, EndStoreFlash, RestoreNumsFlash,
     RestoreTimesFlash, RestoreClearFlash
     DEF Daemon

\* The program makes the calls it was given from the first.
LEMMA CallsKept == [Next]_vars => calls' = calls
<1>1. Daemon => calls' = calls
  BY DEF Daemon, callsFrame, Begin, MinTicks, Enter, SemTake, TimedOut, Woken, CorrectLoad,
     CorrectStore, WorkLoad, WorkStore, Test, TurnOn, OnLoad, OnStore, OnTicks, TurnOff,
     OffLoad, OffStore, OffTicks, Decrement, Spent, EndLoad, EndStore, RestoreNums,
     RestoreTimes, RestoreClear
<1>2. Boot \/ CallBlink \/ CallStop \/ CallInit \/ CallDeinit \/ Tick => calls' = calls
  BY DEF Boot, CallBlink, CallStop, CallInit, CallDeinit, Tick, callerFrame
<1> QED
  BY <1>1, <1>2 DEF Next, vars

\* The beeps of the track neither stop a slot nor take one or give one up.
LEMMA SoleCalls == Project => ~CallStop /\ ~CallInit /\ ~CallDeinit
  BY DEF Project, CallStop, CallInit, CallDeinit

LEMMA NextFlash == Inv /\ FlashInv /\ Sole /\ [Next]_vars => FlashInv'
<1> SUFFICES ASSUME Inv, FlashInv, Sole, [Next]_vars PROVE FlashInv'
  OBVIOUS
<1>1. CASE Boot
  BY <1>1, BootFlash
<1>2. CASE CallBlink
  BY <1>2, CallBlinkFlash
<1>3. CASE Daemon
  BY <1>3, DaemonFlash
<1>4. CASE Tick
  BY <1>4, TickFlash
<1>5. CASE UNCHANGED vars
  BY <1>5 DEF vars, daemonVars, FlashInv, PatternInv, LitInv, PlaceInv, Loaded, SleepInv,
     ClockInv, ExactInv, Lit, Charge
<1> QED
  BY <1>1, <1>2, <1>3, <1>4, <1>5, SoleCalls DEF Next, Sole

\* Only the daemon's turn-off darkens a slot: the calls that could are not made,
\* and what is lit is in use.
LEMMA OnlyTurnOff ==
  ASSUME Inv, FlashInv, Sole, Next, NEW l \in Slot, pin[l], ~pin'[l]
  PROVE  TurnOff /\ l = i
<1>t. pin \in [Slot -> BOOLEAN] /\ i \in Slot
  BY DEF Inv, TypeOK
<1>1. ~Boot
  BY DEF Boot, FlashInv, LitInv
<1>2. ~CallBlink
  <2> SUFFICES ASSUME CallBlink PROVE FALSE
    OBVIOUS
  <2>1. PICK k \in Users, n \in COUNTS : easyblink(k, Burst(n))
    BY DEF CallBlink, Sole, Project
  <2>2. k \in Slot /\ k # 1
    BY <2>1, EasyBlinkAssumption DEF Users, Slot, Sole
  <2>3. led[k].pat.nums >= 0
    BY <2>2 DEF FlashInv, PatternInv
  <2>4. led[k].pat.nums # -1
    BY <2>3
  <2> QED
    BY <2>1, <2>4 DEF easyblink, Replace, Save, Start
<1>3. ~Tick
  BY DEF Tick
<1>4. CASE TurnOn
  <2>1. "INIT" \in led[i].flag
    BY <1>4, <1>t DEF TurnOn, At, FlashInv, PlaceInv, OnPlaces, Inv, ActiveInv
  <2>2. pin' = [pin EXCEPT ![i] = TRUE]
    BY <1>4, <2>1 DEF TurnOn, Light
  <2> QED
    BY <1>t, <2>2
<1>5. CASE TurnOff
  BY <1>t, <1>5 DEF TurnOff, Light
<1>6. Daemon => TurnOn \/ TurnOff
  BY DEF Daemon, Dark, LoadFlag, Begin, MinTicks, Enter, SemTake, TimedOut, Woken, CorrectLoad,
     CorrectStore, WorkLoad, WorkStore, Test, OnLoad, OnStore, OnTicks,
     OffLoad, OffStore, OffTicks, Decrement, Spent, EndLoad, EndStore, RestoreNums,
     RestoreTimes, RestoreClear
<1> QED
  BY <1>1, <1>2, <1>3, <1>4, <1>5, <1>6, SoleCalls DEF Next, Sole

\* What FlashLength says of one step of one slot.
FlashStep(l) ==
  Project /\ pin[l] /\ ~pin'[l] =>
    /\ since[l] >= led[l].pat.pulse
    /\ LATE = 0 => since[l] = led[l].pat.pulse

LEMMA FlashEnds ==
  ASSUME Inv, FlashInv, Sole, [Next]_vars, NEW l \in Slot
  PROVE  FlashStep(l)
<1> SUFFICES ASSUME pin[l], ~pin'[l]
             PROVE  /\ since[l] >= led[l].pat.pulse
                    /\ LATE = 0 => since[l] = led[l].pat.pulse
  BY DEF FlashStep
<1>1. TurnOff /\ l = i
  BY OnlyTurnOff DEF vars
<1>2. pc = "off" /\ led[l].ticks <= 0 /\ Lit(l)
  BY <1>1 DEF TurnOff, At, FlashInv, PlaceInv, Lit, Lighting
<1>3. /\ since[l] \in Int /\ led[l].pat.pulse \in Int /\ led[l].ticks \in Int /\ i \in Int
  BY FlashTypes DEF Inv
<1>4. Charge(l) = 0
  BY <1>1, <1>2, <1>3 DEF Charge
<1>5. led[l].pat.pulse <= E_PULSE + B_PULSE /\ E_PULSE + B_PULSE <= SINCE_MAX
      /\ E_PULSE + B_PULSE \in Int /\ SINCE_MAX \in Int
  BY EasyBlinkAssumption DEF FlashInv, PatternInv, SINCE_MAX
<1>6. since[l] = SINCE_MAX \/ since[l] >= led[l].pat.pulse - led[l].ticks + 0
  BY <1>2, <1>4 DEF FlashInv, ClockInv
<1>7. LATE = 0 => since[l] = led[l].pat.pulse - led[l].ticks + 0 /\ 0 <= led[l].ticks
  BY <1>2, <1>4 DEF FlashInv, ExactInv
<1> QED
  BY <1>2, <1>3, <1>5, <1>6, <1>7

\* FlashInv is an invariant of the project's program.
LEMMA FlashInvariance == Spec => [](Sole => FlashInv)
<1>1. Init => (Sole => FlashInv)
  BY InitFlash
<1>2. Inv /\ (Sole => FlashInv) /\ [Next]_vars => (Sole => FlashInv)'
  BY NextFlash, CallsKept DEF Sole, Project
<1> QED
  BY <1>1, <1>2, Invariance, PTL DEF Spec

\* A flash of the error LED or of a beep lasts its pulse, however the requests for
\* other slots cut into the daemon's wait and are corrected for, and not a tick
\* longer if the daemon is never late (easyblink.c:204-269, 312-428).
THEOREM FlashesLast == 1 \notin USED => (Spec => FlashLength)
<1> SUFFICES ASSUME 1 \notin USED PROVE Spec => FlashLength
  OBVIOUS
<1>1. Inv /\ (Sole => FlashInv) /\ [Next]_vars => \A l \in Slot : FlashStep(l)
  <2> SUFFICES ASSUME Inv, Sole => FlashInv, [Next]_vars, NEW l \in Slot, Project
               PROVE  FlashStep(l)
    BY DEF FlashStep
  <2> QED
    BY FlashEnds DEF Sole
<1>2. Spec => [][\A l \in Slot : FlashStep(l)]_vars
  BY <1>1, Invariance, FlashInvariance, PTL DEF Spec
<1> QED
  BY <1>2 DEF FlashLength, FlashStep

\* With the calls of this project no LED is left lit by the daemon's bookkeeping:
\* one that is lit is in a slot that is in use and blinking, so its end will come
\* (eb_daemon_thread_entry; the safety half of BeepFallsSilent).
THEOREM LitIsBlinking ==
  1 \notin USED =>
    (Spec => [](Project => \A l \in Slot : pin[l] => {"INIT", "ACTIVE"} \subseteq led[l].flag))
<1> SUFFICES ASSUME 1 \notin USED
             PROVE  Spec => [](Project => \A l \in Slot :
                                 pin[l] => {"INIT", "ACTIVE"} \subseteq led[l].flag)
  OBVIOUS
<1>1. Inv /\ (Sole => FlashInv) =>
        (Project => \A l \in Slot : pin[l] => {"INIT", "ACTIVE"} \subseteq led[l].flag)
  BY DEF Sole, FlashInv, LitInv, Inv, ActiveInv
<1> QED
  BY <1>1, Invariance, FlashInvariance, PTL

----------------------------------------------------------------------------
(* The daemon wakes in time.                                                *)

\* The slots whose ticks the daemon's wait already takes into account.
Counted(l) ==
  \/ pc \in {"take", "sleep"}
  \/ pc = "enter" /\ wait > 0
  \/ pc \in {"min", "corr", "correct"} /\ l < i

\* The wait is no longer than the ticks of a slot it takes into account, unless a
\* request has left a count that makes rt_sem_take return at once.
WakeInv ==
  /\ pc = "begin" => i = 1
  /\ pc = "sleep" => sem = 0
  /\ \A l \in Slot : "ACTIVE" \in led[l].flag /\ Counted(l) => wait <= led[l].ticks \/ sem > 0

LEMMA WakeInit == Init => WakeInv
BY DEF Init, WakeInv, Counted, Unused

\* Where no slot is taken into account there is nothing to show.
LEMMA ElsewhereWake ==
  ASSUME pc' \notin {"enter", "take", "sleep", "min", "corr", "correct"},
         pc' = "begin" => i' = 1
  PROVE  WakeInv'
BY DEF WakeInv, Counted

\* A call: a request leaves a count or wakes the daemon, any other call makes no
\* slot blink and leaves the ticks alone.
LEMMA CallWake ==
  ASSUME Inv, WakeInv, i' = i, wait' = wait,
         \/ pc = "sleep" /\ pc' = "woken"
         \/ pc # "sleep" /\ pc' = pc /\ sem' = sem + 1
         \/ /\ pc' = pc /\ sem' = sem
            /\ \A l \in Slot : "ACTIVE" \in led'[l].flag =>
                 "ACTIVE" \in led[l].flag /\ led'[l].ticks = led[l].ticks
  PROVE  WakeInv'
<1>1. sem \in Nat
  BY DEF Inv, TypeOK
<1>2. CASE pc = "sleep" /\ pc' = "woken"
  BY <1>2, ElsewhereWake
<1>3. CASE pc # "sleep" /\ pc' = pc /\ sem' = sem + 1
  <2>1. sem' > 0
    BY <1>1, <1>3
  <2> QED
    BY <2>1, <1>3 DEF WakeInv
<1>4. CASE /\ pc' = pc /\ sem' = sem
           /\ \A l \in Slot : "ACTIVE" \in led'[l].flag =>
                "ACTIVE" \in led[l].flag /\ led'[l].ticks = led[l].ticks
  BY <1>4 DEF WakeInv, Counted
<1> QED
  BY <1>2, <1>3, <1>4

LEMMA RequestWake ==
  ASSUME Inv, WakeInv, NEW l \in Slot, NEW pat, easyblink(l, pat), UNCHANGED <<i, wait>>
  PROVE  WakeInv'
<1>1. CASE Replace(l, pat) \/ Start(l, pat)
  <2>1. SemRelease
    BY <1>1 DEF Replace, Start, BlinkDelay
  <2> QED
    BY <2>1, CallWake DEF SemRelease
<1>2. CASE Save(l, pat)
  <2>1. /\ led' = [led EXCEPT ![l].bak = pat] /\ pc' = pc /\ sem' = sem
        /\ led \in [Slot -> LedType]
    BY <1>2 DEF Save, Inv, TypeOK
  <2>2. \A k \in Slot : led'[k].flag = led[k].flag /\ led'[k].ticks = led[k].ticks
    BY <2>1 DEF LedType
  <2> QED
    BY <2>1, <2>2, CallWake
<1> QED
  BY <1>1, <1>2 DEF easyblink

LEMMA InitLedWake ==
  ASSUME Inv, WakeInv, easyblink_init_led
  PROVE  WakeInv'
<1>1. CASE Full
  <2>1. UNCHANGED <<led, pc, i, wait, sem>>
    BY <1>1 DEF easyblink_init_led
  <2> QED
    BY <2>1, CallWake
<1>2. CASE ~Full /\ pc # "none"
  <2>1. /\ led' = [led EXCEPT ![FirstFree].flag = @ \cup {"INIT"}]
        /\ UNCHANGED <<pc, i, wait, sem>> /\ led \in [Slot -> LedType]
    BY <1>2 DEF easyblink_init_led, Inv, TypeOK
  <2>2. ASSUME NEW l \in Slot, "ACTIVE" \in led'[l].flag
        PROVE  "ACTIVE" \in led[l].flag /\ led'[l].ticks = led[l].ticks
    BY <2>1, <2>2 DEF LedType
  <2> QED
    BY <2>1, <2>2, CallWake
<1>3. CASE ~Full /\ pc = "none"
  <2>1. pc' = "begin" /\ i' = 1
    BY <1>3 DEF easyblink_init_led
  <2> QED
    BY <2>1, ElsewhereWake
<1> QED
  BY <1>1, <1>2, <1>3

LEMMA StopWake ==
  ASSUME Inv, WakeInv, CallStop
  PROVE  WakeInv'
<1>1. PICK l \in Slot : /\ easyblink_stop(l) /\ led \in [Slot -> LedType]
                        /\ UNCHANGED <<i, wait>>
  BY EasyBlinkAssumption DEF CallStop, Users, Slot, Inv, TypeOK
<1>2. /\ led' = [led EXCEPT ![l] = [flag |-> @.flag \ {"ACTIVE"}, pat |-> @.pat,
                                    bak |-> NoPattern, ticks |-> @.ticks]]
      /\ UNCHANGED <<sem, pc>>
  BY <1>1 DEF easyblink_stop
<1>3. ASSUME NEW k \in Slot, "ACTIVE" \in led'[k].flag
      PROVE  "ACTIVE" \in led[k].flag /\ led'[k].ticks = led[k].ticks
  BY <1>1, <1>2, <1>3
<1> QED
  BY <1>1, <1>2, <1>3, CallWake

LEMMA DeinitWake ==
  ASSUME Inv, WakeInv, CallDeinit
  PROVE  WakeInv'
<1>1. PICK l \in Slot : easyblink_deinit(l) /\ led \in [Slot -> LedType]
  BY DEF CallDeinit, Inv, TypeOK
<1>2. CASE pc' = "none"
  BY <1>2, ElsewhereWake
<1>3. CASE pc' # "none"
  <2>1. led' = [led EXCEPT ![l] = Unused] /\ UNCHANGED <<pc, i, wait, sem>>
    BY <1>1, <1>3 DEF easyblink_deinit
  <2>2. ASSUME NEW k \in Slot, "ACTIVE" \in led'[k].flag
        PROVE  "ACTIVE" \in led[k].flag /\ led'[k].ticks = led[k].ticks
    BY <1>1, <2>1, <2>2 DEF Unused
  <2> QED
    BY <2>1, <2>2, CallWake
<1> QED
  BY <1>2, <1>3

LEMMA TickWake ==
  ASSUME Inv, WakeInv, Tick
  PROVE  WakeInv'
<1>1. UNCHANGED <<led, sem, i, wait>> /\ (pc' = pc \/ pc' = "out")
  BY DEF Tick
<1>2. CASE pc' = "out"
  BY <1>2, ElsewhereWake
<1>3. CASE pc' = pc
  BY <1>1, <1>3, CallWake
<1> QED
  BY <1>1, <1>2, <1>3

\* A slot that has just been looked at, and those before it.
LEMMA NextWake ==
  ASSUME Inv, NEW p \in {"min", "corr"}, NEW min \in Int, NextMin(p, min), sem' = sem,
         \A l \in Slot : "ACTIVE" \in led'[l].flag /\ l <= i => min <= led'[l].ticks \/ sem > 0
  PROVE  WakeInv'
<1>1. i \in Slot /\ N \in Nat /\ Slot = 1..N
  BY EasyBlinkAssumption DEF Inv, TypeOK, Slot
<1>2. CASE i = N
  <2>1. pc' = "enter" /\ wait' = (IF min < 0 THEN 0 ELSE min)
    BY <1>2 DEF NextMin
  <2>2. ASSUME NEW l \in Slot, "ACTIVE" \in led'[l].flag, wait' > 0
        PROVE  wait' <= led'[l].ticks \/ sem' > 0
    BY <1>1, <1>2, <2>1, <2>2
  <2> QED
    BY <2>1, <2>2 DEF WakeInv, Counted
<1>3. CASE i # N
  <2>1. pc' = p /\ wait' = min /\ i' = i + 1
    BY <1>3 DEF NextMin
  <2>2. ASSUME NEW l \in Slot, "ACTIVE" \in led'[l].flag, l < i'
        PROVE  wait' <= led'[l].ticks \/ sem' > 0
    BY <1>1, <2>1, <2>2
  <2> QED
    BY <2>1, <2>2 DEF WakeInv, Counted
<1> QED
  BY <1>2, <1>3

LEMMA MinTicksWake ==
  ASSUME Inv, WakeInv, MinTicks
  PROVE  WakeInv'
<1>1. led' = led /\ sem' = sem /\ i \in Slot /\ wait \in Int /\ pc = "min" /\ N \in Nat
  BY EasyBlinkAssumption DEF MinTicks, At, Inv, TypeOK
<1> DEFINE min == IF "ACTIVE" \in led[i].flag THEN Least(led[i].ticks, wait) ELSE wait
<1>2. NextMin("min", min)
  BY DEF MinTicks
<1>3. \A l \in Slot : led[l].ticks \in Int /\ l \in Int
  BY SlotFields DEF Inv, Slot
<1>4. min \in Int /\ min <= wait /\ ("ACTIVE" \in led[i].flag => min <= led[i].ticks)
  BY <1>1, <1>3 DEF Least
<1> HIDE DEF min
<1>5. ASSUME NEW l \in Slot, "ACTIVE" \in led[l].flag, l <= i
      PROVE  min <= led[l].ticks \/ sem > 0
  <2>1. CASE l = i
    BY <1>4, <1>5, <2>1
  <2>2. CASE l < i
    <3>1. wait <= led[l].ticks \/ sem > 0
      BY <1>1, <1>5, <2>2 DEF WakeInv, Counted
    <3> QED
      BY <3>1, <1>1, <1>3, <1>4
  <2> QED
    BY <2>1, <2>2, <1>1, <1>3, <1>5
<1> QED
  BY <1>1, <1>2, <1>4, <1>5, NextWake

LEMMA CorrectLoadWake ==
  ASSUME Inv, WakeInv, CorrectLoad
  PROVE  WakeInv'
<1>1. led' = led /\ sem' = sem /\ i \in Slot /\ wait \in Int /\ pc = "corr"
  BY DEF CorrectLoad, At, Inv, TypeOK
<1>2. CASE "ACTIVE" \in led[i].flag
  <2>1. pc' = "correct" /\ i' = i /\ wait' = wait
    BY <1>2 DEF CorrectLoad, GoTo
  <2> QED
    BY <1>1, <2>1 DEF WakeInv, Counted
<1>3. CASE "ACTIVE" \notin led[i].flag
  <2>1. NextMin("corr", wait)
    BY <1>3 DEF CorrectLoad
  <2>2. ASSUME NEW l \in Slot, "ACTIVE" \in led[l].flag, l <= i
        PROVE  wait <= led[l].ticks \/ sem > 0
    <3>1. l < i
      BY <1>1, <1>3, <2>2 DEF Slot
    <3> QED
      BY <1>1, <2>2, <3>1 DEF WakeInv, Counted
  <2> QED
    BY <1>1, <2>1, <2>2, NextWake
<1> QED
  BY <1>2, <1>3

\* Whatever the store brings back, the minimum is taken of what was stored.
LEMMA CorrectStoreWake ==
  ASSUME Inv, WakeInv, CorrectStore
  PROVE  WakeInv'
<1>1. /\ sem' = sem /\ i \in Slot /\ wait \in Int /\ pc = "correct" /\ slept \in Int
      /\ led \in [Slot -> LedType] /\ reg.num \in Int
  BY RegTypes DEF CorrectStore, At, Inv, TypeOK
<1>2. /\ \A l \in Slot : l # i => led'[l] = led[l]
      /\ led'[i].ticks \in {led[i].ticks, reg.num - slept}
  <2>1. \/ led' = [led EXCEPT ![i].flag = reg.flag \ {"CORRECT"}]
        \/ led' = [led EXCEPT ![i].ticks = reg.num - slept]
    BY DEF CorrectStore, StoreFlag, StoreTicks
  <2> QED
    BY <1>1, <2>1 DEF LedType
<1>3. \A l \in Slot : led[l].ticks \in Int /\ l \in Int
  BY SlotFields DEF Inv, Slot
<1> DEFINE min == Least(led'[i].ticks, wait)
<1>4. NextMin("corr", min)
  BY DEF CorrectStore
<1>5. min \in Int /\ min <= wait /\ min <= led'[i].ticks
  <2>1. led'[i].ticks \in Int
    BY <1>1, <1>2, <1>3
  <2> QED
    BY <1>1, <2>1 DEF Least
<1> HIDE DEF min
<1>6. ASSUME NEW l \in Slot, "ACTIVE" \in led'[l].flag, l <= i
      PROVE  min <= led'[l].ticks \/ sem > 0
  <2>1. CASE l = i
    BY <1>5, <2>1
  <2>2. CASE l # i
    <3>1. l < i /\ led'[l] = led[l]
      BY <1>1, <1>2, <1>3, <1>6, <2>2
    <3>2. wait <= led[l].ticks \/ sem > 0
      BY <1>1, <1>6, <3>1 DEF WakeInv, Counted
    <3> QED
      BY <3>1, <3>2, <1>1, <1>3, <1>5
  <2> QED
    BY <2>1, <2>2
<1> QED
  BY <1>1, <1>4, <1>5, <1>6, NextWake

LEMMA WaitingWake ==
  ASSUME Inv, WakeInv, Begin \/ Enter \/ SemTake \/ Woken
  PROVE  WakeInv'
<1>0. sem \in Nat /\ wait \in Int /\ WaitInv
  BY DEF Inv, TypeOK
<1>1. CASE Begin
  <2>1. pc' = "min" /\ i' = 1
    BY <1>1 DEF Begin, At, WakeInv
  <2>2. \A l \in Slot : ~(l < 1)
    BY DEF Slot
  <2> QED
    BY <2>1, <2>2 DEF WakeInv, Counted
<1>2. CASE Enter
  <2>1. /\ pc = "enter" /\ wait >= 0 /\ pc' = (IF wait = 0 THEN "work" ELSE "take")
        /\ UNCHANGED <<led, sem, i, wait>>
    BY <1>2, <1>0 DEF Enter, At, WaitInv
  <2>2. CASE wait = 0
    BY <2>1, <2>2, ElsewhereWake
  <2>3. CASE wait # 0
    <3>1. wait > 0 /\ pc' = "take"
      BY <2>1, <2>3, <1>0
    <3> QED
      BY <2>1, <3>1 DEF WakeInv, Counted
  <2> QED
    BY <2>2, <2>3
<1>3. CASE SemTake
  <2>1. pc = "take" /\ UNCHANGED <<led, i, wait>>
    BY <1>3 DEF SemTake, At
  <2>2. CASE sem > 0
    <3>1. pc' = "woken"
      BY <1>3, <2>2 DEF SemTake
    <3> QED
      BY <3>1, ElsewhereWake
  <2>3. CASE ~(sem > 0)
    <3>1. pc' = "sleep" /\ sem' = sem /\ sem = 0
      BY <1>0, <1>3, <2>3 DEF SemTake
    <3> QED
      BY <2>1, <3>1 DEF WakeInv, Counted
  <2> QED
    BY <2>2, <2>3
<1>4. CASE Woken
  <2>1. pc' = "corr" /\ i' = 1
    BY <1>4 DEF Woken
  <2>2. \A l \in Slot : ~(l < 1)
    BY DEF Slot
  <2> QED
    BY <2>1, <2>2 DEF WakeInv, Counted
<1> QED
  BY <1>1, <1>2, <1>3, <1>4

\* The work on the slots takes none into account, and ends at the first.
LEMMA WorkWake ==
  ASSUME \/ TimedOut \/ WorkLoad \/ WorkStore \/ Test \/ TurnOn \/ OnLoad \/ OnStore \/ OnTicks
         \/ TurnOff \/ OffLoad \/ OffStore \/ OffTicks \/ Decrement
         \/ Spent \/ EndLoad \/ EndStore \/ RestoreNums \/ RestoreTimes \/ RestoreClear
  PROVE  WakeInv'
<1>1. \/ pc' \notin {"begin", "enter", "take", "sleep", "min", "corr", "correct"}
      \/ NextSlot
  BY DEF TimedOut, WorkLoad, WorkStore, Test, TurnOn, OnLoad, OnStore, OnTicks, TurnOff,
         OffLoad, OffStore, OffTicks, Decrement, Spent, EndLoad, EndStore, RestoreNums,
         RestoreTimes, RestoreClear, LoadFlag, GoTo
<1>2. CASE pc' \notin {"begin", "enter", "take", "sleep", "min", "corr", "correct"}
  BY <1>2, ElsewhereWake
<1>3. CASE NextSlot
  BY <1>3, ElsewhereWake DEF NextSlot
<1> QED
  BY <1>1, <1>2, <1>3

LEMMA NextWakes == Inv /\ WakeInv /\ [Next]_vars => WakeInv'
<1> SUFFICES ASSUME Inv, WakeInv, [Next]_vars PROVE WakeInv'
  OBVIOUS
<1>1. CASE Boot
  <2>1. CASE easyblink_init_led
    BY <2>1, InitLedWake
  <2>2. CASE easyblink(1, Endless) /\ UNCHANGED <<i, wait>>
    BY <2>2, RequestWake, EasyBlinkAssumption DEF Slot
  <2>3. CASE (\E n \in COUNTS : easyblink(2, Burst(n))) /\ UNCHANGED <<i, wait>>
    BY <2>3, RequestWake, EasyBlinkAssumption DEF Slot
  <2> QED
    BY <1>1, <2>1, <2>2, <2>3 DEF Boot
<1>2. CASE CallBlink
  <2>1. UNCHANGED <<i, wait>> /\ \E l \in Users : \E pat : easyblink(l, pat)
    BY <1>2 DEF CallBlink
  <2>2. Users \subseteq Slot
    BY EasyBlinkAssumption DEF Users, Slot
  <2> QED
    BY <2>1, <2>2, RequestWake
<1>3. CASE CallStop
  BY <1>3, StopWake
<1>4. CASE CallInit
  BY <1>4, InitLedWake DEF CallInit
<1>5. CASE CallDeinit
  BY <1>5, DeinitWake
<1>6. CASE Daemon
  BY <1>6, WorkWake, WaitingWake, MinTicksWake, CorrectLoadWake, CorrectStoreWake DEF Daemon
<1>7. CASE Tick
  BY <1>7, TickWake
<1>8. CASE UNCHANGED vars
  BY <1>8, CallWake DEF vars, daemonVars
<1> QED
  BY <1>1, <1>2, <1>3, <1>4, <1>5, <1>6, <1>7, <1>8 DEF Next

\* The daemon never sleeps past the moment a blinking slot is due
\* (eb_daemon_thread_entry, easyblink.c:321-333), for any number of slots, all
\* calls and every point at which they cut into the daemon.
THEOREM DaemonWakesInTime == Spec => []WakesInTime
<1>1. Inv /\ WakeInv => WakesInTime
  <2> SUFFICES ASSUME Inv, WakeInv, pc = "sleep", NEW l \in Slot, "ACTIVE" \in led[l].flag
               PROVE  wait <= led[l].ticks
    BY DEF WakesInTime
  <2>1. wait <= led[l].ticks \/ sem > 0
    BY DEF WakeInv, Counted
  <2>2. ~(sem > 0)
    BY DEF WakeInv
  <2> QED
    BY <2>1, <2>2
<1> QED
  BY <1>1, WakeInit, NextWakes, Invariance, PTL DEF Spec

----------------------------------------------------------------------------
(* The error LED keeps its pattern.                                         *)

\* From main.c:66 on slot 1 has the endless pattern and is blinking.
ErrorLedKept ==
  boot <= 2 => led[1].pat.nums = -1 /\ {"INIT", "ACTIVE"} \subseteq led[1].flag

\* Its pattern is never spent nor counted down: the daemon finds nothing of it to
\* end or to replace, and what it loads to count down is -1.
EndlessInv ==
  /\ boot <= 2 => led[1].pat.nums = -1 /\ "ACTIVE" \in led[1].flag
  /\ boot >= 3 => "ACTIVE" \notin led[1].flag
  /\ pc \in EndPlaces => i # 1
  /\ pc = "dec" /\ i = 1 => reg.num = -1

\* Enough for a step: what it leaves of slot 1, and where it puts the daemon.
LEMMA EndlessKept ==
  ASSUME EndlessInv, boot \in 0..4, boot' \in 0..4, boot' <= 2 <=> boot <= 2,
         led'[1].pat.nums = led[1].pat.nums,
         "ACTIVE" \in led'[1].flag <=> "ACTIVE" \in led[1].flag,
         pc' \in EndPlaces => i' # 1,
         pc' = "dec" /\ i' = 1 => reg'.num = -1
  PROVE  EndlessInv'
BY DEF EndlessInv

\* A request for another slot leaves slot 1 alone.
LEMMA RequestEndless ==
  ASSUME TypeOK, NEW l \in Slot \ {1}, NEW pat, easyblink(l, pat)
  PROVE  /\ led'[1] = led[1]
         /\ pc' \in {pc, "woken"}
<1>1. led \in [Slot -> LedType] /\ 1 \in Slot
  BY EasyBlinkAssumption DEF TypeOK, Slot
<1>2. CASE Replace(l, pat) \/ Start(l, pat)
  BY <1>1, <1>2 DEF Replace, Start, BlinkDelay, SemRelease
<1>3. CASE Save(l, pat)
  BY <1>1, <1>3 DEF Save
<1> QED
  BY <1>2, <1>3 DEF easyblink

\* main.c:64-67: the pattern is started by the second call.
LEMMA BootEndless ==
  ASSUME Inv, LitInv, EndlessInv, Boot
  PROVE  EndlessInv'
<1>1. /\ boot \in 1..4 /\ boot' = boot - 1 /\ reg' = reg
      /\ led \in [Slot -> LedType] /\ 1 \in Slot /\ 2 \in Slot \ {1}
      /\ pc \in {"none", "begin"}
  BY EasyBlinkAssumption DEF Boot, Inv, TypeOK, BootInv, Slot, callerFrame
<1>2. CASE boot \in {4, 2} /\ easyblink_init_led
  <2>1. led'[1].pat = led[1].pat /\ ("ACTIVE" \in led'[1].flag <=> "ACTIVE" \in led[1].flag)
    <3>1. CASE Full
      BY <1>2, <3>1 DEF easyblink_init_led
    <3>2. CASE ~Full
      <4>1. led' = [led EXCEPT ![FirstFree].flag = @ \cup {"INIT"}]
        BY <1>2, <3>2 DEF easyblink_init_led
      <4> QED
        BY <1>1, <4>1 DEF LedType
    <3> QED
      BY <3>1, <3>2
  <2>2. pc' \in {"none", "begin"}
    BY <1>1, <1>2 DEF easyblink_init_led
  <2> QED
    BY <1>1, <1>2, <2>1, <2>2, EndlessKept DEF EndPlaces
<1>3. CASE boot = 3 /\ easyblink(1, Endless)
  <2>1. Start(1, Endless)
    <3>1. boot >= 3
      BY <1>3
    <3>2. led[1].pat.nums # -1 /\ "ACTIVE" \notin led[1].flag
      BY <3>1 DEF LitInv, EndlessInv
    <3> QED
      BY <1>3, <3>2 DEF easyblink, Replace, Save
  <2>2. led' = [led EXCEPT ![1] =
                  [flag |-> @.flag \cup {"SHOULD_ON", "ACTIVE", "CORRECT"},
                   pat |-> Endless, bak |-> led[1].bak, ticks |-> 0]]
    BY <2>1 DEF Start, BlinkDelay
  <2>3. led'[1].pat.nums = -1 /\ "ACTIVE" \in led'[1].flag
    BY <1>1, <2>2 DEF Endless, Pattern
  <2>4. pc' \in {"none", "begin"}
    BY <1>1, <2>1 DEF Start, BlinkDelay, SemRelease
  <2> QED
    BY <1>1, <1>3, <2>3, <2>4 DEF EndlessInv, EndPlaces
<1>4. CASE boot = 1 /\ \E n \in COUNTS : easyblink(2, Burst(n))
  <2>1. led'[1] = led[1] /\ pc' \in {pc, "woken"}
    BY <1>1, <1>4, RequestEndless DEF Inv
  <2> QED
    BY <1>1, <1>4, <2>1, EndlessKept DEF EndPlaces
<1> QED
  BY <1>2, <1>3, <1>4 DEF Boot

\* The steps of the daemon that store nothing in a slot.
LEMMA ReadingEndless ==
  ASSUME Inv, EndlessInv,
         \/ Begin \/ MinTicks \/ Enter \/ SemTake \/ TimedOut \/ Woken \/ CorrectLoad
         \/ WorkLoad \/ Test \/ TurnOn \/ OnLoad \/ TurnOff \/ OffLoad \/ Spent \/ EndLoad
  PROVE  EndlessInv'
<1>1. boot = 0 /\ boot' = boot /\ led' = led
  BY DEF Begin, MinTicks, Enter, SemTake, TimedOut, Woken, CorrectLoad, WorkLoad, Test,
     TurnOn, OnLoad, TurnOff, OffLoad, Spent, EndLoad, At, LoadFlag, callsFrame
<1>2. CASE Test
  <2>1. CASE pc' = "spent"
    <3>1. i' = i /\ led[i].pat.nums # -1
      BY <1>2, <2>1 DEF Test, NextSlot, GoTo
    <3>2. i' # 1
      BY <1>1, <3>1 DEF EndlessInv
    <3> QED
      BY <1>1, <2>1, <3>2, EndlessKept
  <2>2. CASE pc' # "spent"
    <3>1. pc' \notin EndPlaces /\ pc' # "dec"
      BY <1>2, <2>2 DEF Test, NextSlot, GoTo, EndPlaces
    <3> QED
      BY <1>1, <3>1, EndlessKept
  <2> QED
    BY <2>1, <2>2
<1>3. CASE Spent \/ EndLoad
  <2>1. pc \in EndPlaces /\ pc' # "dec" /\ i' = i
    BY <1>3 DEF Spent, EndLoad, At, LoadFlag, GoTo, EndPlaces
  <2> QED
    BY <1>1, <2>1, EndlessKept DEF EndlessInv
<1>4. CASE \/ Begin \/ MinTicks \/ Enter \/ SemTake \/ TimedOut \/ Woken \/ CorrectLoad
           \/ WorkLoad \/ TurnOn \/ OnLoad \/ TurnOff \/ OffLoad
  <2>1. pc' \notin EndPlaces /\ pc' # "dec"
    BY <1>4 DEF Begin, MinTicks, Enter, SemTake, TimedOut, Woken, CorrectLoad, WorkLoad,
       TurnOn, OnLoad, TurnOff, OffLoad, LoadFlag, NextMin, GoTo, EndPlaces
  <2> QED
    BY <1>1, <2>1, EndlessKept
<1> QED
  BY <1>2, <1>3, <1>4

\* The stores to the slot's ticks and flags.
LEMMA StoreEndless ==
  ASSUME Inv, PlaceInv, EndlessInv,
         CorrectStore \/ WorkStore \/ OnStore \/ OnTicks \/ OffStore \/ OffTicks \/ EndStore
  PROVE  EndlessInv'
<1>1. boot = 0 /\ boot' = boot
  BY DEF CorrectStore, WorkStore, OnStore, OnTicks, OffStore, OffTicks, EndStore, At, callsFrame
<1>2. led \in [Slot -> LedType] /\ 1 \in Slot /\ i \in Slot
  BY EasyBlinkAssumption DEF Inv, TypeOK, Slot
<1>3. /\ led'[1].pat.nums = led[1].pat.nums
      /\ "ACTIVE" \in led'[1].flag <=> "ACTIVE" \in led[1].flag
  <2>1. ASSUME NEW v, StoreTicks(v)
        PROVE  led'[1].pat = led[1].pat /\ led'[1].flag = led[1].flag
    BY <1>2, <2>1 DEF StoreTicks, LedType
  <2>2. ASSUME NEW v, StoreFlag(v), i = 1 => ("ACTIVE" \in v <=> "ACTIVE" \in led[i].flag)
        PROVE  /\ led'[1].pat = led[1].pat
               /\ "ACTIVE" \in led'[1].flag <=> "ACTIVE" \in led[1].flag
    BY <1>2, <2>2 DEF StoreFlag, LedType
  <2>3. CASE CorrectStore
    <3>1. reg.flag = led[i].flag
      BY <2>3 DEF CorrectStore, At, PlaceInv, Loaded
    <3>2. StoreFlag(reg.flag \ {"CORRECT"}) \/ StoreTicks(reg.num - slept)
      BY <2>3 DEF CorrectStore
    <3> QED
      BY <2>1, <2>2, <3>1, <3>2
  <2>4. CASE OnStore
    <3>1. reg.flag = led[i].flag /\ StoreFlag(reg.flag \ {"SHOULD_ON"})
      BY <2>4 DEF OnStore, At, PlaceInv, Loaded
    <3> QED
      BY <2>2, <3>1
  <2>5. CASE OffStore
    <3>1. reg.flag = led[i].flag /\ StoreFlag(reg.flag \cup {"SHOULD_ON"})
      BY <2>5 DEF OffStore, At, PlaceInv, Loaded
    <3> QED
      BY <2>2, <3>1
  <2>6. CASE EndStore
    <3>1. i # 1 /\ StoreFlag(reg.flag \ {"ACTIVE"})
      BY <2>6 DEF EndStore, At, EndlessInv, EndPlaces
    <3> QED
      BY <2>2, <3>1
  <2>7. CASE WorkStore \/ OnTicks \/ OffTicks
    BY <2>1, <2>7 DEF WorkStore, OnTicks, OffTicks
  <2> QED
    BY <2>3, <2>4, <2>5, <2>6, <2>7
<1>4. CASE OffTicks
  <2>1. pc' = "dec" /\ i' = i /\ reg'.num = led[i].pat.nums
    BY <1>4 DEF OffTicks, GoTo, Inv, TypeOK
  <2>2. i' = 1 => reg'.num = -1
    BY <1>1, <2>1 DEF EndlessInv
  <2> QED
    BY <1>1, <1>3, <2>1, <2>2, EndlessKept DEF EndPlaces
<1>5. CASE CorrectStore \/ WorkStore \/ OnStore \/ OnTicks \/ OffStore \/ EndStore
  <2>1. pc' \notin EndPlaces /\ pc' # "dec"
    BY <1>5 DEF CorrectStore, WorkStore, OnStore, OnTicks, OffStore, EndStore, NextMin,
       NextSlot, GoTo, EndPlaces
  <2> QED
    BY <1>1, <1>3, <2>1, EndlessKept
<1> QED
  BY <1>4, <1>5

\* The stores to the pattern: slot 1 is not counted down, and not restored.
LEMMA PatternEndless ==
  ASSUME Inv, EndlessInv, Decrement \/ RestoreNums \/ RestoreTimes \/ RestoreClear
  PROVE  EndlessInv'
<1>1. boot = 0 /\ boot' = boot
  BY DEF Decrement, RestoreNums, RestoreTimes, RestoreClear, At, callsFrame
<1>2. led \in [Slot -> LedType] /\ 1 \in Slot /\ i \in Slot
  BY EasyBlinkAssumption DEF Inv, TypeOK, Slot
<1>3. CASE Decrement
  <2>1. led'[1] = led[1]
    <3>1. CASE i = 1
      <4>1. ~(reg.num > 0)
        BY <1>3, <3>1 DEF Decrement, At, EndlessInv
      <4> QED
        BY <1>3, <4>1 DEF Decrement
    <3>2. CASE i # 1
      BY <1>2, <1>3, <3>2 DEF Decrement
    <3> QED
      BY <3>1, <3>2
  <2>2. pc' \notin EndPlaces /\ pc' # "dec"
    BY <1>3 DEF Decrement, NextSlot, EndPlaces
  <2> QED
    BY <1>1, <2>1, <2>2, EndlessKept
<1>4. CASE RestoreNums \/ RestoreTimes \/ RestoreClear
  <2>1. pc \in EndPlaces /\ pc' # "dec" /\ (pc' \in EndPlaces => i' = i)
    BY <1>4 DEF RestoreNums, RestoreTimes, RestoreClear, At, GoTo, NextSlot, EndPlaces
  <2>2. i # 1
    BY <2>1 DEF EndlessInv
  <2>3. led'[1] = led[1]
    BY <1>2, <1>4, <2>2 DEF RestoreNums, RestoreTimes, RestoreClear
  <2> QED
    BY <1>1, <2>1, <2>2, <2>3, EndlessKept
<1> QED
  BY <1>3, <1>4

\* EndlessInv is kept by every step of the project's program.
LEMMA NextEndless == Inv /\ FlashInv /\ Sole /\ EndlessInv /\ [Next]_vars => EndlessInv'
<1> SUFFICES ASSUME Inv, FlashInv, Sole, EndlessInv, [Next]_vars PROVE EndlessInv'
  OBVIOUS
<1>0. boot \in 0..4 /\ LitInv /\ PlaceInv
  BY DEF Inv, TypeOK, FlashInv
<1>1. CASE Boot
  BY <1>0, <1>1, BootEndless
<1>2. CASE CallBlink
  <2>1. /\ boot' = boot /\ i' = i /\ reg' = reg
        /\ \E l \in Users, pat \in {Burst(n) : n \in COUNTS} : easyblink(l, pat)
    BY <1>2 DEF CallBlink, callerFrame, Sole, Project
  <2>2. Users \subseteq Slot \ {1}
    BY EasyBlinkAssumption DEF Users, Slot, Sole
  <2>3. led'[1] = led[1] /\ pc' \in {pc, "woken"}
    BY <2>1, <2>2, RequestEndless DEF Inv
  <2> QED
    BY <1>0, <2>1, <2>3, EndlessKept DEF EndlessInv, EndPlaces
<1>3. CASE Daemon
  BY <1>0, <1>3, ReadingEndless, StoreEndless, PatternEndless DEF Daemon
<1>4. CASE Tick
  <2>1. UNCHANGED <<led, i, reg, boot>> /\ pc' \in {pc, "out"}
    BY <1>4 DEF Tick
  <2> QED
    BY <1>0, <2>1, EndlessKept DEF EndlessInv, EndPlaces
<1>5. CASE UNCHANGED vars
  BY <1>5 DEF vars, daemonVars, EndlessInv
<1> QED
  BY <1>1, <1>2, <1>3, <1>4, <1>5, SoleCalls DEF Next, Sole

\* The error LED started in main.c:66 is blinking for ever: whatever the beeper is
\* asked to do, at any point of the daemon's loop, its slot stays in use and
\* active, and its endless pattern is neither counted down nor replaced (the
\* safety half of ErrorLedBlinks).
THEOREM ErrorLedStays == 1 \notin USED => (Spec => [](Project => ErrorLedKept))
<1> SUFFICES ASSUME 1 \notin USED PROVE Spec => [](Project => ErrorLedKept)
  OBVIOUS
<1>1. Init => EndlessInv
  <2>1. 1 \in Slot
    BY EasyBlinkAssumption DEF Slot
  <2> QED
    BY <2>1 DEF Init, EndlessInv, Unused, EndPlaces
<1>2. Inv /\ (Sole => FlashInv) /\ (Sole => EndlessInv) /\ [Next]_vars => (Sole => EndlessInv)'
  BY NextEndless, CallsKept DEF Sole, Project
<1>3. Inv /\ (Sole => EndlessInv) => (Project => ErrorLedKept)
  <2>1. 1 \in Slot
    BY EasyBlinkAssumption DEF Slot
  <2> QED
    BY <2>1 DEF Sole, Inv, ActiveInv, EndlessInv, ErrorLedKept
<1> QED
  BY <1>1, <1>2, <1>3, Invariance, FlashInvariance, PTL DEF Spec
=============================================================================
