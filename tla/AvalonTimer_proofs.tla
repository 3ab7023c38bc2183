-------------------------- MODULE AvalonTimer_proofs --------------------------
(***************************************************************************)
(* Proofs about the interval timer for every width of its registers: the   *)
(* counter stays within its width, and the timer, left alone, expires      *)
(* every period + 1 clocks; a measure of the clocks to its next event      *)
(* shows that it is never stuck.                                           *)
(***************************************************************************)
EXTENDS AvalonTimerHistory, TLAPS

\* The stopwatch and the counter add up, and an event is never seen twice.
Stopwatch ==
    since # -1 =>
        /\ since \in Nat /\ ~force_reload
        /\ since + internal_counter = counter_load_value + 1
        /\ ~(counter_is_zero /\ delayed_zero)

IInv == TypeOK /\ Stopwatch

-----------------------------------------------------------------------------

LEMMA LoadInRange ==
  ASSUME NEW h \in Half, NEW l \in Half
  PROVE  h * HALF + l \in 0 .. HALF * HALF - 1
<1>1. HALF \in Nat /\ h \in Nat /\ l \in Nat /\ h <= HALF - 1 /\ l <= HALF - 1
  BY AvalonTimerAssumption DEF Half
<1>2. h * HALF <= (HALF - 1) * HALF /\ h * HALF \in Nat
  BY <1>1
<1>3. (HALF - 1) * HALF = HALF * HALF - HALF /\ HALF * HALF \in Nat
  BY <1>1
<1> HIDE DEF Half
<1> QED BY <1>1, <1>2, <1>3

LEMMA ResetInRange ==
  /\ RESET_PERIOD % HALF \in Half \ {0}
  /\ RESET_PERIOD \div HALF \in Half
<1>1. /\ HALF \in Nat \ {0} /\ RESET_PERIOD \in Nat /\ RESET_PERIOD < HALF * HALF
      /\ RESET_PERIOD % HALF # 0
  <2>1. HALF * HALF \in Nat
    BY AvalonTimerAssumption
  <2> QED BY <2>1, AvalonTimerAssumption
<1>2. RESET_PERIOD % HALF \in 0 .. HALF - 1
  BY <1>1
<1>3. /\ RESET_PERIOD \div HALF \in Nat
      /\ (RESET_PERIOD \div HALF) * HALF <= RESET_PERIOD
  BY <1>1
<1>4. RESET_PERIOD \div HALF < HALF
  <2> SUFFICES ASSUME RESET_PERIOD \div HALF >= HALF PROVE FALSE
    BY <1>1, <1>3
  <2> DEFINE q == RESET_PERIOD \div HALF
  <2>1. q \in Nat /\ q * HALF <= RESET_PERIOD /\ q >= HALF
    BY <1>3
  <2> HIDE DEF q
  <2>2. q * HALF >= HALF * HALF
    BY <1>1, <2>1
  <2>3. q * HALF \in Nat /\ HALF * HALF \in Nat
    BY <1>1, <2>1
  <2> QED BY <1>1, <2>1, <2>2, <2>3
<1> QED BY <1>1, <1>2, <1>3, <1>4 DEF Half

LEMMA InitIInv == HistoryInit => IInv
<1> SUFFICES ASSUME HistoryInit PROVE IInv
  OBVIOUS
<1>1. /\ internal_counter \in 0 .. HALF * HALF - 1
      /\ period_l_register \in Half \ {0} /\ period_h_register \in Half
  BY ResetInRange, AvalonTimerAssumption DEF HistoryInit, Init
<1>2. /\ control_continuous \in BOOLEAN /\ force_reload \in BOOLEAN
      /\ counter_is_running \in BOOLEAN /\ delayed_zero \in BOOLEAN
      /\ timeout_occurred \in BOOLEAN
  BY DEF HistoryInit, Init
<1>3. Stopwatch
  BY DEF HistoryInit, Stopwatch
<1> QED BY <1>1, <1>2, <1>3 DEF IInv, TypeOK

\* What every edge does, whatever is written at it.
LEMMA EdgeType ==
  ASSUME TypeOK, NEW start \in BOOLEAN, NEW stop \in BOOLEAN,
         NEW status \in BOOLEAN, NEW period \in BOOLEAN,
         Edge(start, stop, status, period)
  PROVE  /\ internal_counter' \in 0 .. HALF * HALF - 1
         /\ force_reload' \in BOOLEAN /\ counter_is_running' \in BOOLEAN
         /\ delayed_zero' \in BOOLEAN /\ timeout_occurred' \in BOOLEAN
<1>1. counter_load_value \in 0 .. HALF * HALF - 1
  BY LoadInRange DEF TypeOK, counter_load_value
<1>2. HALF * HALF \in Nat
  BY AvalonTimerAssumption
<1>3. internal_counter' \in 0 .. HALF * HALF - 1
  <2>1. counter_is_running /\ ~counter_is_zero => internal_counter - 1 \in 0 .. HALF * HALF - 1
    BY <1>2 DEF TypeOK, counter_is_zero
  <2> QED BY <1>1, <2>1 DEF Edge, NextCount, TypeOK
<1>4. /\ force_reload' \in BOOLEAN /\ counter_is_running' \in BOOLEAN
      /\ delayed_zero' \in BOOLEAN /\ timeout_occurred' \in BOOLEAN
  BY DEF Edge, NextRunning, do_stop_counter, counter_is_zero, timeout_event, TypeOK
<1> QED BY <1>3, <1>4

LEMMA EveryStepIsAnEdge ==
  Next => \E start, stop, status, period \in BOOLEAN : Edge(start, stop, status, period)
  BY DEF Next, Count, WriteStatus, WriteControl, WritePeriodL, WritePeriodH

LEMMA NextType == TypeOK /\ Next => TypeOK'
<1> SUFFICES ASSUME TypeOK, Next PROVE TypeOK'
  OBVIOUS
<1>1. PICK start, stop, status, period \in BOOLEAN : Edge(start, stop, status, period)
  BY EveryStepIsAnEdge
<1>2. /\ period_l_register' \in Half \ {0} /\ period_h_register' \in Half
      /\ control_continuous' \in BOOLEAN
  BY DEF Next, Count, WriteStatus, WriteControl, WritePeriodL, WritePeriodH, TypeOK
<1>3. /\ internal_counter' \in 0 .. HALF * HALF - 1
      /\ force_reload' \in BOOLEAN /\ counter_is_running' \in BOOLEAN
      /\ delayed_zero' \in BOOLEAN /\ timeout_occurred' \in BOOLEAN
  BY <1>1, EdgeType
<1> QED BY <1>2, <1>3 DEF TypeOK

\* A period that is written forces a reload, which disturbs the stopwatch.
LEMMA LoadStays == TypeOK /\ Next /\ ~force_reload' => counter_load_value' = counter_load_value
  BY DEF Next, Count, WriteStatus, WriteControl, WritePeriodL, WritePeriodH, Edge,
         counter_load_value

LEMMA LoadIsPositive == TypeOK => counter_load_value \in Nat /\ counter_load_value >= 1
<1> SUFFICES ASSUME TypeOK PROVE counter_load_value \in Nat /\ counter_load_value >= 1
  OBVIOUS
<1>1. period_h_register \in Nat /\ period_l_register \in Nat /\ period_l_register >= 1
      /\ HALF \in Nat
  BY AvalonTimerAssumption DEF TypeOK, Half
<1>2. period_h_register * HALF \in Nat
  BY <1>1
<1> QED BY <1>1, <1>2 DEF counter_load_value

LEMMA LoadIsPositiveAfter == TypeOK' => counter_load_value' \in Nat
<1> SUFFICES ASSUME TypeOK' PROVE counter_load_value' \in Nat
  OBVIOUS
<1>1. PICK h, l : h = period_h_register' /\ l = period_l_register'
  OBVIOUS
<1>2. h \in Nat /\ l \in Nat /\ HALF \in Nat
  BY <1>1, AvalonTimerAssumption DEF TypeOK, Half
<1>3. h * HALF + l \in Nat
  BY <1>2
<1> QED BY <1>1, <1>3 DEF counter_load_value

LEMMA StopwatchStep == TypeOK /\ Stopwatch /\ HistoryNext => Stopwatch'
<1> SUFFICES ASSUME TypeOK, Stopwatch, HistoryNext, since' # -1 PROVE Stopwatch'
  BY DEF Stopwatch
<1>1. /\ Undisturbed
      /\ since' = IF timeout_event THEN 1 ELSE since + 1
      /\ timeout_event \/ since # -1
  BY DEF HistoryNext
<1>2. /\ counter_is_running /\ ~force_reload /\ ~force_reload'
      /\ internal_counter' = NextCount
      /\ delayed_zero' <=> counter_is_zero
  <2>1. PICK start, stop, status, period \in BOOLEAN : Edge(start, stop, status, period)
    BY EveryStepIsAnEdge DEF HistoryNext
  <2>2. internal_counter' = NextCount /\ (delayed_zero' <=> counter_is_zero)
    BY <2>1 DEF Edge, counter_is_zero
  <2>3. counter_is_running /\ ~force_reload /\ ~force_reload'
    BY <1>1 DEF Undisturbed
  <2> QED BY <2>2, <2>3
<1>3. counter_load_value' = counter_load_value
  BY <1>2, LoadStays DEF HistoryNext
<1>4. counter_load_value \in Nat /\ counter_load_value >= 1 /\ internal_counter \in Nat
  BY LoadIsPositive, AvalonTimerAssumption DEF TypeOK
<1>5. CASE counter_is_zero
  <2>1. timeout_event
    BY <1>1, <1>5 DEF timeout_event, Stopwatch
  <2>2. since' = 1 /\ internal_counter' = counter_load_value
    BY <1>1, <1>2, <1>5, <2>1 DEF NextCount
  <2>3. ~(counter_is_zero')
    BY <1>4, <2>2 DEF counter_is_zero
  <2> QED BY <1>2, <1>3, <1>4, <2>2, <2>3 DEF Stopwatch
<1>6. CASE ~counter_is_zero
  <2>1. ~timeout_event
    BY <1>6 DEF timeout_event
  <2>2. since' = since + 1 /\ internal_counter' = internal_counter - 1 /\ ~delayed_zero'
    BY <1>1, <1>2, <1>6, <2>1 DEF NextCount
  <2>3. since \in Nat /\ since + internal_counter = counter_load_value + 1
    BY <1>1, <2>1 DEF Stopwatch
  <2>4. since + 1 \in Nat /\ (since + 1) + (internal_counter - 1) = counter_load_value + 1
    BY <1>4, <2>3
  <2> QED BY <1>2, <1>3, <2>2, <2>4 DEF Stopwatch
<1> QED BY <1>5, <1>6

LEMMA StepIInv == IInv /\ [HistoryNext]_historyRegisters => IInv'
<1> SUFFICES ASSUME IInv, [HistoryNext]_historyRegisters PROVE IInv'
  OBVIOUS
<1>1. CASE HistoryNext
  BY <1>1, NextType, StopwatchStep DEF IInv, HistoryNext
<1>2. CASE UNCHANGED historyRegisters
  BY <1>2 DEF historyRegisters, registers, IInv, TypeOK, Stopwatch, counter_load_value,
              counter_is_zero
<1> QED BY <1>1, <1>2

-----------------------------------------------------------------------------

\* The counter never leaves its width, whatever is written and when: it is
\* reloaded at zero and never runs below.
THEOREM CounterInRange == Spec => []TypeOK
<1>1. Init => TypeOK
  BY ResetInRange, AvalonTimerAssumption DEF Init, TypeOK
<1>2. TypeOK /\ [Next]_registers => TypeOK'
  BY NextType DEF TypeOK, registers
<1> QED BY <1>1, <1>2, PTL DEF Spec

\* A timer that nobody stops, reloads or reprograms expires every period + 1
\* clocks, for every width and every period: 50 000 001 in the firmware.
THEOREM PeriodOfTheTimer == HistorySpec => []PeriodIsLoadPlusOne
<1>1. IInv => PeriodIsLoadPlusOne
  BY LoadIsPositive DEF IInv, Stopwatch, PeriodIsLoadPlusOne, timeout_event, counter_is_zero
<1> QED BY <1>1, InitIInv, StepIInv, PTL DEF HistorySpec
-----------------------------------------------------------------------------
(* The refinement: what software sees of an edge of the clock. *)

SeenTimers == Interface!Timers(Nat)

LEMMA SameTimer ==
  ASSUME NEW t \in SeenTimers, NEW u \in SeenTimers,
         t.mode = u.mode, t.continuous = u.continuous, t.to = u.to, t.period = u.period
  PROVE  t = u
  BY DEF SeenTimers, Interface!Timers

LEMMA ExpiredFields ==
  ASSUME NEW t \in SeenTimers
  PROVE  /\ Interface!Expired(t) \in SeenTimers
         /\ Interface!Expired(t).mode =
                 IF t.mode = "running" /\ t.continuous THEN "running" ELSE "stopped"
         /\ Interface!Expired(t).continuous = t.continuous
         /\ Interface!Expired(t).to = TRUE
         /\ Interface!Expired(t).period = t.period
  BY DEF Interface!Expired, SeenTimers, Interface!Timers

LEMMA AfterStatusFields ==
  ASSUME NEW t \in SeenTimers
  PROVE  /\ Interface!AfterStatus(t) \in SeenTimers
         /\ Interface!AfterStatus(t).mode = t.mode
         /\ Interface!AfterStatus(t).continuous = t.continuous
         /\ Interface!AfterStatus(t).to = FALSE
         /\ Interface!AfterStatus(t).period = t.period
  BY DEF Interface!AfterStatus, SeenTimers, Interface!Timers

LEMMA AfterPeriodFields ==
  ASSUME NEW t \in SeenTimers, NEW q \in Nat
  PROVE  /\ Interface!AfterPeriod(t, q) \in SeenTimers
         /\ Interface!AfterPeriod(t, q).mode = IF t.mode = "stopped" THEN "stopped" ELSE "last"
         /\ Interface!AfterPeriod(t, q).continuous = t.continuous
         /\ Interface!AfterPeriod(t, q).to = t.to
         /\ Interface!AfterPeriod(t, q).period = q
  BY DEF Interface!AfterPeriod, SeenTimers, Interface!Timers

LEMMA AfterStopMember ==
  ASSUME NEW t \in SeenTimers, NEW u \in SeenTimers,
         u.continuous = t.continuous, u.to = t.to, u.period = t.period,
         u.mode = t.mode \/ (t.mode = "last" /\ u.mode = "stopped")
  PROVE  u \in Interface!AfterStop(t)
<1>1. CASE u.mode = t.mode
  BY <1>1, SameTimer DEF Interface!AfterStop
<1>2. CASE t.mode = "last" /\ u.mode = "stopped"
  <2>1. u = [t EXCEPT !.mode = "stopped"]
    BY <1>2 DEF SeenTimers, Interface!Timers
  <2> QED BY <1>2, <2>1 DEF Interface!AfterStop
<1> QED BY <1>1, <1>2

LEMMA AfterCountMember ==
  ASSUME NEW t \in SeenTimers, NEW u \in SeenTimers,
         u.continuous = t.continuous, u.period = t.period,
         \/ t.mode = "stopped" /\ u.mode = "stopped" /\ u.to = t.to
         \/ t.mode = "last" /\ u.mode = "stopped" /\ u.to = TRUE
         \/ t.mode = "running" /\ u.mode = "running" /\ u.to = t.to
         \/ t.mode = "running" /\ u.mode = "running" /\ u.to = TRUE /\ t.continuous
         \/ t.mode = "running" /\ u.mode = "stopped" /\ u.to = TRUE /\ ~t.continuous
         \/ t.mode = "running" /\ u.mode = "stopped" /\ u.to = t.to /\ ~t.continuous
  PROVE  u \in Interface!AfterCount(t)
<1>1. CASE t.mode = "stopped"
  <2>1. u = t
    BY <1>1, SameTimer
  <2> QED BY <1>1, <2>1 DEF Interface!AfterCount
<1>2. CASE t.mode = "last" /\ u.mode = "stopped" /\ u.to = TRUE
  <2>1. u = Interface!Expired(t)
    <3> DEFINE e == Interface!Expired(t)
    <3>1. e \in SeenTimers /\ e.continuous = u.continuous /\ e.period = u.period
      BY ExpiredFields
    <3>2. e.to = u.to
      BY <1>2, ExpiredFields
    <3>3. e.mode = u.mode
      BY <1>2, ExpiredFields
    <3> HIDE DEF e
    <3>4. u = e
      BY <3>1, <3>2, <3>3, SameTimer
    <3> QED BY <3>4 DEF e
  <2> QED BY <1>2, <2>1 DEF Interface!AfterCount
<1>3. CASE t.mode = "running" /\ u.mode = "running" /\ u.to = t.to
  <2>1. u = t
    BY <1>3, SameTimer
  <2> QED BY <1>3, <2>1 DEF Interface!AfterCount
<1>4. CASE t.mode = "running" /\ u.to = TRUE /\ u.mode = IF t.continuous THEN "running" ELSE "stopped"
  <2>1. u = Interface!Expired(t)
    <3> DEFINE e == Interface!Expired(t)
    <3>1. e \in SeenTimers /\ e.continuous = u.continuous /\ e.period = u.period
      BY ExpiredFields
    <3>2. e.to = u.to
      BY <1>4, ExpiredFields
    <3>3. e.mode = u.mode
      BY <1>4, ExpiredFields
    <3> HIDE DEF e
    <3>4. u = e
      BY <3>1, <3>2, <3>3, SameTimer
    <3> QED BY <3>4 DEF e
  <2> QED BY <1>4, <2>1 DEF Interface!AfterCount
<1>5. CASE t.mode = "running" /\ u.mode = "stopped" /\ u.to = t.to /\ ~t.continuous
  <2>1. u = [t EXCEPT !.mode = "stopped"]
    BY <1>5 DEF SeenTimers, Interface!Timers
  <2> QED BY <1>5, <2>1 DEF Interface!AfterCount
<1> QED BY <1>1, <1>2, <1>3, <1>4, <1>5

LEMMA ModeCases ==
  /\ counter_is_running /\ ~force_reload => Mode = "running"
  /\ ~(counter_is_running /\ ~force_reload) /\ timeout_event => Mode = "last"
  /\ ~(counter_is_running /\ ~force_reload) /\ ~timeout_event => Mode = "stopped"
  BY DEF Mode

Timer == [mode |-> Mode, continuous |-> control_continuous,
          to |-> timeout_occurred, period |-> counter_load_value]

\* The same after an edge, before what is written at it has its effect.
CountedMode == IF Mode = "running" /\ (counter_is_zero => control_continuous) THEN "running" ELSE "stopped"
CountedTo   == timeout_event \/ timeout_occurred
Counted     == [mode |-> CountedMode, continuous |-> control_continuous,
                to |-> CountedTo, period |-> counter_load_value]

LEMMA TimerFields ==
  ASSUME TypeOK
  PROVE  /\ Timer \in SeenTimers /\ Timer.mode = Mode /\ Timer.continuous = control_continuous
         /\ Timer.to = timeout_occurred /\ Timer.period = counter_load_value
<1>1. Mode \in {"stopped", "running", "last"}
  BY ModeCases
<1>2. counter_load_value \in Nat
  BY LoadIsPositive
<1> QED BY <1>1, <1>2 DEF TypeOK, Timer, SeenTimers, Interface!Timers

LEMMA TimerFieldsAfter ==
  ASSUME TypeOK'
  PROVE  /\ Timer' \in SeenTimers /\ Timer'.mode = Mode'
         /\ Timer'.continuous = control_continuous'
         /\ Timer'.to = timeout_occurred' /\ Timer'.period = counter_load_value'
<1>1. Mode' \in {"stopped", "running", "last"}
  BY DEF Mode
<1>2. counter_load_value' \in Nat
  BY LoadIsPositiveAfter
<1> QED BY <1>1, <1>2 DEF TypeOK, Timer, SeenTimers, Interface!Timers

LEMMA CountedFields ==
  ASSUME TypeOK
  PROVE  /\ Counted \in SeenTimers /\ Counted.mode = CountedMode
         /\ Counted.continuous = control_continuous
         /\ Counted.to = CountedTo /\ Counted.period = counter_load_value
<1>1. CountedMode \in {"stopped", "running", "last"}
  BY DEF CountedMode
<1>2. counter_load_value \in Nat
  BY LoadIsPositive
<1>3. CountedTo \in BOOLEAN
  BY DEF CountedTo
<1> QED BY <1>1, <1>2, <1>3 DEF TypeOK, Counted, SeenTimers, Interface!Timers

LEMMA CountedIsAnOutcome == TypeOK => Counted \in Interface!AfterCount(Timer)
<1> SUFFICES ASSUME TypeOK PROVE Counted \in Interface!AfterCount(Timer)
  OBVIOUS
<1>1. /\ control_continuous \in BOOLEAN /\ timeout_occurred \in BOOLEAN
      /\ counter_is_running \in BOOLEAN /\ force_reload \in BOOLEAN /\ delayed_zero \in BOOLEAN
  BY DEF TypeOK
<1>2. \/ Mode = "stopped" /\ CountedMode = "stopped" /\ CountedTo = timeout_occurred
      \/ Mode = "last" /\ CountedMode = "stopped" /\ CountedTo = TRUE
      \/ Mode = "running" /\ CountedMode = "running" /\ CountedTo = timeout_occurred
      \/ Mode = "running" /\ CountedMode = "running" /\ CountedTo = TRUE /\ control_continuous
      \/ Mode = "running" /\ CountedMode = "stopped" /\ CountedTo = TRUE /\ ~control_continuous
      \/ Mode = "running" /\ CountedMode = "stopped" /\ CountedTo = timeout_occurred /\ ~control_continuous
  <2>1. CASE ~timeout_event
    BY <1>1, <2>1, ModeCases DEF CountedMode, CountedTo
  <2>2. CASE timeout_event
    BY <1>1, <2>2, ModeCases DEF CountedMode, CountedTo, timeout_event
  <2> QED BY <2>1, <2>2
<1> QED BY <1>2, TimerFields, CountedFields, AfterCountMember
\* Only a counter that runs on can come to zero.
LEMMA NoEventWhenStopped ==
  ASSUME TypeOK, NEW start \in BOOLEAN, NEW stop \in BOOLEAN,
         NEW status \in BOOLEAN, NEW period \in BOOLEAN,
         Edge(start, stop, status, period), timeout_event'
  PROVE  CountedMode = "running"
<1>1. counter_is_zero' /\ ~delayed_zero'
  BY DEF timeout_event
<1>2. ~counter_is_zero
  BY <1>1 DEF Edge, counter_is_zero
<1>3. internal_counter' = NextCount /\ NextCount = 0
  BY <1>1 DEF Edge, counter_is_zero
<1>4. counter_is_running /\ ~force_reload
  BY <1>2, <1>3, LoadIsPositive DEF NextCount, counter_is_zero
<1> QED BY <1>2, <1>4, ModeCases DEF CountedMode

LEMMA CountedModeCases ==
  ASSUME TypeOK
  PROVE  /\ CountedMode \in {"running", "stopped"}
         /\ CountedMode = "running" <=>
                counter_is_running /\ ~force_reload /\ (counter_is_zero => control_continuous)
<1>1. Mode = "running" <=> counter_is_running /\ ~force_reload
  BY ModeCases DEF TypeOK
<1> QED BY <1>1 DEF CountedMode

LEMMA EdgeMode ==
  ASSUME TypeOK, NEW start \in BOOLEAN, NEW stop \in BOOLEAN,
         NEW status \in BOOLEAN, NEW period \in BOOLEAN,
         Edge(start, stop, status, period)
  PROVE  /\ ~period /\ start => Mode' = "running"
         /\ ~period /\ ~start /\ ~stop => Mode' = CountedMode
         /\ period \/ (~start /\ stop) =>
                \/ CountedMode = "stopped" /\ Mode' = "stopped"
                \/ CountedMode = "running" /\ Mode' \in {"last", "stopped"}
<1>1. /\ (counter_is_running /\ ~force_reload)' => Mode' = "running"
      /\ ~(counter_is_running /\ ~force_reload)' /\ timeout_event' => Mode' = "last"
      /\ ~(counter_is_running /\ ~force_reload)' /\ ~timeout_event' => Mode' = "stopped"
  BY DEF Mode
<1>2. timeout_event' => CountedMode = "running"
  BY NoEventWhenStopped
<1>3. /\ force_reload' <=> period
      /\ counter_is_running' <=> start \/ (counter_is_running /\ ~do_stop_counter(stop))
  BY DEF Edge, NextRunning
<1>4. counter_is_running /\ ~do_stop_counter(stop) <=> ~stop /\ CountedMode = "running"
  BY CountedModeCases DEF do_stop_counter, counter_is_zero
<1>5. CountedMode \in {"running", "stopped"}
  BY CountedModeCases
<1>6. CASE ~period /\ start
  BY <1>1, <1>3, <1>6
<1>7. CASE ~period /\ ~start /\ ~stop
  BY <1>1, <1>2, <1>3, <1>4, <1>5, <1>7
<1>8. CASE period \/ (~start /\ stop)
  BY <1>1, <1>2, <1>3, <1>4, <1>5, <1>8
<1> QED BY <1>6, <1>7, <1>8

LEMMA CountSeen == TypeOK /\ TypeOK' /\ Count => Interface!Counts
<1> SUFFICES ASSUME TypeOK, TypeOK', Count PROVE Timer' \in Interface!AfterCount(Timer)
  BY DEF Interface!Counts, Timer
<1>1. Edge(FALSE, FALSE, FALSE, FALSE)
  BY DEF Count
<1>2. Mode' = CountedMode
  BY <1>1, EdgeMode
<1>3. timeout_occurred' = CountedTo
  BY <1>1 DEF Edge, CountedTo
<1>4. control_continuous' = control_continuous /\ counter_load_value' = counter_load_value
  BY DEF Count, counter_load_value
<1>5. Timer' = Counted
  BY <1>2, <1>3, <1>4 DEF Timer, Counted
<1> QED BY <1>5, CountedIsAnOutcome
LEMMA StatusSeen == TypeOK /\ TypeOK' /\ WriteStatus => Interface!StatusWritten
<1> SUFFICES ASSUME TypeOK, TypeOK', WriteStatus PROVE Timer' = Interface!AfterStatus(Counted)
  BY CountedIsAnOutcome DEF Interface!StatusWritten, Timer
<1>1. Edge(FALSE, FALSE, TRUE, FALSE)
  BY DEF WriteStatus
<1>2. Mode' = CountedMode
  BY <1>1, EdgeMode
<1>3. timeout_occurred' = FALSE
  BY <1>1 DEF Edge
<1>4. control_continuous' = control_continuous /\ counter_load_value' = counter_load_value
  BY DEF WriteStatus, counter_load_value
<1>5. /\ Timer' \in SeenTimers /\ Timer'.mode = CountedMode
      /\ Timer'.continuous = control_continuous
      /\ Timer'.to = FALSE /\ Timer'.period = counter_load_value
  BY <1>2, <1>3, <1>4, TimerFieldsAfter
<1>6. /\ Interface!AfterStatus(Counted) \in SeenTimers
      /\ Interface!AfterStatus(Counted).mode = CountedMode
      /\ Interface!AfterStatus(Counted).continuous = control_continuous
      /\ Interface!AfterStatus(Counted).to = FALSE
      /\ Interface!AfterStatus(Counted).period = counter_load_value
  BY CountedFields, AfterStatusFields
<1> QED BY <1>5, <1>6, SameTimer

LEMMA ControlSeen ==
  ASSUME TypeOK, TypeOK', NEW start \in BOOLEAN, NEW stop \in BOOLEAN, NEW cont \in BOOLEAN,
         WriteControl(start, stop, cont)
  PROVE  Interface!ControlWritten(start, stop, cont)
<1> DEFINE a == Interface!AfterControl(Counted, start, stop, cont)
<1>1. SUFFICES Timer' \in Interface!AfterStop(a)
  BY CountedIsAnOutcome DEF Interface!ControlWritten, Timer
<1>2. Edge(start, stop, FALSE, FALSE)
  BY DEF WriteControl
<1>3. /\ a \in SeenTimers /\ a.continuous = cont /\ a.to = CountedTo
      /\ a.period = counter_load_value
      /\ a.mode = IF start THEN "running"
                  ELSE IF stop /\ CountedMode # "stopped" THEN "last" ELSE CountedMode
  <2> PICK c : c = Counted
    OBVIOUS
  <2>1. /\ c \in SeenTimers /\ c.mode = CountedMode
        /\ c.to = CountedTo /\ c.period = counter_load_value
    BY CountedFields
  <2>2. a = Interface!AfterControl(c, start, stop, cont)
    OBVIOUS
  <2> HIDE DEF a
  <2>3. a \in SeenTimers /\ a.continuous = cont /\ a.to = c.to
    BY <2>1, <2>2 DEF Interface!AfterControl, SeenTimers, Interface!Timers
  <2>4. /\ a.period = c.period
        /\ a.mode = IF start THEN "running"
                    ELSE IF stop /\ c.mode # "stopped" THEN "last" ELSE c.mode
    BY <2>1, <2>2 DEF Interface!AfterControl, SeenTimers, Interface!Timers
  <2>5. a.to = CountedTo
    BY <2>1, <2>3, Zenon
  <2> QED BY <2>1, <2>3, <2>4, <2>5, Zenon
<1>4. timeout_occurred' = CountedTo
  BY <1>2 DEF Edge, CountedTo
<1>5. control_continuous' = cont /\ counter_load_value' = counter_load_value
  BY DEF WriteControl, counter_load_value
<1>6. /\ Timer' \in SeenTimers /\ Timer'.mode = Mode' /\ Timer'.continuous = cont
      /\ Timer'.to = CountedTo /\ Timer'.period = counter_load_value
  BY <1>4, <1>5, TimerFieldsAfter
<1>7. Mode' = a.mode \/ (a.mode = "last" /\ Mode' = "stopped")
  <2>1. CASE start
    BY <1>2, <1>3, <2>1, EdgeMode
  <2>2. CASE ~start /\ ~stop
    BY <1>2, <1>3, <2>2, EdgeMode
  <2>3. CASE ~start /\ stop
    BY <1>2, <1>3, <2>3, EdgeMode
  <2> QED BY <2>1, <2>2, <2>3
<1> HIDE DEF a
<1> QED BY <1>3, <1>6, <1>7, AfterStopMember

LEMMA PeriodSeen ==
  ASSUME TypeOK, TypeOK', Edge(FALSE, FALSE, FALSE, TRUE),
         control_continuous' = control_continuous
  PROVE  Interface!PeriodWritten(counter_load_value')
<1> PICK q : q = counter_load_value'
  OBVIOUS
<1> DEFINE a == Interface!AfterPeriod(Counted, q)
<1>1. SUFFICES Timer' \in Interface!AfterStop(a)
  BY CountedIsAnOutcome DEF Interface!PeriodWritten, Timer
<1>2. q \in Nat
  BY LoadIsPositiveAfter
<1>3. /\ a \in SeenTimers /\ a.continuous = control_continuous /\ a.to = CountedTo
      /\ a.period = q
      /\ a.mode = IF CountedMode = "stopped" THEN "stopped" ELSE "last"
  BY <1>2, CountedFields, AfterPeriodFields
<1>4. timeout_occurred' = CountedTo
  BY DEF Edge, CountedTo
<1>5. /\ Timer' \in SeenTimers /\ Timer'.mode = Mode'
      /\ Timer'.continuous = control_continuous
      /\ Timer'.to = CountedTo /\ Timer'.period = q
  BY <1>4, TimerFieldsAfter
<1>6. Mode' = a.mode \/ (a.mode = "last" /\ Mode' = "stopped")
  BY <1>3, EdgeMode
<1> HIDE DEF a
<1> QED BY <1>3, <1>5, <1>6, AfterStopMember

\* The Verilog implements the timer that the firmware is modelled against, edge
\* by edge and for every width: with or without a write, at the very edge of
\* a timeout or not.
THEOREM TimerImplementsInterface == Spec => ImplementsInterface
<1> DEFINE Seen ==
      /\ Count => Interface!Counts
      /\ WriteStatus => Interface!StatusWritten
      /\ \A start, stop, cont \in BOOLEAN :
            WriteControl(start, stop, cont) => Interface!ControlWritten(start, stop, cont)
      /\ \A data \in Half \ {0} :
            WritePeriodL(data) => Interface!PeriodWritten(period_h_register * HALF + data)
      /\ \A data \in Half :
            WritePeriodH(data) => Interface!PeriodWritten(data * HALF + period_l_register)
<1>1. Init => Interface!TimerInit(RESET_PERIOD)
  <2> SUFFICES ASSUME Init PROVE Interface!TimerInit(RESET_PERIOD)
    OBVIOUS
  <2>1. counter_load_value = RESET_PERIOD /\ RESET_PERIOD # 0
    <3>1. /\ RESET_PERIOD \in Nat /\ HALF \in Nat \ {0} /\ RESET_PERIOD % HALF # 0
      <4>1. HALF * HALF \in Nat
        BY AvalonTimerAssumption
      <4> QED BY <4>1, AvalonTimerAssumption
    <3> QED BY <3>1 DEF Init, counter_load_value
  <2>2. Mode = "stopped"
    BY <2>1, ModeCases DEF Init, timeout_event, counter_is_zero
  <2> QED BY <2>1, <2>2 DEF Init, Interface!TimerInit
<1>2. TypeOK /\ TypeOK' /\ Next => Seen
  <2> SUFFICES ASSUME TypeOK, TypeOK' PROVE Seen
    OBVIOUS
  <2>1. ASSUME NEW data \in Half \ {0}, WritePeriodL(data)
        PROVE  Interface!PeriodWritten(period_h_register * HALF + data)
    <3>1. /\ Edge(FALSE, FALSE, FALSE, TRUE) /\ control_continuous' = control_continuous
          /\ counter_load_value' = period_h_register * HALF + data
      BY <2>1 DEF WritePeriodL, counter_load_value
    <3> QED BY <3>1, PeriodSeen
  <2>2. ASSUME NEW data \in Half, WritePeriodH(data)
        PROVE  Interface!PeriodWritten(data * HALF + period_l_register)
    <3>1. /\ Edge(FALSE, FALSE, FALSE, TRUE) /\ control_continuous' = control_continuous
          /\ counter_load_value' = data * HALF + period_l_register
      BY <2>2 DEF WritePeriodH, counter_load_value
    <3> QED BY <3>1, PeriodSeen
  <2> QED BY <2>1, <2>2, CountSeen, StatusSeen, ControlSeen
<1> HIDE DEF Seen
<1>3. TypeOK /\ TypeOK' /\ [Next]_registers => [Seen]_registers
  BY <1>2
<1>4. Spec => [][Seen]_registers
  BY <1>3, CounterInRange, PTL DEF Spec
<1> QED BY <1>1, <1>4, PTL DEF Spec, ImplementsInterface, Seen

-----------------------------------------------------------------------------

\* The clocks until the timer expires, if it is left running: a counter that
\* stands at zero after its event is loaded first.
ClocksLeft ==
    IF counter_is_zero /\ delayed_zero THEN counter_load_value + 1 ELSE internal_counter

\* A new period reaches the counter before it is counted again.
LoadIsCounted == ~force_reload => internal_counter <= counter_load_value

ClocksLeftInv ==
    /\ ClocksLeft \in Nat /\ (timeout_event <=> (ClocksLeft = 0))
    /\ Mode = "running" => ClocksLeft <= counter_load_value + 1

ClockGoesBy ==
    Mode = "running" /\ Mode' = "running" =>
        ClocksLeft' = IF timeout_event THEN counter_load_value ELSE ClocksLeft - 1

LEMMA InitLoadIsCounted == Init => LoadIsCounted
<1> SUFFICES ASSUME Init PROVE LoadIsCounted
  OBVIOUS
<1>1. /\ RESET_PERIOD \in Nat /\ HALF \in Nat \ {0}
  <2>1. HALF * HALF \in Nat
    BY AvalonTimerAssumption
  <2> QED BY <2>1, AvalonTimerAssumption
<1>2. internal_counter = counter_load_value /\ internal_counter \in Nat
  BY <1>1 DEF Init, counter_load_value
<1> QED BY <1>2 DEF LoadIsCounted

LEMMA LoadIsCountedStep == TypeOK /\ LoadIsCounted /\ [Next]_registers => LoadIsCounted'
<1> SUFFICES ASSUME TypeOK, LoadIsCounted, [Next]_registers, ~force_reload'
             PROVE  internal_counter' <= counter_load_value'
  BY DEF LoadIsCounted
<1>1. CASE UNCHANGED registers
  BY <1>1 DEF registers, LoadIsCounted, counter_load_value
<1>2. CASE Next
  <2>1. counter_load_value' = counter_load_value
    BY <1>2, LoadStays
  <2>2. PICK start, stop, status, period \in BOOLEAN : Edge(start, stop, status, period)
    BY <1>2, EveryStepIsAnEdge
  <2>3. /\ counter_load_value \in Nat /\ internal_counter \in Nat
        /\ NextCount \in {counter_load_value, internal_counter - 1, internal_counter}
        /\ force_reload => NextCount = counter_load_value
    BY LoadIsPositive, AvalonTimerAssumption DEF TypeOK, NextCount
  <2>4. NextCount <= counter_load_value
    BY <2>3 DEF LoadIsCounted
  <2> QED BY <2>1, <2>2, <2>4 DEF Edge
<1> QED BY <1>1, <1>2

LEMMA ClocksLeftRange == TypeOK /\ LoadIsCounted => ClocksLeftInv
<1> SUFFICES ASSUME TypeOK, LoadIsCounted PROVE ClocksLeftInv
  OBVIOUS
<1>1. /\ counter_load_value \in Nat /\ counter_load_value >= 1 /\ internal_counter \in Nat
      /\ Mode = "running" => internal_counter <= counter_load_value
  BY LoadIsPositive, ModeCases, AvalonTimerAssumption DEF TypeOK, LoadIsCounted
<1>2. CASE counter_is_zero /\ delayed_zero
  BY <1>1, <1>2 DEF ClocksLeftInv, ClocksLeft, timeout_event
<1>3. CASE ~(counter_is_zero /\ delayed_zero)
  BY <1>1, <1>3 DEF ClocksLeftInv, ClocksLeft, timeout_event, counter_is_zero
<1> QED BY <1>2, <1>3

LEMMA ClockSteps == TypeOK /\ [Next]_registers => [ClockGoesBy]_registers
<1> SUFFICES ASSUME TypeOK, Next, Mode = "running", Mode' = "running"
             PROVE  ClocksLeft' = IF timeout_event THEN counter_load_value ELSE ClocksLeft - 1
  BY DEF ClockGoesBy
<1>1. counter_is_running /\ ~force_reload /\ ~force_reload'
  <2>1. ~(counter_is_running /\ ~force_reload)' => Mode' # "running"
    BY DEF Mode
  <2> QED BY <2>1, ModeCases
<1>2. internal_counter' = NextCount /\ (delayed_zero' <=> counter_is_zero)
  <2>1. PICK start, stop, status, period \in BOOLEAN : Edge(start, stop, status, period)
    BY EveryStepIsAnEdge
  <2> QED BY <2>1 DEF Edge, counter_is_zero
<1>3. counter_load_value \in Nat /\ counter_load_value >= 1 /\ internal_counter \in Nat
  BY LoadIsPositive, AvalonTimerAssumption DEF TypeOK
<1>4. CASE counter_is_zero
  <2>1. internal_counter' = counter_load_value
    BY <1>1, <1>2, <1>4 DEF NextCount
  <2>2. ClocksLeft' = counter_load_value
    BY <1>3, <2>1 DEF ClocksLeft, counter_is_zero
  <2>3. ~timeout_event => ClocksLeft - 1 = counter_load_value
    BY <1>3, <1>4 DEF ClocksLeft, timeout_event
  <2> QED BY <2>2, <2>3
<1>5. CASE ~counter_is_zero
  <2>1. internal_counter' = internal_counter - 1 /\ ~delayed_zero'
    BY <1>1, <1>2, <1>5 DEF NextCount
  <2> QED BY <1>5, <2>1 DEF ClocksLeft, timeout_event
<1> QED BY <1>4, <1>5

\* A timer that is left running is never more than its period + 1 clocks from
\* its next event, comes one clock closer at every edge, whatever else is
\* written to it, and starts again with its period at the event: the counter
\* is never stuck at zero, nor is its event skipped.
THEOREM EventComesCloser == Spec => []ClocksLeftInv /\ [][ClockGoesBy]_registers
<1>1. Spec => []LoadIsCounted
  BY InitLoadIsCounted, LoadIsCountedStep, CounterInRange, PTL DEF Spec
<1> QED BY <1>1, ClocksLeftRange, ClockSteps, CounterInRange, PTL DEF Spec
=============================================================================
