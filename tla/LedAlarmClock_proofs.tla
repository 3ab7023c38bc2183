------------------------- MODULE LedAlarmClock_proofs -------------------------
(***************************************************************************)
(* Proofs that the LED alarm clock rings at every arrival at its alarm     *)
(* time and keeps its types, for every day and every length of the alarm   *)
(* up to a minute; and, in an instance of module FirstAlarmClock with the  *)
(* same variables, the safety of the firmware before it, for which the     *)
(* length of the alarm does not matter.                                    *)
(***************************************************************************)
EXTENDS LedAlarmClock, SwitchEdges, TimeOfDay_proofs

\* Seconds from the field of time a to the field of time c, going forward.
Elapsed(a, c) == IF c.segundos >= a.segundos THEN c.segundos - a.segundos
                                             ELSE c.segundos - a.segundos + SEGUNDOS

Typing ==
    /\ clock \in Times
    /\ alarm \in Times \cup {NoTime}
    /\ alarma_activa \in BOOLEAN
    /\ counting \in BOOLEAN
    /\ segundos_alarma_activa \in 0 .. 255
    /\ LEDS \in {0, ALL_LEDS}
    /\ switch \in BOOLEAN

\* The seconds field is never further from the alarm than the alarm has aged: a
\* turn adds one to the age and moves the field by one at most, and setting
\* the alarm brings it back to the clock.  In a turn that counts, it is
\* past the alarm by the time the two are compared.
Pace ==
    alarma_activa =>
        /\ alarm \in Times
        /\ segundos_alarma_activa < ALARM_TURNS
        /\ Elapsed(alarm, clock) <= segundos_alarma_activa
        /\ pc = "wait" => Elapsed(alarm, clock) + 1 <= segundos_alarma_activa
        /\ pc = "check" /\ counting => Elapsed(alarm, clock) > 0

IInv == Typing /\ Pace /\ LightIsAlarm

-----------------------------------------------------------------------------
(* The seconds field in the two ways the time moves. *)

LEMMA ElapsedNow == \A t \in Times : Elapsed(t, t) = 0
  BY TimeOfDayAssumption DEF Elapsed, Times

LEMMA ElapsedAdvances ==
  ASSUME NEW a \in Times, NEW c \in Times
  PROVE  /\ Elapsed(a, c) \in 0 .. SEGUNDOS - 1
         /\ Elapsed(a, c) + 1 < SEGUNDOS => Elapsed(a, Advance(c)) = Elapsed(a, c) + 1
<1>1. /\ a.segundos \in 0 .. SEGUNDOS - 1 /\ c.segundos \in 0 .. SEGUNDOS - 1
      /\ SEGUNDOS \in Nat
  BY TimeOfDayAssumption DEF Times
<1>2. Advance(c).segundos = IF c.segundos + 1 >= SEGUNDOS THEN 0 ELSE c.segundos + 1
  BY DEF Advance
<1> QED BY <1>1, <1>2 DEF Elapsed

LEMMA ElapsedAdjusts ==
  ASSUME NEW a \in Times, NEW c \in Times, NEW keys
  PROVE  Elapsed(a, Adjusted(c, keys)) <= Elapsed(a, c) + 1
<1>1. /\ a.segundos \in 0 .. SEGUNDOS - 1 /\ c.segundos \in 0 .. SEGUNDOS - 1
      /\ SEGUNDOS \in Nat \ {0}
  BY TimeOfDayAssumption DEF Times
<1>2. Adjusted(c, keys).segundos \in {c.segundos, (c.segundos + 1) % SEGUNDOS}
  BY DEF Adjusted
<1>3. (c.segundos + 1) % SEGUNDOS = IF c.segundos + 1 = SEGUNDOS THEN 0 ELSE c.segundos + 1
  <2>1. CASE c.segundos + 1 = SEGUNDOS
    BY <1>1, <2>1
  <2>2. CASE c.segundos + 1 # SEGUNDOS
    BY <1>1, <2>2
  <2> QED BY <2>1, <2>2
<1> QED BY <1>1, <1>2, <1>3 DEF Elapsed

LEMMA Limits == ALARM_TURNS \in 1 .. 255 /\ ALARM_TURNS <= SEGUNDOS /\ SEGUNDOS \in Nat \ {0}
  BY LedAlarmClockAssumption, TimeOfDayAssumption

-----------------------------------------------------------------------------

LEMMA InitIInv == Init => IInv
<1> SUFFICES ASSUME Init PROVE IInv
  OBVIOUS
<1>1. clock \in Times
  BY TimeOfDayAssumption DEF Init, PanelInit, Times, Midnight
<1>2. alarma_activa = FALSE /\ LEDS = 0
  BY DEF Init, PanelInit
<1>3. Typing
  <2>1. counting = FALSE /\ segundos_alarma_activa = 0 /\ alarm = NoTime
    BY DEF Init, PanelInit
  <2>2. switch \in BOOLEAN /\ counting \in BOOLEAN /\ alarma_activa \in BOOLEAN
    BY DEF Init, PanelInit
  <2>3. segundos_alarma_activa \in 0 .. 255
    BY <2>1
  <2> QED BY <1>1, <1>2, <2>1, <2>2, <2>3 DEF Typing
<1>4. Pace /\ LightIsAlarm
  BY <1>2 DEF Pace, LightIsAlarm, ALL_LEDS
<1> QED BY <1>3, <1>4 DEF IInv

\* In set mode the field moves by a key; with the switch on, not at all yet.
LEMMA ActKeeps == IInv /\ Act => IInv'
<1> SUFFICES ASSUME IInv, Act PROVE IInv'
  OBVIOUS
<1>1. clock' \in Times /\ clock' = Adjusted(clock, Pressed)
  BY AdjustedType DEF IInv, Typing, Act, SetTime
<1>2. /\ alarma_activa' \in BOOLEAN
      /\ alarma_activa' => alarma_activa
      /\ segundos_alarma_activa' \in 0 .. 255
      /\ LEDS' \in {0, LEDS}
  BY DEF IInv, Typing, Act, AgeAlarm
<1>3. alarma_activa' => /\ segundos_alarma_activa' = segundos_alarma_activa + 1
                        /\ segundos_alarma_activa + 1 < ALARM_TURNS
  <2> SUFFICES ASSUME alarma_activa' PROVE /\ segundos_alarma_activa' = segundos_alarma_activa + 1
                                           /\ segundos_alarma_activa + 1 < ALARM_TURNS
    OBVIOUS
  <2>1. alarma_activa /\ segundos_alarma_activa \in 0 .. ALARM_TURNS - 1
    BY <1>2, Limits DEF IInv, Typing, Pace
  <2>2. segundos_alarma_activa + 1 \in 1 .. 255
    BY <2>1, Limits
  <2>3. (segundos_alarma_activa + 1) % 256 = segundos_alarma_activa + 1
    BY <2>2
  <2>4. (segundos_alarma_activa + 1) % 256 # ALARM_TURNS
    BY <2>1 DEF Act, AgeAlarm
  <2> QED BY <2>1, <2>3, <2>4, Limits DEF Act, AgeAlarm
<1>4. alarma_activa' \/ LEDS' = 0
  BY DEF IInv, Typing, LightIsAlarm, ALL_LEDS, Act, AgeAlarm
<1>5. Typing'
  <2>1. alarm' \in Times \cup {NoTime}
    BY <1>1 DEF IInv, Typing, Act, SetTime
  <2> QED BY <1>1, <1>2, <2>1 DEF IInv, Typing, Act, pins
<1>6. Pace'
  <2> SUFFICES ASSUME alarma_activa' = TRUE PROVE Pace'
    BY <1>2 DEF Pace
  <2>1. PICK age \in 0 .. 255 : segundos_alarma_activa = age
    BY DEF IInv, Typing
  <2>2. /\ alarma_activa /\ alarm \in Times /\ clock \in Times
        /\ segundos_alarma_activa' = age + 1 /\ age + 1 < ALARM_TURNS
        /\ Elapsed(alarm, clock) <= age
        /\ Elapsed(alarm, clock) \in 0 .. SEGUNDOS - 1
    BY <1>2, <1>3, <2>1, ElapsedAdvances DEF IInv, Typing, Pace
  <2>3. CASE switch
    <3>1. Pressed = {} /\ pc' = "wait"
      BY <2>3 DEF Act, Pressed
    <3>2. Adjusted(clock, {}) = clock
      BY <2>2 DEF Adjusted, Times
    <3>3. clock' = clock /\ alarm' = alarm
      BY <1>1, <3>1, <3>2 DEF Act, SetTime
    <3>4. Elapsed(alarm', clock') = Elapsed(alarm, clock)
      BY <3>3
    <3> QED BY <2>2, <3>1, <3>3, <3>4, Limits DEF Pace
  <2>4. CASE ~switch
    <3>1. pc' = "check" /\ ~counting'
      BY <2>4 DEF Act
    <3>2. alarm' \in Times /\ Elapsed(alarm', clock') <= age + 1
      <4>1. CASE "alarma" \in Pressed
        BY <1>1, <2>2, <4>1, ElapsedNow DEF Act, SetTime
      <4>2. CASE "alarma" \notin Pressed
        <5>1. alarm' = alarm
          BY <4>2 DEF Act, SetTime
        <5>2. Elapsed(alarm, Adjusted(clock, Pressed)) <= Elapsed(alarm, clock) + 1
          BY <2>2, ElapsedAdjusts
        <5>3. Adjusted(clock, Pressed) \in Times
          BY <1>1
        <5>4. Elapsed(alarm, Adjusted(clock, Pressed)) \in 0 .. SEGUNDOS - 1
          BY <2>2, <5>3, ElapsedAdvances
        <5> QED BY <1>1, <2>2, <5>1, <5>2, <5>4, Limits
      <4> QED BY <4>1, <4>2
    <3> QED BY <2>2, <3>1, <3>2 DEF Pace
  <2> QED BY <2>3, <2>4
<1>7. LightIsAlarm'
  <2>1. CASE alarma_activa'
    BY <1>3, <2>1 DEF LightIsAlarm
  <2>2. CASE ~alarma_activa'
    BY <1>4, <2>2 DEF LightIsAlarm, ALL_LEDS
  <2> QED BY <2>1, <2>2
<1> QED BY <1>5, <1>6, <1>7 DEF IInv

\* The field moves on by one, short of coming round.
LEMMA CountKeeps == IInv /\ Count => IInv'
<1> SUFFICES ASSUME IInv, Count PROVE IInv'
  OBVIOUS
<1>1. clock \in Times /\ clock' = Advance(clock) /\ clock' \in Times
  BY AdvanceType DEF IInv, Typing, Count, CountSecond
<1>2. /\ pc = "wait" /\ pc' = "check"
      /\ UNCHANGED <<alarm, counting, alarma_activa, segundos_alarma_activa, LEDS, switch>>
  BY DEF Count, CountSecond, alarmVars, pins
<1>3. Typing' /\ LightIsAlarm'
  BY <1>1, <1>2 DEF IInv, Typing, LightIsAlarm
<1>4. Pace'
  <2> SUFFICES ASSUME alarma_activa PROVE Pace'
    BY <1>2 DEF Pace
  <2>1. PICK age \in 0 .. 255 : segundos_alarma_activa = age
    BY DEF IInv, Typing
  <2>2. alarm \in Times /\ age < ALARM_TURNS /\ Elapsed(alarm, clock) + 1 <= age
    BY <1>2, <2>1 DEF IInv, Pace
  <2>3. /\ Elapsed(alarm, clock) \in 0 .. SEGUNDOS - 1
        /\ Elapsed(alarm, clock') = Elapsed(alarm, clock) + 1
    BY <1>1, <2>2, Limits, ElapsedAdvances
  <2>4. Elapsed(alarm, clock') <= age /\ Elapsed(alarm, clock') > 0
    BY <2>2, <2>3
  <2> QED BY <1>2, <2>1, <2>2, <2>4 DEF Pace
<1> QED BY <1>3, <1>4 DEF IInv

LEMMA CheckAlarmKeeps == IInv /\ CheckAlarm => IInv'
<1> SUFFICES ASSUME IInv, CheckAlarm PROVE IInv'
  OBVIOUS
<1>1. /\ pc = "check" /\ pc' = "poll"
      /\ UNCHANGED <<clock, alarm, counting, switch>>
  BY DEF CheckAlarm, pins
<1>2. CASE Reached /\ ~alarma_activa
  <2>1. alarm = clock /\ clock \in Times /\ Elapsed(alarm, clock) = 0
    BY <1>2, ElapsedNow DEF IInv, Typing, Reached
  <2>2. LEDS' = ALL_LEDS /\ alarma_activa' = TRUE /\ segundos_alarma_activa' = 0
    BY <1>2 DEF CheckAlarm, Ring
  <2>3. Typing'
    BY <1>1, <2>2 DEF IInv, Typing
  <2>4. Pace' /\ LightIsAlarm'
    BY <1>1, <2>1, <2>2, Limits DEF Pace, LightIsAlarm
  <2> QED BY <2>3, <2>4 DEF IInv
<1>3. CASE ~(Reached /\ ~alarma_activa)
  BY <1>1, <1>3 DEF CheckAlarm, alarmVars, IInv, Typing, Pace, LightIsAlarm
<1> QED BY <1>2, <1>3

\* No other step touches the alarm or the time.
LEMMA OthersKeep ==
  IInv /\ (Start \/ Read \/ (Outside /\ UNCHANGED alarmVars) \/ UNCHANGED vars) => IInv'
<1> SUFFICES ASSUME IInv, Start \/ Read \/ (Outside /\ UNCHANGED alarmVars) \/ UNCHANGED vars
             PROVE  IInv'
  OBVIOUS
<1>1. /\ UNCHANGED <<clock, alarm, counting, alarma_activa, segundos_alarma_activa, LEDS>>
      /\ switch' \in BOOLEAN
      /\ pc' = pc \/ pc' \in {"poll", "act"}
  BY DEF IInv, Typing, Start, Boot, Read, ReadButtons, Outside, TimerExpires, SwitchFlips,
         KeyChanges, vars, panelVars, alarmVars, pins
<1>2. Typing' /\ LightIsAlarm'
  BY <1>1 DEF IInv, Typing, LightIsAlarm
<1>3. Pace'
  BY <1>1 DEF IInv, Pace
<1> QED BY <1>2, <1>3 DEF IInv

LEMMA InductiveInvariant == Spec => []IInv
<1>1. Init => IInv
  BY InitIInv
<1>2. IInv /\ [Next]_vars => IInv'
  BY ActKeeps, CountKeeps, CheckAlarmKeeps, OthersKeep DEF Next, Firmware
<1> QED BY <1>1, <1>2, PTL DEF Spec

-----------------------------------------------------------------------------

\* Lit LEDs belong to an active alarm that still has turns to age.
THEOREM LightBelongsToAlarm == Spec => []LightIsAlarm
<1>1. IInv => LightIsAlarm
  BY DEF IInv
<1> QED BY <1>1, InductiveInvariant, PTL

\* Whenever counting reaches the alarm time the LEDs are lit: an alarm that is
\* still active would be further from its time than its age allows.
THEOREM ArrivalsRing == Spec => EveryArrivalRings
<1>1. IInv /\ [Next]_vars => [pc = "check" /\ Reached /\ pc' # pc => LEDS' = ALL_LEDS]_vars
  <2> SUFFICES ASSUME IInv, Next, pc = "check", Reached, pc' # pc PROVE LEDS' = ALL_LEDS
    OBVIOUS
  <2>1. CheckAlarm
    BY DEF Next, Firmware, Start, Boot, Read, ReadButtons, Act, Count, CountSecond, Outside,
           TimerExpires, SwitchFlips, KeyChanges, panelVars
  <2>2. alarm = clock /\ clock \in Times /\ counting /\ alarma_activa \in BOOLEAN
    BY DEF Reached, IInv, Typing
  <2>3. Elapsed(alarm, clock) = 0
    BY <2>2, ElapsedNow
  <2>4. ~alarma_activa
    BY <2>2, <2>3 DEF IInv, Pace
  <2> QED BY <2>1, <2>4 DEF CheckAlarm, Ring
<1> QED BY <1>1, InductiveInvariant, PTL DEF Spec, EveryArrivalRings

-----------------------------------------------------------------------------
(* The types of the whole state. *)

LEMMA InitTypeOK == Init => TypeOK
<1> SUFFICES ASSUME Init PROVE TypeOK
  OBVIOUS
<1>1. Typing
  BY InitIInv DEF IInv
<1>2. display \in Displays
  BY DEF Init, PanelInit, Displays, ResetDisplay, Ports
<1>3. timer \in Timers({RESET_PERIOD, SECOND})
  BY DEF Init, PanelInit, TimerInit, Timers
<1> QED BY <1>1, <1>2, <1>3 DEF Typing, Init, PanelInit, TypeOK, PanelTypeOK

LEMMA StepTypeOK == TypeOK /\ Typing' /\ [Next]_vars => TypeOK'
<1> SUFFICES ASSUME TypeOK, Typing', [Next]_vars PROVE TypeOK'
  OBVIOUS
<1> USE DEF TypeOK, PanelTypeOK, Typing
<1>1. CASE Start
  <2>1. display' \in Displays
    BY <1>1, UpdateIsLegible DEF Start, update_all
  <2>2. timer' \in Timers({RESET_PERIOD, SECOND})
    BY <1>1, ReprogrammedTicks DEF Start, Boot, init_timer
  <2> QED BY <1>1, <2>1, <2>2 DEF Start, Boot, pins, alarmVars
<1>2. CASE Read
  BY <1>2 DEF Read, ReadButtons, pins, alarmVars
<1>3. CASE Act
  <2>1. display' \in Displays
    BY <1>3, UpdateIsLegible DEF Act
  <2> QED BY <1>3, <2>1 DEF Act, RememberInSetMode, pins
<1>4. CASE Count
  <2>1. display' \in Displays
    BY <1>4, UpdateIsLegible DEF Count, update_all
  <2>2. timer' \in Timers({RESET_PERIOD, SECOND})
    BY <1>4, TickingGoesOn DEF Count, CountSecond
  <2> QED BY <1>4, <2>1, <2>2 DEF Count, CountSecond, pins, alarmVars
<1>5. CASE CheckAlarm
  BY <1>5 DEF CheckAlarm, pins
<1>6. CASE TimerExpires /\ UNCHANGED alarmVars
  <2>1. timer' \in Timers({RESET_PERIOD, SECOND})
    BY <1>6, TickingGoesOn DEF TimerExpires
  <2> QED BY <1>6, <2>1 DEF TimerExpires, panelVars, pins
<1>7. CASE SwitchFlips \/ (\E key \in KEYS : KeyChanges(key)) \/ UNCHANGED vars
  BY <1>7 DEF SwitchFlips, KeyChanges, panelVars, vars, pins
<1> QED BY <1>1, <1>2, <1>3, <1>4, <1>5, <1>6, <1>7 DEF Next, Firmware, Outside

\* The two fields of the LED alarm clock that are single bytes, its digits, its
\* timer and everything else keep their types.
THEOREM LedTypes == Spec => []TypeOK
<1>1. Init => TypeOK
  BY InitTypeOK
<1>2. IInv => Typing
  BY DEF IInv
<1>3. TypeOK /\ Typing' /\ [Next]_vars => TypeOK'
  BY StepTypeOK
<1> QED BY <1>1, <1>2, <1>3, InductiveInvariant, PTL DEF Spec

-----------------------------------------------------------------------------
(* How far it is: with the fairness of the specification, what AlarmEnds     *)
(* rests on.                                                                 *)

\* Turns of the loop until an active alarm has reached its age.
TurnsLeft == IF alarma_activa THEN ALARM_TURNS - segundos_alarma_activa ELSE 0

\* Lit LEDs have turns left, each turn of the loop takes one of them, and
\* nothing gives an active alarm any more: a lit alarm is dark after
\* ALARM_TURNS turns at the latest, whatever the keys and the switch do.
THEOREM LightRunsOut ==
  Spec => /\ []((LEDS = ALL_LEDS => TurnsLeft > 0) /\ TurnsLeft \in 0 .. ALARM_TURNS)
          /\ [][alarma_activa =>
                    TurnsLeft' = IF pc = "act" /\ pc' # pc THEN TurnsLeft - 1 ELSE TurnsLeft]_vars
<1>1. IInv => (LEDS = ALL_LEDS => TurnsLeft > 0) /\ TurnsLeft \in 0 .. ALARM_TURNS
  BY Limits DEF IInv, Typing, Pace, LightIsAlarm, TurnsLeft
<1>2. IInv /\ [Next]_vars =>
          [alarma_activa =>
               TurnsLeft' = IF pc = "act" /\ pc' # pc THEN TurnsLeft - 1 ELSE TurnsLeft]_vars
  <2> SUFFICES ASSUME IInv, Next, alarma_activa
               PROVE  TurnsLeft' = IF pc = "act" /\ pc' # pc THEN TurnsLeft - 1 ELSE TurnsLeft
    OBVIOUS
  <2>1. PICK age \in 0 .. 255 : age = segundos_alarma_activa /\ age < ALARM_TURNS
    BY DEF IInv, Typing, Pace
  <2>2. CASE Act
    <3>1. pc = "act" /\ pc' # pc
      BY <2>2 DEF Act
    <3>2. (age + 1) % 256 = age + 1
      BY <2>1, Limits
    <3>3. /\ segundos_alarma_activa' = age + 1
          /\ alarma_activa' <=> age + 1 # ALARM_TURNS
      BY <2>1, <2>2, <3>2 DEF Act, AgeAlarm
    <3> QED BY <2>1, <3>1, <3>3, Limits DEF TurnsLeft
  <2>3. CASE ~Act
    <3>1. UNCHANGED <<alarma_activa, segundos_alarma_activa>> /\ (pc = "act" => pc' = pc)
      BY <2>3 DEF Next, Firmware, Start, Boot, Read, ReadButtons, Count, CountSecond, CheckAlarm,
                  Outside, TimerExpires, SwitchFlips, KeyChanges, panelVars, alarmVars
    <3> QED BY <3>1 DEF TurnsLeft
  <2> QED BY <2>2, <2>3
<1> QED BY <1>1, <1>2, InductiveInvariant, PTL DEF Spec

-----------------------------------------------------------------------------
(* The firmware before this one, FirstAlarmClock, on the same panel.        *)

First == INSTANCE FirstAlarmClock

FirstTyping ==
    /\ clock \in Times /\ alarm \in Times \cup {NoTime} /\ counting \in BOOLEAN
    /\ prev_buttons_state \subseteq KEYS /\ buttons_state \subseteq KEYS
    /\ LEDS \in {0, ALL_LEDS} /\ display \in Displays
    /\ buttons \subseteq KEYS /\ switch \in BOOLEAN
    /\ pc \in {"boot", "poll", "act", "wait", "check"}
    /\ timer \in Timers({RESET_PERIOD, SECOND})
    /\ switch_state \in BOOLEAN

\* The clock stands still only while nothing has been set; main() does not wait
\* for the second of a clock that stands.
FirstInv ==
    /\ FirstTyping
    /\ pc # "boot" /\ counting # switch_state =>
           switch_state /\ clock = Midnight /\ alarm = NoTime
    /\ pc = "boot" => clock = Midnight /\ alarm = NoTime /\ counting = FALSE
    /\ pc = "wait" => counting

\* The two firmwares share the time of day, its display and the timer.
LEMMA SameTimes ==
  /\ First!Times = Times /\ First!NoTime = NoTime /\ First!Midnight = Midnight
  /\ First!Displays = Displays /\ First!ResetDisplay = ResetDisplay
  /\ \A t : First!Advance(t) = Advance(t)
  /\ \A t, keys : First!Adjusted(t, keys) = Adjusted(t, keys)
  BY DEF First!Times, Times, First!NoTime, NoTime, First!Midnight, Midnight,
         First!Displays, Displays, First!Ports, Ports, First!ResetDisplay, ResetDisplay,
         First!Advance, Advance, First!Adjusted, Adjusted

LEMMA SameDisplay ==
  \A d, t, fields : First!update(d, t, fields) = update(d, t, fields)
<1>1. \A n : First!num_to_seven_seg(n) = num_to_seven_seg(n)
  BY DEF First!num_to_seven_seg, num_to_seven_seg, First!Patterns, Patterns
<1>2. \A port, digit : First!display_digit(port, digit) = display_digit(port, digit)
  BY <1>1 DEF First!display_digit, display_digit
<1>3. \A ports, n : First!ShowField(ports, n) = ShowField(ports, n)
  BY <1>2 DEF First!ShowField, ShowField
<1> QED BY <1>3 DEF First!update, update

LEMMA SameTimer ==
  /\ \A periods : First!Timers(periods) = Timers(periods)
  /\ \A t : First!AfterStatus(t) = AfterStatus(t) /\ First!Expired(t) = Expired(t)
  /\ \A t, p : First!Reprogrammed(t, p) = Reprogrammed(t, p)
<1>1. \A t, start, stop, cont :
          First!AfterControl(t, start, stop, cont) = AfterControl(t, start, stop, cont)
  BY DEF First!AfterControl, AfterControl
<1>2. \A t, p : First!AfterPeriod(t, p) = AfterPeriod(t, p)
  BY DEF First!AfterPeriod, AfterPeriod
<1>3. \A t, p : First!Reprogrammed(t, p) = Reprogrammed(t, p)
  BY <1>1, <1>2 DEF First!Reprogrammed, Reprogrammed
<1>4. \A t : First!AfterStatus(t) = AfterStatus(t) /\ First!Expired(t) = Expired(t)
  BY DEF First!AfterStatus, AfterStatus, First!Expired, Expired
<1>5. \A periods : First!Timers(periods) = Timers(periods)
  BY DEF First!Timers, Timers
<1> QED BY <1>3, <1>4, <1>5

LEMMA FirstInit == First!Init => FirstInv
<1> SUFFICES ASSUME First!Init PROVE FirstInv
  OBVIOUS
<1> USE DEF First!Init, First!PanelInit
<1>1. clock = Midnight /\ Midnight \in Times
  BY SameTimes, TimeOfDayAssumption DEF Times, Midnight
<1>2. display = ResetDisplay /\ ResetDisplay \in Displays
  BY SameTimes DEF Displays, ResetDisplay, Ports
<1>3. timer \in Timers({RESET_PERIOD, SECOND})
  BY DEF First!TimerInit, Timers
<1>4. FirstTyping
  BY <1>1, <1>2, <1>3, SameTimes DEF FirstTyping
<1> QED BY <1>1, <1>4, SameTimes DEF FirstInv

LEMMA FirstStart == FirstInv /\ First!Start => FirstInv'
<1> SUFFICES ASSUME FirstInv, First!Start PROVE FirstInv'
  OBVIOUS
<1> USE DEF First!Start, First!Boot
<1>1. display' \in Displays
  BY SameDisplay, UpdateIsLegible DEF FirstInv, FirstTyping, First!update_all
<1>2. timer' \in Timers({RESET_PERIOD, SECOND})
  BY SameTimer, ReprogrammedTicks DEF FirstInv, FirstTyping, First!init_timer
<1>3. FirstTyping'
  BY <1>1, <1>2 DEF FirstInv, FirstTyping, First!pins
<1>4. counting' # switch_state' => switch_state' /\ clock' = Midnight /\ alarm' = NoTime
  BY DEF FirstInv, FirstTyping, First!pins
<1> QED BY <1>3, <1>4 DEF FirstInv, FirstTyping

\* The switch is compared with what it was: counting and switch_state differ
\* afterwards only if they did before and the switch is on, as it was.
LEMMA FirstAct == FirstInv /\ First!Act => FirstInv'
<1> SUFFICES ASSUME FirstInv, First!Act PROVE FirstInv'
  OBVIOUS
<1>1. /\ pc = "act" /\ pc' = IF counting' THEN "wait" ELSE "check"
      /\ clock' = Adjusted(clock, First!Pressed)
      /\ alarm' = IF "alarma" \in First!Pressed THEN clock' ELSE alarm
      /\ counting' = IF switch # switch_state THEN switch ELSE counting
      /\ switch_state' = switch /\ switch' = switch /\ timer' = timer
  BY SameTimes DEF First!Act, First!SetTime, First!FollowSwitch, First!pins
<1>2. clock' \in Times
  BY <1>1, AdjustedType DEF FirstInv, FirstTyping
<1>3. display' \in Displays
  BY <1>2, SameDisplay, UpdateIsLegible DEF FirstInv, FirstTyping, First!Act
<1>4. FirstTyping'
  BY <1>1, <1>2, <1>3 DEF FirstInv, FirstTyping, First!Act, First!DarkenOnKey, First!pins
<1>5. counting' # switch_state' => switch_state' /\ clock' = Midnight /\ alarm' = NoTime
  <2> SUFFICES ASSUME counting' # switch_state'
               PROVE  switch_state' /\ clock' = Midnight /\ alarm' = NoTime
    OBVIOUS
  <2>1. switch_state /\ switch /\ clock = Midnight /\ alarm = NoTime
    BY <1>1 DEF FirstInv, FirstTyping
  <2>2. First!Pressed = {}
    BY <2>1 DEF First!Pressed
  <2>3. Adjusted(Midnight, {}) = Midnight
    BY DEF Adjusted, Midnight
  <2> QED BY <1>1, <2>1, <2>2, <2>3
<1> QED BY <1>1, <1>4, <1>5 DEF FirstInv, FirstTyping

LEMMA FirstCount == FirstInv /\ First!Count => FirstInv'
<1> SUFFICES ASSUME FirstInv, First!Count PROVE FirstInv'
  OBVIOUS
<1> USE DEF First!Count, First!CountSecond
<1>1. clock' \in Times
  BY SameTimes, AdvanceType DEF FirstInv, FirstTyping
<1>2. display' \in Displays
  BY <1>1, SameDisplay, UpdateIsLegible DEF FirstInv, FirstTyping, First!update_all
<1>3. timer' \in Timers({RESET_PERIOD, SECOND})
  BY SameTimer, TickingGoesOn DEF FirstInv, FirstTyping
<1>4. FirstTyping'
  BY <1>1, <1>2, <1>3 DEF FirstInv, FirstTyping, First!pins
<1>5. counting' = switch_state'
  BY DEF FirstInv, FirstTyping
<1> QED BY <1>4, <1>5 DEF FirstInv, FirstTyping

LEMMA FirstOthers ==
  FirstInv /\ (First!Read \/ First!CheckAlarm \/ (First!Outside /\ UNCHANGED switch_state)
               \/ UNCHANGED First!vars) => FirstInv'
<1> SUFFICES ASSUME FirstInv,
                    First!Read \/ First!CheckAlarm
                    \/ (First!Outside /\ UNCHANGED switch_state) \/ UNCHANGED First!vars
             PROVE  FirstInv'
  OBVIOUS
<1>1. /\ UNCHANGED <<clock, alarm, counting, prev_buttons_state, display, switch_state>>
      /\ buttons' \subseteq KEYS /\ switch' \in BOOLEAN /\ buttons_state' \subseteq KEYS
      /\ LEDS' \in {0, ALL_LEDS}
      /\ pc' = pc \/ (pc # "boot" /\ pc' \in {"poll", "act"})
  <2> USE DEF FirstInv, FirstTyping, First!pins, First!panelVars
  <2>1. CASE First!Read
    BY <2>1 DEF First!Read, First!ReadButtons
  <2>2. CASE First!CheckAlarm
    BY <2>2 DEF First!CheckAlarm, First!ALL_LEDS, ALL_LEDS
  <2>3. CASE First!Outside /\ UNCHANGED switch_state
    BY <2>3 DEF First!Outside, First!TimerExpires, First!SwitchFlips, First!KeyChanges
  <2>4. CASE UNCHANGED First!vars
    BY <2>4 DEF First!vars
  <2> QED BY <2>1, <2>2, <2>3, <2>4
<1>2. timer' \in Timers({RESET_PERIOD, SECOND})
  <2>1. timer' = timer \/ timer' = Expired(timer)
    BY SameTimer
       DEF First!Read, First!ReadButtons, First!CheckAlarm, First!Outside, First!TimerExpires,
           First!SwitchFlips, First!KeyChanges, First!vars
  <2> QED BY <2>1, TickingGoesOn DEF FirstInv, FirstTyping
<1>3. FirstTyping'
  BY <1>1, <1>2 DEF FirstInv, FirstTyping
<1>4. counting' # switch_state' => switch_state' /\ clock' = Midnight /\ alarm' = NoTime
  BY <1>1 DEF FirstInv, FirstTyping
<1> QED BY <1>1, <1>3, <1>4 DEF FirstInv, FirstTyping

LEMMA FirstInvHolds == First!Spec => []FirstInv
<1>1. First!Init => FirstInv
  BY FirstInit
<1>2. FirstInv /\ [First!Next]_(First!vars) => FirstInv'
  BY FirstStart, FirstAct, FirstCount, FirstOthers DEF First!Next, First!Firmware
<1> QED BY <1>1, <1>2, PTL DEF First!Spec

\* The first firmware keeps the types of its state.
THEOREM FirstKeepsTypes == First!Spec => []First!TypeOK
<1>1. FirstInv => First!TypeOK
  BY SameTimes, SameTimer
     DEF FirstInv, FirstTyping, First!TypeOK, First!PanelTypeOK, First!ALL_LEDS, ALL_LEDS
<1> QED BY <1>1, FirstInvHolds, PTL

\* The first firmware follows the edges of the switch.  It stands still with
\* the switch on from power-up to the first time the switch is seen off, with
\* no time and no alarm set, and never again.
THEOREM FirstIsNeverFrozen == First!Spec => []FrozenOnlyAtStart
<1>1. FirstInv => FrozenOnlyAtStart
  BY DEF FirstInv, FrozenOnlyAtStart
<1> QED BY <1>1, FirstInvHolds, PTL

\* Counting and the level of the switch are two variables of the first
\* firmware, and it is the switch that the comparison asks for.  They agree
\* whenever an alarm has been set: every alarm that counting reaches is lit.
THEOREM FirstArrivalsRing ==
  First!Spec => [][pc = "check" /\ counting /\ alarm = clock /\ pc' # pc =>
                       LEDS' = ALL_LEDS]_(First!vars)
<1>1. FirstInv /\ [First!Next]_(First!vars) =>
          [pc = "check" /\ counting /\ alarm = clock /\ pc' # pc => LEDS' = ALL_LEDS]_(First!vars)
  <2> SUFFICES ASSUME FirstInv, First!Next, pc = "check", counting, alarm = clock, pc' # pc
               PROVE  LEDS' = ALL_LEDS
    OBVIOUS
  <2>1. First!CheckAlarm
    BY DEF First!Next, First!Firmware, First!Start, First!Boot, First!Read, First!ReadButtons,
           First!Act, First!Count, First!CountSecond, First!Outside, First!TimerExpires,
           First!SwitchFlips, First!KeyChanges, First!panelVars
  <2>2. alarm # NoTime
    BY TimeOfDayAssumption DEF FirstInv, FirstTyping, Times, NoTime
  <2>3. switch_state
    BY <2>2 DEF FirstInv, FirstTyping
  <2> QED BY <2>1, <2>3 DEF First!CheckAlarm, First!Reached, First!ALL_LEDS, ALL_LEDS
<1> QED BY <1>1, FirstInvHolds, PTL DEF First!Spec

\* What its AlarmRings rests on, besides the fairness: set mode apart, every
\* second that is counted brings the clock one closer to the alarm.
THEOREM FirstAlarmComesCloser ==
  First!Spec => [][~(pc = "act" /\ ~switch) =>
                       /\ alarm' = alarm
                       /\ clock' = clock
                          \/ alarm \in {NoTime, clock}
                          \/ ToGo(clock', alarm) = ToGo(clock, alarm) - 1]_(First!vars)
<1> DEFINE Closer == /\ alarm' = alarm
                     /\ clock' = clock
                        \/ alarm \in {NoTime, clock}
                        \/ ToGo(clock', alarm) = ToGo(clock, alarm) - 1
<1>1. FirstInv /\ [First!Next]_(First!vars) => [~(pc = "act" /\ ~switch) => Closer]_(First!vars)
  <2> SUFFICES ASSUME FirstInv, First!Next, ~(pc = "act" /\ ~switch) PROVE Closer
    OBVIOUS
  <2>1. clock \in Times /\ alarm \in Times \cup {NoTime}
    BY DEF FirstInv, FirstTyping
  <2>2. CASE First!Act
    <3>1. First!Pressed = {} /\ clock' = Adjusted(clock, First!Pressed) /\ alarm' = alarm
      BY <2>2, SameTimes DEF First!Act, First!SetTime, First!Pressed
    <3>2. Adjusted(clock, {}) = clock
      BY <2>1 DEF Adjusted, Times
    <3> QED BY <3>1, <3>2
  <2>3. CASE First!Count
    <3>1. clock' = Advance(clock) /\ alarm' = alarm
      BY <2>3, SameTimes DEF First!Count, First!CountSecond
    <3> QED BY <2>1, <3>1, AdvanceApproaches
  <2>4. CASE ~(First!Act \/ First!Count)
    BY <2>4 DEF First!Next, First!Firmware, First!Start, First!Boot, First!Read,
                First!ReadButtons, First!CheckAlarm, First!Outside, First!TimerExpires,
                First!SwitchFlips, First!KeyChanges, First!panelVars
  <2> QED BY <2>2, <2>3, <2>4
<1> QED BY <1>1, FirstInvHolds, PTL DEF First!Spec
=============================================================================
