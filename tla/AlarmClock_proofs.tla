-------------------------- MODULE AlarmClock_proofs --------------------------
(***************************************************************************)
(* Proofs of the safety properties of the alarm clock, of those about its  *)
(* past (module AlarmClockHistory) and of the safety of the device it is   *)
(* for its owner, for every length of the alarm, every PWM frequency and   *)
(* every set of keys.                                                      *)
(***************************************************************************)
EXTENDS AlarmClockHistory, TimeOfDay_proofs

Turn == {"pwmPoll", "pwmRead", "pwmWait"}

\* The timer counts periods of p without end.
Ticking(p) == timer.mode = "running" /\ timer.continuous /\ timer.period = p

\* Where the alarm is on and where it is off; and, while the buzzer sounds,
\* enough PWM cycles left to reach the end of the alarm: the reason why the
\* loop of the buzzer never ends by its own condition.
Phases ==
    /\ segundos_alarma_activa < ALARM_SECONDS
    /\ buzzer_pwm_counter < buzzer_pwm_half_period
    /\ pc \in {"boot", "poll", "act", "wait", "check"} => ~alarma_activa
    /\ pc \in {"pwmStart", "pwmPoll", "pwmRead", "pwmWait"} => alarma_activa /\ LEDS = ALL_LEDS
    /\ pc \notin {"pwmStart", "pwmPoll", "pwmRead", "pwmWait"} => LEDS = 0 /\ BUZZER = 0
    /\ pc \in Turn => /\ buzzer_pwm_cycles > 0
                      /\ ALARM_SECONDS <= segundos_alarma_activa + buzzer_pwm_cycles

TimerPhases ==
    /\ pc \in {"poll", "act", "wait", "check", "pwmStart"} => Ticking(CLOCK_FREQUENCY)
    /\ pc \in Turn \cup {"pwmStop"} => Ticking(buzzer_pwm_half_period)

IInv == TypeOK /\ Phases /\ TimerPhases /\ DisplayShowsTime

-----------------------------------------------------------------------------
(* The constants. *)

Periods == {CLOCK_FREQUENCY - 1, CLOCK_FREQUENCY, buzzer_pwm_half_period}

\* The arithmetic of the constants, once and for all.
LEMMA Constants ==
  /\ ALARM_SECONDS \in 1 .. 255
  /\ buzzer_pwm_half_period \in Nat \ {0}
  /\ PWM_CYCLES \in Nat \ {0}
  /\ ALARM_SECONDS <= PWM_CYCLES
  /\ ALL_LEDS # 0
<1>1. \A a \in Nat, b \in Nat \ {0} : a \div b \in Nat
  OBVIOUS
<1>2. buzzer_pwm_half_period \in Nat \ {0}
  BY <1>1, AlarmClockAssumption DEF buzzer_pwm_half_period, PWM_PERIOD
<1>3. PWM_CYCLES \in Nat
  <2>1. 2 * buzzer_pwm_half_period \in Nat \ {0}
    BY <1>2
  <2> QED BY <1>1, <2>1, AlarmClockAssumption DEF PWM_CYCLES
<1> QED BY <1>2, <1>3, AlarmClockAssumption DEF ALL_LEDS

-----------------------------------------------------------------------------
(* The invariant holds initially. *)

LEMMA InitIInv == Init => IInv
<1> SUFFICES ASSUME Init PROVE IInv
  OBVIOUS
<1>1. TypeOK
  <2>1. clock \in Times
    BY TimeOfDayAssumption DEF Init, Times, Midnight
  <2>2. display \in Displays
    BY DEF Init, Displays, ResetDisplay, Ports
  <2>3. poll \in [buttons : SUBSET KEYS, switch : BOOLEAN, leds : {0, ALL_LEDS}]
    BY DEF Init, NoPoll
  <2>4. timer \in Timers(Periods)
    BY DEF Init, TimerInit, Timers, Periods
  <2>5. counting \in BOOLEAN /\ alarma_activa \in BOOLEAN
    BY DEF Init
  <2>6. /\ segundos_alarma_activa \in 0 .. 255
        /\ buzzer_pwm_counter \in 0 .. buzzer_pwm_half_period
        /\ buzzer_pwm_cycles \in 0 .. PWM_CYCLES
    BY Constants DEF Init
  <2> QED BY <2>1, <2>2, <2>3, <2>4, <2>5, <2>6 DEF Init, TypeOK, Periods
<1>2. Phases
  BY Constants DEF Init, Phases, Turn
<1> QED BY <1>1, <1>2 DEF Init, IInv, TimerPhases, Turn, DisplayShowsTime

-----------------------------------------------------------------------------
(* Every step keeps it. *)

LEMMA BootKeeps == IInv /\ Boot => IInv'
<1> SUFFICES ASSUME IInv, Boot PROVE IInv'
  OBVIOUS
<1>1. /\ timer' \in Timers(Periods) /\ Ticking(CLOCK_FREQUENCY)'
  BY ReprogrammedTicks DEF IInv, TypeOK, Boot, init_timer, Ticking, Periods
<1>2. display' \in Displays /\ TimeOn(display') = clock
  BY DisplayIsLegible DEF IInv, TypeOK, Boot
<1>3. TypeOK'
  BY <1>1, <1>2 DEF IInv, TypeOK, Boot, pins, alarmVars, buzzerVars, Periods
<1>4. Phases'
  BY DEF IInv, Phases, Boot, alarmVars, buzzerVars, Turn
<1>5. TimerPhases'
  BY <1>1 DEF TimerPhases, Boot, Turn
<1>6. DisplayShowsTime'
  BY <1>2 DEF DisplayShowsTime, Boot
<1> QED BY <1>3, <1>4, <1>5, <1>6 DEF IInv

\* The reads change only pc and poll.
LEMMA ReadsKeep == IInv /\ (ReadButtons \/ PwmReadButtons \/ PwmReadSwitch) => IInv'
<1> SUFFICES ASSUME IInv, ReadButtons \/ PwmReadButtons \/ PwmReadSwitch PROVE IInv'
  OBVIOUS
<1> USE DEF IInv, timeVars, modeVars, alarmVars, buzzerVars, pins
<1>1. CASE ReadButtons
  <2>1. TypeOK'
    BY <1>1 DEF TypeOK, ReadButtons
  <2>2. Phases' /\ TimerPhases' /\ DisplayShowsTime'
    BY <1>1 DEF Phases, TimerPhases, DisplayShowsTime, ReadButtons, Turn, Ticking
  <2> QED BY <2>1, <2>2
<1>2. CASE PwmReadButtons
  <2>1. TypeOK'
    BY <1>2 DEF TypeOK, PwmReadButtons
  <2>2. Phases' /\ TimerPhases' /\ DisplayShowsTime'
    BY <1>2 DEF Phases, TimerPhases, DisplayShowsTime, PwmReadButtons, Turn, Ticking
  <2> QED BY <2>1, <2>2
<1>3. CASE PwmReadSwitch
  <2>1. TypeOK'
    BY <1>3 DEF TypeOK, PwmReadSwitch
  <2>2. Phases' /\ TimerPhases' /\ DisplayShowsTime'
    BY <1>3 DEF Phases, TimerPhases, DisplayShowsTime, PwmReadSwitch, Turn, Ticking
  <2> QED BY <2>1, <2>2
<1> QED BY <1>1, <1>2, <1>3

LEMMA ActKeeps == IInv /\ Act => IInv'
<1> SUFFICES ASSUME IInv, Act PROVE IInv'
  OBVIOUS
<1>1. clock' \in Times /\ display' \in Displays /\ TimeOn(display') = clock'
  BY AdjustedType, AdjustIsLegible DEF IInv, TypeOK, DisplayShowsTime, Act, AdjustTime
<1>2. UNCHANGED <<alarma_activa, segundos_alarma_activa, LEDS>>
  <2>1. alarma_activa = FALSE /\ LEDS # ALL_LEDS
    BY Constants DEF IInv, TypeOK, Phases, Act
  <2>2. ~KeyQuietens(LEDS)
    BY <2>1 DEF KeyQuietens
  <2> QED BY <2>1, <2>2 DEF Act, AgeAlarm
<1>3. TypeOK'
  <2>1. alarm' \in Times \cup {NoTime}
    BY <1>1 DEF IInv, TypeOK, Act, AdjustTime
  <2>2. prev_buttons_state' \subseteq KEYS
    BY DEF IInv, TypeOK, Act, AdjustTime, RememberButtons
  <2>3. poll' \in [buttons : SUBSET KEYS, switch : BOOLEAN, leds : {0, ALL_LEDS}]
    BY DEF Act, NoPoll
  <2> QED BY <1>1, <1>2, <2>1, <2>2, <2>3 DEF IInv, TypeOK, Act, buzzerVars, pins
<1>4. Phases'
  BY <1>2 DEF IInv, Phases, Act, buzzerVars, Turn
<1>5. TimerPhases'
  BY DEF IInv, TimerPhases, Ticking, Act, Turn
<1> QED BY <1>1, <1>3, <1>4, <1>5 DEF IInv, DisplayShowsTime

LEMMA CountSecondKeeps == IInv /\ CountSecond => IInv'
<1> SUFFICES ASSUME IInv, CountSecond PROVE IInv'
  OBVIOUS
<1> USE DEF alarmVars, modeVars, buzzerVars, pins
<1>1. clock' \in Times /\ display' \in Displays /\ TimeOn(display') = clock'
  BY AdvanceType, DisplayIsLegible DEF IInv, TypeOK, CountSecond
<1>2. timer' \in Timers(Periods) /\ Ticking(CLOCK_FREQUENCY)'
  BY TickingGoesOn
     DEF IInv, TypeOK, TimerPhases, CountSecond, wait_for_timer, Ticking, Periods
<1>3. TypeOK'
  BY <1>1, <1>2 DEF IInv, TypeOK, CountSecond, Periods
<1>4. Phases'
  BY DEF IInv, Phases, CountSecond, Turn
<1>5. TimerPhases'
  BY <1>2 DEF TimerPhases, CountSecond, Turn
<1> QED BY <1>1, <1>3, <1>4, <1>5 DEF IInv, DisplayShowsTime

LEMMA CheckAlarmKeeps == IInv /\ CheckAlarm => IInv'
<1> SUFFICES ASSUME IInv, CheckAlarm PROVE IInv'
  OBVIOUS
<1> USE DEF IInv, CheckAlarm, timeVars, modeVars, buzzerVars, pins
<1>1. TypeOK'
  BY DEF TypeOK
<1>2. Phases'
  BY DEF Phases, TypeOK, Turn
<1>3. TimerPhases' /\ DisplayShowsTime'
  BY DEF TimerPhases, Ticking, DisplayShowsTime, Turn
<1> QED BY <1>1, <1>2, <1>3

LEMMA StartBuzzerKeeps == IInv /\ StartBuzzer => IInv'
<1> SUFFICES ASSUME IInv, StartBuzzer PROVE IInv'
  OBVIOUS
<1> USE DEF timeVars, modeVars, alarmVars, pins
<1>1. timer' \in Timers(Periods) /\ Ticking(buzzer_pwm_half_period)'
  BY ReprogrammedTicks DEF IInv, TypeOK, StartBuzzer, Ticking, Periods
<1>2. TypeOK'
  BY <1>1, Constants DEF IInv, TypeOK, StartBuzzer, Periods
<1>3. Phases'
  BY Constants DEF IInv, TypeOK, Phases, StartBuzzer, Turn
<1>4. TimerPhases'
  BY <1>1, Constants DEF TimerPhases, StartBuzzer, Turn
<1>5. DisplayShowsTime'
  BY DEF IInv, DisplayShowsTime, StartBuzzer
<1> QED BY <1>2, <1>3, <1>4, <1>5 DEF IInv

\* The one step that can break the phases: it may silence the alarm, and it
\* may leave the loop because no PWM cycle is left.
LEMMA PwmHalfPeriodKeeps == IInv /\ PwmHalfPeriod => IInv'
<1> SUFFICES ASSUME IInv, PwmHalfPeriod PROVE IInv'
  OBVIOUS
<1> DEFINE quiet == PwmTimeout \/ PwmDismissed
<1>1. /\ pc = "pwmWait"
      /\ alarma_activa = TRUE /\ LEDS = ALL_LEDS
      /\ segundos_alarma_activa \in 0 .. ALARM_SECONDS - 1
      /\ buzzer_pwm_counter \in 0 .. buzzer_pwm_half_period - 1
      /\ buzzer_pwm_cycles \in 1 .. PWM_CYCLES
      /\ ALARM_SECONDS <= segundos_alarma_activa + buzzer_pwm_cycles
  BY Constants DEF IInv, TypeOK, Phases, Turn, PwmHalfPeriod
<1>2. PwmAge \in 0 .. ALARM_SECONDS
      /\ PwmAge = IF PwmSecond THEN segundos_alarma_activa + 1 ELSE segundos_alarma_activa
  BY <1>1, Constants DEF PwmAge, Increment8
<1>3. segundos_alarma_activa' \in 0 .. ALARM_SECONDS - 1
  BY <1>2, Constants DEF PwmTimeout, PwmHalfPeriod
<1>4. buzzer_pwm_counter' \in 0 .. buzzer_pwm_half_period - 1
  BY <1>1, Constants DEF PwmHalfPeriod, PwmSecond
<1>5. /\ buzzer_pwm_cycles' \in 0 .. PWM_CYCLES
      /\ ~PwmTimeout => ALARM_SECONDS <= segundos_alarma_activa' + buzzer_pwm_cycles'
  BY <1>1, <1>2, Constants DEF PwmTimeout, PwmHalfPeriod
<1>a. PICK age \in 0 .. ALARM_SECONDS - 1, left \in 0 .. PWM_CYCLES :
          segundos_alarma_activa' = age /\ buzzer_pwm_cycles' = left
  BY <1>3, <1>5
<1>6. \* The cycles run out no earlier than the alarm.
      ~PwmTimeout => left > 0 /\ ALARM_SECONDS <= age + left
  BY <1>5, <1>a, Constants
<1>7. /\ quiet => pc' = "pwmStop" /\ LEDS' = 0 /\ BUZZER' = 0
      /\ ~quiet => pc' = "pwmPoll" /\ LEDS' = LEDS /\ BUZZER' \in {0, 1}
  <2>1. buzzer_state \in {0, 1}
    BY DEF IInv, TypeOK
  <2>2. CASE quiet
    BY <2>2 DEF PwmHalfPeriod, BuzzerLevel
  <2>3. CASE ~quiet
    <3>1. buzzer_pwm_cycles' # 0
      BY <1>6, <1>a, <2>3
    <3> QED BY <2>1, <2>3, <3>1 DEF PwmHalfPeriod, BuzzerLevel
  <2> QED BY <2>2, <2>3
<1>8. /\ clock' \in Times /\ display' \in Displays
      /\ TimeOn(display') = clock'
  <2>1. clock \in Times /\ display \in Displays /\ TimeOn(display) = clock
    BY <1>1 DEF IInv, TypeOK, DisplayShowsTime
  <2>2. CASE PwmSecond
    BY <2>1, <2>2, AdvanceType, DisplayIsLegible DEF PwmHalfPeriod
  <2>3. CASE ~PwmSecond
    BY <2>1, <2>3 DEF PwmHalfPeriod
  <2> QED BY <2>2, <2>3
<1>9. timer' \in Timers(Periods) /\ Ticking(buzzer_pwm_half_period)'
  BY <1>1, TickingGoesOn
     DEF IInv, TypeOK, TimerPhases, Turn, PwmHalfPeriod, wait_for_timer, Ticking, Periods
<1>10. buzzer_state' \in {0, 1} /\ poll' = NoPoll
      /\ UNCHANGED <<alarm, counting, prev_buttons_state, alarma_activa, buttons, switch>>
  BY DEF IInv, TypeOK, PwmHalfPeriod, modeVars, pins
<1> HIDE DEF quiet
<1>11. TypeOK'
  <2>1. NoPoll \in [buttons : SUBSET KEYS, switch : BOOLEAN, leds : {0, ALL_LEDS}]
    BY DEF NoPoll
  <2>2. segundos_alarma_activa' \in 0 .. 255
        /\ buzzer_pwm_counter' \in 0 .. buzzer_pwm_half_period
    BY <1>3, <1>4, Constants
  <2>3. pc' \in {"pwmPoll", "pwmStop"} /\ LEDS' \in {0, ALL_LEDS} /\ BUZZER' \in {0, 1}
    BY <1>1, <1>7
  <2> QED BY <1>5, <1>8, <1>9, <1>10, <2>1, <2>2, <2>3 DEF IInv, TypeOK, Periods
<1>12. Phases'
  <2>1. CASE quiet
    BY <1>3, <1>4, <1>7, <2>1, Constants DEF Phases, Turn
  <2>2. CASE ~quiet
    <3>1. /\ pc' = "pwmPoll"
          /\ segundos_alarma_activa' < ALARM_SECONDS
          /\ buzzer_pwm_counter' < buzzer_pwm_half_period
          /\ alarma_activa' = TRUE /\ LEDS' = ALL_LEDS
      BY <1>1, <1>3, <1>4, <1>7, <1>10, <2>2, Constants
    <3>2. /\ buzzer_pwm_cycles' > 0
          /\ ALARM_SECONDS <= segundos_alarma_activa' + buzzer_pwm_cycles'
      BY <1>6, <1>a, <2>2, Constants DEF quiet
    <3> QED BY <3>1, <3>2 DEF Phases, Turn
  <2> QED BY <2>1, <2>2
<1>13. TimerPhases'
  BY <1>7, <1>9 DEF TimerPhases, Turn
<1> QED BY <1>8, <1>11, <1>12, <1>13 DEF IInv, DisplayShowsTime

\* The timer is handed back: what StopBuzzer leaves in it does not matter.
LEMMA HandBackKeeps == IInv /\ (StopBuzzer \/ Restore) => IInv'
<1> SUFFICES ASSUME IInv, StopBuzzer \/ Restore PROVE IInv'
  OBVIOUS
<1> USE DEF timeVars, modeVars, alarmVars, buzzerVars, pins
<1>1. CASE StopBuzzer
  <2>1. timer' \in Timers(Periods)
    BY <1>1, ControlType DEF IInv, TypeOK, StopBuzzer, Periods
  <2>2. TypeOK'
    BY <1>1, <2>1 DEF IInv, TypeOK, StopBuzzer, Periods
  <2>3. Phases' /\ TimerPhases' /\ DisplayShowsTime'
    BY <1>1 DEF IInv, Phases, TimerPhases, DisplayShowsTime, StopBuzzer, Turn
  <2> QED BY <2>2, <2>3 DEF IInv
<1>2. CASE Restore
  <2>1. timer' \in Timers(Periods) /\ Ticking(CLOCK_FREQUENCY)'
    BY <1>2, ReprogrammedTicks DEF IInv, TypeOK, Restore, init_timer, Ticking, Periods
  <2>2. TypeOK'
    BY <1>2, <2>1 DEF IInv, TypeOK, Restore, Periods
  <2>3. Phases'
    BY <1>2 DEF IInv, Phases, Restore, Turn
  <2>4. TimerPhases' /\ DisplayShowsTime'
    BY <1>2, <2>1 DEF IInv, TimerPhases, DisplayShowsTime, Restore, Turn
  <2> QED BY <2>2, <2>3, <2>4 DEF IInv
<1> QED BY <1>1, <1>2

LEMMA TimerExpiresKeeps == IInv /\ TimerExpires => IInv'
<1> SUFFICES ASSUME IInv, TimerExpires PROVE IInv'
  OBVIOUS
<1> USE DEF firmware, timeVars, modeVars, alarmVars, buzzerVars, pins
<1>1. timer' \in Timers(Periods) /\ \A p : Ticking(p) => Ticking(p)'
  BY TickingGoesOn DEF IInv, TypeOK, TimerExpires, Ticking, Periods
<1>2. TypeOK'
  BY <1>1 DEF IInv, TypeOK, TimerExpires, Periods
<1>3. Phases' /\ DisplayShowsTime'
  BY DEF IInv, Phases, DisplayShowsTime, TimerExpires, Turn
<1>4. TimerPhases'
  BY <1>1 DEF IInv, TimerPhases, TimerExpires
<1> QED BY <1>2, <1>3, <1>4 DEF IInv

LEMMA PersonKeeps == IInv /\ Person => IInv'
<1> SUFFICES ASSUME IInv, Person PROVE IInv'
  OBVIOUS
<1>1. UNCHANGED <<firmware, timer>> /\ buttons' \subseteq KEYS /\ switch' \in BOOLEAN
  <2>1. CASE SwitchFlips
    BY <2>1 DEF IInv, TypeOK, SwitchFlips
  <2>2. ASSUME NEW key \in KEYS, KeyChanges(key)
        PROVE  UNCHANGED <<firmware, timer>> /\ buttons' \subseteq KEYS /\ switch' \in BOOLEAN
    BY <2>2 DEF IInv, TypeOK, KeyChanges
  <2> QED BY <2>1, <2>2 DEF Person
<1> USE DEF firmware, timeVars, modeVars, alarmVars, buzzerVars
<1>2. TypeOK'
  BY <1>1 DEF IInv, TypeOK
<1>3. Phases' /\ DisplayShowsTime' /\ TimerPhases'
  BY <1>1 DEF IInv, Phases, DisplayShowsTime, TimerPhases, Ticking, Turn
<1> QED BY <1>2, <1>3 DEF IInv

LEMMA StutterKeeps == IInv /\ UNCHANGED vars => IInv'
  BY DEF IInv, TypeOK, Phases, DisplayShowsTime, TimerPhases, Ticking, Turn,
         vars, firmware, timeVars, modeVars, alarmVars, buzzerVars, pins

\* The inductive invariant holds in every reachable state.
THEOREM InductiveInvariant == Spec => []IInv
<1>1. Init => IInv
  BY InitIInv
<1>2. IInv /\ [Next]_vars => IInv'
  BY BootKeeps, ReadsKeep, ActKeeps, CountSecondKeeps, CheckAlarmKeeps, StartBuzzerKeeps,
     PwmHalfPeriodKeeps, HandBackKeeps, TimerExpiresKeeps, PersonKeeps, StutterKeeps
     DEF Next, Firmware, Main, Buzzer
<1> QED BY <1>1, <1>2, PTL DEF Spec

-----------------------------------------------------------------------------
(* What it shows. *)

\* Every variable keeps its type; no uint8_t wraps and no unsigned counter
\* runs below 0.
THEOREM TypeCorrect == Spec => []TypeOK
<1>1. IInv => TypeOK
  BY DEF IInv
<1> QED BY <1>1, InductiveInvariant, PTL

\* The alarm is over whenever the loop is at its head, however it ended.
THEOREM RestIsSilent == Spec => []SilentAtRest
<1>1. IInv => SilentAtRest
  BY DEF IInv, Phases, SilentAtRest
<1> QED BY <1>1, InductiveInvariant, PTL

\* The six displays can be read and show the clock.
THEOREM DisplayIsRight == Spec => []DisplayShowsTime
<1>1. IInv => DisplayShowsTime
  BY DEF IInv
<1> QED BY <1>1, InductiveInvariant, PTL

\* Every busy wait is on a running timer with the period that is waited for.
THEOREM WaitsAreSafe == Spec => []WaitsOnItsTimer
<1>1. IInv => WaitsOnItsTimer
  BY DEF IInv, TimerPhases, Ticking, Turn, WaitsOnItsTimer
<1> QED BY <1>1, InductiveInvariant, PTL

\* There is no sound without light.
THEOREM SoundIsLit == Spec => []SoundWithLight
<1>1. IInv => SoundWithLight
  BY DEF IInv, Phases, SoundWithLight
<1> QED BY <1>1, InductiveInvariant, PTL

\* Outside set mode the clock moves one second forward or not at all.
THEOREM ClockCountsForward == Spec => CountsForward
<1> DEFINE Forward == SecondOfDay(clock') = (SecondOfDay(clock) + 1) % SecondsInDay
           Setting == ~switch /\ pc = "act"
<1>1. IInv /\ [Next]_vars => [clock' # clock => Forward \/ Setting]_vars
  <2> SUFFICES ASSUME IInv, Next, clock' # clock PROVE Forward \/ Setting
    OBVIOUS
  <2>1. clock \in Times
    BY DEF IInv, TypeOK
  <2>2. CASE clock' = Advance(clock)
    BY <2>1, <2>2, AdvanceIsSuccessor
  <2>3. CASE Act
    <3>1. pc = "act" /\ (switch => Pressed = {}) /\ clock' = Adjusted(clock, Pressed)
      BY <2>3 DEF Act, AdjustTime, Pressed
    <3>2. Adjusted(clock, {}) = clock
      BY <2>1 DEF Adjusted, Times
    <3> QED BY <3>1, <3>2
  <2>4. CASE CountSecond \/ PwmHalfPeriod
    BY <2>2, <2>4 DEF CountSecond, PwmHalfPeriod
  <2>5. ASSUME ~(Act \/ CountSecond \/ PwmHalfPeriod) PROVE FALSE
    BY <2>5 DEF Next, Firmware, Main, Buzzer, Person, Boot, ReadButtons, CheckAlarm, Restore,
                StartBuzzer, PwmReadButtons, PwmReadSwitch, StopBuzzer, TimerExpires,
                SwitchFlips, KeyChanges, firmware, timeVars
  <2> QED BY <2>3, <2>4, <2>5
<1> QED BY <1>1, InductiveInvariant, PTL DEF Spec, CountsForward

-----------------------------------------------------------------------------
(* What has happened.  The history restrains nothing, so that the invariant *)
(* holds with it as well.                                                   *)

LEMMA HistoryIsASpec == HistorySpec => Spec
<1>1. HistoryInit => Init
  BY DEF HistoryInit
<1>2. [HistoryNext]_historyVars => [Next]_vars
  BY DEF HistoryNext, historyVars
<1> QED BY <1>1, <1>2, PTL DEF HistorySpec, Spec

-----------------------------------------------------------------------------
(* One press, one step. *)

\* A key that is 1 without being remembered has risen since it last stepped
\* something; so has one that was 1 at the head of this turn, and one that has
\* come up since.
Rising ==
    /\ pc # "boot" => buttons \ prev_buttons_state \subseteq rose
    /\ pc = "act" => /\ poll.buttons \ prev_buttons_state \subseteq rose
                     /\ buttons \ poll.buttons \subseteq rose

\* What a step that is none of the three does to the keys.
LEMMA KeysElsewhere ==
  ASSUME Next, ~Boot, ~ReadButtons, ~Act
  PROVE  /\ prev_buttons_state' = prev_buttons_state
         /\ pc' = "act" \/ pc = "act" => pc' = pc /\ poll' = poll
         /\ pc' = "boot" \/ pc = "boot" => pc' = pc
  BY DEF Next, Firmware, Main, Buzzer, Boot, ReadButtons, Act, CountSecond, CheckAlarm, Restore,
         StartBuzzer, PwmReadButtons, PwmReadSwitch, PwmHalfPeriod, StopBuzzer, TimerExpires,
         Person, SwitchFlips, KeyChanges, firmware, modeVars

LEMMA RisingStep == IInv /\ Rising /\ [HistoryNext]_historyVars => Rising'
<1> SUFFICES ASSUME IInv, Rising, [HistoryNext]_historyVars PROVE Rising'
  OBVIOUS
<1>1. CASE UNCHANGED historyVars
  BY <1>1 DEF Rising, historyVars, vars, firmware, modeVars, pins
<1>2. CASE HistoryNext
  <2>0. Next /\ Record
    BY <1>2 DEF HistoryNext
  <2>1. CASE Boot
    BY <2>1 DEF Boot, Rising, pins
  <2>2. CASE ReadButtons
    <3>1. poll'.buttons = buttons
      BY <2>2 DEF ReadButtons, IInv, TypeOK
    <3>2. rose' = rose \cup (buttons' \ buttons) /\ buttons' = buttons
      BY <2>0, <2>2 DEF Record, ReadButtons, pins
    <3> QED BY <2>2, <3>1, <3>2 DEF ReadButtons, Rising, modeVars
  <2>3. CASE Act
    <3>1. /\ rose' = rose \ Pressed /\ buttons' = buttons
          /\ pc = "act" /\ pc' \in {"wait", "check"}
          /\ prev_buttons_state' = IF switch THEN prev_buttons_state ELSE poll.buttons
          /\ Pressed = IF switch THEN {} ELSE poll.buttons \ prev_buttons_state
      BY <2>0, <2>3 DEF Record, Act, AdjustTime, RememberButtons, Pressed, pins
    <3>2. buttons' \ prev_buttons_state' \subseteq rose'
      BY <3>1 DEF Rising
    <3> QED BY <3>1, <3>2 DEF Rising
  <2>4. CASE ~Boot /\ ~ReadButtons /\ ~Act
    <3>1. /\ prev_buttons_state' = prev_buttons_state
          /\ pc' = "act" \/ pc = "act" => pc' = pc /\ poll' = poll
          /\ pc' = "boot" \/ pc = "boot" => pc' = pc
      BY <2>0, <2>4, KeysElsewhere
    <3>2. rose' = rose \cup (buttons' \ buttons)
      BY <2>0, <3>1 DEF Record
    <3> QED BY <3>1, <3>2 DEF Rising
  <2> QED BY <2>1, <2>2, <2>3, <2>4
<1> QED BY <1>1, <1>2

\* A press steps its field at most once: every key that takes effect has gone
\* from 0 to 1 since it last did, however the switch moves between.
THEOREM PressStepsOnce == HistorySpec => OnePressOneStep
<1>1. HistoryInit => Rising
  BY DEF HistoryInit, Init, Rising
<1>2. HistorySpec => []IInv
  BY HistoryIsASpec, InductiveInvariant, PTL
<1>3. Rising /\ [HistoryNext]_historyVars =>
          [pc = "act" /\ pc' # "act" => Pressed \subseteq rose]_historyVars
  BY DEF Rising, Pressed
<1> QED BY <1>1, <1>2, <1>3, RisingStep, PTL DEF HistorySpec, OnePressOneStep

-----------------------------------------------------------------------------
(* A dismissal takes effect. *)

\* After one half period with the keys away, the samples of the next are of
\* keys that are away, with the switch at counting.
Answering ==
    /\ held \in {0, 1}
    /\ held = 1 => Dismissing
    /\ held = 1 /\ pc = "pwmRead" => poll.buttons # prev_buttons_state
    /\ held = 1 /\ pc = "pwmWait" => PwmDismissed

\* The steps of the firmware outside the loop of the buzzer.
LEMMA OutsideTheBuzzer ==
  ASSUME Main \/ StartBuzzer \/ StopBuzzer
  PROVE  pc \notin Turn \/ pc' \notin Turn
  BY DEF Main, Boot, ReadButtons, Act, CountSecond, CheckAlarm, Restore, StartBuzzer, StopBuzzer,
         Turn

LEMMA AnsweringStep == IInv /\ Answering /\ [HistoryNext]_historyVars => Answering'
<1> SUFFICES ASSUME IInv, Answering, [HistoryNext]_historyVars PROVE Answering'
  OBVIOUS
<1>1. CASE UNCHANGED historyVars
  BY <1>1 DEF Answering, Dismissing, PwmDismissed, historyVars, vars, firmware, modeVars, pins
<1>2. CASE HistoryNext
  <2>0. Next /\ Record
    BY <1>2 DEF HistoryNext
  <2>1. CASE ~Dismissing \/ ~Dismissing'
    <3>1. held' = 0
      BY <2>0, <2>1 DEF Record
    <3> QED BY <3>1 DEF Answering
  <2>2. CASE Dismissing /\ Dismissing'
    <3>1. /\ pc \in Turn /\ pc' \in Turn /\ switch /\ switch'
          /\ buttons # prev_buttons_state /\ buttons' # prev_buttons_state'
          /\ held' = IF pc = "pwmWait" /\ pc' # pc THEN held + 1 ELSE held
      BY <2>0, <2>2 DEF Record, Dismissing, Turn
    <3>2. CASE PwmReadButtons
      BY <2>2, <3>1, <3>2
         DEF Answering, PwmReadButtons, modeVars, pins, IInv, TypeOK
    <3>3. CASE PwmReadSwitch
      <4>1. /\ poll'.buttons = poll.buttons /\ poll'.switch = switch /\ poll'.leds = LEDS
            /\ LEDS = ALL_LEDS
        BY <3>3 DEF PwmReadSwitch, IInv, TypeOK, Phases
      <4> QED BY <2>2, <3>1, <3>3, <4>1
              DEF Answering, PwmReadSwitch, PwmDismissed, modeVars, pins
    <3>4. CASE PwmHalfPeriod
      <4>1. pc = "pwmWait" /\ ~PwmDismissed /\ pc' = "pwmPoll"
        BY <3>1, <3>4 DEF PwmHalfPeriod, Turn
      <4>2. held = 0 /\ held' = 1
        BY <3>1, <4>1 DEF Answering
      <4> QED BY <2>2, <4>1, <4>2 DEF Answering
    <3>5. CASE TimerExpires \/ Person
      <4>1. UNCHANGED <<pc, poll, prev_buttons_state>>
        BY <3>5 DEF TimerExpires, Person, SwitchFlips, KeyChanges, firmware, modeVars
      <4> QED BY <2>2, <3>1, <4>1 DEF Answering, PwmDismissed
    <3> QED BY <2>0, <3>1, <3>2, <3>3, <3>4, <3>5, OutsideTheBuzzer DEF Next, Firmware, Buzzer
  <2> QED BY <2>1, <2>2
<1> QED BY <1>1, <1>2

\* A key that is held away from its remembered level ends the alarm within the
\* second half period, for every length of a half period and of the alarm.
THEOREM DismissalIsPrompt == HistorySpec => []DismissedPromptly
<1>1. HistoryInit => Answering
  BY DEF HistoryInit, Answering
<1>2. Answering => DismissedPromptly
  BY DEF Answering, DismissedPromptly
<1>3. HistorySpec => []IInv
  BY HistoryIsASpec, InductiveInvariant, PTL
<1> QED BY <1>1, <1>2, <1>3, AnsweringStep, PTL DEF HistorySpec

-----------------------------------------------------------------------------
(* The firmware implements the device its owner sees. *)

\* The alarm has rung no longer than its age, which the program itself bounds;
\* and the second that is waited for will be compared with the alarm.
RingAge ==
    /\ rung \in Nat
    /\ ~Ringing => rung = 0
    /\ rung <= segundos_alarma_activa
    /\ pc = "wait" => counting

LEMMA SameTime ==
  /\ \A t : Device!Advance(t) = Advance(t)
  /\ \A t, F : Device!Adjusted(t, F) = Adjusted(t, F)
  /\ Device!Midnight = Midnight /\ Device!NoTime = NoTime
  BY DEF Device!Advance, Advance, Device!Adjusted, Adjusted, Device!Midnight, Midnight,
         Device!NoTime, NoTime

\* The steps of the device, in terms of what the firmware shows of it.
LEMMA TimeIsSet ==
  ASSUME NEW keys \in SUBSET {"segundos", "minutos", "horas", "alarma"},
         ~Ringing, ~Ringing', clock' = Adjusted(clock, keys),
         alarm' = IF "alarma" \in keys THEN clock' ELSE alarm, rung' = rung
  PROVE  Device!Next
<1> DEFINE fields == keys \cap {"horas", "minutos", "segundos"}
<1>1. Adjusted(clock, keys) = Device!Adjusted(clock, fields)
  BY SameTime DEF Adjusted
<1>2. Device!SetTime(fields, "alarma" \in keys)
  <2>1. Ringing' = Ringing
    BY DEF Ringing
  <2> QED BY <1>1, <2>1 DEF Device!SetTime
<1>3. fields \in SUBSET {"horas", "minutos", "segundos"} /\ ("alarma" \in keys) \in BOOLEAN
  OBVIOUS
<1> QED BY <1>2, <1>3 DEF Device!Next

LEMMA SecondPasses ==
  ASSUME ~Ringing, clock' = Advance(clock), Ringing' <=> clock' = alarm,
         UNCHANGED <<alarm, rung>>
  PROVE  Device!Next
<1>1. Ringing' = (clock' = alarm)
  BY DEF Ringing
<1> QED BY <1>1, SameTime DEF Device!Second, Device!Next

LEMMA RingsOn ==
  ASSUME Ringing, Ringing', rung \in Nat, rung + 1 < ALARM_SECONDS, clock' = Advance(clock),
         rung' = rung + 1, alarm' = alarm
  PROVE  Device!Next
<1>1. Ringing' = Ringing
  BY DEF Ringing
<1> QED BY <1>1, SameTime DEF Device!RingOn, Device!Next

LEMMA Stops ==
  ASSUME Ringing, ~Ringing', clock' = clock \/ clock' = Advance(clock), rung' = 0, alarm' = alarm
  PROVE  Device!Next
<1>1. Ringing' = FALSE
  BY DEF Ringing
<1> QED BY <1>1, SameTime DEF Device!Stop, Device!Next

\* A step the device does not see.
LEMMA NotSeen ==
  ASSUME RingAge, RingAge', Record, UNCHANGED <<clock, alarm>>, Ringing' <=> Ringing
  PROVE  UNCHANGED Device!deviceVars
<1>1. Ringing' = Ringing
  BY DEF Ringing
<1>2. rung' = rung
  BY DEF Record, RingAge
<1> QED BY <1>1, <1>2 DEF Device!deviceVars

\* Only a half period moves the age or, within a ring, the time.
LEMMA RingAgeElsewhere ==
  ASSUME IInv, RingAge, Record, segundos_alarma_activa' = segundos_alarma_activa,
         Ringing => clock' = clock,
         pc' = "wait" => counting'
  PROVE  RingAge'
<1>1. rung' \in {0, rung} /\ (~Ringing' => rung' = 0)
  BY DEF Record, RingAge
<1>2. rung \in Nat /\ rung <= segundos_alarma_activa /\ segundos_alarma_activa \in Nat
  BY DEF RingAge, IInv, TypeOK
<1> QED BY <1>1, <1>2 DEF RingAge

\* The age that does not move in Act: the alarm is over at the head of the loop.
LEMMA ActIsSetting ==
  ASSUME IInv, Act
  PROVE  /\ segundos_alarma_activa' = segundos_alarma_activa
         /\ ~Ringing /\ ~Ringing'
<1>1. alarma_activa = FALSE /\ LEDS = 0 /\ ALL_LEDS # 0
  BY Constants DEF IInv, TypeOK, Phases, Act
<1>2. LEDS' = 0 /\ segundos_alarma_activa' = segundos_alarma_activa
  BY <1>1 DEF Act, AgeAlarm, KeyQuietens
<1>3. pc' = "check" => ~counting'
  BY DEF Act
<1> QED BY <1>1, <1>2, <1>3 DEF Act, Ringing

LEMMA HalfPeriodSeen ==
  ASSUME IInv, IInv', RingAge, Record, PwmHalfPeriod
  PROVE  RingAge' /\ (Device!Next \/ UNCHANGED Device!deviceVars)
<1>1. /\ pc = "pwmWait" /\ LEDS = ALL_LEDS /\ pc' \in {"pwmPoll", "pwmStop"}
      /\ Ringing /\ alarm' = alarm
  BY DEF PwmHalfPeriod, IInv, Phases, Ringing
<1>2. clock' = clock \/ (PwmSecond /\ clock' = Advance(clock))
  BY DEF PwmHalfPeriod
<1> PICK age \in 0 .. ALARM_SECONDS - 1, r \in Nat :
         age = segundos_alarma_activa /\ r = rung /\ r <= age
  BY Constants DEF IInv, TypeOK, Phases, RingAge
<1> PICK s \in 0 .. ALARM_SECONDS - 1 : s = segundos_alarma_activa'
  BY Constants DEF IInv, TypeOK, Phases
<1>3. CASE PwmTimeout \/ PwmDismissed
  <2>1. LEDS' = 0 /\ ~Ringing'
    BY <1>1, <1>3, Constants DEF PwmHalfPeriod, Ringing
  <2>2. rung' = 0
    BY <2>1 DEF Record
  <2>3. RingAge'
    BY <1>1, <2>2 DEF RingAge
  <2> QED BY <1>1, <1>2, <2>1, <2>2, <2>3, Stops
<1>4. CASE ~(PwmTimeout \/ PwmDismissed)
  <2>1. LEDS' = ALL_LEDS /\ Ringing'
    BY <1>1, <1>4 DEF PwmHalfPeriod, Ringing
  <2>2. rung' = IF clock' # clock THEN rung + 1 ELSE rung
    BY <1>1, <2>1 DEF Record
  <2>3. s = IF PwmSecond THEN age + 1 ELSE age
    BY <1>4, Constants DEF PwmHalfPeriod, PwmAge, Increment8
  <2>4. CASE clock' # clock
    <3>1. clock' = Advance(clock) /\ s = age + 1 /\ rung' = r + 1
      BY <1>2, <2>2, <2>3, <2>4
    <3>2. RingAge'
      BY <1>1, <2>1, <3>1 DEF RingAge
    <3>3. r + 1 < ALARM_SECONDS
      BY <3>1, Constants
    <3> QED BY <1>1, <2>1, <3>1, <3>2, <3>3, RingsOn
  <2>5. CASE clock' = clock
    <3>1. rung' = r /\ r <= s
      BY <2>2, <2>3, <2>5
    <3>2. RingAge'
      BY <1>1, <2>1, <3>1 DEF RingAge
    <3> QED BY <1>1, <2>1, <2>5, <3>2, NotSeen
  <2> QED BY <2>4, <2>5
<1> QED BY <1>3, <1>4

LEMMA StepSeen ==
  ASSUME IInv, IInv', RingAge, HistoryNext
  PROVE  RingAge' /\ (Device!Next \/ UNCHANGED Device!deviceVars)
<1>0. Next /\ Record /\ ALL_LEDS # 0
  BY Constants DEF HistoryNext
<1>1. CASE Act
  <2>1. /\ segundos_alarma_activa' = segundos_alarma_activa /\ ~Ringing /\ ~Ringing'
        /\ pc' = "wait" => counting'
    BY <1>1, ActIsSetting DEF Act
  <2>2. RingAge'
    BY <1>0, <2>1, RingAgeElsewhere
  <2>3. rung' = rung
    BY <1>0, <2>1 DEF Record, RingAge
  <2>4. Pressed \in SUBSET {"segundos", "minutos", "horas", "alarma"}
    BY AlarmClockAssumption DEF Pressed, IInv, TypeOK
  <2> QED BY <1>1, <2>1, <2>2, <2>3, <2>4, TimeIsSet DEF Act, AdjustTime
<1>2. CASE CountSecond
  <2>1. /\ pc = "wait" /\ pc' = "check" /\ LEDS = 0 /\ LEDS' = LEDS
        /\ clock' = Advance(clock) /\ alarm' = alarm /\ counting' = counting /\ counting
        /\ segundos_alarma_activa' = segundos_alarma_activa
    BY <1>2 DEF CountSecond, alarmVars, modeVars, IInv, Phases, RingAge
  <2>2. ~Ringing /\ (Ringing' <=> clock' = alarm)
    BY <1>0, <2>1 DEF Ringing
  <2>3. RingAge'
    BY <1>0, <2>1, <2>2, RingAgeElsewhere
  <2>4. rung' = rung
    BY <1>0, <2>2 DEF Record, RingAge
  <2> QED BY <2>1, <2>2, <2>3, <2>4, SecondPasses
<1>3. CASE CheckAlarm
  <2>1. /\ UNCHANGED <<clock, alarm, segundos_alarma_activa>> /\ pc' # "wait"
        /\ Ringing' <=> Ringing
    BY <1>0, <1>3 DEF CheckAlarm, AlarmReached, timeVars, IInv, Phases, TypeOK, Ringing
  <2> QED BY <1>0, <2>1, RingAgeElsewhere, NotSeen
<1>4. CASE PwmHalfPeriod
  BY <1>0, <1>4, HalfPeriodSeen
<1>5. CASE ~Act /\ ~CountSecond /\ ~CheckAlarm /\ ~PwmHalfPeriod
  <2>1. /\ UNCHANGED <<clock, alarm, counting, segundos_alarma_activa, LEDS>>
        /\ pc' = pc \/ (pc # "check" /\ pc' \notin {"wait", "check"})
    BY <1>0, <1>5
       DEF Next, Firmware, Main, Buzzer, Boot, ReadButtons, Restore, StartBuzzer,
           PwmReadButtons, PwmReadSwitch, StopBuzzer, TimerExpires, Person, SwitchFlips,
           KeyChanges, firmware, timeVars, modeVars, alarmVars
  <2>2. Ringing' <=> Ringing
    BY <2>1 DEF Ringing
  <2>3. pc' = "wait" => counting'
    BY <2>1 DEF RingAge
  <2> QED BY <1>0, <2>1, <2>2, <2>3, RingAgeElsewhere, NotSeen
<1> QED BY <1>1, <1>2, <1>3, <1>4, <1>5

LEMMA DeviceInit == HistoryInit => RingAge /\ Device!Init
<1> SUFFICES ASSUME HistoryInit PROVE RingAge /\ Device!Init
  OBVIOUS
<1>1. /\ pc = "boot" /\ LEDS = 0 /\ clock = Midnight /\ alarm = NoTime /\ rung = 0
      /\ segundos_alarma_activa = 0
  BY DEF HistoryInit, Init
<1>2. Ringing = FALSE
  BY <1>1, Constants DEF Ringing
<1> QED BY <1>1, <1>2, SameTime DEF RingAge, Device!Init

\* Every step of the firmware is a step of the device or nothing to it: the
\* alarm starts only in the second in which counting reaches it, goes on for no
\* more than ALARM_SECONDS and never while the time is being set.  (That it always
\* stops is the fairness of the device, and not part of this.)
THEOREM DeviceIsSafe ==
  HistorySpec => Device!Init /\ [][Device!Next]_(Device!deviceVars)
<1>1. HistorySpec => []IInv
  BY HistoryIsASpec, InductiveInvariant, PTL
<1>2. IInv /\ IInv' /\ RingAge /\ [HistoryNext]_historyVars =>
          RingAge' /\ [Device!Next]_(Device!deviceVars)
  <2>1. (UNCHANGED historyVars) /\ RingAge => RingAge' /\ UNCHANGED Device!deviceVars
    BY DEF RingAge, Ringing, historyVars, vars, firmware, timeVars, modeVars, alarmVars,
           Device!deviceVars
  <2> QED BY <2>1, StepSeen
<1> QED BY <1>1, <1>2, DeviceInit, PTL DEF HistorySpec

-----------------------------------------------------------------------------
(* How far it is: with the fairness of the specification, what the liveness *)
(* of the firmware rests on.                                                *)

\* The alarm never rings for longer than its seconds, however it was reached,
\* whatever age a dismissed alarm has left behind.
THEOREM RingsNoLonger == HistorySpec => [](rung < ALARM_SECONDS)
<1>1. HistorySpec => []IInv
  BY HistoryIsASpec, InductiveInvariant, PTL
<1>2. IInv /\ IInv' /\ RingAge /\ [HistoryNext]_historyVars => RingAge'
  <2>1. (UNCHANGED historyVars) /\ RingAge => RingAge'
    BY DEF RingAge, Ringing, historyVars, vars, firmware, timeVars, modeVars, alarmVars
  <2> QED BY <2>1, StepSeen
<1>3. IInv /\ RingAge => rung < ALARM_SECONDS
  BY Constants DEF IInv, TypeOK, Phases, RingAge
<1> QED BY <1>1, <1>2, <1>3, DeviceInit, PTL DEF HistorySpec

\* Half periods of the buzzer until the age of the alarm reaches its limit.
HalfPeriodsLeft ==
    (ALARM_SECONDS - segundos_alarma_activa) * buzzer_pwm_half_period - buzzer_pwm_counter

\* The steps of main() at the most until it is back at the head of its loop: three
\* in each turn of the buzzer, and what comes before and after them.
StepsToHead ==
    LET ahead == [act |-> 6, wait |-> 5, check |-> 4, pwmStart |-> 3,
                  pwmPoll |-> 2, pwmRead |-> 1, pwmWait |-> 0]
        home  == [pwmStop |-> 2, restore |-> 1, boot |-> 1, poll |-> 0]
    IN  IF pc \in DOMAIN ahead THEN 3 * HalfPeriodsLeft + ahead[pc] ELSE home[pc]

HalfPeriodsBounded == HalfPeriodsLeft \in 1 .. ALARM_SECONDS * buzzer_pwm_half_period

Longest == 3 * (ALARM_SECONDS * buzzer_pwm_half_period) + 6

LEMMA HalfPeriodsType == IInv => HalfPeriodsBounded
<1> SUFFICES ASSUME IInv PROVE HalfPeriodsBounded
  OBVIOUS
<1> PICK a \in Nat, h \in Nat \ {0}, s \in Nat, c \in Nat :
        /\ a = ALARM_SECONDS /\ h = buzzer_pwm_half_period
        /\ s = segundos_alarma_activa /\ c = buzzer_pwm_counter
        /\ s < a /\ c < h
  BY Constants DEF IInv, TypeOK, Phases
<1>1. (a - s) * h >= 1 * h /\ (a - s) * h <= a * h /\ (a - s) * h \in Nat
  OBVIOUS
<1> QED BY <1>1 DEF HalfPeriodsLeft, HalfPeriodsBounded

\* A half period after which the alarm goes on is one of them, whether or not
\* it is the last of a second.
LEMMA HalfPeriodCounts ==
  IInv /\ PwmHalfPeriod /\ pc' = "pwmPoll" => HalfPeriodsLeft' = HalfPeriodsLeft - 1
<1> SUFFICES ASSUME IInv, PwmHalfPeriod, pc' = "pwmPoll"
             PROVE  HalfPeriodsLeft' = HalfPeriodsLeft - 1
  OBVIOUS
<1>1. PICK a \in Nat, h \in Nat \ {0}, s \in Nat, c \in Nat :
          /\ a = ALARM_SECONDS /\ h = buzzer_pwm_half_period
          /\ s = segundos_alarma_activa /\ c = buzzer_pwm_counter
          /\ s < a /\ a < 256 /\ c < h
  BY Constants DEF IInv, TypeOK, Phases
<1>2. ~PwmTimeout
  BY DEF PwmHalfPeriod
<1>3. /\ segundos_alarma_activa' = IF PwmSecond THEN (s + 1) % 256 ELSE s
      /\ buzzer_pwm_counter' = IF PwmSecond THEN 0 ELSE c + 1
      /\ PwmSecond <=> c + 1 = h
  BY <1>1, <1>2 DEF PwmHalfPeriod, PwmAge, Increment8, PwmSecond
<1>4. (s + 1) % 256 = s + 1
  BY <1>1
<1>5. HalfPeriodsLeft = (a - s) * h - c
  BY <1>1 DEF HalfPeriodsLeft
<1>6. CASE PwmSecond
  <2>1. HalfPeriodsLeft' = (a - (s + 1)) * h - 0
    BY <1>1, <1>3, <1>4, <1>6 DEF HalfPeriodsLeft
  <2>2. (a - (s + 1)) * h = (a - s) * h - h
    OBVIOUS
  <2> QED BY <1>1, <1>3, <1>5, <1>6, <2>1, <2>2
<1>7. CASE ~PwmSecond
  <2>1. HalfPeriodsLeft' = (a - s) * h - (c + 1)
    BY <1>1, <1>3, <1>7 DEF HalfPeriodsLeft
  <2>2. (a - s) * h \in Int
    OBVIOUS
  <2> QED BY <1>5, <2>1, <2>2
<1> QED BY <1>6, <1>7

LEMMA HalfPeriodsElsewhere ==
  ASSUME IInv, Next, ~PwmHalfPeriod
  PROVE  HalfPeriodsLeft' = HalfPeriodsLeft
<1>1. segundos_alarma_activa' = segundos_alarma_activa /\ buzzer_pwm_counter' = buzzer_pwm_counter
  <2>1. CASE Act
    BY <2>1, ActIsSetting DEF Act, buzzerVars
  <2>2. CASE ~Act
    BY <2>2 DEF Next, Firmware, Main, Buzzer, Person, Boot, ReadButtons, CountSecond, CheckAlarm,
                Restore, StartBuzzer, PwmReadButtons, PwmReadSwitch, StopBuzzer, TimerExpires,
                SwitchFlips, KeyChanges, firmware, alarmVars, buzzerVars
  <2> QED BY <2>1, <2>2
<1> QED BY <1>1 DEF HalfPeriodsLeft

\* The way of main() through its places.
LEMMA WayOfMain ==
  ASSUME IInv, Next
  PROVE  \/ pc' = pc
         \/ pc = "poll"
         \/ pc = "boot" /\ pc' = "poll"
         \/ pc = "act" /\ pc' \in {"wait", "check"}
         \/ pc = "wait" /\ pc' = "check"
         \/ pc = "check" /\ pc' \in {"pwmStart", "poll"}
         \/ pc = "pwmStart" /\ pc' = "pwmPoll"
         \/ pc = "pwmPoll" /\ pc' = "pwmRead"
         \/ pc = "pwmRead" /\ pc' = "pwmWait"
         \/ PwmHalfPeriod /\ pc = "pwmWait" /\ pc' \in {"pwmPoll", "pwmStop"}
         \/ pc = "pwmStop" /\ pc' = "restore"
         \/ pc = "restore" /\ pc' = "poll"
<1>1. CASE Main
  BY <1>1 DEF Main, Boot, ReadButtons, Act, CountSecond, CheckAlarm, Restore
<1>2. CASE StartBuzzer
  BY <1>2, Constants DEF StartBuzzer
<1>3. CASE PwmHalfPeriod
  BY <1>3 DEF PwmHalfPeriod
<1>4. CASE PwmReadButtons \/ PwmReadSwitch \/ StopBuzzer
  BY <1>4 DEF PwmReadButtons, PwmReadSwitch, StopBuzzer
<1>5. CASE TimerExpires \/ Person
  BY <1>5 DEF TimerExpires, Person, SwitchFlips, KeyChanges, firmware
<1> QED BY <1>1, <1>2, <1>3, <1>4, <1>5 DEF Next, Firmware, Buzzer

\* Every step of main() brings it closer to the head of its loop, and neither
\* the timer nor the person takes it further away: no run of the buzzer and no
\* way through the loop is longer than Longest.  With WaitsOnItsTimer, by which
\* the timer of every wait is running, this is why LoopAlive holds.
THEOREM LoopIsBounded ==
  Spec => /\ [](StepsToHead \in 0 .. Longest)
          /\ [][IF pc' = pc THEN StepsToHead' = StepsToHead
                            ELSE pc = "poll" \/ StepsToHead' < StepsToHead]_vars
<1>1. IInv => StepsToHead \in 0 .. Longest
  <2> SUFFICES ASSUME IInv PROVE StepsToHead \in 0 .. Longest
    OBVIOUS
  <2>1. PICK n \in Nat : n = ALARM_SECONDS * buzzer_pwm_half_period
    BY Constants
  <2>2. PICK l \in 1 .. n : l = HalfPeriodsLeft
    BY <2>1, HalfPeriodsType DEF HalfPeriodsBounded
  <2>3. Longest = 3 * n + 6
    BY <2>1 DEF Longest
  <2> QED BY <2>2, <2>3 DEF StepsToHead, IInv, TypeOK
<1>2. IInv /\ HalfPeriodsBounded' /\ [Next]_vars =>
          [IF pc' = pc THEN StepsToHead' = StepsToHead
                       ELSE pc = "poll" \/ StepsToHead' < StepsToHead]_vars
  <2> SUFFICES ASSUME IInv, Next, HalfPeriodsBounded'
               PROVE  IF pc' = pc THEN StepsToHead' = StepsToHead
                                  ELSE pc = "poll" \/ StepsToHead' < StepsToHead
    OBVIOUS
  <2>1. PICK l \in Nat \ {0} : l = HalfPeriodsLeft
    BY HalfPeriodsType, Constants DEF HalfPeriodsBounded
  <2>2. PICK m \in Nat \ {0} : m = HalfPeriodsLeft'
    BY Constants DEF HalfPeriodsBounded
  <2>3. CASE PwmHalfPeriod
    <3>1. pc = "pwmWait" /\ pc' \in {"pwmPoll", "pwmStop"}
      BY <2>3 DEF PwmHalfPeriod
    <3>2. pc' = "pwmPoll" => m = l - 1
      BY <2>1, <2>2, <2>3, HalfPeriodCounts
    <3>3. StepsToHead = 3 * l /\ StepsToHead' = IF pc' = "pwmPoll" THEN 3 * m + 2 ELSE 2
      BY <2>1, <2>2, <3>1 DEF StepsToHead
    <3> QED BY <3>1, <3>2, <3>3
  <2>4. CASE ~PwmHalfPeriod
    <3>1. m = l
      BY <2>1, <2>2, <2>4, HalfPeriodsElsewhere
    <3>2. CASE pc' = pc
      BY <2>1, <2>2, <3>1, <3>2 DEF StepsToHead
    <3>3. CASE pc' # pc
      BY <2>1, <2>2, <2>4, <3>1, <3>3, WayOfMain DEF StepsToHead
    <3> QED BY <3>2, <3>3
  <2> QED BY <2>3, <2>4
<1> QED BY <1>1, <1>2, HalfPeriodsType, InductiveInvariant, PTL DEF Spec

\* Set mode apart, the alarm that was set stays as it is and every second that is
\* counted, also while the buzzer sounds, brings the clock one closer to it:
\* the clock never jumps past an alarm, and is at it within a day.
THEOREM AlarmComesCloser ==
  Spec => [][~(pc = "act" /\ ~switch) =>
                 /\ alarm' = alarm
                 /\ clock' = clock
                    \/ alarm \in {NoTime, clock}
                    \/ ToGo(clock', alarm) = ToGo(clock, alarm) - 1]_vars
<1> DEFINE Closer == /\ alarm' = alarm
                     /\ clock' = clock
                        \/ alarm \in {NoTime, clock}
                        \/ ToGo(clock', alarm) = ToGo(clock, alarm) - 1
<1>1. IInv /\ [Next]_vars => [~(pc = "act" /\ ~switch) => Closer]_vars
  <2> SUFFICES ASSUME IInv, Next, ~(pc = "act" /\ ~switch) PROVE Closer
    OBVIOUS
  <2>1. clock \in Times /\ alarm \in Times \cup {NoTime}
    BY DEF IInv, TypeOK
  <2>2. ASSUME clock' = Advance(clock), alarm' = alarm PROVE Closer
    BY <2>1, <2>2, AdvanceApproaches
  <2>3. CASE Act
    <3>1. Pressed = {} /\ clock' = Adjusted(clock, Pressed) /\ alarm' = alarm
      BY <2>3 DEF Act, AdjustTime, Pressed
    <3>2. Adjusted(clock, {}) = clock
      BY <2>1 DEF Adjusted, Times
    <3> QED BY <3>1, <3>2
  <2>4. CASE CountSecond
    BY <2>2, <2>4 DEF CountSecond
  <2>5. CASE PwmHalfPeriod
    BY <2>2, <2>5 DEF PwmHalfPeriod
  <2>6. CASE ~(Act \/ CountSecond \/ PwmHalfPeriod)
    BY <2>6 DEF Next, Firmware, Main, Buzzer, Person, Boot, ReadButtons, CheckAlarm, Restore,
                StartBuzzer, PwmReadButtons, PwmReadSwitch, StopBuzzer, TimerExpires,
                SwitchFlips, KeyChanges, firmware, timeVars
  <2> QED BY <2>3, <2>4, <2>5, <2>6
<1> QED BY <1>1, InductiveInvariant, PTL DEF Spec
=============================================================================
