------------------------ MODULE SoundPrototype_proofs ------------------------
(***************************************************************************)
(* Proofs of the safety properties of the prototype of the buzzer, for     *)
(* every length of the day, of the alarm and of the sound and for every    *)
(* period of the PWM.                                                      *)
(***************************************************************************)
EXTENDS SoundPrototype, TimeOfDay_proofs

Periods == {RESET_PERIOD, SECOND, buzzer_pwm_half_period}

Ticking == timer.mode = "running" /\ timer.continuous

\* An alarm that is on has turns left.
Aging == alarma_activa => segundos_alarma_activa < ALARM_TURNS

Sounding == pc = "sound" => buzzer_sound_counter < SOUND_TICKS

\* The timer ticks the seconds until the first alarm takes it, and no longer:
\* the period of the sound stays in its registers, without the continuous mode.
OneOwner ==
    /\ pc # "boot" /\ timer.period = SECOND => Ticking
    /\ pc \in {"sound", "soundEnd"} => timer.period = buzzer_pwm_half_period
    /\ pc = "sound" => Ticking
    /\ TimerTaken => ~timer.continuous

\* The sound begins when counting reaches an alarm that has been set, and no
\* turn of the loop comes between its ticks.
Counted ==
    /\ pc \in {"wait", "sound", "soundEnd"} => counting
    /\ pc \in {"sound", "soundEnd"} => alarm \in Times
    /\ SoundMovesTime

IInv == TypeOK /\ Aging /\ LightIsAlarm /\ Sounding /\ OneOwner /\ Counted

LEMMA Constants ==
  /\ ALARM_TURNS \in Nat \ {0} /\ SOUND_TICKS \in Nat \ {0}
  /\ buzzer_pwm_half_period # SECOND
  /\ ALL_LEDS # 0
  BY SoundPrototypeAssumption DEF ALL_LEDS

\* The digits are drawn from the numbers themselves.
LEMMA ShowType ==
  ASSUME NEW d \in Displays, NEW t \in Times, NEW fields
  PROVE  show(d, t, fields) \in Displays
<1> DEFINE Digits(n) == [tens |-> n \div 10, units |-> n % 10]
           Pair      == [tens : Ports, units : Ports]
<1>1. \A n \in 0 .. 99 : Digits(n) \in Pair
  BY DEF Ports
<1>2. t.horas \in 0 .. 99 /\ t.minutos \in 0 .. 99 /\ t.segundos \in 0 .. 99
  BY TimeOfDayAssumption DEF Times
<1>3. d \in [horas : Pair, minutos : Pair, segundos : Pair]
  BY DEF Displays
<1>4. \A field \in {"horas", "minutos", "segundos"} : d[field] \in Pair /\ Digits(t[field]) \in Pair
  BY <1>1, <1>2, <1>3
<1> HIDE DEF Digits, Pair
<1>5. show(d, t, fields) = [field \in {"horas", "minutos", "segundos"} |->
                               IF field \in fields THEN Digits(t[field]) ELSE d[field]]
  BY DEF show, Digits
<1>6. show(d, t, fields) \in [horas : Pair, minutos : Pair, segundos : Pair]
  BY <1>4, <1>5
<1> QED BY <1>6 DEF Displays, Pair

\* A second of the day is its own remainder.
LEMMA DayModulo ==
  ASSUME SecondsInDay \in Nat, NEW n \in 0 .. SecondsInDay - 1
  PROVE  (n + 0) % SecondsInDay = n
<1>1. SecondsInDay \in Nat \ {0}
  OBVIOUS
<1>2. (0 * SecondsInDay + n) % SecondsInDay = n
  BY <1>1, RemainderIsUnique
<1> QED BY <1>1, <1>2

-----------------------------------------------------------------------------

LEMMA InitIInv == Init => IInv
<1> SUFFICES ASSUME Init PROVE IInv
  OBVIOUS
<1> USE DEF Init, PanelInit
<1>1. clock \in Times /\ alarm \in Times
  BY TimeOfDayAssumption DEF Times, Midnight
<1>2. display \in Displays
  BY DEF Displays, ResetDisplay, Ports
<1>3. timer \in Timers(Periods)
  BY DEF TimerInit, Timers, Periods
<1>4. PanelTypeOK
  BY <1>1, <1>2 DEF PanelTypeOK
<1>5. /\ alarma_activa \in BOOLEAN
      /\ segundos_alarma_activa \in 0 .. ALARM_TURNS
      /\ buzzer_sound_counter \in 0 .. SOUND_TICKS
      /\ BUZZER \in {0, 1}
  <2>1. segundos_alarma_activa = 0 /\ buzzer_sound_counter = 0 /\ BUZZER = 0
    OBVIOUS
  <2>2. 0 \in 0 .. ALARM_TURNS /\ 0 \in 0 .. SOUND_TICKS
    BY Constants
  <2>3. alarma_activa \in BOOLEAN
    OBVIOUS
  <2> QED BY <2>1, <2>2, <2>3
<1>6. TypeOK
  BY <1>3, <1>4, <1>5 DEF TypeOK, Periods
<1>7. Aging /\ LightIsAlarm /\ Sounding /\ OneOwner /\ Counted
  BY Constants DEF Aging, LightIsAlarm, Sounding, OneOwner, TimerTaken, Counted, SoundMovesTime
<1> QED BY <1>6, <1>7 DEF IInv

LEMMA StartKeeps == IInv /\ Start => IInv'
<1> SUFFICES ASSUME IInv, Start PROVE IInv'
  OBVIOUS
<1>1. display' \in Displays
  BY ShowType DEF IInv, TypeOK, PanelTypeOK, Start, show_all
<1>2. timer' \in Timers(Periods) /\ timer'.period = SECOND /\ Ticking'
  BY ReprogrammedTicks DEF IInv, TypeOK, Start, Boot, init_timer, Ticking, Periods
<1>3. TypeOK'
  BY <1>1, <1>2 DEF IInv, TypeOK, PanelTypeOK, Start, Boot, pins, alarmVars, soundVars, Periods
<1>4. Aging' /\ LightIsAlarm' /\ Sounding' /\ OneOwner'
  BY <1>2 DEF IInv, Aging, LightIsAlarm, Sounding, OneOwner, TimerTaken, Start, Boot, alarmVars, soundVars
<1>5. Counted'
  BY DEF Start, Boot, Counted, SoundMovesTime
<1> QED BY <1>3, <1>4, <1>5 DEF IInv

LEMMA ReadKeeps == IInv /\ Read => IInv'
<1> SUFFICES ASSUME IInv, Read PROVE IInv'
  OBVIOUS
<1> USE DEF Read, ReadButtons, pins, alarmVars, soundVars
<1>1. TypeOK'
  BY DEF IInv, TypeOK, PanelTypeOK
<1>2. Aging' /\ LightIsAlarm' /\ Sounding' /\ OneOwner'
  BY DEF IInv, Aging, LightIsAlarm, Sounding, OneOwner, Ticking, TimerTaken
<1>3. Counted'
  BY DEF Counted, SoundMovesTime
<1> QED BY <1>1, <1>2, <1>3 DEF IInv

\* An alarm ages by one turn, and takes the light with it when it ends.
LEMMA ActKeeps == IInv /\ Act => IInv'
<1> SUFFICES ASSUME IInv, Act PROVE IInv'
  OBVIOUS
<1>1. clock' \in Times /\ alarm' \in Times \cup {NoTime}
  BY AdjustedType DEF IInv, TypeOK, PanelTypeOK, Act, SetTime
<1>2. display' \in Displays
  BY <1>1, ShowType DEF IInv, TypeOK, PanelTypeOK, Act
<1>3. LEDS' = 0 \/ (LEDS' = LEDS /\ ~(alarma_activa /\ segundos_alarma_activa + 1 = ALARM_TURNS))
  BY DEF Act, AgeAlarm
<1>4. /\ alarma_activa' \in BOOLEAN
      /\ segundos_alarma_activa' \in 0 .. ALARM_TURNS
      /\ Aging'
  <2>1. PICK age \in 0 .. ALARM_TURNS : segundos_alarma_activa = age
    BY DEF IInv, TypeOK
  <2>2. /\ segundos_alarma_activa' = IF alarma_activa THEN age + 1 ELSE age
        /\ alarma_activa' <=> alarma_activa /\ age + 1 # ALARM_TURNS
        /\ alarma_activa' \in BOOLEAN
    BY <2>1 DEF Act, AgeAlarm
  <2>3. alarma_activa => age + 1 \in 1 .. ALARM_TURNS
    BY <2>1, Constants DEF IInv, Aging
  <2>4. segundos_alarma_activa' \in 0 .. ALARM_TURNS
    BY <2>1, <2>2, <2>3, Constants
  <2>5. Aging'
    BY <2>2, <2>3, Constants DEF Aging
  <2> QED BY <2>2, <2>4, <2>5
<1>5. TypeOK'
  BY <1>1, <1>2, <1>3, <1>4 DEF IInv, TypeOK, PanelTypeOK, Act, RememberInSetMode, pins, soundVars
<1>6. LightIsAlarm'
  BY <1>3, <1>4, Constants DEF IInv, TypeOK, Aging, LightIsAlarm, Act, AgeAlarm
<1>7. Sounding' /\ OneOwner'
  BY DEF IInv, Sounding, OneOwner, Ticking, TimerTaken, Act, soundVars
<1>8. Counted'
  BY DEF Act, Counted, SoundMovesTime
<1> QED BY <1>4, <1>5, <1>6, <1>7, <1>8 DEF IInv

LEMMA CountQuietlyKeeps == IInv /\ CountQuietly => IInv'
<1> SUFFICES ASSUME IInv, CountQuietly PROVE IInv'
  OBVIOUS
<1>1. clock' \in Times
  BY AdvanceType DEF IInv, TypeOK, PanelTypeOK, CountQuietly
<1>2. display' \in Displays
  BY <1>1, ShowType DEF IInv, TypeOK, PanelTypeOK, CountQuietly, show_all
<1>3. /\ timer' \in Timers(Periods)
      /\ timer'.period = timer.period /\ timer'.continuous = timer.continuous
      /\ Ticking => Ticking'
  BY TickingGoesOn DEF IInv, TypeOK, CountQuietly, Ticking, Periods
<1>4. TypeOK'
  BY <1>1, <1>2, <1>3
     DEF IInv, TypeOK, PanelTypeOK, CountQuietly, pins, alarmVars, soundVars, Periods
<1>5. Aging' /\ LightIsAlarm' /\ Sounding' /\ OneOwner'
  BY <1>3 DEF IInv, Aging, LightIsAlarm, Sounding, OneOwner, TimerTaken, CountQuietly,
                 alarmVars, soundVars
<1>6. Counted'
  BY DEF CountQuietly, Counted, SoundMovesTime
<1> QED BY <1>4, <1>5, <1>6 DEF IInv

LEMMA CountToAlarmKeeps == IInv /\ CountToAlarm => IInv'
<1> SUFFICES ASSUME IInv, CountToAlarm PROVE IInv'
  OBVIOUS
<1>1. clock' \in Times
  BY AdvanceType DEF IInv, TypeOK, PanelTypeOK, CountToAlarm
<1>2. display' \in Displays
  BY <1>1, ShowType DEF IInv, TypeOK, PanelTypeOK, CountToAlarm, show_all
<1>3. /\ timer' \in Timers(Periods)
      /\ timer'.period = buzzer_pwm_half_period
      /\ Ticking'
  <2>1. AfterStatus(timer) \in Timers(Periods)
    BY TickingGoesOn DEF IInv, TypeOK, Periods
  <2>2. timer' = Reprogrammed(AfterStatus(timer), buzzer_pwm_half_period)
    BY DEF CountToAlarm
  <2>3. buzzer_pwm_half_period \in Periods
    BY DEF Periods
  <2> QED BY <2>1, <2>2, <2>3, ReprogrammedTicks DEF Ticking
<1>4. TypeOK'
  <2>1. segundos_alarma_activa' \in 0 .. ALARM_TURNS /\ buzzer_sound_counter' \in 0 .. SOUND_TICKS
    BY Constants DEF CountToAlarm
  <2> QED BY <1>1, <1>2, <1>3, <2>1 DEF IInv, TypeOK, PanelTypeOK, CountToAlarm, pins, Periods
<1>5. Aging' /\ LightIsAlarm' /\ Sounding' /\ OneOwner'
  BY <1>3, Constants DEF Aging, LightIsAlarm, Sounding, OneOwner, TimerTaken, CountToAlarm
<1>6. Counted'
  <2>1. /\ alarm' = alarm /\ clock' = alarm /\ counting' = counting
        /\ pc = "wait" /\ pc' = "sound" /\ buzzer_sound_counter' = 0
    BY DEF CountToAlarm
  <2>2. alarm \in Times
    BY <1>1, <2>1
  <2>3. (SecondOfDay(alarm) + 0) % SecondsInDay = SecondOfDay(alarm)
    BY <2>2, SecondOfDayType, DayModulo
  <2>4. SoundMovesTime'
    <3>1. SecondOfDay(clock)' = SecondOfDay(alarm)
      BY <2>1 DEF SecondOfDay
    <3>2. (SecondOfDay(alarm)' + buzzer_sound_counter') % SecondsInDay = SecondOfDay(alarm)
      BY <2>1, <2>3 DEF SecondOfDay
    <3> QED BY <3>1, <3>2 DEF SoundMovesTime, SecondsInDay
  <2> QED BY <2>1, <2>2, <2>4 DEF IInv, Counted
<1> QED BY <1>4, <1>5, <1>6 DEF IInv

LEMMA SoundTickKeeps == IInv /\ SoundTick => IInv'
<1> SUFFICES ASSUME IInv, SoundTick PROVE IInv'
  OBVIOUS
<1>1. clock' \in Times
  BY AdvanceType DEF IInv, TypeOK, PanelTypeOK, SoundTick, KeepTime
<1>2. display' \in Displays
  BY <1>1, ShowType DEF IInv, TypeOK, PanelTypeOK, SoundTick, KeepTime, show_all
<1>3. /\ timer' \in Timers(Periods)
      /\ timer'.period = timer.period
      /\ Ticking'
  BY TickingGoesOn DEF IInv, TypeOK, OneOwner, SoundTick, Ticking, Periods
<1>4. buzzer_sound_counter' \in 0 .. SOUND_TICKS /\ BUZZER' \in {0, 1}
  BY Constants DEF IInv, TypeOK, Sounding, SoundTick
<1>5. TypeOK'
  BY <1>1, <1>2, <1>3, <1>4 DEF IInv, TypeOK, PanelTypeOK, SoundTick, pins, alarmVars, Periods
<1>6. Aging' /\ LightIsAlarm' /\ Sounding' /\ OneOwner'
  BY <1>3 DEF IInv, Aging, LightIsAlarm, Sounding, OneOwner, TimerTaken, SoundTick, alarmVars
<1>7. Counted'
  <2> DEFINE past == SecondOfDay(alarm) + buzzer_sound_counter
  <2>1. /\ alarm' = alarm /\ counting' = counting /\ clock' = Advance(clock)
        /\ pc = "sound" /\ pc' \in {"sound", "soundEnd"}
        /\ buzzer_sound_counter' = buzzer_sound_counter + 1
    BY DEF IInv, Counted, SoundTick, KeepTime
  <2>2. clock \in Times /\ alarm \in Times /\ counting
    BY <2>1 DEF IInv, TypeOK, PanelTypeOK, Counted
  <2>3. SecondOfDay(clock) = past % SecondsInDay
    BY <2>1 DEF IInv, Counted, SoundMovesTime
  <2>4. past \in Nat /\ SecondsInDay \in Nat \ {0}
    <3>1. SecondsInDay \in Nat /\ SecondOfDay(alarm) \in 0 .. SecondsInDay - 1
      BY <2>2, SecondOfDayType
    <3>2. buzzer_sound_counter \in Nat
      BY DEF IInv, TypeOK, Sounding
    <3> QED BY <3>1, <3>2
  <2>5. SecondOfDay(Advance(clock)) = (past + 1) % SecondsInDay
    <3>1. SecondOfDay(Advance(clock)) = (SecondOfDay(clock) + 1) % SecondsInDay
      BY <2>2, AdvanceIsSuccessor
    <3> HIDE DEF past
    <3> QED BY <2>3, <2>4, <3>1, SuccessorModulo
  <2>6. SoundMovesTime'
    <3>1. SecondOfDay(clock)' = SecondOfDay(Advance(clock))
      BY <2>1 DEF SecondOfDay
    <3>2. SecondOfDay(alarm)' + buzzer_sound_counter' = past + 1
      <4>1. SecondOfDay(alarm)' = SecondOfDay(alarm)
        BY <2>1 DEF SecondOfDay
      <4>2. PICK a \in Int : a = SecondOfDay(alarm)
        BY <2>2, SecondOfDayType
      <4> QED BY <2>1, <4>1, <4>2 DEF IInv, TypeOK
    <3> QED BY <2>5, <3>1, <3>2 DEF SoundMovesTime, SecondsInDay
  <2> QED BY <2>1, <2>2, <2>6 DEF Counted
<1> QED BY <1>5, <1>6, <1>7 DEF IInv

\* The timer is not handed back: its period is still that of the sound.
LEMMA SoundEndKeeps == IInv /\ SoundEnd => IInv'
<1> SUFFICES ASSUME IInv, SoundEnd PROVE IInv'
  OBVIOUS
<1>1. timer' \in Timers(Periods)
  BY ControlType DEF IInv, TypeOK, SoundEnd, StopTimer, Periods
<1>2. timer'.period = buzzer_pwm_half_period /\ ~timer'.continuous
  BY DEF IInv, TypeOK, OneOwner, SoundEnd, StopTimer, AfterControl, Timers
<1>3. TypeOK'
  BY <1>1 DEF IInv, TypeOK, PanelTypeOK, SoundEnd, pins, alarmVars, Periods
<1>4. Aging' /\ LightIsAlarm' /\ Sounding' /\ OneOwner'
  BY <1>2, Constants
     DEF IInv, Aging, LightIsAlarm, Sounding, OneOwner, TimerTaken, SoundEnd, alarmVars
<1>5. Counted'
  BY DEF SoundEnd, Counted, SoundMovesTime
<1> QED BY <1>3, <1>4, <1>5 DEF IInv

LEMMA OutsideKeeps ==
  IInv /\ ((Outside /\ UNCHANGED <<alarmVars, soundVars>>) \/ UNCHANGED vars) => IInv'
<1> SUFFICES ASSUME IInv, (Outside /\ UNCHANGED <<alarmVars, soundVars>>) \/ UNCHANGED vars
             PROVE  IInv'
  OBVIOUS
<1>1. /\ UNCHANGED <<panelVars, alarmVars, soundVars>>
      /\ buttons' \subseteq KEYS /\ switch' \in BOOLEAN
  BY DEF IInv, TypeOK, PanelTypeOK, Outside, TimerExpires, SwitchFlips, KeyChanges, vars, pins
<1>2. /\ timer' \in Timers(Periods)
      /\ timer'.period = timer.period /\ timer'.continuous = timer.continuous
      /\ Ticking => Ticking'
  <2>1. timer' = timer \/ timer' = Expired(timer)
    BY DEF Outside, TimerExpires, SwitchFlips, KeyChanges, vars
  <2> QED BY <2>1, TickingGoesOn DEF IInv, TypeOK, Ticking, Periods
<1>3. TypeOK'
  BY <1>1, <1>2 DEF IInv, TypeOK, PanelTypeOK, panelVars, alarmVars, soundVars, Periods
<1>4. Aging' /\ LightIsAlarm' /\ Sounding' /\ OneOwner'
  BY <1>1, <1>2
     DEF IInv, Aging, LightIsAlarm, Sounding, OneOwner, TimerTaken, panelVars, alarmVars, soundVars
<1>5. Counted'
  <2>1. /\ pc' = pc /\ clock' = clock /\ alarm' = alarm /\ counting' = counting
        /\ buzzer_sound_counter' = buzzer_sound_counter
    BY <1>1 DEF panelVars, soundVars
  <2>2. SoundMovesTime'
    BY <2>1 DEF IInv, Counted, SoundMovesTime, SecondOfDay, SecondsInDay
  <2> QED BY <2>1, <2>2 DEF IInv, Counted
<1> QED BY <1>3, <1>4, <1>5 DEF IInv

LEMMA InductiveInvariant == Spec => []IInv
<1>1. Init => IInv
  BY InitIInv
<1>2. IInv /\ [Next]_vars => IInv'
  BY StartKeeps, ReadKeeps, ActKeeps, CountQuietlyKeeps, CountToAlarmKeeps, SoundTickKeeps,
     SoundEndKeeps, OutsideKeeps DEF Next, Firmware
<1> QED BY <1>1, <1>2, PTL DEF Spec

-----------------------------------------------------------------------------

\* The age of the alarm, the ticks of the sound, the digits and everything else
\* keep their types.
THEOREM PrototypeTypes == Spec => []TypeOK
<1>1. IInv => TypeOK
  BY DEF IInv
<1> QED BY <1>1, InductiveInvariant, PTL

\* The LEDs are lit for an alarm that still has turns to age, and for no other.
THEOREM LightBelongsToAlarm == Spec => []LightIsAlarm
<1>1. IInv => LightIsAlarm
  BY DEF IInv
<1> QED BY <1>1, InductiveInvariant, PTL

\* Until an alarm has taken the timer away, the loop waits for a timer that
\* runs and goes on; and so does the sound.
THEOREM WaitsAreSafe == Spec => []WaitsUntilAlarm
<1>1. IInv => WaitsUntilAlarm
  BY DEF IInv, OneOwner, Ticking, WaitsUntilAlarm
<1> QED BY <1>1, InductiveInvariant, PTL

\* What an expiry and the clearing of TO leave of the waits that still end.
LEMMA WaitsUsedUp ==
  ASSUME TimerTaken, IInv
  PROVE  /\ WaitsLeft \in 0 .. 2
         /\ timer' = timer => WaitsLeft' = WaitsLeft
         /\ timer' = Expired(timer) /\ timer.mode # "stopped" => WaitsLeft' \in 0 .. WaitsLeft
         /\ timer' = AfterStatus(timer) /\ timer.to => WaitsLeft' = WaitsLeft - 1
<1>1. timer \in Timers(Periods) /\ ~timer.continuous
  BY DEF IInv, TypeOK, OneOwner, Periods
<1>2. WaitsLeft \in 0 .. 2
  BY DEF WaitsLeft
<1>3. timer' = timer => WaitsLeft' = WaitsLeft
  BY DEF WaitsLeft
<1>4. ASSUME timer' = Expired(timer), timer.mode # "stopped"
      PROVE  WaitsLeft' \in 0 .. WaitsLeft
  <2>1. timer'.to /\ timer'.mode = "stopped"
    BY <1>1, <1>4 DEF Expired, Timers
  <2> QED BY <1>4, <2>1 DEF WaitsLeft
<1>5. ASSUME timer' = AfterStatus(timer), timer.to
      PROVE  WaitsLeft' = WaitsLeft - 1
  <2>1. ~timer'.to /\ timer'.mode = timer.mode
    BY <1>1, <1>5 DEF AfterStatus, Timers
  <2> QED BY <1>5, <2>1 DEF WaitsLeft
<1> QED BY <1>2, <1>3, <1>4, <1>5

\* Once an alarm has taken the timer, at most two more seconds are counted in
\* the loop, unless one of them is the alarm again: whatever the timer and the
\* person do, no wait is added to those that still end.
THEOREM HangsAfterAlarm == Spec => SecondsRunOut
<1> DEFINE used == IF pc = "wait" /\ pc' = "poll" THEN 1 ELSE 0
           Step == TimerTaken =>
                       \/ WaitsLeft' \in 0 .. WaitsLeft - used
                       \/ pc = "wait" /\ WaitsLeft > 0 /\ clock' = alarm /\ pc' = "sound"
<1>1. ASSUME IInv, [Next]_vars
      PROVE  Step
  <2> SUFFICES ASSUME TimerTaken PROVE Step
    OBVIOUS
  <2>1. WaitsLeft \in 0 .. 2
    BY <1>1, WaitsUsedUp
  <2>2. CASE Start \/ SoundTick \/ SoundEnd
    BY <2>2 DEF Start, Boot, SoundTick, SoundEnd, TimerTaken
  <2>3. CASE Read \/ Act \/ UNCHANGED vars
    <3>1. timer' = timer /\ used = 0
      BY <2>3 DEF Read, ReadButtons, Act, vars, panelVars
    <3> QED BY <1>1, <2>1, <3>1, WaitsUsedUp
  <2>4. CASE CountQuietly
    <3>1. timer' = AfterStatus(timer) /\ timer.to /\ used = 1
      BY <2>4 DEF CountQuietly
    <3>2. WaitsLeft > 0
      BY <3>1 DEF WaitsLeft
    <3> QED BY <1>1, <2>1, <3>1, <3>2, WaitsUsedUp
  <2>5. CASE CountToAlarm
    <3>1. pc = "wait" /\ timer.to /\ clock' = alarm /\ pc' = "sound"
      BY <2>5 DEF CountToAlarm
    <3>2. WaitsLeft > 0
      BY <3>1 DEF WaitsLeft
    <3> QED BY <3>1, <3>2
  <2>6. CASE Outside
    <3>1. /\ timer' = timer \/ (timer' = Expired(timer) /\ timer.mode # "stopped")
          /\ used = 0
      BY <2>6 DEF Outside, TimerExpires, SwitchFlips, KeyChanges, panelVars
    <3> QED BY <1>1, <2>1, <3>1, WaitsUsedUp
  <2> QED BY <1>1, <2>2, <2>3, <2>4, <2>5, <2>6 DEF Next, Firmware
<1>2. IInv /\ [Next]_vars => [Step]_vars
  BY <1>1
<1> QED BY <1>2, InductiveInvariant, PTL DEF Spec, SecondsRunOut

\* While an alarm sounds, the clock is as many seconds past the alarm as the
\* sound is half periods old: an alarm moves the clock by SOUND_TICKS seconds,
\* for every length of the sound and of the day.
THEOREM SoundSpeedsTime == Spec => []SoundMovesTime
<1>1. IInv => SoundMovesTime
  BY DEF IInv, Counted
<1> QED BY <1>1, InductiveInvariant, PTL
=============================================================================
