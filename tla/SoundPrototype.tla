--------------------------- MODULE SoundPrototype ---------------------------
(***************************************************************************)
(* The prototype of the buzzer, software/Final: when counting reaches the  *)
(* alarm, the program sounds SOUND_TICKS half periods of the PWM, each of  *)
(* which moves the clock one second, and goes back to its loop without     *)
(* programming the timer for the second again.                             *)
(*                                                                         *)
(* Its update functions write the digits themselves to the display ports.  *)
(* BUZZER is also the program's buzzer_state, which is set to 0 before it  *)
(* is next used.                                                           *)
(***************************************************************************)
EXTENDS ClockPanel

CONSTANTS
    ALARM_TURNS,              \* turns of the loop an alarm lasts (30)
    buzzer_pwm_half_period,   \* 50 000 clocks
    SOUND_TICKS               \* buzzer_sound_duration_ticks, 3000

ASSUME SoundPrototypeAssumption ==
    /\ ALARM_TURNS \in Nat \ {0}
    /\ buzzer_pwm_half_period \in Nat /\ buzzer_pwm_half_period # SECOND
    /\ SOUND_TICKS \in Nat \ {0}

VARIABLES
    alarma_activa, segundos_alarma_activa,
    buzzer_sound_counter, BUZZER

alarmVars == <<alarma_activa, segundos_alarma_activa>>
soundVars == <<buzzer_sound_counter, BUZZER>>
vars      == <<panelVars, alarmVars, soundVars, timer, pins>>

TypeOK ==
    /\ PanelTypeOK
    /\ pc \in {"boot", "poll", "act", "wait", "sound", "soundEnd"}
    /\ timer \in Timers({RESET_PERIOD, SECOND, buzzer_pwm_half_period})
    /\ alarma_activa \in BOOLEAN
    /\ segundos_alarma_activa \in 0 .. ALARM_TURNS
    /\ buzzer_sound_counter \in 0 .. SOUND_TICKS
    /\ BUZZER \in {0, 1}

\* Here the alarm time starts at 0:00:00.
Init ==
    /\ PanelInit(Midnight)
    /\ alarma_activa = FALSE /\ segundos_alarma_activa = 0
    /\ buzzer_sound_counter = 0 /\ BUZZER = 0

-----------------------------------------------------------------------------

\* The tens and units of the fields that are updated, as they are.
show(d, t, fields) ==
    LET Digits(n) == [tens |-> n \div 10, units |-> n % 10]
    IN  [field \in {"horas", "minutos", "segundos"} |->
            IF field \in fields THEN Digits(t[field]) ELSE d[field]]

show_all(d, t) == show(d, t, {"horas", "minutos", "segundos"})

Start == Boot /\ display' = show_all(display, clock) /\ UNCHANGED <<alarmVars, soundVars>>

Read == ReadButtons /\ UNCHANGED <<alarmVars, soundVars>>

\* Mistake: the LEDs are left on.
AgeAlarm_StaysLit ==
    LET age  == segundos_alarma_activa + 1
        over == alarma_activa /\ age = ALARM_TURNS
    IN  /\ segundos_alarma_activa' = IF alarma_activa THEN age ELSE segundos_alarma_activa
        /\ alarma_activa' = (alarma_activa /\ ~over)
        /\ LEDS' = IF KeyDarkens THEN 0 ELSE LEDS

AgeAlarm ==
    LET age  == segundos_alarma_activa + 1
        over == alarma_activa /\ age = ALARM_TURNS
    IN  /\ segundos_alarma_activa' = IF alarma_activa THEN age ELSE segundos_alarma_activa
        /\ alarma_activa' = (alarma_activa /\ ~over)
        /\ LEDS' = IF over \/ KeyDarkens THEN 0 ELSE LEDS

Act ==
    /\ pc = "act"
    /\ SetTime
    /\ RememberInSetMode
    /\ display' = show(display, clock', Pressed)
    /\ AgeAlarm
    /\ counting' = switch
    /\ buttons_state' = {}
    /\ pc' = IF switch THEN "wait" ELSE "poll"
    /\ UNCHANGED <<soundVars, timer, pins>>

\* A second that does not reach the alarm.
CountQuietly ==
    /\ pc = "wait"
    /\ timer.to /\ timer' = AfterStatus(timer)
    /\ clock' = Advance(clock) /\ clock' # alarm
    /\ display' = show_all(display, clock')
    /\ pc' = "poll"
    /\ UNCHANGED <<alarm, counting, prev_buttons_state, buttons_state, LEDS, alarmVars,
                   soundVars, pins>>

\* A second that does, up to the first wait of handle_pwm_buzzer().
CountToAlarm ==
    /\ pc = "wait"
    /\ timer.to /\ timer' = Reprogrammed(AfterStatus(timer), buzzer_pwm_half_period)
    /\ clock' = Advance(clock) /\ clock' = alarm
    /\ display' = show_all(display, clock')
    /\ LEDS' = ALL_LEDS
    /\ alarma_activa' = TRUE /\ segundos_alarma_activa' = 0
    /\ buzzer_sound_counter' = 0 /\ BUZZER' = 0
    /\ pc' = "sound"
    /\ UNCHANGED <<alarm, counting, prev_buttons_state, buttons_state, pins>>

\* Mistake: the time moves once a period of the sound.
KeepTime_ByPeriods == clock' = IF counting /\ BUZZER = 0 THEN Advance(clock) ELSE clock

KeepTime == clock' = IF counting THEN Advance(clock) ELSE clock

\* Half a period of the sound; "counting" holds all through it.
SoundTick ==
    /\ pc = "sound"
    /\ timer.to /\ timer' = AfterStatus(timer)
    /\ BUZZER' = 1 - BUZZER
    /\ buzzer_sound_counter' = buzzer_sound_counter + 1
    /\ KeepTime
    /\ display' = IF counting THEN show_all(display, clock') ELSE display
    /\ pc' = IF buzzer_sound_counter' < SOUND_TICKS THEN "sound" ELSE "soundEnd"
    /\ UNCHANGED <<alarm, counting, prev_buttons_state, buttons_state, LEDS, alarmVars, pins>>

\* Mistake: the timer is left as the sound used it.
StopTimer_Not == timer' = timer

\* The 0 ends its continuous mode and lets it run to its next zero.
StopTimer == timer' = AfterControl(timer, FALSE, FALSE, FALSE)

\* Back to the loop.
SoundEnd ==
    /\ pc = "soundEnd"
    /\ BUZZER' = 0
    /\ StopTimer
    /\ pc' = "poll"
    /\ UNCHANGED <<clock, alarm, counting, prev_buttons_state, buttons_state, LEDS, display,
                   alarmVars, buzzer_sound_counter, pins>>

Firmware == Start \/ Read \/ Act \/ CountQuietly \/ CountToAlarm \/ SoundTick \/ SoundEnd

Next == Firmware \/ (Outside /\ UNCHANGED <<alarmVars, soundVars>>)

\* The processor never stops, and a running timer reaches zero.
Spec == /\ Init /\ [][Next]_vars
        /\ WF_vars(Firmware)
        /\ WF_vars(TimerExpires /\ UNCHANGED <<alarmVars, soundVars>>)

-----------------------------------------------------------------------------

\* LEDs and alarm end together: lit LEDs belong to an alarm that still ages.
LightIsAlarm == LEDS = ALL_LEDS => alarma_activa /\ segundos_alarma_activa < ALARM_TURNS

\* The busy waits are safe as long as no alarm has taken the timer away.
WaitsUntilAlarm ==
    pc = "sound" \/ (pc = "wait" /\ timer.period = SECOND) =>
        timer.mode = "running" /\ timer.continuous

\* The waits of the loop that still end when no one programs the timer again:
\* one for TO, one for the zero the counter is on its way to.
WaitsLeft == (IF timer.to THEN 1 ELSE 0) + (IF timer.mode = "stopped" THEN 0 ELSE 1)

\* Back in the loop with a timer an alarm has taken away.
TimerTaken == pc \in {"poll", "act", "wait"} /\ timer.period # SECOND

\* An alarm leaves the loop two seconds at most: nothing the timer, the person
\* or main() does ever adds one, and each that is counted uses one up, so that
\* the program hangs in the wait after the last of them.  Only a second of
\* those that happens to be the alarm gets the timer going again.
SecondsRunOut ==
    [][TimerTaken => \/ WaitsLeft' \in 0 .. WaitsLeft - (IF pc = "wait" /\ pc' = "poll" THEN 1 ELSE 0)
                     \/ pc = "wait" /\ WaitsLeft > 0 /\ clock' = alarm /\ pc' = "sound"]_vars

\* Every half period of the sound is taken for a second: while an alarm sounds,
\* the clock is as many seconds past the alarm as the sound is half periods old.
SoundMovesTime ==
    pc \in {"sound", "soundEnd"} =>
        SecondOfDay(clock) = (SecondOfDay(alarm) + buzzer_sound_counter) % SecondsInDay
=============================================================================
