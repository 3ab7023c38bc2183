---------------------------- MODULE LedAlarmClock ----------------------------
(***************************************************************************)
(* The firmware before the buzzer: software/Test, and the same program in  *)
(* TimerWithClock, TimeWithClock and buzzer.  The alarm lights ten LEDs    *)
(* and ages by one in every turn of the main loop, which is a second while *)
(* the clock counts and an instant in set mode.                            *)
(***************************************************************************)
EXTENDS ClockPanel

CONSTANT ALARM_TURNS   \* turns of the loop an alarm lasts  (30 in the code)

\* An alarm is over before the clock can have come round to it again.
ASSUME LedAlarmClockAssumption == ALARM_TURNS \in 1 .. 255 /\ ALARM_TURNS <= SEGUNDOS

VARIABLES alarma_activa, segundos_alarma_activa

alarmVars == <<alarma_activa, segundos_alarma_activa>>
vars      == <<panelVars, alarmVars, timer, pins>>

TypeOK ==
    /\ PanelTypeOK
    /\ pc \in {"boot", "poll", "act", "wait", "check"}
    /\ timer \in Timers({RESET_PERIOD, SECOND})
    /\ alarma_activa \in BOOLEAN
    /\ segundos_alarma_activa \in 0 .. 255

Init == PanelInit(NoTime) /\ alarma_activa = FALSE /\ segundos_alarma_activa = 0

-----------------------------------------------------------------------------

Start == Boot /\ display' = update_all(display, clock) /\ UNCHANGED alarmVars

Read == ReadButtons /\ UNCHANGED alarmVars

\* Mistakes: the alarm is forgotten one turn late, or the LEDs are left on.
AgeAlarm_Late ==
    LET age  == (segundos_alarma_activa + 1) % 256
        over == alarma_activa /\ age > ALARM_TURNS
    IN  /\ segundos_alarma_activa' = IF alarma_activa THEN age ELSE segundos_alarma_activa
        /\ alarma_activa' = (alarma_activa /\ ~over)
        /\ LEDS' = IF over \/ KeyDarkens THEN 0 ELSE LEDS
AgeAlarm_StaysLit ==
    LET age  == (segundos_alarma_activa + 1) % 256
        over == alarma_activa /\ age = ALARM_TURNS
    IN  /\ segundos_alarma_activa' = IF alarma_activa THEN age ELSE segundos_alarma_activa
        /\ alarma_activa' = (alarma_activa /\ ~over)
        /\ LEDS' = IF KeyDarkens THEN 0 ELSE LEDS

\* A key darkens the LEDs but leaves the alarm active, until it has aged.
AgeAlarm ==
    LET age  == (segundos_alarma_activa + 1) % 256
        over == alarma_activa /\ age = ALARM_TURNS
    IN  /\ segundos_alarma_activa' = IF alarma_activa THEN age ELSE segundos_alarma_activa
        /\ alarma_activa' = (alarma_activa /\ ~over)
        /\ LEDS' = IF over \/ KeyDarkens THEN 0 ELSE LEDS

\* From the read of the switch to the wait, or to the comparison.
Act ==
    /\ pc = "act"
    /\ SetTime
    /\ RememberInSetMode
    /\ display' = update(display, clock', Pressed)
    /\ AgeAlarm
    /\ counting' = switch
    /\ buttons_state' = {}
    /\ pc' = IF switch THEN "wait" ELSE "check"
    /\ UNCHANGED <<timer, pins>>

Count ==
    /\ CountSecond
    /\ display' = update_all(display, clock')
    /\ pc' = "check"
    /\ UNCHANGED <<LEDS, alarmVars>>

\* The alarm time is compared in every turn with the switch on; the sample of
\* the switch is what counting was set to.
Reached == alarm = clock /\ counting

\* Mistake: the age of the last alarm is kept.
Ring_Aged ==
    /\ LEDS' = ALL_LEDS
    /\ alarma_activa' = TRUE
    /\ UNCHANGED segundos_alarma_activa

Ring ==
    /\ LEDS' = ALL_LEDS
    /\ alarma_activa' = TRUE
    /\ segundos_alarma_activa' = 0

CheckAlarm ==
    /\ pc = "check"
    /\ IF Reached /\ ~alarma_activa THEN Ring ELSE UNCHANGED <<LEDS, alarmVars>>
    /\ pc' = "poll"
    /\ UNCHANGED <<clock, alarm, counting, prev_buttons_state, buttons_state, display,
                   timer, pins>>

Firmware == Start \/ Read \/ Act \/ Count \/ CheckAlarm

Next == Firmware \/ (Outside /\ UNCHANGED alarmVars)

\* The processor never stops, and a running timer reaches zero.
Spec == Init /\ [][Next]_vars
             /\ WF_vars(Firmware) /\ WF_vars(TimerExpires /\ UNCHANGED alarmVars)

-----------------------------------------------------------------------------

\* Lit LEDs always belong to an active alarm that has not reached its age: the
\* age is compared by equality, so that a lit alarm past it would never end.
LightIsAlarm == LEDS = ALL_LEDS => alarma_activa /\ segundos_alarma_activa < ALARM_TURNS

\* A dismissed alarm is dark but stays active for the rest of its turns, and an
\* active alarm ignores the alarm time.  No alarm is lost by that: whatever is
\* done with the keys and the switch, by the time counting reaches an alarm
\* again the last one has ended.
EveryArrivalRings == [][pc = "check" /\ Reached /\ pc' # pc => LEDS' = ALL_LEDS]_vars

\* An alarm nobody touches ends by itself.
AlarmEnds == LEDS = ALL_LEDS ~> LEDS = 0
=============================================================================
