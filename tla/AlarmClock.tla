----------------------------- MODULE AlarmClock -----------------------------
(***************************************************************************)
(* The final firmware of the alarm clock (software/Final2) with the        *)
(* devices and the pins it polls.  One processor runs main(): there are no *)
(* interrupts and no threads, but the timer and the person at the keys and *)
(* the switch act between any two of its reads.                            *)
(*                                                                         *)
(* A firmware action runs from one read of something outside (the keys,    *)
(* the switch, the TO bit of the timer) to the next.  Statements between   *)
(* two such reads only touch the processor's own variables and the output  *)
(* ports, which nothing else reads.                                        *)
(***************************************************************************)
EXTENDS TimeOfDay, IntervalTimer

CONSTANTS
    ALARM_SECONDS,    \* seconds an alarm lasts      (30 in the code)
    CLOCK_FREQUENCY,  \* clocks loaded for a second  (50 000 000)
    PWM_FREQUENCY,    \* of the buzzer               (3480)
    MICROSECONDS,     \* 1000 * 1000 in the code
    KEYS              \* the keys somebody may touch, out of the four

PWM_PERIOD             == CLOCK_FREQUENCY \div PWM_FREQUENCY
buzzer_pwm_half_period == PWM_PERIOD \div 2
PWM_CYCLES             == MICROSECONDS \div (2 * buzzer_pwm_half_period)

ALL_LEDS == 1023

ASSUME AlarmClockAssumption ==
    /\ ALARM_SECONDS \in 1 .. 255
    /\ CLOCK_FREQUENCY \in Nat
    /\ PWM_FREQUENCY \in Nat \ {0}
    /\ MICROSECONDS \in Nat
    /\ buzzer_pwm_half_period > 0
    /\ ALARM_SECONDS <= PWM_CYCLES
    /\ KEYS \subseteq {"segundos", "minutos", "horas", "alarma"}

\* The variable timer of module IntervalTimer, and:
VARIABLES
    pc,                      \* where main() or handle_pwm_buzzer() is
    clock,                   \* horas, minutos, segundos
    alarm,                   \* horas_alarma, minutos_alarma, segundos_alarma
    counting,
    alarma_activa,
    segundos_alarma_activa,  \* a uint8_t
    buzzer_state,
    buzzer_pwm_counter,
    buzzer_pwm_cycles,
    prev_buttons_state,      \* the keys that were 1 when last compared
    poll,                    \* the locals holding the last reads
    LEDS, BUZZER, display,   \* the output ports
    buttons,                 \* the key pins that are 1
    switch                   \* the switch pin

timeVars   == <<clock, alarm, display>>
modeVars   == <<counting, prev_buttons_state>>
alarmVars  == <<alarma_activa, segundos_alarma_activa, LEDS>>
buzzerVars == <<buzzer_state, buzzer_pwm_counter, buzzer_pwm_cycles, BUZZER>>
pins       == <<buttons, switch>>
firmware   == <<pc, timeVars, modeVars, alarmVars, buzzerVars, poll>>
vars       == <<firmware, timer, pins>>

NoPoll == [buttons |-> {}, switch |-> FALSE, leds |-> 0]

TypeOK ==
    /\ pc \in {"boot", "poll", "act", "wait", "check",
               "pwmStart", "pwmPoll", "pwmRead", "pwmWait", "pwmStop", "restore"}
    /\ clock \in Times
    /\ alarm \in Times \cup {NoTime}
    /\ counting \in BOOLEAN
    /\ alarma_activa \in BOOLEAN
    /\ segundos_alarma_activa \in 0 .. 255
    /\ buzzer_state \in {0, 1}
    /\ buzzer_pwm_counter \in 0 .. buzzer_pwm_half_period
    /\ buzzer_pwm_cycles \in 0 .. PWM_CYCLES
    /\ prev_buttons_state \subseteq KEYS
    /\ poll \in [buttons : SUBSET KEYS, switch : BOOLEAN, leds : {0, ALL_LEDS}]
    /\ LEDS \in {0, ALL_LEDS}
    /\ BUZZER \in {0, 1}
    /\ display \in Displays
    /\ timer \in Timers({CLOCK_FREQUENCY - 1, CLOCK_FREQUENCY, buzzer_pwm_half_period})
    /\ buttons \subseteq KEYS
    /\ switch \in BOOLEAN

\* The state after configuration of the FPGA: .data and .bss loaded, the
\* output ports 0, the timer stopped, any level on the pins.
Init ==
    /\ pc = "boot"
    /\ clock = Midnight /\ alarm = NoTime
    /\ counting = FALSE /\ alarma_activa = FALSE /\ segundos_alarma_activa = 0
    /\ buzzer_state = 0 /\ buzzer_pwm_counter = 0 /\ buzzer_pwm_cycles = 0
    /\ prev_buttons_state = {} /\ poll = NoPoll
    /\ LEDS = 0 /\ BUZZER = 0 /\ display = ResetDisplay
    /\ TimerInit(CLOCK_FREQUENCY - 1)
    /\ buttons \in SUBSET KEYS
    /\ switch \in BOOLEAN

-----------------------------------------------------------------------------
(* The devices the firmware drives. *)

\* Mistakes: the timer is restarted without its period, and without its
\* continuous mode.
init_timer_NoPeriod == timer' = AfterControl(timer, TRUE, FALSE, TRUE)
init_timer_OneShot ==
    timer' = AfterControl(AfterPeriod(timer, CLOCK_FREQUENCY), TRUE, FALSE, FALSE)

init_timer == timer' = Reprogrammed(timer, CLOCK_FREQUENCY)

\* wait_for_timer() spins until TO is set and then clears it.
wait_for_timer == timer.to /\ timer' = AfterStatus(timer)

Increment8(n) == (n + 1) % 256

-----------------------------------------------------------------------------
(* main() *)

\* Everything before the loop.
Boot ==
    /\ pc = "boot"
    /\ init_timer
    /\ prev_buttons_state' = buttons
    /\ display' = update_all(display, clock)
    /\ pc' = "poll"
    /\ UNCHANGED <<clock, alarm, counting, alarmVars, buzzerVars, poll, pins>>

\* The head of the loop: debounce_buttons() returns the level of its last read.
ReadButtons ==
    /\ pc = "poll"
    /\ poll' = [poll EXCEPT !.buttons = buttons]
    /\ pc' = "act"
    /\ UNCHANGED <<timeVars, modeVars, alarmVars, buzzerVars, timer, pins>>

\* The keys that went from 0 to 1 since the last comparison, in set mode.
Pressed == IF switch THEN {} ELSE poll.buttons \ prev_buttons_state

\* Mistake: the keys that have been seen are not remembered.
RememberButtons_Never == prev_buttons_state' = prev_buttons_state

\* The keys of a turn in set mode are those the next turn compares with.
RememberButtons == prev_buttons_state' = IF switch THEN prev_buttons_state ELSE poll.buttons

\* Set mode: step the fields whose keys were pressed and show them; the
\* alarm key copies the clock as the other keys leave it.
AdjustTime ==
    /\ clock' = Adjusted(clock, Pressed)
    /\ alarm' = IF "alarma" \in Pressed THEN clock' ELSE alarm
    /\ display' = update(display, clock', Pressed)
    /\ RememberButtons

\* A change of the keys while counting with all LEDs lit.
KeyQuietens(leds) == poll.buttons # prev_buttons_state /\ switch /\ leds = ALL_LEDS

\* The loop counts its own turns while the alarm is active.
AgeAlarm ==
    LET age == IF alarma_activa THEN Increment8(segundos_alarma_activa)
                                ELSE segundos_alarma_activa
        over == alarma_activa /\ age = ALARM_SECONDS
    IN  /\ segundos_alarma_activa' = age
        /\ alarma_activa' = (alarma_activa /\ ~over)
        /\ LEDS' = IF over \/ KeyQuietens(LEDS) THEN 0 ELSE LEDS

\* The read of the switch and everything up to wait_for_timer().
Act ==
    /\ pc = "act"
    /\ AdjustTime
    /\ AgeAlarm
    /\ counting' = switch
    /\ poll' = NoPoll
    /\ pc' = IF switch THEN "wait" ELSE "check"
    /\ UNCHANGED <<buzzerVars, timer, pins>>

\* Counting: wait for the timer and count one second.
CountSecond ==
    /\ pc = "wait"
    /\ wait_for_timer
    /\ clock' = Advance(clock)
    /\ display' = update_all(display, clock')
    /\ pc' = "check"
    /\ UNCHANGED <<alarm, modeVars, alarmVars, buzzerVars, poll, pins>>

\* Mistake: the alarm is compared in set mode too.
AlarmReached_Always == alarm = clock

AlarmReached == alarm = clock /\ counting

\* Light the LEDs when the clock has reached the alarm, and ring if active.
CheckAlarm ==
    /\ pc = "check"
    /\ alarma_activa' = (alarma_activa \/ AlarmReached)
    /\ LEDS' = IF AlarmReached THEN ALL_LEDS ELSE LEDS
    /\ pc' = IF alarma_activa' THEN "pwmStart" ELSE "poll"
    /\ UNCHANGED <<timeVars, modeVars, segundos_alarma_activa, buzzerVars, poll, timer, pins>>

-----------------------------------------------------------------------------
(* handle_pwm_buzzer() *)

\* Half a PWM period in the timer, and the number of turns of the sound.
StartBuzzer ==
    /\ pc = "pwmStart"
    /\ timer' = Reprogrammed(timer, buzzer_pwm_half_period)
    /\ buzzer_pwm_cycles' = PWM_CYCLES
    /\ pc' = IF PWM_CYCLES > 0 THEN "pwmPoll" ELSE "pwmStop"
    /\ UNCHANGED <<timeVars, modeVars, alarmVars, buzzer_state, buzzer_pwm_counter, BUZZER,
                   poll, pins>>

\* Mistake: the keys are read once in each PWM cycle.
PwmReadButtons_OncePerCycle ==
    /\ pc = "pwmPoll"
    /\ poll' = [poll EXCEPT !.buttons = IF buzzer_pwm_counter = 0 THEN buttons
                                        ELSE prev_buttons_state]
    /\ pc' = "pwmRead"
    /\ UNCHANGED <<timeVars, modeVars, alarmVars, buzzerVars, timer, pins>>

\* The two samples of a turn, both taken before the wait.
PwmReadButtons ==
    /\ pc = "pwmPoll"
    /\ poll' = [poll EXCEPT !.buttons = buttons]
    /\ pc' = "pwmRead"
    /\ UNCHANGED <<timeVars, modeVars, alarmVars, buzzerVars, timer, pins>>

PwmReadSwitch ==
    /\ pc = "pwmRead"
    /\ poll' = [poll EXCEPT !.switch = switch, !.leds = LEDS]
    /\ pc' = "pwmWait"
    /\ UNCHANGED <<timeVars, modeVars, alarmVars, buzzerVars, timer, pins>>

\* Every half_period-th turn of the loop is the end of a "second".
PwmSecond == buzzer_pwm_counter + 1 >= buzzer_pwm_half_period

PwmAge == IF PwmSecond THEN Increment8(segundos_alarma_activa) ELSE segundos_alarma_activa

\* Mistake: one second late.
PwmTimeout_Late == PwmAge > ALARM_SECONDS

PwmTimeout == PwmAge = ALARM_SECONDS

PwmDismissed ==
    poll.buttons # prev_buttons_state /\ poll.switch /\ poll.leds = ALL_LEDS

\* Mistake: the buzzer is not silenced with the LEDs.
BuzzerLevel_Stays(quiet) == 1 - buzzer_state

\* The pin after the toggle and, when the alarm ends, the write that silences it.
BuzzerLevel(quiet) == IF quiet THEN 0 ELSE 1 - buzzer_state

\* One half period: toggle the buzzer, count, and end the alarm after
\* ALARM_SECONDS or when the samples say that a key changed.
PwmHalfPeriod ==
    LET quiet == PwmTimeout \/ PwmDismissed
    IN  /\ pc = "pwmWait"
        /\ wait_for_timer
        /\ buzzer_state' = 1 - buzzer_state
        /\ BUZZER' = BuzzerLevel(quiet)
        /\ buzzer_pwm_counter' = IF PwmSecond THEN 0 ELSE buzzer_pwm_counter + 1
        /\ buzzer_pwm_cycles' = IF PwmSecond THEN buzzer_pwm_cycles - 1 ELSE buzzer_pwm_cycles
        /\ clock' = IF PwmSecond THEN Advance(clock) ELSE clock
        /\ display' = IF PwmSecond THEN update_all(display, clock') ELSE display
        /\ segundos_alarma_activa' = IF PwmTimeout THEN 0 ELSE PwmAge
        /\ LEDS' = IF quiet THEN 0 ELSE LEDS
        /\ poll' = NoPoll
        /\ pc' = IF quiet \/ buzzer_pwm_cycles' = 0 THEN "pwmStop" ELSE "pwmPoll"
        /\ UNCHANGED <<alarm, modeVars, alarma_activa, pins>>

\* "Detén el temporizador": control <- 0, which has no STOP bit.
StopBuzzer ==
    /\ pc = "pwmStop"
    /\ timer' = AfterControl(timer, FALSE, FALSE, FALSE)
    /\ pc' = "restore"
    /\ UNCHANGED <<timeVars, modeVars, alarmVars, buzzerVars, poll, pins>>

\* Back in main(): the timer counts seconds again.
Restore ==
    /\ pc = "restore"
    /\ alarma_activa' = FALSE
    /\ init_timer
    /\ pc' = "poll"
    /\ UNCHANGED <<timeVars, modeVars, segundos_alarma_activa, LEDS, buzzerVars, poll, pins>>

-----------------------------------------------------------------------------
(* The environment: the timer, and the person at the keys and the switch. *)

TimerExpires ==
    /\ timer.mode # "stopped"
    /\ timer' = Expired(timer)
    /\ UNCHANGED <<firmware, pins>>

KeyChanges(key) ==
    /\ buttons' = IF key \in buttons THEN buttons \ {key} ELSE buttons \cup {key}
    /\ UNCHANGED <<firmware, timer, switch>>

SwitchFlips ==
    /\ switch' = ~switch
    /\ UNCHANGED <<firmware, timer, buttons>>

-----------------------------------------------------------------------------

Main == Boot \/ ReadButtons \/ Act \/ CountSecond \/ CheckAlarm \/ Restore

Buzzer == StartBuzzer \/ PwmReadButtons \/ PwmReadSwitch \/ PwmHalfPeriod \/ StopBuzzer

Firmware == Main \/ Buzzer

Person == SwitchFlips \/ \E key \in KEYS : KeyChanges(key)

Next == Firmware \/ TimerExpires \/ Person

\* The processor never stops, and a running timer reaches zero.  Nothing is
\* assumed of the person.
Fairness == WF_vars(Firmware) /\ WF_vars(TimerExpires)

Spec == Init /\ [][Next]_vars /\ Fairness

-----------------------------------------------------------------------------
(* Safety. *)

\* At the head of the loop the alarm is over: LEDs and buzzer are off, the
\* flag is clear and the age of the alarm is below its limit.  The buzzer is
\* silenced on only two of the three exits of its loop; the third, the end
\* of the PWM cycles, must never be the one taken.
SilentAtRest ==
    pc \in {"poll", "act", "wait"} =>
        /\ LEDS = 0 /\ BUZZER = 0
        /\ ~alarma_activa
        /\ segundos_alarma_activa < ALARM_SECONDS

\* A person reads the clock on the six displays, in set mode, while counting
\* and while the alarm rings: every path that moves the time redraws what moved.
DisplayShowsTime == pc # "boot" => TimeOn(display) = clock

\* The two users of the one timer: a second is only waited for with the
\* second in the period registers, half a PWM period only with the half
\* period, and in both the timer is running, or the busy wait would never end.
WaitsOnItsTimer ==
    /\ pc = "wait" => timer.period = CLOCK_FREQUENCY
    /\ pc = "pwmWait" => timer.period = buzzer_pwm_half_period
    /\ pc \in {"wait", "pwmWait"} => timer.mode = "running" /\ timer.continuous

\* Whenever the buzzer may sound, the alarm is active and all the LEDs are lit.
SoundWithLight == BUZZER = 1 => alarma_activa /\ LEDS = ALL_LEDS

\* While the loop counts, the only way the time moves is one second forward,
\* in the order of the day; the keys move it in set mode alone.
CountsForward ==
    [][clock' # clock =>
          \/ SecondOfDay(clock') = (SecondOfDay(clock) + 1) % SecondsInDay
          \/ ~switch /\ pc = "act"]_vars

-----------------------------------------------------------------------------
(* Liveness. *)

\* The loop always comes back to its head, where the keys and the switch are
\* read: no busy wait and no run of the buzzer holds the processor for ever.
LoopAlive == []<>(pc = "poll")

\* With the switch left at counting, an alarm that has been set comes round
\* again and again, whatever was pressed before and whatever is pressed while
\* it rings.
AlarmRings == <>[]switch => []<>(LEDS = ALL_LEDS) \/ <>[](alarm = NoTime)
=============================================================================
