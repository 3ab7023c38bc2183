----------------------------- MODULE ClockPanel -----------------------------
(***************************************************************************)
(* What the firmwares before the final one have in common: the keys, the   *)
(* switch and the timer, the time of day, and the parts of main() that     *)
(* read the keys, set the time and count a second.  Modules LedAlarmClock, *)
(* FirstAlarmClock and SoundPrototype are made of it.                      *)
(*                                                                         *)
(* An action of main() runs, as in module AlarmClock, from one read of     *)
(* something outside to the next.                                          *)
(***************************************************************************)
EXTENDS TimeOfDay, IntervalTimer

CONSTANTS
    RESET_PERIOD,   \* the period registers of the timer after reset
    SECOND,         \* the value main() loads in them for a second
    KEYS            \* the keys somebody may touch, out of the four

ASSUME ClockPanelAssumption ==
    /\ RESET_PERIOD \in Nat
    /\ SECOND \in Nat
    /\ KEYS \subseteq {"segundos", "minutos", "horas", "alarma"}

ALL_LEDS == 1023

\* The variable timer of module IntervalTimer, and:
VARIABLES
    pc,                   \* where main() is
    clock,                \* horas, minutos, segundos
    alarm,                \* horas_alarma, minutos_alarma, segundos_alarma
    counting,
    prev_buttons_state,   \* the keys that were 1 when last compared
    buttons_state,        \* the keys of this turn
    LEDS, display,        \* output ports
    buttons,              \* the key pins that are 1
    switch                \* the switch pin

pins      == <<buttons, switch>>
panelVars == <<pc, clock, alarm, counting, prev_buttons_state, buttons_state, LEDS, display>>

PanelTypeOK ==
    /\ clock \in Times
    /\ alarm \in Times \cup {NoTime}
    /\ counting \in BOOLEAN
    /\ prev_buttons_state \subseteq KEYS
    /\ buttons_state \subseteq KEYS
    /\ LEDS \in {0, ALL_LEDS}
    /\ display \in Displays
    /\ buttons \subseteq KEYS
    /\ switch \in BOOLEAN

PanelInit(unset) ==
    /\ pc = "boot"
    /\ clock = Midnight /\ alarm = unset
    /\ counting = FALSE
    /\ prev_buttons_state = {} /\ buttons_state = {}
    /\ LEDS = 0 /\ display = ResetDisplay
    /\ TimerInit(RESET_PERIOD)
    /\ buttons \in SUBSET KEYS
    /\ switch \in BOOLEAN

-----------------------------------------------------------------------------

\* Mistake: the timer is started without its continuous mode.
init_timer_OneShot ==
    timer' = AfterControl(AfterPeriod(timer, SECOND), TRUE, FALSE, FALSE)

init_timer == timer' = Reprogrammed(timer, SECOND)

\* Everything before the loop but the first drawing of the display.
Boot ==
    /\ pc = "boot"
    /\ init_timer
    /\ prev_buttons_state' = buttons
    /\ pc' = "poll"
    /\ UNCHANGED <<clock, alarm, counting, buttons_state, LEDS, pins>>

\* debounce_buttons() returns the level of its last read.
ReadButtons ==
    /\ pc = "poll"
    /\ buttons_state' = buttons
    /\ pc' = "act"
    /\ UNCHANGED <<clock, alarm, counting, prev_buttons_state, LEDS, display, timer, pins>>

\* The keys that went from 0 to 1 since they were last compared.
Risen == buttons_state \ prev_buttons_state

\* The keys that take effect in set mode.
Pressed == IF switch THEN {} ELSE Risen

\* Set mode: step the fields; the alarm key copies the clock as they leave it.
SetTime ==
    /\ clock' = Adjusted(clock, Pressed)
    /\ alarm' = IF "alarma" \in Pressed THEN clock' ELSE alarm

RememberInSetMode == prev_buttons_state' = IF switch THEN prev_buttons_state ELSE buttons_state

\* A change of the keys while the switch is on and all LEDs are lit.
KeyDarkens == buttons_state # prev_buttons_state /\ switch /\ LEDS = ALL_LEDS

\* wait_for_timer() and one second more.
CountSecond ==
    /\ pc = "wait"
    /\ timer.to /\ timer' = AfterStatus(timer)
    /\ clock' = Advance(clock)
    /\ UNCHANGED <<alarm, counting, prev_buttons_state, buttons_state, pins>>

-----------------------------------------------------------------------------
(* The timer, and the person at the keys and the switch. *)

TimerExpires ==
    /\ timer.mode # "stopped"
    /\ timer' = Expired(timer)
    /\ UNCHANGED <<panelVars, pins>>

KeyChanges(key) ==
    /\ buttons' = IF key \in buttons THEN buttons \ {key} ELSE buttons \cup {key}
    /\ UNCHANGED <<panelVars, timer, switch>>

SwitchFlips ==
    /\ switch' = ~switch
    /\ UNCHANGED <<panelVars, timer, buttons>>

Outside == TimerExpires \/ SwitchFlips \/ \E key \in KEYS : KeyChanges(key)
=============================================================================
