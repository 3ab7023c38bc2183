----------------------------- MODULE DriverCalls -----------------------------
(***************************************************************************)
(* The input and output functions of the firmware as main() may think of   *)
(* them, and as modules AlarmClock and ClockPanel use them: every call     *)
(* takes effect at one instant.  Module Drivers is the same functions one  *)
(* bus access at a time, and implements this one.                          *)
(***************************************************************************)
EXTENDS TimeOfDay, IntervalTimer

CONSTANTS
    KEYS,          \* the keys somebody may touch
    LOADS,         \* the values the firmware loads in the timer
    RESET_PERIOD   \* the period registers of the timer after reset

\* The variable timer of module IntervalTimer, and:
VARIABLES
    buttons,        \* the key pins that are 1
    stable_state,   \* what debounce_buttons() returned last
    clock,          \* horas, minutos, segundos
    display         \* the six output ports

callVars == <<timer, buttons, stable_state, clock, display>>

Init ==
    /\ TimerInit(RESET_PERIOD)
    /\ buttons \in SUBSET KEYS
    /\ stable_state = {}
    /\ clock = Midnight
    /\ display = ResetDisplay

debounce_buttons == stable_state' = buttons /\ UNCHANGED <<timer, buttons, clock, display>>

program_timer(load) ==
    /\ timer' = Reprogrammed(timer, load)
    /\ UNCHANGED <<buttons, stable_state, clock, display>>

silence_timer ==
    /\ timer' = AfterControl(timer, FALSE, FALSE, FALSE)
    /\ UNCHANGED <<buttons, stable_state, clock, display>>

wait_for_timer ==
    /\ timer.to /\ timer' = AfterStatus(timer)
    /\ UNCHANGED <<buttons, stable_state, clock, display>>

\* The globals are moved and what moved is drawn.
Redraw(time, fields) ==
    /\ clock' = time
    /\ display' = update(display, time, fields)
    /\ UNCHANGED <<timer, buttons, stable_state>>

Outside ==
    \/ timer.mode # "stopped" /\ timer' = Expired(timer)
                              /\ UNCHANGED <<buttons, stable_state, clock, display>>
    \/ buttons' \in SUBSET KEYS /\ UNCHANGED <<timer, stable_state, clock, display>>

Next ==
    \/ debounce_buttons
    \/ \E load \in LOADS : program_timer(load)
    \/ silence_timer
    \/ wait_for_timer
    \/ Redraw(clock, {"horas", "minutos", "segundos"})
    \/ Redraw(Advance(clock), {"horas", "minutos", "segundos"})
    \/ \E field \in {"horas", "minutos", "segundos"} : Redraw(Adjusted(clock, {field}), {field})
    \/ Outside

Spec == Init /\ [][Next]_callVars
=============================================================================
