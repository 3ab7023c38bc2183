------------------------------- MODULE Drivers -------------------------------
(***************************************************************************)
(* The input and output functions of the final firmware (Final2), one bus  *)
(* access at a time: debounce_buttons(), the four writes that reprogram    *)
(* the timer, wait_for_timer() and the update functions of the display.    *)
(* Between two accesses the timer may expire and the keys may bounce.      *)
(*                                                                         *)
(* main() may call them in any order; a call begins with its first access, *)
(* from pc = "idle".  The reads of STATUS that find TO clear change        *)
(* nothing and are left to stuttering.                                     *)
(***************************************************************************)
EXTENDS TimeOfDay, IntervalTimer, Sequences

CONSTANTS
    READS,         \* turns of the loop of debounce_buttons()  (10 000 in the code)
    HALF,          \* values of a half of the period            (2^16)
    KEYS,          \* the keys somebody may touch
    LOADS,         \* the values loaded in the timer            (50 000 000 and 7183)
    RESET_PERIOD   \* the period after reset                    (49 999 999)

ASSUME DriversAssumption ==
    /\ READS \in Nat \ {0}
    /\ HALF \in Nat \ {0}
    /\ LOADS \cup {RESET_PERIOD} \subseteq 0 .. HALF * HALF - 1

\* The variable timer of module IntervalTimer, and:
VARIABLES
    pc,             \* the access main() is about to make
    last_state,
    stable_state,
    turn,           \* the i of debounce_buttons()
    load,           \* the value being written to the period registers
    clock,          \* horas, minutos, segundos
    todo,           \* the ports still to be written
    display,        \* the six output ports
    buttons         \* the key pins that are 1

debounceVars == <<last_state, stable_state, turn>>
drawVars     == <<clock, todo, display>>
vars         == <<timer, pc, debounceVars, load, drawVars, buttons>>

PortsOf(field) == <<<<field, "tens">>, <<field, "units">>>>
AllPorts       == PortsOf("horas") \o PortsOf("minutos") \o PortsOf("segundos")

TypeOK ==
    /\ pc \in {"idle", "debounce", "periodL", "periodH", "start", "clear", "draw"}
    /\ last_state \subseteq KEYS /\ stable_state \subseteq KEYS
    /\ turn \in 0 .. READS
    /\ load \in LOADS \cup {0}
    /\ clock \in Times
    /\ Len(todo) \in 0 .. 6
    /\ display \in Displays
    /\ timer \in Timers(0 .. HALF * HALF - 1)
    /\ buttons \subseteq KEYS

\* After reset, with the first drawing of the display to be made.
Init ==
    /\ TimerInit(RESET_PERIOD)
    /\ pc = "draw" /\ todo = AllPorts /\ clock = Midnight /\ display = ResetDisplay
    /\ last_state = {} /\ stable_state = {} /\ turn = 0
    /\ load = 0
    /\ buttons \in SUBSET KEYS

-----------------------------------------------------------------------------
(* debounce_buttons() *)

FirstRead ==
    /\ pc = "idle"
    /\ last_state' = buttons /\ turn' = 0
    /\ pc' = "debounce"
    /\ UNCHANGED <<timer, stable_state, load, drawVars, buttons>>

\* Mistakes: every read is compared with the first; the turns are not counted,
\* or one of them too many.
NextRead_First ==
    /\ pc = "debounce"
    /\ stable_state' = buttons
    /\ turn' = turn + 1
    /\ pc' = IF buttons = last_state \/ turn' = READS THEN "idle" ELSE pc
    /\ UNCHANGED <<timer, load, drawVars, buttons, last_state>>
NextRead_Forever ==
    /\ pc = "debounce"
    /\ stable_state' = buttons /\ last_state' = buttons
    /\ turn' = turn
    /\ pc' = IF buttons = last_state THEN "idle" ELSE pc
    /\ UNCHANGED <<timer, load, drawVars, buttons>>
NextRead_OneMore ==
    /\ pc = "debounce"
    /\ stable_state' = buttons /\ last_state' = buttons
    /\ turn' = turn + 1
    /\ pc' = IF buttons = last_state \/ turn' > READS THEN "idle" ELSE pc
    /\ UNCHANGED <<timer, load, drawVars, buttons>>

\* Two equal reads in a row end the loop, or READS of them.
NextRead ==
    /\ pc = "debounce"
    /\ stable_state' = buttons /\ last_state' = buttons
    /\ turn' = turn + 1
    /\ pc' = IF buttons = last_state \/ turn' = READS THEN "idle" ELSE pc
    /\ UNCHANGED <<timer, load, drawVars, buttons>>

-----------------------------------------------------------------------------
(* init_timer() and the head of handle_pwm_buzzer() *)

StopTimer ==
    /\ pc = "idle"
    /\ timer' = AfterControl(timer, FALSE, FALSE, FALSE)
    /\ load' \in LOADS
    /\ pc' = "periodL"
    /\ UNCHANGED <<debounceVars, drawVars, buttons>>

\* A half of the period is written: the other one stays.
LowHalf(p)  == p % HALF
HighHalf(p) == (p \div HALF) * HALF

WritePeriodL ==
    /\ pc = "periodL"
    /\ timer' = AfterPeriod(timer, HighHalf(timer.period) + LowHalf(load))
    /\ pc' = "periodH"
    /\ UNCHANGED <<debounceVars, load, drawVars, buttons>>

WritePeriodH ==
    /\ pc = "periodH"
    /\ timer' = AfterPeriod(timer, HighHalf(load) + LowHalf(timer.period))
    /\ pc' = "start"
    /\ UNCHANGED <<debounceVars, load, drawVars, buttons>>

\* Mistake: a counter that still runs is taken for one that has been restarted.
StartTimer_IfStopped ==
    /\ pc = "start"
    /\ timer' = IF timer.mode = "last" THEN timer ELSE AfterControl(timer, TRUE, FALSE, TRUE)
    /\ pc' = "idle"
    /\ UNCHANGED <<debounceVars, load, drawVars, buttons>>

StartTimer ==
    /\ pc = "start"
    /\ timer' = AfterControl(timer, TRUE, FALSE, TRUE)
    /\ pc' = "idle"
    /\ UNCHANGED <<debounceVars, load, drawVars, buttons>>

\* The tail of handle_pwm_buzzer(): a lone write of CONTROL.
SilenceTimer ==
    /\ pc = "idle"
    /\ timer' = AfterControl(timer, FALSE, FALSE, FALSE)
    /\ UNCHANGED <<pc, debounceVars, load, drawVars, buttons>>

-----------------------------------------------------------------------------
(* wait_for_timer(): the read that finds TO set, and the write that clears it. *)

SeeTimeout ==
    /\ pc = "idle"
    /\ timer.to
    /\ pc' = "clear"
    /\ UNCHANGED <<timer, debounceVars, load, drawVars, buttons>>

ClearTimeout ==
    /\ pc = "clear"
    /\ timer' = AfterStatus(timer)
    /\ pc' = "idle"
    /\ UNCHANGED <<debounceVars, load, drawVars, buttons>>

-----------------------------------------------------------------------------
(* update_hours(), update_minutes() and update_seconds() *)

\* The globals have moved: by a counted second, or by one key in set mode.
Moved ==
    \/ clock' = Advance(clock) /\ todo' = AllPorts
    \/ \E field \in {"horas", "minutos", "segundos"} :
           clock' = Adjusted(clock, {field}) /\ todo' = PortsOf(field)

StartDrawing ==
    /\ pc = "idle"
    /\ Moved
    /\ pc' = "draw"
    /\ UNCHANGED <<timer, debounceVars, load, display, buttons>>

\* Mistake: tens and units go to each other's port.
Digit_Swapped(n, part) == IF part = "tens" THEN n % 10 ELSE n \div 10

Digit(n, part) == IF part = "tens" THEN n \div 10 ELSE n % 10

WriteDigit ==
    /\ pc = "draw"
    /\ LET field == Head(todo)[1]
           part  == Head(todo)[2]
       IN  display' = [display EXCEPT ![field][part] =
                           display_digit(@, Digit(clock[field], part))]
    /\ todo' = Tail(todo)
    /\ pc' = IF todo' = <<>> THEN "idle" ELSE pc
    /\ UNCHANGED <<timer, debounceVars, load, clock, buttons>>

-----------------------------------------------------------------------------
(* The timer and the keys. *)

TimerExpires ==
    /\ timer.mode # "stopped"
    /\ timer' = Expired(timer)
    /\ UNCHANGED <<pc, debounceVars, load, drawVars, buttons>>

KeyBounces(key) ==
    /\ buttons' = IF key \in buttons THEN buttons \ {key} ELSE buttons \cup {key}
    /\ UNCHANGED <<timer, pc, debounceVars, load, drawVars>>

-----------------------------------------------------------------------------

Begins == FirstRead \/ StopTimer \/ SilenceTimer \/ SeeTimeout \/ StartDrawing

GoesOn == NextRead \/ WritePeriodL \/ WritePeriodH \/ StartTimer \/ ClearTimeout \/ WriteDigit

Next == Begins \/ GoesOn \/ TimerExpires \/ \E key \in KEYS : KeyBounces(key)

\* The processor goes on with a call it has begun.
Spec == Init /\ [][Next]_vars /\ WF_vars(GoesOn)

\* No call keeps the processor for ever, however long the keys bounce.  (The
\* one loop without a bound, that of wait_for_timer(), is before its call here:
\* WaitsOnItsTimer and LoopAlive of module AlarmClock are about it.)
CallsReturn == []<>(pc = "idle")
=============================================================================
