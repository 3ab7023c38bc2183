---------------------------- MODULE AvalonTimer ----------------------------
(***************************************************************************)
(* TimerWithClock_TIMER.v, the interval timer of the system, register by   *)
(* register.  A step is a rising edge of the clock, with at most one bus   *)
(* write; every register takes a value computed from the old ones, so the  *)
(* order of the hardware's always blocks does not matter.                  *)
(*                                                                         *)
(* A period register is 16 bits wide; here it has HALF values.  The        *)
(* snapshot registers and the interrupt output are left out: they feed     *)
(* nothing else, and no software reads them.                               *)
(***************************************************************************)
EXTENDS Naturals

CONSTANTS
    HALF,          \* values of a period register (2^16)
    RESET_PERIOD   \* the period after reset (49 999 999)

ASSUME AvalonTimerAssumption ==
    /\ HALF \in Nat \ {0}
    /\ RESET_PERIOD \in 0 .. HALF * HALF - 1
    /\ RESET_PERIOD % HALF # 0

VARIABLES
    internal_counter,
    period_l_register, period_h_register,
    control_continuous,
    force_reload,
    counter_is_running,
    delayed_zero,        \* delayed_unxcounter_is_zeroxx0
    timeout_occurred

registers == <<internal_counter, period_l_register, period_h_register, control_continuous,
               force_reload, counter_is_running, delayed_zero, timeout_occurred>>

Half == 0 .. HALF - 1

TypeOK ==
    /\ internal_counter \in 0 .. HALF * HALF - 1
    /\ period_l_register \in Half \ {0} /\ period_h_register \in Half
    /\ control_continuous \in BOOLEAN /\ force_reload \in BOOLEAN
    /\ counter_is_running \in BOOLEAN /\ delayed_zero \in BOOLEAN
    /\ timeout_occurred \in BOOLEAN

Init ==
    /\ internal_counter = RESET_PERIOD
    /\ period_l_register = RESET_PERIOD % HALF
    /\ period_h_register = RESET_PERIOD \div HALF
    /\ control_continuous = FALSE /\ force_reload = FALSE
    /\ counter_is_running = FALSE /\ delayed_zero = FALSE
    /\ timeout_occurred = FALSE

counter_load_value == period_h_register * HALF + period_l_register

counter_is_zero == internal_counter = 0

timeout_event == counter_is_zero /\ ~delayed_zero

-----------------------------------------------------------------------------

\* Mistakes: a counter that is not reloaded at zero and runs below it, or
\* is reloaded before it, or with one clock less.
NextCount_Below ==
    IF force_reload THEN counter_load_value
    ELSE IF counter_is_running THEN internal_counter - 1
    ELSE internal_counter
NextCount_Early ==
    IF force_reload \/ (counter_is_running /\ internal_counter <= 1) THEN counter_load_value
    ELSE IF counter_is_running THEN internal_counter - 1
    ELSE internal_counter
NextCount_Short ==
    IF force_reload \/ (counter_is_running /\ counter_is_zero) THEN counter_load_value - 1
    ELSE IF counter_is_running THEN internal_counter - 1
    ELSE internal_counter

\* The counter reloads when it is forced to or has run to zero.
NextCount ==
    IF force_reload \/ (counter_is_running /\ counter_is_zero) THEN counter_load_value
    ELSE IF counter_is_running THEN internal_counter - 1
    ELSE internal_counter

do_stop_counter(stop_strobe) ==
    stop_strobe \/ force_reload \/ (counter_is_zero /\ ~control_continuous)

\* Mistake: stopping wins over starting.
NextRunning_StopWins(start_strobe, stop_strobe) ==
    ~do_stop_counter(stop_strobe) /\ (start_strobe \/ counter_is_running)

NextRunning(start_strobe, stop_strobe) ==
    start_strobe \/ (counter_is_running /\ ~do_stop_counter(stop_strobe))

\* The registers the bus does not write itself, at an edge with these strobes.
Edge(start_strobe, stop_strobe, status_wr_strobe, period_wr_strobe) ==
    /\ internal_counter' = NextCount
    /\ force_reload' = period_wr_strobe
    /\ counter_is_running' = NextRunning(start_strobe, stop_strobe)
    /\ delayed_zero' = counter_is_zero
    /\ timeout_occurred' = (~status_wr_strobe /\ (timeout_event \/ timeout_occurred))

Count ==
    /\ Edge(FALSE, FALSE, FALSE, FALSE)
    /\ UNCHANGED <<period_l_register, period_h_register, control_continuous>>

WriteStatus ==
    /\ Edge(FALSE, FALSE, TRUE, FALSE)
    /\ UNCHANGED <<period_l_register, period_h_register, control_continuous>>

WriteControl(start, stop, cont) ==
    /\ Edge(start, stop, FALSE, FALSE)
    /\ control_continuous' = cont
    /\ UNCHANGED <<period_l_register, period_h_register>>

WritePeriodL(data) ==
    /\ Edge(FALSE, FALSE, FALSE, TRUE)
    /\ period_l_register' = data
    /\ UNCHANGED <<period_h_register, control_continuous>>

WritePeriodH(data) ==
    /\ Edge(FALSE, FALSE, FALSE, TRUE)
    /\ period_h_register' = data
    /\ UNCHANGED <<period_l_register, control_continuous>>

\* No program writes a low half of 0 (those of the second are 61567 and 61568,
\* those of the half PWM period 7183 and 50000), so the counter is never loaded
\* with 0, even between the two period writes.
Next ==
    \/ Count
    \/ WriteStatus
    \/ \E start, stop, cont \in BOOLEAN : WriteControl(start, stop, cont)
    \/ \E data \in Half \ {0} : WritePeriodL(data)
    \/ \E data \in Half : WritePeriodH(data)

\* The clock does not stop.
Spec == Init /\ [][Next]_registers /\ WF_registers(Next)

-----------------------------------------------------------------------------

\* A counter that is running and about to be stopped by a reload no longer
\* counts; an event may still be on its way.
Mode == CASE counter_is_running /\ ~force_reload -> "running"
          [] ~(counter_is_running /\ ~force_reload) /\ timeout_event -> "last"
          [] OTHER -> "stopped"

Interface ==
    INSTANCE IntervalTimer WITH
        timer <- [mode |-> Mode, continuous |-> control_continuous,
                  to |-> timeout_occurred, period |-> counter_load_value]

\* The registers implement the timer that the firmware is modelled against:
\* every edge, with or without a write, has the effect that software counts on.
ImplementsInterface ==
    /\ Interface!TimerInit(RESET_PERIOD)
    /\ [][/\ Count => Interface!Counts
          /\ WriteStatus => Interface!StatusWritten
          /\ \A start, stop, cont \in BOOLEAN :
                WriteControl(start, stop, cont) => Interface!ControlWritten(start, stop, cont)
          /\ \A data \in Half \ {0} :
                WritePeriodL(data) => Interface!PeriodWritten(period_h_register * HALF + data)
          /\ \A data \in Half :
                WritePeriodH(data) => Interface!PeriodWritten(data * HALF + period_l_register)
         ]_registers

\* A timer left running in continuous mode keeps expiring: the reason why the firmware's busy waits end.
KeepsExpiring ==
    <>[](Mode = "running" /\ control_continuous) => []<>timeout_event
=============================================================================
