------------------------- MODULE AvalonTimerHistory -------------------------
(***************************************************************************)
(* The timer of module AvalonTimer with a stopwatch: how many clocks since *)
(* its last event, as long as nothing has stopped or reloaded it.          *)
(***************************************************************************)
EXTENDS AvalonTimer, Integers

VARIABLE since   \* clocks since the last event; -1 if there is none to count from

historyRegisters == <<registers, since>>

\* The counter runs on into the next clock and is not about to be reloaded.
Undisturbed == counter_is_running /\ counter_is_running' /\ ~force_reload /\ ~force_reload'

HistoryNext ==
    /\ Next
    /\ since' = IF Undisturbed /\ timeout_event THEN 1
                ELSE IF Undisturbed /\ since # -1 THEN since + 1 ELSE -1

HistoryInit == Init /\ since = -1

HistorySpec == HistoryInit /\ [][HistoryNext]_historyRegisters /\ WF_registers(Next)

\* Left alone, the timer expires every period + 1 clocks, whatever is written
\* to its status register meanwhile: a second of the firmware, which loads
\* CLOCK_FREQUENCY, is one clock longer than a second.
PeriodIsLoadPlusOne ==
    timeout_event /\ since # -1 => since = counter_load_value + 1
=============================================================================
