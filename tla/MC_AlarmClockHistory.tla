------------------------- MODULE MC_AlarmClockHistory -------------------------
(***************************************************************************)
(* AlarmClockHistory for TLC, in a day of a few seconds, and the numbers   *)
(* that are written in the code: the assumptions the theorems make of the  *)
(* constants hold of them too.                                             *)
(***************************************************************************)
EXTENDS AlarmClockHistory

\* CLOCK_FREQUENCY, PWM_FREQUENCY and the microseconds of a second, and the 30
\* of the alarm: the half period is not 0, and the alarm ends before the cycles
\* of the buzzer do.
ASSUME CodeConstants ==
    LET half == (50000000 \div 3480) \div 2
    IN  half > 0 /\ 30 <= (1000 * 1000) \div (2 * half)
=============================================================================
