--------------------------- MODULE AlarmClockClaims ---------------------------
(***************************************************************************)
(* What the comments of the firmware say of it, as properties.  The code   *)
(* disagrees with each of them; README.md tells why, property by property. *)
(***************************************************************************)
EXTENDS AlarmClockHistory

VARIABLE touched   \* a key has changed since the alarm began to ring

claimVars == <<historyVars, touched>>

ClaimsInit == HistoryInit /\ touched = FALSE

ClaimsNext ==
    /\ HistoryNext
    /\ touched' = (Ringing /\ Ringing' /\ (touched \/ buttons' # buttons))

ClaimsSpec == ClaimsInit /\ [][ClaimsNext]_claimVars /\ Fairness

PwmTurn == pc = "pwmWait" /\ pc' # "pwmWait"

\* "Apaga los LEDs después de 30 segundos": an alarm that ends by its timeout
\* has lasted ALARM_SECONDS.
AlarmFullLength == [][PwmTurn /\ PwmTimeout => rung + 1 = ALARM_SECONDS]_claimVars

\* "Apaga los LEDs cuando se presiona el botón y el switch está activado": an
\* alarm that ends by a key has had a key touched while it rang.
DismissNeedsTouch ==
    [][PwmTurn /\ PwmDismissed /\ ~PwmTimeout => touched]_claimVars
=============================================================================
