-------------------------- MODULE AlarmClockHistory --------------------------
(***************************************************************************)
(* The firmware of module AlarmClock with a record of what has happened:   *)
(* the properties that relate a step to the past are stated over it.  The  *)
(* history follows the program and never restrains it.                     *)
(***************************************************************************)
EXTENDS AlarmClock

VARIABLES
    rung,   \* full seconds since the alarm began to ring
    held,   \* half periods with the keys held away from prev_buttons_state
    rose    \* keys that went from 0 to 1 and have not stepped anything since

historyVars == <<vars, rung, held, rose>>

\* The alarm rings from the second that reaches it until the LEDs go off.
Ringing ==
    \/ LEDS = ALL_LEDS
    \/ pc = "check" /\ counting /\ alarm = clock

\* A key is away from the remembered state and the switch is at counting,
\* while the buzzer sounds.
Dismissing ==
    /\ pc \in {"pwmPoll", "pwmRead", "pwmWait"}
    /\ buttons # prev_buttons_state
    /\ switch

HistoryInit == Init /\ rung = 0 /\ held = 0 /\ rose = {}

Record ==
    /\ rung' = IF ~Ringing' THEN 0
               ELSE IF Ringing /\ clock' # clock THEN rung + 1 ELSE rung
    /\ held' = IF ~Dismissing' \/ ~Dismissing THEN 0
               ELSE IF pc = "pwmWait" /\ pc' # pc THEN held + 1 ELSE held
    /\ rose' = IF pc = "boot" /\ pc' = "poll" THEN {}
               ELSE IF pc = "act" /\ pc' # "act" THEN rose \ Pressed
               ELSE rose \cup (buttons' \ buttons)

HistoryNext == Next /\ Record

HistorySpec == HistoryInit /\ [][HistoryNext]_historyVars /\ Fairness

-----------------------------------------------------------------------------

Device == INSTANCE AlarmDevice WITH time <- clock, alarmAt <- alarm, ringing <- Ringing

\* The firmware implements the device its owner sees: the alarm starts only
\* when counting reaches it, sounds at most ALARM_SECONDS, and always stops.
ImplementsDevice == Device!Spec

\* One press of a key steps its field (or sets the alarm) at most once, however
\* long the key is held, whenever the switch moves and whatever the polls miss.
OnePressOneStep == [][pc = "act" /\ pc' # "act" => Pressed \subseteq rose]_historyVars

\* A key held away from its remembered level silences the alarm by the second
\* half period: the first may still act on a sample taken before the press.
DismissedPromptly == held <= 1
=============================================================================
