----------------------------- MODULE AlarmDevice -----------------------------
(***************************************************************************)
(* What the alarm clock promises its owner, without keys, polls, timers or *)
(* PWM: a time of day that moves one second at a time or is set, and an    *)
(* alarm that starts to ring exactly when counting reaches the alarm time, *)
(* rings less than ALARM_SECONDS full seconds before its last one, and     *)
(* always stops.                                                           *)
(***************************************************************************)
EXTENDS TimeOfDay

CONSTANT ALARM_SECONDS

VARIABLES
    time,
    alarmAt,
    ringing,
    rung      \* full seconds the alarm has been ringing

deviceVars == <<time, alarmAt, ringing, rung>>

Init ==
    /\ time = Midnight
    /\ alarmAt = NoTime
    /\ ringing = FALSE
    /\ rung = 0

\* Set mode: fields are stepped, and the alarm may be set to the result.
SetTime(fields, setAlarm) ==
    /\ ~ringing
    /\ time' = Adjusted(time, fields)
    /\ alarmAt' = IF setAlarm THEN time' ELSE alarmAt
    /\ UNCHANGED <<ringing, rung>>

\* A second of silence, which may be the one that reaches the alarm.
Second ==
    /\ ~ringing
    /\ time' = Advance(time)
    /\ ringing' = (time' = alarmAt)
    /\ UNCHANGED <<alarmAt, rung>>

\* A second of noise after which the alarm goes on.
RingOn ==
    /\ ringing /\ rung + 1 < ALARM_SECONDS
    /\ time' = Advance(time)
    /\ rung' = rung + 1
    /\ UNCHANGED <<alarmAt, ringing>>

\* The alarm stops, at the end of a second or, dismissed, within one.
Stop ==
    /\ ringing
    /\ time' \in {time, Advance(time)}
    /\ ringing' = FALSE
    /\ rung' = 0
    /\ UNCHANGED alarmAt

Next ==
    \/ \E fields \in SUBSET {"horas", "minutos", "segundos"}, setAlarm \in BOOLEAN :
           SetTime(fields, setAlarm)
    \/ Second
    \/ RingOn
    \/ Stop

Spec == Init /\ [][Next]_deviceVars /\ WF_deviceVars(Stop)
=============================================================================
