--------------------------- MODULE FirstAlarmClock ---------------------------
(***************************************************************************)
(* The first firmware, software/TimerWithC: counting follows the edges of  *)
(* the switch and not its level, and a lit alarm stays lit until the alarm *)
(* key is pressed with the switch on.                                      *)
(***************************************************************************)
EXTENDS SwitchEdges

vars == <<panelVars, switch_state, timer, pins>>

TypeOK ==
    /\ PanelTypeOK
    /\ pc \in {"boot", "poll", "act", "wait", "check"}
    /\ timer \in Timers({RESET_PERIOD, SECOND})
    /\ switch_state \in BOOLEAN

Init == PanelInit(NoTime) /\ switch_state = FALSE

-----------------------------------------------------------------------------

Start ==
    /\ Boot
    /\ switch_state' = switch
    /\ display' = update_all(display, clock)

Read == ReadButtons /\ UNCHANGED switch_state

DarkenOnKey ==
    LEDS' = IF switch /\ "alarma" \in Risen /\ LEDS # 0 THEN 0 ELSE LEDS

\* From the read of the switch to the wait, or to the comparison.
Act ==
    /\ pc = "act"
    /\ SetTime
    /\ display' = update(display, clock', Pressed)
    /\ prev_buttons_state' = buttons_state
    /\ DarkenOnKey
    /\ FollowSwitch
    /\ buttons_state' = {}
    /\ pc' = IF counting' THEN "wait" ELSE "check"
    /\ UNCHANGED <<timer, pins>>

Count ==
    /\ CountSecond
    /\ display' = update_all(display, clock')
    /\ pc' = "check"
    /\ UNCHANGED <<LEDS, switch_state>>

\* Mistake: the alarm is compared in set mode alone.
Reached_Setting == alarm = clock /\ ~switch_state

\* The comparison asks for the switch, whether or not the clock is counting.
Reached == alarm = clock /\ switch_state

CheckAlarm ==
    /\ pc = "check"
    /\ LEDS' = IF Reached THEN ALL_LEDS ELSE LEDS
    /\ pc' = "poll"
    /\ UNCHANGED <<clock, alarm, counting, prev_buttons_state, buttons_state, display,
                   switch_state, timer, pins>>

Firmware == Start \/ Read \/ Act \/ Count \/ CheckAlarm

Next == Firmware \/ (Outside /\ UNCHANGED switch_state)

\* The processor never stops, and a running timer reaches zero.
Spec == Init /\ [][Next]_vars
             /\ WF_vars(Firmware) /\ WF_vars(TimerExpires /\ UNCHANGED switch_state)

-----------------------------------------------------------------------------

\* With the switch left on, an alarm that has been set is lit again and again,
\* whatever was done with the keys and the switch before.
AlarmRings ==
    <>[]switch => []<>(LEDS = ALL_LEDS) \/ <>[](alarm = NoTime)
=============================================================================
