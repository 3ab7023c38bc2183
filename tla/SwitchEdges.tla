----------------------------- MODULE SwitchEdges -----------------------------
(***************************************************************************)
(* Counting by the edges of the switch and not by its level, which is what *)
(* the first firmware does and no later one: the sample it compares with,  *)
(* and what that has to come to.  Module FirstAlarmClock is made of it.    *)
(***************************************************************************)
EXTENDS ClockPanel

VARIABLE switch_state   \* the switch when last compared

\* Mistake: an edge is looked for before the switch has been read once.
FollowSwitch_Late ==
    /\ counting' = IF switch # switch_state THEN switch_state ELSE counting
    /\ switch_state' = switch

\* Counting changes when the switch does.
FollowSwitch ==
    /\ counting' = IF switch # switch_state THEN switch ELSE counting
    /\ switch_state' = switch

\* With the switch on at power-up the clock stands still, but only until the switch is
\* first seen off: no time and no alarm has been set by then, so that nothing
\* that was set is ever left waiting.
FrozenOnlyAtStart ==
    pc # "boot" /\ counting # switch_state =>
        switch_state /\ clock = Midnight /\ alarm = NoTime
=============================================================================
