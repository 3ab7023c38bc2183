---------------------------- MODULE MC_SystemBus ----------------------------
(***************************************************************************)
(* An instance of SystemBus for TLC with a slave of each kind: the memory  *)
(* and the debug memory, which both masters reach, a device that waits     *)
(* once before it is read, and one that raises its own wait request.       *)
(***************************************************************************)
EXTENDS SystemBus

MCSlaves == {"SRAM", "debug_mem", "TIMER", "DEBUG"}

MCWait == [s \in MCSlaves |-> CASE s = "SRAM"                  -> "none"
                                [] s = "TIMER"                 -> "one"
                                [] s \in {"debug_mem", "DEBUG"} -> "own"]

MCInstructions ==
    [kind : {"load"}, at : MCSlaves, extra : {0, 2, 3}]
    \cup [kind : {"store"}, at : MCSlaves, extra : {0}]
    \cup [kind : {"shift"}, at : {"SRAM"}, extra : {0, 1, 2}]
    \cup [kind : {"other"}, at : {"SRAM"}, extra : {0}]
=============================================================================
