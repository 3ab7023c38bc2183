------------------------- MODULE InstructionMachine -------------------------
(***************************************************************************)
(* What a program may count on, without pipeline stages, arbiters and wait *)
(* requests: instructions follow each other, and a load or a store makes   *)
(* its one access before the next instruction is fetched.                  *)
(***************************************************************************)
EXTENDS Naturals

CONSTANT INSTRUCTIONS

VARIABLES
    stage,          \* "fetch" or "execute"
    instruction,
    accesses        \* accesses the slaves have seen from it

machineVars == <<stage, instruction, accesses>>

Accesses(iw) == IF iw.kind \in {"load", "store"} THEN 1 ELSE 0

Init == stage = "fetch" /\ instruction \in INSTRUCTIONS /\ accesses = 0

Fetch ==
    /\ stage = "fetch"
    /\ stage' = "execute"
    /\ instruction' \in INSTRUCTIONS
    /\ accesses' = 0

Access ==
    /\ stage = "execute"
    /\ accesses < Accesses(instruction)
    /\ accesses' = accesses + 1
    /\ UNCHANGED <<stage, instruction>>

Retire ==
    /\ stage = "execute"
    /\ accesses = Accesses(instruction)
    /\ stage' = "fetch"
    /\ UNCHANGED <<instruction, accesses>>

Next == Fetch \/ Access \/ Retire

Spec == Init /\ [][Next]_machineVars /\ WF_machineVars(Next)
=============================================================================
