------------------------------- MODULE StartUp -------------------------------
(***************************************************************************)
(* The start of the final firmware in the memory of the system: the reset  *)
(* vector, _start, and the writes to the direction registers main() begins *)
(* with, through the address decoder of the interconnect                   *)
(* (TimerWithClock_mm_interconnect_0_router.sv).                           *)
(*                                                                         *)
(* The memory is loaded by the debugger, which then starts the program.    *)
(* The one reset of the system is the debugger's too, and a reset loads    *)
(* nothing.  Addresses are bytes; memory words are named by their offset.  *)
(***************************************************************************)
EXTENDS Naturals

CONSTANT RESETS   \* bound on the resets

VARIABLES
    where,   \* "startup", "main" (its first writes) or "loop"
    pc,      \* in "startup"
    write,   \* in "main": the write to be made
    lost,    \* offsets of the words of the program that have been overwritten by 0
    resets

vars == <<where, pc, write, lost, resets>>

SRAM_SPAN == 4096

RESET_ADDR == 4096   \* 0x1000
_start     == 4128   \* 0x1020

\* What the decoder of the data master knows: base and end of a slave, and
\* whether it takes writes.  The input ports have no writes to take.
Device(base, end, writes) == [base |-> base, end |-> end, writes |-> writes]

Decoder ==
    [BUZZER         |-> Device(0, 16, TRUE),
     SRAM           |-> Device(4096, 8192, TRUE),
     debug_mem      |-> Device(10240, 12288, TRUE),
     TIMER          |-> Device(12288, 12320, TRUE),
     SWITCH         |-> Device(12320, 12336, FALSE),
     SSEG_HOUR_TENS |-> Device(12336, 12352, TRUE),
     SSEG_SEC_TENS  |-> Device(12352, 12368, TRUE),
     BUTTONS        |-> Device(12368, 12384, FALSE),
     SSEG_MINS_TENS |-> Device(12384, 12400, TRUE),
     SSEG_SEC_UNITS |-> Device(12400, 12416, TRUE),
     SSEG_MIN_UNITS |-> Device(12416, 12432, TRUE),
     SSEG_HOUR_UNITS |-> Device(12432, 12448, TRUE),
     LEDS           |-> Device(12448, 12464, TRUE),
     DEBUG          |-> Device(12464, 12472, TRUE)]

Decoded(address) ==
    {d \in DOMAIN Decoder : Decoder[d].base <= address /\ address < Decoder[d].end
                            /\ Decoder[d].writes}

\* A write that no slave claims goes to the default one, the memory, which
\* looks at the low bits of the address.
ReachesMemory(address) == Decoded(address) \subseteq {"SRAM"}

Offset(address) == address % SRAM_SPAN

Ports == <<"LEDS", "BUTTONS", "SWITCH", "SSEG_HOUR_TENS", "SSEG_HOUR_UNITS", "SSEG_MINS_TENS",
           "SSEG_MIN_UNITS", "SSEG_SEC_TENS", "SSEG_SEC_UNITS", "BUZZER">>

\* Register 1 of a port.
Direction(port) == Decoder[port].base + 4

-----------------------------------------------------------------------------

Init ==
    /\ where = "startup" /\ pc = _start /\ write = 1
    /\ lost = {} /\ resets = 0

\* An instruction of the reset vector (0x1000 .. 0x1008) or of _start (0x1020 ..
\* 0x1054, whose loop over .bss is run through once).  Fetches are decoded like
\* writes: address 0 is the memory's offset 0.  A word that is 0 is call 0.
Execute ==
    /\ where = "startup"
    /\ LET offset == Offset(pc)
       IN  CASE offset \in lost -> pc' = 0 /\ UNCHANGED <<where, write>>
             [] offset \notin lost /\ offset = 8  -> pc' = _start /\ UNCHANGED <<where, write>>
             [] offset \notin lost /\ offset = 84 -> where' = "main" /\ write' = 1 /\ UNCHANGED pc
             [] OTHER -> pc' = pc + 4 /\ UNCHANGED <<where, write>>
    /\ UNCHANGED <<lost, resets>>

\* The output ports have no direction register: only an input port, which is
\* not reached at all, makes the write anything but a write without effect.
WriteDirection ==
    /\ where = "main"
    /\ LET address == Direction(Ports[write])
       IN  lost' = IF ReachesMemory(address) THEN lost \cup {Offset(address)} ELSE lost
    /\ IF write = 10 THEN where' = "loop" /\ UNCHANGED write
                     ELSE write' = write + 1 /\ UNCHANGED where
    /\ UNCHANGED <<pc, resets>>

Run == where = "loop" /\ UNCHANGED vars

\* The debugger resets the processor.
Reset ==
    /\ resets < RESETS
    /\ resets' = resets + 1
    /\ where' = "startup" /\ pc' = RESET_ADDR
    /\ UNCHANGED <<write, lost>>

Next == Execute \/ WriteDirection \/ Run \/ Reset

Spec == Init /\ [][Next]_vars /\ WF_vars(Execute \/ WriteDirection)

-----------------------------------------------------------------------------

\* "Botones como entradas", "Switch como entrada": the writes that are meant to
\* make ports of the keys and the switch overwrite two words of _start, and the
\* program cannot be started by a reset any more.
StartsAgain == []<>(where = "loop")

\* The words that are lost are behind the program when they are: nothing that
\* main() runs is overwritten.
OnlyStartUpIsLost == lost \subseteq {36, 84}
=============================================================================
