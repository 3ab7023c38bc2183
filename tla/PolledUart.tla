----------------------------- MODULE PolledUart -----------------------------
(***************************************************************************)
(* The polled driver of the JTAG UART, which the board support packages    *)
(* build (-DALT_USE_SMALL_DRIVERS), on the UART of module JtagUart, with a *)
(* host at its other end.  The program writes and reads any number of      *)
(* characters, in any order, and lets a clock pass between two accesses.   *)
(*                                                                         *)
(* A character is a number: each side sends 0, 1, 2, ... modulo CHARS, so  *)
(* that one that is lost, repeated or overtaken is seen.                   *)
(***************************************************************************)
EXTENDS JtagUart

CONSTANTS
    CHARS,    \* more than there can be on the way at once
    COUNT     \* bound on the count of a call

ASSUME PolledUartAssumption == CHARS \in Nat /\ CHARS > DEPTH + 1 /\ COUNT \in Nat \ {0}

VARIABLES
    pc,        \* the access the driver is about: "idle", "control", "write", "read"
    on,        \* it is on the bus
    left,      \* characters of the call still to be moved
    moved,     \* the call has moved one
    blocking,  \* O_NONBLOCK is not set
    sent,      \* the next character of the program
    heard,     \* the next one the host expects
    typed,     \* the next character of the host
    taken      \* the next one the program expects

driver == <<pc, on, left, moved, blocking>>
ends   == <<sent, heard, typed, taken>>
vars   == <<uartVars, driver, ends>>

Chars    == 0 .. CHARS - 1
After(c) == (c + 1) % CHARS

TypeOK ==
    /\ wfifo \in Seq(Chars) /\ Len(wfifo) <= DEPTH
    /\ rfifo \in Seq(Chars) /\ Len(rfifo) <= DEPTH
    /\ av_waitrequest \in BOOLEAN /\ fifo_wr \in BOOLEAN /\ woverflow \in BOOLEAN
    /\ read_0 \in BOOLEAN /\ rvalid \in BOOLEAN /\ fifo_rdata \in Chars
    /\ r_val \in BOOLEAN /\ r_dat \in Chars
    /\ pc \in {"idle", "control", "write", "read"}
    /\ on \in BOOLEAN /\ left \in 0 .. COUNT /\ moved \in BOOLEAN /\ blocking \in BOOLEAN
    /\ sent \in Chars /\ heard \in Chars /\ typed \in Chars /\ taken \in Chars

Init ==
    /\ UartInit
    /\ pc = "idle" /\ on = FALSE /\ left = 0 /\ moved = FALSE /\ blocking = TRUE
    /\ sent = 0 /\ heard = 0 /\ typed = 0 /\ taken = 0

-----------------------------------------------------------------------------

Bus == [op      |-> IF ~on THEN "none" ELSE IF pc = "write" THEN "write" ELSE "read",
        address |-> IF pc = "control" THEN 1 ELSE 0,
        data    |-> sent]

\* The bus shows the driver what it has read, or that its write is done.
Done == on /\ ~av_waitrequest

\* main() calls the driver.
CallWrite ==
    /\ pc = "idle"
    /\ pc' = "control" /\ left' \in 1 .. COUNT
    /\ UNCHANGED <<on, moved, blocking, sent, taken>>

CallRead ==
    /\ pc = "idle"
    /\ pc' = "read" /\ left' \in 1 .. COUNT /\ moved' = FALSE
    /\ blocking' \in BOOLEAN
    /\ UNCHANGED <<on, sent, taken>>

Rest ==
    /\ pc = "idle"
    /\ UNCHANGED <<driver, sent, taken>>

\* An access is put on the bus, and stays there while the UART makes it wait.
Ask ==
    /\ pc # "idle" /\ ~Done
    /\ on' = TRUE
    /\ UNCHANGED <<pc, left, moved, blocking, sent, taken>>

\* altera_avalon_jtag_uart_write(): a character is written when there is room.
SeeSpace ==
    /\ pc = "control" /\ Done
    /\ pc' = IF WSPACE # 0 THEN "write" ELSE pc
    /\ on' = FALSE
    /\ UNCHANGED <<left, moved, blocking, sent, taken>>

\* Mistakes: the pointer into the text is not moved on; the loop goes on at
\* its end.
Written_Again ==
    /\ pc = "write" /\ Done
    /\ left' = left /\ sent' = After(sent)
    /\ pc' = "control"
    /\ on' = FALSE
    /\ UNCHANGED <<moved, blocking, taken>>
Written_OneMore ==
    /\ pc = "write" /\ Done
    /\ left' = left - 1 /\ sent' = After(sent)
    /\ pc' = IF left = 0 THEN "idle" ELSE "control"
    /\ on' = FALSE
    /\ UNCHANGED <<moved, blocking, taken>>

Written ==
    /\ pc = "write" /\ Done
    /\ left' = left - 1 /\ sent' = After(sent)
    /\ pc' = IF left' = 0 THEN "idle" ELSE "control"
    /\ on' = FALSE
    /\ UNCHANGED <<moved, blocking, taken>>

\* altera_avalon_jtag_uart_read(): what there is, and at least one if it blocks.
GotCharacter ==
    /\ pc = "read" /\ Done
    /\ rvalid
    /\ left' = left - 1 /\ moved' = TRUE /\ taken' = After(taken)
    /\ pc' = IF left' = 0 THEN "idle" ELSE pc
    /\ on' = FALSE
    /\ UNCHANGED <<blocking, sent>>

GotNothing ==
    /\ pc = "read" /\ Done
    /\ ~rvalid
    /\ pc' = IF moved \/ ~blocking THEN "idle" ELSE pc
    /\ on' = FALSE
    /\ UNCHANGED <<left, moved, blocking, sent, taken>>

Driver ==
    CallWrite \/ CallRead \/ Rest \/ Ask \/ SeeSpace \/ Written \/ GotCharacter \/ GotNothing

\* The host takes a character (r_ena) and types one (t_ena) when it likes.
Edge(r_ena, t_ena) ==
    /\ Driver
    /\ UartEdge(Bus, r_ena, t_ena, typed)
    /\ heard' = IF r_val THEN After(heard) ELSE heard
    /\ typed' = IF t_ena /\ ~rfifo_full THEN After(typed) ELSE typed

Next == \E r_ena, t_ena \in BOOLEAN : Edge(r_ena, t_ena)

HostListens == \E t_ena \in BOOLEAN : Edge(TRUE, t_ena)

\* The clock does not stop, and a host is connected that goes on taking what
\* there is.  Nothing makes it type.
Spec == Init /\ [][Next]_vars /\ WF_vars(HostListens)

-----------------------------------------------------------------------------

\* Every character written comes to the host, once and in order.
HostHearsEverything == r_val => r_dat = heard

\* Every character typed comes to the program, once and in order.
ProgramReadsEverything == pc = "read" /\ Done /\ rvalid => fifo_rdata = taken

\* The FIFO never drops a character: between the read that shows room and the
\* write nothing else fills it, and a full FIFO does not look like an empty one.
NeverOverflows == ~woverflow

\* A call that writes comes back, however long the FIFO is full, as long as
\* somebody listens; without a host it would not after DEPTH characters.
WritesReturn == pc \in {"control", "write"} ~> pc = "idle"
=============================================================================
