------------------------------ MODULE JtagUart ------------------------------
(***************************************************************************)
(* TimerWithClock_DEBUG.v, the JTAG UART of the system, register by        *)
(* register: a FIFO of characters to the host and one from it, between the *)
(* bus and the JTAG side.  A step is a rising edge of the clock.           *)
(*                                                                         *)
(* bus is what the lines of the bus ask for: [op, address, data], with op  *)
(* "none", "read" or "write", address 0 for the data register and 1 for    *)
(* the control register.  The interrupt logic and the activity bit are     *)
(* left out: the driver the board support packages build polls.            *)
(***************************************************************************)
EXTENDS Naturals, Sequences

CONSTANT DEPTH   \* of each FIFO (64); the width of its counter wraps at it

ASSUME JtagUartAssumption == DEPTH \in Nat \ {0}

VARIABLES
    wfifo, rfifo,     \* the FIFO to the host, and from it
    av_waitrequest,
    fifo_wr,          \* the character on the bus goes into wfifo at this edge
    woverflow,        \* a character was written to a full wfifo
    read_0,           \* the data register is being read
    rvalid,           \* what was read last is a character
    fifo_rdata,       \* the character taken from rfifo last
    r_val, r_dat      \* the character given to the host

busSide  == <<av_waitrequest, fifo_wr, woverflow, read_0, rvalid, fifo_rdata>>
uartVars == <<wfifo, rfifo, busSide, r_val, r_dat>>

UartInit ==
    /\ wfifo = <<>> /\ rfifo = <<>>
    /\ av_waitrequest = TRUE
    /\ fifo_wr = FALSE /\ woverflow = FALSE
    /\ read_0 = FALSE /\ rvalid = FALSE /\ fifo_rdata = 0
    /\ r_val = FALSE /\ r_dat = 0

fifo_FF    == Len(wfifo) = DEPTH
fifo_EF    == rfifo = <<>>
rfifo_full == Len(rfifo) = DEPTH
wfifo_used == Len(wfifo) % DEPTH

-----------------------------------------------------------------------------
(* What the bus reads. *)

\* Mistake: the full FIFO, whose counter reads 0, is taken for an empty one.
WSPACE_NoFull == DEPTH - wfifo_used

\* The field WSPACE of the control register: 7'h40 - {fifo_FF, wfifo_used}.
WSPACE == DEPTH - ((IF fifo_FF THEN DEPTH ELSE 0) + wfifo_used)

-----------------------------------------------------------------------------
(* An edge of the clock. *)

\* The first of the two clocks of an access: the second one ends the wait.
Starts(bus, op, address) == bus.op = op /\ bus.address = address /\ av_waitrequest

\* Mistake: a character is read in both clocks of an access.
fifo_rd_Twice(bus) == bus.op = "read" /\ bus.address = 0 /\ ~fifo_EF

fifo_rd(bus) == Starts(bus, "read", 0) /\ ~fifo_EF

\* Mistake: a character is pushed in both clocks of its write.
Pushes_Twice(bus) == fifo_wr \/ (Starts(bus, "write", 0) /\ ~fifo_FF)

\* The push is a clock after the write was seen, while the bus still waits.
Pushes(bus) == fifo_wr

UartEdge(bus, r_ena, t_ena, t_dat) ==
    LET rd_wfifo == r_ena /\ wfifo # <<>>
        wr_rfifo == t_ena /\ ~rfifo_full
    IN  /\ av_waitrequest' = ~(bus.op # "none" /\ av_waitrequest)
        /\ fifo_wr' = (Starts(bus, "write", 0) /\ ~fifo_FF)
        /\ woverflow' = IF Starts(bus, "write", 0) THEN fifo_FF ELSE woverflow
        /\ read_0' = Starts(bus, "read", 0)
        /\ rvalid' = IF Starts(bus, "read", 0) THEN ~fifo_EF ELSE rvalid
        /\ fifo_rdata' = IF fifo_rd(bus) THEN Head(rfifo) ELSE fifo_rdata
        /\ rfifo' = (IF fifo_rd(bus) THEN Tail(rfifo) ELSE rfifo)
                    \o (IF wr_rfifo THEN <<t_dat>> ELSE <<>>)
        /\ wfifo' = (IF rd_wfifo THEN Tail(wfifo) ELSE wfifo)
                    \o (IF Pushes(bus) THEN <<bus.data>> ELSE <<>>)
        /\ r_val' = rd_wfifo
        /\ r_dat' = IF rd_wfifo THEN Head(wfifo) ELSE r_dat
=============================================================================
