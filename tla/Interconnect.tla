---------------------------- MODULE Interconnect ----------------------------
(***************************************************************************)
(* The interconnect between the two masters of the processor and the       *)
(* slaves of the system (TimerWithClock_mm_interconnect_0.v and the Merlin *)
(* components it is made of).  A step is a rising edge of the clock.       *)
(*                                                                         *)
(* req[m] is what the lines of master m ask for: a read or a write of a    *)
(* slave; own is the set of slaves that raise their own wait request.      *)
(* Both are inputs, and every wire is an operator of the inputs and the    *)
(* registers.  Packets have one beat, writes are posted, and no master     *)
(* locks an arbiter: what serves bursts, write responses and locks is left *)
(* out, as are addresses within a slave and data.                          *)
(***************************************************************************)
EXTENDS Naturals, Sequences

CONSTANTS
    Slaves,
    SHARED,     \* the slaves both masters reach (memory and debug memory)
    WAIT        \* of a slave: "none", "one" (a wait before each read) or "own"

ASSUME InterconnectAssumption ==
    /\ SHARED \subseteq Slaves
    /\ WAIT \in [Slaves -> {"none", "one", "own"}]

Masters == {"data", "instruction"}

Other(m) == IF m = "data" THEN "instruction" ELSE "data"

DEPTH == 2   \* of a response FIFO

VARIABLES
    hold_waitrequest,      \* the first clock after reset, in all agents and translators
    read_accepted,         \* of a master translator: its read has been taken
    write_accepted,        \* of the data master's translator
    end_begintransfer,     \* of the data master's translator
    saved_grant,           \* of a shared slave: the master its multiplexer lets through
    top_priority,          \* of a shared slave: the master its arbiter prefers
    packet_in_progress,    \* of a shared slave
    rsp_fifo,              \* of a slave: the masters its answers are for
    readdatavalid,         \* of a slave: its answer is on the lines (a shift register of 1)
    wait_latency_counter   \* of a slave

masterSide       == <<hold_waitrequest, read_accepted, write_accepted, end_begintransfer>>
arbiters         == <<saved_grant, top_priority, packet_in_progress>>
slaveSide        == <<rsp_fifo, readdatavalid, wait_latency_counter>>
interconnectVars == <<masterSide, arbiters, slaveSide>>

InterconnectInit ==
    /\ hold_waitrequest = TRUE
    /\ read_accepted = [m \in Masters |-> FALSE]
    /\ write_accepted = FALSE /\ end_begintransfer = FALSE
    /\ saved_grant = [s \in SHARED |-> {}]
    /\ top_priority = [s \in SHARED |-> "data"]
    /\ packet_in_progress = [s \in SHARED |-> FALSE]
    /\ rsp_fifo = [s \in Slaves |-> <<>>]
    /\ readdatavalid = [s \in Slaves |-> FALSE]
    /\ wait_latency_counter = [s \in Slaves |-> 0]

-----------------------------------------------------------------------------
(* From the masters to the slaves. *)

uav_read(req, m)  == req[m].read /\ ~read_accepted[m]
uav_write(req, m) == req[m].write /\ ~write_accepted

\* The masters whose command the router and the demultiplexer send to slave s.
Asking(req, s) ==
    {m \in Masters : /\ uav_read(req, m) \/ uav_write(req, m)
                     /\ ~hold_waitrequest
                     /\ req[m].at = s}

\* Those whose command comes out of the multiplexer of slave s.
Granted(req, s) == IF s \in SHARED THEN saved_grant[s] \cap Asking(req, s) ELSE Asking(req, s)

ready_for_command(s) == Len(rsp_fifo[s]) < DEPTH

m0_read(req, s)  == ready_for_command(s) /\ \E m \in Granted(req, s) : uav_read(req, m)
m0_write(req, s) == ready_for_command(s) /\ \E m \in Granted(req, s) : uav_write(req, m)

\* The wait request of the translator of a slave.
m0_waitrequest(req, own, s) ==
    CASE WAIT[s] = "none" -> hold_waitrequest
      [] WAIT[s] = "one"  -> hold_waitrequest
                             \/ wait_latency_counter[s] # IF m0_write(req, s) THEN 0 ELSE 1
      [] WAIT[s] = "own"  -> s \in own

cp_ready(req, own, s) == ~m0_waitrequest(req, own, s) /\ ready_for_command(s)

\* What slave s does at this edge: a write strobe is an access in every clock
\* it lasts, unless the slave itself makes it wait.
TakesRead(req, own, s)  == m0_read(req, s) /\ ~m0_waitrequest(req, own, s)
TakesWrite(req, own, s) == m0_write(req, s) /\ ~(WAIT[s] = "own" /\ s \in own)

-----------------------------------------------------------------------------
(* From the slaves to the masters. *)

\* The slaves whose answer is on the lines of master m.
Answering(m) == {s \in Slaves : readdatavalid[s] /\ rsp_fifo[s] # <<>> /\ Head(rsp_fifo[s]) = m}

uav_waitrequest(req, own, m) ==
    LET s == req[m].at
    IN  \/ hold_waitrequest
        \/ ~cp_ready(req, own, s)
        \/ s \in SHARED /\ m \notin saved_grant[s]

internal_begintransfer(req) ==
    (uav_write(req, "data") \/ uav_read(req, "data")) /\ ~end_begintransfer

d_waitrequest(req, own) ==
    IF req["data"].read THEN Answering("data") = {}
    ELSE req["data"].write => /\ internal_begintransfer(req) \/ uav_waitrequest(req, own, "data")
                              /\ ~write_accepted

i_waitrequest(req, own) ==
    IF req["instruction"].read THEN Answering("instruction") = {}
                               ELSE uav_waitrequest(req, own, "instruction")

av_waitrequest(req, own, m) ==
    IF m = "data" THEN d_waitrequest(req, own) ELSE i_waitrequest(req, own)

-----------------------------------------------------------------------------
(* The registers. *)

\* Mistake: a read is asked for until it is answered.
ReadsAccepted_Never(req, own) == read_accepted' = read_accepted

ReadsAccepted(req, own) ==
    read_accepted' =
        [m \in Masters |->
            IF read_accepted[m] THEN Answering(m) = {}
            ELSE /\ av_waitrequest(req, own, m)
                 /\ req[m].read /\ ~uav_waitrequest(req, own, m)]

\* Mistake: a write is strobed until the master sees it accepted.
WriteAccepted_Never(req, own) == write_accepted' = write_accepted

WriteAccepted(req, own) ==
    write_accepted' =
        (/\ d_waitrequest(req, own)
         /\ \/ uav_write(req, "data") /\ ~uav_waitrequest(req, own, "data")
            \/ write_accepted)

EndBegintransfer(req, own) ==
    end_begintransfer' = (/\ end_begintransfer \/ internal_begintransfer(req)
                          /\ uav_waitrequest(req, own, "data"))

\* The arbiter takes the first requester from top_priority on.
NextGrant(req, s) ==
    LET asking == Asking(req, s)
    IN  IF top_priority[s] \in asking THEN {top_priority[s]} ELSE asking

last_cycle(req, own, s) == Granted(req, s) # {} /\ cp_ready(req, own, s)

update_grant(req, own, s) ==
    \/ ~packet_in_progress[s] /\ Granted(req, s) = {}
    \/ last_cycle(req, own, s)

Arbitrate(req, own) ==
    /\ saved_grant' = [s \in SHARED |->
           IF update_grant(req, own, s) THEN NextGrant(req, s) ELSE saved_grant[s]]
    /\ top_priority' = [s \in SHARED |->
           IF update_grant(req, own, s) /\ NextGrant(req, s) # {}
           THEN CHOOSE m \in Masters : NextGrant(req, s) = {Other(m)}
           ELSE top_priority[s]]
    /\ packet_in_progress' = [s \in SHARED |->
           /\ ~last_cycle(req, own, s)
           /\ packet_in_progress[s] \/ Granted(req, s) # {}]

\* Mistake: an answer that has been given keeps its place in the FIFO.
FifoEdge_Stays(req, own) ==
    rsp_fifo' = [s \in Slaves |->
        rsp_fifo[s] \o (IF TakesRead(req, own, s)
                        THEN <<CHOOSE m \in Granted(req, s) : uav_read(req, m)>> ELSE <<>>)]

\* A slave's answer is on the lines a clock after the read it has taken, and
\* the head of the FIFO says whose it is.
FifoEdge(req, own) ==
    rsp_fifo' = [s \in Slaves |->
        (IF readdatavalid[s] THEN Tail(rsp_fifo[s]) ELSE rsp_fifo[s])
        \o (IF TakesRead(req, own, s)
            THEN <<CHOOSE m \in Granted(req, s) : uav_read(req, m)>> ELSE <<>>)]

Answer(req, own) == readdatavalid' = [s \in Slaves |-> TakesRead(req, own, s)]

CountWait(req, own) ==
    wait_latency_counter' = [s \in Slaves |->
        IF m0_waitrequest(req, own, s) /\ (m0_read(req, s) \/ m0_write(req, s))
        THEN wait_latency_counter[s] + 1 ELSE 0]

InterconnectEdge(req, own) ==
    /\ hold_waitrequest' = FALSE
    /\ ReadsAccepted(req, own)
    /\ WriteAccepted(req, own)
    /\ EndBegintransfer(req, own)
    /\ Arbitrate(req, own)
    /\ FifoEdge(req, own)
    /\ Answer(req, own)
    /\ CountWait(req, own)
=============================================================================
