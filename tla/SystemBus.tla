------------------------------ MODULE SystemBus ------------------------------
(***************************************************************************)
(* The processor of module Processor on the interconnect of module         *)
(* Interconnect: the way from a statement of the firmware that touches a   *)
(* device to the device, and back.  An edge of the clock is an edge of     *)
(* both.                                                                   *)
(***************************************************************************)
EXTENDS Processor, Interconnect

CONSTANT STALL   \* bound on the clocks a slave makes an access wait

ASSUME SystemBusAssumption ==
    /\ STALL \in Nat
    /\ CODE \subseteq SHARED
    /\ \A iw \in INSTRUCTIONS : iw.at \in Slaves

VARIABLE accesses   \* accesses the slaves have seen from the instruction (a history)

vars == <<processorVars, interconnectVars, accesses>>

\* The lines of the two masters.
Requests ==
    [data        |-> [read |-> d_read, write |-> d_write, at |-> D_iw.at],
     instruction |-> [read |-> i_read, write |-> FALSE, at |-> F_pc]]

TypeOK ==
    /\ ProcessorTypeOK
    /\ hold_waitrequest \in BOOLEAN
    /\ read_accepted \in [Masters -> BOOLEAN]
    /\ write_accepted \in BOOLEAN /\ end_begintransfer \in BOOLEAN
    /\ \A s \in SHARED : saved_grant[s] \in {{}} \cup {{m} : m \in Masters}
    /\ top_priority \in [SHARED -> Masters]
    /\ packet_in_progress \in [SHARED -> BOOLEAN]
    /\ \A s \in Slaves : Len(rsp_fifo[s]) <= 1 /\ (readdatavalid[s] <=> rsp_fifo[s] # <<>>)
    /\ wait_latency_counter \in [Slaves -> 0 .. STALL + 1]
    /\ accesses \in 0 .. 2

Init == ProcessorInit /\ InterconnectInit /\ accesses = 0

\* The slaves at which the data master's read or write is an access at this edge.
Accessed(own) ==
    {s \in Slaves : /\ "data" \in Granted(Requests, s)
                    /\ TakesRead(Requests, own, s) \/ TakesWrite(Requests, own, s)}

Edge(own, iw, pc) ==
    LET i_wait == i_waitrequest(Requests, own)
    IN  /\ ProcessorEdge(i_wait, d_waitrequest(Requests, own), iw, pc)
        /\ InterconnectEdge(Requests, own)
        /\ accesses' = CASE F_valid(i_wait) -> 0
                         [] ~F_valid(i_wait) /\ Accessed(own) # {} /\ accesses < 2 -> accesses + 1
                         [] OTHER -> accesses

\* The slaves that may still make an access wait.
MayWait == {s \in Slaves : WAIT[s] = "own" /\ wait_latency_counter[s] < STALL}

Next == \E own \in SUBSET MayWait, iw \in INSTRUCTIONS, pc \in CODE : Edge(own, iw, pc)

\* The clock does not stop.
Spec == Init /\ [][Next]_vars /\ WF_vars(Next)

-----------------------------------------------------------------------------

\* The two masters never want the bus at once: an instruction has had its
\* access before the next one is fetched.  The arbiters have nothing to
\* decide, and no fetch overtakes a store.
OneMasterAtATime == ~(i_read /\ (d_read \/ d_write))

\* An answer reaches only a master that waits for it, from the slave it has
\* asked and from no other: the response multiplexers have no arbiter and
\* would merge two answers, and no FIFO keeps the data of an answer that the
\* master is not there to take.
AnsweredByItsSlave ==
    \A m \in Masters :
        Answering(m) # {} => /\ Requests[m].read /\ read_accepted[m]
                             /\ Answering(m) = {Requests[m].at}

Machine ==
    INSTANCE InstructionMachine WITH
        stage       <- IF i_read THEN "fetch" ELSE "execute",
        instruction <- D_iw

\* A load or a store of the program is exactly one access of its slave, made
\* before the next instruction is fetched, and every instruction comes to its
\* end: a device register is not read or written twice because a master had
\* to wait, and none is forgotten.
ImplementsInstructionMachine == Machine!Spec
=============================================================================
