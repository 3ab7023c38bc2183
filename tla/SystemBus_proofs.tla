--------------------------- MODULE SystemBus_proofs ---------------------------
(***************************************************************************)
(* Proofs that the two masters of the processor never want the bus at      *)
(* once, that every answer reaches the master that asked, that the types   *)
(* hold, that the processor on its bus does what the instruction machine   *)
(* does, and in how many clocks, for every set of slaves, of instructions  *)
(* and of waits; and what the start-up loses, for every number of resets.  *)
(***************************************************************************)
EXTENDS SystemBus, TLAPS

Flags ==
    /\ i_read \in BOOLEAN /\ D_valid \in BOOLEAN /\ R_valid \in BOOLEAN
    /\ E_valid \in BOOLEAN /\ E_new_inst \in BOOLEAN /\ W_valid \in BOOLEAN
    /\ d_read \in BOOLEAN /\ d_write \in BOOLEAN
    /\ av_ld_waiting_for_data \in BOOLEAN

\* An instruction is in one stage at a time, and the bus is asked for nothing
\* but the instruction's own data, while its stage waits for it.
OneStage ==
    /\ i_read => ~D_valid /\ ~R_valid /\ ~E_valid /\ ~W_valid
    /\ D_valid => ~R_valid /\ ~E_valid /\ ~W_valid
    /\ R_valid => ~E_valid /\ ~W_valid
    /\ E_valid => ~W_valid
    /\ E_new_inst => E_valid
    /\ d_read => R_ctrl_ld /\ av_ld_waiting_for_data /\ E_valid /\ ~E_new_inst
    /\ d_write => R_ctrl_st /\ E_valid /\ ~E_new_inst

StageInv == Flags /\ OneStage

-----------------------------------------------------------------------------

LEMMA StageInit == Init => StageInv
  BY DEF Init, ProcessorInit, StageInv, Flags, OneStage

\* What a stage that waits looks like.
LEMMA StallsInE ==
  ASSUME StageInv, NEW wait \in BOOLEAN
  PROVE  /\ E_stall(wait) => E_valid
         /\ d_read_nxt(wait) => E_stall(wait)
         /\ d_write_nxt(wait) => E_stall(wait)
<1>1. E_stall(wait) => E_valid
  BY DEF StageInv, Flags, OneStage, E_stall, E_shift_rot_stall, E_ld_stall, E_st_stall, d_write_nxt
<1>2. d_read /\ wait => ~av_ld_done(wait)
  BY DEF StageInv, Flags, OneStage, av_ld_done, av_ld_waiting_for_data_nxt, av_ld_getting_data
<1>3. d_read_nxt(wait) => E_stall(wait)
  BY <1>2 DEF StageInv, Flags, OneStage, d_read_nxt, E_stall, E_ld_stall
<1>4. d_write_nxt(wait) => E_stall(wait)
  BY DEF E_stall, E_st_stall
<1> QED BY <1>1, <1>3, <1>4

LEMMA StageStep ==
  ASSUME StageInv, NEW i_wait \in BOOLEAN, NEW d_wait \in BOOLEAN, NEW iw, NEW pc,
         ProcessorEdge(i_wait, d_wait, iw, pc)
  PROVE  StageInv'
<1>1. /\ i_read' <=> (W_valid \/ (i_read /\ i_wait))
      /\ D_valid' <=> (i_read /\ ~i_wait)
      /\ R_valid' <=> D_valid
      /\ E_valid' <=> (R_valid \/ E_stall(d_wait))
      /\ E_new_inst' <=> R_valid
      /\ W_valid' <=> (E_valid /\ ~E_stall(d_wait))
      /\ d_read' <=> d_read_nxt(d_wait)
      /\ d_write' <=> d_write_nxt(d_wait)
      /\ av_ld_waiting_for_data' <=> av_ld_waiting_for_data_nxt(d_wait)
  BY DEF ProcessorEdge, F_valid, StageInv, Flags
<1>2. Flags'
  BY DEF ProcessorEdge, F_valid, StageInv, Flags, d_read_nxt, d_write_nxt,
         av_ld_waiting_for_data_nxt, av_ld_getting_data
<1>3. /\ E_stall(d_wait) => E_valid
      /\ d_read_nxt(d_wait) => E_stall(d_wait)
      /\ d_write_nxt(d_wait) => E_stall(d_wait)
  BY StallsInE
<1>4. d_read_nxt(d_wait) => /\ R_ctrl_ld /\ av_ld_waiting_for_data_nxt(d_wait)
                            /\ ~i_read /\ ~R_valid
  BY DEF StageInv, Flags, OneStage, d_read_nxt, av_ld_waiting_for_data_nxt, av_ld_getting_data
<1>5. d_write_nxt(d_wait) => R_ctrl_st /\ ~i_read /\ ~R_valid
  BY DEF StageInv, Flags, OneStage, d_write_nxt
<1>6. ~i_read => D_iw' = D_iw
  BY DEF ProcessorEdge, F_valid
<1>7. /\ d_read_nxt(d_wait) => R_ctrl_ld'
      /\ d_write_nxt(d_wait) => R_ctrl_st'
  BY <1>4, <1>5, <1>6 DEF R_ctrl_ld, R_ctrl_st
<1>8. OneStage'
  BY <1>1, <1>3, <1>4, <1>5, <1>7 DEF StageInv, Flags, OneStage
<1> QED BY <1>2, <1>8 DEF StageInv

-----------------------------------------------------------------------------

\* The wires between the two halves.
LEMMA WaitsAreBoolean ==
  ASSUME NEW own
  PROVE  i_waitrequest(Requests, own) \in BOOLEAN /\ d_waitrequest(Requests, own) \in BOOLEAN
  BY DEF i_waitrequest, d_waitrequest, uav_waitrequest

LEMMA EdgeKeepsStages ==
  ASSUME StageInv, NEW own, NEW iw, NEW pc, Edge(own, iw, pc)
  PROVE  StageInv'
  BY WaitsAreBoolean, StageStep DEF Edge

\* In every state of the system at most one of the two masters asks for the
\* bus: there is nothing for an arbiter to decide and nothing to overtake.
THEOREM OneMaster == Spec => []OneMasterAtATime
<1>1. Init => StageInv
  BY StageInit
<1>2. StageInv /\ [Next]_vars => StageInv'
  <2> SUFFICES ASSUME StageInv, [Next]_vars PROVE StageInv'
    OBVIOUS
  <2>1. CASE Next
    BY <2>1, EdgeKeepsStages DEF Next
  <2>2. CASE UNCHANGED vars
    BY <2>2 DEF vars, processorVars, stages, dataMaster, StageInv, Flags, OneStage,
                R_ctrl_ld, R_ctrl_st
  <2> QED BY <2>1, <2>2
<1>3. StageInv => OneMasterAtATime
  BY DEF StageInv, Flags, OneStage, OneMasterAtATime
<1> QED BY <1>1, <1>2, <1>3, PTL DEF Spec
-----------------------------------------------------------------------------
(* Who an answer is for. *)

\* The answer on the lines of a slave is that of a master whose read has been
\* taken and who still asks for it.
Expected(s) ==
    \E m \in Masters : /\ rsp_fifo[s] = <<m>>
                       /\ Requests[m].read /\ read_accepted[m] /\ Requests[m].at = s

AnswersInv ==
    \A s \in Slaves : IF readdatavalid[s] THEN Expected(s) ELSE rsp_fifo[s] = <<>>

LEMMA AnswersAreExpected == AnswersInv => AnsweredByItsSlave
<1> SUFFICES ASSUME AnswersInv, NEW m \in Masters, NEW s \in Answering(m)
             PROVE  Requests[m].read /\ read_accepted[m] /\ Requests[m].at = s
  BY DEF AnsweredByItsSlave
<1>1. s \in Slaves /\ readdatavalid[s] /\ Head(rsp_fifo[s]) = m
  BY DEF Answering
<1>2. PICK n \in Masters : /\ rsp_fifo[s] = <<n>>
                           /\ Requests[n].read /\ read_accepted[n] /\ Requests[n].at = s
  BY <1>1 DEF AnswersInv, Expected
<1>3. n = m
  BY <1>1, <1>2
<1> QED BY <1>2, <1>3

\* A master goes on asking, for the same slave, until its wait ends.
LEMMA MasterKeepsAsking ==
  ASSUME StageInv, NEW own, NEW iw, NEW pc, Edge(own, iw, pc), NEW m \in Masters,
         Requests[m].read, av_waitrequest(Requests, own, m)
  PROVE  Requests[m].read' /\ Requests[m].at' = Requests[m].at
<1>1. CASE m = "data"
  <2>1. d_read /\ d_waitrequest(Requests, own)
    BY <1>1 DEF Requests, av_waitrequest
  <2>2. ~i_read
    BY <2>1 DEF StageInv, Flags, OneStage
  <2>3. d_read' /\ D_iw' = D_iw
    BY <2>1, <2>2 DEF Edge, ProcessorEdge, d_read_nxt, F_valid, StageInv, Flags
  <2> QED BY <1>1, <2>3 DEF Requests
<1>2. CASE m = "instruction"
  <2>1. i_read /\ i_waitrequest(Requests, own)
    BY <1>2 DEF Requests, av_waitrequest
  <2>2. ~W_valid
    BY <2>1 DEF StageInv, Flags, OneStage
  <2>3. i_read' /\ F_pc' = F_pc
    BY <2>1, <2>2 DEF Edge, ProcessorEdge, StageInv, Flags
  <2> QED BY <1>2, <2>3 DEF Requests
<1> QED BY <1>1, <1>2 DEF Masters

\* A read that is taken is marked as accepted, and its master goes on waiting.
LEMMA TakenIsAccepted ==
  ASSUME StageInv, AnswersInv, NEW own, NEW iw, NEW pc, Edge(own, iw, pc),
         NEW s \in Slaves, TakesRead(Requests, own, s),
         NEW m \in Granted(Requests, s), uav_read(Requests, m)
  PROVE  /\ m \in Masters
         /\ Requests[m].read' /\ read_accepted'[m] /\ Requests[m].at' = s
<1>1. /\ m \in Masters /\ Requests[m].read /\ ~read_accepted[m]
      /\ Requests[m].at = s /\ ~hold_waitrequest
  BY DEF Granted, Asking, uav_read
<1>2. ~uav_waitrequest(Requests, own, m)
  <2>1. cp_ready(Requests, own, s)
    BY DEF TakesRead, m0_read, cp_ready
  <2>2. s \in SHARED => m \in saved_grant[s]
    BY DEF Granted
  <2> QED BY <1>1, <2>1, <2>2 DEF uav_waitrequest
<1>3. Answering(m) = {}
  BY <1>1, AnswersAreExpected DEF AnsweredByItsSlave
<1>4. av_waitrequest(Requests, own, m)
  BY <1>1, <1>3 DEF av_waitrequest, d_waitrequest, i_waitrequest, Masters
<1>5. read_accepted'[m]
  BY <1>1, <1>2, <1>4 DEF Edge, InterconnectEdge, ReadsAccepted
<1>6. Requests[m].read' /\ Requests[m].at' = s
  BY <1>1, <1>4, MasterKeepsAsking
<1> QED BY <1>1, <1>5, <1>6

LEMMA EdgeKeepsAnswers ==
  ASSUME StageInv, AnswersInv, NEW own, NEW iw, NEW pc, Edge(own, iw, pc)
  PROVE  AnswersInv'
<1> SUFFICES ASSUME NEW s \in Slaves
             PROVE  IF readdatavalid'[s] THEN Expected(s)' ELSE rsp_fifo'[s] = <<>>
  BY DEF AnswersInv
<1> DEFINE kept == IF readdatavalid[s] THEN Tail(rsp_fifo[s]) ELSE rsp_fifo[s]
           who  == CHOOSE m \in Granted(Requests, s) : uav_read(Requests, m)
<1>1. /\ readdatavalid'[s] <=> TakesRead(Requests, own, s)
      /\ rsp_fifo'[s] = kept \o (IF TakesRead(Requests, own, s) THEN <<who>> ELSE <<>>)
  BY DEF Edge, InterconnectEdge, Answer, FifoEdge, TakesRead
<1>2. kept = <<>>
  <2>1. CASE readdatavalid[s]
    <3>1. PICK n \in Masters : rsp_fifo[s] = <<n>>
      BY <2>1 DEF AnswersInv, Expected
    <3> QED BY <2>1, <3>1
  <2>2. CASE ~readdatavalid[s]
    BY <2>2 DEF AnswersInv
  <2> QED BY <2>1, <2>2
<1>3. TakesRead(Requests, own, s) => who \in Granted(Requests, s) /\ uav_read(Requests, who)
  BY DEF TakesRead, m0_read
<1> HIDE DEF kept, who
<1>4. PICK m : m = who
  OBVIOUS
<1>5. CASE TakesRead(Requests, own, s)
  <2>1. m \in Granted(Requests, s) /\ uav_read(Requests, m)
    BY <1>3, <1>4, <1>5
  <2>2. /\ m \in Masters
        /\ Requests[m].read' /\ read_accepted'[m] /\ Requests[m].at' = s
    BY <1>5, <2>1, TakenIsAccepted
  <2>3. rsp_fifo'[s] = <<m>>
    BY <1>1, <1>2, <1>4, <1>5
  <2>4. Expected(s)'
    BY <2>2, <2>3 DEF Expected
  <2> QED BY <1>1, <1>5, <2>4
<1>6. CASE ~TakesRead(Requests, own, s)
  <2>1. rsp_fifo'[s] = <<>>
    BY <1>1, <1>2, <1>6
  <2> QED BY <1>1, <1>6, <2>1
<1> QED BY <1>5, <1>6

\* Every answer reaches the master that asked that slave and still asks: the
\* response multiplexers need no arbiter, and no answer is left in a FIFO.
THEOREM AnswersReachTheirMaster == Spec => []AnsweredByItsSlave
<1>1. Init => StageInv /\ AnswersInv
  <2>1. Init => AnswersInv
    BY DEF Init, InterconnectInit, AnswersInv
  <2> QED BY <2>1, StageInit
<1>2. StageInv /\ AnswersInv /\ [Next]_vars => StageInv' /\ AnswersInv'
  <2> SUFFICES ASSUME StageInv, AnswersInv, [Next]_vars PROVE StageInv' /\ AnswersInv'
    OBVIOUS
  <2>1. CASE Next
    BY <2>1, EdgeKeepsStages, EdgeKeepsAnswers DEF Next
  <2>2. CASE UNCHANGED vars
    <3>1. StageInv'
      BY <2>2 DEF vars, processorVars, stages, dataMaster, StageInv, Flags, OneStage,
                  R_ctrl_ld, R_ctrl_st
    <3>2. AnswersInv'
      BY <2>2 DEF vars, processorVars, stages, dataMaster, interconnectVars, masterSide,
                  slaveSide, AnswersInv, Expected, Requests
    <3> QED BY <3>1, <3>2
  <2> QED BY <2>1, <2>2
<1> QED BY <1>1, <1>2, AnswersAreExpected, PTL DEF Spec
-----------------------------------------------------------------------------
(* The types.  A slave that counts one wait before a read is asked for that *)
(* read until the count is over.                                            *)

WaitInv ==
    \A s \in Slaves : wait_latency_counter[s] # 0 /\ WAIT[s] = "one" =>
                          wait_latency_counter[s] = 1 /\ m0_read(Requests, s)

LEMMA Lines ==
  /\ \A m \in Masters : Requests[m].read <=> IF m = "data" THEN d_read ELSE i_read
  /\ \A m \in Masters : Requests[m].write <=> m = "data" /\ d_write
  /\ Requests["data"].at = D_iw.at
  BY DEF Requests, Masters

\* No slave is asked to read and to write at once.
LEMMA ReadOrWrite ==
  ASSUME StageInv, NEW s, m0_read(Requests, s)
  PROVE  ~m0_write(Requests, s)
<1>1. PICK m \in Granted(Requests, s) : uav_read(Requests, m)
  BY DEF m0_read
<1>2. m \in Masters /\ Requests[m].read
  BY <1>1 DEF Granted, Asking, uav_read
<1>3. \A n \in Granted(Requests, s) : ~uav_write(Requests, n)
  BY <1>2, Lines DEF StageInv, Flags, OneStage, R_ctrl_ld, R_ctrl_st, uav_write, Granted, Asking
<1> QED BY <1>3 DEF m0_write

\* A read that has to wait is asked for again, with the slave still let through
\* to its master.
LEMMA ReadIsAskedAgain ==
  ASSUME StageInv, AnswersInv, NEW own, NEW iw, NEW pc, Edge(own, iw, pc),
         NEW s \in Slaves, m0_read(Requests, s), m0_waitrequest(Requests, own, s)
  PROVE  m0_read(Requests, s)'
<1>1. PICK m \in Granted(Requests, s) : uav_read(Requests, m)
  BY DEF m0_read
<1>2. /\ m \in Masters /\ Requests[m].read /\ ~read_accepted[m]
      /\ Requests[m].at = s
      /\ m \in Asking(Requests, s)
  BY <1>1 DEF Granted, Asking, uav_read
<1>3. ~cp_ready(Requests, own, s)
  BY DEF cp_ready
<1>4. uav_waitrequest(Requests, own, m)
  BY <1>2, <1>3 DEF uav_waitrequest
<1>5. av_waitrequest(Requests, own, m)
  BY <1>2, <1>4, AnswersAreExpected
     DEF AnsweredByItsSlave, av_waitrequest, d_waitrequest, i_waitrequest, Masters
<1>6. Requests[m].read' /\ Requests[m].at' = s
  BY <1>2, <1>5, MasterKeepsAsking
<1>7. ~read_accepted'[m]
  BY <1>2, <1>4 DEF Edge, InterconnectEdge, ReadsAccepted
<1>8. m \in Asking(Requests, s)' /\ uav_read(Requests, m)'
  <2>1. ~hold_waitrequest'
    BY DEF Edge, InterconnectEdge
  <2> QED BY <1>2, <1>6, <1>7, <2>1 DEF Asking, uav_read
<1>9. s \in SHARED => m \in saved_grant'[s]
  <2> SUFFICES ASSUME s \in SHARED PROVE m \in saved_grant'[s]
    OBVIOUS
  <2>1. ~update_grant(Requests, own, s)
    BY <1>1, <1>3 DEF update_grant, last_cycle
  <2>2. saved_grant'[s] = saved_grant[s]
    BY <2>1 DEF Edge, InterconnectEdge, Arbitrate
  <2> QED BY <1>1, <2>2 DEF Granted
<1>10. m \in Granted(Requests, s)'
  BY <1>8, <1>9 DEF Granted
<1>11. ready_for_command(s)'
  <2>1. AnswersInv'
    BY EdgeKeepsAnswers
  <2>2. PICK fifo : fifo = rsp_fifo'[s]
    OBVIOUS
  <2>3. fifo = <<>> \/ \E n : fifo = <<n>>
    BY <2>1, <2>2 DEF AnswersInv, Expected
  <2>4. Len(fifo) < 2
    BY <2>3
  <2> QED BY <2>2, <2>4 DEF ready_for_command, DEPTH
<1> QED BY <1>8, <1>10, <1>11 DEF m0_read

LEMMA EdgeKeepsWaits ==
  ASSUME StageInv, AnswersInv, WaitInv, wait_latency_counter \in [Slaves -> 0 .. STALL + 1],
         NEW own \in SUBSET MayWait, NEW iw, NEW pc, Edge(own, iw, pc)
  PROVE  WaitInv' /\ wait_latency_counter' \in [Slaves -> 0 .. STALL + 1]
<1> DEFINE Waits(s) == /\ m0_waitrequest(Requests, own, s)
                       /\ m0_read(Requests, s) \/ m0_write(Requests, s)
<1>1. wait_latency_counter' =
          [s \in Slaves |-> IF Waits(s) THEN wait_latency_counter[s] + 1 ELSE 0]
  BY DEF Edge, InterconnectEdge, CountWait
<1>2. ASSUME NEW s \in Slaves, Waits(s)
      PROVE  \/ WAIT[s] = "own" /\ wait_latency_counter[s] < STALL
             \/ WAIT[s] = "one" /\ wait_latency_counter[s] = 0 /\ m0_read(Requests, s)
  <2>1. ~hold_waitrequest
    BY <1>2 DEF m0_read, m0_write, Granted, Asking
  <2>2. CASE WAIT[s] = "none"
    BY <1>2, <2>1, <2>2 DEF m0_waitrequest
  <2>3. CASE WAIT[s] = "own"
    BY <1>2, <2>3 DEF m0_waitrequest, MayWait
  <2>4. CASE WAIT[s] = "one"
    <3>1. wait_latency_counter[s] # IF m0_write(Requests, s) THEN 0 ELSE 1
      BY <1>2, <2>1, <2>4 DEF m0_waitrequest
    <3>2. wait_latency_counter[s] = 0
      BY <2>4, <3>1, ReadOrWrite DEF WaitInv
    <3> QED BY <1>2, <2>4, <3>1, <3>2
  <2> QED BY <2>2, <2>3, <2>4, InterconnectAssumption
<1>3. \A s \in Slaves : Waits(s) /\ m0_read(Requests, s) => m0_read(Requests, s)'
  BY ReadIsAskedAgain
<1>4. \A s \in Slaves : /\ wait_latency_counter'[s] = IF Waits(s) THEN wait_latency_counter[s] + 1 ELSE 0
                        /\ wait_latency_counter[s] \in 0 .. STALL + 1
  BY <1>1
<1> HIDE DEF Waits
<1>5. wait_latency_counter' \in [Slaves -> 0 .. STALL + 1]
  BY <1>1, <1>2, <1>4, SystemBusAssumption
<1>6. WaitInv'
  BY <1>2, <1>3, <1>4 DEF WaitInv
<1> QED BY <1>5, <1>6

BusInv == TypeOK /\ StageInv /\ AnswersInv /\ WaitInv

LEMMA InitBusInv == Init => BusInv
<1> SUFFICES ASSUME Init PROVE BusInv
  OBVIOUS
<1>1. StageInv
  BY StageInit
<1>2. AnswersInv /\ WaitInv
  BY DEF Init, InterconnectInit, AnswersInv, WaitInv
<1>3. ProcessorTypeOK
  <2>1. av_ld_aligning_data = FALSE /\ av_ld_align_cycle = 0 /\ E_shift_rot_cnt = 0
    BY DEF Init, ProcessorInit
  <2>2. av_ld_align_cycle \in 0 .. 3 /\ E_shift_rot_cnt \in 0 .. 31
    BY <2>1
  <2>3. F_pc \in CODE /\ D_iw \in INSTRUCTIONS
    BY DEF Init, ProcessorInit
  <2> QED BY <1>1, <2>1, <2>2, <2>3 DEF StageInv, Flags, ProcessorTypeOK
<1>4. /\ wait_latency_counter \in [Slaves -> 0 .. STALL + 1]
      /\ accesses \in 0 .. 2
  BY SystemBusAssumption DEF Init, InterconnectInit
<1>5. /\ read_accepted \in [Masters -> BOOLEAN]
      /\ hold_waitrequest \in BOOLEAN /\ write_accepted \in BOOLEAN
      /\ end_begintransfer \in BOOLEAN
  BY DEF Init, InterconnectInit
<1>6. /\ \A s \in SHARED : saved_grant[s] \in {{}} \cup {{m} : m \in Masters}
      /\ top_priority \in [SHARED -> Masters]
      /\ packet_in_progress \in [SHARED -> BOOLEAN]
  BY DEF Init, InterconnectInit, Masters
<1>7. \A s \in Slaves : Len(rsp_fifo[s]) <= 1 /\ (readdatavalid[s] <=> rsp_fifo[s] # <<>>)
  BY DEF Init, InterconnectInit
<1> QED BY <1>1, <1>2, <1>3, <1>4, <1>5, <1>6, <1>7 DEF TypeOK, BusInv

LEMMA ProcessorTypes ==
  ASSUME ProcessorTypeOK, StageInv, NEW i_wait \in BOOLEAN, NEW d_wait \in BOOLEAN,
         NEW iw \in INSTRUCTIONS, NEW pc \in CODE, ProcessorEdge(i_wait, d_wait, iw, pc)
  PROVE  ProcessorTypeOK'
<1>1. Flags'
  BY StageStep DEF StageInv
<1>2. F_pc' \in CODE /\ D_iw' \in INSTRUCTIONS
  BY DEF ProcessorEdge, ProcessorTypeOK
<1>3. av_ld_aligning_data' \in BOOLEAN
  BY DEF ProcessorEdge, ProcessorTypeOK, av_ld_aligning_data_nxt, av_ld_getting_data
<1>4. av_ld_align_cycle' \in 0 .. 3
  BY DEF ProcessorEdge, ProcessorTypeOK
<1>5. E_shift_rot_cnt' \in 0 .. 31
  <2>1. D_iw.extra \in 0 .. 31
    <3>1. D_iw.extra \in IF D_iw.kind = "load" THEN {0, 2, 3} ELSE 0 .. 31
      BY ProcessorAssumption DEF ProcessorTypeOK
    <3> QED BY <3>1
  <2> QED BY <2>1 DEF ProcessorEdge, ProcessorTypeOK
<1> QED BY <1>1, <1>2, <1>3, <1>4, <1>5 DEF ProcessorTypeOK, Flags

\* An arbiter lets one master through at most.
LEMMA ArbiterTypes ==
  ASSUME \A s \in SHARED : saved_grant[s] \in {{}} \cup {{m} : m \in Masters},
         top_priority \in [SHARED -> Masters],
         NEW own, Arbitrate(Requests, own)
  PROVE  /\ \A s \in SHARED : saved_grant'[s] \in {{}} \cup {{m} : m \in Masters}
         /\ top_priority' \in [SHARED -> Masters]
         /\ packet_in_progress' \in [SHARED -> BOOLEAN]
<1>1. ASSUME NEW s \in SHARED
      PROVE  \/ NextGrant(Requests, s) = {}
             \/ \E m \in Masters : NextGrant(Requests, s) = {Other(m)}
  <2>1. top_priority[s] \in Masters /\ Asking(Requests, s) \subseteq Masters
    BY DEF Asking
  <2>2. CASE top_priority[s] \in Asking(Requests, s)
    <3>1. NextGrant(Requests, s) = {top_priority[s]}
      BY <2>2 DEF NextGrant
    <3> QED BY <2>1, <3>1 DEF Masters, Other
  <2>3. CASE top_priority[s] \notin Asking(Requests, s)
    <3>1. NextGrant(Requests, s) \subseteq {Other(top_priority[s])}
      BY <2>1, <2>3 DEF NextGrant, Masters, Other
    <3> QED BY <2>1, <3>1
  <2> QED BY <2>2, <2>3
<1>2. \A m \in Masters : Other(m) \in Masters
  BY DEF Masters, Other
<1>3. \A s \in SHARED : NextGrant(Requests, s) \in {{}} \cup {{m} : m \in Masters}
  BY <1>1, <1>2
<1>4. \A s \in SHARED : saved_grant'[s] \in {{}} \cup {{m} : m \in Masters}
  BY <1>3 DEF Arbitrate
<1>5. top_priority' \in [SHARED -> Masters]
  BY <1>1 DEF Arbitrate
<1>6. packet_in_progress' \in [SHARED -> BOOLEAN]
  BY DEF Arbitrate
<1> QED BY <1>4, <1>5, <1>6

LEMMA EdgeKeepsBusInv ==
  ASSUME BusInv, NEW own \in SUBSET MayWait, NEW iw \in INSTRUCTIONS, NEW pc \in CODE,
         Edge(own, iw, pc)
  PROVE  BusInv'
<1>1. StageInv' /\ AnswersInv'
  BY EdgeKeepsStages, EdgeKeepsAnswers DEF BusInv
<1>2. WaitInv' /\ wait_latency_counter' \in [Slaves -> 0 .. STALL + 1]
  BY EdgeKeepsWaits DEF BusInv, TypeOK
<1>3. ProcessorTypeOK'
  BY WaitsAreBoolean, ProcessorTypes DEF BusInv, TypeOK, Edge
<1>4. /\ \A s \in SHARED : saved_grant'[s] \in {{}} \cup {{m} : m \in Masters}
      /\ top_priority' \in [SHARED -> Masters]
      /\ packet_in_progress' \in [SHARED -> BOOLEAN]
  BY ArbiterTypes DEF BusInv, TypeOK, Edge, InterconnectEdge
<1>5. hold_waitrequest' \in BOOLEAN
  BY DEF Edge, InterconnectEdge
<1>6. read_accepted' \in [Masters -> BOOLEAN]
  BY DEF Edge, InterconnectEdge, ReadsAccepted, BusInv, TypeOK
<1>7. write_accepted' \in BOOLEAN /\ end_begintransfer' \in BOOLEAN
  BY DEF Edge, InterconnectEdge, WriteAccepted, EndBegintransfer
<1>8. \A s \in Slaves : /\ Len(rsp_fifo'[s]) <= 1
                        /\ readdatavalid'[s] <=> rsp_fifo'[s] # <<>>
  <2> TAKE s \in Slaves
  <2>1. PICK fifo : fifo = rsp_fifo'[s]
    OBVIOUS
  <2>2. IF readdatavalid'[s] THEN \E m : fifo = <<m>> ELSE fifo = <<>>
    BY <1>1, <2>1 DEF AnswersInv, Expected
  <2>3. \A m : Len(<<m>>) = 1 /\ <<m>> # <<>>
    OBVIOUS
  <2>4. Len(fifo) <= 1
    <3>1. CASE fifo = <<>>
      BY <3>1
    <3>2. ASSUME NEW m, fifo = <<m>> PROVE Len(fifo) <= 1
      BY <3>2
    <3> QED BY <2>2, <3>1, <3>2
  <2> QED BY <2>1, <2>2, <2>3, <2>4
<1>9. accesses' \in 0 .. 2
  BY DEF Edge, BusInv, TypeOK
<1> QED BY <1>1, <1>2, <1>3, <1>4, <1>5, <1>6, <1>7, <1>8, <1>9 DEF BusInv, TypeOK

LEMMA BusInvHolds == Spec => []BusInv
<1>1. Init => BusInv
  BY InitBusInv
<1>2. BusInv /\ [Next]_vars => BusInv'
  <2> SUFFICES ASSUME BusInv, [Next]_vars PROVE BusInv'
    OBVIOUS
  <2>1. CASE Next
    BY <2>1, EdgeKeepsBusInv DEF Next
  <2>2. CASE UNCHANGED vars
    <3> USE <2>2 DEF vars, processorVars, stages, dataMaster, interconnectVars, masterSide,
                     slaveSide, arbiters
    <3>1. StageInv'
      BY DEF BusInv, StageInv, Flags, OneStage, R_ctrl_ld, R_ctrl_st
    <3>2. AnswersInv'
      BY DEF BusInv, AnswersInv, Expected, Requests
    <3>3. WaitInv'
      <4>1. Requests' = Requests
        BY DEF Requests
      <4>2. \A s : Asking(Requests, s)' = Asking(Requests, s)
        BY <4>1 DEF Asking, uav_read, uav_write
      <4>3. \A s : Granted(Requests, s)' = Granted(Requests, s)
        BY <4>2 DEF Granted
      <4>4. \A s : m0_read(Requests, s)' <=> m0_read(Requests, s)
        BY <4>1, <4>3 DEF m0_read, ready_for_command, uav_read
      <4> QED BY <4>4 DEF BusInv, WaitInv
    <3>4. TypeOK'
      BY DEF BusInv, TypeOK, ProcessorTypeOK
    <3> QED BY <3>1, <3>2, <3>3, <3>4 DEF BusInv
  <2> QED BY <2>1, <2>2
<1> QED BY <1>1, <1>2, PTL DEF Spec

\* Every register of the processor and of the interconnect keeps its type.  An
\* arbiter lets one master through at most, one answer of a slave is on its way
\* at a time, and a wait is counted no further than the slave may make it last.
THEOREM BusTypes == Spec => []TypeOK
<1>1. BusInv => TypeOK
  BY DEF BusInv
<1> QED BY <1>1, BusInvHolds, PTL
-----------------------------------------------------------------------------
(* The program's view: a load or a store is one access, before the next     *)
(* instruction.                                                             *)

\* The data master has a read or a write on its lines that no slave has taken.
DataAsks == (d_read /\ ~read_accepted["data"]) \/ (d_write /\ ~write_accepted)

\* An instruction has been seen by no slave until its stage asks; by then the
\* translators remember whether a slave has taken what is on the lines.
AccessInv ==
    /\ D_valid \/ R_valid \/ E_new_inst => accesses = 0
    /\ d_read => accesses = IF read_accepted["data"] THEN 1 ELSE 0
    /\ d_write => accesses = IF write_accepted THEN 1 ELSE 0
    /\ W_valid \/ (E_valid /\ ~E_new_inst /\ ~d_read /\ ~d_write) =>
           accesses = Machine!Accesses(D_iw)
    /\ d_read <=> av_ld_waiting_for_data
    /\ read_accepted["data"] => d_read
    /\ write_accepted => d_write

\* An access is the acceptance of what the data master asks, in the clock in
\* which its agent stops waiting.
LEMMA AccessIsAcceptance ==
  ASSUME BusInv, NEW own
  PROVE  Accessed(own) # {} <=> DataAsks /\ ~uav_waitrequest(Requests, own, "data")
<1>1. ASSUME NEW s \in Accessed(own)
      PROVE  DataAsks /\ ~uav_waitrequest(Requests, own, "data")
  <2>1. /\ s \in Slaves /\ "data" \in Granted(Requests, s)
        /\ TakesRead(Requests, own, s) \/ TakesWrite(Requests, own, s)
    BY <1>1 DEF Accessed
  <2>2. /\ uav_read(Requests, "data") \/ uav_write(Requests, "data")
        /\ ~hold_waitrequest /\ D_iw.at = s
        /\ s \in SHARED => "data" \in saved_grant[s]
    BY <2>1, Lines DEF Granted, Asking
  <2>3. DataAsks
    BY <2>2, Lines DEF DataAsks, uav_read, uav_write, Masters
  <2>4. ready_for_command(s)
    BY <2>1 DEF TakesRead, TakesWrite, m0_read, m0_write
  <2>5. ~m0_waitrequest(Requests, own, s)
    <3>1. CASE TakesRead(Requests, own, s)
      BY <3>1 DEF TakesRead
    <3>2. CASE TakesWrite(Requests, own, s)
      <4>1. m0_write(Requests, s) /\ ~(WAIT[s] = "own" /\ s \in own)
        BY <3>2 DEF TakesWrite
      <4>2. WAIT[s] = "one" => wait_latency_counter[s] = 0
        BY <2>1, <4>1, ReadOrWrite DEF BusInv, WaitInv
      <4>3. WAIT[s] \in {"none", "one", "own"}
        BY <2>1, InterconnectAssumption
      <4> QED BY <2>2, <4>1, <4>2, <4>3 DEF m0_waitrequest
    <3> QED BY <2>1, <3>1, <3>2
  <2> QED BY <2>2, <2>3, <2>4, <2>5, Lines DEF uav_waitrequest, cp_ready
<1>2. ASSUME DataAsks, ~uav_waitrequest(Requests, own, "data") PROVE Accessed(own) # {}
  <2> DEFINE s == D_iw.at
  <2>1. s \in Slaves
    BY SystemBusAssumption DEF BusInv, TypeOK, ProcessorTypeOK
  <2>2. /\ ~hold_waitrequest /\ cp_ready(Requests, own, s)
        /\ s \in SHARED => "data" \in saved_grant[s]
    BY <1>2, Lines DEF uav_waitrequest
  <2>3. /\ "data" \in Masters
        /\ uav_read(Requests, "data") \/ uav_write(Requests, "data")
    BY <1>2, Lines DEF DataAsks, uav_read, uav_write, Masters
  <2>4. "data" \in Granted(Requests, s)
    BY <2>2, <2>3, Lines DEF Granted, Asking
  <2>5. TakesRead(Requests, own, s) \/ TakesWrite(Requests, own, s)
    <3>1. ready_for_command(s) /\ ~m0_waitrequest(Requests, own, s)
      BY <2>2 DEF cp_ready
    <3>2. CASE uav_read(Requests, "data")
      BY <2>4, <3>1, <3>2 DEF TakesRead, m0_read
    <3>3. CASE uav_write(Requests, "data")
      BY <2>4, <3>1, <3>3 DEF TakesWrite, m0_write, m0_waitrequest
    <3> QED BY <2>3, <3>2, <3>3
  <2> QED BY <2>1, <2>4, <2>5 DEF Accessed
<1> QED BY <1>1, <1>2

\* What the data master sees at an edge: how long it waits, and what its
\* translator remembers.
LEMMA DataEdge ==
  ASSUME BusInv, AccessInv, NEW own, NEW iw, NEW pc, Edge(own, iw, pc)
  PROVE  LET wait == d_waitrequest(Requests, own)
             held == uav_waitrequest(Requests, own, "data")
         IN  /\ d_read /\ ~read_accepted["data"] => wait
             /\ read_accepted'["data"] <=>
                    d_read /\ wait /\ (read_accepted["data"] \/ ~held)
             /\ d_write /\ ~write_accepted /\ held => wait
             /\ write_accepted => ~wait
             /\ write_accepted' <=> d_write /\ ~write_accepted /\ ~held /\ wait
<1> DEFINE wait == d_waitrequest(Requests, own)
           held == uav_waitrequest(Requests, own, "data")
<1>1. ~(d_read /\ d_write)
  BY DEF BusInv, StageInv, OneStage, R_ctrl_ld, R_ctrl_st
<1>2. d_read => (wait <=> Answering("data") = {})
  BY Lines DEF d_waitrequest, Masters
<1>3. Answering("data") # {} => read_accepted["data"]
  BY AnswersAreExpected DEF AnsweredByItsSlave, BusInv, Masters
<1>4. d_write => (wait <=> (internal_begintransfer(Requests) \/ held) /\ ~write_accepted)
  BY <1>1, Lines DEF d_waitrequest, Masters
<1>5. "data" \in Masters /\ (uav_write(Requests, "data") <=> d_write /\ ~write_accepted)
  BY Lines DEF uav_write, Masters
<1>6. read_accepted'["data"] <=> IF read_accepted["data"] THEN Answering("data") = {}
                                 ELSE wait /\ d_read /\ ~held
  BY <1>5, Lines DEF Edge, InterconnectEdge, ReadsAccepted, av_waitrequest
<1>7. write_accepted' <=> wait /\ ((d_write /\ ~write_accepted /\ ~held) \/ write_accepted)
  BY <1>5 DEF Edge, InterconnectEdge, WriteAccepted
<1> HIDE DEF wait, held
<1>8. /\ d_read /\ ~read_accepted["data"] => wait
      /\ read_accepted'["data"] <=> d_read /\ wait /\ (read_accepted["data"] \/ ~held)
  BY <1>2, <1>3, <1>6 DEF AccessInv
<1>9. /\ d_write /\ ~write_accepted /\ held => wait
      /\ write_accepted => ~wait
      /\ write_accepted' <=> d_write /\ ~write_accepted /\ ~held /\ wait
  BY <1>4, <1>7 DEF AccessInv
<1> QED BY <1>8, <1>9 DEF wait, held

\* The stages at an edge, and the accesses counted at it.
LEMMA StageEdge ==
  ASSUME BusInv, AccessInv, NEW own, NEW iw, NEW pc, Edge(own, iw, pc)
  PROVE  LET wait == d_waitrequest(Requests, own)
             held == uav_waitrequest(Requests, own, "data")
             got  == F_valid(i_waitrequest(Requests, own))
         IN  /\ got => i_read
             /\ i_read' <=> W_valid \/ (i_read /\ ~got)
             /\ D_iw' = IF got THEN iw ELSE D_iw
             /\ D_valid' <=> got
             /\ R_valid' <=> D_valid
             /\ E_new_inst' <=> R_valid
             /\ E_valid' <=> R_valid \/ E_stall(wait)
             /\ W_valid' <=> E_valid /\ ~E_stall(wait)
             /\ d_read' <=> (R_ctrl_ld /\ E_new_inst) \/ (d_read /\ wait)
             /\ d_write' <=> (R_ctrl_st /\ E_new_inst) \/ (d_write /\ wait)
             /\ av_ld_waiting_for_data' <=> d_read'
             /\ accesses' = IF got THEN 0 ELSE IF DataAsks /\ ~held THEN 1 ELSE accesses
<1> DEFINE wait == d_waitrequest(Requests, own)
           held == uav_waitrequest(Requests, own, "data")
           got  == F_valid(i_waitrequest(Requests, own))
<1>1. /\ got => i_read
      /\ i_read' <=> W_valid \/ (i_read /\ ~got)
      /\ D_iw' = IF got THEN iw ELSE D_iw
      /\ D_valid' <=> got
      /\ R_valid' <=> D_valid
      /\ E_new_inst' <=> R_valid
      /\ E_valid' <=> R_valid \/ E_stall(wait)
      /\ W_valid' <=> E_valid /\ ~E_stall(wait)
      /\ d_read' <=> (R_ctrl_ld /\ E_new_inst) \/ (d_read /\ wait)
      /\ d_write' <=> (R_ctrl_st /\ E_new_inst) \/ (d_write /\ wait)
  BY DEF Edge, ProcessorEdge, F_valid, d_read_nxt, d_write_nxt, BusInv, StageInv, Flags
<1>2. av_ld_waiting_for_data' <=> d_read'
  <2>1. av_ld_waiting_for_data' <=>
            IF d_read THEN wait ELSE R_ctrl_ld /\ E_new_inst
    BY DEF Edge, ProcessorEdge, av_ld_waiting_for_data_nxt, av_ld_getting_data, AccessInv
  <2>2. d_read => ~E_new_inst
    BY DEF BusInv, StageInv, OneStage
  <2> QED BY <1>1, <2>1, <2>2
<1>3. accesses' = IF got THEN 0 ELSE IF DataAsks /\ ~held THEN 1 ELSE accesses
  <2>1. DataAsks => accesses = 0
    BY DEF DataAsks, AccessInv, BusInv, StageInv, OneStage, R_ctrl_ld, R_ctrl_st
  <2>2. Accessed(own) # {} <=> DataAsks /\ ~held
    BY AccessIsAcceptance
  <2>3. accesses' = IF got THEN 0
                    ELSE IF Accessed(own) # {} /\ accesses < 2 THEN accesses + 1 ELSE accesses
    BY DEF Edge
  <2> QED BY <2>1, <2>2, <2>3
<1> QED BY <1>1, <1>2, <1>3

LEMMA Kinds ==
  /\ ~(R_ctrl_ld /\ R_ctrl_st)
  /\ Machine!Accesses(D_iw) = IF R_ctrl_ld \/ R_ctrl_st THEN 1 ELSE 0
  BY DEF R_ctrl_ld, R_ctrl_st, Machine!Accesses

LEMMA EdgeKeepsAccesses ==
  ASSUME BusInv, AccessInv, NEW own, NEW iw, NEW pc, Edge(own, iw, pc)
  PROVE  AccessInv'
<1> DEFINE wait == d_waitrequest(Requests, own)
           held == uav_waitrequest(Requests, own, "data")
           got  == F_valid(i_waitrequest(Requests, own))
<1>1. OneStage
  BY DEF BusInv, StageInv
<1>2. /\ d_read /\ ~read_accepted["data"] => wait
      /\ read_accepted'["data"] <=> d_read /\ wait /\ (read_accepted["data"] \/ ~held)
      /\ d_write /\ ~write_accepted /\ held => wait
      /\ write_accepted => ~wait
      /\ write_accepted' <=> d_write /\ ~write_accepted /\ ~held /\ wait
  BY DataEdge
<1>3. /\ got => i_read
      /\ i_read' <=> W_valid \/ (i_read /\ ~got)
      /\ D_iw' = IF got THEN iw ELSE D_iw
      /\ D_valid' <=> got
      /\ R_valid' <=> D_valid
      /\ E_new_inst' <=> R_valid
      /\ E_valid' <=> R_valid \/ E_stall(wait)
      /\ W_valid' <=> E_valid /\ ~E_stall(wait)
      /\ d_read' <=> (R_ctrl_ld /\ E_new_inst) \/ (d_read /\ wait)
      /\ d_write' <=> (R_ctrl_st /\ E_new_inst) \/ (d_write /\ wait)
      /\ av_ld_waiting_for_data' <=> d_read'
      /\ accesses' = IF got THEN 0 ELSE IF DataAsks /\ ~held THEN 1 ELSE accesses
  BY StageEdge
<1>4. /\ E_stall(wait) => E_valid
      /\ d_read' => E_stall(wait)
      /\ d_write' => E_stall(wait)
      /\ E_stall(wait) /\ R_ctrl_st => d_write'
      /\ E_stall(wait) /\ R_ctrl_ld /\ E_new_inst => d_read'
  <2>1. wait \in BOOLEAN
    BY WaitsAreBoolean
  <2>2. /\ E_stall(wait) => E_valid
        /\ d_read_nxt(wait) => E_stall(wait)
        /\ d_write_nxt(wait) => E_stall(wait)
    BY <2>1, StallsInE DEF BusInv
  <2>3. /\ d_read' <=> d_read_nxt(wait)
        /\ d_write' <=> d_write_nxt(wait)
    BY <1>3 DEF d_read_nxt, d_write_nxt
  <2>4. E_stall(wait) /\ R_ctrl_st => d_write_nxt(wait)
    BY DEF E_stall, E_shift_rot_stall, E_ld_stall, E_st_stall, R_ctrl_st, R_ctrl_shift_rot,
           R_ctrl_ld
  <2> QED BY <1>3, <2>2, <2>3, <2>4
<1> DEFINE all == Machine!Accesses(D_iw)
<1>5. ~got => Machine!Accesses(D_iw)' = all
  BY <1>3 DEF Machine!Accesses
<1>6. /\ ~(R_ctrl_ld /\ R_ctrl_st)
      /\ all = IF R_ctrl_ld \/ R_ctrl_st THEN 1 ELSE 0
  BY Kinds
<1> HIDE DEF wait, held, got, all
<1>7. /\ D_valid' \/ R_valid' \/ E_new_inst' => accesses' = 0
      /\ read_accepted'["data"] => d_read'
      /\ write_accepted' => d_write'
  BY <1>1, <1>2, <1>3, <1>6 DEF OneStage, AccessInv, DataAsks
<1>8. /\ d_read' => accesses' = IF read_accepted'["data"] THEN 1 ELSE 0
      /\ d_write' => accesses' = IF write_accepted' THEN 1 ELSE 0
  BY <1>1, <1>2, <1>3, <1>6 DEF OneStage, AccessInv, DataAsks
<1>9. W_valid' \/ (E_valid' /\ ~E_new_inst' /\ ~d_read' /\ ~d_write') =>
          accesses' = Machine!Accesses(D_iw)'
  <2> SUFFICES ASSUME W_valid' \/ (E_valid' /\ ~E_new_inst' /\ ~d_read' /\ ~d_write')
               PROVE  accesses' = all
    BY <1>1, <1>3, <1>4, <1>5 DEF OneStage
  <2>1. E_valid /\ ~got /\ ~d_read' /\ ~d_write'
    BY <1>1, <1>3, <1>4 DEF OneStage
  <2>2. CASE d_read
    BY <1>1, <1>2, <1>3, <1>6, <2>1, <2>2 DEF OneStage, AccessInv, DataAsks
  <2>3. CASE d_write
    BY <1>1, <1>2, <1>3, <1>6, <2>1, <2>3 DEF OneStage, AccessInv, DataAsks
  <2>4. CASE ~d_read /\ ~d_write
    BY <1>1, <1>2, <1>3, <1>6, <2>1, <2>4 DEF OneStage, AccessInv, DataAsks, all
  <2> QED BY <2>2, <2>3, <2>4
<1> QED BY <1>3, <1>7, <1>8, <1>9 DEF AccessInv

\* An edge of the clock is a step of the instruction machine, or none.
LEMMA EdgeIsMachineStep ==
  ASSUME BusInv, AccessInv, NEW own, NEW iw \in INSTRUCTIONS, NEW pc, Edge(own, iw, pc)
  PROVE  [Machine!Next]_(Machine!machineVars)
<1> DEFINE held == uav_waitrequest(Requests, own, "data")
           got  == F_valid(i_waitrequest(Requests, own))
           all  == Machine!Accesses(D_iw)
<1>1. OneStage
  BY DEF BusInv, StageInv
<1>2. /\ got => i_read
      /\ i_read' <=> W_valid \/ (i_read /\ ~got)
      /\ D_iw' = IF got THEN iw ELSE D_iw
      /\ accesses' = IF got THEN 0 ELSE IF DataAsks /\ ~held THEN 1 ELSE accesses
  BY StageEdge
<1>3. all = IF R_ctrl_ld \/ R_ctrl_st THEN 1 ELSE 0
  BY Kinds
<1>4. DataAsks => E_valid /\ accesses = 0 /\ all = 1
  BY <1>1, <1>3 DEF OneStage, DataAsks, AccessInv
<1> HIDE DEF held, got, all
<1>5. CASE got
  BY <1>1, <1>2, <1>5 DEF Machine!Next, Machine!Fetch, OneStage
<1>6. CASE ~got /\ W_valid
  <2>1. ~i_read /\ i_read' /\ D_iw' = D_iw /\ accesses' = accesses /\ accesses = all
    BY <1>1, <1>2, <1>4, <1>6 DEF OneStage, AccessInv, all
  <2> QED BY <2>1 DEF Machine!Next, Machine!Retire, all
<1>7. CASE ~got /\ ~W_valid /\ DataAsks /\ ~held
  <2>1. ~i_read /\ ~i_read' /\ D_iw' = D_iw /\ accesses' = accesses + 1 /\ accesses < all
    BY <1>1, <1>2, <1>4, <1>7 DEF OneStage
  <2> QED BY <2>1 DEF Machine!Next, Machine!Access, all
<1>8. CASE ~got /\ ~W_valid /\ ~(DataAsks /\ ~held)
  <2>1. (i_read' <=> i_read) /\ D_iw' = D_iw /\ accesses' = accesses
    BY <1>2, <1>8
  <2> QED BY <2>1 DEF Machine!machineVars
<1> QED BY <1>5, <1>6, <1>7, <1>8

LEMMA InitAccessInv == Init => AccessInv
<1> SUFFICES ASSUME Init PROVE AccessInv
  OBVIOUS
<1>1. /\ ~D_valid /\ ~R_valid /\ ~E_valid /\ ~E_new_inst /\ ~W_valid
      /\ ~d_read /\ ~d_write /\ ~av_ld_waiting_for_data
  BY DEF Init, ProcessorInit
<1>2. ~read_accepted["data"] /\ ~write_accepted
  BY DEF Init, InterconnectInit, Masters
<1> QED BY <1>1, <1>2 DEF AccessInv

LEMMA AccessStep ==
  BusInv /\ AccessInv /\ [Next]_vars => AccessInv' /\ [Machine!Next]_(Machine!machineVars)
<1> SUFFICES ASSUME BusInv, AccessInv, [Next]_vars
             PROVE  AccessInv' /\ [Machine!Next]_(Machine!machineVars)
  OBVIOUS
<1>1. CASE Next
  BY <1>1, EdgeKeepsAccesses, EdgeIsMachineStep DEF Next
<1>2. CASE UNCHANGED vars
  BY <1>2 DEF vars, processorVars, stages, dataMaster, interconnectVars, masterSide,
              AccessInv, Machine!machineVars, Machine!Accesses
<1> QED BY <1>1, <1>2

LEMMA AccessInvHolds == Spec => []AccessInv
  BY InitAccessInv, AccessStep, BusInvHolds, PTL DEF Spec

\* The processor on its bus does what the instruction machine does: an
\* instruction is fetched, a load or a store is exactly one access of its slave
\* made before the next fetch, and nothing else is an access.  (The safety of
\* ImplementsInstructionMachine.)
THEOREM BusIsSafe == Spec => Machine!Init /\ [][Machine!Next]_(Machine!machineVars)
<1>1. Init => Machine!Init
  BY DEF Init, ProcessorInit, Machine!Init
<1> QED BY <1>1, AccessStep, BusInvHolds, AccessInvHolds, PTL DEF Spec

-----------------------------------------------------------------------------
(* How long an instruction takes: the other half of the refinement.         *)

Accepted(m) == read_accepted[m] \/ (m = "data" /\ write_accepted)

Asks(m) == uav_read(Requests, m) \/ uav_write(Requests, m)

\* A read that has been accepted is answered at once, and an arbiter or a
\* slave that is busy is so with a command that is still there.
TransferInv ==
    /\ \A m \in Masters : read_accepted[m] =>
           Requests[m].read /\ readdatavalid[Requests[m].at] /\ rsp_fifo[Requests[m].at] = <<m>>
    /\ \A s \in Slaves : wait_latency_counter[s] # 0 => Granted(Requests, s) # {}
    /\ \A s \in SHARED : packet_in_progress[s] => Granted(Requests, s) # {}
    /\ hold_waitrequest => \A s \in SHARED : saved_grant[s] = {}

\* What a stage E that is not at its first clock waits for.
ExecuteInv ==
    /\ av_ld_aligning_data =>
           /\ E_valid /\ R_ctrl_ld /\ ~E_new_inst /\ ~d_read
           /\ D_iw.extra # 0 /\ av_ld_align_cycle <= D_iw.extra
    /\ E_valid /\ ~E_new_inst =>
           \/ R_ctrl_ld /\ (d_read \/ av_ld_aligning_data)
           \/ R_ctrl_st /\ d_write
           \/ R_ctrl_shift_rot
    /\ d_read => av_ld_align_cycle = 0
    /\ i_read \/ D_valid \/ R_valid \/ E_valid \/ W_valid

\* The clocks until the slave takes the command of a master: one after reset,
\* one for the arbiter, and those that the slave may make it wait.
ClocksToAccept(m) ==
    LET s == Requests[m].at
    IN  (IF hold_waitrequest THEN 1 ELSE 0)
        + (IF s \in SHARED /\ m \notin saved_grant[s] THEN 1 ELSE 0)
        + (STALL + 2 - wait_latency_counter[s])

Transfer(m) == IF Accepted(m) THEN 1 ELSE ClocksToAccept(m) + 1

LongestTransfer == STALL + 5

\* A shift is at most one of 31 places, an alignment takes four clocks.
ClocksInE ==
    IF E_new_inst THEN LongestTransfer + 33
    ELSE IF d_read THEN Transfer("data") + 4
    ELSE IF d_write THEN Transfer("data")
    ELSE IF R_ctrl_shift_rot THEN E_shift_rot_cnt + 1
    ELSE 4 - av_ld_align_cycle

ClocksToFetch ==
    IF i_read THEN Transfer("instruction")
    ELSE IF W_valid THEN 1 + LongestTransfer
    ELSE IF E_valid THEN 1 + LongestTransfer + ClocksInE
    ELSE (IF D_valid THEN 2 ELSE 1) + 2 * LongestTransfer + 34

LEMMA SlaveOfMaster == BusInv => \A m \in Masters : Requests[m].at \in Slaves
<1> SUFFICES ASSUME BusInv, NEW m \in Masters PROVE Requests[m].at \in Slaves
  OBVIOUS
<1>1. D_iw.at \in Slaves /\ F_pc \in Slaves
  BY SystemBusAssumption, InterconnectAssumption DEF BusInv, TypeOK, ProcessorTypeOK
<1> QED BY <1>1 DEF Requests, Masters

\* Only one master asks, so nobody else is in its way.
LEMMA AsksAlone ==
  ASSUME BusInv, NEW m \in Masters, Requests[m].read \/ Requests[m].write,
         NEW n \in Masters, Requests[n].read \/ Requests[n].write
  PROVE  n = m
  BY Lines DEF BusInv, StageInv, OneStage, Masters

LEMMA AlwaysReady ==
  ASSUME BusInv, NEW s \in Slaves
  PROVE  ready_for_command(s)
<1>1. PICK fifo : fifo = rsp_fifo[s]
  OBVIOUS
<1>2. fifo = <<>> \/ \E n : fifo = <<n>>
  BY <1>1 DEF BusInv, AnswersInv, Expected
<1>3. Len(fifo) < 2
  BY <1>2
<1> QED BY <1>1, <1>3 DEF ready_for_command, DEPTH

\* A master that waits has a command that is not accepted.
LEMMA WaitingIsAsking ==
  ASSUME BusInv, AccessInv, TransferInv, NEW own, NEW iw, NEW pc, Edge(own, iw, pc),
         NEW m \in Masters, Requests[m].read \/ Requests[m].write,
         av_waitrequest(Requests, own, m)
  PROVE  Asks(m) /\ ~Accepted(m)
<1>1. ~(Requests[m].read /\ Requests[m].write)
  BY Lines DEF BusInv, StageInv, OneStage, R_ctrl_ld, R_ctrl_st, Masters
<1>2. CASE Requests[m].read
  <2>1. Answering(m) = {}
    BY <1>2 DEF av_waitrequest, d_waitrequest, i_waitrequest, Masters
  <2>2. ~read_accepted[m]
    <3> SUFFICES ASSUME read_accepted[m] PROVE FALSE
      OBVIOUS
    <3>1. /\ Requests[m].at \in Slaves /\ readdatavalid[Requests[m].at]
          /\ rsp_fifo[Requests[m].at] = <<m>>
      BY SlaveOfMaster DEF TransferInv
    <3>2. <<m>> # <<>> /\ Head(<<m>>) = m
      OBVIOUS
    <3>3. Requests[m].at \in Answering(m)
      BY <3>1, <3>2 DEF Answering
    <3> QED BY <2>1, <3>3
  <2>3. m = "data" => ~write_accepted
    BY <1>1, <1>2, Lines DEF AccessInv
  <2> QED BY <1>2, <2>2, <2>3 DEF Asks, Accepted, uav_read
<1>3. CASE Requests[m].write
  <2>1. m = "data" /\ d_write /\ d_waitrequest(Requests, own)
    BY <1>3, Lines DEF av_waitrequest
  <2>2. ~write_accepted
    BY <2>1, DataEdge
  <2>3. ~read_accepted["data"]
    BY <1>1, <1>3, <2>1, Lines DEF AccessInv, Masters
  <2> QED BY <1>3, <2>1, <2>2, <2>3 DEF Asks, Accepted, uav_write
<1> QED BY <1>2, <1>3

\* It asks for the same again, unless its slave takes the command now.
LEMMA AsksOn ==
  ASSUME BusInv, AccessInv, NEW own, NEW iw, NEW pc, Edge(own, iw, pc),
         NEW m \in Masters, Asks(m), av_waitrequest(Requests, own, m)
  PROVE  /\ Requests[m].at' = Requests[m].at
         /\ Requests[m].read => Requests[m].read'
         /\ Requests[m].write => Requests[m].write'
         /\ Accepted(m)' <=> ~uav_waitrequest(Requests, own, m)
         /\ read_accepted'[m] => Requests[m].read
<1> DEFINE wait == d_waitrequest(Requests, own)
           held == uav_waitrequest(Requests, own, "data")
<1>1. OneStage
  BY DEF BusInv, StageInv
<1>2. CASE Requests[m].read
  <2>1. Requests[m].read' /\ Requests[m].at' = Requests[m].at
    BY <1>2, MasterKeepsAsking DEF BusInv
  <2>2. ~Requests[m].write
    BY <1>1, <1>2, Lines DEF OneStage, R_ctrl_ld, R_ctrl_st, Masters
  <2>3. ~read_accepted[m]
    BY <2>2 DEF Asks, uav_read, uav_write
  <2>4. read_accepted'[m] <=> ~uav_waitrequest(Requests, own, m)
    BY <1>2, <2>3 DEF Edge, InterconnectEdge, ReadsAccepted
  <2>5. m = "data" => ~write_accepted'
    <3>1. m = "data" => ~d_write
      BY <2>2, Lines
    <3> QED BY <3>1, DataEdge
  <2> QED BY <1>2, <2>1, <2>2, <2>4, <2>5 DEF Accepted
<1>3. CASE ~Requests[m].read
  <2>1. m = "data" /\ d_write /\ ~d_read /\ ~write_accepted /\ wait
    BY <1>3, Lines DEF Asks, uav_read, uav_write, av_waitrequest
  <2>2. d_write' /\ D_iw' = D_iw
    BY <1>1, <2>1, StageEdge DEF OneStage
  <2>3. Requests[m].write' /\ Requests[m].at' = Requests[m].at
    BY <2>1, <2>2 DEF Requests
  <2>4. ~read_accepted'["data"] /\ (write_accepted' <=> ~held)
    BY <2>1, DataEdge
  <2> QED BY <1>3, <2>1, <2>3, <2>4 DEF Accepted
<1> QED BY <1>2, <1>3

\* A command that is let through to its slave and has to wait there is still
\* let through at the next edge.
LEMMA StaysGranted ==
  ASSUME BusInv, AccessInv, NEW own, NEW iw, NEW pc, Edge(own, iw, pc),
         NEW s \in Slaves, NEW m \in Granted(Requests, s), ~cp_ready(Requests, own, s)
  PROVE  /\ m \in Masters /\ Asks(m) /\ Requests[m].at = s
         /\ av_waitrequest(Requests, own, m) /\ uav_waitrequest(Requests, own, m)
         /\ m \in Granted(Requests, s)'
<1>1. m \in Masters /\ Asks(m) /\ Requests[m].at = s
  BY DEF Granted, Asking, Asks
<1>2. uav_waitrequest(Requests, own, m)
  BY <1>1 DEF uav_waitrequest
<1>3. av_waitrequest(Requests, own, m)
  <2>1. CASE uav_read(Requests, m)
    BY <1>1, <2>1, AnswersAreExpected
       DEF BusInv, AnsweredByItsSlave, uav_read, av_waitrequest, d_waitrequest, i_waitrequest,
           Masters
  <2>2. CASE uav_write(Requests, m)
    <3>1. m = "data" /\ d_write /\ ~write_accepted
      BY <1>1, <2>2, Lines DEF uav_write
    <3>2. d_waitrequest(Requests, own)
      BY <1>2, <3>1, DataEdge
    <3> QED BY <3>1, <3>2 DEF av_waitrequest
  <2> QED BY <1>1, <2>1, <2>2 DEF Asks
<1>4. /\ Requests[m].at' = s /\ ~Accepted(m)'
      /\ Requests[m].read => Requests[m].read'
      /\ Requests[m].write => Requests[m].write'
  BY <1>1, <1>2, <1>3, AsksOn
<1>5. m \in Asking(Requests, s)'
  <2>1. ~hold_waitrequest'
    BY DEF Edge, InterconnectEdge
  <2>2. Requests[m].write => m = "data"
    BY <1>1, Lines
  <2>3. ~read_accepted'[m] /\ (m = "data" => ~write_accepted')
    BY <1>4 DEF Accepted
  <2> QED BY <1>1, <1>4, <2>1, <2>2, <2>3 DEF Asking, Asks, uav_read, uav_write
<1>6. s \in SHARED => m \in saved_grant'[s]
  <2> SUFFICES ASSUME s \in SHARED PROVE m \in saved_grant'[s]
    OBVIOUS
  <2>1. ~update_grant(Requests, own, s)
    BY DEF update_grant, last_cycle
  <2>2. saved_grant'[s] = saved_grant[s]
    BY <2>1 DEF Edge, InterconnectEdge, Arbitrate
  <2> QED BY <2>2 DEF Granted
<1>7. m \in Granted(Requests, s)'
  BY <1>5, <1>6 DEF Granted
<1> QED BY <1>1, <1>2, <1>3, <1>7

LEMMA InitTransferInv == Init => TransferInv
  BY DEF Init, InterconnectInit, TransferInv

LEMMA TransferStep ==
  ASSUME BusInv, AccessInv, TransferInv, NEW own \in SUBSET MayWait, NEW iw \in INSTRUCTIONS,
         NEW pc \in CODE, Edge(own, iw, pc)
  PROVE  TransferInv'
<1>1. BusInv' /\ AnswersInv'
  BY EdgeKeepsBusInv DEF BusInv
<1>2. ASSUME NEW m \in Masters, read_accepted'[m]
      PROVE  /\ Requests[m].read' /\ readdatavalid'[Requests[m].at']
             /\ rsp_fifo'[Requests[m].at'] = <<m>>
  <2>1. av_waitrequest(Requests, own, m) /\ (Requests[m].read \/ Requests[m].write)
    <3>1. read_accepted'[m] <=> IF read_accepted[m] THEN Answering(m) = {}
                                ELSE /\ av_waitrequest(Requests, own, m)
                                     /\ Requests[m].read /\ ~uav_waitrequest(Requests, own, m)
      BY DEF Edge, InterconnectEdge, ReadsAccepted
    <3>2. read_accepted[m] => Requests[m].read
      BY DEF TransferInv
    <3>3. Requests[m].read => (av_waitrequest(Requests, own, m) <=> Answering(m) = {})
      BY DEF av_waitrequest, d_waitrequest, i_waitrequest, Masters
    <3> QED BY <1>2, <3>1, <3>2, <3>3
  <2>2. Asks(m) /\ ~Accepted(m)
    BY <2>1, WaitingIsAsking
  <2>3. /\ Requests[m].at' = Requests[m].at /\ Requests[m].read /\ Requests[m].read'
        /\ ~uav_waitrequest(Requests, own, m)
    <3>1. Accepted(m)'
      BY <1>2 DEF Accepted
    <3> QED BY <1>2, <2>1, <2>2, <3>1, AsksOn
  <2>4. PICK s \in Slaves : s = Requests[m].at
    BY SlaveOfMaster
  <2>5. uav_read(Requests, m) /\ m \in Granted(Requests, s)
    BY <2>2, <2>3, <2>4 DEF Accepted, uav_read, Granted, Asking, uav_waitrequest
  <2>6. TakesRead(Requests, own, s)
    BY <2>3, <2>4, <2>5 DEF uav_waitrequest, cp_ready, TakesRead, m0_read
  <2>7. readdatavalid'[s]
    BY <2>6 DEF Edge, InterconnectEdge, Answer
  <2>8. PICK n \in Masters : rsp_fifo'[s] = <<n>> /\ Requests[n].read'
    BY <1>1, <2>7 DEF AnswersInv, Expected
  <2>9. n = m
    <3>1. OneStage'
      BY <1>1 DEF BusInv, StageInv
    <3>2. ~(d_read' /\ i_read')
      BY <3>1 DEF OneStage
    <3>3. \A k \in Masters : Requests[k].read' <=> IF k = "data" THEN d_read' ELSE i_read'
      BY DEF Requests, Masters
    <3> QED BY <2>3, <2>8, <3>2, <3>3 DEF Masters
  <2> QED BY <2>3, <2>4, <2>7, <2>8, <2>9
<1>3. ASSUME NEW s \in Slaves, wait_latency_counter'[s] # 0
      PROVE  Granted(Requests, s)' # {}
  <2>1. m0_waitrequest(Requests, own, s) /\ (m0_read(Requests, s) \/ m0_write(Requests, s))
    BY <1>3 DEF Edge, InterconnectEdge, CountWait
  <2>2. PICK m : m \in Granted(Requests, s)
    BY <2>1 DEF m0_read, m0_write
  <2>3. ~cp_ready(Requests, own, s)
    BY <2>1 DEF cp_ready
  <2> QED BY <2>2, <2>3, StaysGranted
<1>4. ASSUME NEW s \in SHARED, packet_in_progress'[s]
      PROVE  Granted(Requests, s)' # {}
  <2>1. ~last_cycle(Requests, own, s) /\ (packet_in_progress[s] \/ Granted(Requests, s) # {})
    BY <1>4 DEF Edge, InterconnectEdge, Arbitrate
  <2>2. PICK m : m \in Granted(Requests, s)
    BY <2>1 DEF TransferInv
  <2>3. ~cp_ready(Requests, own, s) /\ s \in Slaves
    BY <2>1, <2>2, InterconnectAssumption DEF last_cycle
  <2> QED BY <2>2, <2>3, StaysGranted
<1>5. ~hold_waitrequest'
  BY DEF Edge, InterconnectEdge
<1> QED BY <1>2, <1>3, <1>4, <1>5 DEF TransferInv

LEMMA TransferRange ==
  ASSUME BusInv, NEW m \in Masters
  PROVE  ClocksToAccept(m) \in 1 .. STALL + 4 /\ Transfer(m) \in 1 .. LongestTransfer
<1>1. PICK s \in Slaves : s = Requests[m].at
  BY SlaveOfMaster
<1>2. PICK w \in 0 .. STALL + 1 : w = wait_latency_counter[s]
  BY <1>1 DEF BusInv, TypeOK
<1>3. PICK a \in 0 .. 1, b \in 0 .. 1 :
          /\ a = IF hold_waitrequest THEN 1 ELSE 0
          /\ b = IF s \in SHARED /\ m \notin saved_grant[s] THEN 1 ELSE 0
  OBVIOUS
<1>4. ClocksToAccept(m) = a + b + (STALL + 2 - w)
  BY <1>1, <1>2, <1>3 DEF ClocksToAccept
<1>5. ClocksToAccept(m) \in 1 .. STALL + 4
  BY <1>2, <1>3, <1>4, SystemBusAssumption
<1> QED BY <1>5, SystemBusAssumption DEF Transfer, LongestTransfer

\* A command that is not accepted comes closer: the reset is over, the arbiter
\* lets it through, or one more of the clocks of the slave has passed.
LEMMA AcceptanceComesCloser ==
  ASSUME BusInv, AccessInv, TransferInv, NEW own \in SUBSET MayWait, NEW iw \in INSTRUCTIONS,
         NEW pc \in CODE, Edge(own, iw, pc), NEW m \in Masters, Asks(m),
         av_waitrequest(Requests, own, m), uav_waitrequest(Requests, own, m)
  PROVE  ClocksToAccept(m)' < ClocksToAccept(m)
<1>1. PICK s \in Slaves : s = Requests[m].at
  BY SlaveOfMaster
<1>2. Requests[m].at' = s /\ (Requests[m].read \/ Requests[m].write)
  BY <1>1, AsksOn DEF Asks, uav_read, uav_write
<1>3. PICK w \in 0 .. STALL + 1, w1 \in 0 .. STALL + 1 :
          w = wait_latency_counter[s] /\ w1 = wait_latency_counter'[s]
  BY EdgeKeepsBusInv DEF BusInv, TypeOK
<1>4. PICK a \in 0 .. 1, b \in 0 .. 1, b1 \in 0 .. 1 :
          /\ a = IF hold_waitrequest THEN 1 ELSE 0
          /\ b = IF s \in SHARED /\ m \notin saved_grant[s] THEN 1 ELSE 0
          /\ b1 = IF s \in SHARED /\ m \notin saved_grant'[s] THEN 1 ELSE 0
  OBVIOUS
<1>5. /\ ClocksToAccept(m) = a + b + (STALL + 2 - w)
      /\ ClocksToAccept(m)' = b1 + (STALL + 2 - w1)
  <2>1. ~hold_waitrequest'
    BY DEF Edge, InterconnectEdge
  <2>2. ClocksToAccept(m)' = 0 + b1 + (STALL + 2 - w1)
    BY <1>2, <1>3, <1>4, <2>1 DEF ClocksToAccept
  <2> QED BY <1>1, <1>3, <1>4, <2>2, SystemBusAssumption DEF ClocksToAccept
<1>6. w1 = IF m0_waitrequest(Requests, own, s) /\ (m0_read(Requests, s) \/ m0_write(Requests, s))
           THEN w + 1 ELSE 0
  BY <1>3 DEF Edge, InterconnectEdge, CountWait
<1>7. CASE hold_waitrequest
  <2>1. Granted(Requests, s) = {}
    BY <1>7 DEF Granted, Asking
  <2>2. w = 0 /\ w1 = 0
    BY <1>3, <1>6, <2>1 DEF TransferInv, m0_read, m0_write
  <2>3. a = 1 /\ b1 <= b
    BY <1>4, <1>7 DEF TransferInv
  <2> QED BY <1>4, <1>5, <2>2, <2>3, SystemBusAssumption
<1>8. CASE ~hold_waitrequest /\ s \in SHARED /\ m \notin saved_grant[s]
  <2>1. Asking(Requests, s) = {m}
    <3>1. m \in Asking(Requests, s)
      BY <1>1, <1>8 DEF Asking, Asks
    <3>2. \A n \in Asking(Requests, s) :
              n \in Masters /\ (Requests[n].read \/ Requests[n].write)
      BY DEF Asking, uav_read, uav_write
    <3> QED BY <1>2, <3>1, <3>2, AsksAlone
  <2>2. Granted(Requests, s) = {}
    BY <1>8, <2>1 DEF Granted
  <2>3. w = 0 /\ w1 = 0 /\ ~packet_in_progress[s]
    BY <1>3, <1>6, <1>8, <2>2 DEF TransferInv, m0_read, m0_write
  <2>4. update_grant(Requests, own, s) /\ NextGrant(Requests, s) = {m}
    <3>1. update_grant(Requests, own, s)
      BY <2>2, <2>3 DEF update_grant
    <3>2. NextGrant(Requests, s) = {m}
      BY <2>1 DEF NextGrant
    <3> QED BY <3>1, <3>2
  <2>5. m \in saved_grant'[s]
    BY <1>8, <2>4 DEF Edge, InterconnectEdge, Arbitrate
  <2>6. a = 0 /\ b = 1 /\ b1 = 0
    BY <1>4, <1>8, <2>5
  <2> QED BY <1>5, <2>3, <2>6, SystemBusAssumption
<1>9. CASE ~hold_waitrequest /\ (s \in SHARED => m \in saved_grant[s])
  <2>1. m \in Granted(Requests, s)
    BY <1>1, <1>9 DEF Granted, Asking, Asks
  <2>2. ~cp_ready(Requests, own, s)
    BY <1>1, <1>9 DEF uav_waitrequest
  <2>3. m \in Granted(Requests, s)'
    BY <2>1, <2>2, StaysGranted
  <2>4. m0_waitrequest(Requests, own, s) /\ ready_for_command(s)
    BY <2>2, AlwaysReady DEF cp_ready
  <2>5. m0_read(Requests, s) \/ m0_write(Requests, s)
    BY <2>1, <2>4 DEF Asks, m0_read, m0_write
  <2>6. w1 = w + 1
    BY <1>6, <2>4, <2>5
  <2>7. a = 0 /\ b = 0 /\ b1 = 0
    BY <1>4, <1>9, <2>3 DEF Granted
  <2> QED BY <1>3, <1>5, <2>6, <2>7, SystemBusAssumption
<1> QED BY <1>7, <1>8, <1>9

LEMMA TransferComesCloser ==
  ASSUME BusInv, AccessInv, TransferInv, NEW own \in SUBSET MayWait, NEW iw \in INSTRUCTIONS,
         NEW pc \in CODE, Edge(own, iw, pc), NEW m \in Masters,
         Requests[m].read \/ Requests[m].write, av_waitrequest(Requests, own, m)
  PROVE  Transfer(m)' < Transfer(m)
<1>1. Asks(m) /\ ~Accepted(m)
  BY WaitingIsAsking
<1>2. PICK c \in Nat \ {0} : c = ClocksToAccept(m)
  BY TransferRange, SystemBusAssumption
<1>3. Transfer(m) = c + 1
  BY <1>1, <1>2 DEF Transfer
<1>4. CASE uav_waitrequest(Requests, own, m)
  <2>1. BusInv'
    BY EdgeKeepsBusInv
  <2>2. PICK d : d = ClocksToAccept(m)'
    OBVIOUS
  <2>3. d < c /\ Transfer(m)' = d + 1
    BY <1>1, <1>2, <1>4, <2>2, AsksOn, AcceptanceComesCloser DEF Transfer
  <2>4. d \in Nat
    <3>1. PICK w1 \in 0 .. STALL + 1 : w1 = wait_latency_counter'[Requests[m].at']
      <4>1. Requests[m].at' \in Slaves
        BY <1>1, AsksOn, SlaveOfMaster
      <4> QED BY <2>1, <4>1 DEF BusInv, TypeOK
    <3>2. PICK a \in 0 .. 1, b \in 0 .. 1 : d = a + b + (STALL + 2 - w1)
      BY <2>2, <3>1 DEF ClocksToAccept
    <3> QED BY <3>1, <3>2, SystemBusAssumption
  <2> QED BY <1>2, <1>3, <2>3, <2>4
<1>5. CASE ~uav_waitrequest(Requests, own, m)
  <2>1. Transfer(m)' = 1
    BY <1>1, <1>5, AsksOn DEF Transfer
  <2> QED BY <1>2, <1>3, <2>1
<1> QED BY <1>4, <1>5

LEMMA InitExecuteInv == Init => ExecuteInv
  BY DEF Init, ProcessorInit, ExecuteInv

\* Why a stage E waits.
LEMMA Stalls ==
  ASSUME BusInv, AccessInv, ExecuteInv, E_valid, NEW wait \in BOOLEAN
  PROVE  /\ E_new_inst => (E_stall(wait) <=> R_ctrl_ld \/ R_ctrl_st \/ R_ctrl_shift_rot)
         /\ d_read => (E_stall(wait) <=> wait \/ D_iw.extra # 0)
         /\ d_write => (E_stall(wait) <=> wait)
         /\ av_ld_aligning_data => (E_stall(wait) <=> av_ld_align_cycle # D_iw.extra)
         /\ ~E_new_inst /\ R_ctrl_shift_rot => (E_stall(wait) <=> E_shift_rot_cnt # 0)
<1>1. OneStage /\ Flags
  BY DEF BusInv, StageInv
<1>2. /\ ~(R_ctrl_ld /\ R_ctrl_st) /\ ~(R_ctrl_ld /\ R_ctrl_shift_rot)
      /\ ~(R_ctrl_st /\ R_ctrl_shift_rot)
  BY DEF R_ctrl_ld, R_ctrl_st, R_ctrl_shift_rot
<1>3. d_read <=> av_ld_waiting_for_data
  BY DEF AccessInv
<1>4. /\ av_ld_getting_data(wait) <=> d_read /\ ~wait
      /\ av_ld_waiting_for_data_nxt(wait) <=> IF d_read THEN wait ELSE R_ctrl_ld /\ E_new_inst
      /\ d_write_nxt(wait) <=> (R_ctrl_st /\ E_new_inst) \/ (d_write /\ wait)
  BY <1>3 DEF av_ld_getting_data, av_ld_waiting_for_data_nxt, d_write_nxt
<1>5. /\ E_shift_rot_stall <=> R_ctrl_shift_rot /\ (E_new_inst \/ E_shift_rot_cnt # 0)
      /\ E_st_stall(wait) <=> (R_ctrl_st /\ E_new_inst) \/ (d_write /\ wait)
  BY <1>4 DEF E_shift_rot_stall, E_st_stall
<1>6. CASE E_new_inst
  <2>1. E_ld_stall(wait) <=> R_ctrl_ld
    BY <1>6 DEF E_ld_stall
  <2>2. ~d_write /\ ~d_read /\ ~av_ld_aligning_data
    BY <1>1, <1>6 DEF OneStage, ExecuteInv
  <2> QED BY <1>5, <1>6, <2>1, <2>2 DEF E_stall
<1>7. CASE ~E_new_inst /\ d_read
  <2>1. R_ctrl_ld /\ ~d_write /\ ~av_ld_aligning_data
    BY <1>1, <1>2, <1>7 DEF OneStage, ExecuteInv
  <2>2. av_ld_done(wait) <=> ~wait /\ D_iw.extra = 0
    BY <1>4, <1>7, <2>1 DEF av_ld_done, av_ld_aligning_data_nxt, D_ctrl_mem32
  <2>3. E_ld_stall(wait) <=> wait \/ D_iw.extra # 0
    BY <1>7, <2>1, <2>2 DEF E_ld_stall
  <2> QED BY <1>2, <1>5, <1>7, <2>1, <2>3 DEF E_stall
<1>8. CASE ~E_new_inst /\ ~d_read /\ R_ctrl_ld
  <2>1. ~d_write /\ av_ld_aligning_data /\ D_iw.extra # 0
    BY <1>1, <1>2, <1>8 DEF OneStage, ExecuteInv
  <2>2. av_ld_done(wait) <=> av_ld_align_cycle = D_iw.extra
    BY <1>4, <1>8, <2>1 DEF av_ld_done, av_ld_aligning_data_nxt, D_ctrl_mem32
  <2>3. E_ld_stall(wait) <=> av_ld_align_cycle # D_iw.extra
    BY <1>8, <2>2 DEF E_ld_stall
  <2> QED BY <1>2, <1>5, <1>8, <2>1, <2>3 DEF E_stall
<1>9. CASE ~E_new_inst /\ ~d_read /\ ~R_ctrl_ld
  <2>1. ~E_ld_stall(wait) /\ ~av_ld_aligning_data
    BY <1>9 DEF E_ld_stall, ExecuteInv
  <2>2. d_write => ~R_ctrl_shift_rot
    BY <1>1, <1>2 DEF OneStage
  <2>3. ~d_write => ~(d_write /\ wait)
    OBVIOUS
  <2>4. R_ctrl_shift_rot => ~d_write
    BY <2>2
  <2> QED BY <1>5, <1>9, <2>1, <2>2, <2>4 DEF E_stall
<1> QED BY <1>6, <1>7, <1>8, <1>9

LEMMA ExecuteStep ==
  ASSUME BusInv, AccessInv, ExecuteInv, NEW own \in SUBSET MayWait, NEW iw \in INSTRUCTIONS,
         NEW pc \in CODE, Edge(own, iw, pc)
  PROVE  ExecuteInv'
<1>1. PICK wait, got \in BOOLEAN :
          wait = d_waitrequest(Requests, own) /\ got = F_valid(i_waitrequest(Requests, own))
  BY WaitsAreBoolean DEF F_valid, BusInv, StageInv, Flags
<1>2. /\ got => i_read
      /\ i_read' <=> W_valid \/ (i_read /\ ~got)
      /\ D_iw' = IF got THEN iw ELSE D_iw
      /\ D_valid' <=> got
      /\ R_valid' <=> D_valid
      /\ E_new_inst' <=> R_valid
      /\ E_valid' <=> R_valid \/ E_stall(wait)
      /\ W_valid' <=> E_valid /\ ~E_stall(wait)
      /\ d_read' <=> (R_ctrl_ld /\ E_new_inst) \/ (d_read /\ wait)
      /\ d_write' <=> (R_ctrl_st /\ E_new_inst) \/ (d_write /\ wait)
  BY <1>1, StageEdge
<1>3. /\ av_ld_aligning_data' <=> IF av_ld_aligning_data THEN av_ld_align_cycle # D_iw.extra
                                  ELSE D_iw.extra # 0 /\ d_read /\ ~wait
      /\ av_ld_align_cycle' = IF av_ld_aligning_data THEN (av_ld_align_cycle + 1) % 4 ELSE 0
  BY <1>1 DEF Edge, ProcessorEdge, av_ld_aligning_data_nxt, av_ld_getting_data, D_ctrl_mem32
<1>4. OneStage /\ Flags /\ OneStage' /\ (E_stall(wait) => E_valid)
  BY StallsInE, EdgeKeepsStages DEF BusInv, StageInv
<1>5. ~got => /\ D_iw' = D_iw
              /\ (R_ctrl_ld' <=> R_ctrl_ld) /\ (R_ctrl_st' <=> R_ctrl_st)
              /\ (R_ctrl_shift_rot' <=> R_ctrl_shift_rot)
  BY <1>2 DEF R_ctrl_ld, R_ctrl_st, R_ctrl_shift_rot
<1>6. i_read' \/ D_valid' \/ R_valid' \/ E_valid' \/ W_valid'
  BY <1>2 DEF ExecuteInv
<1>7. d_read' => av_ld_align_cycle' = 0
  <2>1. d_read' => ~av_ld_aligning_data
    BY <1>2 DEF ExecuteInv
  <2> QED BY <1>3, <2>1
<1>8. av_ld_aligning_data' =>
          /\ E_valid' /\ R_ctrl_ld' /\ ~E_new_inst' /\ ~d_read'
          /\ D_iw'.extra # 0 /\ av_ld_align_cycle' <= D_iw'.extra
  <2> SUFFICES ASSUME av_ld_aligning_data'
               PROVE  /\ E_valid' /\ R_ctrl_ld' /\ ~E_new_inst' /\ ~d_read'
                      /\ D_iw'.extra # 0 /\ av_ld_align_cycle' <= D_iw'.extra
    OBVIOUS
  <2>1. CASE av_ld_aligning_data
    <3>1. /\ E_valid /\ R_ctrl_ld /\ ~E_new_inst /\ ~d_read /\ D_iw.extra # 0
          /\ av_ld_align_cycle <= D_iw.extra /\ av_ld_align_cycle # D_iw.extra
      BY <1>3, <2>1 DEF ExecuteInv
    <3>2. E_stall(wait) /\ ~got /\ ~R_valid
      BY <1>2, <1>4, <2>1, <3>1, Stalls DEF OneStage
    <3>3. E_valid' /\ R_ctrl_ld' /\ ~E_new_inst' /\ ~d_read' /\ D_iw' = D_iw
      BY <1>2, <1>5, <3>1, <3>2
    <3>4. PICK c \in 0 .. 3, e \in 0 .. 3 : c = av_ld_align_cycle /\ e = D_iw.extra
      <4>1. av_ld_align_cycle \in 0 .. 3 /\ D_iw \in INSTRUCTIONS
        BY DEF BusInv, TypeOK, ProcessorTypeOK
      <4>2. D_iw.extra \in {0, 2, 3}
        BY <3>1, <4>1, ProcessorAssumption DEF R_ctrl_ld
      <4> QED BY <4>1, <4>2
    <3>5. (c + 1) % 4 <= e
      BY <3>1, <3>4
    <3> QED BY <1>3, <2>1, <3>1, <3>3, <3>4, <3>5
  <2>2. CASE ~av_ld_aligning_data
    <3>1. D_iw.extra # 0 /\ d_read /\ ~wait /\ av_ld_align_cycle' = 0
      BY <1>3, <2>2
    <3>2. E_valid /\ R_ctrl_ld /\ ~E_new_inst /\ ~got /\ ~R_valid
      BY <1>2, <1>4, <3>1 DEF OneStage
    <3>3. E_stall(wait)
      BY <3>1, <3>2, Stalls
    <3>4. E_valid' /\ R_ctrl_ld' /\ ~E_new_inst' /\ ~d_read' /\ D_iw' = D_iw
      BY <1>2, <1>5, <3>1, <3>2, <3>3
    <3>5. 0 <= D_iw.extra
      <4>1. D_iw.extra \in {0, 2, 3}
        BY <3>2, ProcessorAssumption DEF R_ctrl_ld, BusInv, TypeOK, ProcessorTypeOK
      <4> QED BY <4>1
    <3> QED BY <3>1, <3>4, <3>5
  <2> QED BY <2>1, <2>2
<1>9. E_valid' /\ ~E_new_inst' =>
          \/ R_ctrl_ld' /\ (d_read' \/ av_ld_aligning_data')
          \/ R_ctrl_st' /\ d_write'
          \/ R_ctrl_shift_rot'
  <2> SUFFICES ASSUME E_valid', ~E_new_inst'
               PROVE  \/ R_ctrl_ld' /\ (d_read' \/ av_ld_aligning_data')
                      \/ R_ctrl_st' /\ d_write'
                      \/ R_ctrl_shift_rot'
    OBVIOUS
  <2>1. E_stall(wait) /\ E_valid /\ ~got
    BY <1>2, <1>4 DEF OneStage
  <2>2. CASE E_new_inst
    BY <1>2, <1>5, <2>1, <2>2, Stalls
  <2>3. CASE ~E_new_inst /\ R_ctrl_shift_rot
    BY <1>5, <2>1, <2>3
  <2>4. CASE ~E_new_inst /\ R_ctrl_ld /\ d_read
    <3>1. wait \/ D_iw.extra # 0
      BY <2>1, <2>4, Stalls
    <3>2. ~av_ld_aligning_data
      BY <2>4 DEF ExecuteInv
    <3> QED BY <1>2, <1>3, <1>5, <2>1, <2>4, <3>1, <3>2
  <2>5. CASE ~E_new_inst /\ R_ctrl_ld /\ av_ld_aligning_data
    <3>1. av_ld_align_cycle # D_iw.extra
      BY <2>1, <2>5, Stalls
    <3> QED BY <1>3, <1>5, <2>1, <2>5, <3>1
  <2>6. CASE ~E_new_inst /\ R_ctrl_st /\ d_write
    <3>1. wait
      BY <2>1, <2>6, Stalls
    <3> QED BY <1>2, <1>5, <2>1, <2>6, <3>1
  <2> QED BY <2>1, <2>2, <2>3, <2>4, <2>5, <2>6 DEF ExecuteInv
<1> QED BY <1>6, <1>7, <1>8, <1>9 DEF ExecuteInv

ClocksInv ==
    /\ ClocksToFetch \in 1 .. 2 * LongestTransfer + 36
    /\ \A m \in Masters : Transfer(m) \in 1 .. LongestTransfer

ComesToFetch == ~(i_read /\ ~i_read') => ClocksToFetch' < ClocksToFetch

LEMMA ClocksRange == BusInv /\ ExecuteInv => ClocksInv
<1> SUFFICES ASSUME BusInv, ExecuteInv PROVE ClocksInv
  OBVIOUS
<1>1. PICK l \in Nat : l = LongestTransfer /\ l >= 5
  BY SystemBusAssumption DEF LongestTransfer
<1>2. \A m \in Masters : Transfer(m) \in 1 .. l
  BY <1>1, TransferRange
<1>3. /\ Transfer("data") \in 1 .. l /\ Transfer("instruction") \in 1 .. l
      /\ E_shift_rot_cnt \in 0 .. 31 /\ av_ld_align_cycle \in 0 .. 3
  BY <1>2 DEF Masters, BusInv, TypeOK, ProcessorTypeOK
<1>4. ClocksInE \in 1 .. l + 33
  BY <1>1, <1>3 DEF ClocksInE
<1>5. ClocksToFetch \in 1 .. 2 * l + 36
  BY <1>1, <1>3, <1>4 DEF ClocksToFetch
<1> QED BY <1>1, <1>2, <1>5 DEF ClocksInv

\* A clock of a stage E that goes on waiting.
LEMMA ExecutionComesCloser ==
  ASSUME BusInv, AccessInv, TransferInv, ExecuteInv, ClocksInv, ClocksInv',
         NEW own \in SUBSET MayWait, NEW iw \in INSTRUCTIONS, NEW pc \in CODE,
         Edge(own, iw, pc), E_valid, E_stall(d_waitrequest(Requests, own))
  PROVE  ClocksInE' < ClocksInE
<1>1. PICK wait \in BOOLEAN : wait = d_waitrequest(Requests, own)
  BY WaitsAreBoolean
<1>2. /\ OneStage /\ ~i_read /\ ~R_valid /\ E_stall(wait)
      /\ ~(R_ctrl_ld /\ R_ctrl_st) /\ ~(R_ctrl_ld /\ R_ctrl_shift_rot)
      /\ ~(R_ctrl_st /\ R_ctrl_shift_rot)
  BY <1>1 DEF BusInv, StageInv, OneStage, R_ctrl_ld, R_ctrl_st, R_ctrl_shift_rot
<1>3. /\ ~E_new_inst' /\ D_iw' = D_iw
      /\ d_read' <=> (R_ctrl_ld /\ E_new_inst) \/ (d_read /\ wait)
      /\ d_write' <=> (R_ctrl_st /\ E_new_inst) \/ (d_write /\ wait)
  BY <1>1, <1>2, StageEdge
<1>4. R_ctrl_shift_rot' <=> R_ctrl_shift_rot
  BY <1>3 DEF R_ctrl_shift_rot
<1>5. PICK l \in Nat : l = LongestTransfer /\ l >= 5
  BY SystemBusAssumption DEF LongestTransfer
<1>6. PICK t \in 1 .. l, t1 \in 1 .. l : t = Transfer("data") /\ t1 = Transfer("data")'
  BY <1>5 DEF ClocksInv, Masters, LongestTransfer
<1>7. (d_read \/ d_write) /\ wait => t1 < t
  <2> SUFFICES ASSUME d_read \/ d_write, wait PROVE t1 < t
    OBVIOUS
  <2>1. /\ "data" \in Masters /\ (Requests["data"].read \/ Requests["data"].write)
        /\ av_waitrequest(Requests, own, "data")
    BY <1>1, Lines DEF av_waitrequest, Masters
  <2> QED BY <1>6, <2>1, TransferComesCloser
<1>8. PICK c \in 0 .. 3, c1 \in 0 .. 3, n \in 0 .. 31, n1 \in 0 .. 31, e \in 0 .. 31 :
          /\ c = av_ld_align_cycle /\ c1 = av_ld_align_cycle'
          /\ n = E_shift_rot_cnt /\ n1 = E_shift_rot_cnt' /\ e = D_iw.extra
          /\ R_ctrl_ld => e <= 3
  <2>1. /\ av_ld_align_cycle \in 0 .. 3 /\ E_shift_rot_cnt \in 0 .. 31 /\ D_iw \in INSTRUCTIONS
    BY DEF BusInv, TypeOK, ProcessorTypeOK
  <2>2. BusInv'
    BY EdgeKeepsBusInv
  <2>3. av_ld_align_cycle' \in 0 .. 3 /\ E_shift_rot_cnt' \in 0 .. 31
    BY <2>2 DEF BusInv, TypeOK, ProcessorTypeOK
  <2>4. D_iw.extra \in IF R_ctrl_ld THEN {0, 2, 3} ELSE 0 .. 31
    BY <2>1, ProcessorAssumption DEF R_ctrl_ld
  <2>5. D_iw.extra \in 0 .. 31 /\ (R_ctrl_ld => D_iw.extra <= 3)
    BY <2>4
  <2> QED BY <2>1, <2>3, <2>5
<1>9. /\ c1 = IF av_ld_aligning_data THEN (c + 1) % 4 ELSE 0
      /\ n1 = IF E_new_inst THEN e ELSE IF n > 0 THEN n - 1 ELSE 0
  BY <1>8 DEF Edge, ProcessorEdge
<1>10. /\ ClocksInE = IF E_new_inst THEN l + 33 ELSE IF d_read THEN t + 4 ELSE IF d_write THEN t
                      ELSE IF R_ctrl_shift_rot THEN n + 1 ELSE 4 - c
       /\ ClocksInE' = IF d_read' THEN t1 + 4 ELSE IF d_write' THEN t1
                       ELSE IF R_ctrl_shift_rot THEN n1 + 1 ELSE 4 - c1
  BY <1>3, <1>4, <1>5, <1>6, <1>8 DEF ClocksInE
<1>11. CASE E_new_inst
  BY <1>5, <1>6, <1>8, <1>10, <1>11
<1>12. CASE ~E_new_inst /\ d_read
  <2>1. ~d_write /\ ~av_ld_aligning_data /\ ~R_ctrl_shift_rot
    BY <1>2, <1>12 DEF OneStage, ExecuteInv
  <2>2. CASE wait
    BY <1>3, <1>6, <1>7, <1>10, <1>12, <2>2
  <2>3. CASE ~wait
    BY <1>3, <1>6, <1>9, <1>10, <1>12, <2>1, <2>3
  <2> QED BY <2>2, <2>3
<1>13. CASE ~E_new_inst /\ ~d_read /\ d_write
  <2>1. wait
    BY <1>2, <1>13, Stalls
  <2> QED BY <1>3, <1>6, <1>7, <1>10, <1>13, <2>1
<1>14. CASE ~E_new_inst /\ ~d_read /\ ~d_write /\ R_ctrl_shift_rot
  <2>1. n # 0
    BY <1>2, <1>8, <1>14, Stalls
  <2> QED BY <1>3, <1>8, <1>9, <1>10, <1>14, <2>1
<1>15. CASE ~E_new_inst /\ ~d_read /\ ~d_write /\ ~R_ctrl_shift_rot
  <2>1. R_ctrl_ld /\ av_ld_aligning_data
    BY <1>15 DEF ExecuteInv
  <2>2. c <= e /\ e <= 3
    BY <1>8, <2>1 DEF ExecuteInv
  <2>3. c # e
    BY <1>2, <1>8, <2>1, Stalls
  <2>4. (c + 1) % 4 = c + 1
    BY <1>8, <2>2, <2>3
  <2> QED BY <1>3, <1>8, <1>9, <1>10, <1>15, <2>1, <2>4
<1> QED BY <1>11, <1>12, <1>13, <1>14, <1>15

LEMMA FetchComesCloser ==
  ASSUME BusInv, AccessInv, TransferInv, ExecuteInv, ClocksInv, ClocksInv',
         NEW own \in SUBSET MayWait, NEW iw \in INSTRUCTIONS, NEW pc \in CODE,
         Edge(own, iw, pc), ~(i_read /\ ~i_read')
  PROVE  ClocksToFetch' < ClocksToFetch
<1>1. PICK wait, got \in BOOLEAN :
          wait = d_waitrequest(Requests, own) /\ got = F_valid(i_waitrequest(Requests, own))
  BY WaitsAreBoolean DEF F_valid, BusInv, StageInv, Flags
<1>2. /\ i_read' <=> W_valid \/ (i_read /\ ~got)
      /\ D_valid' <=> got
      /\ R_valid' <=> D_valid
      /\ E_new_inst' <=> R_valid
      /\ E_valid' <=> R_valid \/ E_stall(wait)
      /\ W_valid' <=> E_valid /\ ~E_stall(wait)
  BY <1>1, StageEdge
<1>3. OneStage /\ OneStage' /\ (E_stall(wait) => E_valid)
  BY StallsInE, EdgeKeepsStages DEF BusInv, StageInv
<1>4. PICK l \in Nat : l = LongestTransfer /\ l >= 5
  BY SystemBusAssumption DEF LongestTransfer
<1>5. PICK i \in 1 .. l, i1 \in 1 .. l :
          i = Transfer("instruction") /\ i1 = Transfer("instruction")'
  BY <1>4 DEF ClocksInv, Masters, LongestTransfer
<1>6. PICK x, x1 : x = ClocksInE /\ x1 = ClocksInE'
  OBVIOUS
<1>7. /\ ClocksToFetch = IF i_read THEN i ELSE IF W_valid THEN 1 + l
                         ELSE IF E_valid THEN 1 + l + x
                         ELSE (IF D_valid THEN 2 ELSE 1) + 2 * l + 34
      /\ ClocksToFetch' = IF i_read' THEN i1 ELSE IF W_valid' THEN 1 + l
                          ELSE IF E_valid' THEN 1 + l + x1
                          ELSE (IF D_valid' THEN 2 ELSE 1) + 2 * l + 34
  BY <1>4, <1>5, <1>6 DEF ClocksToFetch, LongestTransfer
<1>8. CASE i_read
  <2>1. i_read' /\ i_waitrequest(Requests, own)
    BY <1>1, <1>2, <1>3, <1>8 DEF OneStage, F_valid
  <2>2. "instruction" \in Masters /\ Requests["instruction"].read
        /\ av_waitrequest(Requests, own, "instruction")
    BY <1>8, <2>1, Lines DEF av_waitrequest, Masters
  <2>3. i1 < i
    BY <1>5, <2>2, TransferComesCloser
  <2> QED BY <1>7, <1>8, <2>1, <2>3
<1>9. CASE W_valid
  BY <1>2, <1>3, <1>5, <1>7, <1>9 DEF OneStage
<1>10. CASE E_valid
  <2>1. ~i_read /\ ~W_valid /\ ~R_valid /\ ~i_read'
    BY <1>2, <1>3, <1>10 DEF OneStage
  <2>2. x \in Nat \ {0}
    <3>1. /\ Transfer("data") \in 1 .. l /\ l >= 5 /\ LongestTransfer = l
          /\ E_shift_rot_cnt \in 0 .. 31 /\ av_ld_align_cycle \in 0 .. 3
      BY <1>4 DEF ClocksInv, Masters, BusInv, TypeOK, ProcessorTypeOK
    <3> QED BY <1>4, <1>6, <3>1 DEF ClocksInE
  <2>3. CASE E_stall(wait)
    <3>1. x1 < x
      BY <1>1, <1>6, <1>10, <2>3, ExecutionComesCloser
    <3>2. ClocksToFetch' = 1 + l + x1 /\ ClocksToFetch = 1 + l + x
      BY <1>2, <1>7, <1>10, <2>1, <2>3
    <3>3. x1 \in Nat
      <4>1. BusInv'
        BY EdgeKeepsBusInv
      <4>2. PICK t1 \in 1 .. l, n1 \in 0 .. 31, c1 \in 0 .. 3 :
                t1 = Transfer("data")' /\ n1 = E_shift_rot_cnt' /\ c1 = av_ld_align_cycle'
        BY <1>4, <4>1 DEF ClocksInv, Masters, LongestTransfer, BusInv, TypeOK, ProcessorTypeOK
      <4>3. /\ l + 33 \in Nat /\ t1 + 4 \in Nat /\ t1 \in Nat /\ n1 + 1 \in Nat
            /\ 4 - c1 \in Nat
        OBVIOUS
      <4>4. x1 = l + 33 \/ x1 = t1 + 4 \/ x1 = t1 \/ x1 = n1 + 1 \/ x1 = 4 - c1
        BY <1>4, <1>6, <4>2 DEF ClocksInE, LongestTransfer
      <4> QED BY <4>3, <4>4, Zenon
    <3> QED BY <1>4, <2>2, <3>1, <3>2, <3>3
  <2>4. CASE ~E_stall(wait)
    <3>1. ClocksToFetch' = 1 + l /\ ClocksToFetch = 1 + l + x
      BY <1>2, <1>7, <1>10, <2>1, <2>4
    <3> QED BY <1>4, <2>2, <3>1
  <2> QED BY <2>3, <2>4
<1>11. CASE R_valid
  <2>1. /\ ~i_read /\ ~W_valid /\ ~E_valid /\ ~D_valid
        /\ ~i_read' /\ ~W_valid' /\ E_valid' /\ E_new_inst'
    BY <1>2, <1>3, <1>11 DEF OneStage
  <2>2. x1 = l + 33
    BY <1>4, <1>6, <2>1 DEF ClocksInE, LongestTransfer
  <2> QED BY <1>4, <1>7, <2>1, <2>2
<1>12. CASE D_valid
  <2>1. /\ ~i_read /\ ~W_valid /\ ~E_valid
        /\ ~i_read' /\ ~W_valid' /\ ~E_valid' /\ ~D_valid'
    BY <1>2, <1>3, <1>12 DEF OneStage
  <2> QED BY <1>4, <1>7, <1>12, <2>1
<1> QED BY <1>8, <1>9, <1>10, <1>11, <1>12 DEF ExecuteInv

\* Whatever the slaves do within their waits, an instruction comes one clock
\* closer to the fetch of the next one at every edge, from at most
\* 2 * STALL + 46: no wait of a master, an arbiter or a slave goes on for ever,
\* and neither does a shift or a load.  (With a clock that does not stop, the
\* liveness of ImplementsInstructionMachine.)
THEOREM FetchIsBounded == Spec => []ClocksInv /\ [][ComesToFetch]_vars
<1>1. BusInv /\ AccessInv /\ TransferInv /\ ExecuteInv /\ [Next]_vars =>
          TransferInv' /\ ExecuteInv'
  <2> SUFFICES ASSUME BusInv, AccessInv, TransferInv, ExecuteInv, [Next]_vars
               PROVE  TransferInv' /\ ExecuteInv'
    OBVIOUS
  <2>1. CASE Next
    BY <2>1, TransferStep, ExecuteStep DEF Next
  <2>2. CASE UNCHANGED vars
    <3> USE <2>2 DEF vars, processorVars, stages, dataMaster, interconnectVars, masterSide,
                     slaveSide, arbiters
    <3>1. Requests' = Requests
      BY DEF Requests
    <3>2. \A s : Asking(Requests, s)' = Asking(Requests, s)
      BY <3>1 DEF Asking, uav_read, uav_write
    <3>3. \A s : Granted(Requests, s)' = Granted(Requests, s)
      BY <3>2 DEF Granted
    <3> QED BY <3>1, <3>3 DEF TransferInv, ExecuteInv, R_ctrl_ld, R_ctrl_st, R_ctrl_shift_rot
  <2> QED BY <2>1, <2>2
<1>2. Spec => [](TransferInv /\ ExecuteInv)
  BY <1>1, InitTransferInv, InitExecuteInv, BusInvHolds, AccessInvHolds, PTL DEF Spec
<1>3. BusInv /\ AccessInv /\ TransferInv /\ ExecuteInv /\ ClocksInv /\ ClocksInv' /\ [Next]_vars =>
          [ComesToFetch]_vars
  <2> SUFFICES ASSUME BusInv, AccessInv, TransferInv, ExecuteInv, ClocksInv, ClocksInv', Next,
                      ~(i_read /\ ~i_read')
               PROVE  ClocksToFetch' < ClocksToFetch
    BY DEF ComesToFetch
  <2>1. PICK own \in SUBSET MayWait, iw \in INSTRUCTIONS, pc \in CODE : Edge(own, iw, pc)
    BY DEF Next
  <2> QED BY <2>1, FetchComesCloser
<1> QED BY <1>2, <1>3, ClocksRange, BusInvHolds, AccessInvHolds, PTL DEF Spec

-----------------------------------------------------------------------------
(* The start of the program in the memory behind this bus (module StartUp): *)
(* its state is its own.                                                    *)

CONSTANT RESETS

VARIABLES where, next, write, lost, resets

Start == INSTANCE StartUp WITH pc <- next

LostInv == lost \subseteq {36, 84} /\ write \in 1 .. 10

\* A port that takes writes is reached by the write to its direction register.
LEMMA PortsInTheWay ==
  ASSUME NEW n \in 1 .. 10, n \notin {2, 3}
  PROVE  ~Start!ReachesMemory(Start!Direction(Start!Ports[n]))
<1> DEFINE port == Start!Ports[n]
<1>1. /\ port \in DOMAIN Start!Decoder \ {"SRAM"}
      /\ Start!Decoder[port].base \in Nat
      /\ Start!Decoder[port].base + 4 < Start!Decoder[port].end
      /\ Start!Decoder[port].writes
  BY DEF Start!Ports, Start!Decoder, Start!Device
<1>2. port \in Start!Decoded(Start!Direction(port))
  BY <1>1 DEF Start!Direction, Start!Decoded
<1> QED BY <1>1, <1>2 DEF Start!ReachesMemory

LEMMA WhereTheyGo ==
  /\ Start!Offset(Start!Direction(Start!Ports[2])) = 84
  /\ Start!Offset(Start!Direction(Start!Ports[3])) = 36
<1>1. Start!Direction(Start!Ports[2]) = 12372 /\ Start!Direction(Start!Ports[3]) = 12324
  BY DEF Start!Direction, Start!Ports, Start!Decoder, Start!Device
<1> QED BY <1>1 DEF Start!Offset, Start!SRAM_SPAN

LEMMA LostInvKept == LostInv /\ [Start!Next]_(Start!vars) => LostInv'
<1> SUFFICES ASSUME LostInv, [Start!Next]_(Start!vars) PROVE LostInv'
  OBVIOUS
<1>1. CASE Start!Execute
  <2>1. lost' = lost /\ (write' = write \/ write' = 1)
    BY <1>1 DEF Start!Execute
  <2> QED BY <2>1 DEF LostInv
<1>2. CASE Start!WriteDirection
  <2>1. lost' \subseteq lost \cup {36, 84}
    <3> PICK n \in 1 .. 10 : n = write
      BY DEF LostInv
    <3>1. CASE n \in {2, 3}
      BY <1>2, <3>1, WhereTheyGo DEF Start!WriteDirection
    <3>2. CASE n \notin {2, 3}
      BY <1>2, <3>2, PortsInTheWay DEF Start!WriteDirection
    <3> QED BY <3>1, <3>2
  <2>2. write' \in 1 .. 10
    BY <1>2 DEF Start!WriteDirection, LostInv
  <2> QED BY <2>1, <2>2 DEF LostInv
<1>3. CASE Start!Run \/ Start!Reset \/ UNCHANGED Start!vars
  BY <1>3 DEF Start!Run, Start!Reset, Start!vars, LostInv
<1> QED BY <1>1, <1>2, <1>3 DEF Start!Next

\* The words that are lost are behind the program when they are: nothing that
\* main() runs is overwritten, however often the system is reset.
THEOREM LossIsStartUp == Start!Spec => []Start!OnlyStartUpIsLost
<1>1. Start!Init => LostInv
  BY DEF Start!Init, LostInv
<1>2. LostInv => Start!OnlyStartUpIsLost
  BY DEF LostInv, Start!OnlyStartUpIsLost
<1> QED BY <1>1, <1>2, LostInvKept, PTL DEF Start!Spec

-----------------------------------------------------------------------------

\* The first word that is lost is one of the last of _start.
LostInOrder ==
    /\ lost # {} => 84 \in lost
    /\ where = "main" /\ write > 2 => 84 \in lost

LEMMA KeysGoToMemory == Start!ReachesMemory(Start!Direction(Start!Ports[2]))
<1>1. Start!Direction(Start!Ports[2]) = 12372
  BY DEF Start!Direction, Start!Ports, Start!Decoder, Start!Device
<1>2. \A d \in DOMAIN Start!Decoder \ {"SRAM"} :
          ~(/\ Start!Decoder[d].base <= 12372 /\ 12372 < Start!Decoder[d].end
            /\ Start!Decoder[d].writes)
  BY DEF Start!Decoder, Start!Device
<1> QED BY <1>1, <1>2 DEF Start!ReachesMemory, Start!Decoded

LEMMA LostInOrderKept ==
  LostInv /\ LostInOrder /\ [Start!Next]_(Start!vars) => LostInOrder'
<1> SUFFICES ASSUME LostInv, LostInOrder, [Start!Next]_(Start!vars) PROVE LostInOrder'
  OBVIOUS
<1>1. CASE Start!Execute
  <2>1. lost' = lost /\ (where' = where \/ write' = 1) /\ (where' = "main" => write' = 1)
    BY <1>1 DEF Start!Execute
  <2> QED BY <2>1 DEF LostInOrder
<1>2. CASE Start!WriteDirection
  <2>1. /\ lost \subseteq lost'
        /\ write = 2 => 84 \in lost'
        /\ write > 2 => 84 \in lost
    BY <1>2, KeysGoToMemory, WhereTheyGo DEF Start!WriteDirection, LostInOrder
  <2>2. write = 1 => lost' = lost
    BY <1>2, PortsInTheWay DEF Start!WriteDirection
  <2>3. write \in 1 .. 10 /\ where = "main"
    BY <1>2 DEF LostInv, Start!WriteDirection
  <2>4. write' > 2 => write \in 2 .. 10
    BY <1>2, <2>3 DEF Start!WriteDirection
  <2> QED BY <2>1, <2>2, <2>3, <2>4 DEF LostInOrder
<1>3. CASE Start!Run \/ Start!Reset \/ UNCHANGED Start!vars
  BY <1>3 DEF Start!Run, Start!Reset, Start!vars, LostInOrder
<1> QED BY <1>1, <1>2, <1>3 DEF Start!Next

\* Once main() has overwritten a word of _start, a program that is in its
\* start-up never leaves it: no number of resets starts the clock again.
THEOREM LostIsLost ==
  Start!Spec => [][lost # {} /\ where = "startup" => where' = "startup"]_(Start!vars)
<1>1. Start!Init => LostInOrder /\ LostInv
  BY DEF Start!Init, LostInv, LostInOrder
<1>2. LostInOrder /\ [Start!Next]_(Start!vars) =>
          [lost # {} /\ where = "startup" => where' = "startup"]_(Start!vars)
  BY DEF LostInOrder, Start!Next, Start!Execute, Start!WriteDirection, Start!Run, Start!Reset
<1> QED BY <1>1, <1>2, LostInOrderKept, LostInvKept, PTL DEF Start!Spec
=============================================================================
