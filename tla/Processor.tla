------------------------------ MODULE Processor ------------------------------
(***************************************************************************)
(* The sequencer of the processor (TimerWithClock_TimerWithClock_cpu.v):   *)
(* the registers that carry an instruction through its stages F, D, R, E   *)
(* and W and hold the requests of the two bus masters.  A step is a rising *)
(* edge of the clock; the two wait requests come from module Interconnect. *)
(*                                                                         *)
(* What an instruction computes is left out.  An instruction is a record   *)
(*   kind    "load", "store", "shift" or "other"                           *)
(*   at      the slave a load or a store addresses                         *)
(*   extra   clocks of alignment of a load (0, 2 or 3, by its width), or   *)
(*           the distance of a shift                                       *)
(* Interrupts and debugger breaks only replace the instruction that has    *)
(* been fetched, and any instruction may come.                             *)
(***************************************************************************)
EXTENDS Naturals

CONSTANTS
    CODE,           \* the slaves that hold instructions
    INSTRUCTIONS    \* the instructions that may be fetched

ASSUME ProcessorAssumption ==
    /\ CODE # {}
    /\ INSTRUCTIONS # {}
    /\ \A iw \in INSTRUCTIONS : /\ iw.kind \in {"load", "store", "shift", "other"}
                                /\ iw.extra \in IF iw.kind = "load" THEN {0, 2, 3} ELSE 0 .. 31

VARIABLES
    F_pc,                     \* where the next instruction is
    i_read,                   \* the instruction master reads
    D_iw,                     \* the instruction
    D_valid, R_valid,
    E_valid, E_new_inst,      \* E_valid_from_R; ECC is not built in
    W_valid,
    d_read, d_write,          \* the data master reads, or writes
    av_ld_waiting_for_data,
    av_ld_aligning_data,
    av_ld_align_cycle,
    E_shift_rot_cnt

stages        == <<i_read, D_valid, R_valid, E_valid, E_new_inst, W_valid>>
dataMaster    == <<d_read, d_write, av_ld_waiting_for_data>>
processorVars == <<F_pc, D_iw, stages, dataMaster, av_ld_aligning_data, av_ld_align_cycle,
                   E_shift_rot_cnt>>

ProcessorTypeOK ==
    /\ F_pc \in CODE
    /\ D_iw \in INSTRUCTIONS
    /\ i_read \in BOOLEAN /\ D_valid \in BOOLEAN /\ R_valid \in BOOLEAN
    /\ E_valid \in BOOLEAN /\ E_new_inst \in BOOLEAN /\ W_valid \in BOOLEAN
    /\ d_read \in BOOLEAN /\ d_write \in BOOLEAN
    /\ av_ld_waiting_for_data \in BOOLEAN /\ av_ld_aligning_data \in BOOLEAN
    /\ av_ld_align_cycle \in 0 .. 3
    /\ E_shift_rot_cnt \in 0 .. 31

\* After reset the first instruction is being read.
ProcessorInit ==
    /\ F_pc \in CODE /\ D_iw \in INSTRUCTIONS
    /\ i_read = TRUE
    /\ D_valid = FALSE /\ R_valid = FALSE
    /\ E_valid = FALSE /\ E_new_inst = FALSE /\ W_valid = FALSE
    /\ d_read = FALSE /\ d_write = FALSE
    /\ av_ld_waiting_for_data = FALSE /\ av_ld_aligning_data = FALSE
    /\ av_ld_align_cycle = 0 /\ E_shift_rot_cnt = 0

-----------------------------------------------------------------------------

R_ctrl_ld        == D_iw.kind = "load"
R_ctrl_st        == D_iw.kind = "store"
R_ctrl_shift_rot == D_iw.kind = "shift"
D_ctrl_mem32     == D_iw.extra = 0

F_valid(i_waitrequest) == i_read /\ ~i_waitrequest

d_read_nxt(d_waitrequest)  == (R_ctrl_ld /\ E_new_inst) \/ (d_read /\ d_waitrequest)
d_write_nxt(d_waitrequest) == (R_ctrl_st /\ E_new_inst) \/ (d_write /\ d_waitrequest)

av_ld_getting_data(d_waitrequest) == d_read /\ ~d_waitrequest

av_ld_waiting_for_data_nxt(d_waitrequest) ==
    IF av_ld_waiting_for_data THEN ~av_ld_getting_data(d_waitrequest)
                              ELSE R_ctrl_ld /\ E_new_inst

\* A byte is shifted into place for 3 clocks after the last one of its data,
\* half a word for 2.
av_ld_aligning_data_nxt(d_waitrequest) ==
    IF av_ld_aligning_data THEN av_ld_align_cycle # D_iw.extra
                           ELSE ~D_ctrl_mem32 /\ av_ld_getting_data(d_waitrequest)

av_ld_done(d_waitrequest) ==
    /\ ~av_ld_waiting_for_data_nxt(d_waitrequest)
    /\ D_ctrl_mem32 \/ ~av_ld_aligning_data_nxt(d_waitrequest)

E_ld_stall(d_waitrequest) ==
    R_ctrl_ld /\ ((E_valid /\ ~av_ld_done(d_waitrequest)) \/ E_new_inst)

\* Mistake: a store stalls its stage once its write is on the bus, a clock late.
E_st_stall_Late(d_waitrequest) == d_write /\ d_waitrequest

E_st_stall(d_waitrequest) == d_write_nxt(d_waitrequest)

E_shift_rot_stall ==
    R_ctrl_shift_rot /\ E_valid /\ ~(E_shift_rot_cnt = 0 /\ ~E_new_inst)

E_stall(d_waitrequest) ==
    E_shift_rot_stall \/ E_ld_stall(d_waitrequest) \/ E_st_stall(d_waitrequest)

\* An edge of the clock, with iw on the lines of the instruction master and pc
\* the place of the next instruction.  The two counters run freely in the
\* hardware; here they rest when nothing reads them.
ProcessorEdge(i_waitrequest, d_waitrequest, iw, pc) ==
    /\ F_pc' = IF W_valid THEN pc ELSE F_pc
    /\ i_read' = (W_valid \/ (i_read /\ i_waitrequest))
    /\ D_iw' = IF F_valid(i_waitrequest) THEN iw ELSE D_iw
    /\ D_valid' = F_valid(i_waitrequest)
    /\ R_valid' = D_valid
    /\ E_valid' = (R_valid \/ E_stall(d_waitrequest))
    /\ E_new_inst' = R_valid
    /\ W_valid' = (E_valid /\ ~E_stall(d_waitrequest))
    /\ d_read' = d_read_nxt(d_waitrequest)
    /\ d_write' = d_write_nxt(d_waitrequest)
    /\ av_ld_waiting_for_data' = av_ld_waiting_for_data_nxt(d_waitrequest)
    /\ av_ld_aligning_data' = av_ld_aligning_data_nxt(d_waitrequest)
    /\ av_ld_align_cycle' = IF av_ld_aligning_data THEN (av_ld_align_cycle + 1) % 4 ELSE 0
    /\ E_shift_rot_cnt' = IF E_new_inst THEN D_iw.extra
                         ELSE IF E_shift_rot_cnt > 0 THEN E_shift_rot_cnt - 1 ELSE 0
=============================================================================
