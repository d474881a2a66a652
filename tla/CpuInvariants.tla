--------------------------- MODULE CpuInvariants ---------------------------
(***************************************************************************)
(* What the pipeline registers hold between the stages of a step: the      *)
(* inductive invariants behind ForwardingCorrect and ControlFlow, and how  *)
(* they come back after the host has broken them.                          *)
(***************************************************************************)
EXTENDS Cpu

(* Stages before ex_stage has run in this step, where the pipeline         *)
(* registers the stages read still hold what the previous step put there.  *)
BeforeEx == {"host", "loop", "timer", "wb", "int", "ex", "aborted"}

(* An instruction's copies of its operands are the registers' values.      *)
Snapshot(r) ==
  /\ r.v_rs1     = ReadReg(r.d.rs1)
  /\ r.v_rs2     = ReadReg(r.d.rs2)
  /\ r.curr_v_rd = ReadReg(r.d.rd)

Forwarded ==
  /\ rs1_val = ReadReg(idex.d.rs1)
  /\ rs2_val = ReadReg(idex.d.rs2)
  /\ rd_val  = ReadReg(idex.d.rd)

(* The copies id_stage takes stay the registers' values until the next     *)
(* wb_stage, which changes one register behind them; from there on, and    *)
(* through handle_interrupt, forwarding makes up for exactly that change,  *)
(* for flags as for registers.                                             *)
Operands ==
  /\ stage \in {"if", "clock"} /\ next_idex.is_valid => Snapshot(next_idex)
  /\ stage \in {"host", "loop", "timer", "wb"} /\ idex.is_valid => Snapshot(idex)
  /\ stage \in {"int", "ex"} /\ idex.is_valid => Forwarded
  /\ stage \in {"int", "ex"} => current_flags = f

(* An instruction other than BJMP is predicted to be followed by the next. *)
Straight(d, r) == d.opcode # "BJMP" => r.predicted_pc = Plus(r.curr_pc, 1)

(* The instruction fetched last is followed by the one that is fetched     *)
(* next, and follows the one that was decoded in the same step.            *)
Newest ==
  /\ stage \in BeforeEx \union {"id"} /\ ~need_flush_ifid /\ ifid.is_valid =>
       pc = ifid.predicted_pc /\ Straight(Decode[ifid.inst], ifid)
  /\ stage = "if" /\ ~need_flush_ifid /\ next_idex.is_valid =>
       pc = next_idex.predicted_pc /\ Straight(next_idex.d, next_idex)
  /\ stage = "clock" /\ ~need_flush_ifid =>
       /\ next_ifid.is_valid /\ pc = next_ifid.predicted_pc
       /\ Straight(Decode[next_ifid.inst], next_ifid)
       /\ next_idex.is_valid =>
            next_ifid.curr_pc = next_idex.predicted_pc /\ Straight(next_idex.d, next_idex)

(* The instructions in the pipeline are a chain: each is the predicted     *)
(* successor of the one before it, the last one's is being fetched, there  *)
(* is no gap in front of a decoded instruction, and flushes are asked for  *)
(* by ex_stage alone and are over when the step is.                        *)
Chain ==
  /\ need_flush_idex = need_flush_ifid
  /\ stage \in BeforeEx => ~need_flush_ifid
  /\ stage \in BeforeEx /\ idex.is_valid =>
       ifid.is_valid /\ ifid.curr_pc = idex.predicted_pc /\ Straight(idex.d, idex)
  /\ Newest

---------------------------------------------------------------------------
(* set_register and reset() change registers and pc behind instructions    *)
(* that are in the pipeline.                                               *)
Disturbs == SetRegister \/ Reset

(* A step repairs what such calls did before it: it ends with up to date   *)
(* copies and with the program where the fetched instruction says, and if  *)
(* it began with the latter, with the whole chain.  No other call and no   *)
(* stage undoes any of it.  So from the second step after the last such    *)
(* call on no operand is stale and no instruction is lost, repeated or     *)
(* invented; only the two that were in flight may be (Clock and the stages *)
(* of step(), set_register, reset()).                                      *)
RecoverStep ==
  /\ stage = "clock" => Operands' /\ Newest' /\ (Newest => Chain')
  /\ ~Disturbs =>
       /\ Operands => Operands'
       /\ Newest => Newest'
       /\ Operands /\ Chain => Chain' /\ ControlFlowStep

Recovers == [][RecoverStep]_vars
=============================================================================
