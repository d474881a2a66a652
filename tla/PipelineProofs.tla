--------------------------- MODULE PipelineProofs ---------------------------
(***************************************************************************)
(* Data and control hazards: forwarding gives ex_stage the registers and   *)
(* flags as they are, and prediction, flushes and interrupts move the      *)
(* program from each instruction to its successor, for every program and   *)
(* every host that leaves the registers alone between two steps.           *)
(***************************************************************************)
EXTENDS CpuInvariants, CpuProofs

(* The host calls neither set_register nor reset. *)
RegistersLeftAlone == HOST \intersect {"set_register", "reset"} = {}

(* A decoded instruction names registers of the file. *)
LEMMA InstructionRegisters ==
  \A r \in IdEx : r.d.rs1 \in Reg /\ r.d.rs2 \in Reg /\ r.d.rd \in Reg
  BY DEF IdEx, Instruction

(* The empty pipeline holds no copies. *)
LEMMA OperandsInit == Init => Operands
  BY DEF Init, Operands, ZeroIdEx

(* Stages that change neither the registers nor the copies in the pipeline *)
(* registers the stages read.                                              *)
LEMMA OperandsIdle ==
  ASSUME Operands, UNCHANGED <<registers, idex>>,
         stage  \in {"host", "loop", "timer", "wb"},
         stage' \in {"host", "loop", "timer", "wb"}
  PROVE  Operands'
<1>1. idex.is_valid => Snapshot(idex)
  BY DEF Operands
<1>2. idex'.is_valid => Snapshot(idex)'
  BY <1>1 DEF Snapshot, ReadReg
<1> QED
  BY <1>2 DEF Operands

(* Writing back changes one register, and forwarding supplies its value.   *)
LEMMA WriteForwarded ==
  ASSUME TypeOK, WbRetire, NEW r \in Reg, NEW v, v = ReadReg(r)
  PROVE  get_forwarded_value(r, v)' = ReadReg(r)'
<1>1. /\ exwb \in ExWb /\ exwb.is_valid /\ registers \in RegFile
      /\ exwb.n_rd \in Reg /\ exwb.alu_result \in Word
      /\ LoadValue(exwb) \in Word
  BY LoadValueType DEF WbRetire, TypeOK, ExWb
<1>2. CASE exwb.mem_read
  <2>1. registers' = WriteReg(registers, exwb.n_rd, LoadValue(exwb))
    BY <1>2 DEF WbRetire, RegsAfter
  <2>2. exwb' = [exwb EXCEPT !.mem_read_data = LoadValue(exwb)]
    BY <1>2 DEF WbRetire
  <2>3. /\ exwb'.is_valid /\ exwb'.mem_read /\ exwb'.n_rd = exwb.n_rd
        /\ exwb'.mem_read_data = LoadValue(exwb)
    BY <1>1, <1>2, <2>2 DEF ExWb
  <2>4. ReadReg(r)' = IF exwb.n_rd # 0 /\ r = exwb.n_rd THEN LoadValue(exwb) ELSE ReadReg(r)
    BY <1>1, <2>1, ReadWrite DEF ReadReg
  <2> QED
    BY <2>3, <2>4 DEF get_forwarded_value, need_forwarding
<1>3. CASE ~exwb.mem_read
  <2>1. exwb' = exwb
    BY <1>3 DEF WbRetire
  <2>2. CASE exwb.reg_write
    <3>1. registers' = WriteReg(registers, exwb.n_rd, exwb.alu_result)
      BY <1>3, <2>2 DEF WbRetire, RegsAfter
    <3>2. ReadReg(r)' = IF exwb.n_rd # 0 /\ r = exwb.n_rd THEN exwb.alu_result ELSE ReadReg(r)
      BY <1>1, <3>1, ReadWrite DEF ReadReg
    <3> QED
      BY <1>1, <1>3, <2>1, <2>2, <3>2 DEF get_forwarded_value, need_forwarding
  <2>3. CASE ~exwb.reg_write
    <3>1. registers' = registers
      BY <1>3, <2>3 DEF WbRetire, RegsAfter
    <3> QED
      BY <1>3, <2>1, <2>3, <3>1 DEF get_forwarded_value, need_forwarding, ReadReg
  <2> QED
    BY <2>2, <2>3
<1> QED
  BY <1>2, <1>3

(* wb_stage changes the one register that forwarding then recognises. *)
LEMMA OperandsWb == TypeOK /\ Operands /\ wb_stage => Operands'
<1> SUFFICES ASSUME TypeOK, Operands, wb_stage PROVE Operands'
  OBVIOUS
<1>0. stage = "wb" /\ stage' = "int" /\ idex' = idex /\ (idex.is_valid => Snapshot(idex))
  BY DEF wb_stage, WbBubble, WbRetire, Operands, pipe
<1>1. /\ idex.d.rs1 \in Reg /\ idex.d.rs2 \in Reg /\ idex.d.rd \in Reg
  BY InstructionRegisters DEF TypeOK
<1>2. CASE WbBubble
  <2>1. exwb' = exwb /\ registers' = registers /\ f' = f /\ ~exwb.is_valid
    BY <1>2 DEF WbBubble, pipe
  <2>2. idex'.is_valid => Forwarded'
    BY <1>0, <2>1 DEF Forwarded, rs1_val, rs2_val, rd_val, get_forwarded_value,
                      need_forwarding, Snapshot, ReadReg
  <2>3. current_flags' = f'
    BY <2>1 DEF current_flags
  <2> QED
    BY <1>0, <2>2, <2>3 DEF Operands
<1>3. CASE WbRetire
  <2>1. idex'.is_valid => Forwarded'
    <3> SUFFICES ASSUME idex.is_valid PROVE Forwarded'
      BY <1>0
    <3>1. Snapshot(idex)
      BY <1>0
    <3>2. get_forwarded_value(idex.d.rs1, idex.v_rs1)' = ReadReg(idex.d.rs1)'
      BY <1>1, <1>3, <3>1, WriteForwarded, <1>0 DEF Snapshot
    <3>3. get_forwarded_value(idex.d.rs2, idex.v_rs2)' = ReadReg(idex.d.rs2)'
      BY <1>1, <1>3, <3>1, WriteForwarded, <1>0 DEF Snapshot
    <3>4. get_forwarded_value(idex.d.rd, idex.curr_v_rd)' = ReadReg(idex.d.rd)'
      BY <1>1, <1>3, <3>1, WriteForwarded, <1>0 DEF Snapshot
    <3> QED
      BY <3>2, <3>3, <3>4 DEF Forwarded, rs1_val, rs2_val, rd_val
  <2>2. exwb'.flags_write = exwb.flags_write /\ exwb'.f = exwb.f /\ exwb'.is_valid
    BY <1>3 DEF WbRetire, TypeOK, ExWb
  <2>3. current_flags' = f'
    BY <1>3, <2>2 DEF WbRetire, FlagsAfter, current_flags
  <2> QED
    BY <1>0, <2>1, <2>3 DEF Operands
<1> QED
  BY <1>2, <1>3 DEF wb_stage

(* An accepted interrupt discards the copies. *)
LEMMA OperandsInt == TypeOK /\ Operands /\ handle_interrupt => Operands'
<1> SUFFICES ASSUME TypeOK, Operands, handle_interrupt PROVE Operands'
  OBVIOUS
<1>1. CASE IntNone
  <2>1. /\ stage = "int" /\ stage' = "ex" /\ idex' = idex /\ exwb' = exwb
        /\ registers' = registers /\ f' = f
    BY <1>1 DEF IntNone, pipe
  <2>2. idex.is_valid => Forwarded
    BY <2>1 DEF Operands
  <2>3. idex'.is_valid => Forwarded'
    BY <2>1, <2>2 DEF Forwarded, rs1_val, rs2_val, rd_val, get_forwarded_value,
                      need_forwarding, ReadReg
  <2>4. current_flags' = f'
    BY <2>1 DEF current_flags, Operands
  <2> QED
    BY <2>1, <2>3, <2>4 DEF Operands
<1>2. CASE IntAccept
  <2>1. stage = "int" /\ stage' = "ex" /\ exwb' = exwb /\ f' = f
    BY <1>2 DEF IntAccept, AcceptInterrupt
  <2>2. ~idex'.is_valid
    BY <1>2 DEF IntAccept, AcceptInterrupt, TypeOK, IdEx
  <2>3. current_flags' = f'
    BY <2>1 DEF current_flags, Operands
  <2> QED
    BY <2>1, <2>2, <2>3 DEF Operands
<1> QED
  BY <1>1, <1>2 DEF handle_interrupt

(* ex_stage ends, or the host process does. *)
LEMMA ExStages == ex_stage => stage = "ex" /\ stage' \in {"id", "aborted"}
  BY DEF ex_stage, Executes, ExBubble, ExAlu, ExDivTrap, ExCmp, ExMov, ExLui, ExAui, ExLoadi,
         ExNop, ExLoad, ExStore, ExJmp, ExBjmp, ExCall, ExRet, ExSyscall, ExTrap, ExIret,
         ExCsrr, ExCsrw, ExPush, ExPop, ExInvalid

(* id_stage copies what wb_stage has already written. *)
LEMMA OperandsId == TypeOK /\ Operands /\ id_stage => Operands'
<1> SUFFICES ASSUME TypeOK, Operands, id_stage PROVE Operands'
  OBVIOUS
<1>1. stage = "id" /\ stage' = "if" /\ registers' = registers
  BY DEF id_stage, IdBubble, IdDecode
<1>2. next_idex'.is_valid => Snapshot(next_idex)'
  <2>1. CASE IdBubble
    BY <2>1 DEF IdBubble, TypeOK, IdEx
  <2>2. CASE IdDecode
    BY <2>2, <1>1 DEF IdDecode, Snapshot, ReadReg
  <2> QED
    BY <2>1, <2>2 DEF id_stage
<1> QED
  BY <1>1, <1>2 DEF Operands

(* if_stage has no copies. *)
LEMMA OperandsIf == TypeOK /\ Operands /\ if_stage => Operands'
<1> SUFFICES ASSUME TypeOK, Operands, if_stage PROVE Operands'
  OBVIOUS
<1>1. stage = "if" /\ stage' = "clock" /\ registers' = registers /\ next_idex' = next_idex
  BY DEF if_stage, IfFlushed, IfFetch, pipe
<1>2. next_idex.is_valid => Snapshot(next_idex)
  BY <1>1 DEF Operands
<1>3. next_idex'.is_valid => Snapshot(next_idex)'
  BY <1>1, <1>2 DEF Snapshot, ReadReg
<1> QED
  BY <1>1, <1>3 DEF Operands

(* The exchange moves them from one register to the next. *)
LEMMA OperandsClock == TypeOK /\ Operands /\ Clock => Operands'
<1> SUFFICES ASSUME TypeOK, Operands, Clock PROVE Operands'
  OBVIOUS
<1>1. stage = "clock" /\ stage' \in {"host", "loop"} /\ registers' = registers
  BY DEF Clock
<1>2. next_idex.is_valid => Snapshot(next_idex)
  BY <1>1 DEF Operands
<1>3. idex'.is_valid => idex' = next_idex /\ next_idex.is_valid
  BY DEF Clock, Flushed, TypeOK, IdEx
<1>4. idex'.is_valid => Snapshot(idex)'
  BY <1>1, <1>2, <1>3 DEF Snapshot, ReadReg
<1> QED
  BY <1>1, <1>4 DEF Operands

(* Such a host disturbs nothing. *)
LEMMA Undisturbed == RegistersLeftAlone => ~Disturbs
  BY DEF RegistersLeftAlone, Disturbs, SetRegister, Reset, Calls

(* Operands is inductive for a host that leaves registers alone. *)
LEMMA OperandsNext ==
  ASSUME ~Disturbs, TypeOK, Operands, [Next]_vars PROVE Operands'
<1>1. CASE update_timer
  BY <1>1, OperandsIdle DEF update_timer, TimerOff, TimerOn, TimerFrame, pipe
<1>2. CASE wb_stage
  BY <1>2, OperandsWb
<1>3. CASE handle_interrupt
  BY <1>3, OperandsInt
<1>4. CASE ex_stage
  BY <1>4, ExStages DEF Operands
<1>5. CASE id_stage \/ if_stage \/ Clock
  BY <1>5, OperandsId, OperandsIf, OperandsClock
<1>6. CASE LoopContinue \/ LoopReturn
  BY <1>6, OperandsIdle DEF LoopContinue, LoopReturn, StepBegins, pipe
<1>7. CASE Host
  <2>1. ~SetRegister /\ ~Reset
    BY DEF Disturbs
  <2>2. CASE ~HandleInterrupt
    <3>1. /\ stage = "host" /\ stage' \in {"host", "loop", "timer"}
          /\ registers' = registers /\ idex' = idex
      BY <1>7, <2>1, <2>2 DEF Host, Run, Step, StepBegins, SetIrq, TriggerInterrupt, PushKey,
           Breakpoints, ContinueExecution, SetFlags, LoadProgram, UpdateTimer, GetMemory,
           Calls, HostFrame, pipe
    <3> QED
      BY <3>1, OperandsIdle
  <2>3. CASE HandleInterrupt
    <3>1. stage = "host" /\ stage' = "host" /\ ~idex'.is_valid
      BY <2>3 DEF HandleInterrupt, AcceptInterrupt, Calls, TypeOK, IdEx
    <3> QED
      BY <3>1 DEF Operands
  <2> QED
    BY <2>2, <2>3
<1>8. CASE UNCHANGED vars
  BY <1>8 DEF vars, pipe, Operands, Snapshot, Forwarded, ReadReg, rs1_val, rs2_val, rd_val,
              get_forwarded_value, need_forwarding, current_flags
<1> QED
  BY <1>1, <1>2, <1>3, <1>4, <1>5, <1>6, <1>7, <1>8 DEF Next, Thread

(* At the execute stage it says that forwarding is right. *)
LEMMA OperandsForward == Operands => ForwardingCorrect
  BY DEF Operands, ForwardingCorrect, Forwarded

(* The inductive form: from id_stage to ex_stage the copies of an          *)
(* instruction's operands are the registers' values or are forwarded.      *)
THEOREM OperandsKept == RegistersLeftAlone => (Spec => []Operands)
<1> SUFFICES ASSUME RegistersLeftAlone PROVE Spec => []Operands
  OBVIOUS
<1>1. TypeOK /\ Operands /\ [Next]_vars => Operands'
  BY OperandsNext, Undisturbed
<1> QED
  BY <1>1, OperandsInit, TypeCorrect, PTL DEF Spec

(* For every program, every interrupt, every prediction and every call the *)
(* host makes other than the two that overwrite registers: each            *)
(* instruction works on the register values and flags the instructions     *)
(* before it left, though they were copied before those had finished.      *)
THEOREM Forwarding == RegistersLeftAlone => (Spec => []ForwardingCorrect)
<1> SUFFICES ASSUME RegistersLeftAlone PROVE Spec => []ForwardingCorrect
  OBVIOUS
<1> QED
  BY OperandsKept, OperandsForward, PTL

---------------------------------------------------------------------------
(* From wb_stage to ex_stage the bypass gives the flags of the machine.    *)
FlagsSettled == stage \in {"int", "ex"} => current_flags = f

(* No call of the host comes between a comparison and its branch. *)
LEMMA FlagsNext ==
  ASSUME TypeOK, FlagsSettled, [Next]_vars PROVE FlagsSettled'
<1>1. CASE wb_stage
  <2>1. CASE WbBubble
    BY <2>1 DEF WbBubble, pipe, FlagsSettled, current_flags
  <2>2. CASE WbRetire
    <3>1. exwb'.flags_write = exwb.flags_write /\ exwb'.f = exwb.f /\ exwb'.is_valid
      BY <2>2 DEF WbRetire, TypeOK, ExWb
    <3> QED
      BY <2>2, <3>1 DEF WbRetire, FlagsAfter, FlagsSettled, current_flags
  <2> QED
    BY <1>1, <2>1, <2>2 DEF wb_stage
<1>2. CASE handle_interrupt
  <2>1. stage = "int" /\ exwb' = exwb /\ f' = f
    BY <1>2 DEF handle_interrupt, IntNone, IntAccept, AcceptInterrupt, pipe
  <2> QED
    BY <2>1 DEF FlagsSettled, current_flags
<1>3. CASE update_timer \/ ex_stage \/ id_stage \/ if_stage \/ Clock \/ LoopContinue \/ LoopReturn
  <2>1. stage' \notin {"int", "ex"}
    BY <1>3, ExStages DEF update_timer, TimerOff, TimerOn, TimerFrame, id_stage, IdBubble,
                          IdDecode, if_stage, IfFlushed, IfFetch, Clock, LoopContinue,
                          LoopReturn, StepBegins
  <2> QED
    BY <2>1 DEF FlagsSettled
<1>4. CASE Host
  <2>1. stage' \notin {"int", "ex"}
    BY <1>4 DEF Host, Run, Step, StepBegins, SetIrq, TriggerInterrupt, PushKey, Breakpoints,
                ContinueExecution, SetRegister, SetFlags, LoadProgram, UpdateTimer,
                HandleInterrupt, GetMemory, Reset, Calls, HostFrame
  <2> QED
    BY <2>1 DEF FlagsSettled
<1>5. CASE UNCHANGED vars
  BY <1>5 DEF vars, pipe, FlagsSettled, current_flags
<1> QED
  BY <1>1, <1>2, <1>3, <1>4, <1>5 DEF Next, Thread

(* With no condition on the host: a branch never decides on flags other    *)
(* than the machine's, set_flags and reset included.                       *)
THEOREM FlagBypass == Spec => []BranchFlags
<1>1. Init => FlagsSettled
  BY DEF Init, FlagsSettled
<1>2. TypeOK /\ FlagsSettled /\ [Next]_vars => FlagsSettled'
  BY FlagsNext
<1>3. Spec => []FlagsSettled
  BY <1>1, <1>2, TypeCorrect, PTL DEF Spec
<1>4. FlagsSettled => BranchFlags
  BY DEF FlagsSettled, BranchFlags
<1> QED
  BY <1>3, <1>4, PTL

---------------------------------------------------------------------------
(* Control hazards *)

(* The empty pipeline is a chain. *)
LEMMA ChainInit == ASSUME Init PROVE Chain
<1>1. /\ stage = "host" /\ ~need_flush_ifid /\ ~need_flush_idex
      /\ need_flush_idex = need_flush_ifid
      /\ ~ifid.is_valid /\ ~idex.is_valid
  BY DEF Init, ZeroIfId, ZeroIdEx
<1> QED
  BY <1>1 DEF Chain, Newest, BeforeEx

---------------------------------------------------------------------------
(* Steps that leave the pipeline alone *)

pipeline == <<pc, ifid, idex, flush>>

(* Steps that leave the pipeline alone before ex_stage. *)
LEMMA ChainIdle ==
  ASSUME Chain, UNCHANGED pipeline, stage \in BeforeEx, stage' \in BeforeEx
  PROVE  Chain' /\ ArchPc' = ArchPc
<1>1. /\ pc' = pc /\ ifid' = ifid /\ idex' = idex
      /\ need_flush_ifid' = need_flush_ifid /\ need_flush_idex' = need_flush_idex
  BY DEF pipeline, flush
<1>2. /\ stage \notin {"id", "if", "clock"} /\ stage' \notin {"id", "if", "clock"}
  BY DEF BeforeEx
<1>3. Chain'
  BY <1>1, <1>2 DEF Chain, Newest, Straight
<1>4. ArchPc' = ArchPc
  BY <1>1, <1>2 DEF ArchPc, Oldest
<1> QED
  BY <1>3, <1>4

(* No step outside the stages moves the program, except reset().           *)
LEMMA ChainBetween ==
  ASSUME ~Disturbs, Chain,
         \/ update_timer \/ wb_stage \/ IntNone \/ ExDivTrap \/ LoopContinue \/ LoopReturn
         \/ Host /\ ~HandleInterrupt
  PROVE  Chain' /\ ArchPc' = ArchPc
<1>1. CASE update_timer
  BY <1>1, ChainIdle DEF update_timer, TimerOff, TimerOn, TimerFrame, pipe, flush, pipeline,
                        BeforeEx
<1>2. CASE wb_stage
  BY <1>2, ChainIdle DEF wb_stage, WbBubble, WbRetire, pipe, flush, pipeline, BeforeEx
<1>3. CASE IntNone \/ ExDivTrap
  BY <1>3, ChainIdle DEF IntNone, ExDivTrap, pipe, flush, pipeline, BeforeEx
<1>4. CASE LoopContinue \/ LoopReturn
  BY <1>4, ChainIdle DEF LoopContinue, LoopReturn, StepBegins, pipe, flush, pipeline, BeforeEx
<1>5. CASE Host /\ ~HandleInterrupt
  <2>1. ~Reset
    BY DEF Disturbs
  <2>2. stage \in BeforeEx /\ stage' \in BeforeEx /\ UNCHANGED pipeline
    BY <1>5, <2>1 DEF Host, Run, Step, StepBegins, SetIrq, TriggerInterrupt, PushKey,
                     Breakpoints, ContinueExecution, SetRegister, SetFlags, LoadProgram,
                     UpdateTimer, GetMemory, Calls, HostFrame, pipe, flush, pipeline, BeforeEx
  <2> QED
    BY <2>2, ChainIdle
<1> QED
  BY <1>1, <1>2, <1>3, <1>4, <1>5

---------------------------------------------------------------------------
(* Interrupts *)

(* An accepted interrupt saves the place of the program and moves it. *)
LEMMA ChainAccept ==
  ASSUME TypeOK, Chain, IntAccept \/ HandleInterrupt
  PROVE  Chain' /\ csr'.EPC = ArchPc /\ ArchPc' = HandlerAddr(IrqCode(csr))
<1>1. /\ AcceptInterrupt
      /\ stage \in {"int", "host"} /\ stage' \in {"ex", "host"}
      /\ ~need_flush_ifid /\ ~need_flush_idex
  BY DEF IntAccept, HandleInterrupt, Calls, Chain, Newest, BeforeEx
<1>2. ~need_flush_ifid' /\ ~need_flush_idex'
  BY <1>1 DEF AcceptInterrupt, flush
<1>3. ~idex'.is_valid /\ ~ifid'.is_valid
  BY <1>1 DEF AcceptInterrupt, TypeOK, IdEx, IfId
<1>4. ArchPc = ReturnPc
  BY <1>1 DEF ArchPc, ReturnPc, Oldest
<1>5. csr'.EPC = ReturnPc
  <2> DEFINE code == IrqCode(csr)
             entered == EnterHandler(csr, f, ReturnPc, code)
  <2>1. csr' = [WithFrame(entered) EXCEPT !.IPENDING = Clear(@, code)]
    BY <1>1 DEF AcceptInterrupt
  <2>2. csr \in CsrFile
    BY DEF TypeOK
  <2>3. entered.EPC = ReturnPc /\ DOMAIN entered = Csr
    BY <2>2 DEF EnterHandler, CsrFile, Csr
  <2> HIDE DEF entered, code
  <2>4. WithFrame(entered).EPC = ReturnPc /\ DOMAIN WithFrame(entered) = Csr
    BY <2>3 DEF WithFrame, Csr
  <2> QED
    BY <2>1, <2>4 DEF Csr
<1>6. ArchPc' = pc'
  BY <1>1, <1>2, <1>3 DEF ArchPc, Oldest
<1>7. pc' = HandlerAddr(IrqCode(csr))
  BY <1>1 DEF AcceptInterrupt
<1>8. Chain'
  <2>1. need_flush_ifid' = need_flush_idex'
    BY <1>1 DEF AcceptInterrupt, Chain, Newest, flush
  <2> QED
    BY <1>1, <1>2, <1>3, <2>1 DEF Chain, Newest, BeforeEx
<1> QED
  BY <1>4, <1>5, <1>6, <1>7, <1>8

---------------------------------------------------------------------------
(* Execute *)

(* Everything an executed instruction can do to the pipeline: redirect it, *)
(* or leave it as it is, and the latter only if its successor is the       *)
(* predicted one.                                                          *)
LEMMA Redirected ==
  ASSUME Chain, stage = "ex", stage' = "id", UNCHANGED <<ifid, idex>>, NEW target,
         Jump(target)
  PROVE  Chain' /\ ArchPc' = target
<1>1. pc' = target /\ need_flush_ifid' /\ need_flush_idex'
  BY DEF Jump
<1> QED
  BY <1>1 DEF Chain, Newest, BeforeEx, ArchPc

(* After an instruction that needs no flush the next in line is oldest. *)
LEMMA WentOn ==
  ASSUME Chain, stage = "ex", stage' = "id", UNCHANGED <<ifid, idex>>, GoOn
  PROVE  /\ Chain'
         /\ idex.is_valid => ArchPc' = idex.predicted_pc
         /\ ~idex.is_valid => ArchPc' = ArchPc
<1>1. pc' = pc /\ need_flush_ifid' = need_flush_ifid /\ need_flush_idex' = need_flush_idex
  BY DEF GoOn, flush
<1>2. ~need_flush_ifid
  BY DEF Chain, Newest, BeforeEx
<1>3. Chain'
  BY <1>1, <1>2 DEF Chain, Newest, BeforeEx, Straight
<1>4. ArchPc' = IF ifid.is_valid THEN ifid.curr_pc ELSE pc
  BY <1>1, <1>2 DEF ArchPc, Oldest, ZeroIdEx
<1>5. ArchPc = Oldest(idex, ifid)
  BY <1>2 DEF ArchPc
<1>6. idex.is_valid => ifid.is_valid /\ ifid.curr_pc = idex.predicted_pc
  BY DEF Chain, Newest, BeforeEx
<1> QED
  BY <1>3, <1>4, <1>5, <1>6 DEF Oldest

(* Instructions that are not redirected are followed by the next one.      *)
Sequentially == Opcode \ {"JMP", "BJMP", "CALL", "CALLR", "RET", "SYSCALL", "TRAP", "IRET"}

(* Whatever was predicted, an instruction is followed by its successor. *)
LEMMA ChainExecute ==
  ASSUME TypeOK, Operands, Chain, ex_stage, idex.is_valid, stage' = "id"
  PROVE  Chain' /\ ArchPc' = Successor(idex.d)
<1>1. stage = "ex" /\ UNCHANGED <<ifid, idex>> /\ idex.d.opcode \in Opcode
  BY ExStages DEF ex_stage, Executes, ExBubble, ExAlu, ExDivTrap, ExCmp, ExMov, ExLui, ExAui,
         ExLoadi, ExNop, ExLoad, ExStore, ExJmp, ExBjmp, ExCall, ExRet, ExSyscall, ExTrap,
         ExIret, ExCsrr, ExCsrw, ExPush, ExPop, ExInvalid, TypeOK, IdEx, Instruction
<1>2. ArchPc = idex.curr_pc
  BY <1>1 DEF ArchPc, Oldest, Chain, Newest, BeforeEx
<1>3. /\ rs1_val = ReadReg(idex.d.rs1) /\ current_flags = f
  BY <1>1 DEF Operands, Forwarded
<1>4. CASE idex.d.opcode \in Sequentially
  <2>1. GoOn
    BY <1>4 DEF Sequentially, ex_stage, ExBubble, ExDivTrap, Executes, Passes, ExAlu, ExCmp,
         ExMov, ExLui, ExAui, ExLoadi, ExNop, ExLoad, ExStore, ExJmp, ExBjmp, ExCall, ExRet,
         ExSyscall, ExTrap, ExIret, ExCsrr, ExCsrw, ExPush, ExPop, ExInvalid
  <2>2. Chain' /\ ArchPc' = idex.predicted_pc
    BY <1>1, <2>1, WentOn
  <2>3. idex.predicted_pc = Plus(idex.curr_pc, 1)
    BY <1>1, <1>4 DEF Chain, Newest, BeforeEx, Straight, Sequentially
  <2>4. Successor(idex.d) = Plus(ArchPc, 1)
    BY <1>4 DEF Successor, Sequentially
  <2> QED
    BY <1>2, <2>2, <2>3, <2>4
<1>5. CASE idex.d.opcode = "BJMP"
  <2> DEFINE next == IF Taken(idex.d.cond, current_flags) THEN RelTarget ELSE ReturnAddr
  <2>1. IF idex.predicted_pc # next THEN Jump(next) ELSE GoOn
    BY <1>5 DEF ex_stage, ExBubble, ExDivTrap, Executes, ExAlu, ExCmp, ExMov, ExLui, ExAui,
         ExLoadi, ExNop, ExLoad, ExStore, ExJmp, ExBjmp, ExCall, ExRet, ExSyscall, ExTrap,
         ExIret, ExCsrr, ExCsrw, ExPush, ExPop, ExInvalid, AluOp, LogicOp, ShiftOp
  <2>2. Successor(idex.d) = next
    BY <1>2, <1>3, <1>5 DEF Successor, RelTarget, ReturnAddr
  <2> HIDE DEF next
  <2>3. Chain' /\ ArchPc' = next
    BY <1>1, <2>1, Redirected, WentOn
  <2> QED
    BY <2>2, <2>3
<1>6. CASE idex.d.opcode \in Opcode \ Sequentially /\ idex.d.opcode # "BJMP"
  <2>1. Jump(Successor(idex.d))
    <3>1. idex.d.opcode \in {"JMP", "CALL", "CALLR", "RET", "SYSCALL", "TRAP", "IRET"}
      BY <1>6 DEF Sequentially
    <3>2. CASE ExJmp
      BY <1>2, <3>2 DEF ExJmp, Executes, Successor, RelTarget
    <3>3. CASE ExCall
      BY <1>2, <1>3, <3>3 DEF ExCall, Executes, Successor, RelTarget
    <3>4. CASE ExRet
      BY <3>4 DEF ExRet, Executes, Successor
    <3>5. CASE ExSyscall
      BY <3>5 DEF ExSyscall, Executes, Successor
    <3>6. CASE ExTrap
      BY <3>6 DEF ExTrap, Executes, Successor
    <3>7. CASE ExIret
      BY <3>7 DEF ExIret, Executes, Successor
    <3>8. ExJmp \/ ExCall \/ ExRet \/ ExSyscall \/ ExTrap \/ ExIret
      BY <3>1 DEF ex_stage, ExBubble, ExDivTrap, Executes, ExAlu, ExCmp, ExMov, ExLui, ExAui,
         ExLoadi, ExNop, ExLoad, ExStore, ExBjmp, ExCsrr, ExCsrw, ExPush, ExPop, ExInvalid,
         AluOp, LogicOp, ShiftOp
    <3> QED
      BY <3>2, <3>3, <3>4, <3>5, <3>6, <3>7, <3>8
  <2> QED
    BY <1>1, <2>1, Redirected
<1> QED
  BY <1>1, <1>4, <1>5, <1>6

(* A bubble leaves the place of the program alone. *)
LEMMA ChainBubble == ASSUME Chain, ExBubble PROVE Chain' /\ ArchPc' = ArchPc
<1>1. stage = "ex" /\ stage' = "id" /\ UNCHANGED <<ifid, idex>> /\ ~idex.is_valid /\ GoOn
  BY DEF ExBubble, GoOn
<1> QED
  BY <1>1, WentOn

---------------------------------------------------------------------------
(* Decode, fetch, clock *)

(* So do id_stage, *)
LEMMA ChainId == ASSUME TypeOK, Chain, id_stage PROVE Chain' /\ ArchPc' = ArchPc
<1>1. /\ stage = "id" /\ stage' = "if" /\ pc' = pc
      /\ need_flush_ifid' = need_flush_ifid /\ need_flush_idex' = need_flush_idex
  BY DEF id_stage, IdBubble, IdDecode, flush
<1>2. CASE need_flush_ifid
  BY <1>1, <1>2 DEF Chain, Newest, BeforeEx, ArchPc
<1>3. CASE ~need_flush_ifid /\ IdBubble
  <2>1. ~next_idex'.is_valid /\ ~ifid.is_valid
    BY <1>3 DEF IdBubble, TypeOK, IdEx
  <2>2. Chain'
    BY <1>1, <2>1 DEF Chain, Newest, BeforeEx
  <2> QED
    BY <1>1, <1>3, <2>1, <2>2 DEF ArchPc, Oldest, ZeroIdEx, ZeroIfId
<1>4. CASE ~need_flush_ifid /\ IdDecode
  <2>1. /\ ifid.is_valid /\ next_idex'.is_valid /\ next_idex'.curr_pc = ifid.curr_pc
        /\ next_idex'.predicted_pc = ifid.predicted_pc /\ next_idex'.d = Decode[ifid.inst]
    BY <1>4 DEF IdDecode
  <2>2. pc = ifid.predicted_pc /\ Straight(Decode[ifid.inst], ifid)
    BY <1>1, <1>4, <2>1 DEF Chain, Newest, BeforeEx
  <2>3. Chain'
    BY <1>1, <2>1, <2>2 DEF Chain, Newest, BeforeEx, Straight
  <2> QED
    BY <1>1, <1>4, <2>1, <2>3 DEF ArchPc, Oldest, ZeroIdEx, ZeroIfId
<1> QED
  BY <1>2, <1>3, <1>4 DEF id_stage

(* if_stage *)
LEMMA ChainIf == ASSUME TypeOK, Chain, if_stage PROVE Chain' /\ ArchPc' = ArchPc
<1>1. /\ stage = "if" /\ stage' = "clock" /\ next_idex' = next_idex
      /\ need_flush_ifid' = need_flush_ifid /\ need_flush_idex' = need_flush_idex
  BY DEF if_stage, IfFlushed, IfFetch, pipe, flush
<1>2. CASE IfFlushed
  <2>1. need_flush_ifid /\ pc' = pc
    BY <1>2 DEF IfFlushed
  <2> QED
    BY <1>1, <2>1 DEF Chain, Newest, BeforeEx, ArchPc
<1>3. CASE IfFetch
  <2> DEFINE inst == read_u32_direct(mem, pc)
  <2>1. /\ ~need_flush_ifid /\ next_ifid'.is_valid /\ next_ifid'.curr_pc = pc
        /\ next_ifid'.predicted_pc = NextFetch(inst) /\ pc' = NextFetch(inst)
        /\ next_ifid'.inst = inst
    BY <1>3 DEF IfFetch
  <2>2. Decode[inst].opcode # "BJMP" => NextFetch(inst) = Plus(pc, 1)
    BY DEF NextFetch
  <2> HIDE DEF inst
  <2>3. /\ need_flush_idex = need_flush_ifid
        /\ next_idex.is_valid => pc = next_idex.predicted_pc /\ Straight(next_idex.d, next_idex)
    BY <1>1, <2>1 DEF Chain, Newest
  <2>4. Chain'
    BY <1>1, <2>1, <2>2, <2>3 DEF Chain, Newest, BeforeEx, Straight
  <2> QED
    BY <1>1, <2>1, <2>4 DEF ArchPc, Oldest, ZeroIfId
<1> QED
  BY <1>2, <1>3 DEF if_stage

(* and the exchange, which applies the flushes. *)
LEMMA ChainClock == ASSUME TypeOK, Chain, Clock PROVE Chain' /\ ArchPc' = ArchPc
<1>1. /\ stage = "clock" /\ stage' \in {"host", "loop"} /\ pc' = pc
      /\ need_flush_ifid' = FALSE /\ need_flush_idex' = FALSE
      /\ need_flush_idex = need_flush_ifid
  BY DEF Clock, Chain, Newest
<1>2. CASE need_flush_ifid
  <2>1. ~ifid'.is_valid /\ ~idex'.is_valid
    BY <1>1, <1>2 DEF Clock, Flushed, TypeOK, IfId, IdEx
  <2> QED
    BY <1>1, <1>2, <2>1 DEF Chain, Newest, BeforeEx, ArchPc, Oldest
<1>3. CASE ~need_flush_ifid
  <2>1. ifid' = next_ifid /\ idex' = next_idex
    BY <1>1, <1>3 DEF Clock, Flushed
  <2>2. Chain'
    BY <1>1, <1>3, <2>1 DEF Chain, Newest, BeforeEx, Straight
  <2> QED
    BY <1>1, <1>3, <2>1, <2>2 DEF ArchPc, Oldest
<1> QED
  BY <1>2, <1>3

---------------------------------------------------------------------------

(* Every step keeps the chain and is one of ControlFlow. *)
LEMMA ControlNext ==
  ASSUME ~Disturbs, TypeOK, Operands, Chain, [Next]_vars
  PROVE  Chain' /\ [ControlFlowStep]_vars
<1>1. CASE update_timer \/ wb_stage \/ IntNone \/ ExDivTrap \/ LoopContinue \/ LoopReturn
           \/ (Host /\ ~HandleInterrupt)
  <2>1. Chain' /\ ArchPc' = ArchPc
    BY <1>1, ChainBetween
  <2>2. ~Executing /\ ~Accepting /\ ~HandleInterrupt
    BY <1>1 DEF Executing, Accepting, HandleInterrupt, update_timer, TimerOff, TimerOn,
         TimerFrame, wb_stage, WbBubble, WbRetire, IntNone, ExDivTrap, LoopContinue, LoopReturn,
         StepBegins, Host, Run, Step, SetIrq, TriggerInterrupt, PushKey, Breakpoints, ContinueExecution,
         SetRegister, SetFlags, LoadProgram, UpdateTimer, GetMemory, Reset, Calls, HostFrame
  <2> QED
    BY <2>1, <2>2 DEF ControlFlowStep
<1>2. CASE IntAccept \/ HandleInterrupt
  <2>1. ~Executing /\ (Accepting \/ HandleInterrupt)
    BY <1>2 DEF Executing, Accepting, IntAccept, AcceptInterrupt, HandleInterrupt, Calls
  <2> QED
    BY <1>2, <2>1, ChainAccept DEF ControlFlowStep
<1>3. CASE ex_stage /\ ~ExDivTrap /\ idex.is_valid
  <2>1. stage = "ex" /\ stage' = "id"
    BY <1>3 DEF ex_stage, Executes, ExBubble, ExAlu, ExCmp, ExMov, ExLui, ExAui, ExLoadi,
         ExNop, ExLoad, ExStore, ExJmp, ExBjmp, ExCall, ExRet, ExSyscall, ExTrap, ExIret,
         ExCsrr, ExCsrw, ExPush, ExPop, ExInvalid
  <2>2. Executing /\ ~Accepting /\ ~HandleInterrupt
    BY <1>3, <2>1 DEF Executing, Accepting, HandleInterrupt, Calls
  <2> QED
    BY <1>3, <2>1, <2>2, ChainExecute DEF ControlFlowStep
<1>4. CASE ex_stage /\ ~ExDivTrap /\ ~idex.is_valid
  <2>1. ExBubble
    BY <1>4 DEF ex_stage, Executes, ExAlu, ExCmp, ExMov, ExLui, ExAui, ExLoadi,
         ExNop, ExLoad, ExStore, ExJmp, ExBjmp, ExCall, ExRet, ExSyscall, ExTrap, ExIret,
         ExCsrr, ExCsrw, ExPush, ExPop, ExInvalid
  <2>2. ~Executing /\ ~Accepting /\ ~HandleInterrupt
    BY <2>1 DEF Executing, Accepting, HandleInterrupt, Calls, ExBubble
  <2> QED
    BY <2>1, <2>2, ChainBubble DEF ControlFlowStep
<1>5. CASE id_stage \/ if_stage \/ Clock
  <2>1. Chain' /\ ArchPc' = ArchPc
    BY <1>5, ChainId, ChainIf, ChainClock
  <2>2. ~Executing /\ ~Accepting /\ ~HandleInterrupt
    BY <1>5 DEF Executing, Accepting, HandleInterrupt, Calls, id_stage, IdBubble, IdDecode,
                if_stage, IfFlushed, IfFetch, Clock
  <2> QED
    BY <2>1, <2>2 DEF ControlFlowStep
<1>6. CASE UNCHANGED vars
  BY <1>6 DEF vars, pipe, flush, Chain, Newest, Straight
<1> QED
  BY <1>1, <1>2, <1>3, <1>4, <1>5, <1>6 DEF Next, Thread, handle_interrupt

(* Whatever is predicted, flushed and interrupted, the instructions in     *)
(* flight are a chain of predicted successors without a gap.               *)
THEOREM ChainKept == RegistersLeftAlone => (Spec => []Chain)
<1> SUFFICES ASSUME RegistersLeftAlone PROVE Spec => []Chain
  OBVIOUS
<1>1. TypeOK /\ Operands /\ Chain /\ [Next]_vars => Chain'
  BY ControlNext, Undisturbed
<1> QED
  BY <1>1, OperandsKept, ChainInit, TypeCorrect, PTL DEF Spec

(* For every program, every content of the predictor's table and every     *)
(* interrupt: each executed instruction is followed by its successor, an   *)
(* interrupt resumes at the instruction it came before, and wrong-path     *)
(* instructions never execute.                                             *)
THEOREM Control == RegistersLeftAlone => (Spec => ControlFlow)
<1> SUFFICES ASSUME RegistersLeftAlone PROVE Spec => ControlFlow
  OBVIOUS
<1>1. TypeOK /\ Operands /\ Chain /\ [Next]_vars => [ControlFlowStep]_vars
  BY ControlNext, Undisturbed
<1>2. Spec => [][ControlFlowStep]_vars
  BY <1>1, OperandsKept, ChainKept, TypeCorrect, PTL DEF Spec
<1> QED
  BY <1>2 DEF ControlFlow
---------------------------------------------------------------------------
(* Recovery *)

(* What holds of the newest instruction whatever the host calls: it is     *)
(* copied and fetched within one step, and the host calls between steps.   *)
Latest ==
  /\ need_flush_idex = need_flush_ifid
  /\ stage \in BeforeEx => ~need_flush_ifid
  /\ stage \in {"if", "clock"} /\ next_idex.is_valid => Snapshot(next_idex)
  /\ stage = "clock" /\ ~need_flush_ifid =>
       /\ next_ifid.is_valid /\ pc = next_ifid.predicted_pc
       /\ Straight(Decode[next_ifid.inst], next_ifid)

(* ex_stage leaves the pipeline registers alone and flushes or goes on. *)
LEMMA ExMoves ==
  ASSUME ex_stage
  PROVE  /\ stage = "ex" /\ UNCHANGED <<ifid, idex>>
         /\ \/ stage' = "id" /\ need_flush_ifid' = TRUE /\ need_flush_idex' = TRUE
            \/ stage' = "id" /\ UNCHANGED <<pc, flush>>
            \/ stage' = "aborted" /\ UNCHANGED <<pc, flush>>
  BY DEF ex_stage, Executes, ExBubble, ExAlu, ExDivTrap, ExCmp, ExMov, ExLui, ExAui,
         ExLoadi, ExNop, ExLoad, ExStore, ExJmp, ExBjmp, ExCall, ExRet, ExSyscall, ExTrap,
         ExIret, ExCsrr, ExCsrw, ExPush, ExPop, ExInvalid, Passes, GoOn, Jump, pipe

(* Steps outside ex_stage, id_stage, if_stage and the exchange. *)
Waiting ==
  \/ update_timer \/ wb_stage \/ IntNone \/ LoopContinue \/ LoopReturn
  \/ Host /\ ~HandleInterrupt

LEMMA Waits ==
  ASSUME Waiting
  PROVE  /\ stage \in BeforeEx /\ stage' \in BeforeEx
         /\ UNCHANGED <<ifid, idex, flush>> /\ (~Reset => pc' = pc)
  BY DEF Waiting, update_timer, TimerOff, TimerOn, TimerFrame, wb_stage, WbBubble, WbRetire,
         IntNone, LoopContinue, LoopReturn, StepBegins, Host, Run, Step, SetIrq,
         TriggerInterrupt, PushKey, Breakpoints, ContinueExecution, SetRegister, SetFlags,
         LoadProgram, UpdateTimer, GetMemory, Reset, Calls, HostFrame, pipe, flush, BeforeEx

(* An accepted interrupt empties the pipeline. *)
LEMMA Empties ==
  ASSUME TypeOK, IntAccept \/ HandleInterrupt
  PROVE  /\ \/ stage = "int" /\ stage' = "ex"
            \/ stage = "host" /\ stage' = "host"
         /\ UNCHANGED flush /\ ~ifid'.is_valid /\ ~idex'.is_valid
  BY DEF IntAccept, HandleInterrupt, AcceptInterrupt, Calls, TypeOK, IdEx, IfId

(* So Latest is inductive for every host. *)
LEMMA LatestNext == ASSUME TypeOK, Latest, [Next]_vars PROVE Latest'
<1>1. CASE Waiting
  BY <1>1, Waits DEF Latest, BeforeEx, flush
<1>2. CASE IntAccept \/ HandleInterrupt
  BY <1>2, Empties DEF Latest, BeforeEx, flush
<1>3. CASE ex_stage
  <2>1. /\ need_flush_idex = need_flush_ifid /\ ~need_flush_ifid /\ stage = "ex"
    BY <1>3, ExMoves DEF Latest, BeforeEx
  <2>2. CASE stage' = "id"
    BY <1>3, <2>1, <2>2, ExMoves DEF Latest, BeforeEx, flush
  <2>3. CASE stage' = "aborted"
    BY <1>3, <2>1, <2>3, ExMoves DEF Latest, flush
  <2> QED
    BY <1>3, <2>2, <2>3, ExMoves
<1>4. CASE id_stage
  <2>1. stage = "id" /\ stage' = "if" /\ registers' = registers /\ UNCHANGED flush
    BY <1>4 DEF id_stage, IdBubble, IdDecode
  <2>2. next_idex'.is_valid => Snapshot(next_idex)'
    <3>1. CASE IdBubble
      BY <3>1 DEF IdBubble, TypeOK, IdEx
    <3>2. CASE IdDecode
      BY <3>2, <2>1 DEF IdDecode, Snapshot, ReadReg
    <3> QED
      BY <1>4, <3>1, <3>2 DEF id_stage
  <2> QED
    BY <2>1, <2>2 DEF Latest, BeforeEx, flush
<1>5. CASE if_stage
  <2>1. /\ stage = "if" /\ stage' = "clock" /\ registers' = registers
        /\ next_idex' = next_idex /\ UNCHANGED flush
    BY <1>5 DEF if_stage, IfFlushed, IfFetch, pipe
  <2>2. next_idex'.is_valid => Snapshot(next_idex)'
    BY <2>1 DEF Latest, Snapshot, ReadReg
  <2>3. ~need_flush_ifid =>
          /\ next_ifid'.is_valid /\ pc' = next_ifid'.predicted_pc
          /\ Straight(Decode[next_ifid.inst], next_ifid)'
    <3> SUFFICES ASSUME ~need_flush_ifid
                 PROVE  /\ next_ifid'.is_valid /\ pc' = next_ifid'.predicted_pc
                        /\ Straight(Decode[next_ifid.inst], next_ifid)'
      OBVIOUS
    <3> DEFINE inst == read_u32_direct(mem, pc)
    <3>1. /\ next_ifid'.is_valid /\ next_ifid'.curr_pc = pc /\ next_ifid'.inst = inst
          /\ next_ifid'.predicted_pc = NextFetch(inst) /\ pc' = NextFetch(inst)
      BY <1>5 DEF if_stage, IfFlushed, IfFetch
    <3>2. Decode[inst].opcode # "BJMP" => NextFetch(inst) = Plus(pc, 1)
      BY DEF NextFetch
    <3> HIDE DEF inst
    <3> QED
      BY <3>1, <3>2 DEF Straight
  <2> QED
    BY <2>1, <2>2, <2>3 DEF Latest, BeforeEx, flush
<1>6. CASE Clock
  <2>1. stage' \in {"host", "loop"} /\ need_flush_ifid' = FALSE /\ need_flush_idex' = FALSE
    BY <1>6 DEF Clock
  <2> QED
    BY <2>1 DEF Latest, BeforeEx
<1>7. CASE UNCHANGED vars
  BY <1>7 DEF vars, pipe, flush, Latest, Snapshot, Straight, ReadReg
<1> QED
  BY <1>1, <1>2, <1>3, <1>4, <1>5, <1>6, <1>7 DEF Next, Thread, Waiting, handle_interrupt

(* No step but reset() moves the program behind the newest instruction. *)
LEMMA NewestNext ==
  ASSUME TypeOK, Latest, Newest, ~Disturbs, [Next]_vars PROVE Newest'
<1>1. CASE Waiting
  <2>1. pc' = pc
    BY <1>1, Waits DEF Disturbs
  <2> QED
    BY <1>1, <2>1, Waits DEF Newest, BeforeEx, flush, Straight
<1>2. CASE IntAccept \/ HandleInterrupt
  BY <1>2, Empties DEF Newest, BeforeEx
<1>3. CASE ex_stage
  BY <1>3, ExMoves DEF Newest, Latest, BeforeEx, flush, Straight
<1>4. CASE id_stage
  <2>1. stage = "id" /\ stage' = "if" /\ UNCHANGED <<pc, flush>>
    BY <1>4 DEF id_stage, IdBubble, IdDecode
  <2>2. CASE IdBubble
    <3>1. ~next_idex'.is_valid
      BY <2>2 DEF IdBubble, TypeOK, IdEx
    <3> QED
      BY <2>1, <3>1 DEF Newest, BeforeEx
  <2>3. CASE IdDecode
    <3>1. /\ ifid.is_valid /\ next_idex'.curr_pc = ifid.curr_pc
          /\ next_idex'.predicted_pc = ifid.predicted_pc /\ next_idex'.d = Decode[ifid.inst]
      BY <2>3 DEF IdDecode
    <3> QED
      BY <2>1, <3>1 DEF Newest, BeforeEx, Straight, flush
  <2> QED
    BY <1>4, <2>2, <2>3 DEF id_stage
<1>5. CASE if_stage
  <2>1. /\ stage = "if" /\ stage' = "clock" /\ next_idex' = next_idex /\ UNCHANGED flush
    BY <1>5 DEF if_stage, IfFlushed, IfFetch, pipe
  <2>2. Latest'
    BY LatestNext
  <2>3. ~need_flush_ifid => next_ifid'.curr_pc = pc
    BY <1>5 DEF if_stage, IfFlushed, IfFetch
  <2> QED
    BY <2>1, <2>2, <2>3 DEF Newest, Latest, BeforeEx, flush, Straight
<1>6. CASE Clock
  <2>1. /\ stage = "clock" /\ stage' \in {"host", "loop"} /\ pc' = pc
        /\ need_flush_ifid' = FALSE /\ ifid' = Flushed(next_ifid, need_flush_ifid)
    BY <1>6 DEF Clock
  <2>2. CASE need_flush_ifid
    <3>1. ~ifid'.is_valid
      BY <2>1, <2>2 DEF Flushed, TypeOK, IfId
    <3> QED
      BY <2>1, <3>1 DEF Newest, BeforeEx
  <2>3. CASE ~need_flush_ifid
    <3>1. ifid' = next_ifid
      BY <2>1, <2>3 DEF Flushed
    <3> QED
      BY <2>1, <2>3, <3>1 DEF Newest, BeforeEx, Straight
  <2> QED
    BY <2>2, <2>3
<1>7. CASE UNCHANGED vars
  BY <1>7 DEF vars, pipe, flush, Newest, Straight
<1> QED
  BY <1>1, <1>2, <1>3, <1>4, <1>5, <1>6, <1>7 DEF Next, Thread, Waiting, handle_interrupt

(* The exchange hands the fresh copies on, and the chain if it has begun. *)
LEMMA ClockRepairs ==
  ASSUME TypeOK, Latest, Clock PROVE Operands' /\ Newest' /\ (Newest => Chain')
<1>1. /\ stage = "clock" /\ stage' \in {"host", "loop"} /\ pc' = pc /\ registers' = registers
      /\ need_flush_ifid' = FALSE /\ need_flush_idex' = FALSE
      /\ ifid' = Flushed(next_ifid, need_flush_ifid)
      /\ idex' = Flushed(next_idex, need_flush_idex) /\ need_flush_idex = need_flush_ifid
  BY DEF Clock, Latest
<1>2. Operands'
  <2>1. idex'.is_valid => idex' = next_idex /\ next_idex.is_valid
    BY <1>1 DEF Flushed, TypeOK, IdEx
  <2>2. idex'.is_valid => Snapshot(idex)'
    BY <1>1, <2>1 DEF Latest, Snapshot, ReadReg
  <2> QED
    BY <1>1, <2>2 DEF Operands
<1>3. CASE need_flush_ifid
  <2>1. ~ifid'.is_valid /\ ~idex'.is_valid
    BY <1>1, <1>3 DEF Flushed, TypeOK, IfId, IdEx
  <2> QED
    BY <1>1, <1>2, <2>1 DEF Newest, Chain, BeforeEx
<1>4. CASE ~need_flush_ifid
  <2>1. ifid' = next_ifid /\ idex' = next_idex
    BY <1>1, <1>4 DEF Flushed
  <2>2. Newest'
    BY <1>1, <1>4, <2>1 DEF Latest, Newest, BeforeEx, Straight
  <2>3. Newest => Chain'
    BY <1>1, <1>4, <2>1, <2>2 DEF Newest, Chain, BeforeEx, Straight
  <2> QED
    BY <1>2, <2>2, <2>3
<1> QED
  BY <1>3, <1>4

(* Only the exchange takes place at its stage. *)
LEMMA OnlyClock == ASSUME Next, stage = "clock" PROVE Clock
  BY ExMoves, Waits
     DEF Next, Thread, Waiting, handle_interrupt, IntAccept, HandleInterrupt, Calls, id_stage,
         IdBubble, IdDecode, if_stage, IfFlushed, IfFetch, BeforeEx

(* For every program and every host, whatever it calls between whichever   *)
(* steps: one step after the last call of set_register or reset() the      *)
(* operands are right again, two steps after it the control flow is.       *)
THEOREM Recovery == Spec => Recovers
<1>1. Init => Latest
  BY DEF Init, Latest, BeforeEx
<1>2. TypeOK /\ Latest /\ [Next]_vars => Latest'
  BY LatestNext
<1>3. TypeOK /\ Latest /\ [Next]_vars => [RecoverStep]_vars
  <2> SUFFICES ASSUME TypeOK, Latest, Next, ~UNCHANGED vars PROVE RecoverStep
    OBVIOUS
  <2>1. stage = "clock" => Operands' /\ Newest' /\ (Newest => Chain')
    BY OnlyClock, ClockRepairs
  <2>2. ~Disturbs /\ Operands => Operands'
    BY OperandsNext
  <2>3. ~Disturbs /\ Newest => Newest'
    BY NewestNext
  <2>4. ~Disturbs /\ Operands /\ Chain => Chain' /\ [ControlFlowStep]_vars
    BY ControlNext
  <2> QED
    BY <2>1, <2>2, <2>3, <2>4 DEF RecoverStep
<1>4. Spec => [][RecoverStep]_vars
  BY <1>1, <1>2, <1>3, TypeCorrect, PTL DEF Spec
<1> QED
  BY <1>4 DEF Recovers
=============================================================================
