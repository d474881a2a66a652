----------------------------- MODULE CpuProofs -----------------------------
(***************************************************************************)
(* Type correctness of the pipelined processor, for every width, memory    *)
(* size, number of registers and of interrupt lines, every program and     *)
(* whatever the host calls.                                                *)
(***************************************************************************)
EXTENDS Cpu, MachineProofs, TLAPS

(* The pipeline registers of a new processor (pipeline.hpp). *)
LEMMA ZeroPipeline == ZeroIfId \in IfId /\ ZeroIdEx \in IdEx /\ ZeroExWb \in ExWb
<1>1. 0 \in Word /\ 0 \in Reg
  BY ZeroWord, MachineAssumption DEF Reg
<1>2. NoFlags \in Flags
  BY DEF NoFlags, Flags
<1>3. "ADD" \in Opcode /\ "EPC" \in Csr /\ "EQ" \in Cond
  BY DEF Opcode, AluOp, Csr, Cond
<1>4. ZeroInstruction \in Instruction
  BY <1>1, <1>3 DEF ZeroInstruction, Instruction
<1> QED
  BY <1>1, <1>2, <1>3, <1>4 DEF ZeroIfId, IfId, ZeroIdEx, IdEx, ZeroExWb, ExWb

(* Memory stays memory when load_program has written to it. *)
LEMMA LoadedType ==
  \A m \in Memory, p \in Program, start_addr \in Word : Loaded(m, p, start_addr) \in Memory
<1> SUFFICES ASSUME NEW m \in Memory, NEW p \in Program, NEW start_addr \in Word
             PROVE  Loaded(m, p, start_addr) \in Memory
  OBVIOUS
<1> DEFINE at(a) == Minus(a, start_addr)
           data  == [a \in Addr |-> IF at(a) < Len(p) THEN p[at(a) + 1] ELSE m.data[a]]
<1>1. p \in [1 .. Len(p) -> Word] /\ Len(p) \in Nat
  BY CpuAssumption, LenProperties
<1>2. \A a \in Addr : at(a) \in Nat /\ (at(a) < Len(p) => at(a) + 1 \in 1 .. Len(p))
  <2> SUFFICES ASSUME NEW a \in Addr
               PROVE  at(a) \in Nat /\ (at(a) < Len(p) => at(a) + 1 \in 1 .. Len(p))
    OBVIOUS
  <2>1. at(a) \in Nat
    BY PlusType, AddrType, ZeroWord, WordInt
  <2> HIDE DEF at
  <2> QED
    BY <1>1, <2>1
<1> HIDE DEF at
<1>3. data \in [Addr -> Word]
  BY <1>1, <1>2 DEF Memory
<1> QED
  BY <1>3, MemoryFields DEF Loaded, at

(* The constructor leaves every member in its type. *)
LEMMA TypeInit == Init => TypeOK
<1> SUFFICES ASSUME Init PROVE TypeOK
  OBVIOUS
<1>1. registers \in RegFile /\ csr \in CsrFile /\ f \in Flags /\ pc \in Word
  BY ZeroType, ZeroWord DEF Init, NoFlags, Flags
<1>2. mem \in Memory
  BY ResetType, LoadedType, ZeroWord DEF Init
<1>3. branch_pred \in Table
  BY DEF Init, InitialTable, Table, Counter, INITIAL_STATE
<1>4. mem_history \in [Slot -> MemWrite]
  <2>1. NoWrite \in MemWrite
    BY ZeroWord DEF NoWrite, MemWrite
  <2>2. RESIDUE \union {NoWrite} \subseteq MemWrite
    BY <2>1, CpuAssumption
  <2>3. mem_history \in [Slot -> RESIDUE \union {NoWrite}]
    BY DEF Init
  <2> QED
    BY <2>2, <2>3
<1>5. /\ ifid \in IfId /\ idex \in IdEx /\ exwb \in ExWb
      /\ next_ifid \in IfId /\ next_idex \in IdEx /\ next_exwb \in ExWb
  BY ZeroPipeline DEF Init
<1> QED
  BY <1>1, <1>2, <1>3, <1>4, <1>5 DEF Init, TypeOK, Stage

---------------------------------------------------------------------------
(* What the stages compute *)

(* Clearing the valid bit of a pipeline register. *)
LEMMA Invalidated ==
  /\ \A r \in IfId : [r EXCEPT !.is_valid = FALSE] \in IfId
  /\ \A r \in IdEx : [r EXCEPT !.is_valid = FALSE] \in IdEx
  /\ \A r \in ExWb : [r EXCEPT !.is_valid = FALSE] \in ExWb
  BY DEF IfId, IdEx, ExWb

(* What ex_stage takes as operands and flags. *)
LEMMA OperandType ==
  ASSUME TypeOK
  PROVE  /\ rs1_val \in Word /\ rs2_val \in Word /\ rd_val \in Word
         /\ AluLeft \in Word /\ AluRight \in Word /\ current_flags \in Flags
<1>1. /\ idex.v_rs1 \in Word /\ idex.v_rs2 \in Word /\ idex.curr_v_rd \in Word
      /\ idex.d \in Instruction
  BY DEF TypeOK, IdEx
<1>2. exwb.mem_read_data \in Word /\ exwb.alu_result \in Word /\ exwb.f \in Flags
  BY DEF TypeOK, ExWb
<1>3. rs1_val \in Word /\ rs2_val \in Word /\ rd_val \in Word
  BY <1>1, <1>2 DEF rs1_val, rs2_val, rd_val, get_forwarded_value
<1>4. idex.d.imm \in Word
  BY <1>1 DEF Instruction
<1> QED
  BY <1>2, <1>3, <1>4 DEF AluLeft, AluRight, current_flags, TypeOK

(* The fields ex_stage sets before its switch. *)
LEMMA PassedType == ASSUME TypeOK, NEW b \in BOOLEAN PROVE Passed(b) \in ExWb
<1>1. idex.d.opcode \in Opcode /\ idex.d.rd \in Reg
  BY DEF TypeOK, IdEx, Instruction
<1>2. idex.reg_write \in BOOLEAN /\ idex.mem_read \in BOOLEAN /\ idex.mem_write \in BOOLEAN
  BY DEF TypeOK, IdEx
<1> QED
  BY <1>1, <1>2 DEF TypeOK, Passed, ExWb

(* What ex_stage passes to wb_stage. *)
LEMMA ResultType == ASSUME TypeOK, NEW v \in Word PROVE Result(v) \in ExWb
<1>1. idex.d.rd \in Reg
  BY DEF TypeOK, IdEx, Instruction
<1>2. Passed(TRUE) \in ExWb
  BY PassedType
<1> QED
  BY <1>1, <1>2 DEF Result, ExWb

(* Adding flags, an address, data to what is passed on. *)
LEMMA ExWbFields ==
  ASSUME NEW e \in ExWb, NEW fl \in Flags, NEW a \in Word, NEW v \in Word, NEW r \in Reg,
         NEW b \in BOOLEAN
  PROVE  /\ [e EXCEPT !.f = fl, !.flags_write = TRUE] \in ExWb
         /\ [e EXCEPT !.mem_addr = a, !.n_rd = r, !.mem_read = TRUE, !.mem_u8 = b] \in ExWb
         /\ [e EXCEPT !.mem_addr = a, !.w_data = v, !.mem_write = TRUE, !.mem_u8 = b] \in ExWb
         /\ [e EXCEPT !.reg_write = TRUE] \in ExWb
         /\ [e EXCEPT !.mem_read_data = v] \in ExWb
  BY DEF ExWb

(* The history lookup finds the first of the entries for an address. *)
LEMMA HitInHits == \A a : Hits(a) # {} => Hit(a) \in Hits(a)
<1> SUFFICES ASSUME NEW a, Hits(a) # {} PROVE Hit(a) \in Hits(a)
  OBVIOUS
<1>1. Hits(a) \subseteq Nat
  BY CpuAssumption DEF Hits, Slot
<1>2. \E i \in Hits(a) : \A j \in Hits(a) : i <= j
  BY <1>1, LeastOf
<1> QED
  BY <1>2 DEF Hit

(* What wb_stage loads, from the history or from memory. *)
LEMMA LoadValueType == ASSUME TypeOK, NEW e \in ExWb PROVE LoadValue(e) \in Word
<1>1. e.mem_addr \in Word
  BY DEF ExWb
<1>2. CASE Hits(e.mem_addr) = {}
  BY <1>1, <1>2, AccessType, ZeroWord DEF LoadValue, TypeOK
<1>3. CASE Hits(e.mem_addr) # {}
  <2>1. Hit(e.mem_addr) \in Slot
    BY <1>3, HitInHits DEF Hits
  <2>2. mem_history[Hit(e.mem_addr)].data \in Word
    BY <2>1 DEF TypeOK, MemWrite
  <2> QED
    BY <1>3, <2>2 DEF LoadValue
<1> QED
  BY <1>2, <1>3

---------------------------------------------------------------------------
(* Each stage keeps the types *)

(* One lemma for each member function that step() calls: update_timer, *)
LEMMA TypeTimer == TypeOK /\ update_timer => TypeOK'
<1> SUFFICES ASSUME TypeOK, update_timer PROVE TypeOK'
  OBVIOUS
<1>1. TimerFrame /\ csr' \in CsrFile
  BY TickedType DEF TypeOK, update_timer, TimerOff, TimerOn
<1> QED
  BY <1>1 DEF TypeOK, TimerFrame, Stage, debug, pipe, flush

(* wb_stage, *)
LEMMA TypeWb == TypeOK /\ wb_stage => TypeOK'
<1> SUFFICES ASSUME TypeOK, wb_stage PROVE TypeOK'
  OBVIOUS
<1>1. CASE WbBubble
  BY <1>1 DEF WbBubble, TypeOK, Stage, debug, pipe, flush
<1>2. CASE WbRetire
  <2>1. LoadValue(exwb) \in Word /\ exwb \in ExWb
    BY LoadValueType DEF TypeOK
  <2>2. /\ exwb.mem_addr \in Word /\ exwb.w_data \in Word /\ exwb.alu_result \in Word
        /\ exwb.n_rd \in Reg /\ exwb.f \in Flags
    BY <2>1 DEF ExWb
  <2>3. registers' \in RegFile
    BY <1>2, <2>1, <2>2, WriteType DEF WbRetire, RegsAfter, TypeOK
  <2>4. exwb' \in ExWb
    BY <1>2, <2>1 DEF WbRetire, ExWb
  <2>5. mem' \in Memory
    <3>1. after_read_u32(mem, exwb.mem_addr) \in Memory
      BY <2>2, AccessType DEF TypeOK
    <3>2. \A m \in Memory : /\ write_u8(m, exwb.mem_addr, exwb.w_data) \in Memory
                            /\ write_u32(m, exwb.mem_addr, exwb.w_data) \in Memory
      BY <2>2, AccessType
    <3> QED
      BY <1>2, <3>1, <3>2 DEF WbRetire, MemAfter, TypeOK
  <2>6. mem_history' \in [Slot -> MemWrite]
    <3>1. CASE ~exwb.mem_write
      BY <1>2, <3>1 DEF WbRetire, TypeOK
    <3>2. CASE exwb.mem_write /\ Hits(exwb.mem_addr) # {}
      BY <1>2, <2>2, <3>2 DEF WbRetire, Recorded, TypeOK, MemWrite
    <3>3. CASE exwb.mem_write /\ Hits(exwb.mem_addr) = {}
      <4>1. \A i \in Slot : i # 0 => i - 1 \in Slot
        BY CpuAssumption DEF Slot
      <4>2. [valid |-> TRUE, addr |-> exwb.mem_addr, data |-> exwb.w_data] \in MemWrite
        BY <2>2 DEF MemWrite
      <4> QED
        BY <1>2, <3>3, <4>1, <4>2 DEF WbRetire, Recorded, TypeOK
    <3> QED
      BY <3>1, <3>2, <3>3
  <2>7. halted' \in BOOLEAN /\ f' \in Flags
    BY <1>2, <2>2 DEF WbRetire, HaltedAfter, FlagsAfter, TypeOK
  <2> QED
    BY <1>2, <2>3, <2>4, <2>5, <2>6, <2>7 DEF WbRetire, TypeOK, Stage, debug, flush
<1> QED
  BY <1>1, <1>2 DEF wb_stage

(* an accepted interrupt, in a step or between two, *)
LEMMA TypeAccept == ASSUME TypeOK, AcceptInterrupt, stage' \in Stage PROVE TypeOK'
<1> DEFINE code == IrqCode(csr)
           entered == WithFrame(EnterHandler(csr, f, ReturnPc, code))
<1>1. code \in Int /\ Vector(csr, code) \in Word
  BY IrqCodeType, VectorType, MachineAssumption DEF TypeOK
<1>2. ReturnPc \in Word
  BY DEF ReturnPc, TypeOK, IdEx, IfId
<1>3. entered \in CsrFile
  BY <1>2, EnterHandlerType, FrameType DEF TypeOK
<1>4. csr' \in CsrFile
  <2>1. \A c \in CsrFile : [c EXCEPT !.IPENDING = Clear(@, code)] \in CsrFile
    BY RaiseType DEF CsrFile
  <2> QED
    BY <1>3, <2>1 DEF AcceptInterrupt
<1>5. mem' \in Memory
  <2>1. after_read_u32(mem, Vector(csr, code)) \in Memory /\ csr.SP \in Word
    BY <1>1, AccessType DEF TypeOK, CsrFile, Csr
  <2> QED
    BY <2>1, SaveType DEF AcceptInterrupt, TypeOK
<1>6. pc' \in Word
  BY <1>1, AccessType DEF AcceptInterrupt, HandlerAddr, TypeOK
<1>7. idex' \in IdEx /\ ifid' \in IfId
  BY Invalidated DEF AcceptInterrupt, TypeOK
<1> QED
  BY <1>4, <1>5, <1>6, <1>7 DEF AcceptInterrupt, TypeOK, debug, flush

(* handle_interrupt, *)
LEMMA TypeInt == TypeOK /\ handle_interrupt => TypeOK'
<1> SUFFICES ASSUME TypeOK, handle_interrupt PROVE TypeOK'
  OBVIOUS
<1>1. CASE IntNone
  BY <1>1 DEF IntNone, TypeOK, Stage, debug, pipe, flush
<1>2. CASE IntAccept
  BY <1>2, TypeAccept DEF IntAccept, Stage
<1> QED
  BY <1>1, <1>2 DEF handle_interrupt

(* id_stage, *)
LEMMA TypeId == TypeOK /\ id_stage => TypeOK'
<1> SUFFICES ASSUME TypeOK, id_stage PROVE TypeOK'
  OBVIOUS
<1>1. CASE IdBubble
  BY <1>1, Invalidated DEF IdBubble, TypeOK, Stage, debug, flush
<1>2. CASE IdDecode
  <2> DEFINE d == Decode[ifid.inst]
  <2>1. ifid.inst \in Word /\ ifid.curr_pc \in Word /\ ifid.predicted_pc \in Word
    BY DEF TypeOK, IfId
  <2>2. d \in Instruction
    BY <2>1, DecodeType
  <2>3. d.rs1 \in Reg /\ d.rs2 \in Reg /\ d.rd \in Reg
    BY <2>2 DEF Instruction
  <2>4. ReadReg(d.rs1) \in Word /\ ReadReg(d.rs2) \in Word /\ ReadReg(d.rd) \in Word
    BY <2>3, ReadType DEF ReadReg, TypeOK
  <2> HIDE DEF d
  <2>5. [d |-> d, v_rs1 |-> ReadReg(d.rs1), v_rs2 |-> ReadReg(d.rs2),
         curr_v_rd |-> ReadReg(d.rd), reg_write |-> d.opcode \in WritesReg,
         mem_read |-> d.opcode \in ReadsMem, mem_write |-> d.opcode \in WritesMem,
         curr_pc |-> ifid.curr_pc, predicted_pc |-> ifid.predicted_pc,
         is_valid |-> TRUE] \in IdEx
    BY <2>1, <2>2, <2>4 DEF IdEx
  <2>6. next_idex' \in IdEx
    BY <1>2, <2>5 DEF IdDecode, d
  <2> QED
    BY <1>2, <2>6 DEF IdDecode, TypeOK, Stage, debug, flush
<1> QED
  BY <1>1, <1>2 DEF id_stage

(* if_stage, *)
LEMMA TypeIf == TypeOK /\ if_stage => TypeOK'
<1> SUFFICES ASSUME TypeOK, if_stage PROVE TypeOK'
  OBVIOUS
<1>1. CASE IfFlushed
  BY <1>1 DEF IfFlushed, TypeOK, Stage, debug, pipe, flush
<1>2. CASE IfFetch
  <2> DEFINE inst == read_u32_direct(mem, pc)
  <2>1. inst \in Word /\ pc \in Word
    BY DirectType, ZeroWord DEF TypeOK
  <2>2. Decode[inst].imm \in Word
    BY <2>1, DecodeType DEF Instruction
  <2>3. \A i \in Word : Plus(pc, i) \in Word
    BY <2>1, PlusWord, ZeroWord
  <2>4. Plus(pc, 1) \in Word
    BY <2>1, PlusWord
  <2>5. NextFetch(inst) \in Word
    BY <2>2, <2>3, <2>4 DEF NextFetch
  <2> HIDE DEF inst
  <2>6. [inst |-> inst, curr_pc |-> pc, predicted_pc |-> NextFetch(inst),
         is_valid |-> TRUE] \in IfId
    BY <2>1, <2>5 DEF IfId
  <2>7. next_ifid' \in IfId /\ pc' \in Word
    BY <1>2, <2>5, <2>6 DEF IfFetch, inst
  <2> QED
    BY <1>2, <2>7 DEF IfFetch, TypeOK, Stage, debug, flush
<1> QED
  BY <1>1, <1>2 DEF if_stage

(* and the exchange of the pipeline's two copies. *)
LEMMA TypeClock == TypeOK /\ Clock => TypeOK'
<1> SUFFICES ASSUME TypeOK, Clock PROVE TypeOK'
  OBVIOUS
<1>1. ifid' \in IfId /\ idex' \in IdEx
  BY Invalidated DEF Clock, Flushed, TypeOK
<1> QED
  BY <1>1 DEF Clock, has_breakpoint, TypeOK, Stage

---------------------------------------------------------------------------
(* The execute stage *)

(* What is left to show of a case of the switch: the registers it writes. *)
LEMMA ExecutesType ==
  ASSUME TypeOK, NEW ops, Executes(ops),
         registers' \in RegFile, csr' \in CsrFile, f' \in Flags, mem' \in Memory,
         pc' \in Word, next_exwb' \in ExWb,
         need_flush_ifid' \in BOOLEAN, need_flush_idex' \in BOOLEAN
  PROVE  TypeOK'
  BY DEF Executes, TypeOK, Stage, debug

(* A case of ex_stage that does no more than pass something on. *)
LEMMA PassesType ==
  ASSUME TypeOK, NEW ops, Executes(ops), NEW e \in ExWb, Passes(e)
  PROVE  TypeOK'
<1>1. /\ registers' = registers /\ csr' = csr /\ f' = f /\ mem' = mem /\ pc' = pc
      /\ need_flush_ifid' = need_flush_ifid /\ need_flush_idex' = need_flush_idex
      /\ next_exwb' = e
  BY DEF Passes, GoOn, flush
<1>2. /\ registers' \in RegFile /\ csr' \in CsrFile /\ f' \in Flags /\ mem' \in Memory
      /\ pc' \in Word /\ next_exwb' \in ExWb
      /\ need_flush_ifid' \in BOOLEAN /\ need_flush_idex' \in BOOLEAN
  BY <1>1 DEF TypeOK
<1> QED
  BY <1>2, ExecutesType

(* The operands of the current instruction and the places it addresses. *)
LEMMA AddressType ==
  ASSUME TypeOK
  PROVE  /\ idex.d \in Instruction /\ idex.d.imm \in Word /\ idex.d.csr \in Csr
         /\ idex.d.rd \in Reg /\ csr.SP \in Word /\ csr.SCRATCH \in Word
         /\ csr.EPC \in Word /\ csr.STATUS \in Word
         /\ ReturnAddr \in Word /\ PushSp \in Word /\ PopSp \in Word
         /\ DataAddr \in Word /\ UpperImm \in Word /\ RelTarget \in Word
         /\ Plus(rd_val, UpperImm) \in Word
<1>1. idex.d \in Instruction /\ idex.curr_pc \in Word
  BY DEF TypeOK, IdEx
<1>2. /\ csr.SP \in Word /\ csr.SCRATCH \in Word /\ csr.EPC \in Word /\ csr.STATUS \in Word
  BY DEF TypeOK, CsrFile, Csr
<1>3. idex.d.imm \in Word /\ idex.d.csr \in Csr /\ idex.d.rd \in Reg
  BY <1>1 DEF Instruction
<1>4. \A i \in Word : i \in Int
  BY WordInt
<1>5. ReturnAddr \in Word /\ PushSp \in Word /\ PopSp \in Word
  BY <1>1, <1>2, PlusWord DEF ReturnAddr, PushSp, PopSp
<1>6. DataAddr \in Word /\ RelTarget \in Word
  BY <1>1, <1>3, <1>4, OperandType, PlusWord DEF DataAddr, RelTarget
<1>7. UpperImm \in Word
  <2>1. 2^UPPER_LSB \in Int
    BY WidthAssumption, MachineAssumption
  <2> QED
    BY <1>3, <1>4, <2>1, WrapType DEF UpperImm
<1>8. Plus(rd_val, UpperImm) \in Word
  BY <1>4, <1>7, OperandType, PlusWord
<1> QED
  BY <1>1, <1>2, <1>3, <1>5, <1>6, <1>7, <1>8

(* A jump gives pc a word and asks for flushes. *)
LEMMA JumpType ==
  ASSUME NEW target \in Word, Jump(target)
  PROVE  pc' \in Word /\ need_flush_ifid' \in BOOLEAN /\ need_flush_idex' \in BOOLEAN
  BY DEF Jump

(* So does going on, with or without a flush. *)
LEMMA GoOnType ==
  ASSUME TypeOK, GoOn
  PROVE  pc' \in Word /\ need_flush_ifid' \in BOOLEAN /\ need_flush_idex' \in BOOLEAN
  BY DEF GoOn, TypeOK, flush

(* Going to the handler of a code. *)
LEMMA HandlerType ==
  ASSUME TypeOK, NEW code \in Int
  PROVE  /\ HandlerAddr(code) \in Word
         /\ after_read_u32(mem, Vector(csr, code)) \in Memory
         /\ SaveRegisters(after_read_u32(mem, Vector(csr, code)), csr.SP, registers) \in Memory
         /\ EnterHandler(csr, f, ReturnAddr, code) \in CsrFile
         /\ WithFrame(EnterHandler(csr, f, ReturnAddr, code)) \in CsrFile
<1>1. Vector(csr, code) \in Word
  BY VectorType DEF TypeOK
<1>2. HandlerAddr(code) \in Word /\ after_read_u32(mem, Vector(csr, code)) \in Memory
  BY <1>1, AccessType DEF HandlerAddr, TypeOK
<1>3. EnterHandler(csr, f, ReturnAddr, code) \in CsrFile
  BY AddressType, EnterHandlerType DEF TypeOK
<1>4. SaveRegisters(after_read_u32(mem, Vector(csr, code)), csr.SP, registers) \in Memory
  BY <1>2, AddressType, SaveType DEF TypeOK
<1> QED
  BY <1>2, <1>3, <1>4, FrameType

(* The cases that only pass a result on. *)
LEMMA TypePassing ==
  ASSUME TypeOK,
         \/ ExAlu \/ ExCmp \/ ExMov \/ ExLui \/ ExAui \/ ExLoadi \/ ExNop \/ ExLoad
         \/ ExStore \/ ExCsrr \/ ExInvalid
  PROVE  TypeOK'
<1>1. CASE ExAlu
  <2> DEFINE result == AluResult(idex.d.opcode, AluLeft, AluRight)
             flags  == AluFlags(idex.d.opcode, result, AluLeft, AluRight)
  <2>1. idex.d.opcode \in AluOp
    BY <1>1 DEF ExAlu, Executes
  <2>2. result \in Word
    BY <2>1, OperandType, AluResultType
  <2>3. flags \in Flags
    BY <2>1, <2>2, OperandType, AluFlagsType
  <2>4. [Result(result) EXCEPT !.f = flags, !.flags_write = TRUE] \in ExWb
    <3>1. Result(result) \in ExWb
      BY <2>2, ResultType
    <3> HIDE DEF result, flags
    <3> QED
      BY <2>3, <3>1 DEF ExWb
  <2> QED
    BY <1>1, <2>4, PassesType DEF ExAlu
<1>2. CASE ExCmp
  <2> DEFINE flags == update_flags_sub(Minus(rs1_val, AluRight), rs1_val, AluRight)
  <2>1. Minus(rs1_val, AluRight) \in Word
    BY OperandType, PlusWord, WordInt
  <2>2. flags \in Flags
    BY <2>1, OperandType, FlagsType
  <2>3. [Passed(TRUE) EXCEPT !.f = flags, !.flags_write = TRUE] \in ExWb
    BY <2>1, <2>2, PassedType, ExWbFields, AddressType
  <2> QED
    BY <1>2, <2>3, PassesType DEF ExCmp
<1>3. CASE ExMov
  BY <1>3, OperandType, ResultType, PassesType DEF ExMov
<1>4. CASE ExLui
  BY <1>4, AddressType, ResultType, PassesType DEF ExLui
<1>5. CASE ExAui
  BY <1>5, AddressType, ResultType, PassesType DEF ExAui
<1>6. CASE ExLoadi
  BY <1>6, AddressType, ResultType, PassesType DEF ExLoadi
<1>7. CASE ExNop
  BY <1>7, PassedType, PassesType DEF ExNop
<1>8. CASE ExLoad
  <2>1. [Passed(TRUE) EXCEPT !.mem_addr = DataAddr, !.n_rd = idex.d.rd, !.mem_read = TRUE,
                             !.mem_u8 = idex.d.opcode = "LOADB"] \in ExWb
    BY AddressType, PassedType, ExWbFields, OperandType
  <2> QED
    BY <1>8, <2>1, PassesType DEF ExLoad
<1>9. CASE ExStore
  <2> DEFINE byte == idex.d.opcode = "STOREB"
             data == IF byte THEN Low(rd_val) ELSE rd_val
  <2>1. data \in Word
    BY OperandType, LowType
  <2>2. [Passed(TRUE) EXCEPT !.mem_addr = DataAddr, !.w_data = data, !.mem_write = TRUE,
                             !.mem_u8 = byte] \in ExWb
    BY <2>1, AddressType, PassedType, ExWbFields, OperandType
  <2> QED
    BY <1>9, <2>2, PassesType DEF ExStore
<1>10. CASE ExCsrr
  <2>1. csr[idex.d.csr] \in Word
    BY AddressType DEF TypeOK, CsrFile
  <2> QED
    BY <1>10, <2>1, ResultType, PassesType DEF ExCsrr
<1>11. CASE ExInvalid
  BY <1>11, PassedType, PassesType DEF ExInvalid
<1> QED
  BY <1>1, <1>2, <1>3, <1>4, <1>5, <1>6, <1>7, <1>8, <1>9, <1>10, <1>11

(* ex_stage, case by case. *)
LEMMA TypeEx == TypeOK /\ ex_stage => TypeOK'
<1> SUFFICES ASSUME TypeOK, ex_stage PROVE TypeOK'
  OBVIOUS
<1>0. /\ registers \in RegFile /\ csr \in CsrFile /\ f \in Flags /\ mem \in Memory
      /\ Passed(TRUE) \in ExWb /\ Passed(FALSE) \in ExWb
  BY PassedType DEF TypeOK
<1>1. CASE ExBubble
  BY <1>1, Invalidated DEF ExBubble, TypeOK, Stage, debug, flush
<1>2. CASE ExDivTrap
  BY <1>2 DEF ExDivTrap, TypeOK, Stage, debug, pipe, flush
<1>3. CASE ExAlu \/ ExCmp \/ ExMov \/ ExLui \/ ExAui \/ ExLoadi \/ ExNop \/ ExLoad
           \/ ExStore \/ ExCsrr \/ ExInvalid
  BY <1>3, TypePassing
<1>4. CASE ExJmp
  BY <1>0, <1>4, AddressType, JumpType, ExecutesType DEF ExJmp
<1>5. CASE ExBjmp
  <2> DEFINE next == IF Taken(idex.d.cond, current_flags) THEN RelTarget ELSE ReturnAddr
  <2>1. next \in Word
    BY AddressType
  <2>2. pc' \in Word /\ need_flush_ifid' \in BOOLEAN /\ need_flush_idex' \in BOOLEAN
    BY <1>5, <2>1, JumpType, GoOnType DEF ExBjmp
  <2> QED
    BY <1>0, <1>5, <2>2, ExecutesType DEF ExBjmp
<1>6. CASE ExCall
  <2>1. mem' \in Memory
    BY <1>0, <1>6, AddressType, AccessType DEF ExCall
  <2>2. csr' \in CsrFile
    BY <1>0, <1>6, AddressType DEF ExCall, CsrFile
  <2>3. pc' \in Word /\ need_flush_ifid' \in BOOLEAN /\ need_flush_idex' \in BOOLEAN
    BY <1>6, AddressType, OperandType, JumpType DEF ExCall
  <2> QED
    BY <1>0, <1>6, <2>1, <2>2, <2>3, ExecutesType DEF ExCall
<1>7. CASE ExRet
  <2>1. mem' \in Memory
    BY <1>0, <1>7, AddressType, AccessType DEF ExRet
  <2>2. csr' \in CsrFile
    BY <1>0, <1>7, AddressType DEF ExRet, CsrFile
  <2>3. pc' \in Word /\ need_flush_ifid' \in BOOLEAN /\ need_flush_idex' \in BOOLEAN
    BY <1>0, <1>7, AddressType, AccessType, JumpType DEF ExRet
  <2> QED
    BY <1>0, <1>7, <2>1, <2>2, <2>3, ExecutesType DEF ExRet
<1>8. CASE ExSyscall
  <2>1. SWI \in Int
    BY MachineAssumption
  <2>2. csr' \in CsrFile /\ mem' \in Memory
    BY <1>8, <2>1, HandlerType DEF ExSyscall
  <2>3. pc' \in Word /\ need_flush_ifid' \in BOOLEAN /\ need_flush_idex' \in BOOLEAN
    BY <1>8, <2>1, HandlerType, JumpType DEF ExSyscall
  <2> QED
    BY <1>0, <1>8, <2>2, <2>3, ExecutesType DEF ExSyscall
<1>9. CASE ExTrap
  <2> DEFINE code == idex.d.imm % CODES
  <2>1. code \in Int
    <3>1. idex.d.imm \in Int /\ CODES \in Int /\ CODES > 0
      BY AddressType, MachineAssumption, WordInt
    <3> QED
      BY <3>1
  <2>2. csr' \in CsrFile /\ mem' \in Memory
    BY <1>9, <2>1, HandlerType DEF ExTrap
  <2>3. pc' \in Word /\ need_flush_ifid' \in BOOLEAN /\ need_flush_idex' \in BOOLEAN
    BY <1>9, <2>1, HandlerType, JumpType DEF ExTrap
  <2> QED
    BY <1>0, <1>9, <2>2, <2>3, ExecutesType DEF ExTrap
<1>10. CASE ExIret
  <2>1. registers' \in RegFile
    BY <1>0, <1>10, AddressType, RestoredType DEF ExIret
  <2>2. f' \in Flags
    BY <1>10, FlagBitsType DEF ExIret
  <2>3. csr' \in CsrFile
    <3>1. Plus(csr.SCRATCH, FrameSize) \in Word
      BY AddressType, FrameType, PlusWord
    <3> QED
      BY <1>0, <1>10, <3>1, StatusType DEF ExIret, CsrFile
  <2>4. pc' \in Word /\ need_flush_ifid' \in BOOLEAN /\ need_flush_idex' \in BOOLEAN
    BY <1>10, AddressType, JumpType DEF ExIret
  <2> QED
    BY <1>0, <1>10, <2>1, <2>2, <2>3, <2>4, ExecutesType DEF ExIret
<1>11. CASE ExCsrw
  <2>1. csr' \in CsrFile
    <3>1. \A v \in Word, k \in Csr : [csr EXCEPT ![k] = v] \in CsrFile
      BY <1>0 DEF CsrFile
    <3>2. (IF idex.d.opcode = "CSRW" THEN rs1_val ELSE idex.d.imm) \in Word
      BY AddressType, OperandType
    <3> QED
      BY <1>11, <3>1, <3>2, AddressType DEF ExCsrw
  <2> QED
    BY <1>0, <1>11, <2>1, GoOnType, ExecutesType DEF ExCsrw
<1>12. CASE ExPush
  <2>1. mem' \in Memory
    BY <1>0, <1>12, AddressType, OperandType, AccessType DEF ExPush
  <2>2. csr' \in CsrFile
    BY <1>0, <1>12, AddressType DEF ExPush, CsrFile
  <2> QED
    BY <1>0, <1>12, <2>1, <2>2, GoOnType, ExecutesType DEF ExPush
<1>13. CASE ExPop
  <2>1. mem' \in Memory /\ read_u32(mem, csr.SP) \in Word
    BY <1>0, <1>13, AddressType, AccessType DEF ExPop
  <2>2. csr' \in CsrFile
    BY <1>0, <1>13, AddressType DEF ExPop, CsrFile
  <2>3. next_exwb' \in ExWb
    <3>1. Result(read_u32(mem, csr.SP)) \in ExWb
      BY <2>1, ResultType
    <3> QED
      BY <1>13, <3>1 DEF ExPop, ExWb
  <2> QED
    BY <1>0, <1>13, <2>1, <2>2, <2>3, GoOnType, ExecutesType DEF ExPop
<1> QED
  BY <1>1, <1>2, <1>3, <1>4, <1>5, <1>6, <1>7, <1>8, <1>9, <1>10, <1>11, <1>12, <1>13
     DEF ex_stage

---------------------------------------------------------------------------
(* Between two steps *)

(* A key extends the queue and raises EXT0. *)
LEMMA KeyType ==
  ASSUME TypeOK, NEW k \in Key, KeyArrives(k) PROVE mem' \in Memory /\ csr' \in CsrFile
<1>1. mem' \in Memory
  BY AccessType, ZeroWord, CpuAssumption DEF KeyArrives, TypeOK
<1>2. csr' \in CsrFile
  BY RaiseType, LineBits DEF KeyArrives, trigger_interrupt, TypeOK, CsrFile
<1> QED
  BY <1>1, <1>2

(* The console polled at the beginning of step(). *)
LEMMA TypeStepBegins ==
  ASSUME TypeOK, StepBegins, UNCHANGED <<in_run, paused>> PROVE TypeOK'
<1>1. mem' \in Memory /\ csr' \in CsrFile
  BY KeyType DEF StepBegins, TypeOK
<1> QED
  BY <1>1 DEF StepBegins, TypeOK, Stage, pipe, flush

(* The calls of the host, one by one. *)
LEMMA TypeHost == TypeOK /\ Host => TypeOK'
<1> SUFFICES ASSUME TypeOK, Host PROVE TypeOK'
  OBVIOUS
<1>1. CASE Run
  BY <1>1 DEF Run, TypeOK, Stage, pipe, flush
<1>2. CASE Step
  BY <1>2, TypeStepBegins DEF Step
<1>3. CASE SetIrq
  <2>1. \A i \in 0 .. NIRQ - 1 : Raise(csr.IPENDING, i) \in Word /\ Clear(csr.IPENDING, i) \in Word
    BY RaiseType, LineBits
  <2>2. csr' \in CsrFile
    BY <1>3, <2>1 DEF SetIrq, TypeOK, CsrFile
  <2> QED
    BY <1>3, <2>2 DEF SetIrq, HostFrame, TypeOK, debug, pipe, flush
<1>4. CASE TriggerInterrupt
  <2>1. csr' \in CsrFile
    BY <1>4, RaiseType DEF TriggerInterrupt, trigger_interrupt, TypeOK, CsrFile
  <2> QED
    BY <1>4, <2>1 DEF TriggerInterrupt, HostFrame, TypeOK, debug, pipe, flush
<1>5. CASE PushKey
  <2>1. mem' \in Memory /\ csr' \in CsrFile
    BY <1>5, KeyType DEF PushKey
  <2> QED
    BY <1>5, <2>1 DEF PushKey, HostFrame, TypeOK, debug, pipe, flush
<1>6. CASE Breakpoints
  <2>1. breakpoint' \subseteq Word
    BY <1>6, CpuAssumption DEF Breakpoints, TypeOK
  <2> QED
    BY <1>6, <2>1 DEF Breakpoints, HostFrame, TypeOK, pipe, flush
<1>7. CASE ContinueExecution
  BY <1>7 DEF ContinueExecution, HostFrame, TypeOK, pipe, flush
<1>8. CASE SetRegister
  <2>1. registers' \in RegFile
    BY <1>8, WriteType, CpuAssumption DEF SetRegister, TypeOK
  <2> QED
    BY <1>8, <2>1 DEF SetRegister, HostFrame, TypeOK, debug, pipe, flush
<1>9. CASE SetFlags
  BY <1>9 DEF SetFlags, HostFrame, TypeOK, debug, pipe, flush
<1>10. CASE LoadProgram
  <2>1. mem' \in Memory
    BY <1>10, LoadedType, ZeroWord, CpuAssumption DEF LoadProgram, TypeOK
  <2> QED
    BY <1>10, <2>1 DEF LoadProgram, HostFrame, TypeOK, debug, pipe, flush
<1>11. CASE Reset
  <2>1. /\ registers' \in RegFile /\ csr' \in CsrFile /\ pc' \in Word /\ mem' \in Memory
    BY <1>11, ZeroType, ZeroWord, ResetType DEF Reset, TypeOK
  <2>2. f' \in Flags
    BY <1>11 DEF Reset, NoFlags, Flags
  <2>3. NoWrite \in MemWrite
    BY ZeroWord DEF NoWrite, MemWrite
  <2>4. mem_history' \in [Slot -> MemWrite]
    BY <1>11, <2>3 DEF Reset, TypeOK
  <2> QED
    BY <1>11, <2>1, <2>2, <2>4 DEF Reset, TypeOK, debug, pipe, flush
<1>12. CASE UpdateTimer
  BY <1>12, TickedType DEF UpdateTimer, HostFrame, TypeOK, debug, pipe, flush
<1>13. CASE HandleInterrupt
  BY <1>13, TypeAccept DEF HandleInterrupt, TypeOK
<1>14. CASE GetMemory
  <2>1. mem' \in Memory
    <3>1. VALUES \subseteq Word /\ ADDRESSES \subseteq Word /\ Key \subseteq Word
      BY CpuAssumption
    <3>2. CASE \E a \in ADDRESSES, v \in VALUES :
                 mem' \in {write_u32(mem, a, v), write_u32_direct(mem, a, v), write_u8(mem, a, v)}
      <4>1. PICK a \in ADDRESSES, v \in VALUES :
              mem' \in {write_u32(mem, a, v), write_u32_direct(mem, a, v), write_u8(mem, a, v)}
        BY <3>2
      <4>2. mem \in Memory /\ a \in Word /\ v \in Word
        BY <3>1 DEF TypeOK
      <4> QED
        BY <4>1, <4>2, AccessType
    <3>3. CASE \E a \in ADDRESSES : mem' = after_read_u32(mem, a)
      BY <3>1, <3>3, AccessType, ZeroWord DEF TypeOK
    <3>4. CASE \E k \in Key : Len(mem.keyboard_buffer) < MAX_KEYS /\ mem' = push_key(mem, k)
      BY <3>1, <3>4, AccessType, ZeroWord DEF TypeOK
    <3>5. CASE mem' = reset_memory(mem)
      BY <3>5, ResetType DEF TypeOK
    <3> QED
      BY <1>14, <3>2, <3>3, <3>4, <3>5 DEF GetMemory
  <2> QED
    BY <1>14, <2>1 DEF GetMemory, HostFrame, TypeOK, debug, pipe, flush
<1> QED
  BY <1>1, <1>2, <1>3, <1>4, <1>5, <1>6, <1>7, <1>8, <1>9, <1>10, <1>11, <1>12, <1>13,
     <1>14 DEF Host

(* TypeOK is inductive. *)
LEMMA TypeNext == TypeOK /\ [Next]_vars => TypeOK'
<1> SUFFICES ASSUME TypeOK, [Next]_vars PROVE TypeOK'
  OBVIOUS
<1>1. CASE update_timer \/ wb_stage \/ handle_interrupt \/ ex_stage \/ id_stage \/ if_stage
  BY <1>1, TypeTimer, TypeWb, TypeInt, TypeEx, TypeId, TypeIf
<1>2. CASE Clock
  BY <1>2, TypeClock
<1>3. CASE LoopContinue
  BY <1>3, TypeStepBegins DEF LoopContinue
<1>4. CASE LoopReturn
  BY <1>4 DEF LoopReturn, TypeOK, Stage, debug, pipe, flush
<1>5. CASE Host
  BY <1>5, TypeHost
<1>6. CASE UNCHANGED vars
  BY <1>6 DEF vars, TypeOK, debug, pipe, flush
<1> QED
  BY <1>1, <1>2, <1>3, <1>4, <1>5, <1>6 DEF Next, Thread

(* Whatever program runs and whatever the host calls, every register,      *)
(* memory word, pipeline register and history entry holds a value of its   *)
(* C++ type: no arithmetic of the stages, of the stack pointer, of the     *)
(* interrupt frames or of the timer leaves the range of u32.               *)
THEOREM TypeCorrect == Spec => []TypeOK
<1> QED
  BY TypeInit, TypeNext, PTL DEF Spec

(* The comparison that a conditional branch decides on is the right one    *)
(* for every width, every two operands and whatever the host does: the     *)
(* flags CMP, SUB and ADD pass on say how their operands, as signed and as *)
(* unsigned numbers, compare or add up.                                    *)
THEOREM Comparisons == Spec => ComparisonsDecide
<1>1. ASSUME TypeOK, [Next]_vars PROVE ComparisonStep
  <2> SUFFICES ASSUME stage = "ex", stage' = "id", idex.is_valid,
                      idex.d.opcode \in {"CMP", "SUB", "ADD"}
               PROVE  ComparisonStep
    BY DEF ComparisonStep
  <2>1. AluLeft \in Word /\ AluRight \in Word /\ rs1_val \in Word
    BY <1>1, OperandType
  <2>2. ExAlu \/ ExCmp
    <3>1. ex_stage
      <4>1. stage \notin {"host", "loop", "timer", "wb", "int", "id", "if", "clock"}
        OBVIOUS
      <4>2. ~UNCHANGED vars
        BY DEF vars
      <4>3. ~update_timer /\ ~wb_stage /\ ~handle_interrupt
        <5>1. ~update_timer
          BY DEF update_timer, TimerOff, TimerOn, TimerFrame
        <5>2. ~wb_stage
          BY DEF wb_stage, WbBubble, WbRetire
        <5>3. ~handle_interrupt
          BY DEF handle_interrupt, IntNone, IntAccept, AcceptInterrupt
        <5> QED
          BY <5>1, <5>2, <5>3
      <4>4. ~id_stage /\ ~if_stage /\ ~Clock
        BY DEF id_stage, IdBubble, IdDecode, if_stage, IfFlushed, IfFetch, Clock
      <4>5. ~(LoopContinue \/ LoopReturn) /\ ~Host
        BY DEF LoopContinue, LoopReturn, Host, Run, Step, SetIrq, TriggerInterrupt, PushKey,
           Breakpoints, ContinueExecution, SetRegister, SetFlags, LoadProgram, UpdateTimer,
           HandleInterrupt, GetMemory, Reset, Calls
      <4> QED
        BY <1>1, <4>2, <4>3, <4>4, <4>5 DEF Next, Thread
    <3> QED
      BY <3>1 DEF ex_stage, ExBubble, ExDivTrap, ExMov, ExLui, ExAui, ExLoadi, ExNop, ExLoad,
         ExStore, ExJmp, ExBjmp, ExCall, ExRet, ExSyscall, ExTrap, ExIret, ExCsrr, ExCsrw,
         ExPush, ExPop, ExInvalid, Executes
  <2>3. CASE ExCmp
    <3>1. idex.d.opcode = "CMP"
      BY <2>3 DEF ExCmp, Executes
    <3>2. next_exwb'.f = update_flags_sub(Minus(rs1_val, AluRight), rs1_val, AluRight)
      <4> DEFINE flags == update_flags_sub(Minus(rs1_val, AluRight), rs1_val, AluRight)
      <4>1. Passed(TRUE) \in ExWb
        BY <1>1, PassedType
      <4>2. next_exwb' = [Passed(TRUE) EXCEPT !.f = flags, !.flags_write = TRUE]
        BY <2>3 DEF ExCmp, Passes
      <4> HIDE DEF flags
      <4>3. next_exwb'.f = flags
        BY <4>1, <4>2 DEF ExWb
      <4> QED
        BY <4>3 DEF flags
    <3> QED
      <4>1. Compares(next_exwb'.f, rs1_val, AluRight)
        BY <2>1, <3>2, CompareFlags
      <4> QED
        BY <3>1, <4>1 DEF ComparisonStep
  <2>4. CASE ExAlu
    <3> DEFINE result == AluResult(idex.d.opcode, AluLeft, AluRight)
    <3>1. idex.d.opcode \in {"SUB", "ADD"} /\ idex.d.opcode \in AluOp
      BY <2>4 DEF ExAlu, Executes, AluOp, LogicOp, ShiftOp
    <3>2. result \in Word
      BY <2>1, <3>1, AluResultType
    <3>3. next_exwb'.f = AluFlags(idex.d.opcode, result, AluLeft, AluRight)
      <4>1. Result(result) \in ExWb
        BY <1>1, <3>2, ResultType
      <4> HIDE DEF result
      <4>2. next_exwb' = [Result(result) EXCEPT
                            !.f = AluFlags(idex.d.opcode, result, AluLeft, AluRight),
                            !.flags_write = TRUE]
        BY <2>4 DEF ExAlu, Passes, result
      <4> QED
        BY <4>1, <4>2 DEF ExWb
    <3>4. CASE idex.d.opcode = "SUB"
      <4>1. next_exwb'.f = update_flags_sub(Minus(AluLeft, AluRight), AluLeft, AluRight)
        BY <3>3, <3>4, SumResult
      <4> QED
        <5>1. Compares(next_exwb'.f, AluLeft, AluRight)
          BY <2>1, <4>1, CompareFlags
        <5> QED
          BY <3>4, <5>1 DEF ComparisonStep
    <3>5. CASE idex.d.opcode = "ADD"
      <4>1. next_exwb'.f = update_flags_add(Plus(AluLeft, AluRight), AluLeft, AluRight)
        BY <3>3, <3>5, SumResult
      <4> QED
        <5>1. Overflows(next_exwb'.f, AluLeft, AluRight)
          BY <2>1, <4>1, AddFlags
        <5> QED
          BY <3>5, <5>1 DEF ComparisonStep
    <3> QED
      BY <3>1, <3>4, <3>5
  <2> QED
    BY <2>2, <2>3, <2>4
<1> QED
  BY <1>1, TypeCorrect, PTL DEF Spec, ComparisonsDecide
=============================================================================
