-------------------------- MODULE RefinementProofs --------------------------
(***************************************************************************)
(* The pipelined processor implements the one-instruction-at-a-time        *)
(* machine, for every program that keeps to CpuDiscipline: the initial     *)
(* states map to initial states, and every step of the pipeline maps to a  *)
(* step of the machine or to none.                                         *)
(***************************************************************************)
EXTENDS DisciplineProofs

---------------------------------------------------------------------------
(* The instance of Isa brings its own copies of the operators on words,    *)
(* memory and registers; they are the same operators.                      *)

(* Words and their arithmetic. *)
LEMMA SameNumbers ==
  /\ Sequential!WORDS = WORDS /\ Sequential!HALF = HALF /\ Sequential!Word = Word
  /\ Sequential!Bit = Bit /\ Sequential!Addr = Addr /\ Sequential!Reg = Reg
  /\ Sequential!AluOp = AluOp /\ Sequential!ShiftOp = ShiftOp
  /\ Sequential!MmioPort = MmioPort /\ Sequential!FrameSize = FrameSize
  /\ \A a, b : /\ Sequential!Plus(a, b) = Plus(a, b) /\ Sequential!Minus(a, b) = Minus(a, b)
  /\ \A i : Sequential!Wrap(i) = Wrap(i) /\ Sequential!Signed(i) = Signed(i) /\ Sequential!Sign(i) = Sign(i)
  /\ \A w : Sequential!BitsOf(w) = BitsOf(w)
  /\ \A S : Sequential!Num(S) = Num(S)
<1>1. /\ Sequential!WORDS = WORDS /\ Sequential!HALF = HALF /\ Sequential!Word = Word
      /\ Sequential!Bit = Bit /\ Sequential!Addr = Addr /\ Sequential!Reg = Reg
      /\ Sequential!AluOp = AluOp /\ Sequential!ShiftOp = ShiftOp
      /\ Sequential!MmioPort = MmioPort /\ Sequential!FrameSize = FrameSize
  BY DEF Sequential!WORDS, WORDS, Sequential!HALF, HALF, Sequential!Word, Word, Sequential!Bit,
         Bit, Sequential!Addr, Addr, Sequential!Reg, Reg, Sequential!AluOp, AluOp,
         Sequential!LogicOp, LogicOp, Sequential!ShiftOp, ShiftOp, Sequential!MmioPort, MmioPort,
         Sequential!FrameSize, FrameSize
<1>2. \A a, b : Sequential!Plus(a, b) = Plus(a, b) /\ Sequential!Minus(a, b) = Minus(a, b)
  BY <1>1 DEF Sequential!Plus, Plus, Sequential!Minus, Minus, Sequential!Wrap, Wrap
<1>3. \A i : Sequential!Wrap(i) = Wrap(i) /\ Sequential!Signed(i) = Signed(i) /\ Sequential!Sign(i) = Sign(i)
  BY <1>1 DEF Sequential!Wrap, Wrap, Sequential!Signed, Signed, Sequential!Sign, Sign
<1>4. \A w : Sequential!BitsOf(w) = BitsOf(w)
  BY <1>1 DEF Sequential!BitsOf, BitsOf
<1>5. \A S : Sequential!Num(S) = Num(S)
 BY DEF Sequential!Num, Num, Sequential!BitsOf, BitsOf, Sequential!Word, Word, Sequential!Bit, Bit, Sequential!WORDS, WORDS
<1> QED BY <1>1, <1>2, <1>3, <1>4, <1>5

(* The ALU and the conditions. *)
LEMMA SameArithmetic ==
  /\ \A op, a, b : Sequential!AluResult(op, a, b) = AluResult(op, a, b)
  /\ \A op, r, a, b : Sequential!AluFlags(op, r, a, b) = AluFlags(op, r, a, b)
  /\ \A r, a, b : Sequential!update_flags_sub(r, a, b) = update_flags_sub(r, a, b)
  /\ \A c, fl : Sequential!Taken(c, fl) = Taken(c, fl)
<1>1. \A a, b : Sequential!Quotient(a, b) = Quotient(a, b) /\ Sequential!Shift(b) = Shift(b)
  BY DEF Sequential!Quotient, Quotient, Sequential!Shift, Shift
<1>2. ASSUME NEW op, NEW a, NEW b PROVE Sequential!AluResult(op, a, b) = AluResult(op, a, b)
  <2>1. /\ Sequential!Plus(a, b) = Plus(a, b) /\ Sequential!Minus(a, b) = Minus(a, b)
        /\ Sequential!BitsOf(a) = BitsOf(a) /\ Sequential!BitsOf(b) = BitsOf(b)
        /\ Sequential!Shift(b) = Shift(b)
        /\ Sequential!Signed(a) = Signed(a) /\ Sequential!Signed(b) = Signed(b)
    BY <1>1, SameNumbers
  <2>2. \A i : Sequential!Wrap(i) = Wrap(i)
    BY SameNumbers
  <2>3. \A S : Sequential!Num(S) = Num(S)
    BY SameNumbers
  <2>4. Sequential!Quotient(Signed(a), Signed(b)) = Quotient(Signed(a), Signed(b))
    BY <1>1
  <2> QED
    BY <2>1, <2>2, <2>3, <2>4, Zenon DEF Sequential!AluResult, AluResult
<1>3. \A r, a, b : Sequential!update_flags_sub(r, a, b) = update_flags_sub(r, a, b)
  BY SameNumbers DEF Sequential!update_flags_sub, update_flags_sub, Sequential!Sign, Sign
<1>4. \A op, r, a, b : Sequential!AluFlags(op, r, a, b) = AluFlags(op, r, a, b)
 BY SameNumbers DEF Sequential!AluFlags, AluFlags, Sequential!update_flags_sub, update_flags_sub, 
   Sequential!update_flags_add, update_flags_add, Sequential!update_flags_logic, update_flags_logic,
   Sequential!update_flags_shift, update_flags_shift, Sequential!Sign, Sign
<1>5. \A c, fl : Sequential!Taken(c, fl) = Taken(c, fl)
   BY DEF Sequential!Taken, Taken
<1> QED BY <1>2, <1>3, <1>4, <1>5

(* Accesses to memory. *)
LEMMA SameMemory ==
  /\ \A m, a : /\ Sequential!read_u32_direct(m, a) = read_u32_direct(m, a)
              /\ Sequential!read_u32(m, a) = read_u32(m, a)
              /\ Sequential!read_u8(m, a) = read_u8(m, a)
              /\ Sequential!after_read_u32(m, a) = after_read_u32(m, a)
  /\ \A m, a, v : /\ Sequential!write_u32(m, a, v) = write_u32(m, a, v)
                 /\ Sequential!write_u8(m, a, v) = write_u8(m, a, v)
  /\ \A m, k : Sequential!push_key(m, k) = push_key(m, k)
<1>1. /\ \A m, a : Sequential!read_u32_direct(m, a) = read_u32_direct(m, a)
      /\ \A m, a, v : Sequential!write_u32_direct(m, a, v) = write_u32_direct(m, a, v)
      /\ \A w : Sequential!Low(w) = Low(w)
  BY SameNumbers DEF Sequential!read_u32_direct, read_u32_direct, Sequential!write_u32_direct,
                     write_u32_direct, Sequential!Low, Low
<1>2. \A m, a : /\ Sequential!read_u32(m, a) = read_u32(m, a)
               /\ Sequential!read_u8(m, a) = read_u8(m, a)
               /\ Sequential!after_read_u32(m, a) = after_read_u32(m, a)
  BY <1>1 DEF Sequential!read_u32, read_u32, Sequential!read_u8, read_u8,
              Sequential!after_read_u32, after_read_u32
<1>3. \A p, v : Sequential!Printed(p, v) = Printed(p, v)
  BY SameNumbers DEF Sequential!Printed, Printed
<1>4. \A m, a, v : /\ Sequential!write_u32(m, a, v) = write_u32(m, a, v)
                  /\ Sequential!write_u8(m, a, v) = write_u8(m, a, v)
  BY <1>1, <1>2, <1>3, SameNumbers
     DEF Sequential!write_u32, write_u32, Sequential!write_u8, write_u8
<1>5. \A m, k : Sequential!push_key(m, k) = push_key(m, k)
  BY DEF Sequential!push_key, push_key
<1> QED
  BY <1>1, <1>2, <1>4, <1>5

(* Registers, lines and the timer. *)
LEMMA SameMachine ==
  /\ \A regs, r : Sequential!Read(regs, r) = Read(regs, r)
  /\ \A regs, r, v : Sequential!WriteReg(regs, r, v) = WriteReg(regs, r, v)
  /\ \A w, i : Sequential!Raise(w, i) = Raise(w, i) /\ Sequential!Clear(w, i) = Clear(w, i)
  /\ \A c : Sequential!TimerEnabled(c) = TimerEnabled(c)
  /\ \A c : Sequential!Ticked(c) = Ticked(c)
  /\ Sequential!MODE = MODE /\ Sequential!EXT0 = EXT0
  /\ Sequential!ZeroRegisters = ZeroRegisters /\ Sequential!ZeroCsr = ZeroCsr
  /\ Sequential!NoFlags = NoFlags
<1>1. /\ \A regs, r : Sequential!Read(regs, r) = Read(regs, r)
      /\ \A regs, r, v : Sequential!WriteReg(regs, r, v) = WriteReg(regs, r, v)
  BY DEF Sequential!Read, Read, Sequential!WriteReg, WriteReg
<1>2. \A w, i : Sequential!Raise(w, i) = Raise(w, i) /\ Sequential!Clear(w, i) = Clear(w, i)
  BY SameNumbers DEF Sequential!Raise, Raise, Sequential!Clear, Clear
<1>3. \A c : Sequential!TimerEnabled(c) = TimerEnabled(c)
  BY SameNumbers DEF Sequential!TimerEnabled, TimerEnabled, Sequential!ENABLE, ENABLE
<1>4. \A c : Sequential!Ticked(c) = Ticked(c)
  BY <1>2, SameNumbers DEF Sequential!Ticked, Ticked, Sequential!TIMER, TIMER, Sequential!ENABLE,
                           ENABLE, Sequential!TMODE, TMODE
<1>5. /\ Sequential!MODE = MODE /\ Sequential!EXT0 = EXT0
      /\ Sequential!ZeroRegisters = ZeroRegisters /\ Sequential!ZeroCsr = ZeroCsr
      /\ Sequential!NoFlags = NoFlags
  BY SameNumbers DEF Sequential!MODE, MODE, Sequential!EXT0, EXT0, Sequential!ZeroRegisters,
         ZeroRegisters, Sequential!ZeroCsr, ZeroCsr, Sequential!NoFlags, NoFlags, Sequential!Csr,
         Csr, Sequential!STACK_START, STACK_START
<1> QED
  BY <1>1, <1>2, <1>3, <1>4, <1>5

(* Entering and leaving handlers. *)
LEMMA SameInterrupts ==
  /\ \A c : Sequential!Accepts(c) = Accepts(c) /\ Sequential!IrqCode(c) = IrqCode(c)
  /\ \A c, code : Sequential!Vector(c, code) = Vector(c, code)
  /\ \A c, fl, epc, code : Sequential!EnterHandler(c, fl, epc, code) = EnterHandler(c, fl, epc, code)
  /\ \A c : Sequential!WithFrame(c) = WithFrame(c)
  /\ \A w : Sequential!LeaveStatus(w) = LeaveStatus(w)
  /\ \A S : Sequential!BitFlags(S) = BitFlags(S)
  /\ \A m, sp, regs : /\ Sequential!SaveRegisters(m, sp, regs) = SaveRegisters(m, sp, regs)
                      /\ Sequential!RestoredRegisters(m, sp, regs) = RestoredRegisters(m, sp, regs)
<1>1. \A c : Sequential!Pending(c) = Pending(c)
  BY SameNumbers DEF Sequential!Pending, Pending
<1>2. \A c : Sequential!Accepts(c) = Accepts(c)
  BY <1>1, SameNumbers DEF Sequential!Accepts, Accepts, Sequential!IE, IE
<1>3. \A c : Sequential!IrqCode(c) = IrqCode(c)
  BY DEF Sequential!IrqCode, IrqCode, Sequential!Pending, Pending, Sequential!BitsOf, BitsOf,
         Sequential!Bit, Bit
<1>4. \A c, code : Sequential!Vector(c, code) = Vector(c, code)
  BY SameNumbers DEF Sequential!Vector, Vector
<1>5. \A w : Sequential!EnterStatus(w) = EnterStatus(w) /\ Sequential!LeaveStatus(w) = LeaveStatus(w)
  BY SameNumbers DEF Sequential!EnterStatus, EnterStatus, Sequential!LeaveStatus, LeaveStatus,
         Sequential!IE, IE, Sequential!PIE, PIE, Sequential!MODE, MODE
<1>6. \A fl : Sequential!FlagBits(fl) = FlagBits(fl)
  BY DEF Sequential!FlagBits, FlagBits
<1>7. \A c, fl, epc, code : Sequential!EnterHandler(c, fl, epc, code) = EnterHandler(c, fl, epc, code)
  BY <1>5, <1>6, SameNumbers DEF Sequential!EnterHandler, EnterHandler, Sequential!INTERRUPT,
         INTERRUPT
<1>8. \A c : Sequential!WithFrame(c) = WithFrame(c)
  BY SameNumbers DEF Sequential!WithFrame, WithFrame, Sequential!FrameTop, FrameTop
<1>9. \A S : Sequential!BitFlags(S) = BitFlags(S)
  BY DEF Sequential!BitFlags, BitFlags
<1>10. \A m, sp, regs : /\ Sequential!SaveRegisters(m, sp, regs) = SaveRegisters(m, sp, regs)
                       /\ Sequential!RestoredRegisters(m, sp, regs) = RestoredRegisters(m, sp, regs)
  BY SameNumbers, SameMemory DEF Sequential!SaveRegisters, SaveRegisters,
         Sequential!RestoredRegisters, RestoredRegisters
<1> QED
  BY <1>2, <1>3, <1>4, <1>5, <1>7, <1>8, <1>9, <1>10

---------------------------------------------------------------------------
(* The mapping, before and after an instruction is executed *)

Ready == TypeOK /\ Operands /\ Chain /\ Apart /\ Disciplined /\ ExecutesOne

(* The machine of Isa is about to execute the same instruction on the same *)
(* operands.                                                               *)
LEMMA BeforeExecute ==
  ASSUME Ready
  PROVE  /\ IsaRegisters = registers /\ IsaMem = mem /\ IsaFlags = f /\ IsaHalted = halted
         /\ Place = idex.curr_pc /\ halted' = halted /\ halted \in BOOLEAN
         /\ Sequential!d = idex.d /\ Sequential!rs1 = rs1_val /\ Sequential!rs2 = rs2_val
         /\ Sequential!rd = rd_val
         /\ Sequential!next = ReturnAddr /\ Sequential!target = RelTarget
<1>1. /\ stage = "ex" /\ idex.is_valid /\ idex.d.opcode \in Opcode /\ halted' = halted
      /\ halted \in BOOLEAN
  BY ExecutesFrame DEF Ready, ExecutesOne, TypeOK
<1>2. ~InFlight.is_valid
  BY <1>1 DEF InFlight, ZeroExWb
<1>3. /\ IsaRegisters = registers /\ IsaMem = mem /\ IsaFlags = f /\ IsaHalted = halted
      /\ Place = ArchPc
  BY <1>2 DEF IsaRegisters, IsaMem, IsaFlags, IsaHalted, Completed, Place, KeyLoadInFlight
<1>4. ArchPc = idex.curr_pc
  BY <1>1 DEF Ready, ArchPc, Oldest, Chain, BeforeEx
<1>5. Sequential!d = idex.d
  <2>1. idex.curr_pc \in Code
    BY <1>1 DEF Ready, Disciplined, Executed
  <2>2. idex.d = Decode[read_u32_direct(mem, idex.curr_pc)]
    BY <2>1, DecodedEx DEF Ready
  <2> QED
    BY <1>3, <1>4, <2>2, SameMemory DEF Sequential!d
<1>6. rs1_val = ReadReg(idex.d.rs1) /\ rs2_val = ReadReg(idex.d.rs2) /\ rd_val = ReadReg(idex.d.rd)
  BY <1>1 DEF Ready, Operands, Forwarded
<1>7. Sequential!rs1 = rs1_val /\ Sequential!rs2 = rs2_val /\ Sequential!rd = rd_val
  BY <1>3, <1>5, <1>6, SameMachine DEF Sequential!rs1, Sequential!rs2, Sequential!rd, ReadReg
<1>8. Sequential!next = ReturnAddr /\ Sequential!target = RelTarget
  BY <1>3, <1>4, <1>5, SameNumbers DEF Sequential!next, Sequential!target, ReturnAddr, RelTarget
<1> QED
  BY <1>1, <1>3, <1>4, <1>5, <1>7, <1>8

(* Where the program goes on. *)
LEMMA PlaceNext ==
  ASSUME Ready
  PROVE  /\ ArchPc' = Successor(idex.d)
         /\ idex.d.opcode \in Sequentially => ArchPc' = ReturnAddr
         /\ ArchPc = idex.curr_pc
<1>1. stage = "ex" /\ idex.is_valid
  BY ExecutesFrame DEF Ready, ExecutesOne
<1>2. ArchPc = idex.curr_pc
  BY <1>1 DEF Ready, ArchPc, Oldest, Chain, BeforeEx
<1>3. ArchPc' = Successor(idex.d)
  BY ChainExecute DEF Ready, ExecutesOne
<1>4. idex.d.opcode \in Sequentially => Successor(idex.d) = ReturnAddr
  BY <1>2 DEF Successor, Sequentially, ReturnAddr
<1> QED
  BY <1>2, <1>3, <1>4

(* What write back is going to do is done. *)
LEMMA AfterExecute ==
  ASSUME stage' = "id", next_exwb'.is_valid, ~next_exwb'.mem_read, halted' \in BOOLEAN
  PROVE  /\ IsaRegisters' = IF next_exwb'.reg_write
              THEN WriteReg(registers', next_exwb'.n_rd, next_exwb'.alu_result) ELSE registers'
         /\ IsaMem' = IF ~next_exwb'.mem_write THEN mem'
              ELSE IF next_exwb'.mem_u8 THEN write_u8(mem', next_exwb'.mem_addr, next_exwb'.w_data)
              ELSE write_u32(mem', next_exwb'.mem_addr, next_exwb'.w_data)
         /\ IsaFlags' = IF next_exwb'.flags_write THEN next_exwb'.f ELSE f'
         /\ next_exwb'.opcode # "HLT" => IsaHalted' = halted'
         /\ next_exwb'.opcode = "HLT" =>
              IsaHalted' = (halted' \/ MODE \notin BitsOf(csr'.STATUS))
         /\ Place' = ArchPc'
<1>1. InFlight' = next_exwb'
  BY DEF InFlight
<1>2. ~KeyLoadInFlight' /\ ~LoadFromMemory(InFlight)'
  BY <1>1 DEF KeyLoadInFlight, LoadFromMemory
<1>3. Place' = ArchPc'
  BY <1>2 DEF Place
<1>4. /\ IsaRegisters' = RegsAfter(InFlight)' /\ IsaMem' = MemAfter(InFlight)'
      /\ IsaFlags' = FlagsAfter(InFlight)' /\ IsaHalted' = HaltedAfter(InFlight)'
  BY <1>1, <1>2 DEF IsaRegisters, IsaMem, IsaFlags, IsaHalted, Completed
<1>5. IsaRegisters' = IF next_exwb'.reg_write
        THEN WriteReg(registers', next_exwb'.n_rd, next_exwb'.alu_result) ELSE registers'
  BY <1>1, <1>4 DEF RegsAfter
<1>6. IsaMem' = IF ~next_exwb'.mem_write THEN mem'
        ELSE IF next_exwb'.mem_u8 THEN write_u8(mem', next_exwb'.mem_addr, next_exwb'.w_data)
        ELSE write_u32(mem', next_exwb'.mem_addr, next_exwb'.w_data)
  BY <1>1, <1>2, <1>4 DEF MemAfter
<1>7. IsaFlags' = IF next_exwb'.flags_write THEN next_exwb'.f ELSE f'
  BY <1>1, <1>4 DEF FlagsAfter
<1>8. IsaHalted' = (halted' \/ (next_exwb'.opcode = "HLT" /\ MODE \notin BitsOf(csr'.STATUS)))
  BY <1>1, <1>4 DEF HaltedAfter
<1>9. next_exwb'.opcode # "HLT" => IsaHalted' = halted'
  BY <1>8
<1>10. next_exwb'.opcode = "HLT" => IsaHalted' = (halted' \/ MODE \notin BitsOf(csr'.STATUS))
  BY <1>8
<1> QED
  BY <1>3, <1>5, <1>6, <1>7, <1>9, <1>10

(* With nothing to write back the machine's state is the pipeline's. *)
LEMMA AfterNothing ==
  ASSUME stage' = "id", ~next_exwb'.is_valid
  PROVE  /\ IsaRegisters' = registers' /\ IsaMem' = mem' /\ IsaFlags' = f' /\ IsaHalted' = halted'
         /\ Place' = ArchPc'
<1>1. ~InFlight'.is_valid
  BY DEF InFlight
<1> QED
  BY <1>1 DEF IsaRegisters, IsaMem, IsaFlags, IsaHalted, Completed, Place, KeyLoadInFlight

---------------------------------------------------------------------------
(* Operations *)

(* One lemma for each case of ex_stage: the ALU operations, *)
LEMMA StepAlu == ASSUME Ready, ExAlu PROVE Sequential!Arithmetic
<1> DEFINE v == AluResult(idex.d.opcode, AluLeft, AluRight)
           fl == AluFlags(idex.d.opcode, v, AluLeft, AluRight)
<1>1. /\ idex.d.opcode \in AluOp /\ stage' = "id"
      /\ registers' = registers /\ csr' = csr /\ f' = f /\ mem' = mem
  BY DEF ExAlu, Executes, Passes
<1>2. idex.reg_write /\ ~idex.mem_read /\ ~idex.mem_write
  BY <1>1, DecodedEx DEF Ready, WritesReg, ReadsMem, WritesMem, AluOp, LogicOp, ShiftOp
<1>3. /\ IsaRegisters' = WriteReg(registers, idex.d.rd, v) /\ IsaMem' = mem /\ IsaFlags' = fl
      /\ IsaHalted' = halted' /\ Place' = ArchPc'
  BY <1>1, <1>2, AluPassed, BeforeExecute, AfterExecute DEF Ready, AluOp, LogicOp, ShiftOp
<1>4. ArchPc' = ReturnAddr
  BY <1>1, PlaceNext DEF Sequentially, Opcode, AluOp, LogicOp, ShiftOp
<1> DEFINE a == IF Sequential!d.reg_form \/ Sequential!At(Sequential!ShiftOp \union {"MUL", "DIV"})
                  THEN Sequential!rs1 ELSE Sequential!rd
           b == IF Sequential!d.reg_form THEN Sequential!rs2 ELSE Sequential!d.imm
<1>5. a = AluLeft /\ b = AluRight
  BY BeforeExecute, SameNumbers DEF AluLeft, AluRight, Sequential!At
<1>6. Sequential!AluResult(Sequential!d.opcode, a, b) = v
  BY <1>5, BeforeExecute, SameArithmetic
<1>7. Sequential!AluFlags(Sequential!d.opcode, v, a, b) = fl
  BY <1>5, BeforeExecute, SameArithmetic
<1> HIDE DEF v, fl, a, b
<1>8. Sequential!At(Sequential!AluOp)
  BY <1>1, BeforeExecute, SameNumbers DEF Sequential!At
<1>9. Sequential!Sets(v)
  BY <1>3, BeforeExecute, SameMachine DEF Sequential!Sets
<1>10. Sequential!Goes(Sequential!next) /\ UNCHANGED <<csr, IsaMem, IsaHalted>>
  BY <1>1, <1>3, <1>4, BeforeExecute DEF Sequential!Goes
<1> QED
  BY <1>3, <1>6, <1>7, <1>8, <1>9, <1>10 DEF Sequential!Arithmetic, a, b

(* CMP, *)
LEMMA StepCmp == ASSUME Ready, ExCmp PROVE Sequential!Compare
<1>1. /\ idex.d.opcode = "CMP" /\ stage' = "id"
      /\ registers' = registers /\ csr' = csr /\ f' = f /\ mem' = mem
  BY DEF ExCmp, Executes, Passes
<1>2. ~idex.reg_write /\ ~idex.mem_read /\ ~idex.mem_write
  BY <1>1, DecodedEx DEF Ready, WritesReg, ReadsMem, WritesMem, AluOp, LogicOp, ShiftOp
<1>3. /\ IsaRegisters' = registers /\ IsaMem' = mem
      /\ IsaFlags' = update_flags_sub(Minus(rs1_val, AluRight), rs1_val, AluRight)
      /\ IsaHalted' = halted' /\ Place' = ArchPc'
  BY <1>1, <1>2, CmpPassed, BeforeExecute, AfterExecute DEF Ready
<1>4. ArchPc' = ReturnAddr
  BY <1>1, PlaceNext DEF Sequentially, Opcode
<1> DEFINE b == IF Sequential!d.reg_form THEN Sequential!rs2 ELSE Sequential!d.imm
<1>5. b = AluRight
  BY BeforeExecute DEF AluRight
<1>6. Sequential!update_flags_sub(Sequential!Minus(Sequential!rs1, b), Sequential!rs1, b)
        = update_flags_sub(Minus(rs1_val, AluRight), rs1_val, AluRight)
  BY <1>5, BeforeExecute, SameNumbers, SameArithmetic
<1> HIDE DEF b
<1>7. Sequential!At({"CMP"}) /\ Sequential!Goes(Sequential!next)
  BY <1>1, <1>3, <1>4, BeforeExecute DEF Sequential!At, Sequential!Goes
<1>8. UNCHANGED <<IsaRegisters, csr, IsaMem, IsaHalted>>
  BY <1>1, <1>3, BeforeExecute
<1> QED
  BY <1>3, <1>6, <1>7, <1>8 DEF Sequential!Compare, b

(* Adding the upper immediate to rd wraps once. *)
LEMMA AuiWraps == TypeOK => Plus(rd_val, UpperImm) = Wrap(rd_val + idex.d.imm * 2^UPPER_LSB)
<1> SUFFICES ASSUME TypeOK PROVE Plus(rd_val, UpperImm) = Wrap(rd_val + idex.d.imm * 2^UPPER_LSB)
  OBVIOUS
<1>1. 2^UPPER_LSB \in Nat
  BY MachineAssumption, WidthAssumption
<1>2. rd_val \in Int /\ idex.d.imm \in Int
  BY OperandType, AddressType, WordInt
<1> DEFINE x == idex.d.imm * 2^UPPER_LSB
<1>3. x \in Int
  BY <1>1, <1>2
<1>4. UpperImm = x % WORDS
  BY DEF UpperImm, Wrap
<1> HIDE DEF x
<1>5. (rd_val + (x % WORDS)) % WORDS = (rd_val + x) % WORDS
  BY <1>2, <1>3, WrapInside
<1>6. Plus(rd_val, UpperImm) = Wrap(rd_val + x)
  BY <1>4, <1>5 DEF Plus, Wrap
<1> QED
  BY <1>6 DEF x

(* what moves a value into a register, *)
LEMMA StepMove ==
  ASSUME Ready, ExMov \/ ExLui \/ ExAui \/ ExLoadi \/ ExCsrr PROVE Sequential!Move
<1>1. /\ idex.d.opcode \in {"MOV", "LUI", "AUI", "LOADI", "CSRR"} /\ stage' = "id"
      /\ registers' = registers /\ csr' = csr /\ f' = f /\ mem' = mem
  BY DEF ExMov, ExLui, ExAui, ExLoadi, ExCsrr, Executes, Passes
<1>2. idex.reg_write /\ ~idex.mem_read /\ ~idex.mem_write
  BY <1>1, DecodedEx DEF Ready, WritesReg, ReadsMem, WritesMem
<1>3. PICK v \in Word :
        /\ next_exwb' = Result(v)
        /\ ExMov => v = rs1_val
        /\ ExLui => v = UpperImm
        /\ ExAui => v = Plus(rd_val, UpperImm)
        /\ ExLoadi => v = idex.d.imm
        /\ ExCsrr => v = csr[idex.d.csr]
  BY ValuePassed DEF Ready
<1>4. /\ IsaRegisters' = WriteReg(registers, idex.d.rd, v) /\ IsaMem' = mem /\ IsaFlags' = f
      /\ IsaHalted' = halted' /\ Place' = ArchPc'
  <2>1. /\ next_exwb'.is_valid /\ next_exwb'.opcode = idex.d.opcode
        /\ next_exwb'.reg_write /\ ~next_exwb'.mem_read /\ ~next_exwb'.mem_write
        /\ ~next_exwb'.flags_write /\ next_exwb'.alu_result = v /\ next_exwb'.n_rd = idex.d.rd
    BY <1>2, <1>3, ResultFields DEF Ready
  <2> QED
    BY <1>1, <2>1, BeforeExecute, AfterExecute
<1>5. ArchPc' = ReturnAddr
  BY <1>1, PlaceNext DEF Sequentially, Opcode
<1>6. Sequential!Sets(v) /\ Sequential!Goes(Sequential!next)
  BY <1>4, <1>5, BeforeExecute, SameMachine DEF Sequential!Sets, Sequential!Goes
<1>7. UNCHANGED <<csr, IsaFlags, IsaMem, IsaHalted>>
  BY <1>1, <1>4, BeforeExecute
<1>8. \/ Sequential!At({"MOV"})   /\ Sequential!Sets(Sequential!rs1)
      \/ Sequential!At({"LUI"})   /\ Sequential!Sets(Sequential!Wrap(Sequential!d.imm * 2^UPPER_LSB))
      \/ Sequential!At({"AUI"})   /\ Sequential!Sets(Sequential!Wrap(Sequential!rd + Sequential!d.imm * 2^UPPER_LSB))
      \/ Sequential!At({"LOADI"}) /\ Sequential!Sets(Sequential!d.imm)
      \/ Sequential!At({"CSRR"})  /\ Sequential!Sets(csr[Sequential!d.csr])
  <2>1. CASE ExMov
    BY <1>3, <1>6, <2>1, BeforeExecute DEF ExMov, Executes, Sequential!At
  <2>2. CASE ExLui
    BY <1>3, <1>6, <2>2, BeforeExecute, SameNumbers DEF ExLui, Executes, Sequential!At, UpperImm
  <2>3. CASE ExAui
    <3>1. v = Wrap(rd_val + idex.d.imm * 2^UPPER_LSB)
      BY <1>3, <2>3, AuiWraps DEF Ready
    <3> QED
      BY <1>6, <2>3, <3>1, BeforeExecute, SameNumbers DEF ExAui, Executes, Sequential!At
  <2>4. CASE ExLoadi
    BY <1>3, <1>6, <2>4, BeforeExecute DEF ExLoadi, Executes, Sequential!At
  <2>5. CASE ExCsrr
    BY <1>3, <1>6, <2>5, BeforeExecute DEF ExCsrr, Executes, Sequential!At
  <2> QED
    BY <2>1, <2>2, <2>3, <2>4, <2>5
<1> QED
  BY <1>6, <1>7, <1>8 DEF Sequential!Move

(* NOP and HLT, *)
LEMMA StepNop == ASSUME Ready, ExNop PROVE Sequential!Halt \/ Sequential!Nothing
<1>1. /\ idex.d.opcode \in {"HLT", "NOP"} /\ stage' = "id"
      /\ registers' = registers /\ csr' = csr /\ f' = f /\ mem' = mem
  BY DEF ExNop, Executes, Passes
<1>2. ~idex.reg_write /\ ~idex.mem_read /\ ~idex.mem_write
  BY <1>1, DecodedEx DEF Ready, WritesReg, ReadsMem, WritesMem, AluOp, LogicOp, ShiftOp
<1>3. /\ next_exwb'.is_valid /\ next_exwb'.opcode = idex.d.opcode
      /\ ~next_exwb'.reg_write /\ ~next_exwb'.mem_read /\ ~next_exwb'.mem_write
      /\ ~next_exwb'.flags_write
  BY <1>2, PlainPassed, PassedFields DEF Ready
<1>4. /\ IsaRegisters' = registers /\ IsaMem' = mem /\ IsaFlags' = f /\ Place' = ArchPc'
      /\ idex.d.opcode # "HLT" => IsaHalted' = halted
      /\ idex.d.opcode = "HLT" => IsaHalted' = (halted \/ MODE \notin BitsOf(csr.STATUS))
  BY <1>1, <1>3, BeforeExecute, AfterExecute
<1>5. ArchPc' = ReturnAddr
  BY <1>1, PlaceNext DEF Sequentially, Opcode
<1>6. /\ Sequential!Goes(Sequential!next)
      /\ UNCHANGED <<IsaRegisters, csr, IsaFlags, IsaMem>>
  BY <1>1, <1>4, <1>5, BeforeExecute DEF Sequential!Goes
<1>7. CASE idex.d.opcode = "HLT"
  <2>1. IsaHalted' = (IsaHalted \/ Sequential!MODE \notin Sequential!BitsOf(csr.STATUS))
    BY <1>4, <1>7, BeforeExecute, SameNumbers, SameMachine
  <2> QED
    BY <1>6, <1>7, <2>1, BeforeExecute DEF Sequential!Halt, Sequential!At
<1>8. CASE idex.d.opcode = "NOP"
  BY <1>4, <1>6, <1>8, BeforeExecute DEF Sequential!Nothing, Sequential!At
<1> QED
  BY <1>1, <1>7, <1>8

(* what no case of the switch takes, *)
LEMMA StepInvalid == ASSUME Ready, ExInvalid PROVE Sequential!Nothing
<1>1. /\ idex.d.opcode = "INVALID" /\ stage' = "id"
      /\ registers' = registers /\ csr' = csr /\ f' = f /\ mem' = mem
  BY DEF ExInvalid, Executes, Passes
<1>2. /\ IsaRegisters' = registers /\ IsaMem' = mem /\ IsaFlags' = f /\ Place' = ArchPc'
      /\ IsaHalted' = halted'
  BY <1>1, NothingPassed, AfterNothing DEF Ready
<1>3. ArchPc' = ReturnAddr
  BY <1>1, PlaceNext DEF Sequentially, Opcode, AluOp, LogicOp, ShiftOp
<1> QED
  BY <1>1, <1>2, <1>3, BeforeExecute DEF Sequential!Nothing, Sequential!At, Sequential!Goes

---------------------------------------------------------------------------
(* Loads and stores *)

(* The word or the byte that a load is going to write back, and what       *)
(* taking it does to memory, unless it is the keyboard's.                  *)
LEMMA Loads ==
  ASSUME Ready, ExLoad, ~KeyLoadInFlight'
  PROVE  /\ IsaRegisters' = WriteReg(registers, idex.d.rd,
                              IF idex.d.opcode = "LOADB" THEN read_u8(mem, DataAddr)
                              ELSE read_u32(mem, DataAddr))
         /\ IsaMem' = mem
         /\ idex.d.opcode = "LOADW" => after_read_u32(mem, DataAddr) = mem
         /\ IsaFlags' = f /\ IsaHalted' = halted /\ Place' = ArchPc'
<1> DEFINE e == next_exwb'
           a == DataAddr
<1>1. /\ stage = "ex" /\ idex.is_valid /\ idex.d.opcode \in {"LOADW", "LOADB"} /\ stage' = "id"
      /\ registers' = registers /\ csr' = csr /\ f' = f /\ mem' = mem
      /\ mem_history' = mem_history /\ halted' = halted /\ halted \in BOOLEAN
  BY DEF Ready, TypeOK, ExLoad, Executes, Passes
<1>2. /\ e.is_valid /\ e.opcode = idex.d.opcode /\ e.mem_read /\ ~e.mem_write
      /\ ~e.flags_write /\ e.mem_addr = a /\ e.n_rd = idex.d.rd
      /\ e.mem_u8 = (idex.d.opcode = "LOADB")
  BY <1>1, LoadPassed, DecodedEx DEF Ready, WritesMem
<1>3. InFlight' = e
  BY <1>1 DEF InFlight
<1>4. Hits(InFlight.mem_addr)' = Hits(a)
  BY <1>1, <1>2, <1>3 DEF Hits
<1>5. Hit(InFlight.mem_addr)' = Hit(a)
  BY <1>1, <1>2, <1>3, Zenon DEF Hits, Hit
<1> DEFINE v == IF Hits(a) # {} THEN mem_history[Hit(a)].data
                ELSE IF e.mem_u8 THEN read_u8(mem, a) ELSE read_u32(mem, a)
           m == IF Hits(a) = {} /\ ~e.mem_u8 THEN after_read_u32(mem, a) ELSE mem
<1>6. LoadFromMemory(InFlight)' = (Hits(a) = {} /\ ~e.mem_u8)
  BY <1>1, <1>2, <1>3 DEF LoadFromMemory, Hits
<1>7. LoadValue(InFlight)' = v
  BY <1>1, <1>2, <1>3, <1>4, <1>5 DEF LoadValue
<1>8. RegsAfter(InFlight)' = WriteReg(registers, idex.d.rd, v)
  BY <1>1, <1>2, <1>3, <1>7 DEF RegsAfter
<1>9. MemAfter(InFlight)' = m
  BY <1>1, <1>2, <1>3, <1>6 DEF MemAfter
<1>10. FlagsAfter(InFlight)' = f /\ HaltedAfter(InFlight)' = halted
  BY <1>1, <1>2, <1>3 DEF FlagsAfter, HaltedAfter
<1>11. /\ IsaRegisters' = WriteReg(registers, idex.d.rd, v) /\ IsaMem' = m
       /\ IsaFlags' = f /\ IsaHalted' = halted /\ Place' = ArchPc'
  BY <1>2, <1>3, <1>8, <1>9, <1>10 DEF IsaRegisters, IsaMem, IsaFlags, IsaHalted, Completed, Place
<1>12. mem.data \in [Addr -> Word] /\ a \in Word
  BY AddressType DEF Ready, TypeOK, Memory
<1>13. Hits(a) # {} => a \in Words \union Bytes \union Sink
  BY HitInHits DEF Ready, Apart, EntriesApart, Hits
<1>14. CASE idex.d.opcode = "LOADW"
  <2>1. Hits(a) # {} => a \in Words \union Bytes
    BY <1>1, <1>13, <1>14 DEF Ready, Disciplined, Executed
  <2>2. a \notin KbdPort
    <3>1. CASE Hits(a) # {}
      BY <2>1, <3>1, DisciplineAssumption
    <3>2. CASE Hits(a) = {}
      BY <1>2, <1>3, <1>6, <1>14, <3>2 DEF KeyLoadInFlight, KbdPort
    <3> QED
      BY <3>1, <3>2
  <2>3. after_read_u32(mem, a) = mem /\ read_u32(mem, a) = read_u32_direct(mem, a)
    BY <2>2 DEF after_read_u32, read_u32, KbdPort
  <2>4. Hits(a) # {} => mem_history[Hit(a)].data = read_u32_direct(mem, a)
    BY <2>1, DisciplineAssumption DEF Ready, Apart, HistoryCoherent, read_u32_direct, KbdPort
  <2>5. v = read_u32(mem, a) /\ m = mem
    BY <1>2, <1>14, <2>3, <2>4
  <2> QED
    BY <1>11, <1>14, <2>3, <2>5
<1>15. CASE idex.d.opcode = "LOADB"
  <2>1. Hits(a) # {} => a \in Bytes
    BY <1>1, <1>13, <1>15 DEF Ready, Disciplined, Executed
  <2>2. ASSUME Hits(a) # {} PROVE mem_history[Hit(a)].data = read_u8(mem, a)
    <3>1. a \in Addr \ (MmioPort \union KbdPort)
      BY <2>1, <2>2, DisciplineAssumption
    <3>2. mem_history[Hit(a)].data = mem.data[a] /\ mem.data[a] < BYTE
      BY <2>1, <2>2, <3>1 DEF Ready, Apart, HistoryCoherent, EntriesApart, KbdPort
    <3>3. read_u8(mem, a) = mem.data[a]
      BY <1>12, <3>1, <3>2, LowOfByte DEF read_u8, read_u32_direct
    <3> QED
      BY <3>2, <3>3
  <2>3. v = read_u8(mem, a) /\ m = mem
    BY <1>2, <1>15, <2>2
  <2> QED
    BY <1>11, <1>15, <2>3
<1> QED
  BY <1>1, <1>14, <1>15

(* loads that wb_stage answers at once, *)
LEMMA StepLoad == ASSUME Ready, ExLoad, ~KeyLoadInFlight' PROVE Sequential!Load
<1>1. idex.d.opcode \in {"LOADW", "LOADB"} /\ csr' = csr
  BY DEF ExLoad, Executes, Passes
<1> DEFINE a == Sequential!Plus(Sequential!rs1, Sequential!d.imm)
<1>2. a = DataAddr
  BY BeforeExecute, SameNumbers DEF DataAddr
<1>3. /\ Sequential!read_u32(IsaMem, a) = read_u32(mem, DataAddr)
      /\ Sequential!read_u8(IsaMem, a) = read_u8(mem, DataAddr)
      /\ Sequential!after_read_u32(IsaMem, a) = after_read_u32(mem, DataAddr)
  BY <1>2, BeforeExecute, SameMemory
<1> HIDE DEF a
<1>4. ArchPc' = ReturnAddr
  BY <1>1, PlaceNext DEF Sequentially, Opcode
<1>5. /\ Sequential!Goes(Sequential!next)
      /\ UNCHANGED <<csr, IsaFlags, IsaHalted>>
  BY <1>1, <1>4, Loads, BeforeExecute DEF Sequential!Goes
<1>6. \A v : Sequential!Sets(v) <=> IsaRegisters' = WriteReg(registers, idex.d.rd, v)
  BY BeforeExecute, SameMachine DEF Sequential!Sets
<1>7. CASE idex.d.opcode = "LOADW"
  <2>1. Sequential!Sets(Sequential!read_u32(IsaMem, a))
    BY <1>3, <1>6, <1>7, Loads
  <2>2. IsaMem' = Sequential!after_read_u32(IsaMem, a)
    BY <1>3, <1>7, Loads
  <2> QED
    BY <1>5, <1>7, <2>1, <2>2, BeforeExecute DEF Sequential!Load, Sequential!At, a
<1>8. CASE idex.d.opcode = "LOADB"
  <2>1. Sequential!Sets(Sequential!read_u8(IsaMem, a))
    BY <1>3, <1>6, <1>8, Loads
  <2>2. UNCHANGED IsaMem
    BY Loads, BeforeExecute
  <2> QED
    BY <1>5, <1>8, <2>1, <2>2, BeforeExecute DEF Sequential!Load, Sequential!At, a
<1> QED
  BY <1>1, <1>7, <1>8

(* A load of a keyboard port is not executed before it is written back.    *)
LEMMA StepKeyLoad ==
  ASSUME Ready, ExLoad, KeyLoadInFlight'
  PROVE  UNCHANGED <<IsaRegisters, csr, IsaFlags, Place, IsaMem, IsaHalted>>
<1>1. /\ idex.d.opcode \in {"LOADW", "LOADB"}
      /\ registers' = registers /\ csr' = csr /\ f' = f /\ mem' = mem /\ halted' = halted
  BY DEF ExLoad, Executes, Passes
<1>2. /\ IsaRegisters' = registers /\ IsaMem' = mem /\ IsaFlags' = f /\ IsaHalted' = halted
      /\ Place' = Minus(ArchPc', 1)
  BY <1>1 DEF IsaRegisters, IsaMem, IsaFlags, IsaHalted, Completed, Place
<1>3. ArchPc' = ReturnAddr
  BY <1>1, PlaceNext DEF Sequentially, Opcode
<1>4. Minus(ReturnAddr, 1) = idex.curr_pc
  BY OneBack DEF Ready, TypeOK, IdEx, ReturnAddr
<1> QED
  BY <1>1, <1>2, <1>3, <1>4, BeforeExecute

(* stores, *)
LEMMA StepStore == ASSUME Ready, ExStore PROVE Sequential!Store
<1>1. /\ idex.d.opcode \in {"STOREW", "STOREB"} /\ stage' = "id"
      /\ registers' = registers /\ csr' = csr /\ f' = f /\ mem' = mem
  BY DEF ExStore, Executes, Passes
<1>2. ~idex.reg_write /\ ~idex.mem_read
  BY <1>1, DecodedEx DEF Ready, WritesReg, ReadsMem, AluOp, LogicOp, ShiftOp
<1>3. /\ IsaRegisters' = registers /\ IsaFlags' = f /\ IsaHalted' = halted /\ Place' = ArchPc'
      /\ IsaMem' = IF idex.d.opcode = "STOREB" THEN write_u8(mem, DataAddr, Low(rd_val))
                   ELSE write_u32(mem, DataAddr, rd_val)
  BY <1>1, <1>2, StorePassed, BeforeExecute, AfterExecute DEF Ready
<1>4. write_u8(mem, DataAddr, Low(rd_val)) = write_u8(mem, DataAddr, rd_val)
  <2>1. Low(Low(rd_val)) = Low(rd_val)
    <3>1. Low(rd_val) \in Word /\ Low(rd_val) < BYTE
      BY OperandType, LowType, MemoryAssumption DEF Ready
    <3> QED
      BY <3>1, LowOfByte
  <2> QED
    BY <2>1 DEF write_u8
<1>5. ArchPc' = ReturnAddr
  BY <1>1, PlaceNext DEF Sequentially, Opcode
<1> DEFINE a == Sequential!Plus(Sequential!rs1, Sequential!d.imm)
<1>6. a = DataAddr
  BY BeforeExecute, SameNumbers DEF DataAddr
<1>7. /\ Sequential!write_u32(IsaMem, a, Sequential!rd) = write_u32(mem, DataAddr, rd_val)
      /\ Sequential!write_u8(IsaMem, a, Sequential!rd) = write_u8(mem, DataAddr, rd_val)
  BY <1>6, BeforeExecute, SameMemory
<1> HIDE DEF a
<1>8. /\ Sequential!Goes(Sequential!next)
      /\ UNCHANGED <<IsaRegisters, csr, IsaFlags, IsaHalted>>
  BY <1>1, <1>3, <1>5, BeforeExecute DEF Sequential!Goes
<1>9. \/ Sequential!At({"STOREW"}) /\ IsaMem' = Sequential!write_u32(IsaMem, a, Sequential!rd)
      \/ Sequential!At({"STOREB"}) /\ IsaMem' = Sequential!write_u8(IsaMem, a, Sequential!rd)
  BY <1>1, <1>3, <1>4, <1>7, BeforeExecute DEF Sequential!At
<1> QED
  BY <1>8, <1>9 DEF Sequential!Store, a

---------------------------------------------------------------------------
(* Jumps, calls, handlers *)

(* These have nothing to write back. *)
LEMMA AfterJump ==
  ASSUME Ready, ExJmp \/ ExBjmp \/ ExCall \/ ExSyscall \/ ExTrap \/ ExIret
  PROVE  /\ IsaRegisters' = registers' /\ IsaMem' = mem' /\ IsaFlags' = f' /\ IsaHalted' = IsaHalted
         /\ Place' = Successor(idex.d)
  BY NothingPassed, AfterNothing, PlaceNext, BeforeExecute DEF Ready, ExecutesOne

(* jumps and branches, *)
LEMMA StepBranch == ASSUME Ready, ExJmp \/ ExBjmp PROVE Sequential!Branch
<1>1. /\ idex.d.opcode \in {"JMP", "BJMP"}
      /\ registers' = registers /\ csr' = csr /\ f' = f /\ mem' = mem
  BY DEF ExJmp, ExBjmp, Executes
<1>2. UNCHANGED <<IsaRegisters, csr, IsaFlags, IsaMem, IsaHalted>>
  BY <1>1, AfterJump, BeforeExecute
<1>3. CASE idex.d.opcode = "JMP"
  <2>1. Place' = RelTarget
    BY <1>3, AfterJump, PlaceNext DEF Successor, RelTarget
  <2> QED
    BY <1>2, <1>3, <2>1, BeforeExecute DEF Sequential!Branch, Sequential!At, Sequential!Goes
<1>4. CASE idex.d.opcode = "BJMP"
  <2>1. Place' = IF Taken(idex.d.cond, f) THEN RelTarget ELSE ReturnAddr
    BY <1>4, AfterJump, PlaceNext DEF Successor, RelTarget, ReturnAddr
  <2>2. Sequential!Taken(Sequential!d.cond, IsaFlags) = Taken(idex.d.cond, f)
    BY BeforeExecute, SameArithmetic
  <2> QED
    BY <1>2, <1>4, <2>1, <2>2, BeforeExecute DEF Sequential!Branch, Sequential!At, Sequential!Goes
<1> QED
  BY <1>1, <1>3, <1>4

(* calls, *)
LEMMA StepCall == ASSUME Ready, ExCall PROVE Sequential!Push
<1>1. /\ idex.d.opcode \in {"CALL", "CALLR"} /\ registers' = registers /\ f' = f
      /\ mem' = write_u32(mem, PushSp, ReturnAddr) /\ csr' = [csr EXCEPT !.SP = PushSp]
  BY DEF ExCall, Executes
<1> DEFINE sp == Sequential!Minus(csr.SP, 1)
<1>2. sp = PushSp
  BY SameNumbers DEF PushSp
<1>3. /\ csr' = [csr EXCEPT !.SP = sp]
      /\ UNCHANGED <<IsaRegisters, IsaFlags, IsaHalted>>
      /\ IsaMem' = Sequential!write_u32(IsaMem, sp, Sequential!next)
  BY <1>1, <1>2, AfterJump, BeforeExecute, SameMemory
<1> HIDE DEF sp
<1>4. CASE idex.d.opcode = "CALL"
  <2>1. Place' = RelTarget
    BY <1>4, AfterJump, PlaceNext DEF Successor, RelTarget
  <2> QED
    BY <1>3, <1>4, <2>1, BeforeExecute DEF Sequential!Push, Sequential!At, Sequential!Goes, sp
<1>5. CASE idex.d.opcode = "CALLR"
  <2>1. Place' = ReadReg(idex.d.rs1)
    BY <1>5, AfterJump DEF Successor
  <2>2. Sequential!rs1 = ReadReg(idex.d.rs1)
    BY BeforeExecute, ExecutesFrame DEF Ready, ExecutesOne, Operands, Forwarded
  <2> QED
    BY <1>3, <1>5, <2>1, <2>2, BeforeExecute DEF Sequential!Push, Sequential!At, Sequential!Goes, sp
<1> QED
  BY <1>1, <1>4, <1>5

(* RET, *)
LEMMA StepRet == ASSUME Ready, ExRet PROVE Sequential!Pop
<1>1. /\ idex.d.opcode = "RET" /\ stage' = "id" /\ registers' = registers /\ f' = f
      /\ mem' = after_read_u32(mem, csr.SP) /\ csr' = [csr EXCEPT !.SP = Plus(csr.SP, 1)]
  BY DEF ExRet, Executes, PopSp
<1>2. ~idex.reg_write /\ ~idex.mem_read /\ ~idex.mem_write
  BY <1>1, DecodedEx DEF Ready, WritesReg, ReadsMem, WritesMem, AluOp, LogicOp, ShiftOp
<1>3. /\ next_exwb'.is_valid /\ next_exwb'.opcode = idex.d.opcode
      /\ ~next_exwb'.reg_write /\ ~next_exwb'.mem_read /\ ~next_exwb'.mem_write
      /\ ~next_exwb'.flags_write
  BY <1>2, PlainPassed, PassedFields DEF Ready
<1>4. /\ IsaRegisters' = registers /\ IsaMem' = mem' /\ IsaFlags' = f
      /\ IsaHalted' = halted /\ Place' = ArchPc'
  BY <1>1, <1>3, BeforeExecute, AfterExecute
<1>5. ArchPc' = read_u32(mem, csr.SP)
  BY <1>1, PlaceNext DEF Successor
<1>6. /\ IsaMem' = Sequential!after_read_u32(IsaMem, csr.SP)
      /\ csr' = [csr EXCEPT !.SP = Sequential!Plus(@, 1)]
      /\ Sequential!Goes(Sequential!read_u32(IsaMem, csr.SP))
  BY <1>1, <1>4, <1>5, BeforeExecute, SameNumbers, SameMemory DEF Sequential!Goes
<1> QED
  BY <1>1, <1>4, <1>6, BeforeExecute DEF Sequential!Pop, Sequential!At

(* POP, *)
LEMMA StepPop == ASSUME Ready, ExPop PROVE Sequential!Pop
<1>1. /\ idex.d.opcode = "POP" /\ stage' = "id" /\ registers' = registers /\ f' = f
      /\ mem' = after_read_u32(mem, csr.SP) /\ csr' = [csr EXCEPT !.SP = Plus(csr.SP, 1)]
  BY DEF ExPop, Executes, PopSp
<1>2. ~idex.mem_read /\ ~idex.mem_write
  BY <1>1, DecodedEx DEF Ready, ReadsMem, WritesMem
<1>3. /\ IsaRegisters' = WriteReg(registers, idex.d.rd, read_u32(mem, csr.SP))
      /\ IsaMem' = mem' /\ IsaFlags' = f /\ IsaHalted' = halted /\ Place' = ArchPc'
  BY <1>1, <1>2, PopPassed, BeforeExecute, AfterExecute DEF Ready
<1>4. ArchPc' = ReturnAddr
  BY <1>1, PlaceNext DEF Sequentially, Opcode
<1>5. /\ IsaMem' = Sequential!after_read_u32(IsaMem, csr.SP)
      /\ csr' = [csr EXCEPT !.SP = Sequential!Plus(@, 1)]
      /\ Sequential!Sets(Sequential!read_u32(IsaMem, csr.SP))
      /\ Sequential!Goes(Sequential!next)
  BY <1>1, <1>3, <1>4, BeforeExecute, SameNumbers, SameMemory, SameMachine
     DEF Sequential!Goes, Sequential!Sets
<1> QED
  BY <1>1, <1>3, <1>5, BeforeExecute DEF Sequential!Pop, Sequential!At

(* CSR writes, *)
LEMMA StepCsrw == ASSUME Ready, ExCsrw PROVE Sequential!WriteCsr
<1>1. /\ idex.d.opcode \in {"CSRW", "CSRWI"} /\ stage' = "id"
      /\ registers' = registers /\ f' = f /\ mem' = mem
      /\ csr' = [csr EXCEPT ![idex.d.csr] = IF idex.d.opcode = "CSRW" THEN rs1_val ELSE idex.d.imm]
  BY DEF ExCsrw, Executes
<1>2. ~idex.reg_write /\ ~idex.mem_read /\ ~idex.mem_write
  BY <1>1, DecodedEx DEF Ready, WritesReg, ReadsMem, WritesMem, AluOp, LogicOp, ShiftOp
<1>3. /\ next_exwb'.is_valid /\ next_exwb'.opcode = idex.d.opcode
      /\ ~next_exwb'.reg_write /\ ~next_exwb'.mem_read /\ ~next_exwb'.mem_write
      /\ ~next_exwb'.flags_write
  BY <1>2, PlainPassed, PassedFields DEF Ready
<1>4. /\ IsaRegisters' = registers /\ IsaMem' = mem /\ IsaFlags' = f
      /\ IsaHalted' = halted /\ Place' = ArchPc'
  BY <1>1, <1>3, BeforeExecute, AfterExecute
<1>5. ArchPc' = ReturnAddr
  BY <1>1, PlaceNext DEF Sequentially, Opcode
<1>6. csr' = [csr EXCEPT ![Sequential!d.csr] =
                IF Sequential!At({"CSRW"}) THEN Sequential!rs1 ELSE Sequential!d.imm]
  BY <1>1, BeforeExecute DEF Sequential!At
<1> QED
  BY <1>1, <1>4, <1>5, <1>6, BeforeExecute DEF Sequential!WriteCsr, Sequential!At, Sequential!Goes

(* Entering a handler. *)
LEMMA Handling ==
  ASSUME NEW code, NEW c, NEW save, IsaMem = mem, IsaRegisters = registers,
         csr' = IF save THEN WithFrame(c) ELSE c,
         IsaMem' = IF save THEN SaveRegisters(after_read_u32(mem, Vector(csr, code)), csr.SP, registers)
                   ELSE after_read_u32(mem, Vector(csr, code)),
         Place' = HandlerAddr(code),
         UNCHANGED <<IsaRegisters, IsaFlags, IsaHalted>>
  PROVE  Sequential!Handle(code, c, save)
<1> DEFINE fetched == Sequential!after_read_u32(IsaMem, Sequential!Vector(csr, code))
<1>1. Sequential!Vector(csr, code) = Vector(csr, code)
  BY SameInterrupts
<1>2. fetched = after_read_u32(mem, Vector(csr, code))
  BY <1>1, SameMemory
<1>3. Sequential!read_u32(IsaMem, Sequential!Vector(csr, code)) = HandlerAddr(code)
  BY <1>1, SameMemory DEF HandlerAddr
<1>4. Sequential!WithFrame(c) = WithFrame(c)
  BY SameInterrupts
<1>5. \A m : Sequential!SaveRegisters(m, csr.SP, IsaRegisters) = SaveRegisters(m, csr.SP, registers)
  BY SameInterrupts
<1> HIDE DEF fetched
<1>6. csr' = IF save THEN Sequential!WithFrame(c) ELSE c
  BY <1>4
<1>7. IsaMem' = IF save THEN Sequential!SaveRegisters(fetched, csr.SP, IsaRegisters) ELSE fetched
  BY <1>2, <1>5
<1>8. Sequential!Goes(Sequential!read_u32(IsaMem, Sequential!Vector(csr, code)))
  BY <1>3 DEF Sequential!Goes
<1> QED
  BY <1>6, <1>7, <1>8 DEF Sequential!Handle, fetched

(* SYSCALL, *)
LEMMA StepSyscall == ASSUME Ready, ExSyscall PROVE Sequential!Trap
<1>1. /\ idex.d.opcode = "SYSCALL" /\ registers' = registers /\ f' = f
      /\ csr' = WithFrame(EnterHandler(csr, f, ReturnAddr, SWI))
      /\ mem' = SaveRegisters(after_read_u32(mem, Vector(csr, SWI)), csr.SP, registers)
  BY DEF ExSyscall, Executes
<1>2. Place' = HandlerAddr(SWI)
  BY <1>1, AfterJump DEF Successor
<1>3. UNCHANGED <<IsaRegisters, IsaFlags, IsaHalted>> /\ IsaMem' = mem'
  BY <1>1, AfterJump, BeforeExecute
<1>4. Sequential!EnterHandler(csr, IsaFlags, Sequential!next, SWI)
        = EnterHandler(csr, f, ReturnAddr, SWI)
  BY BeforeExecute, SameInterrupts
<1>5. Sequential!Handle(SWI, EnterHandler(csr, f, ReturnAddr, SWI), TRUE)
  BY <1>1, <1>2, <1>3, BeforeExecute, Handling
<1> QED
  BY <1>1, <1>4, <1>5, BeforeExecute DEF Sequential!Trap, Sequential!At

(* TRAP *)
LEMMA StepTrap == ASSUME Ready, ExTrap PROVE Sequential!Trap
<1> DEFINE code == idex.d.imm % CODES
<1>1. /\ idex.d.opcode = "TRAP" /\ registers' = registers /\ f' = f
      /\ csr' = EnterHandler(csr, f, ReturnAddr, code)
      /\ mem' = after_read_u32(mem, Vector(csr, code))
  BY DEF ExTrap, Executes
<1>2. Place' = HandlerAddr(code)
  BY <1>1, AfterJump DEF Successor
<1>3. UNCHANGED <<IsaRegisters, IsaFlags, IsaHalted>> /\ IsaMem' = mem'
  BY <1>1, AfterJump, BeforeExecute
<1>4. Sequential!d.imm % CODES = code
  BY BeforeExecute
<1> HIDE DEF code
<1>5. Sequential!EnterHandler(csr, IsaFlags, Sequential!next, code)
        = EnterHandler(csr, f, ReturnAddr, code)
  BY BeforeExecute, SameInterrupts
<1>6. Sequential!Handle(code, EnterHandler(csr, f, ReturnAddr, code), FALSE)
  BY <1>1, <1>2, <1>3, BeforeExecute, Handling
<1> QED
  BY <1>1, <1>4, <1>5, <1>6, BeforeExecute DEF Sequential!Trap, Sequential!At

(* and IRET. *)
LEMMA StepIret == ASSUME Ready, ExIret PROVE Sequential!Return
<1>1. /\ idex.d.opcode = "IRET" /\ mem' = mem
      /\ registers' = RestoredRegisters(mem, csr.SCRATCH, registers)
      /\ f' = BitFlags(BitsOf(csr.EFLAGS))
      /\ csr' = [csr EXCEPT !.SP = Plus(csr.SCRATCH, FrameSize), !.STATUS = LeaveStatus(@)]
  BY DEF ExIret, Executes
<1>2. Place' = csr.EPC
  BY <1>1, AfterJump DEF Successor
<1>3. /\ IsaRegisters' = Sequential!RestoredRegisters(IsaMem, csr.SCRATCH, IsaRegisters)
      /\ IsaFlags' = Sequential!BitFlags(Sequential!BitsOf(csr.EFLAGS))
      /\ UNCHANGED <<IsaMem, IsaHalted>>
  BY <1>1, AfterJump, BeforeExecute, SameNumbers, SameInterrupts
<1>4. csr' = [csr EXCEPT !.SP = Sequential!Plus(csr.SCRATCH, Sequential!FrameSize),
                        !.STATUS = Sequential!LeaveStatus(@)]
  BY <1>1, SameNumbers, SameInterrupts
<1> QED
  BY <1>1, <1>2, <1>3, <1>4, BeforeExecute
     DEF Sequential!Return, Sequential!At, Sequential!Goes

(* Executing an instruction in the pipeline is executing it, or waiting    *)
(* for the keyboard.                                                       *)
IsaStays == UNCHANGED <<IsaRegisters, csr, IsaFlags, Place, IsaMem, IsaHalted>>

(* An instruction executed is one of the machine, or a load that waits. *)
LEMMA StepExecute == ASSUME Ready PROVE Sequential!Execute \/ IsaStays
<1>1. ~ExBubble /\ ~ExDivTrap
  BY DEF Ready, ExecutesOne, ExBubble, ExDivTrap
<1>2. ~ExPush
  BY ExecutesFrame DEF Ready, ExecutesOne, ExPush, Executes, Disciplined, Executed
<1>3. CASE ExAlu \/ ExCmp \/ ExMov \/ ExLui \/ ExAui \/ ExLoadi \/ ExCsrr \/ ExNop \/ ExInvalid
  BY <1>3, StepAlu, StepCmp, StepMove, StepNop, StepInvalid DEF Sequential!Execute
<1>4. CASE ExLoad \/ ExStore
  BY <1>4, StepLoad, StepKeyLoad, StepStore DEF Sequential!Execute, IsaStays
<1>5. CASE ExJmp \/ ExBjmp \/ ExCall \/ ExRet \/ ExPop \/ ExCsrw
  BY <1>5, StepBranch, StepCall, StepRet, StepPop, StepCsrw DEF Sequential!Execute
<1>6. CASE ExSyscall \/ ExTrap \/ ExIret
  BY <1>6, StepSyscall, StepTrap, StepIret DEF Sequential!Execute
<1> QED
  BY <1>1, <1>2, <1>3, <1>4, <1>5, <1>6 DEF Ready, ExecutesOne, ex_stage

---------------------------------------------------------------------------
(* Write back *)

(* One word down and one up. *)
LEMMA OneOn == \A w \in Word : Plus(Minus(w, 1), 1) = w
<1> SUFFICES ASSUME NEW w \in Word PROVE Plus(Minus(w, 1), 1) = w
  OBVIOUS
<1>1. 1 \in Word /\ w \in Int /\ w >= 0 /\ w < WORDS /\ WORDS \in Nat /\ WORDS > 1
  BY WordCount DEF Word
<1>2. Minus(w, 1) = IF w < 1 THEN w - 1 + WORDS ELSE w - 1
  BY <1>1, WrapOnce
<1>3. Minus(w, 1) \in Word
  BY <1>1, PlusWord
<1>4. Plus(Minus(w, 1), 1) = IF Minus(w, 1) + 1 >= WORDS THEN Minus(w, 1) + 1 - WORDS
                             ELSE Minus(w, 1) + 1
  BY <1>1, <1>3, WrapOnce
<1> QED
  BY <1>1, <1>2, <1>4

(* What has been executed is there once it is written back. *)
LEMMA WrittenAfter ==
  ASSUME wb_stage
  PROVE  /\ IsaRegisters' = registers' /\ IsaMem' = mem' /\ IsaFlags' = f' /\ IsaHalted' = halted'
         /\ Place' = ArchPc' /\ csr' = csr
         /\ InFlight = exwb
<1>1. stage = "wb" /\ stage' = "int" /\ csr' = csr
  BY DEF wb_stage, WbBubble, WbRetire
<1>2. ~InFlight'.is_valid /\ InFlight = exwb
  BY <1>1 DEF InFlight, ZeroExWb
<1> QED
  BY <1>1, <1>2 DEF IsaRegisters, IsaMem, IsaFlags, IsaHalted, Completed, Place, KeyLoadInFlight

(* A load of a keyboard port is executed by its write back. *)
LEMMA StepKeyLoaded ==
  ASSUME TypeOK, Apart, WbRetire, KeyLoadInFlight, ArchPc' = ArchPc
  PROVE  Sequential!Load
<1> DEFINE d == Decode[read_u32_direct(mem, Place)]
           a == exwb.mem_addr
<1>1. /\ IsaRegisters' = registers' /\ IsaMem' = mem' /\ IsaFlags' = f' /\ IsaHalted' = halted'
      /\ Place' = ArchPc /\ csr' = csr /\ InFlight = exwb
  BY WrittenAfter DEF wb_stage
<1>2. /\ IsaRegisters = registers /\ IsaMem = mem /\ IsaFlags = f /\ IsaHalted = halted
      /\ Place = Minus(ArchPc, 1)
  BY DEF IsaRegisters, IsaMem, IsaFlags, IsaHalted, Completed, Place
<1>3. /\ d.opcode = "LOADW" /\ d.rd = exwb.n_rd /\ a = Plus(ReadReg(d.rs1), d.imm)
      /\ exwb.opcode = "LOADW" /\ ~exwb.mem_write /\ ~exwb.flags_write
  BY <1>1 DEF Apart, KeyLoadWaits
<1>4. exwb.mem_read /\ Hits(a) = {} /\ ~exwb.mem_u8 /\ LoadFromMemory(exwb)
  BY <1>1 DEF KeyLoadInFlight, LoadFromMemory
<1>5. /\ registers' = RegsAfter(exwb) /\ mem' = MemAfter(exwb) /\ f' = FlagsAfter(exwb)
      /\ halted' = HaltedAfter(exwb) /\ halted \in BOOLEAN
  BY DEF WbRetire, TypeOK
<1>6. /\ registers' = WriteReg(registers, d.rd, read_u32(mem, a)) /\ f' = f
      /\ mem' = after_read_u32(mem, a) /\ halted' = halted
  BY <1>3, <1>4, <1>5 DEF RegsAfter, LoadValue, MemAfter, FlagsAfter, HaltedAfter
<1>7. ArchPc = Plus(Place, 1)
  <2>1. ArchPc \in Word
    BY DEF TypeOK, ArchPc, Oldest, IfId, IdEx, ZeroIfId, ZeroIdEx
  <2> QED
    BY <1>2, <2>1, OneOn
<1>8. Sequential!d = d
  BY <1>2, SameMemory DEF Sequential!d
<1>9. Sequential!Plus(Sequential!rs1, Sequential!d.imm) = a
  BY <1>2, <1>3, <1>8, SameNumbers, SameMachine DEF Sequential!rs1, ReadReg
<1>10. Sequential!Goes(Sequential!next)
  BY <1>1, <1>7, SameNumbers DEF Sequential!Goes, Sequential!next
<1>11. /\ Sequential!At({"LOADW"}) /\ Sequential!Sets(Sequential!read_u32(IsaMem, a))
       /\ IsaMem' = Sequential!after_read_u32(IsaMem, a)
       /\ UNCHANGED <<csr, IsaFlags, IsaHalted>>
  BY <1>1, <1>2, <1>3, <1>6, <1>8, SameMemory, SameMachine DEF Sequential!At, Sequential!Sets
<1> HIDE DEF a, d
<1> QED
  BY <1>9, <1>10, <1>11 DEF Sequential!Load

(* Every other write back is invisible. *)
LEMMA StepWb ==
  ASSUME TypeOK, Apart, wb_stage, ArchPc' = ArchPc
  PROVE  Sequential!Load \/ IsaStays
<1>1. /\ IsaRegisters' = registers' /\ IsaMem' = mem' /\ IsaFlags' = f' /\ IsaHalted' = halted'
      /\ Place' = ArchPc /\ csr' = csr /\ InFlight = exwb
  BY WrittenAfter
<1>2. CASE WbBubble
  <2>1. ~exwb.is_valid /\ UNCHANGED <<registers, f, mem, halted>>
    BY <1>2 DEF WbBubble
  <2> QED
    BY <1>1, <2>1 DEF IsaStays, IsaRegisters, IsaMem, IsaFlags, IsaHalted, Completed, Place,
                      KeyLoadInFlight
<1>3. CASE WbRetire /\ ~KeyLoadInFlight
  <2>1. /\ exwb.is_valid /\ registers' = RegsAfter(exwb) /\ mem' = MemAfter(exwb)
        /\ f' = FlagsAfter(exwb) /\ halted' = HaltedAfter(exwb)
    BY <1>3 DEF WbRetire
  <2> QED
    BY <1>1, <1>3, <2>1 DEF IsaStays, IsaRegisters, IsaMem, IsaFlags, IsaHalted, Completed, Place
<1>4. CASE WbRetire /\ KeyLoadInFlight
  BY <1>4, StepKeyLoaded
<1> QED
  BY <1>2, <1>3, <1>4 DEF wb_stage

---------------------------------------------------------------------------
(* Steps between the stages *)

(* Timer and write back leave the place of the program alone. *)
LEMMA ChainWithin == ASSUME Chain, update_timer \/ wb_stage PROVE ArchPc' = ArchPc
  BY ChainIdle DEF update_timer, TimerOff, TimerOn, TimerFrame, wb_stage, WbBubble, WbRetire,
                   pipe, flush, pipeline, BeforeEx

(* What the machine's state is made of. *)
LEMMA Stays ==
  ASSUME UNCHANGED <<registers, f, mem, halted, mem_history>>, csr'.STATUS = csr.STATUS,
         InFlight' = InFlight, ArchPc' = ArchPc
  PROVE  UNCHANGED <<IsaRegisters, IsaFlags, Place, IsaMem, IsaHalted>>
<1>1. KeyLoadInFlight' = KeyLoadInFlight
  BY KeyLoadKept
<1>2. \A e : RegsAfter(e)' = RegsAfter(e) /\ MemAfter(e)' = MemAfter(e)
  BY DEF RegsAfter, MemAfter, LoadFromMemory, LoadValue, Hits, Hit
<1>3. \A e : FlagsAfter(e)' = FlagsAfter(e) /\ HaltedAfter(e)' = HaltedAfter(e)
  BY DEF FlagsAfter, HaltedAfter
<1> QED
  BY <1>1, <1>2, <1>3 DEF IsaRegisters, IsaMem, IsaFlags, IsaHalted, Completed, Place

(* A tick is one of the machine, or invisible. *)
LEMMA StepTimer ==
  ASSUME TypeOK, update_timer \/ UpdateTimer, ArchPc' = ArchPc
  PROVE  Sequential!Tick \/ IsaStays
<1>1. /\ UNCHANGED <<registers, f, mem, halted, mem_history>> /\ InFlight' = InFlight
  BY DEF update_timer, TimerOff, TimerOn, TimerFrame, UpdateTimer, HostFrame, InFlight, pipe
<1>2. CASE TimerOff
  BY <1>1, <1>2, Stays DEF TimerOff, IsaStays
<1>3. CASE TimerOn \/ UpdateTimer
  <2>1. TimerEnabled(csr) /\ csr' = Ticked(csr)
    BY <1>3 DEF TimerOn, UpdateTimer
  <2>2. csr'.STATUS = csr.STATUS
    BY <2>1 DEF Ticked, TypeOK, CsrFile, Csr
  <2>3. UNCHANGED <<IsaRegisters, IsaFlags, Place, IsaMem, IsaHalted>>
    BY <1>1, <2>2, Stays
  <2> QED
    BY <2>1, <2>3, SameMachine DEF Sequential!Tick
<1> QED
  BY <1>2, <1>3 DEF update_timer

(* A key joins the queue behind whatever the store in flight does.         *)
LEMMA PushBehind ==
  ASSUME NEW m \in Memory, NEW a, NEW v, NEW k
  PROVE  /\ write_u32(push_key(m, k), a, v) = push_key(write_u32(m, a, v), k)
         /\ write_u8(push_key(m, k), a, v) = push_key(write_u8(m, a, v), k)
<1>1. /\ push_key(m, k).data = m.data
      /\ read_u32_direct(push_key(m, k), a) = read_u32_direct(m, a)
      /\ read_u8(push_key(m, k), a) = read_u8(m, a)
  BY DEF push_key, Memory, read_u32_direct, read_u8
<1>2. ASSUME NEW w
      PROVE  write_u32_direct(push_key(m, k), a, w) = push_key(write_u32_direct(m, a, w), k)
  BY DEF push_key, Memory, write_u32_direct
<1>3. write_u32(push_key(m, k), a, v) = push_key(write_u32(m, a, v), k)
  <2>1. CASE a \in MmioPort
    BY <2>1 DEF write_u32, push_key, Memory
  <2>2. CASE a \notin MmioPort
    BY <1>2, <2>2 DEF write_u32
  <2> QED
    BY <2>1, <2>2
<1>4. write_u8(push_key(m, k), a, v) = push_key(write_u8(m, a, v), k)
  BY <1>1, <1>2 DEF write_u8
<1> QED
  BY <1>3, <1>4

(* A key arrives at both. *)
LEMMA StepKey ==
  ASSUME TypeOK, NEW k \in Key, KeyArrives(k), ArchPc' = ArchPc, InFlight' = InFlight,
         UNCHANGED <<registers, f, halted, mem_history>>
  PROVE  Sequential!KeyPress
<1>1. mem' = push_key(mem, k) /\ csr' = [csr EXCEPT !.IPENDING = Raise(@, EXT0)]
  BY DEF KeyArrives, trigger_interrupt
<1>2. csr'.STATUS = csr.STATUS
  BY <1>1 DEF TypeOK, CsrFile, Csr
<1>3. KeyLoadInFlight' = KeyLoadInFlight /\ Place' = Place
  BY KeyLoadKept DEF Place
<1>4. FlagsAfter(InFlight)' = FlagsAfter(InFlight) /\ HaltedAfter(InFlight)' = HaltedAfter(InFlight)
  BY <1>2 DEF FlagsAfter, HaltedAfter
<1>5. mem \in Memory
  BY DEF TypeOK
<1> DEFINE e == InFlight
<1>6. ASSUME e.is_valid, ~KeyLoadInFlight
      PROVE  /\ RegsAfter(e)' = RegsAfter(e)
             /\ MemAfter(e)' = push_key(MemAfter(e), k)
  <2>1. Hits(e.mem_addr)' = Hits(e.mem_addr) /\ Hit(e.mem_addr)' = Hit(e.mem_addr)
    BY DEF Hits, Hit
  <2>2. LoadFromMemory(e)' = LoadFromMemory(e)
    BY <2>1 DEF LoadFromMemory
  <2>3. LoadFromMemory(e) => e.mem_addr \notin KbdPort
    BY <1>6 DEF KeyLoadInFlight, KbdPort
  <2>4. /\ mem'.data = mem.data
        /\ \A a : read_u32_direct(mem', a) = read_u32_direct(mem, a)
    BY <1>1, <1>5 DEF push_key, Memory, read_u32_direct
  <2>5. \A a : read_u8(mem', a) = read_u8(mem, a)
    BY <2>4 DEF read_u8
  <2>6. LoadFromMemory(e) => /\ read_u32(mem', e.mem_addr) = read_u32(mem, e.mem_addr)
                            /\ after_read_u32(mem, e.mem_addr) = mem
                            /\ after_read_u32(mem', e.mem_addr) = mem'
    BY <2>3, <2>4 DEF read_u32, after_read_u32, KbdPort
  <2>7. e.mem_read => LoadValue(e)' = LoadValue(e)
    BY <2>1, <2>5, <2>6 DEF LoadValue, LoadFromMemory
  <2>8. RegsAfter(e)' = RegsAfter(e)
    BY <2>7 DEF RegsAfter
  <2>9. MemAfter(e) = IF ~e.mem_write THEN mem
                      ELSE IF e.mem_u8 THEN write_u8(mem, e.mem_addr, e.w_data)
                      ELSE write_u32(mem, e.mem_addr, e.w_data)
    BY <2>6 DEF MemAfter
  <2>10. MemAfter(e)' = IF ~e.mem_write THEN mem'
                        ELSE IF e.mem_u8 THEN write_u8(mem', e.mem_addr, e.w_data)
                        ELSE write_u32(mem', e.mem_addr, e.w_data)
    BY <2>2, <2>6 DEF MemAfter
  <2>11. MemAfter(e)' = push_key(MemAfter(e), k)
    BY <1>1, <1>5, <2>9, <2>10, PushBehind
  <2> QED
    BY <2>8, <2>11
<1>7. /\ IsaRegisters' = IsaRegisters /\ IsaFlags' = IsaFlags /\ IsaHalted' = IsaHalted
      /\ IsaMem' = push_key(IsaMem, k)
  BY <1>1, <1>3, <1>4, <1>6 DEF IsaRegisters, IsaMem, IsaFlags, IsaHalted, Completed
<1>8. csr' = [csr EXCEPT !.IPENDING = Sequential!Raise(@, Sequential!EXT0)]
  BY <1>1, SameMachine
<1>9. IsaMem' = Sequential!push_key(IsaMem, k)
  BY <1>7, SameMemory
<1> QED
  BY <1>3, <1>7, <1>8, <1>9 DEF Sequential!KeyPress

(* A line that goes up or down. *)
LEMMA StepLine ==
  ASSUME TypeOK, SetIrq \/ TriggerInterrupt, ArchPc' = ArchPc, InFlight' = InFlight
  PROVE  Sequential!Line
<1>1. UNCHANGED <<registers, f, mem, halted, mem_history>>
  BY DEF SetIrq, TriggerInterrupt, HostFrame
<1>2. PICK i \in Bit : \E w \in {Raise(csr.IPENDING, i), Clear(csr.IPENDING, i)} :
        csr' = [csr EXCEPT !.IPENDING = w]
  <2>1. 0 .. NIRQ - 1 \subseteq Bit
    BY LineBits
  <2> QED
    BY <2>1 DEF SetIrq, TriggerInterrupt, trigger_interrupt
<1>3. csr'.STATUS = csr.STATUS
  BY <1>2 DEF TypeOK, CsrFile, Csr
<1>4. UNCHANGED <<IsaRegisters, IsaFlags, Place, IsaMem, IsaHalted>>
  BY <1>1, <1>3, Stays
<1>5. i \in Sequential!Bit
  BY SameNumbers
<1>6. /\ Sequential!Raise(csr.IPENDING, i) = Raise(csr.IPENDING, i)
      /\ Sequential!Clear(csr.IPENDING, i) = Clear(csr.IPENDING, i)
  BY SameMachine
<1> QED
  BY <1>2, <1>4, <1>5, <1>6 DEF Sequential!Line

(* Saving the frame and taking the interrupt down may come in either order. *)
LEMMA FrameAndLine ==
  ASSUME NEW c \in CsrFile, NEW w
  PROVE  [WithFrame(c) EXCEPT !.IPENDING = w] = WithFrame([c EXCEPT !.IPENDING = w])
<1> DEFINE t == FrameTop(c)
           b == [c EXCEPT !.IPENDING = w]
<1>1. FrameTop(b) = t
  BY DEF FrameTop, CsrFile, Csr
<1>2. WithFrame(c) = [c EXCEPT !.SCRATCH = t, !.SP = t]
  BY DEF WithFrame
<1>3. WithFrame(b) = [b EXCEPT !.SCRATCH = t, !.SP = t]
  BY <1>1 DEF WithFrame
<1> HIDE DEF t
<1>4. [[c EXCEPT !.SCRATCH = t, !.SP = t] EXCEPT !.IPENDING = w] = [b EXCEPT !.SCRATCH = t, !.SP = t]
  BY DEF CsrFile, Csr
<1> QED
  BY <1>2, <1>3, <1>4

(* An accepted interrupt is one of the machine, at the same instruction. *)
LEMMA StepInterrupt ==
  ASSUME TypeOK, Chain, IntAccept PROVE Sequential!Interrupt
<1> DEFINE code == IrqCode(csr)
           entered == EnterHandler(csr, f, ReturnPc, code)
           c == [entered EXCEPT !.IPENDING = Clear(@, code)]
<1>1. /\ stage = "int" /\ stage' = "ex" /\ Accepts(csr)
      /\ csr' = [WithFrame(entered) EXCEPT !.IPENDING = Clear(@, code)]
      /\ mem' = SaveRegisters(after_read_u32(mem, Vector(csr, code)), csr.SP, registers)
      /\ UNCHANGED <<registers, f, halted>>
  BY DEF IntAccept, AcceptInterrupt
<1>2. ~InFlight.is_valid /\ ~InFlight'.is_valid
  BY <1>1 DEF InFlight, ZeroExWb
<1>3. /\ IsaRegisters = registers /\ IsaMem = mem /\ IsaFlags = f /\ IsaHalted = halted
      /\ Place = ArchPc
      /\ IsaRegisters' = registers' /\ IsaMem' = mem' /\ IsaFlags' = f' /\ IsaHalted' = halted'
      /\ Place' = ArchPc'
  BY <1>2 DEF IsaRegisters, IsaMem, IsaFlags, IsaHalted, Completed, Place, KeyLoadInFlight
<1>4. ArchPc = ReturnPc
  BY <1>1 DEF ArchPc, ReturnPc, Oldest, Chain, BeforeEx
<1>5. ArchPc' = HandlerAddr(code)
  BY ChainAccept
<1>6. entered \in CsrFile /\ WithFrame(entered).IPENDING = entered.IPENDING
  <2>1. ReturnPc \in Word
    BY DEF ReturnPc, TypeOK, IfId, IdEx
  <2>2. csr \in CsrFile /\ f \in Flags /\ code \in Int
    BY IrqCodeType, MachineAssumption DEF TypeOK
  <2>3. entered \in CsrFile
    BY <2>1, <2>2, EnterHandlerType
  <2> HIDE DEF entered
  <2> QED
    BY <2>3 DEF WithFrame, CsrFile, Csr
<1> HIDE DEF entered, code
<1>7. csr' = WithFrame(c)
  BY <1>1, <1>6, FrameAndLine
<1>8. Sequential!IrqCode(csr) = code /\ Sequential!Accepts(csr)
  BY <1>1, SameInterrupts DEF code
<1>9. Sequential!EnterHandler(csr, IsaFlags, Place, code) = entered
  BY <1>3, <1>4, SameInterrupts DEF entered
<1>10. c = [entered EXCEPT !.IPENDING = Sequential!Clear(@, code)]
  BY SameMachine
<1> HIDE DEF c
<1>11. Sequential!Handle(code, c, TRUE)
  BY <1>1, <1>3, <1>5, <1>7, Handling
<1> QED
  BY <1>8, <1>9, <1>10, <1>11 DEF Sequential!Interrupt

(* The rest is invisible. *)
LEMMA StepInside ==
  ASSUME TypeOK, Chain, IntNone \/ ExBubble \/ ExDivTrap \/ id_stage \/ if_stage \/ Clock
  PROVE  IsaStays
<1>1. ArchPc' = ArchPc
  <2>1. CASE IntNone \/ ExDivTrap
    BY <2>1, ChainIdle DEF IntNone, ExDivTrap, pipe, flush, pipeline, BeforeEx
  <2>2. CASE ExBubble \/ id_stage \/ if_stage \/ Clock
    BY <2>2, ChainBubble, ChainId, ChainIf, ChainClock
  <2> QED
    BY <2>1, <2>2
<1>2. UNCHANGED <<registers, csr, f, mem, halted, mem_history>>
  BY DEF IntNone, ExBubble, ExDivTrap, id_stage, IdBubble, IdDecode, if_stage, IfFlushed,
         IfFetch, Clock
<1>3. CASE IntNone \/ ExDivTrap \/ id_stage \/ if_stage \/ Clock
  <2>1. InFlight' = InFlight
    BY <1>3 DEF InFlight, IntNone, ExDivTrap, id_stage, IdBubble, IdDecode, if_stage, IfFlushed,
                IfFetch, Clock, pipe
  <2> QED
    BY <1>1, <1>2, <2>1, Stays DEF IsaStays
<1>4. CASE ExBubble
  <2>1. ~InFlight.is_valid /\ ~InFlight'.is_valid
    BY <1>4 DEF ExBubble, InFlight, ZeroExWb, TypeOK, ExWb
  <2> QED
    BY <1>1, <1>2, <2>1 DEF IsaStays, IsaRegisters, IsaMem, IsaFlags, IsaHalted, Completed, Place,
                            KeyLoadInFlight
<1> QED
  BY <1>3, <1>4

(* Between two steps: run()'s loop and the calls of the host. *)
LEMMA StepOutside ==
  ASSUME PlainHost, TypeOK, Chain, LoopContinue \/ LoopReturn \/ Host
  PROVE  Sequential!KeyPress \/ Sequential!Line \/ Sequential!Tick \/ IsaStays
<1>1. ~SetRegister /\ ~SetFlags /\ ~LoadProgram /\ ~HandleInterrupt /\ ~GetMemory /\ ~Reset
  BY DEF PlainHost, SetRegister, SetFlags, LoadProgram, HandleInterrupt, GetMemory, Reset, Calls
<1>2. ArchPc' = ArchPc
  BY <1>1, ChainBetween, Undisturbed DEF PlainHost, RegistersLeftAlone
<1>3. InFlight' = InFlight /\ UNCHANGED <<registers, f, halted, mem_history>>
  <2>1. CASE LoopContinue \/ LoopReturn \/ Run \/ Step
    BY <2>1 DEF LoopContinue, LoopReturn, Run, Step, Calls, StepBegins, InFlight, pipe
  <2>2. CASE \/ SetIrq \/ TriggerInterrupt \/ PushKey \/ Breakpoints \/ ContinueExecution
             \/ UpdateTimer
    BY <2>2 DEF SetIrq, TriggerInterrupt, PushKey, Breakpoints, ContinueExecution, UpdateTimer,
                Calls, HostFrame, InFlight, pipe
  <2> QED
    BY <1>1, <2>1, <2>2 DEF Host
<1>4. CASE SetIrq \/ TriggerInterrupt
  BY <1>2, <1>3, <1>4, StepLine
<1>5. CASE \E k \in Key : KeyArrives(k)
  BY <1>2, <1>3, <1>5, StepKey
<1>6. CASE UNCHANGED <<mem, csr>>
  BY <1>2, <1>3, <1>6, Stays DEF IsaStays
<1>7. \/ SetIrq \/ TriggerInterrupt \/ UpdateTimer \/ UNCHANGED <<mem, csr>>
      \/ \E k \in Key : KeyArrives(k)
  BY <1>1 DEF LoopContinue, LoopReturn, StepBegins, Host, Run, Step, PushKey, Breakpoints,
              ContinueExecution
<1> QED
  BY <1>2, <1>4, <1>5, <1>6, <1>7, StepTimer

---------------------------------------------------------------------------
(* The refinement *)

(* The initial states map to initial states, *)
LEMMA RefinesInit == ASSUME Init PROVE Sequential!Init
<1>1. /\ registers = ZeroRegisters /\ csr = ZeroCsr /\ f = NoFlags /\ halted = FALSE
      /\ mem.data \in [Addr -> Word]
  BY TypeInit DEF Init, TypeOK, Memory
<1>2. mem.keyboard_buffer = << >> /\ mem.out = << >>
  BY DEF Init, Loaded, ZeroMemory
<1>3. ~InFlight.is_valid /\ ArchPc = 0
  BY DEF Init, InFlight, ZeroExWb, ArchPc, Oldest, ZeroIfId, ZeroIdEx
<1>4. /\ IsaRegisters = registers /\ IsaMem = mem /\ IsaFlags = f /\ IsaHalted = halted /\ Place = 0
  BY <1>3 DEF IsaRegisters, IsaMem, IsaFlags, IsaHalted, Completed, Place, KeyLoadInFlight
<1> QED
  BY <1>1, <1>2, <1>4, SameNumbers, SameMachine DEF Sequential!Init

(* and every step to a step of the machine or to none. *)
LEMMA RefinesNext ==
  ASSUME PlainHost, TypeOK, Operands, Chain, Apart, Disciplined, [Next]_vars
  PROVE  [Sequential!Next]_(Sequential!isa_vars)
<1>1. Sequential!Next \/ IsaStays
  <2>1. CASE update_timer \/ wb_stage
    <3>1. ArchPc' = ArchPc
      BY <2>1, ChainWithin
    <3> QED
      BY <2>1, <3>1, StepTimer, StepWb DEF Sequential!Next, Sequential!Execute
  <2>2. CASE IntAccept
    BY <2>2, StepInterrupt DEF Sequential!Next
  <2>3. CASE ex_stage /\ idex.is_valid /\ ~ExDivTrap
    <3>1. ExecutesOne
      BY <2>3 DEF ExecutesOne, ex_stage, Executes, ExBubble, ExAlu, ExCmp, ExMov, ExLui, ExAui,
           ExLoadi, ExNop, ExLoad, ExStore, ExJmp, ExBjmp, ExCall, ExRet, ExSyscall, ExTrap,
           ExIret, ExCsrr, ExCsrw, ExPush, ExPop, ExInvalid
    <3> QED
      BY <3>1, StepExecute DEF Ready, Sequential!Next
  <2>4. CASE ex_stage /\ (~idex.is_valid \/ ExDivTrap)
    <3>1. ExBubble \/ ExDivTrap
      BY <2>4 DEF ex_stage, Executes, ExAlu, ExCmp, ExMov, ExLui, ExAui, ExLoadi,
           ExNop, ExLoad, ExStore, ExJmp, ExBjmp, ExCall, ExRet, ExSyscall, ExTrap, ExIret,
           ExCsrr, ExCsrw, ExPush, ExPop, ExInvalid
    <3> QED
      BY <3>1, StepInside
  <2>5. CASE IntNone \/ id_stage \/ if_stage \/ Clock
    BY <2>5, StepInside
  <2>6. CASE LoopContinue \/ LoopReturn \/ Host
    BY <2>6, StepOutside DEF Sequential!Next
  <2>7. CASE UNCHANGED vars
    <3>1. /\ UNCHANGED <<registers, csr, f, mem, halted, mem_history>>
          /\ stage' = stage /\ pc' = pc /\ ifid' = ifid /\ idex' = idex /\ exwb' = exwb
          /\ next_ifid' = next_ifid /\ next_idex' = next_idex /\ next_exwb' = next_exwb
          /\ need_flush_ifid' = need_flush_ifid
      BY <2>7 DEF vars, pipe, flush
    <3>2. InFlight' = InFlight /\ ArchPc' = ArchPc
      BY <3>1 DEF InFlight, ArchPc, Oldest
    <3> QED
      BY <3>1, <3>2, Stays DEF IsaStays
  <2> QED
    BY <2>1, <2>2, <2>3, <2>4, <2>5, <2>6, <2>7 DEF Next, Thread, handle_interrupt
<1> QED
  BY <1>1 DEF IsaStays, Sequential!isa_vars

(* Forwarding, the flag bypass, the write history, prediction, flushes,    *)
(* interrupts and halts together show a program nothing but its            *)
(* instructions one after another, for every program that keeps code,      *)
(* words, bytes and the stack apart and does not use PUSH.                 *)
THEOREM Refinement == PlainHost => (Spec /\ []Disciplined => ImplementsIsa)
<1> SUFFICES ASSUME PlainHost PROVE Spec /\ []Disciplined => ImplementsIsa
  OBVIOUS
<1>1. RegistersLeftAlone
  BY DEF PlainHost, RegistersLeftAlone
<1>2. Init => Sequential!Init
  BY RefinesInit
<1>3. TypeOK /\ Operands /\ Chain /\ Apart /\ Disciplined /\ [Next]_vars
        => [Sequential!Next]_(Sequential!isa_vars)
  BY RefinesNext
<1> QED
  BY <1>1, <1>2, <1>3, OperandsKept, ChainKept, ApartKept, TypeCorrect, PTL
     DEF Spec, ImplementsIsa, Sequential!Spec
=============================================================================
