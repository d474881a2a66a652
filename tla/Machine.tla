------------------------------ MODULE Machine ------------------------------
(***************************************************************************)
(* The machine as its programs see it: registers, control and status       *)
(* registers, decoded instructions, and what entering and leaving an       *)
(* interrupt handler does to them (include/types.hpp, include/cpu/csr.hpp, *)
(* include/isa/, and the parts of src/cpu.cpp named at each definition).   *)
(* There are no variables here: the pipelined processor (Cpu) and the      *)
(* one-instruction-at-a-time machine it implements (Isa) both use them.    *)
(***************************************************************************)
EXTENDS Memory, FiniteSets

CONSTANTS
  NREG,            \* REGISTER_COUNT (32)
  NIRQ,            \* interrupt lines handle_interrupt looks at (16)
  SWI,             \* interrupt code of SYSCALL (5)
  CODES,           \* number of TRAP codes, imm26 & 0xFF (256)
  UPPER_LSB,       \* LUI and AUI shift their immediate by this (11)
  Decode           \* decode_inst: from instruction words to decoded instructions

Reg == 0 .. NREG - 1

Csr == {"EPC", "CAUSE", "STATUS", "IVTBR", "IMASK", "IPENDING", "SEPC", "SSTATUS",
        "SCRATCH", "CYCLE", "TPERIOD", "TCONTROL", "TCOUNTER", "EFLAGS", "SP"}

Opcode == AluOp \union
  {"CMP", "MOV", "LUI", "AUI", "LOADI", "LOADW", "LOADB", "STOREW", "STOREB", "JMP",
   "BJMP", "CALL", "CALLR", "RET", "HLT", "NOP", "SYSCALL", "TRAP", "IRET", "CSRR",
   "CSRW", "CSRWI", "PUSH", "POP", "INVALID"}

(* A decoded instruction.  imm stands for whichever of imm19, imm21,       *)
(* imm16, imm26, imm11, addr23 and addr26 the format has, already sign     *)
(* extended to a word; reg_form says that the format is R.                 *)
Instruction == [opcode : Opcode, reg_form : BOOLEAN, rd : Reg, rs1 : Reg, rs2 : Reg,
                csr : Csr, imm : Word, cond : Cond]

TIMER == 0              \* interrupt codes of include/cpu/csr.hpp
EXT0  == 1
IE    == 0              \* bits of STATUS
PIE   == 1
MODE  == 2
ENABLE == 0             \* bits of TCONTROL
TMODE  == 1
INTERRUPT == WIDTH - 1  \* the interrupt bit of CAUSE
STACK_START == MEMORY_SIZE - 1

ASSUME MachineAssumption ==
  /\ NREG \in Nat /\ NREG > 1 /\ NREG <= WORDS
  /\ NIRQ \in Nat /\ NIRQ > EXT0 /\ NIRQ <= WIDTH
  /\ SWI \in Nat /\ CODES \in Nat /\ CODES > 0 /\ UPPER_LSB \in Bit
  /\ Decode \in [Word -> Instruction]

RegFile == [Reg -> Word]
CsrFile == [Csr -> Word]

(* Reading and writing a register: r0 is zero whatever is written to it. *)
Read(regs, r)        == IF r = 0 THEN 0 ELSE regs[r]
WriteReg(regs, r, v) == IF r = 0 THEN regs ELSE [regs EXCEPT ![r] = v]

ZeroRegisters == [r \in Reg |-> 0]
ZeroCsr       == [[c \in Csr |-> 0] EXCEPT !.SP = STACK_START]

Raise(w, code) == Num(BitsOf(w) \union {code})      \* w | (1u << code)
Clear(w, code) == Num(BitsOf(w) \ {code})           \* w & ~(1u << code)

---------------------------------------------------------------------------
(* The timer *)

TimerEnabled(c) == ENABLE \in BitsOf(c.TCONTROL)

(* Faulty variant: the other pending lines are lost. *)
Ticked_OverwritesLines(c) ==
  LET count == Plus(c.TCOUNTER, 1)
  IN  IF count < c.TPERIOD THEN [c EXCEPT !.TCOUNTER = count]
      ELSE [c EXCEPT !.TCOUNTER = 0,
                     !.IPENDING = Num({TIMER}),
                     !.TCONTROL = IF TMODE \in BitsOf(@) THEN @ ELSE Clear(@, ENABLE)]

(* The count goes up.  When it reaches the period the interrupt is raised, *)
(* the count starts again, and a one-shot timer switches itself off.       *)
Ticked(c) ==
  LET count == Plus(c.TCOUNTER, 1)
  IN  IF count < c.TPERIOD THEN [c EXCEPT !.TCOUNTER = count]
      ELSE [c EXCEPT !.TCOUNTER = 0,
                     !.IPENDING = Raise(@, TIMER),
                     !.TCONTROL = IF TMODE \in BitsOf(@) THEN @ ELSE Clear(@, ENABLE)]

---------------------------------------------------------------------------
(* Interrupts *)

Pending(c) == BitsOf(c.IPENDING) \intersect BitsOf(c.IMASK)
Accepts(c) == IE \in BitsOf(c.STATUS) /\ Pending(c) # {}

(* The lowest pending line; NIRQ when only bits above the lines are set. *)
IrqCode(c) ==
  LET lines == Pending(c) \intersect (0 .. NIRQ - 1)
  IN  IF lines = {} THEN NIRQ ELSE CHOOSE i \in lines : \A j \in lines : i <= j

(* Faulty variant: interrupts stay enabled in the handler. *)
EnterStatus_StaysOn(w) == Num(BitsOf(w) \union {MODE})

EnterStatus(w) ==
  LET s == BitsOf(w)
  IN  Num((s \ {IE, PIE}) \union {MODE} \union (IF IE \in s THEN {PIE} ELSE {}))

(* Faulty variant: interrupts stay disabled. *)
LeaveStatus_StaysOff(w) == Num(BitsOf(w) \ {MODE})

(* Faulty variant: IRET does not leave the handler. *)
LeaveStatus_KeepsMode(w) ==
  LET s == BitsOf(w)
  IN  Num(s \union (IF PIE \in s THEN {IE} ELSE {}))

(* IRET sets IE when PIE is set, and never clears it. *)
LeaveStatus(w) ==
  LET s == BitsOf(w)
  IN  Num((s \ {MODE}) \union (IF PIE \in s THEN {IE} ELSE {}))

(* What interrupts, SYSCALL and TRAP record before they enter a handler. *)
EnterHandler(c, fl, epc, code) ==
  [c EXCEPT !.EPC    = epc,
            !.CAUSE  = Num({INTERRUPT} \union BitsOf(code)),
            !.EFLAGS = Num(FlagBits(fl)),
            !.STATUS = EnterStatus(@)]

Vector(c, code) == Plus(c.IVTBR, code)

(* The frame of all registers but r0, below the stack pointer, and the     *)
(* registers that IRET takes from the frame at an address.                 *)
FrameSize   == NREG - 1
FrameTop(c) == Minus(c.SP, FrameSize)

(* Faulty variant: the registers are pushed in the other order. *)
SaveRegisters_Reversed(m, sp, regs) ==
  [m EXCEPT !.data = [a \in Addr |->
     LET below == Minus(sp, a)
     IN  IF below \in 1 .. FrameSize THEN regs[below] ELSE @[a]]]

SaveRegisters(m, sp, regs) ==
  [m EXCEPT !.data = [a \in Addr |->
     LET below == Minus(sp, a)
     IN  IF below \in 1 .. FrameSize THEN regs[NREG - below] ELSE @[a]]]

RestoredRegisters(m, sp, regs) ==
  [r \in Reg |-> IF r = 0 THEN regs[r] ELSE read_u32_direct(m, Plus(sp, r - 1))]

(* Interrupts and SYSCALL also leave the address of the frame in SCRATCH. *)
WithFrame(c) == [c EXCEPT !.SCRATCH = FrameTop(c), !.SP = FrameTop(c)]
=============================================================================
