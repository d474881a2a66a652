-------------------------------- MODULE Isa --------------------------------
(***************************************************************************)
(* What the processor promises its programs: one instruction at a time.    *)
(* Each action executes the instruction at pc completely; there is no      *)
(* pipeline, no prediction, no forwarding and no write history.  Interrupts*)
(* and the timer come between two instructions.                            *)
(*                                                                         *)
(* The meaning of each instruction is that of its case in ex_stage         *)
(* together with its write back (src/cpu.cpp).  Cpu implements this        *)
(* specification under the mapping of module CpuRefinement.                *)
(***************************************************************************)
EXTENDS Machine

CONSTANT Keys      \* the keys that may be pressed

VARIABLES registers, csr, f, pc, mem, halted

isa_vars == <<registers, csr, f, pc, mem, halted>>

d      == Decode[read_u32_direct(mem, pc)]
rs1    == Read(registers, d.rs1)
rs2    == Read(registers, d.rs2)
rd     == Read(registers, d.rd)
next   == Plus(pc, 1)
target == Plus(pc, d.imm)

(* The instruction at pc is one of ops. *)
At(ops)    == d.opcode \in ops
Sets(v)    == registers' = WriteReg(registers, d.rd, v)
Goes(addr) == pc' = addr

Arithmetic ==
  /\ At(AluOp)
  /\ LET a == IF d.reg_form \/ At(ShiftOp \union {"MUL", "DIV"}) THEN rs1 ELSE rd
         b == IF d.reg_form THEN rs2 ELSE d.imm
         result == AluResult(d.opcode, a, b)
     IN  Sets(result) /\ f' = AluFlags(d.opcode, result, a, b)
  /\ Goes(next) /\ UNCHANGED <<csr, mem, halted>>

Compare ==
  /\ At({"CMP"})
  /\ LET b == IF d.reg_form THEN rs2 ELSE d.imm
     IN  f' = update_flags_sub(Minus(rs1, b), rs1, b)
  /\ Goes(next) /\ UNCHANGED <<registers, csr, mem, halted>>

Move ==
  /\ \/ At({"MOV"})   /\ Sets(rs1)
     \/ At({"LUI"})   /\ Sets(Wrap(d.imm * 2^UPPER_LSB))
     \/ At({"AUI"})   /\ Sets(Wrap(rd + d.imm * 2^UPPER_LSB))
     \/ At({"LOADI"}) /\ Sets(d.imm)
     \/ At({"CSRR"})  /\ Sets(csr[d.csr])
  /\ Goes(next) /\ UNCHANGED <<csr, f, mem, halted>>

Load ==
  /\ LET a == Plus(rs1, d.imm)
     IN  \/ At({"LOADW"}) /\ Sets(read_u32(mem, a)) /\ mem' = after_read_u32(mem, a)
         \/ At({"LOADB"}) /\ Sets(read_u8(mem, a)) /\ UNCHANGED mem
  /\ Goes(next) /\ UNCHANGED <<csr, f, halted>>

Store ==
  /\ \/ At({"STOREW"}) /\ mem' = write_u32(mem, Plus(rs1, d.imm), rd)
     \/ At({"STOREB"}) /\ mem' = write_u8(mem, Plus(rs1, d.imm), rd)
  /\ Goes(next) /\ UNCHANGED <<registers, csr, f, halted>>

Branch ==
  /\ \/ At({"JMP"}) /\ Goes(target)
     \/ At({"BJMP"}) /\ Goes(IF Taken(d.cond, f) THEN target ELSE next)
  /\ UNCHANGED <<registers, csr, f, mem, halted>>

Push ==
  /\ LET sp == Minus(csr.SP, 1)
     IN  /\ csr' = [csr EXCEPT !.SP = sp]
         /\ \/ At({"PUSH"})  /\ mem' = write_u32(mem, sp, rs1) /\ Goes(next)
            \/ At({"CALL"})  /\ mem' = write_u32(mem, sp, next) /\ Goes(target)
            \/ At({"CALLR"}) /\ mem' = write_u32(mem, sp, next) /\ Goes(rs1)
  /\ UNCHANGED <<registers, f, halted>>

Pop ==
  /\ csr' = [csr EXCEPT !.SP = Plus(@, 1)]
  /\ mem' = after_read_u32(mem, csr.SP)
  /\ \/ At({"POP"}) /\ Sets(read_u32(mem, csr.SP)) /\ Goes(next)
     \/ At({"RET"}) /\ Goes(read_u32(mem, csr.SP)) /\ UNCHANGED registers
  /\ UNCHANGED <<f, halted>>

WriteCsr ==
  /\ At({"CSRW", "CSRWI"})
  /\ csr' = [csr EXCEPT ![d.csr] = IF At({"CSRW"}) THEN rs1 ELSE d.imm]
  /\ Goes(next) /\ UNCHANGED <<registers, f, mem, halted>>

(* HLT stops the machine only outside a handler. *)
Halt ==
  /\ At({"HLT"})
  /\ halted' = (halted \/ MODE \notin BitsOf(csr.STATUS))
  /\ Goes(next) /\ UNCHANGED <<registers, csr, f, mem>>

Nothing == At({"NOP", "INVALID"}) /\ Goes(next) /\ UNCHANGED <<registers, csr, f, mem, halted>>

(* Entering the handler of an interrupt code: c is what csr becomes, save  *)
(* whether the registers are pushed.                                       *)
Handle(code, c, save) ==
  LET fetched == after_read_u32(mem, Vector(csr, code))
  IN  /\ csr' = IF save THEN WithFrame(c) ELSE c
      /\ mem' = IF save THEN SaveRegisters(fetched, csr.SP, registers) ELSE fetched
      /\ Goes(read_u32(mem, Vector(csr, code)))
      /\ UNCHANGED <<registers, f, halted>>

Trap ==
  \/ At({"SYSCALL"}) /\ Handle(SWI, EnterHandler(csr, f, next, SWI), TRUE)
  \/ At({"TRAP"}) /\ LET code == d.imm % CODES
                     IN  Handle(code, EnterHandler(csr, f, next, code), FALSE)

Return ==
  /\ At({"IRET"})
  /\ registers' = RestoredRegisters(mem, csr.SCRATCH, registers)
  /\ f' = BitFlags(BitsOf(csr.EFLAGS))
  /\ csr' = [csr EXCEPT !.SP = Plus(csr.SCRATCH, FrameSize), !.STATUS = LeaveStatus(@)]
  /\ Goes(csr.EPC) /\ UNCHANGED <<mem, halted>>

Execute ==
  \/ Arithmetic \/ Compare \/ Move \/ Load \/ Store \/ Branch \/ Push \/ Pop
  \/ WriteCsr \/ Halt \/ Nothing \/ Trap \/ Return

(* An enabled interrupt takes the place of the next instruction. *)
Interrupt ==
  /\ Accepts(csr)
  /\ LET code    == IrqCode(csr)
         entered == EnterHandler(csr, f, pc, code)
     IN  Handle(code, [entered EXCEPT !.IPENDING = Clear(@, code)], TRUE)

Tick == TimerEnabled(csr) /\ csr' = Ticked(csr) /\ UNCHANGED <<registers, f, pc, mem, halted>>

(* What the world outside does to an interrupt line and the keyboard.  It  *)
(* may take a line away, so that implementing this machine says nothing    *)
(* about lines that get lost: LinesKept in CpuSystem does.                 *)
Line ==
  /\ \E i \in Bit : \E w \in {Raise(csr.IPENDING, i), Clear(csr.IPENDING, i)} :
       csr' = [csr EXCEPT !.IPENDING = w]
  /\ UNCHANGED <<registers, f, pc, mem, halted>>

KeyPress ==
  /\ \E k \in Keys : mem' = push_key(mem, k)
  /\ csr' = [csr EXCEPT !.IPENDING = Raise(@, EXT0)]
  /\ UNCHANGED <<registers, f, pc, halted>>

Init ==
  /\ registers = ZeroRegisters /\ csr = ZeroCsr /\ f = NoFlags /\ pc = 0
  /\ mem.data \in [Addr -> Word] /\ mem.keyboard_buffer = << >> /\ mem.out = << >>
  /\ halted = FALSE

Next == Execute \/ Interrupt \/ Tick \/ Line \/ KeyPress

Spec == Init /\ [][Next]_isa_vars
=============================================================================
