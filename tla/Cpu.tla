-------------------------------- MODULE Cpu --------------------------------
(***************************************************************************)
(* class CPU (src/cpu.cpp, include/cpu/): the pipelined processor.         *)
(*                                                                         *)
(* One call of step() is a fixed sequence of member functions on one       *)
(* thread:                                                                 *)
(*    update_timer, wb_stage, handle_interrupt, ex_stage, id_stage,        *)
(*    if_stage, and the flush and clock of the pipeline registers.         *)
(* Each is an action here; the variable stage says which comes next, so    *)
(* the order is the code's and no stage can be skipped.  ex_stage has one  *)
(* action per case of its switch.  Between two steps the control is in     *)
(* run()'s loop or in the host program that owns the CPU object.           *)
(*                                                                         *)
(* The pipeline registers are double buffered: x is the copy the stages    *)
(* read in this step, next_x the one they fill, and clock() exchanges      *)
(* them.  A stage that fills next_x only partly leaves in it what it held  *)
(* two steps earlier, as the code does.                                    *)
(***************************************************************************)
EXTENDS Machine, Predictor

CONSTANTS
  HIST,            \* entries of mem_history (8)
  HIST_RESET,      \* entries that reset() clears (4)
  RESIDUE,         \* what the storage of the object can hold before the constructor runs
  Program,         \* the memory images the host may load, sequences of words
  Key,             \* the keys that may be pressed
  MAX_KEYS,        \* bound: keys waiting in the keyboard queue
  VALUES,          \* bound: the values the host writes to registers and memory
  ADDRESSES,       \* bound: the addresses it uses: breakpoints, memory, program starts
  HOST             \* the member functions the host program calls

HostCall == {"run", "step", "set_irq", "trigger_interrupt", "push_key", "kbhit",
             "breakpoints", "continue_execution", "set_register", "set_flags", "reset",
             "load_program", "handle_interrupt", "update_timer", "get_memory"}

MemWrite == [valid : BOOLEAN, addr : Word, data : Word]
NoWrite  == [valid |-> FALSE, addr |-> 0, data |-> 0]
Slot     == 0 .. HIST - 1

ASSUME CpuAssumption ==
  /\ HIST \in Nat /\ HIST > 0 /\ HIST_RESET \in 0 .. HIST
  /\ RESIDUE \subseteq MemWrite
  /\ \A p \in Program : p \in Seq(Word)
  /\ Key \subseteq Word /\ MAX_KEYS \in Nat
  /\ VALUES \subseteq Word /\ ADDRESSES \subseteq Word
  /\ HOST \subseteq HostCall

VARIABLES
  stage,           \* which member function comes next
  in_run,          \* step() was called from run()
  registers, csr, f, pc, mem, halted, paused, breakpoint, branch_pred, mem_history,
  ifid, idex, exwb,                  \* pipeline registers the stages read
  next_ifid, next_idex, next_exwb,   \* pipeline registers the stages fill
  need_flush_ifid, need_flush_idex

pipe    == <<ifid, idex, exwb, next_ifid, next_idex, next_exwb>>
flush   == <<need_flush_ifid, need_flush_idex>>
debug   == <<paused, breakpoint>>
vars    == <<stage, in_run, registers, csr, f, pc, mem, halted, debug, branch_pred,
             mem_history, pipe, flush>>

IfId == [inst : Word, curr_pc : Word, predicted_pc : Word, is_valid : BOOLEAN]

IdEx == [d : Instruction, v_rs1 : Word, v_rs2 : Word, curr_v_rd : Word,
         reg_write : BOOLEAN, mem_read : BOOLEAN, mem_write : BOOLEAN,
         curr_pc : Word, predicted_pc : Word, is_valid : BOOLEAN]

ExWb == [opcode : Opcode, alu_result : Word, mem_read_data : Word, mem_addr : Word,
         w_data : Word, n_rd : Reg, reg_write : BOOLEAN, mem_read : BOOLEAN,
         mem_write : BOOLEAN, mem_u8 : BOOLEAN, flags_write : BOOLEAN, f : Flags,
         is_valid : BOOLEAN]

(* pipeline::reset zeroes both copies; opcode 0 is ADD. *)
ZeroInstruction == [opcode |-> "ADD", reg_form |-> TRUE, rd |-> 0, rs1 |-> 0, rs2 |-> 0,
                    csr |-> "EPC", imm |-> 0, cond |-> "EQ"]
ZeroIfId == [inst |-> 0, curr_pc |-> 0, predicted_pc |-> 0, is_valid |-> FALSE]
ZeroIdEx == [d |-> ZeroInstruction, v_rs1 |-> 0, v_rs2 |-> 0, curr_v_rd |-> 0,
             reg_write |-> FALSE, mem_read |-> FALSE, mem_write |-> FALSE,
             curr_pc |-> 0, predicted_pc |-> 0, is_valid |-> FALSE]
ZeroExWb == [opcode |-> "ADD", alu_result |-> 0, mem_read_data |-> 0, mem_addr |-> 0,
             w_data |-> 0, n_rd |-> 0, reg_write |-> FALSE, mem_read |-> FALSE,
             mem_write |-> FALSE, mem_u8 |-> FALSE, flags_write |-> FALSE,
             f |-> NoFlags, is_valid |-> FALSE]
---------------------------------------------------------------------------
(* The timer *)

TimerFrame ==
  /\ stage = "timer" /\ stage' = "wb"
  /\ UNCHANGED <<in_run, registers, f, pc, mem, halted, debug, branch_pred, mem_history,
                 pipe, flush>>

TimerOff == TimerFrame /\ ~TimerEnabled(csr) /\ UNCHANGED csr
TimerOn  == TimerFrame /\ TimerEnabled(csr) /\ csr' = Ticked(csr)

update_timer == TimerOff \/ TimerOn

---------------------------------------------------------------------------
(* Write back *)

ReadReg(r) == Read(registers, r)

(* The first entry of the write history for an address. *)
Hits(a) == {i \in Slot : mem_history[i].valid /\ mem_history[i].addr = a}
Hit(a)  == CHOOSE i \in Hits(a) : \A j \in Hits(a) : i <= j

LoadFromMemory(e) == e.mem_read /\ Hits(e.mem_addr) = {} /\ ~e.mem_u8
LoadValue(e) ==
  IF Hits(e.mem_addr) # {} THEN mem_history[Hit(e.mem_addr)].data
  ELSE IF e.mem_u8 THEN read_u8(mem, e.mem_addr)
  ELSE read_u32(mem, e.mem_addr)

(* Faulty variant: a store to a recorded address leaves the entry. *)
Recorded_KeepsOld(a, v) ==
  IF Hits(a) # {} THEN mem_history
  ELSE [i \in Slot |-> IF i = 0 THEN [valid |-> TRUE, addr |-> a, data |-> v]
                                ELSE mem_history[i - 1]]

(* A store updates the entry of its address, or shifts the others down. *)
Recorded(a, v) ==
  IF Hits(a) # {} THEN [mem_history EXCEPT ![Hit(a)].data = v]
  ELSE [i \in Slot |-> IF i = 0 THEN [valid |-> TRUE, addr |-> a, data |-> v]
                                ELSE mem_history[i - 1]]

(* Registers, memory and flags once instruction e has been written back. *)
RegsAfter(e) ==
  IF e.mem_read THEN WriteReg(registers, e.n_rd, LoadValue(e))
  ELSE IF e.reg_write THEN WriteReg(registers, e.n_rd, e.alu_result)
  ELSE registers

MemAfter(e) ==
  LET m == IF LoadFromMemory(e) THEN after_read_u32(mem, e.mem_addr) ELSE mem
  IN  IF ~e.mem_write THEN m
      ELSE IF e.mem_u8 THEN write_u8(m, e.mem_addr, e.w_data)
      ELSE write_u32(m, e.mem_addr, e.w_data)

FlagsAfter(e) == IF e.flags_write THEN e.f ELSE f

(* HLT stops the machine only outside an interrupt handler. *)
HaltedAfter(e) == halted \/ (e.opcode = "HLT" /\ MODE \notin BitsOf(csr.STATUS))

WbBubble ==
  /\ stage = "wb" /\ stage' = "int"
  /\ ~exwb.is_valid
  /\ UNCHANGED <<in_run, registers, csr, f, pc, mem, halted, debug, branch_pred,
                 mem_history, pipe, flush>>

WbRetire ==
  /\ stage = "wb" /\ stage' = "int"
  /\ exwb.is_valid
  /\ registers' = RegsAfter(exwb)
  /\ exwb' = IF exwb.mem_read THEN [exwb EXCEPT !.mem_read_data = LoadValue(exwb)] ELSE exwb
  /\ mem' = MemAfter(exwb)
  /\ mem_history' = IF exwb.mem_write THEN Recorded(exwb.mem_addr, exwb.w_data)
                                      ELSE mem_history
  /\ halted' = HaltedAfter(exwb)
  /\ f' = FlagsAfter(exwb)
  /\ UNCHANGED <<in_run, csr, pc, debug, branch_pred, ifid, idex, next_ifid, next_idex,
                 next_exwb, flush>>

wb_stage == WbBubble \/ WbRetire

---------------------------------------------------------------------------
(* Interrupts *)

(* Faulty variant: the address being fetched, as handle_interrupt once had it. *)
ReturnPc_Fetch == pc

(* Where an interrupt resumes: the oldest instruction not yet executed. *)
ReturnPc ==
  IF idex.is_valid THEN idex.curr_pc ELSE IF ifid.is_valid THEN ifid.curr_pc ELSE pc

(* Faulty variant: every code takes the first vector. *)
HandlerAddr_FirstVector(code) == read_u32(mem, csr.IVTBR)

HandlerAddr(code) == read_u32(mem, Vector(csr, code))

IntNone ==
  /\ stage = "int" /\ stage' = "ex"
  /\ ~Accepts(csr)
  /\ UNCHANGED <<in_run, registers, csr, f, pc, mem, halted, debug, branch_pred,
                 mem_history, pipe, flush>>

(* The lowest enabled line is served: its handler takes the place of the   *)
(* instructions fetched and decoded.                                       *)
AcceptInterrupt ==
  /\ Accepts(csr)
  /\ LET code == IrqCode(csr)
     IN  /\ csr' = [WithFrame(EnterHandler(csr, f, ReturnPc, code)) EXCEPT
                      !.IPENDING = Clear(@, code)]
         /\ mem' = SaveRegisters(after_read_u32(mem, Vector(csr, code)), csr.SP, registers)
         /\ pc' = HandlerAddr(code)
  /\ idex' = [idex EXCEPT !.is_valid = FALSE]
  /\ ifid' = [ifid EXCEPT !.is_valid = FALSE]
  /\ UNCHANGED <<in_run, registers, f, halted, debug, branch_pred, mem_history, exwb,
                 next_ifid, next_idex, next_exwb, flush>>

IntAccept == stage = "int" /\ stage' = "ex" /\ AcceptInterrupt

handle_interrupt == IntNone \/ IntAccept

---------------------------------------------------------------------------
(* Execute: the operands *)

(* Faulty variant: loads are not forwarded. *)
need_forwarding_NoLoad(r) == exwb.is_valid /\ exwb.reg_write /\ r # 0 /\ exwb.n_rd = r

need_forwarding(r) ==
  /\ exwb.is_valid
  /\ exwb.reg_write \/ exwb.mem_read
  /\ r # 0 /\ exwb.n_rd = r

(* Faulty variant: a load forwards alu_result, too. *)
get_forwarded_value_AluOnly(r, v) == IF need_forwarding(r) THEN exwb.alu_result ELSE v

get_forwarded_value(r, v) ==
  IF need_forwarding(r)
    THEN (IF exwb.mem_read THEN exwb.mem_read_data ELSE exwb.alu_result) ELSE v

rs1_val == get_forwarded_value(idex.d.rs1, idex.v_rs1)
rs2_val == get_forwarded_value(idex.d.rs2, idex.v_rs2)
rd_val  == get_forwarded_value(idex.d.rd, idex.curr_v_rd)

(* In the immediate form ADD, SUB and the logic operations work on rd,     *)
(* the others on rs1.                                                      *)
AluLeft  == IF idex.d.reg_form \/ idex.d.opcode \in ShiftOp \union {"MUL", "DIV"}
              THEN rs1_val ELSE rd_val
AluRight == IF idex.d.reg_form THEN rs2_val ELSE idex.d.imm

(* Faulty variant: the flags of an invalid result are taken. *)
current_flags_Invalid == IF exwb.flags_write THEN exwb.f ELSE f

current_flags == IF exwb.is_valid /\ exwb.flags_write THEN exwb.f ELSE f

PopSp_NoWrap == csr.SP + 1       \* faulty variant
ReturnAddr  == Plus(idex.curr_pc, 1)
PushSp      == Minus(csr.SP, 1)
PopSp       == Plus(csr.SP, 1)
DataAddr_NoOffset == rs1_val             \* faulty variant
DataAddr    == Plus(rs1_val, idex.d.imm)
UpperImm    == Wrap(idex.d.imm * 2^UPPER_LSB)
RelTarget   == Plus(idex.curr_pc, idex.d.imm)

---------------------------------------------------------------------------
(* Execute: one action per case of the switch *)

(* What every case begins with, and what none of them touches. *)
Executes(ops) ==
  /\ stage = "ex" /\ stage' = "id"
  /\ idex.is_valid /\ idex.d.opcode \in ops
  /\ UNCHANGED <<in_run, halted, debug, branch_pred, mem_history, ifid, idex, exwb,
                 next_ifid, next_idex>>

(* The fields of the next EX_WB register that are set before the switch;   *)
(* the others keep what the instruction before last left there.            *)
Passed(valid) ==
  [next_exwb EXCEPT !.opcode = idex.d.opcode, !.reg_write = idex.reg_write,
                    !.mem_read = idex.mem_read, !.mem_write = idex.mem_write,
                    !.flags_write = FALSE, !.is_valid = valid]
Result(v) == [Passed(TRUE) EXCEPT !.alu_result = v, !.n_rd = idex.d.rd]

GoOn         == UNCHANGED <<pc, flush>>

(* Faulty variant: the instruction just decoded is not flushed. *)
Jump_KeepsDecoded(target) ==
  pc' = target /\ need_flush_ifid' = TRUE /\ need_flush_idex' = FALSE
Jump(target) == pc' = target /\ need_flush_ifid' = TRUE /\ need_flush_idex' = TRUE

(* A case that only fills the next EX_WB register. *)
Passes(e) == next_exwb' = e /\ GoOn /\ UNCHANGED <<registers, csr, f, mem>>

ExBubble ==
  /\ stage = "ex" /\ stage' = "id"
  /\ ~idex.is_valid
  /\ next_exwb' = [next_exwb EXCEPT !.is_valid = FALSE]
  /\ UNCHANGED <<in_run, registers, csr, f, pc, mem, halted, debug, branch_pred,
                 mem_history, ifid, idex, exwb, next_ifid, next_idex, flush>>

ExAlu ==
  /\ Executes(AluOp)
  /\ LET op     == idex.d.opcode
         result == AluResult(op, AluLeft, AluRight)
     IN  Passes([Result(result) EXCEPT
                   !.f = AluFlags(op, result, AluLeft, AluRight), !.flags_write = TRUE])

(* INT_MIN / -1: undefined, so besides the wrapped result of ExAlu the     *)
(* process that hosts the CPU may be stopped by its processor's trap.      *)
ExDivTrap ==
  /\ stage = "ex" /\ stage' = "aborted"
  /\ idex.is_valid /\ DivOverflow(idex.d.opcode, AluLeft, AluRight)
  /\ UNCHANGED <<in_run, registers, csr, f, pc, mem, halted, debug, branch_pred,
                 mem_history, pipe, flush>>

ExCmp ==
  /\ Executes({"CMP"})
  /\ Passes([Passed(TRUE) EXCEPT
       !.f = update_flags_sub(Minus(rs1_val, AluRight), rs1_val, AluRight),
       !.flags_write = TRUE])

ExMov   == Executes({"MOV"})   /\ Passes(Result(rs1_val))
ExLui   == Executes({"LUI"})   /\ Passes(Result(UpperImm))
ExAui   == Executes({"AUI"})   /\ Passes(Result(Plus(rd_val, UpperImm)))
ExLoadi == Executes({"LOADI"}) /\ Passes(Result(idex.d.imm))
ExNop   == Executes({"HLT", "NOP"}) /\ Passes(Passed(TRUE))

ExLoad ==
  /\ Executes({"LOADW", "LOADB"})
  /\ Passes([Passed(TRUE) EXCEPT
       !.mem_addr = DataAddr, !.n_rd = idex.d.rd, !.mem_read = TRUE,
       !.mem_u8 = idex.d.opcode = "LOADB"])

ExStore ==
  /\ Executes({"STOREW", "STOREB"})
  /\ LET byte == idex.d.opcode = "STOREB"
     IN  Passes([Passed(TRUE) EXCEPT
           !.mem_addr = DataAddr, !.w_data = IF byte THEN Low(rd_val) ELSE rd_val,
           !.mem_write = TRUE, !.mem_u8 = byte])

ExJmp ==
  /\ Executes({"JMP"})
  /\ Jump(RelTarget)
  /\ next_exwb' = Passed(FALSE)
  /\ UNCHANGED <<registers, csr, f, mem>>

(* The pipeline is redirected only if the prediction was wrong. *)
ExBjmp ==
  /\ Executes({"BJMP"})
  /\ LET next == IF Taken(idex.d.cond, current_flags) THEN RelTarget ELSE ReturnAddr
     IN  IF idex.predicted_pc # next THEN Jump(next) ELSE GoOn
  /\ next_exwb' = Passed(FALSE)
  /\ UNCHANGED <<registers, csr, f, mem>>

ExCall ==
  /\ Executes({"CALL", "CALLR"})
  /\ mem' = write_u32(mem, PushSp, ReturnAddr)
  /\ csr' = [csr EXCEPT !.SP = PushSp]
  /\ Jump(IF idex.d.opcode = "CALL" THEN RelTarget ELSE rs1_val)
  /\ next_exwb' = Passed(FALSE)
  /\ UNCHANGED <<registers, f>>

ExRet ==
  /\ Executes({"RET"})
  /\ mem' = after_read_u32(mem, csr.SP)
  /\ csr' = [csr EXCEPT !.SP = PopSp]
  /\ Jump(read_u32(mem, csr.SP))
  /\ next_exwb' = Passed(TRUE)
  /\ UNCHANGED <<registers, f>>

ExSyscall ==
  /\ Executes({"SYSCALL"})
  /\ csr' = WithFrame(EnterHandler(csr, f, ReturnAddr, SWI))
  /\ mem' = SaveRegisters(after_read_u32(mem, Vector(csr, SWI)), csr.SP, registers)
  /\ Jump(HandlerAddr(SWI))
  /\ next_exwb' = Passed(FALSE)
  /\ UNCHANGED <<registers, f>>

(* TRAP saves no registers. *)
ExTrap ==
  /\ Executes({"TRAP"})
  /\ LET code == idex.d.imm % CODES
     IN  /\ csr' = EnterHandler(csr, f, ReturnAddr, code)
         /\ mem' = after_read_u32(mem, Vector(csr, code))
         /\ Jump(HandlerAddr(code))
  /\ next_exwb' = Passed(FALSE)
  /\ UNCHANGED <<registers, f>>

ExIret ==
  /\ Executes({"IRET"})
  /\ registers' = RestoredRegisters(mem, csr.SCRATCH, registers)
  /\ f' = BitFlags(BitsOf(csr.EFLAGS))
  /\ csr' = [csr EXCEPT !.SP = Plus(csr.SCRATCH, FrameSize), !.STATUS = LeaveStatus(@)]
  /\ Jump(csr.EPC)
  /\ next_exwb' = Passed(FALSE)
  /\ UNCHANGED mem

ExCsrr == Executes({"CSRR"}) /\ Passes(Result(csr[idex.d.csr]))

ExCsrw ==
  /\ Executes({"CSRW", "CSRWI"})
  /\ csr' = [csr EXCEPT ![idex.d.csr] =
               IF idex.d.opcode = "CSRW" THEN rs1_val ELSE idex.d.imm]
  /\ next_exwb' = Passed(TRUE)
  /\ GoOn
  /\ UNCHANGED <<registers, f, mem>>

(* PUSH stores at once, and passes on the mem_write of its decoding        *)
(* without an address or data of its own.                                  *)
ExPush ==
  /\ Executes({"PUSH"})
  /\ mem' = write_u32(mem, PushSp, rs1_val)
  /\ csr' = [csr EXCEPT !.SP = PushSp]
  /\ next_exwb' = Passed(TRUE)
  /\ GoOn
  /\ UNCHANGED <<registers, f>>

ExPop ==
  /\ Executes({"POP"})
  /\ mem' = after_read_u32(mem, csr.SP)
  /\ csr' = [csr EXCEPT !.SP = PopSp]
  /\ next_exwb' = [Result(read_u32(mem, csr.SP)) EXCEPT !.reg_write = TRUE]
  /\ GoOn
  /\ UNCHANGED <<registers, f>>

ExInvalid == Executes({"INVALID"}) /\ Passes(Passed(FALSE))

ex_stage ==
  \/ ExBubble \/ ExAlu \/ ExDivTrap \/ ExCmp \/ ExMov \/ ExLui \/ ExAui \/ ExLoadi
  \/ ExNop \/ ExLoad \/ ExStore \/ ExJmp \/ ExBjmp \/ ExCall \/ ExRet \/ ExSyscall
  \/ ExTrap \/ ExIret \/ ExCsrr \/ ExCsrw \/ ExPush \/ ExPop \/ ExInvalid

---------------------------------------------------------------------------
(* Decode, fetch, clock *)

WritesReg == AluOp \union {"MOV", "LUI", "AUI", "LOADI", "POP", "CSRR"}
ReadsMem  == {"LOADW", "LOADB"}
WritesMem == {"STOREW", "STOREB", "PUSH"}

IdBubble ==
  /\ stage = "id" /\ stage' = "if"
  /\ ~ifid.is_valid
  /\ next_idex' = [next_idex EXCEPT !.is_valid = FALSE]
  /\ UNCHANGED <<in_run, registers, csr, f, pc, mem, halted, debug, branch_pred,
                 mem_history, ifid, idex, exwb, next_ifid, next_exwb, flush>>

IdDecode ==
  /\ stage = "id" /\ stage' = "if"
  /\ ifid.is_valid
  /\ LET d == Decode[ifid.inst]
     IN  next_idex' = [d |-> d, v_rs1 |-> ReadReg(d.rs1), v_rs2 |-> ReadReg(d.rs2),
                       curr_v_rd |-> ReadReg(d.rd), reg_write |-> d.opcode \in WritesReg,
                       mem_read |-> d.opcode \in ReadsMem,
                       mem_write |-> d.opcode \in WritesMem,
                       curr_pc |-> ifid.curr_pc, predicted_pc |-> ifid.predicted_pc,
                       is_valid |-> TRUE]
  /\ UNCHANGED <<in_run, registers, csr, f, pc, mem, halted, debug, branch_pred,
                 mem_history, ifid, idex, exwb, next_ifid, next_exwb, flush>>

id_stage == IdBubble \/ IdDecode

IfFlushed ==
  /\ stage = "if" /\ stage' = "clock"
  /\ need_flush_ifid
  /\ UNCHANGED <<in_run, registers, csr, f, pc, mem, halted, debug, branch_pred,
                 mem_history, pipe, flush>>

(* Where fetching goes on after the instruction word at pc. *)
NextFetch(inst) ==
  LET d == Decode[inst]
  IN  IF d.opcode = "BJMP" /\ predict(branch_pred, pc) THEN Plus(pc, d.imm) ELSE Plus(pc, 1)

IfFetch ==
  /\ stage = "if" /\ stage' = "clock"
  /\ ~need_flush_ifid
  /\ LET inst == read_u32_direct(mem, pc)
     IN  /\ next_ifid' = [inst |-> inst, curr_pc |-> pc, predicted_pc |-> NextFetch(inst),
                          is_valid |-> TRUE]
         /\ pc' = NextFetch(inst)
  /\ UNCHANGED <<in_run, registers, csr, f, mem, halted, debug, branch_pred, mem_history,
                 ifid, idex, exwb, next_idex, next_exwb, flush>>

if_stage == IfFlushed \/ IfFetch

(* Faulty variant: nothing is flushed. *)
Flushed_Never(reg, asked) == reg

(* flush_IFID and flush_IDEX. *)
Flushed(reg, asked) == IF asked THEN [reg EXCEPT !.is_valid = FALSE] ELSE reg

has_breakpoint(addr) == addr \in breakpoint

(* Faulty variant: a flush is still asked for in the next step. *)
Clock_KeepsFlush ==
  /\ stage = "clock" /\ stage' = IF in_run THEN "loop" ELSE "host"
  /\ ifid' = Flushed(next_ifid, need_flush_ifid) /\ next_ifid' = ifid
  /\ idex' = Flushed(next_idex, need_flush_idex) /\ next_idex' = idex
  /\ exwb' = next_exwb                           /\ next_exwb' = exwb
  /\ paused' = (paused \/ has_breakpoint(pc))
  /\ UNCHANGED <<in_run, registers, csr, f, pc, mem, halted, breakpoint, branch_pred,
                 mem_history, flush>>

(* The end of step(): the flushes asked for by ex_stage, the exchange of   *)
(* the two copies of the pipeline registers, and the breakpoint test.      *)
Clock ==
  /\ stage = "clock" /\ stage' = IF in_run THEN "loop" ELSE "host"
  /\ need_flush_ifid' = FALSE /\ need_flush_idex' = FALSE
  /\ ifid' = Flushed(next_ifid, need_flush_ifid) /\ next_ifid' = ifid
  /\ idex' = Flushed(next_idex, need_flush_idex) /\ next_idex' = idex
  /\ exwb' = next_exwb                           /\ next_exwb' = exwb
  /\ paused' = (paused \/ has_breakpoint(pc))
  /\ UNCHANGED <<in_run, registers, csr, f, pc, mem, halted, breakpoint, branch_pred,
                 mem_history>>

---------------------------------------------------------------------------
(* run(), and step() up to update_timer *)

trigger_interrupt(code) == csr' = [csr EXCEPT !.IPENDING = Raise(@, code)]

(* Faulty variant: a key arrives without an interrupt. *)
KeyArrives_Silent(k) ==
  Len(mem.keyboard_buffer) < MAX_KEYS /\ mem' = push_key(mem, k) /\ UNCHANGED csr

KeyArrives(k) ==
  /\ Len(mem.keyboard_buffer) < MAX_KEYS
  /\ mem' = push_key(mem, k)
  /\ trigger_interrupt(EXT0)

(* step() first takes a key that was pressed, if any. *)
StepBegins ==
  /\ stage' = "timer"
  /\ \/ UNCHANGED <<mem, csr>>
     \/ "kbhit" \in HOST /\ \E k \in Key : KeyArrives(k)
  /\ UNCHANGED <<registers, f, pc, halted, breakpoint, branch_pred, mem_history, pipe,
                 flush>>

LoopContinue ==
  /\ stage = "loop" /\ ~halted /\ ~paused
  /\ StepBegins
  /\ UNCHANGED <<in_run, paused>>

LoopReturn ==
  /\ stage = "loop"
  /\ halted \/ paused
  /\ stage' = "host" /\ in_run' = FALSE
  /\ UNCHANGED <<registers, csr, f, pc, mem, halted, debug, branch_pred, mem_history,
                 pipe, flush>>

---------------------------------------------------------------------------
(* Calls of the host program, between two steps *)

Calls(function) == stage = "host" /\ function \in HOST

Run ==
  /\ Calls("run")
  /\ stage' = "loop" /\ in_run' = TRUE /\ paused' = FALSE
  /\ UNCHANGED <<registers, csr, f, pc, mem, halted, breakpoint, branch_pred,
                 mem_history, pipe, flush>>

Step == Calls("step") /\ StepBegins /\ UNCHANGED <<in_run, paused>>

HostFrame ==
  UNCHANGED <<stage, in_run, pc, halted, branch_pred, mem_history, pipe, flush>>

SetIrq ==
  /\ Calls("set_irq") /\ HostFrame
  /\ \E irq_num \in 0 .. NIRQ - 1, value \in BOOLEAN :
       csr' = [csr EXCEPT !.IPENDING = IF value THEN Raise(@, irq_num)
                                                ELSE Clear(@, irq_num)]
  /\ UNCHANGED <<registers, f, mem, debug>>

TriggerInterrupt ==
  /\ Calls("trigger_interrupt") /\ HostFrame
  /\ \E code \in Bit : trigger_interrupt(code)
  /\ UNCHANGED <<registers, f, mem, debug>>

PushKey ==
  /\ Calls("push_key") /\ HostFrame
  /\ \E k \in Key : KeyArrives(k)
  /\ UNCHANGED <<registers, f, debug>>

Breakpoints ==
  /\ Calls("breakpoints") /\ HostFrame
  /\ \/ breakpoint' = {}
     \/ \E addr \in ADDRESSES : breakpoint' \in {breakpoint \union {addr}, breakpoint \ {addr}}
  /\ UNCHANGED <<registers, csr, f, mem, paused>>

ContinueExecution ==
  /\ Calls("continue_execution") /\ HostFrame
  /\ paused' = FALSE
  /\ UNCHANGED <<registers, csr, f, mem, breakpoint>>

(* An index past the file throws out_of_range, and as index 0 changes      *)
(* nothing.                                                                *)
SetRegister ==
  /\ Calls("set_register") /\ HostFrame
  /\ \E r \in Reg, v \in VALUES : registers' = WriteReg(registers, r, v)
  /\ UNCHANGED <<csr, f, mem, debug>>

SetFlags ==
  /\ Calls("set_flags") /\ HostFrame
  /\ f' \in Flags
  /\ UNCHANGED <<registers, csr, mem, debug>>

(* The words of a program from an address on; those out of the array are   *)
(* dropped.                                                                *)
Loaded(m, p, start_addr) ==
  [m EXCEPT !.data = [a \in Addr |->
     LET i == Minus(a, start_addr) IN IF i < Len(p) THEN p[i + 1] ELSE @[a]]]

LoadProgram ==
  /\ Calls("load_program") /\ HostFrame
  /\ \E p \in Program, start_addr \in ADDRESSES \union {0} :
       mem' = Loaded(mem, p, start_addr)
  /\ UNCHANGED <<registers, csr, f, debug>>

(* Two functions of step() are public: the host may give the timer a tick  *)
(* and let an interrupt in between two steps, while the instruction        *)
(* executed last has not been written back.                                *)
UpdateTimer ==
  /\ Calls("update_timer") /\ HostFrame
  /\ TimerEnabled(csr) /\ csr' = Ticked(csr)
  /\ UNCHANGED <<registers, f, mem, debug>>

HandleInterrupt == Calls("handle_interrupt") /\ stage' = stage /\ AcceptInterrupt

(* get_memory() hands out the memory itself: the host may write and read   *)
(* it, reset it, and push keys that no interrupt announces.                *)
GetMemory ==
  /\ Calls("get_memory") /\ HostFrame
  /\ \/ \E a \in ADDRESSES, v \in VALUES :
          mem' \in {write_u32(mem, a, v), write_u32_direct(mem, a, v), write_u8(mem, a, v)}
     \/ \E a \in ADDRESSES : mem' = after_read_u32(mem, a)
     \/ \E k \in Key : Len(mem.keyboard_buffer) < MAX_KEYS /\ mem' = push_key(mem, k)
     \/ mem' = reset_memory(mem)
  /\ UNCHANGED <<registers, csr, f, debug>>

(* reset() leaves alone the pipeline registers, the branch predictor, the  *)
(* debugger's state, the keyboard and part of the write history.           *)
Reset ==
  /\ Calls("reset")
  /\ registers' = ZeroRegisters /\ csr' = ZeroCsr /\ f' = NoFlags /\ pc' = 0
  /\ mem' = reset_memory(mem) /\ halted' = FALSE
  /\ mem_history' = [i \in Slot |-> IF i < HIST_RESET THEN NoWrite ELSE mem_history[i]]
  /\ UNCHANGED <<stage, in_run, debug, branch_pred, pipe, flush>>

Host ==
  \/ Run \/ Step \/ SetIrq \/ TriggerInterrupt \/ PushKey \/ Breakpoints
  \/ ContinueExecution \/ SetRegister \/ SetFlags \/ LoadProgram \/ UpdateTimer
  \/ HandleInterrupt \/ GetMemory \/ Reset
---------------------------------------------------------------------------

(* A CPU just constructed, with a program loaded.  The constructor leaves  *)
(* paused and the rest of the write history as it finds them.              *)
Init ==
  /\ stage = "host" /\ in_run = FALSE
  /\ registers = ZeroRegisters /\ csr = ZeroCsr /\ f = NoFlags /\ pc = 0
  /\ \E p \in Program : mem = Loaded(ZeroMemory, p, 0)
  /\ halted = FALSE /\ paused \in BOOLEAN /\ breakpoint = {}
  /\ branch_pred = InitialTable
  /\ mem_history \in {h \in [Slot -> RESIDUE \union {NoWrite}] :
                        \A i \in Slot : i < HIST_RESET => h[i] = NoWrite}
  /\ ifid = ZeroIfId /\ idex = ZeroIdEx /\ exwb = ZeroExWb
  /\ next_ifid = ZeroIfId /\ next_idex = ZeroIdEx /\ next_exwb = ZeroExWb
  /\ need_flush_ifid = FALSE /\ need_flush_idex = FALSE

(* What the CPU's thread does once the host has called run() or step(). *)
Thread ==
  \/ update_timer \/ wb_stage \/ handle_interrupt \/ ex_stage \/ id_stage \/ if_stage
  \/ Clock \/ LoopContinue \/ LoopReturn

Next == Thread \/ Host

Spec     == Init /\ [][Next]_vars
FairSpec == Spec /\ WF_vars(Thread)

---------------------------------------------------------------------------
(* Type invariant *)

Stage == {"host", "loop", "timer", "wb", "int", "ex", "id", "if", "clock", "aborted"}

(* Every variable holds a value its C++ type can hold. *)
TypeOK ==
  /\ stage \in Stage /\ in_run \in BOOLEAN
  /\ registers \in RegFile /\ csr \in CsrFile /\ f \in Flags /\ pc \in Word
  /\ mem \in Memory
  /\ halted \in BOOLEAN /\ paused \in BOOLEAN /\ breakpoint \subseteq Word
  /\ branch_pred \in Table /\ mem_history \in [Slot -> MemWrite]
  /\ ifid \in IfId /\ idex \in IdEx /\ exwb \in ExWb
  /\ next_ifid \in IfId /\ next_idex \in IdEx /\ next_exwb \in ExWb
  /\ need_flush_ifid \in BOOLEAN /\ need_flush_idex \in BOOLEAN

---------------------------------------------------------------------------
(* Data hazards *)

(* Every operand ex_stage works on is the register's value: the copy       *)
(* id_stage took before the preceding instruction was written back is      *)
(* replaced by the forwarded result exactly when that instruction wrote    *)
(* the register (get_forwarded_value, need_forwarding, wb_stage).  A host  *)
(* that calls set_register between two steps breaks this, see              *)
(* SetRegister.                                                            *)
ForwardingCorrect ==
  stage = "ex" /\ idex.is_valid =>
    /\ rs1_val = ReadReg(idex.d.rs1)
    /\ rs2_val = ReadReg(idex.d.rs2)
    /\ rd_val  = ReadReg(idex.d.rd)
    /\ current_flags = f

(* A branch reads the flags the machine has, whatever the host has done to *)
(* flags, registers and the whole machine between two steps: the bypass    *)
(* from the EX_WB register is taken exactly when wb_stage has taken it     *)
(* (current_flags in the BJMP case, set_flags, reset).                     *)
BranchFlags == stage = "ex" => current_flags = f

(* The flags passed on by CMP, SUB and ADD are right for any two operands, *)
(* at the ends of both ranges too: taking the result modulo 2^WIDTH loses  *)
(* nothing a later branch depends on (the ADD, SUB and CMP cases of        *)
(* ex_stage, update_flags_add, update_flags_sub, the conditions of BJMP).  *)
ComparisonStep ==
  stage = "ex" /\ stage' = "id" /\ idex.is_valid =>
    /\ idex.d.opcode = "CMP" => Compares(next_exwb'.f, rs1_val, AluRight)
    /\ idex.d.opcode = "SUB" => Compares(next_exwb'.f, AluLeft, AluRight)
    /\ idex.d.opcode = "ADD" => Overflows(next_exwb'.f, AluLeft, AluRight)

ComparisonsDecide == [][ComparisonStep]_vars

---------------------------------------------------------------------------
(* Control hazards *)

(* The number of the next instruction of the program: the oldest one that  *)
(* has not been executed.                                                  *)
Oldest(de, fd) ==
  IF de.is_valid THEN de.curr_pc ELSE IF fd.is_valid THEN fd.curr_pc ELSE pc

ArchPc ==
  IF need_flush_ifid THEN pc
  ELSE IF stage = "id" THEN Oldest(ZeroIdEx, ifid)
  ELSE IF stage = "if" THEN Oldest(next_idex, ZeroIfId)
  ELSE IF stage = "clock" THEN Oldest(next_idex, next_ifid)
  ELSE Oldest(idex, ifid)

(* Where a program goes on after instruction d, from the state of the      *)
(* machine alone.                                                          *)
Successor(d) ==
  LET at == ArchPc
  IN  CASE d.opcode \in {"JMP", "CALL"} -> Plus(at, d.imm)
        [] d.opcode = "BJMP"    -> IF Taken(d.cond, f) THEN Plus(at, d.imm) ELSE Plus(at, 1)
        [] d.opcode = "CALLR"   -> ReadReg(d.rs1)
        [] d.opcode = "RET"     -> read_u32(mem, csr.SP)
        [] d.opcode = "SYSCALL" -> HandlerAddr(SWI)
        [] d.opcode = "TRAP"    -> HandlerAddr(d.imm % CODES)
        [] d.opcode = "IRET"    -> csr.EPC
        [] OTHER                -> Plus(at, 1)

(* Speculation, flushes and interrupts never lose, repeat or invent an     *)
(* instruction: executing one moves the program to its successor, whatever *)
(* the branch predictor says; an accepted interrupt saves the number of    *)
(* the next instruction and goes to the handler, also when it is the host  *)
(* that calls handle_interrupt; nothing else that happens in the pipeline, *)
(* the run loop or the host moves the program.  The successor of a         *)
(* division by zero and of an invalid opcode is the instruction behind it: *)
(* the exceptions README.md and csr.hpp name are never raised (see         *)
(* ExceptionsEnterHandlers in CpuDocumented).                              *)
Executing == stage = "ex" /\ stage' = "id" /\ idex.is_valid
Accepting == stage = "int" /\ Accepts(csr)

ControlFlowStep ==
  /\ Executing => ArchPc' = Successor(idex.d)
  /\ Accepting \/ HandleInterrupt =>
       csr'.EPC = ArchPc /\ ArchPc' = HandlerAddr(IrqCode(csr))
  /\ ~Executing /\ ~Accepting /\ ~HandleInterrupt => ArchPc' = ArchPc

ControlFlow == [][ControlFlowStep]_vars

(* Nor do flushes, bubbles and wrong paths keep run() from going on: at    *)
(* every point of a call of it another instruction is still executed, or   *)
(* the call returns, or a division stops the process (the flush requests   *)
(* in if_stage and at the end of step(), HLT in wb_stage, run).            *)
RunGoesOn ==
  in_run ~> (stage = "ex" /\ idex.is_valid) \/ stage \in {"host", "aborted"}
=============================================================================
