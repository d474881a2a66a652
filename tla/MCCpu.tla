------------------------------- MODULE MCCpu -------------------------------
(***************************************************************************)
(* Instances of the processor for TLC: words of four to six bits, three    *)
(* registers, 24 to 32 words of memory.                                    *)
(*                                                                         *)
(*    0 ..     program          16, 17, 18   output ports                  *)
(*    10 .. 12 vector table     20, 21       keyboard ports                *)
(*    13 ..    handler          23           first stack slot below which  *)
(*                                           frames and calls grow         *)
(*                                                                         *)
(* An instruction word is the place of the instruction in the table a      *)
(* configuration takes for Decode.  Word 0 is ADD r0, r0, r0, as in        *)
(* decode_inst, so that memory that was never written decodes to it.       *)
(***************************************************************************)
EXTENDS CpuDocumented

Ins(op)                  == [ZeroInstruction EXCEPT !.opcode = op]
RegForm(op, d, s1, s2)   == [Ins(op) EXCEPT !.rd = d, !.rs1 = s1, !.rs2 = s2]
ImmForm(op, d, s1, i)    == [Ins(op) EXCEPT !.rd = d, !.rs1 = s1, !.imm = Wrap(i),
                                            !.reg_form = FALSE]
Rel(op, i)               == ImmForm(op, 0, 0, i)
BranchIf(c, i)           == [Rel("BJMP", i) EXCEPT !.cond = c]
ToCsr(c, i)              == [Rel("CSRWI", i) EXCEPT !.csr = c]

(* decode_inst for a table of instructions; other words are invalid. *)
Decoded(table) ==
  [w \in Word |-> IF w < Len(table) THEN table[w + 1] ELSE Ins("INVALID")]

(* A CPU object in zeroed storage. *)
NoResidue == {NoWrite}

(* All programs of n instructions of a table, followed by a tail. *)
Images(words, n, tail) == {p \o tail : p \in [1 .. n -> words]}

---------------------------------------------------------------------------
(* Data hazards: ALU operations, loads, stores and moves in every order.   *)
(* Bytes, words and the stack have memory of their own.                    *)

DataTable == <<
  ZeroInstruction,
  RegForm("HLT", 0, 0, 0),
  ImmForm("ADD", 1, 0, 1),           \* r1 += 1
  RegForm("SUB", 2, 1, 2),           \* r2 := r1 - r2
  RegForm("MOV", 1, 2, 0),
  ImmForm("LOADW", 2, 1, 22),        \* r2 := word at r1 + 22
  ImmForm("STOREW", 2, 1, 22),
  ImmForm("LOADB", 1, 0, 19),        \* r1 := byte at 19
  ImmForm("STOREB", 2, 0, 19) >>

DataDecode   == Decoded(DataTable)
DataPrograms == Images(2 .. 8, 4, <<1>>) \union Images({2, 5, 6}, 7, <<1>>)

---------------------------------------------------------------------------
(* Control hazards: taken and untaken branches both ways, behind every     *)
(* kind of instruction that sets flags or registers, and calls.            *)

ControlTable == <<
  ZeroInstruction,
  RegForm("HLT", 0, 0, 0),
  ImmForm("ADD", 1, 0, 1),
  ImmForm("CMP", 0, 1, 2),
  BranchIf("LT", -1),
  BranchIf("EQ", 2),
  BranchIf("GT", 2),
  BranchIf("NE", 1),
  Rel("JMP", 2),
  Rel("CALL", 2),
  RegForm("CALLR", 0, 1, 0),
  RegForm("RET", 0, 0, 0),
  ImmForm("LOADI", 1, 0, 3),
  RegForm("NOP", 0, 0, 0) >>

ControlDecode   == Decoded(ControlTable)
ControlPrograms == Images(2 .. 9, 4, <<1, 1>>) \union Images(2 .. 13, 3, <<1, 1>>)

---------------------------------------------------------------------------
(* Interrupts, at any step, in 32 words of memory with the stack on top.   *)
(* The program sets up the vector table and the mask, enables interrupts,  *)
(* runs a body and spins.                                                  *)

InterruptTable == <<
  ZeroInstruction,
  RegForm("HLT", 0, 0, 0),
  ImmForm("ADD", 1, 0, 1),
  RegForm("SUB", 2, 1, 2),
  ImmForm("CMP", 0, 1, 2),
  BranchIf("LT", -1),
  Rel("SYSCALL", 0),
  Rel("TRAP", 1),
  ImmForm("STOREW", 1, 0, 19),
  ImmForm("LOADW", 2, 0, 19),
  [RegForm("CSRR", 2, 0, 0) EXCEPT !.csr = "CAUSE"],
  Rel("JMP", 0),
  Rel("IRET", 0),
  RegForm("NOP", 0, 0, 0),
  ToCsr("IVTBR", 10),
  ToCsr("IMASK", 7),
  ToCsr("STATUS", 1),
  ToCsr("TPERIOD", 12),
  ToCsr("TCONTROL", 3),
  ToCsr("TCONTROL", 1),
  [RegForm("CSRW", 0, 1, 0) EXCEPT !.csr = "STATUS"] >>

(* Word 21 stores where the next frame begins, just below the stack. *)
InterruptDecode == Decoded(InterruptTable \o <<ImmForm("STOREW", 1, 0, STACK_START - 1)>>)

Spin     == 11
Vectors  == <<13, 14, 13>>
Handlers == {<<2, 12>>, <<10, 8, 12>>}
WithHandler(code, handler) ==
  [i \in 1 .. 10 |-> IF i <= Len(code) THEN code[i] ELSE Spin] \o Vectors \o handler

LinePrograms ==
  {WithHandler(<<14, 15, 16>> \o body, handler) :
     body \in {<<2, 3>>, <<3, 5>>, <<8, 9>>, <<21, 6>>, <<7, 3>>, <<9, 3>>}, handler \in Handlers}

---------------------------------------------------------------------------
(* The timer and the keyboard.  Keys may arrive at any step; they are      *)
(* masked, or served by a handler that reads keys until the status port    *)
(* says there are none, alone, after clearing every line first, or next to *)
(* a timer.                                                                *)

DeviceTable == InterruptTable \o <<
  ToCsr("IMASK", 1),
  ToCsr("IMASK", 2),
  ToCsr("IMASK", 3),
  ImmForm("LOADW", 1, 0, 21),        \* r1 := keyboard status
  ImmForm("CMP", 0, 1, 0),
  BranchIf("EQ", 3),
  ImmForm("LOADW", 2, 0, 20),        \* r2 := key
  Rel("JMP", -4),
  ToCsr("IPENDING", 0) >>

DeviceDecode == Decoded(DeviceTable)

TimerPrograms ==
  {WithHandler(<<14, 21, 17, timer, 16>> \o body, handler) :
     timer \in {18, 19}, body \in {<<3, 5>>, <<6, 2>>, <<8, 9>>}, handler \in Handlers}
  \union {WithHandler(<<14, 21, 18, 16, 3, 5>>, handler) : handler \in Handlers}  \* period 0

ReadKeys == <<24, 25, 26, 27, 28, 12>>
KeyPrograms ==
  {<<14, 22, 16, Spin, 0, 0, 0, 0, 0, 0>> \o <<6, 12>> \o ReadKeys,
   <<14, 22, 16, Spin, 0, 0, 0, 0, 0, 0>> \o <<6, 12, 29>> \o ReadKeys,
   <<14, 23, 17, 18, 16, Spin, 2, 12, 0, 0>> \o <<6, 12>> \o ReadKeys}

DevicePrograms == TimerPrograms \union KeyPrograms

---------------------------------------------------------------------------
(* Every instruction in every position, with operands that make division   *)
(* overflow; programs may overwrite themselves.                            *)

AnyTable == <<
  ZeroInstruction,
  RegForm("HLT", 0, 0, 0),
  ImmForm("LOADI", 1, 0, -32),
  ImmForm("LOADI", 2, 0, -1),
  RegForm("MUL", 1, 1, 2), RegForm("DIV", 1, 1, 2), RegForm("AND", 1, 1, 2),
  RegForm("OR", 2, 1, 2), RegForm("XOR", 1, 1, 2), ImmForm("SHL", 2, 2, 1),
  ImmForm("SHR", 2, 1, 2), ImmForm("SAR", 1, 1, 1), ImmForm("DIV", 2, 1, 0),
  ImmForm("LUI", 1, 0, 3), ImmForm("AUI", 2, 0, 1),
  RegForm("PUSH", 0, 1, 0), RegForm("POP", 2, 0, 0),
  RegForm("CALLR", 0, 2, 0), RegForm("RET", 0, 0, 0),
  Rel("SYSCALL", 0), Rel("TRAP", 3), Rel("IRET", 0),
  [RegForm("CSRR", 1, 0, 0) EXCEPT !.csr = "SP"],
  [RegForm("CSRW", 0, 2, 0) EXCEPT !.csr = "SP"],
  ImmForm("STOREW", 2, 0, 4), ImmForm("STOREB", 2, 1, 20), ImmForm("LOADB", 2, 1, 20),
  Ins("INVALID"),
  BranchIf("LE", 2), BranchIf("CS", -1), BranchIf("GE", 2), Rel("CALL", 2),
  ImmForm("CMP", 0, 1, 31), RegForm("CMP", 0, 2, 1), RegForm("SUB", 2, 2, 1),
  ImmForm("SUB", 1, 0, 1), RegForm("ADD", 1, 1, 1), ImmForm("ADD", 2, 0, 1),
  ToCsr("TCONTROL", 3) >>

AnyDecode   == Decoded(AnyTable)
AnyPrograms == {<<2, 3>> \o p \o <<1, 1>> : p \in [1 .. 2 -> 4 .. 37]}
                 \union {<<38, 2, p, 1>> : p \in 4 .. 37}   \* a timer of period 0

---------------------------------------------------------------------------
(* Calls of the host between steps.  The vector table is at 0, so the      *)
(* handlers are wherever the first words of the program point to.          *)

HostTable == <<
  ZeroInstruction,
  ImmForm("LOADI", 1, 0, 3),
  ImmForm("CMP", 0, 1, 2),
  BranchIf("NE", -2),
  RegForm("HLT", 0, 0, 0),
  ToCsr("IMASK", 15),
  ToCsr("STATUS", 1),
  Rel("IRET", 0),
  BranchIf("EQ", -1),
  Rel("JMP", 0),
  ToCsr("TCONTROL", 3) >>

HostDecode    == Decoded(HostTable)
CallPrograms  == {<<5, 6, 7, 5, 2, 8, 9, 7>>}
WritePrograms == {<<10, 1, 2, 8, 4>>}

---------------------------------------------------------------------------
(* Programs on which the code and README.md part ways. *)

DocTable == <<
  ZeroInstruction,
  RegForm("HLT", 0, 0, 0),
  ImmForm("LOADI", 1, 0, 11),
  ImmForm("STOREW", 1, 0, 22),
  Ins("INVALID"),
  Rel("CALL", 1),
  RegForm("PUSH", 0, 1, 0),
  RegForm("NOP", 0, 0, 0),
  ImmForm("DIV", 2, 1, 0) >>

DocDecode         == Decoded(DocTable)
PushPrograms      == {<<2, 6, 1>>}
HistoryPrograms   == {<<2, 3, 5, 7, 1>>}
ExceptionPrograms == {<<4, 1>>, <<2, 8, 1>>}
=============================================================================
