----------------------------- MODULE Assembler -----------------------------
(***************************************************************************)
(* The two-pass assembler (src/assembler.cpp).  Each pass goes through the *)
(* source line by line, counting addresses for itself: the first pass      *)
(* collects the labels, the second one parses and encodes.                 *)
(*                                                                         *)
(* A line is a text, that is nothing, a label, or a mnemonic with          *)
(* arguments, and may have a margin: blanks around the text or a comment   *)
(* behind it, which each pass cuts off for itself.  What split, find and   *)
(* substr do to the characters of the text is done already.  Mnemonics are *)
(* written as the opcodes they stand for, ".word" as "WORD".  A line has   *)
(* the arguments its mnemonic needs, or none: with too few the code reads  *)
(* past a vector.  Only loads and stores have operands in parentheses.     *)
(***************************************************************************)
EXTENDS Encoding, Sequences, FiniteSets

CONSTANT Sources     \* the source files, sequences of lines

ASSUME SourcesAssumption ==
  \A s \in Sources : Len(s) \in Nat /\ DOMAIN s = 1 .. Len(s)

VARIABLES
  source,            \* the file
  pass,              \* "first", "second", "written"; "empty" if there is no file to
                     \* read, "aborted" after an exception
  line,              \* the line the pass is at
  labels, current_address, instructions

assembler_vars == <<source, pass, line, labels, current_address, instructions>>

(* Arguments, told apart by how they begin: a register, a number, a name,  *)
(* a name that begins with r, a number too large for an int, and the       *)
(* memory operand offset(base).                                            *)
Register(n)       == [type |-> "register", n |-> n]
Literal(n)        == [type |-> "number", n |-> n]
Name(s)           == [type |-> "name", name |-> s]
RName(s)          == [type |-> "rname", name |-> s]
Huge              == [type |-> "huge"]
Indirect(off, r)  == [type |-> "indirect", off |-> off, base |-> r]

Blank         == [kind |-> "blank"]
Label(t)      == [kind |-> "label", label |-> t]
Code(op, as)  == [kind |-> "code", op |-> op, args |-> as]
NoMargin(t)   == [text |-> t, margin |-> FALSE]
WithMargin(t) == [text |-> t, margin |-> TRUE]

IsCode(t)  == t.kind = "code"
IsLabel(t) == t.kind = "label"

ThreeRegisters == {"ADD", "SUB", "MUL", "DIV", "AND", "OR", "XOR", "SHL", "SHR"}
CsrOrder == <<"EPC", "CAUSE", "STATUS", "IVTBR", "IMASK", "IPENDING", "SEPC", "SSTATUS",
              "SCRATCH", "CYCLE", "TPERIOD", "TCONTROL", "TCOUNTER", "EFLAGS", "SP">>
---------------------------------------------------------------------------
(* Parsing an argument.  An argument of the wrong kind is -1, or ends the  *)
(* assembler with an exception of stoi.                                    *)

parseRegister(t)  == IF t.type = "register" THEN t.n ELSE -1
RegisterThrows(t) == t.type = "rname"

(* A label is looked up before anything else, numbers included. *)
IsKey(t)           == t \in DOMAIN labels
parseImmediate(t)  == IF IsKey(t) THEN labels[t] ELSE t.n
ImmediateThrows(t) == ~IsKey(t) /\ t.type # "number"

parseCSR(t) ==
  LET at == {i \in DOMAIN CsrOrder : t.type = "name" /\ t.name = CsrOrder[i]}
  IN  IF at = {} THEN -1 ELSE (CHOOSE i \in at : TRUE) - 1

Reg(t) == U32Of(parseRegister(t))
Imm(t) == U32Of(parseImmediate(t))

StartsWithR(t) == t.type \in {"register", "rname"}

(* labels[target] creates a label that is not there, at address 0. *)
Looked(t)  == IF IsKey(t) THEN labels ELSE [k \in DOMAIN labels \union {t} |->
                                              IF k = t THEN 0 ELSE labels[k]]

Offset_FromNext(t) == U32Of(Looked(t)[t] - (current_address + 4))   \* faulty variant
Offset(t) == U32Of(Looked(t)[t] - current_address)

(* The conditions bjmp knows; with another name cond stays uninitialised.  *)
Conditions(t) ==
  IF t.type = "name" /\ t.name \in Cond \ {"CS", "CC"} THEN {t.name} ELSE Cond

(* A memory operand without parentheses is its own offset and base. *)
OffsetPart(t) == IF t.type = "indirect" THEN t.off ELSE t
BasePart(t)   == IF t.type = "indirect" THEN t.base ELSE t
---------------------------------------------------------------------------
(* parseInstruction: the arguments that are parsed as registers and as     *)
(* immediates, the argument a jump goes to, and the words that result.     *)

RegisterArgs(op, a) ==
  CASE op \in ThreeRegisters     -> {a[1], a[2], a[3]}
    [] op \in {"CMP", "MOV"}     -> {a[1]} \union (IF StartsWithR(a[2]) THEN {a[2]} ELSE {})
    [] op \in {"LOADW", "STOREW"} -> {a[1], BasePart(a[2])}
    [] op = "CSRW"               -> IF a[2].type \in {"number", "huge"} THEN {} ELSE {a[2]}
    [] op \in Stack \union {"CSRR"} -> {a[1]}
    [] OTHER                     -> {}

ImmediateArgs(op, a) ==
  CASE op = "WORD"               -> {a[1]}
    [] op \in {"CMP", "MOV"}     -> IF StartsWithR(a[2]) THEN {} ELSE {a[2]}
    [] op \in {"LOADW", "STOREW"} -> {OffsetPart(a[2])}
    [] op = "CSRW"               -> IF a[2].type \in {"number", "huge"} THEN {a[2]} ELSE {}
    [] OTHER                     -> {}

Throws(op, a) ==
  a # << >> /\ \/ \E t \in RegisterArgs(op, a) : RegisterThrows(t)
               \/ \E t \in ImmediateArgs(op, a) : ImmediateThrows(t)

Targets(op, a) ==
  IF a = << >> THEN {} ELSE CASE op \in Far -> {a[1]} [] op = "BJMP" -> {a[2]} [] OTHER -> {}

parseInstruction(op, a) ==
  IF a = << >> THEN {Plain(IF op \in Bare THEN op ELSE "NOP")}
  ELSE
  CASE op = "WORD" -> {Imm(a[1])}
    [] op \in ThreeRegisters -> {Arithmetic(op, Reg(a[1]), Reg(a[2]), Reg(a[3]), REGISTER)}
    [] op = "CMP" -> {IF StartsWithR(a[2]) THEN CMP(Reg(a[1]), Reg(a[2]), REGISTER)
                                           ELSE CMP(Reg(a[1]), Imm(a[2]), IMMEDIATE)}
    [] op = "MOV" -> {IF StartsWithR(a[2]) THEN MOV(Reg(a[1]), Reg(a[2]))
                                           ELSE SetWide("LOADI", Reg(a[1]), Imm(a[2]))}
    [] op \in Far -> {Jump(op, Offset(a[1]))}
    [] op = "BJMP" -> {BJMP(cond, Offset(a[2])) : cond \in Conditions(a[1])}
    [] op \in {"LOADW", "STOREW"} ->
         {Memory(op, Reg(a[1]), Reg(BasePart(a[2])), Imm(OffsetPart(a[2])))}
    [] op = "CSRR" -> {CSRR(Reg(a[1]), U32Of(parseCSR(a[2])), REGISTER)}
    [] op = "CSRW" ->
         {IF a[2].type \in {"number", "huge"}
            THEN CSRW(Imm(a[2]), U32Of(parseCSR(a[1])), IMMEDIATE)
            ELSE CSRW(Reg(a[2]), U32Of(parseCSR(a[1])), REGISTER)}
    [] op \in Stack -> {OneRegister(op, Reg(a[1]))}
    [] OTHER -> {Plain("NOP")}
---------------------------------------------------------------------------
(* The passes *)

(* Faulty variant: the margin stays, and what ends in it is no label. *)
SecondTrim_KeepsMargin(l) == IF l.margin THEN Code("NOP", << >>) ELSE l.text

(* The text of a line, as the first pass and as the second pass find it. *)
FirstTrim(l)  == l.text
SecondTrim(l) == l.text

At(name) == pass = name /\ line <= Len(source)
Here     == FirstTrim(source[line])
Now      == SecondTrim(source[line])
Advance  == line' = line + 1

(* assemble() returns no instructions, and main writes them. *)
OpenFails ==
  /\ pass = "first" /\ line = 1
  /\ pass' = "empty"
  /\ UNCHANGED <<source, line, labels, current_address, instructions>>

FirstBlank ==
  /\ At("first") /\ Here.kind = "blank"
  /\ Advance /\ UNCHANGED <<source, pass, labels, current_address, instructions>>

(* The address of a label is that of the next instruction; a label defined *)
(* again moves.                                                            *)
FirstLabel ==
  /\ At("first") /\ IsLabel(Here)
  /\ labels' = [t \in DOMAIN labels \union {Here.label} |->
                  IF t = Here.label THEN current_address ELSE labels[t]]
  /\ Advance /\ UNCHANGED <<source, pass, current_address, instructions>>

FirstCode ==
  /\ At("first") /\ IsCode(Here)
  /\ current_address' = current_address + 4
  /\ Advance /\ UNCHANGED <<source, pass, labels, instructions>>

SecondPass == current_address' = 0

StartSecond ==
  /\ pass = "first" /\ line > Len(source)
  /\ pass' = "second" /\ line' = 1 /\ SecondPass
  /\ UNCHANGED <<source, labels, instructions>>

SecondSkip ==
  /\ At("second") /\ ~IsCode(Now)
  /\ Advance /\ UNCHANGED <<source, pass, labels, current_address, instructions>>

SecondCode ==
  /\ At("second") /\ IsCode(Now) /\ ~Throws(Now.op, Now.args)
  /\ \E word \in parseInstruction(Now.op, Now.args) :
       instructions' = Append(instructions, word)
  /\ \/ Targets(Now.op, Now.args) = {} /\ UNCHANGED labels
     \/ \E t \in Targets(Now.op, Now.args) : labels' = Looked(t)
  /\ current_address' = current_address + 4
  /\ Advance /\ UNCHANGED <<source, pass>>

(* Nothing catches the exception: no binary is written. *)
Abort ==
  /\ At("second") /\ IsCode(Now) /\ Throws(Now.op, Now.args)
  /\ pass' = "aborted"
  /\ UNCHANGED <<source, line, labels, current_address, instructions>>

(* main writes the words to the binary. *)
Write ==
  /\ pass = "second" /\ line > Len(source)
  /\ pass' = "written"
  /\ UNCHANGED <<source, line, labels, current_address, instructions>>

Init ==
  /\ source \in Sources /\ pass = "first" /\ line = 1
  /\ labels = << >> /\ current_address = 0 /\ instructions = << >>

Next ==
  \/ OpenFails \/ FirstBlank \/ FirstLabel \/ FirstCode \/ StartSecond
  \/ SecondSkip \/ SecondCode \/ Abort \/ Write

Spec == Init /\ [][Next]_assembler_vars
=============================================================================
