--------------------------- MODULE AssemblerSpec ---------------------------
(***************************************************************************)
(* What the assembler promises: every line of the source becomes the word  *)
(* that the processor decodes to what the line says.                       *)
(***************************************************************************)
EXTENDS Assembler, FiniteSetsExt

CodeBefore(k) == {j \in 1 .. k - 1 : IsCode(source[j].text)}

(* The address of line k, and of a label: 4 bytes for each instruction in  *)
(* front of it.  The last of several definitions counts.                   *)
Place(k)         == 4 * Cardinality(CodeBefore(k))
DefinedBefore(k, t) ==
  {j \in 1 .. k - 1 : IsLabel(source[j].text) /\ source[j].text.label = t}
Definitions(t)   == DefinedBefore(Len(source) + 1, t)
LabelPlace(t)    == Place(Max(Definitions(t)))

(* The two passes give every line the same address, that of its word in    *)
(* the binary, and the second pass has for each label of the source the    *)
(* address of the line behind it, wherever in the source it is used; the   *)
(* labels it makes up itself are all at 0, whatever blanks and comments    *)
(* either pass has to cut off to tell labels from instructions (firstPass, *)
(* secondPass, the lookups of parseInstruction).                           *)
Addresses ==
  /\ pass = "first" =>
       /\ current_address = Place(line)
       /\ \A t \in DOMAIN labels : labels[t] = Place(Max(DefinedBefore(line, t)))
       /\ \A j \in 1 .. line - 1 :
            IsLabel(source[j].text) => source[j].text.label \in DOMAIN labels
  /\ pass \in {"second", "written"} =>
       /\ current_address = Place(line) /\ current_address = 4 * Len(instructions)
       /\ \A t \in DOMAIN labels :
            labels[t] = IF Definitions(t) = {} THEN 0 ELSE LabelPlace(t)
       /\ \A j \in DOMAIN source :
            IsLabel(source[j].text) => source[j].text.label \in DOMAIN labels

(* The inductive form: besides, the first pass has the labels it has       *)
(* passed and no others, and no instructions yet, and both stay in the     *)
(* file (the loops over the lines of firstPass and secondPass).            *)
InTheFile ==
  /\ Len(source) \in Nat /\ DOMAIN source = 1 .. Len(source)
  /\ line \in 1 .. Len(source) + 1
  /\ Len(instructions) \in Nat
  /\ instructions = [i \in 1 .. Len(instructions) |-> instructions[i]]
  /\ pass = "first" => /\ instructions = << >>
                       /\ \A t \in DOMAIN labels : DefinedBefore(line, t) # {}
  /\ pass = "written" => line = Len(source) + 1

PassesAgree == InTheFile /\ Addresses
---------------------------------------------------------------------------
(* What a line says: the fields the decoded instruction must have. *)

IsRegister(t) == t.type = "register" /\ t.n \in 0 .. 31
IsCsr(t)      == t.type = "name" /\ \E i \in DOMAIN CsrOrder : CsrOrder[i] = t.name
IsDefined(t)  == t.type \in {"name", "rname"} /\ Definitions(t) # {}

(* A number that nothing in the file makes a label of. *)
JumpedTo(t) ==
  \E j \in DOMAIN source :
    IsCode(source[j].text) /\ t \in Targets(source[j].text.op, source[j].text.args)
IsNumber(t) == t.type = "number" /\ Definitions(t) = {} /\ ~JumpedTo(t)

(* A number, an address and a distance that a signed field has room for.   *)
SignedRange(size) == -(2^(size - 1)) .. 2^(size - 1) - 1
Fits(t, size) ==
  \/ IsNumber(t) /\ t.n \in SignedRange(size)
  \/ t.type = "name" /\ Definitions(t) # {} /\ LabelPlace(t) \in SignedRange(size)
Reaches(t, k, size) == IsDefined(t) /\ LabelPlace(t) - Place(k) \in SignedRange(size)

Value(t) == U32Of(IF t.type = "name" THEN LabelPlace(t) ELSE t.n)
R(t)     == U32Of(t.n)
CsrOf(t) == U32Of(CHOOSE i \in 0 .. 14 : CsrOrder[i + 1] = t.name)

(* The lines the assembler supports, at line k of the source. *)
Supported(op, a, k) ==
  \/ a = << >> /\ op \in Bare
  \/ /\ a # << >>
     /\ \/ op = "WORD" /\ Fits(a[1], 31)
        \/ op \in ThreeRegisters /\ \A i \in 1 .. 3 : IsRegister(a[i])
        \/ op = "CMP" /\ IsRegister(a[1]) /\ (IsRegister(a[2]) \/ Fits(a[2], 19))
        \/ op = "MOV" /\ IsRegister(a[1]) /\ (IsRegister(a[2]) \/ Fits(a[2], 21))
        \/ op \in Far /\ Reaches(a[1], k, 26)
        \/ /\ op = "BJMP" /\ a[1].type = "name" /\ a[1].name \in Cond \ {"CS", "CC"}
           /\ Reaches(a[2], k, 23)
        \/ /\ op \in {"LOADW", "STOREW"} /\ IsRegister(a[1])
           /\ a[2].type = "indirect" /\ IsRegister(a[2].base) /\ Fits(a[2].off, 16)
        \/ op = "CSRR" /\ IsRegister(a[1]) /\ IsCsr(a[2])
        \/ op = "CSRW" /\ IsCsr(a[1]) /\ IsRegister(a[2])
        \/ op \in Stack /\ IsRegister(a[1])

(* The fields of a decoded instruction are those that line k says. *)
Says(d, op, a, k) ==
  \/ a = << >> /\ d.opcode = op
  \/ /\ a # << >> /\ d.opcode = op
     /\ \/ /\ op \in ThreeRegisters /\ d.format = "R"
           /\ d.rd = R(a[1]) /\ d.rs1 = R(a[2]) /\ d.rs2 = R(a[3])
        \/ /\ op = "CMP" /\ IsRegister(a[2]) /\ d.format = "R"
           /\ d.rs1 = R(a[1]) /\ d.rs2 = R(a[2])
        \/ /\ op = "CMP" /\ ~IsRegister(a[2]) /\ d.format = "I"
           /\ d.rs1 = R(a[1]) /\ d.imm = Value(a[2])
        \/ op = "MOV" /\ IsRegister(a[2]) /\ d.rd = R(a[1]) /\ d.rs1 = R(a[2])
        \/ op \in Far /\ d.imm = U32Of(LabelPlace(a[1]) - Place(k))
        \/ /\ op = "BJMP" /\ d.cond = a[1].name
           /\ d.imm = U32Of(LabelPlace(a[2]) - Place(k))
        \/ /\ op \in {"LOADW", "STOREW"} /\ d.rd = R(a[1])
           /\ d.rs1 = R(a[2].base) /\ d.imm = Value(a[2].off)
        \/ op = "CSRR" /\ d.rd = R(a[1]) /\ d.csr = CsrOf(a[2])
        \/ op = "CSRW" /\ d.rs1 = R(a[2]) /\ d.csr = CsrOf(a[1])
        \/ op = "POP" /\ d.rd = R(a[1])
        \/ op \in {"PUSH", "CALLR"} /\ d.rs1 = R(a[1])
  \/ /\ a # << >> /\ op = "MOV" /\ ~IsRegister(a[2])
     /\ d.opcode = "LOADI" /\ d.rd = R(a[1]) /\ d.imm = Value(a[2])

(* The code lines that have been assembled, and the word of a line. *)
Assembled == IF pass = "first" THEN {} ELSE CodeBefore(line)
WordOf(k) == instructions[Place(k) \div 4 + 1]

(* A word is what line k says. *)
Decodes(word, k) ==
  LET op == source[k].text.op   a == source[k].text.args
  IN  Supported(op, a, k) =>
        IF op = "WORD" THEN word = Value(a[1]) ELSE Says(decode_inst(word), op, a, k)

(* Every supported line becomes a word that the decoder takes apart into   *)
(* what the line says: no field is encoded in one place and decoded from   *)
(* another or cut short, CSRs have the numbers of include/cpu/csr.hpp, and *)
(* a jump from where the line ends up reaches the instruction behind its   *)
(* label, backwards and forwards, however many blank lines, labels and     *)
(* data words are between them (parseInstruction, the functions of         *)
(* encoder.cpp, decode_inst).                                              *)
AssemblesToWhatItSays == \A k \in Assembled : Decodes(WordOf(k), k)

(* Its inductive form: the second pass has no labels but those of the file *)
(* and those its jumps made up (the lookups of parseInstruction).          *)
LabelsKnown ==
  pass = "second" => \A t \in DOMAIN labels : Definitions(t) # {} \/ JumpedTo(t)

Faithful == PassesAgree /\ LabelsKnown /\ AssemblesToWhatItSays
=============================================================================
