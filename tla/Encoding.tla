------------------------------ MODULE Encoding ------------------------------
(***************************************************************************)
(* Instruction words: the functions that build them (src/encoder.cpp) and  *)
(* the one that takes them apart (src/decoder.cpp), over the layout of     *)
(* include/decoder/encoding.hpp.                                           *)
(*                                                                         *)
(* A u32 is the set of the positions of its one bits, and so is every      *)
(* value that goes into a word: w | v is a union and (x & mask) << lsb     *)
(* moves the low bits of x to their field.                                 *)
(***************************************************************************)
EXTENDS Integers

BITS == 32
U32  == SUBSET (0 .. BITS - 1)

(* The bits of an integer between -2^30 and 2^30 in two's complement. *)
U32Of(n) == {i \in 0 .. BITS - 2 : (n \div 2^i) % 2 = 1}
              \union (IF n < 0 THEN {BITS - 1} ELSE {})

Positions(lsb, size) == [lsb |-> lsb, size |-> size]

MODE       == Positions(0, 2)
OPCODE     == Positions(26, 6)
RD         == Positions(21, 5)
RS1        == Positions(16, 5)
RS2        == Positions(11, 5)
IMM19      == Positions(2, 19)
IMM21      == Positions(0, 21)
IMM16      == Positions(0, 16)
IMM26      == Positions(2, 26)
IMM11      == Positions(8, 11)
ADDR23     == Positions(0, 23)
ADDR26     == Positions(0, 26)
COND       == Positions(23, 3)
CSR_ADDR   == Positions(16, 5)
CSRWI_ADDR == Positions(19, 5)

(* (x & ((1 << size) - 1)) << lsb *)
Put(field, x) == {i \in field.lsb .. field.lsb + field.size - 1 : i - field.lsb \in x}

extract_bits(w, field) == {i \in 0 .. field.size - 1 : i + field.lsb \in w}

sign_extend(x, size) == IF size - 1 \in x THEN x \union (size .. BITS - 1) ELSE x

Number ==
  [ADD |-> 0, SUB |-> 1, AND |-> 2, OR |-> 3, XOR |-> 4, SHL |-> 5, SHR |-> 6, SAR |-> 7,
   MUL |-> 8, DIV |-> 9, CMP |-> 10, MOV |-> 11, LUI |-> 12, AUI |-> 13, LOADI |-> 14,
   LOADW |-> 15, LOADB |-> 16, STOREW |-> 17, STOREB |-> 18, JMP |-> 19, BJMP |-> 20,
   CALL |-> 21, RET |-> 22, HLT |-> 23, NOP |-> 24, SYSCALL |-> 25, TRAP |-> 26,
   IRET |-> 27, CSRR |-> 28, CSRW |-> 29, CSRWI |-> 30, PUSH |-> 31, POP |-> 32,
   CALLR |-> 33]
CondNumber == [EQ |-> 0, NE |-> 1, LT |-> 2, LE |-> 3, GT |-> 4, GE |-> 5, CS |-> 6, CC |-> 7]

(* The bits of an enumeration constant. *)
EnumBits(n) == {i \in 0 .. 5 : (n \div <<1, 2, 4, 8, 16, 32>>[i + 1]) % 2 = 1}

Mnemonic == DOMAIN Number
Cond     == DOMAIN CondNumber
REGISTER  == {}              \* class Mode: 0 and 1
IMMEDIATE == {0}

Logic  == {"ADD", "SUB", "AND", "OR", "XOR"}
Shift  == {"SHL", "SHR", "SAR", "MUL", "DIV"}
Wide   == {"LUI", "AUI", "LOADI"}
Access == {"LOADW", "LOADB", "STOREW", "STOREB"}
Far    == {"JMP", "CALL"}
Bare   == {"RET", "HLT", "NOP", "SYSCALL", "IRET"}
Stack  == {"PUSH", "POP", "CALLR"}
---------------------------------------------------------------------------
(* The encoder *)

Opcode(op) == Put(OPCODE, EnumBits(Number[op]))

(* In the immediate form ADD, SUB and the logic operations have no rs1;    *)
(* the fields of the others overlap.                                       *)
Arithmetic(op, rd, rs1, x, mode) ==
  Opcode(op) \union Put(MODE, mode) \union Put(RD, rd) \union
    (IF mode = REGISTER THEN Put(RS1, rs1) \union Put(RS2, x)
     ELSE (IF op \in Shift THEN Put(RS1, rs1) ELSE {}) \union Put(IMM19, x))

CMP(rs1, x, mode) ==
  Opcode("CMP") \union Put(MODE, mode) \union
    (IF mode = REGISTER THEN Put(RS1, rs1) \union Put(RS2, x)
     ELSE Put(RD, rs1) \union Put(IMM19, x))

MOV(rd, rs1)              == Opcode("MOV") \union Put(RD, rd) \union Put(RS1, rs1)
SetWide(op, rd, imm21)    == Opcode(op) \union Put(RD, rd) \union Put(IMM21, imm21)
Memory(op, rd, rs1, imm16) ==
  Opcode(op) \union Put(RD, rd) \union Put(RS1, rs1) \union Put(IMM16, imm16)
Jump(op, addr26)          == Opcode(op) \union Put(ADDR26, addr26)
BJMP(cond, addr23) ==
  Opcode("BJMP") \union Put(COND, EnumBits(CondNumber[cond])) \union Put(ADDR23, addr23)
Plain(op)                 == Opcode(op)
TRAP(imm26)               == Opcode("TRAP") \union Put(IMM26, imm26)
CSRR(rd, csr, mode) ==
  Opcode("CSRR") \union Put(MODE, mode) \union Put(RD, rd) \union Put(CSR_ADDR, csr)
CSRW(rs1, csr, mode) ==
  Opcode("CSRW") \union Put(MODE, mode) \union Put(RD, rs1) \union Put(CSR_ADDR, csr)
CSRWI(csr, imm11)         == Opcode("CSRWI") \union Put(CSRWI_ADDR, csr) \union Put(IMM11, imm11)
OneRegister(op, r)        == Opcode(op) \union Put(RD, r)
---------------------------------------------------------------------------
(* The decoder *)

Signed(field, w) == sign_extend(extract_bits(w, field), field.size)

Numbered(names, x) == {n \in DOMAIN names : EnumBits(names[n]) = x}

extract_opcode(w) ==
  LET ops == Numbered(Number, extract_bits(w, OPCODE))
  IN  IF ops = {} THEN "INVALID" ELSE CHOOSE op \in ops : TRUE

extract_cond(w) == CHOOSE c \in Numbered(CondNumber, extract_bits(w, COND)) : TRUE

TwoForms == Logic \union Shift \union {"CMP", "MOV"}

classify_format(op, mode) ==
  IF op \in Wide \/ (op \in TwoForms /\ mode # REGISTER) THEN "I"
  ELSE IF op \in TwoForms                               THEN "R"
  ELSE IF op \in Access \union Stack                    THEN "M"
  ELSE IF op \in Far \union Bare \union {"BJMP", "TRAP"} THEN "S"
  ELSE IF op \in {"CSRR", "CSRW", "CSRWI"}              THEN "C"
  ELSE "INVALID"

(* A field that is read under a condition, and otherwise zero. *)
Only(condition, x) == IF condition THEN x ELSE {}

(* The result of decode_inst, field by field; imm is the one of imm11 to   *)
(* addr26 that the instruction has.  A field it has not is zero.           *)
decode_inst(w) ==
  LET op     == extract_opcode(w)
      format == classify_format(op, extract_bits(w, MODE))
      rs1_in_rd == op \in {"PUSH", "CALLR", "CSRW"} \/ (op = "CMP" /\ format = "I")
      has_rs1   == format = "R" \/ op \in Access \union Shift \union {"ADD", "SUB"}
  IN  [opcode |-> op, format |-> format,
       rd   |-> Only(\/ format \in {"R", "I", "M"} /\ op \notin {"CMP", "PUSH", "CALLR"}
                     \/ op = "CSRR", extract_bits(w, RD)),
       rs1  |-> Only(rs1_in_rd, extract_bits(w, RD)) \union
                Only(has_rs1, extract_bits(w, RS1)),
       rs2  |-> Only(format = "R" /\ op # "MOV", extract_bits(w, RS2)),
       csr  |-> Only(op \in {"CSRR", "CSRW"}, extract_bits(w, CSR_ADDR)) \union
                Only(op = "CSRWI", extract_bits(w, CSRWI_ADDR)),
       imm  |-> Only(op \in Wide, Signed(IMM21, w)) \union
                Only(format = "I" /\ op \notin Wide, Signed(IMM19, w)) \union
                Only(op \in Access, Signed(IMM16, w)) \union
                Only(op \in Far, Signed(ADDR26, w)) \union
                Only(op = "BJMP", Signed(ADDR23, w)) \union
                Only(op = "TRAP", Signed(IMM26, w)) \union
                Only(op = "CSRWI", Signed(IMM11, w)),
       cond |-> IF op = "BJMP" THEN extract_cond(w) ELSE "EQ"]
=============================================================================
