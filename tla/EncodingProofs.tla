--------------------------- MODULE EncodingProofs ---------------------------
(***************************************************************************)
(* The decoder is the inverse of the encoder: for all operands, not only   *)
(* those of the programs TLC assembles, and for the instructions the       *)
(* assembler has no mnemonic for; and it decodes every word.               *)
(***************************************************************************)
EXTENDS Encoding, TLAPS

(* The bits of x a field of some size has room for, and the values that    *)
(* come back from a signed field of that size.                             *)
Low(x, size)  == x \intersect (0 .. size - 1)
FitsField(x, size) == \A i \in size .. BITS - 1 : i \in x <=> size - 1 \in x

---------------------------------------------------------------------------
(* Opcodes *)

(* The five low bits of an enumerator, as remainders. *)
LEMMA BitOfEnum ==
  ASSUME NEW n \in 0 .. 63
  PROVE  /\ 0 \in EnumBits(n) <=> n % 2 = 1
         /\ 1 \in EnumBits(n) <=> (n \div 2) % 2 = 1
         /\ 2 \in EnumBits(n) <=> (n \div 4) % 2 = 1
         /\ 3 \in EnumBits(n) <=> (n \div 8) % 2 = 1
         /\ 4 \in EnumBits(n) <=> (n \div 16) % 2 = 1
         /\ 5 \in EnumBits(n) <=> (n \div 32) % 2 = 1
  BY DEF EnumBits

(* Enumerators of six bits differ in a bit. *)
LEMMA EnumBitsInjective ==
  ASSUME NEW n \in 0 .. 63, NEW m \in 0 .. 63, EnumBits(n) = EnumBits(m)
  PROVE  n = m
<1>1. /\ n % 2 = 1 <=> m % 2 = 1
      /\ (n \div 2) % 2 = 1 <=> (m \div 2) % 2 = 1
      /\ (n \div 4) % 2 = 1 <=> (m \div 4) % 2 = 1
      /\ (n \div 8) % 2 = 1 <=> (m \div 8) % 2 = 1
      /\ (n \div 16) % 2 = 1 <=> (m \div 16) % 2 = 1
      /\ (n \div 32) % 2 = 1 <=> (m \div 32) % 2 = 1
  BY BitOfEnum
<1>2. QED BY <1>1, SMTT(60)

(* Opcodes have the numbers 0 to 33, *)
LEMMA NumberType == \A op \in Mnemonic : Number[op] \in 0 .. 33
  BY DEF Mnemonic, Number

(* no two the same. *)
LEMMA NumberInjective ==
  ASSUME NEW op \in Mnemonic, NEW other \in Mnemonic, Number[op] = Number[other]
  PROVE  op = other
  BY SMTT(60) DEF Mnemonic, Number

(* The opcode is in front of every field and comes back. *)
LEMMA OpcodeRead ==
  ASSUME NEW op \in Mnemonic, NEW w \in SUBSET (0 .. 25)
  PROVE  extract_opcode(Opcode(op) \union w) = op
<1> DEFINE x == extract_bits(Opcode(op) \union w, OPCODE)
<1>1. x = EnumBits(Number[op])
  BY DEF extract_bits, Opcode, Put, OPCODE, Positions, EnumBits
<1>2. \A other \in Mnemonic : EnumBits(Number[other]) = x => other = op
  BY <1>1, NumberType, EnumBitsInjective, NumberInjective
<1>3. op \in Numbered(Number, x)
  BY <1>1 DEF Numbered, Mnemonic
<1>4. Numbered(Number, x) = {op}
  BY <1>2, <1>3 DEF Numbered, Mnemonic
<1>5. QED BY <1>4 DEF extract_opcode

---------------------------------------------------------------------------
(* Fields *)

(* A value that fits a signed field survives it. *)
LEMMA SignExtended ==
  ASSUME NEW x \in U32, NEW size \in 1 .. BITS, FitsField(x, size)
  PROVE  sign_extend(Low(x, size), size) = x
<1>1. size - 1 \in Low(x, size) <=> size - 1 \in x
  BY DEF Low, BITS
<1> x \subseteq 0 .. 31 /\ size \in 1 .. 32
  BY DEF U32, BITS
<1>2. CASE size - 1 \in x
  <2>1. \A i \in size .. BITS - 1 : i \in x
    BY <1>2 DEF FitsField
  <2>2. \A i \in 0 .. 31 : i \in x <=> i \in Low(x, size) \union (size .. 31)
    BY <2>1 DEF BITS, Low
  <2>3. Low(x, size) \union (size .. 31) \subseteq 0 .. 31
    BY DEF Low
  <2> DEFINE y == Low(x, size) \union (size .. 31)
  <2> HIDE DEF y
  <2>4. x = y
    BY <2>2, <2>3 DEF y
  <2>5. QED BY <1>1, <1>2, <2>4 DEF sign_extend, y, BITS
<1>3. CASE size - 1 \notin x
  <2>1. \A i \in size .. BITS - 1 : i \notin x
    BY <1>3 DEF FitsField
  <2>2. \A i \in 0 .. 31 : i \in x <=> i \in Low(x, size)
    BY <2>1 DEF BITS, Low
  <2>3. x = Low(x, size)
    BY <2>2 DEF Low
  <2>4. QED BY <1>1, <1>3, <2>3 DEF sign_extend
<1>4. QED BY <1>2, <1>3

(* The fields below the opcode are not disturbed by it. *)
LEMMA WordRead ==
  ASSUME NEW op \in Mnemonic, NEW v \in SUBSET (0 .. 25)
  PROVE  LET w == Opcode(op) \union v
         IN  /\ extract_opcode(w) = op
             /\ \A lsb \in 0 .. 25 : \A size \in 0 .. 26 - lsb :
                  extract_bits(w, Positions(lsb, size)) = extract_bits(v, Positions(lsb, size))
<1>1. extract_opcode(Opcode(op) \union v) = op
  BY OpcodeRead
<1>2. ASSUME NEW lsb \in 0 .. 25, NEW size \in 0 .. 26 - lsb
      PROVE  extract_bits(Opcode(op) \union v, Positions(lsb, size))
               = extract_bits(v, Positions(lsb, size))
  BY DEF extract_bits, Opcode, Put, OPCODE, Positions
<1>3. QED BY <1>1, <1>2

(* The same for each field. *)
LEMMA FieldsRead ==
  ASSUME NEW op \in Mnemonic, NEW v \in SUBSET (0 .. 25)
  PROVE  LET w == Opcode(op) \union v
         IN  /\ extract_opcode(w) = op
             /\ \A field \in {MODE, RD, RS1, RS2, IMM19, IMM21, IMM16, IMM11, ADDR23, ADDR26,
                              COND, CSR_ADDR, CSRWI_ADDR} :
                  extract_bits(w, field) = extract_bits(v, field)
  BY WordRead DEF MODE, RD, RS1, RS2, IMM19, IMM21, IMM16, IMM11, ADDR23, ADDR26, COND,
                  CSR_ADDR, CSRWI_ADDR

(* A field that is read where it was put gives the bits there was room for.*)
LEMMA FieldPut ==
  ASSUME NEW lsb \in Nat, NEW size \in Nat, NEW x \in U32, NEW v,
         \A i \in 0 .. size - 1 : i + lsb \in v <=> i \in x
  PROVE  extract_bits(v, Positions(lsb, size)) = Low(x, size)
  BY DEF extract_bits, Positions, Low

---------------------------------------------------------------------------
(* Instructions, whatever is passed for their operands: register numbers   *)
(* come back modulo 32, immediates as their low bits, sign extended.       *)

(* ADD to DIV of encoder.cpp, with two registers. *)
LEMMA RegisterForm ==
  ASSUME NEW op \in Logic \union Shift, NEW rd \in U32, NEW rs1 \in U32, NEW rs2 \in U32
  PROVE  LET d == decode_inst(Arithmetic(op, rd, rs1, rs2, REGISTER))
         IN  /\ d.opcode = op /\ d.format = "R"
             /\ d.rd = Low(rd, 5) /\ d.rs1 = Low(rs1, 5) /\ d.rs2 = Low(rs2, 5)
<1> DEFINE v == Put(MODE, REGISTER) \union Put(RD, rd) \union Put(RS1, rs1) \union Put(RS2, rs2)
           w == Opcode(op) \union v
<1>1. Arithmetic(op, rd, rs1, rs2, REGISTER) = w
  BY DEF Arithmetic, REGISTER
<1>2. op \in Mnemonic /\ op \notin {"CMP", "PUSH", "CALLR", "CSRW", "MOV"}
  BY DEF Logic, Shift, Mnemonic, Number
<1>3. v \in SUBSET (0 .. 25)
  BY DEF Put, MODE, RD, RS1, RS2, Positions
<1>4. extract_bits(v, MODE) = REGISTER /\ extract_bits(v, RD) = Low(rd, 5)
  BY DEF extract_bits, Put, MODE, RD, RS1, RS2, Positions, REGISTER, Low
<1>5. extract_bits(v, RS1) = Low(rs1, 5) /\ extract_bits(v, RS2) = Low(rs2, 5)
  BY DEF extract_bits, Put, MODE, RD, RS1, RS2, Positions, REGISTER, Low
<1>6. classify_format(op, REGISTER) = "R"
  BY DEF classify_format, TwoForms, Logic, Shift, Wide
<1> HIDE DEF v
<1>7. extract_opcode(w) = op /\ extract_bits(w, MODE) = REGISTER /\ extract_bits(w, RD) = Low(rd, 5)
      /\ extract_bits(w, RS1) = Low(rs1, 5) /\ extract_bits(w, RS2) = Low(rs2, 5)
  BY <1>2, <1>3, <1>4, <1>5, FieldsRead
<1> HIDE DEF w
<1>8. QED BY <1>1, <1>2, <1>6, <1>7 DEF decode_inst, Only
(* ADD to XOR with an immediate. *)
LEMMA ImmediateForm ==
  ASSUME NEW op \in Logic, NEW rd \in U32, NEW rs1 \in U32, NEW imm \in U32
  PROVE  LET d == decode_inst(Arithmetic(op, rd, rs1, imm, IMMEDIATE))
         IN  d.opcode = op /\ d.format = "I" /\ d.rd = Low(rd, 5) /\ d.imm = sign_extend(Low(imm, 19), 19)
<1> DEFINE v == Put(MODE, IMMEDIATE) \union Put(RD, rd) \union Put(IMM19, imm)
           w == Opcode(op) \union v
<1>1. Arithmetic(op, rd, rs1, imm, IMMEDIATE) = w /\ op \in Mnemonic
  BY DEF Arithmetic, REGISTER, IMMEDIATE, Shift, Mnemonic, Number, Logic
<1>2. v \in SUBSET (0 .. 25)
  BY DEF Put, MODE, RD, IMM19, Positions
<1>3. /\ extract_bits(v, MODE) = IMMEDIATE
      /\ extract_bits(v, RD) = Low(rd, 5)
      /\ extract_bits(v, IMM19) = Low(imm, 19)
  BY DEF extract_bits, Put, MODE, RD, IMM19, Positions, Low, REGISTER, IMMEDIATE
<1>4. classify_format(op, IMMEDIATE) = "I"
  BY DEF classify_format, TwoForms, Logic, Shift, Wide, Access, Stack, Far, Bare, REGISTER,
         IMMEDIATE
<1> HIDE DEF v
<1>5. /\ extract_opcode(w) = op
      /\ extract_bits(w, MODE) = IMMEDIATE
      /\ extract_bits(w, RD) = Low(rd, 5)
      /\ extract_bits(w, IMM19) = Low(imm, 19)
  BY <1>1, <1>2, <1>3, FieldsRead
<1> HIDE DEF w
<1>6. QED BY <1>1, <1>4, <1>5 DEF decode_inst, Only, Signed, Logic, IMM19, Positions,
            Wide, Access, Far

(* SHL to DIV with an immediate: rs1 and the immediate share five bits,    *)
(* and each comes back with what the other one has there (encoder.cpp      *)
(* 75-149).                                                                *)
THEOREM ImmediateFormOverlap ==
  ASSUME NEW op \in Shift, NEW rd \in U32, NEW rs1 \in U32, NEW imm \in U32
  PROVE  LET d == decode_inst(Arithmetic(op, rd, rs1, imm, IMMEDIATE))
         IN  /\ d.opcode = op /\ d.format = "I" /\ d.rd = Low(rd, 5)
             /\ d.rs1 = {i \in 0 .. 4 : i \in rs1 \/ i + 14 \in imm}
             /\ d.imm = sign_extend({i \in 0 .. 18 : i \in imm \/ i - 14 \in rs1}, 19)
<1> DEFINE v == Put(MODE, IMMEDIATE) \union Put(RD, rd) \union Put(RS1, rs1) \union Put(IMM19, imm)
           w == Opcode(op) \union v
<1>1. Arithmetic(op, rd, rs1, imm, IMMEDIATE) = w /\ op \in Mnemonic
  BY DEF Arithmetic, REGISTER, IMMEDIATE, Mnemonic, Number, Shift
<1>2. v \in SUBSET (0 .. 25)
  BY DEF Put, MODE, RD, RS1, IMM19, Positions
<1>3. /\ extract_bits(v, MODE) = IMMEDIATE
      /\ extract_bits(v, RD) = Low(rd, 5)
      /\ extract_bits(v, RS1) = {i \in 0 .. 4 : i \in rs1 \/ i + 14 \in imm}
  BY DEF extract_bits, Put, MODE, RD, RS1, IMM19, Positions, Low, REGISTER, IMMEDIATE
<1>4. ASSUME NEW i \in 0 .. 18
      PROVE  i + 2 \in v <=> i \in imm \/ i - 14 \in rs1
  BY DEF Put, MODE, RD, RS1, IMM19, Positions, IMMEDIATE, U32, BITS
<1>5. extract_bits(v, IMM19) = {i \in 0 .. 18 : i \in imm \/ i - 14 \in rs1}
  BY <1>4 DEF extract_bits, IMM19, Positions
<1>6. classify_format(op, IMMEDIATE) = "I"
  BY DEF classify_format, TwoForms, Logic, Shift, Wide, Access, Stack, Far, Bare, REGISTER,
         IMMEDIATE
<1> HIDE DEF v
<1>7. /\ extract_opcode(w) = op
      /\ extract_bits(w, MODE) = IMMEDIATE
      /\ extract_bits(w, RD) = Low(rd, 5)
      /\ extract_bits(w, RS1) = {i \in 0 .. 4 : i \in rs1 \/ i + 14 \in imm}
      /\ extract_bits(w, IMM19) = {i \in 0 .. 18 : i \in imm \/ i - 14 \in rs1}
  BY <1>1, <1>2, <1>3, <1>5, FieldsRead
<1> HIDE DEF w
<1>8. QED BY <1>1, <1>6, <1>7 DEF decode_inst, Only, Signed, Shift, IMM19, Positions,
            Wide, Access, Far

(* CMP, with two registers. *)
LEMMA CmpRegisters ==
  ASSUME NEW rs1 \in U32, NEW rs2 \in U32
  PROVE  LET d == decode_inst(CMP(rs1, rs2, REGISTER))
         IN  /\ d.opcode = "CMP" /\ d.format = "R"
             /\ d.rs1 = Low(rs1, 5) /\ d.rs2 = Low(rs2, 5)
<1> DEFINE v == Put(MODE, REGISTER) \union Put(RS1, rs1) \union Put(RS2, rs2)
           w == Opcode("CMP") \union v
<1>1. CMP(rs1, rs2, REGISTER) = w /\ "CMP" \in Mnemonic
  BY DEF CMP, Mnemonic, Number
<1>2. v \in SUBSET (0 .. 25)
  BY DEF Put, MODE, RS1, RS2, Positions
<1>3. /\ extract_bits(v, MODE) = REGISTER
      /\ extract_bits(v, RS1) = Low(rs1, 5)
      /\ extract_bits(v, RS2) = Low(rs2, 5)
  BY DEF extract_bits, Put, MODE, RS1, RS2, Positions, Low, REGISTER, IMMEDIATE
<1>4. classify_format("CMP", REGISTER) = "R"
  BY DEF classify_format, TwoForms, Logic, Shift, Wide, Access, Stack, Far, Bare, REGISTER,
         IMMEDIATE
<1> HIDE DEF v
<1>5. /\ extract_opcode(w) = "CMP"
      /\ extract_bits(w, MODE) = REGISTER
      /\ extract_bits(w, RS1) = Low(rs1, 5)
      /\ extract_bits(w, RS2) = Low(rs2, 5)
  BY <1>1, <1>2, <1>3, FieldsRead
<1> HIDE DEF w
<1>6. QED BY <1>1, <1>4, <1>5 DEF decode_inst, Only


(* The immediate form of CMP has its register in RD. *)
LEMMA CmpImmediate ==
  ASSUME NEW rs1 \in U32, NEW imm \in U32
  PROVE  LET d == decode_inst(CMP(rs1, imm, IMMEDIATE))
         IN  /\ d.opcode = "CMP" /\ d.format = "I"
             /\ d.rs1 = Low(rs1, 5) /\ d.imm = sign_extend(Low(imm, 19), 19)
<1> DEFINE v == Put(MODE, IMMEDIATE) \union Put(RD, rs1) \union Put(IMM19, imm)
           w == Opcode("CMP") \union v
<1>1. CMP(rs1, imm, IMMEDIATE) = w /\ "CMP" \in Mnemonic
  BY DEF CMP, REGISTER, IMMEDIATE, Mnemonic, Number
<1>2. v \in SUBSET (0 .. 25)
  BY DEF Put, MODE, RD, IMM19, Positions
<1>3. /\ extract_bits(v, MODE) = IMMEDIATE
      /\ extract_bits(v, RD) = Low(rs1, 5)
      /\ extract_bits(v, IMM19) = Low(imm, 19)
  BY DEF extract_bits, Put, MODE, RD, IMM19, Positions, Low, REGISTER, IMMEDIATE
<1>4. classify_format("CMP", IMMEDIATE) = "I"
  BY DEF classify_format, TwoForms, Logic, Shift, Wide, Access, Stack, Far, Bare, REGISTER,
         IMMEDIATE
<1> HIDE DEF v
<1>5. /\ extract_opcode(w) = "CMP"
      /\ extract_bits(w, MODE) = IMMEDIATE
      /\ extract_bits(w, RD) = Low(rs1, 5)
      /\ extract_bits(w, IMM19) = Low(imm, 19)
  BY <1>1, <1>2, <1>3, FieldsRead
<1> HIDE DEF w
<1>6. QED BY <1>1, <1>4, <1>5 DEF decode_inst, Only, Signed, IMM19, Positions, Wide,
            Access, Far, Logic, Shift

(* MOV. *)
LEMMA MovRegister ==
  ASSUME NEW rd \in U32, NEW rs1 \in U32
  PROVE  LET d == decode_inst(MOV(rd, rs1))
         IN  d.opcode = "MOV" /\ d.rd = Low(rd, 5) /\ d.rs1 = Low(rs1, 5)
<1> DEFINE v == Put(RD, rd) \union Put(RS1, rs1)
           w == Opcode("MOV") \union v
<1>1. MOV(rd, rs1) = w /\ "MOV" \in Mnemonic
  BY DEF MOV, Mnemonic, Number
<1>2. v \in SUBSET (0 .. 25)
  BY DEF Put, MODE, RD, RS1, Positions
<1>3. /\ extract_bits(v, MODE) = REGISTER
      /\ extract_bits(v, RD) = Low(rd, 5)
      /\ extract_bits(v, RS1) = Low(rs1, 5)
  BY DEF extract_bits, Put, MODE, RD, RS1, Positions, Low, REGISTER, IMMEDIATE
<1>4. classify_format("MOV", REGISTER) = "R"
  BY DEF classify_format, TwoForms, Logic, Shift, Wide, Access, Stack, Far, Bare, REGISTER,
         IMMEDIATE
<1> HIDE DEF v
<1>5. /\ extract_opcode(w) = "MOV"
      /\ extract_bits(w, MODE) = REGISTER
      /\ extract_bits(w, RD) = Low(rd, 5)
      /\ extract_bits(w, RS1) = Low(rs1, 5)
  BY <1>1, <1>2, <1>3, FieldsRead
<1> HIDE DEF w
<1>6. QED BY <1>1, <1>4, <1>5 DEF decode_inst, Only

(* LUI, AUI and LOADI: the immediate reaches into the mode. *)
LEMMA WideImmediate ==
  ASSUME NEW op \in Wide, NEW rd \in U32, NEW imm \in U32
  PROVE  LET d == decode_inst(SetWide(op, rd, imm))
         IN  d.opcode = op /\ d.rd = Low(rd, 5) /\ d.imm = sign_extend(Low(imm, 21), 21)
<1> DEFINE v == Put(RD, rd) \union Put(IMM21, imm)
           w == Opcode(op) \union v
<1>1. SetWide(op, rd, imm) = w /\ op \in Mnemonic
  BY DEF SetWide, Mnemonic, Number, Wide
<1>2. v \in SUBSET (0 .. 25)
  BY DEF Put, RD, IMM21, Positions
<1>3. /\ extract_bits(v, RD) = Low(rd, 5)
      /\ extract_bits(v, IMM21) = Low(imm, 21)
  BY DEF extract_bits, Put, RD, IMM21, Positions, Low
<1>4. \A mode : classify_format(op, mode) = "I"
  BY DEF classify_format, TwoForms, Logic, Shift, Wide, Access, Stack, Far, Bare, REGISTER,
         IMMEDIATE
<1> HIDE DEF v
<1>5. /\ extract_opcode(w) = op
      /\ extract_bits(w, RD) = Low(rd, 5)
      /\ extract_bits(w, IMM21) = Low(imm, 21)
  BY <1>1, <1>2, <1>3, FieldsRead
<1> HIDE DEF w
<1>6. QED BY <1>1, <1>4, <1>5 DEF decode_inst, Only, Signed, Wide, IMM21, Positions,
            Access, Far

(* LOADW to STOREB. *)
LEMMA MemoryAccess ==
  ASSUME NEW op \in Access, NEW rd \in U32, NEW rs1 \in U32, NEW imm \in U32
  PROVE  LET d == decode_inst(Memory(op, rd, rs1, imm))
         IN  /\ d.opcode = op /\ d.rd = Low(rd, 5)
             /\ d.rs1 = Low(rs1, 5) /\ d.imm = sign_extend(Low(imm, 16), 16)
<1> DEFINE v == Put(RD, rd) \union Put(RS1, rs1) \union Put(IMM16, imm)
           w == Opcode(op) \union v
<1>1. Memory(op, rd, rs1, imm) = w /\ op \in Mnemonic
  BY DEF Memory, Mnemonic, Number, Access
<1>2. v \in SUBSET (0 .. 25)
  BY DEF Put, RD, RS1, IMM16, Positions
<1>3. /\ extract_bits(v, RD) = Low(rd, 5)
      /\ extract_bits(v, RS1) = Low(rs1, 5)
      /\ extract_bits(v, IMM16) = Low(imm, 16)
  BY DEF extract_bits, Put, RD, RS1, IMM16, Positions, Low
<1>4. \A mode : classify_format(op, mode) = "M"
  BY DEF classify_format, TwoForms, Logic, Shift, Wide, Access, Stack, Far, Bare, REGISTER,
         IMMEDIATE
<1> HIDE DEF v
<1>5. /\ extract_opcode(w) = op
      /\ extract_bits(w, RD) = Low(rd, 5)
      /\ extract_bits(w, RS1) = Low(rs1, 5)
      /\ extract_bits(w, IMM16) = Low(imm, 16)
  BY <1>1, <1>2, <1>3, FieldsRead
<1> HIDE DEF w
<1>6. QED BY <1>1, <1>4, <1>5 DEF decode_inst, Only, Signed, Access, IMM16, Positions,
            Wide, Far

(* JMP and CALL. *)
LEMMA FarJump ==
  ASSUME NEW op \in Far, NEW addr \in U32
  PROVE  LET d == decode_inst(Jump(op, addr))
         IN  d.opcode = op /\ d.imm = sign_extend(Low(addr, 26), 26)
<1> DEFINE v == Put(ADDR26, addr)
           w == Opcode(op) \union v
<1>1. Jump(op, addr) = w /\ op \in Mnemonic
  BY DEF Jump, Mnemonic, Number, Far
<1>2. v \in SUBSET (0 .. 25)
  BY DEF Put, ADDR26, Positions
<1>3. /\ extract_bits(v, ADDR26) = Low(addr, 26)
  BY DEF extract_bits, Put, ADDR26, Positions, Low
<1>4. \A mode : classify_format(op, mode) = "S"
  BY DEF classify_format, TwoForms, Logic, Shift, Wide, Access, Stack, Far, Bare, REGISTER,
         IMMEDIATE
<1> HIDE DEF v
<1>5. /\ extract_opcode(w) = op
      /\ extract_bits(w, ADDR26) = Low(addr, 26)
  BY <1>1, <1>2, <1>3, FieldsRead
<1> HIDE DEF w
<1>6. QED BY <1>1, <1>4, <1>5 DEF decode_inst, Only, Signed, Far, ADDR26, Positions,
            Wide, Access

(* CSRR. *)
LEMMA CsrRead ==
  ASSUME NEW rd \in U32, NEW csr \in U32, NEW mode \in U32
  PROVE  LET d == decode_inst(CSRR(rd, csr, mode))
         IN  d.opcode = "CSRR" /\ d.rd = Low(rd, 5) /\ d.csr = Low(csr, 5)
<1> DEFINE v == Put(MODE, mode) \union Put(RD, rd) \union Put(CSR_ADDR, csr)
           w == Opcode("CSRR") \union v
<1>1. CSRR(rd, csr, mode) = w /\ "CSRR" \in Mnemonic
  BY DEF CSRR, Mnemonic, Number
<1>2. v \in SUBSET (0 .. 25)
  BY DEF Put, RD, CSR_ADDR, MODE, Positions
<1>3. /\ extract_bits(v, RD) = Low(rd, 5)
      /\ extract_bits(v, CSR_ADDR) = Low(csr, 5)
  BY DEF extract_bits, Put, RD, CSR_ADDR, MODE, Positions, Low
<1>4. \A m : classify_format("CSRR", m) = "C"
  BY DEF classify_format, TwoForms, Logic, Shift, Wide, Access, Stack, Far, Bare, REGISTER,
         IMMEDIATE
<1> HIDE DEF v
<1>5. /\ extract_opcode(w) = "CSRR"
      /\ extract_bits(w, RD) = Low(rd, 5)
      /\ extract_bits(w, CSR_ADDR) = Low(csr, 5)
  BY <1>1, <1>2, <1>3, FieldsRead
<1> HIDE DEF w
<1>6. QED BY <1>1, <1>4, <1>5 DEF decode_inst, Only


(* CSRW: whatever the mode, it names a register. *)
LEMMA CsrWrite ==
  ASSUME NEW rs1 \in U32, NEW csr \in U32, NEW mode \in U32
  PROVE  LET d == decode_inst(CSRW(rs1, csr, mode))
         IN  d.opcode = "CSRW" /\ d.rs1 = Low(rs1, 5) /\ d.csr = Low(csr, 5)
<1> DEFINE v == Put(MODE, mode) \union Put(RD, rs1) \union Put(CSR_ADDR, csr)
           w == Opcode("CSRW") \union v
<1>1. CSRW(rs1, csr, mode) = w /\ "CSRW" \in Mnemonic
  BY DEF CSRW, Mnemonic, Number
<1>2. v \in SUBSET (0 .. 25)
  BY DEF Put, RD, CSR_ADDR, MODE, Positions
<1>3. /\ extract_bits(v, RD) = Low(rs1, 5)
      /\ extract_bits(v, CSR_ADDR) = Low(csr, 5)
  BY DEF extract_bits, Put, RD, CSR_ADDR, MODE, Positions, Low
<1>4. \A m : classify_format("CSRW", m) = "C"
  BY DEF classify_format, TwoForms, Logic, Shift, Wide, Access, Stack, Far, Bare, REGISTER,
         IMMEDIATE
<1> HIDE DEF v
<1>5. /\ extract_opcode(w) = "CSRW"
      /\ extract_bits(w, RD) = Low(rs1, 5)
      /\ extract_bits(w, CSR_ADDR) = Low(csr, 5)
  BY <1>1, <1>2, <1>3, FieldsRead
<1> HIDE DEF w
<1>6. QED BY <1>1, <1>4, <1>5 DEF decode_inst, Only, Access, Shift

(* CSRWI. *)
LEMMA CsrWriteImmediate ==
  ASSUME NEW csr \in U32, NEW imm \in U32
  PROVE  LET d == decode_inst(CSRWI(csr, imm))
         IN  d.opcode = "CSRWI" /\ d.csr = Low(csr, 5) /\ d.imm = sign_extend(Low(imm, 11), 11)
<1> DEFINE v == Put(CSRWI_ADDR, csr) \union Put(IMM11, imm)
           w == Opcode("CSRWI") \union v
<1>1. CSRWI(csr, imm) = w /\ "CSRWI" \in Mnemonic
  BY DEF CSRWI, Mnemonic, Number
<1>2. v \in SUBSET (0 .. 25)
  BY DEF Put, CSRWI_ADDR, IMM11, Positions
<1>3. /\ extract_bits(v, CSRWI_ADDR) = Low(csr, 5)
      /\ extract_bits(v, IMM11) = Low(imm, 11)
  BY DEF extract_bits, Put, CSRWI_ADDR, IMM11, Positions, Low
<1>4. \A m : classify_format("CSRWI", m) = "C"
  BY DEF classify_format, TwoForms, Logic, Shift, Wide, Access, Stack, Far, Bare, REGISTER,
         IMMEDIATE
<1> HIDE DEF v
<1>5. /\ extract_opcode(w) = "CSRWI"
      /\ extract_bits(w, CSRWI_ADDR) = Low(csr, 5)
      /\ extract_bits(w, IMM11) = Low(imm, 11)
  BY <1>1, <1>2, <1>3, FieldsRead
<1> HIDE DEF w
<1>6. QED BY <1>1, <1>4, <1>5 DEF decode_inst, Only, Signed, IMM11, Positions, Wide,
            Access, Far

(* PUSH, POP and CALLR. *)
LEMMA StackRegister ==
  ASSUME NEW op \in Stack, NEW r \in U32
  PROVE  LET d == decode_inst(OneRegister(op, r))
         IN  /\ d.opcode = op
             /\ (IF op = "POP" THEN d.rd ELSE d.rs1) = Low(r, 5)
<1> DEFINE v == Put(RD, r)
           w == Opcode(op) \union v
<1>1. OneRegister(op, r) = w /\ op \in Mnemonic
  BY DEF OneRegister, Mnemonic, Number, Stack
<1>2. v \in SUBSET (0 .. 25)
  BY DEF Put, RD, Positions
<1>3. /\ extract_bits(v, RD) = Low(r, 5)
  BY DEF extract_bits, Put, RD, Positions, Low
<1>4. \A m : classify_format(op, m) = "M"
  BY DEF classify_format, TwoForms, Logic, Shift, Wide, Access, Stack, Far, Bare, REGISTER,
         IMMEDIATE
<1> HIDE DEF v
<1>5. /\ extract_opcode(w) = op
      /\ extract_bits(w, RD) = Low(r, 5)
  BY <1>1, <1>2, <1>3, FieldsRead
<1> HIDE DEF w
<1>6. QED BY <1>1, <1>4, <1>5 DEF decode_inst, Only, Stack, Access, Shift

(* RET to IRET. *)
LEMMA BareInstruction ==
  ASSUME NEW op \in Bare
  PROVE  decode_inst(Plain(op)).opcode = op
<1>1. op \in Mnemonic /\ Plain(op) = Opcode(op) \union {}
  BY DEF Plain, Bare, Mnemonic, Number
<1>2. {} \in SUBSET (0 .. 25)
  OBVIOUS
<1>3. extract_opcode(Plain(op)) = op
  BY ONLY <1>1, <1>2, OpcodeRead
<1>4. QED BY <1>3 DEF decode_inst

(* BJMP: the condition is a number in its field. *)
LEMMA CondNumberInjective ==
  ASSUME NEW c \in Cond, NEW other \in Cond, CondNumber[c] = CondNumber[other]
  PROVE  c = other
  BY SMTT(60) DEF Cond, CondNumber

(* BJMP, whose condition lies between opcode and distance. *)
LEMMA ConditionalJump ==
  ASSUME NEW c \in Cond, NEW addr \in U32
  PROVE  LET d == decode_inst(BJMP(c, addr))
         IN  d.opcode = "BJMP" /\ d.cond = c /\ d.imm = sign_extend(Low(addr, 23), 23)
<1> DEFINE x == EnumBits(CondNumber[c])
           v == Put(COND, x) \union Put(ADDR23, addr)
           w == Opcode("BJMP") \union v
<1>1. BJMP(c, addr) = w /\ "BJMP" \in Mnemonic
  BY DEF BJMP, Mnemonic, Number
<1>2. \A other \in Cond : CondNumber[other] \in 0 .. 7
  BY DEF Cond, CondNumber
<1>3. x \subseteq 0 .. 2
  BY <1>2 DEF EnumBits
<1> HIDE DEF x
<1>4. v \in SUBSET (0 .. 25)
  BY DEF Put, COND, ADDR23, Positions
<1>5. extract_bits(v, COND) = x /\ extract_bits(v, ADDR23) = Low(addr, 23)
  <2>1. \A i \in 0 .. 2 : i \in extract_bits(v, COND) <=> i \in x
    BY DEF extract_bits, Put, COND, ADDR23, Positions
  <2>2. extract_bits(v, COND) \subseteq 0 .. 2
    BY DEF extract_bits, COND, Positions
  <2>3. extract_bits(v, COND) = x
    BY <1>3, <2>1, <2>2
  <2>4. extract_bits(v, ADDR23) = Low(addr, 23)
    BY DEF extract_bits, Put, COND, ADDR23, Positions, Low
  <2>5. QED BY <2>3, <2>4
<1> HIDE DEF v
<1>6. extract_opcode(w) = "BJMP" /\ extract_bits(w, COND) = x
      /\ extract_bits(w, ADDR23) = Low(addr, 23)
  BY <1>1, <1>4, <1>5, FieldsRead
<1>7. \A other \in Cond : EnumBits(CondNumber[other]) = x => other = c
  BY <1>2, EnumBitsInjective, CondNumberInjective DEF x
<1>8. Numbered(CondNumber, x) = {c}
  BY <1>7 DEF Numbered, Cond, x
<1>9. extract_cond(w) = c
  BY <1>6, <1>8 DEF extract_cond
<1> HIDE DEF w
<1>10. QED BY <1>1, <1>6, <1>9 DEF decode_inst, Only, Signed, classify_format, TwoForms, Logic,
             Shift, Wide, Access, Stack, Far, ADDR23, Positions

(* TRAP: two bits of its immediate reach into the opcode.  The low one,    *)
(* which every negative number has, makes it an IRET; without it the       *)
(* number of the handler, the low eight bits of the immediate, is read     *)
(* (TRAP of encoder.cpp, extract_imm26).                                   *)
THEOREM TrapNumber ==
  ASSUME NEW imm \in U32
  PROVE  LET d == decode_inst(TRAP(imm))
         IN  /\ 24 \in imm => d.opcode = "IRET"
             /\ imm \subseteq 0 .. 23 => d.opcode = "TRAP" /\ Low(d.imm, 8) = Low(imm, 8)
<1> DEFINE v == Put(IMM26, imm \intersect (0 .. 23))
<1>1. v \in SUBSET (0 .. 25)
  BY DEF Put, IMM26, Positions
<1>2. "TRAP" \in Mnemonic /\ "IRET" \in Mnemonic /\ Number["TRAP"] = 26 /\ Number["IRET"] = 27
  BY DEF Mnemonic, Number
<1>3. CASE 24 \in imm
  <2>1. EnumBits(26) = {1, 3, 4} /\ EnumBits(27) = {0, 1, 3, 4}
    BY BitOfEnum DEF EnumBits
  <2>2. TRAP(imm) = Opcode("IRET") \union v
    BY <1>2, <1>3, <2>1 DEF TRAP, Opcode, Put, OPCODE, IMM26, Positions
  <2>3. extract_opcode(TRAP(imm)) = "IRET"
    BY <1>1, <1>2, <2>2, OpcodeRead
  <2>4. QED BY <1>3, <2>3 DEF decode_inst
<1>4. CASE imm \subseteq 0 .. 23
  <2> DEFINE w == Opcode("TRAP") \union v
  <2>1. TRAP(imm) = w
    BY <1>4 DEF TRAP, Put, IMM26, Positions
  <2>2. extract_opcode(w) = "TRAP"
    BY <1>1, <1>2, OpcodeRead
  <2>3. \A i \in 0 .. 7 : i \in extract_bits(w, IMM26) <=> i \in imm
    BY <1>4 DEF extract_bits, Opcode, Put, OPCODE, IMM26, Positions
  <2>4. \A i \in 0 .. 7 : i \in Signed(IMM26, w) <=> i \in imm
    BY <2>3 DEF Signed, sign_extend, IMM26, Positions, BITS
  <2> HIDE DEF w
  <2>5. decode_inst(w).opcode = "TRAP" /\ decode_inst(w).imm = Signed(IMM26, w)
    <3>1. classify_format("TRAP", extract_bits(w, MODE)) = "S"
      BY DEF classify_format, TwoForms, Logic, Shift, Wide, Access, Stack
    <3>2. QED BY <2>2, <3>1 DEF decode_inst, Only, Wide, Access, Far
  <2>6. QED BY <1>4, <2>1, <2>4, <2>5 DEF Low
<1>5. QED BY <1>3, <1>4

---------------------------------------------------------------------------
RegisterNumber == SUBSET (0 .. 4)

(* For every register number and every immediate that fits its field, the  *)
(* decoder gives back what the encoder was given: the functions of         *)
(* encoder.cpp followed by decode_inst.  Left out are the immediate forms  *)
(* of SHL to DIV (ImmediateFormOverlap) and TRAP (TrapNumber).             *)
THEOREM DecoderInvertsEncoder ==
  ASSUME NEW a \in RegisterNumber, NEW b \in RegisterNumber, NEW c \in RegisterNumber,
         NEW imm \in U32, NEW mode \in U32
  PROVE
    /\ \A op \in Logic \union Shift :
         LET d == decode_inst(Arithmetic(op, a, b, c, REGISTER))
         IN  d.opcode = op /\ d.format = "R" /\ d.rd = a /\ d.rs1 = b /\ d.rs2 = c
    /\ \A op \in Logic :
         LET d == decode_inst(Arithmetic(op, a, b, imm, IMMEDIATE))
         IN  FitsField(imm, 19) => d.opcode = op /\ d.format = "I" /\ d.rd = a /\ d.imm = imm
    /\ LET d == decode_inst(CMP(a, b, REGISTER))
       IN  d.opcode = "CMP" /\ d.format = "R" /\ d.rs1 = a /\ d.rs2 = b
    /\ LET d == decode_inst(CMP(a, imm, IMMEDIATE))
       IN  FitsField(imm, 19) => d.opcode = "CMP" /\ d.format = "I" /\ d.rs1 = a /\ d.imm = imm
    /\ LET d == decode_inst(MOV(a, b))
       IN  d.opcode = "MOV" /\ d.rd = a /\ d.rs1 = b
    /\ \A op \in Wide :
         LET d == decode_inst(SetWide(op, a, imm))
         IN  FitsField(imm, 21) => d.opcode = op /\ d.rd = a /\ d.imm = imm
    /\ \A op \in Access :
         LET d == decode_inst(Memory(op, a, b, imm))
         IN  FitsField(imm, 16) => d.opcode = op /\ d.rd = a /\ d.rs1 = b /\ d.imm = imm
    /\ \A op \in Far :
         LET d == decode_inst(Jump(op, imm))
         IN  FitsField(imm, 26) => d.opcode = op /\ d.imm = imm
    /\ \A cond \in Cond :
         LET d == decode_inst(BJMP(cond, imm))
         IN  FitsField(imm, 23) => d.opcode = "BJMP" /\ d.cond = cond /\ d.imm = imm
    /\ LET d == decode_inst(CSRR(a, b, mode))
       IN  d.opcode = "CSRR" /\ d.rd = a /\ d.csr = b
    /\ LET d == decode_inst(CSRW(a, b, mode))
       IN  d.opcode = "CSRW" /\ d.rs1 = a /\ d.csr = b
    /\ LET d == decode_inst(CSRWI(a, imm))
       IN  FitsField(imm, 11) => d.opcode = "CSRWI" /\ d.csr = a /\ d.imm = imm
    /\ \A op \in Stack :
         LET d == decode_inst(OneRegister(op, a))
         IN  d.opcode = op /\ (IF op = "POP" THEN d.rd ELSE d.rs1) = a
    /\ \A op \in Bare : decode_inst(Plain(op)).opcode = op
<1>1. ASSUME NEW x \in RegisterNumber
      PROVE  x \in U32 /\ Low(x, 5) = x
  <2>1. x \subseteq 0 .. 4 /\ 0 .. 4 \subseteq 0 .. 31
    BY DEF RegisterNumber
  <2>2. x \in U32
    BY <2>1 DEF U32, BITS
  <2>3. \A i \in x : i \in 0 .. 5 - 1
    BY <2>1
  <2>4. QED BY <2>2, <2>3 DEF Low
<1>2. \A size \in 1 .. BITS : FitsField(imm, size) => sign_extend(Low(imm, size), size) = imm
  BY SignExtended
<1>3. /\ FitsField(imm, 11) => sign_extend(Low(imm, 11), 11) = imm
      /\ FitsField(imm, 16) => sign_extend(Low(imm, 16), 16) = imm
      /\ FitsField(imm, 19) => sign_extend(Low(imm, 19), 19) = imm
      /\ FitsField(imm, 21) => sign_extend(Low(imm, 21), 21) = imm
      /\ FitsField(imm, 23) => sign_extend(Low(imm, 23), 23) = imm
      /\ FitsField(imm, 26) => sign_extend(Low(imm, 26), 26) = imm
  BY <1>2 DEF BITS
<1>4. \A op \in Logic \union Shift :
        LET d == decode_inst(Arithmetic(op, a, b, c, REGISTER))
        IN  d.opcode = op /\ d.format = "R" /\ d.rd = a /\ d.rs1 = b /\ d.rs2 = c
  BY <1>1, RegisterForm
<1>5. \A op \in Logic :
        LET d == decode_inst(Arithmetic(op, a, b, imm, IMMEDIATE))
        IN  FitsField(imm, 19) => d.opcode = op /\ d.format = "I" /\ d.rd = a /\ d.imm = imm
  BY <1>1, <1>3, ImmediateForm
<1>6. /\ LET d == decode_inst(CMP(a, b, REGISTER))
         IN  d.opcode = "CMP" /\ d.format = "R" /\ d.rs1 = a /\ d.rs2 = b
      /\ LET d == decode_inst(CMP(a, imm, IMMEDIATE))
         IN  FitsField(imm, 19) => d.opcode = "CMP" /\ d.format = "I" /\ d.rs1 = a /\ d.imm = imm
  BY <1>1, <1>3, CmpRegisters, CmpImmediate
<1>7. LET d == decode_inst(MOV(a, b))
      IN  d.opcode = "MOV" /\ d.rd = a /\ d.rs1 = b
  BY <1>1, MovRegister
<1>8. \A op \in Wide :
        LET d == decode_inst(SetWide(op, a, imm))
        IN  FitsField(imm, 21) => d.opcode = op /\ d.rd = a /\ d.imm = imm
  BY <1>1, <1>3, WideImmediate
<1>9. \A op \in Access :
        LET d == decode_inst(Memory(op, a, b, imm))
        IN  FitsField(imm, 16) => d.opcode = op /\ d.rd = a /\ d.rs1 = b /\ d.imm = imm
  BY <1>1, <1>3, MemoryAccess
<1>10. \A op \in Far :
         LET d == decode_inst(Jump(op, imm))
         IN  FitsField(imm, 26) => d.opcode = op /\ d.imm = imm
  BY <1>3, FarJump
<1>11. \A cond \in Cond :
         LET d == decode_inst(BJMP(cond, imm))
         IN  FitsField(imm, 23) => d.opcode = "BJMP" /\ d.cond = cond /\ d.imm = imm
  BY <1>3, ConditionalJump
<1>12. /\ LET d == decode_inst(CSRR(a, b, mode))
          IN  d.opcode = "CSRR" /\ d.rd = a /\ d.csr = b
       /\ LET d == decode_inst(CSRW(a, b, mode))
          IN  d.opcode = "CSRW" /\ d.rs1 = a /\ d.csr = b
       /\ LET d == decode_inst(CSRWI(a, imm))
          IN  FitsField(imm, 11) => d.opcode = "CSRWI" /\ d.csr = a /\ d.imm = imm
  BY <1>1, <1>3, CsrRead, CsrWrite, CsrWriteImmediate
<1>13. \A op \in Stack :
         LET d == decode_inst(OneRegister(op, a))
         IN  d.opcode = op /\ (IF op = "POP" THEN d.rd ELSE d.rs1) = a
  BY <1>1, StackRegister
<1>14. \A op \in Bare : decode_inst(Plain(op)).opcode = op
  BY BareInstruction
<1>15. QED BY <1>4, <1>5, <1>6, <1>7, <1>8, <1>9, <1>10, <1>11, <1>12, <1>13, <1>14

---------------------------------------------------------------------------
(* Numbers: what U32Of makes of an int *)

Pow(i) == 2^i

(* The powers of two up to the sign bit, one by one. *)
LEMMA Powers ==
  ASSUME NEW i \in 0 .. 30
  PROVE  /\ (i = 0 => Pow(i) = 1) /\ (i = 1 => Pow(i) = 2) /\ (i = 2 => Pow(i) = 4)
         /\ (i = 3 => Pow(i) = 8) /\ (i = 4 => Pow(i) = 16) /\ (i = 5 => Pow(i) = 32)
         /\ (i = 6 => Pow(i) = 64) /\ (i = 7 => Pow(i) = 128) /\ (i = 8 => Pow(i) = 256)
         /\ (i = 9 => Pow(i) = 512) /\ (i = 10 => Pow(i) = 1024) /\ (i = 11 => Pow(i) = 2048)
         /\ (i = 12 => Pow(i) = 4096) /\ (i = 13 => Pow(i) = 8192) /\ (i = 14 => Pow(i) = 16384)
         /\ (i = 15 => Pow(i) = 32768) /\ (i = 16 => Pow(i) = 65536) /\ (i = 17 => Pow(i) = 131072)
         /\ (i = 18 => Pow(i) = 262144) /\ (i = 19 => Pow(i) = 524288) /\ (i = 20 => Pow(i) = 1048576)
         /\ (i = 21 => Pow(i) = 2097152) /\ (i = 22 => Pow(i) = 4194304) /\ (i = 23 => Pow(i) = 8388608)
         /\ (i = 24 => Pow(i) = 16777216) /\ (i = 25 => Pow(i) = 33554432) /\ (i = 26 => Pow(i) = 67108864)
         /\ (i = 27 => Pow(i) = 134217728) /\ (i = 28 => Pow(i) = 268435456) /\ (i = 29 => Pow(i) = 536870912)
         /\ (i = 30 => Pow(i) = 1073741824)
<1>1. /\ (i = 0 => 2^i = 2^0) /\ (i = 1 => 2^i = 2^1) /\ (i = 2 => 2^i = 2^2) /\ (i = 3 => 2^i = 2^3)
      /\ (i = 4 => 2^i = 2^4) /\ (i = 5 => 2^i = 2^5) /\ (i = 6 => 2^i = 2^6) /\ (i = 7 => 2^i = 2^7)
      /\ (i = 8 => 2^i = 2^8) /\ (i = 9 => 2^i = 2^9) /\ (i = 10 => 2^i = 2^10) /\ (i = 11 => 2^i = 2^11)
      /\ (i = 12 => 2^i = 2^12) /\ (i = 13 => 2^i = 2^13) /\ (i = 14 => 2^i = 2^14) /\ (i = 15 => 2^i = 2^15)
      /\ (i = 16 => 2^i = 2^16) /\ (i = 17 => 2^i = 2^17) /\ (i = 18 => 2^i = 2^18) /\ (i = 19 => 2^i = 2^19)
      /\ (i = 20 => 2^i = 2^20) /\ (i = 21 => 2^i = 2^21) /\ (i = 22 => 2^i = 2^22) /\ (i = 23 => 2^i = 2^23)
      /\ (i = 24 => 2^i = 2^24) /\ (i = 25 => 2^i = 2^25) /\ (i = 26 => 2^i = 2^26) /\ (i = 27 => 2^i = 2^27)
      /\ (i = 28 => 2^i = 2^28) /\ (i = 29 => 2^i = 2^29) /\ (i = 30 => 2^i = 2^30)
  BY Zenon
<1> QED
  BY <1>1 DEF Pow

(* Powers of two grow with the exponent. *)
LEMMA PowersGrow ==
  ASSUME NEW i \in 0 .. 30, NEW j \in 0 .. i
  PROVE  Pow(i) \in Nat /\ Pow(j) \in Nat /\ 0 < Pow(j) /\ Pow(j) <= Pow(i)
<1>1. j \in 0 .. 30
  OBVIOUS
<1> QED
  BY <1>1, Powers

(* The quotient of a number that is smaller than the divisor. *)
LEMMA SmallQuotient ==
  ASSUME NEW p \in Nat \ {0}, NEW n \in Int
  PROVE  /\ n \in 0 .. p - 1 => n \div p = 0
         /\ n \in -p .. -1   => n \div p = -1
  OBVIOUS

(* The bits of a number at and above the length it needs are its sign.     *)
LEMMA SignBits ==
  ASSUME NEW size \in 1 .. 31, NEW n \in -Pow(size - 1) .. Pow(size - 1) - 1
  PROVE  U32Of(n) \in U32 /\ FitsField(U32Of(n), size)
<1>1. U32Of(n) \in U32
  BY DEF U32Of, U32, BITS
<1>2. Pow(size - 1) \in Nat /\ n \in Int
  BY PowersGrow
<1>3. ASSUME NEW i \in size - 1 .. 30
      PROVE  i \in U32Of(n) <=> n < 0
  <2>1. i \in 0 .. 30 /\ size - 1 \in 0 .. i
    OBVIOUS
  <2>2. Pow(i) \in Nat \ {0} /\ Pow(size - 1) <= Pow(i)
    BY <2>1, PowersGrow
  <2> DEFINE p == Pow(i)
  <2>3. i \in U32Of(n) <=> (n \div p) % 2 = 1
    BY <2>1 DEF U32Of, BITS, Pow
  <2> HIDE DEF p
  <2>4. p \in Nat \ {0} /\ (n \in 0 .. p - 1 \/ n \in -p .. -1)
    BY <1>2, <2>2 DEF p
  <2>5. (n < 0 => n \div p = -1) /\ (~(n < 0) => n \div p = 0)
    <3>1. /\ n \in 0 .. p - 1 => n \div p = 0
          /\ n \in -p .. -1   => n \div p = -1
      BY <1>2, <2>4, SmallQuotient, Zenon
    <3>2. n < 0 \/ 0 <= n
      BY <1>2
    <3> QED
      BY <1>2, <2>4, <3>1, <3>2
  <2> QED
    BY <2>3, <2>5
<1>4. 31 \in U32Of(n) <=> n < 0
  BY DEF U32Of, BITS
<1> QED
  BY <1>1, <1>3, <1>4 DEF FitsField, BITS

(* A register or CSR number takes five bits. *)
LEMMA FiveBits ==
  ASSUME NEW n \in 0 .. 31
  PROVE  U32Of(n) \in RegisterNumber
<1>1. Pow(5) = 32
  BY Powers
<1>2. n \in -Pow(6 - 1) .. Pow(6 - 1) - 1
  BY <1>1
<1>3. U32Of(n) \in U32 /\ FitsField(U32Of(n), 6)
  BY <1>2, SignBits
<1>4. 31 \notin U32Of(n)
  BY DEF U32Of, BITS
<1>5. \A i \in 5 .. 31 : i \notin U32Of(n)
  BY <1>3, <1>4 DEF FitsField, BITS
<1> QED
  BY <1>3, <1>5 DEF U32, BITS, RegisterNumber

---------------------------------------------------------------------------
(* Every word *)

(* An instruction as the processor takes it: registers and CSRs of five    *)
(* bits, an immediate of 32, one of the conditions.                        *)
Five    == SUBSET (0 .. 4)
Formats == {"R", "I", "M", "S", "C", "INVALID"}
Decoded == [opcode : Mnemonic \union {"INVALID"}, format : Formats, rd : Five, rs1 : Five,
            rs2 : Five, csr : Five, imm : U32, cond : Cond]

(* Any three bits are the number of a condition. *)
LEMMA EveryCond ==
  ASSUME NEW x \in SUBSET (0 .. 2) PROVE \E c \in Cond : EnumBits(CondNumber[c]) = x
<1>1. ASSUME NEW n \in 0 .. 7, 0 \in x <=> n % 2 = 1, 1 \in x <=> (n \div 2) % 2 = 1,
             2 \in x <=> (n \div 4) % 2 = 1
      PROVE  EnumBits(n) = x
  <2>1. EnumBits(n) \subseteq 0 .. 5
    BY DEF EnumBits
  <2>2. (n \div 8) % 2 = 0 /\ (n \div 16) % 2 = 0 /\ (n \div 32) % 2 = 0
    OBVIOUS
  <2>3. /\ 0 \in EnumBits(n) <=> 0 \in x
        /\ 1 \in EnumBits(n) <=> 1 \in x
        /\ 2 \in EnumBits(n) <=> 2 \in x
        /\ 3 \notin EnumBits(n) /\ 4 \notin EnumBits(n) /\ 5 \notin EnumBits(n)
    BY <1>1, <2>2, BitOfEnum
  <2>4. \A i \in 0 .. 5 : i \in EnumBits(n) <=> i \in x
    BY <2>3
  <2>5. x \subseteq 0 .. 5
    OBVIOUS
  <2> HIDE DEF EnumBits
  <2>6. ASSUME NEW i PROVE i \in EnumBits(n) <=> i \in x
    BY <2>1, <2>4, <2>5
  <2> QED
    BY <2>6
<1>2. \E n \in 0 .. 7 :
         /\ 0 \in x <=> n % 2 = 1
         /\ 1 \in x <=> (n \div 2) % 2 = 1
         /\ 2 \in x <=> (n \div 4) % 2 = 1
  <2> DEFINE n == (IF 0 \in x THEN 1 ELSE 0) + (IF 1 \in x THEN 2 ELSE 0)
                    + (IF 2 \in x THEN 4 ELSE 0)
  <2>1. /\ n \in 0 .. 7
        /\ 0 \in x <=> n % 2 = 1
        /\ 1 \in x <=> (n \div 2) % 2 = 1
        /\ 2 \in x <=> (n \div 4) % 2 = 1
    OBVIOUS
  <2> HIDE DEF n
  <2> QED
    BY <2>1
<1>3. \A m \in 0 .. 7 : \E c \in Cond : CondNumber[c] = m
  BY DEF Cond, CondNumber
<1> QED
  BY <1>1, <1>2, <1>3

(* Fields have the bits their size says, and extended ones fit a word. *)
LEMMA FieldTypes ==
  ASSUME NEW w \in U32
  PROVE  /\ \A lsb \in 0 .. 31 : \A size \in 1 .. 32 :
              /\ extract_bits(w, Positions(lsb, size)) \in SUBSET (0 .. size - 1)
              /\ Signed(Positions(lsb, size), w) \in U32
<1> SUFFICES ASSUME NEW lsb \in 0 .. 31, NEW size \in 1 .. 32
             PROVE  /\ extract_bits(w, Positions(lsb, size)) \in SUBSET (0 .. size - 1)
                    /\ Signed(Positions(lsb, size), w) \in U32
  OBVIOUS
<1>1. extract_bits(w, Positions(lsb, size)) \in SUBSET (0 .. size - 1)
  BY DEF extract_bits, Positions
<1>2. Positions(lsb, size).size = size
  BY DEF Positions
<1>3. ASSUME NEW x \in SUBSET (0 .. size - 1) PROVE sign_extend(x, size) \in U32
  BY DEF sign_extend, U32, BITS
<1> QED
  BY <1>1, <1>2, <1>3 DEF Signed

(* decode_inst takes every word to an instruction the processor knows,     *)
(* INVALID among them, and gives it a format if and only if it is valid:   *)
(* what the processor modules assume of their Decode.                      *)
THEOREM DecodesEveryWord ==
  \A w \in U32 : /\ decode_inst(w) \in Decoded
                 /\ decode_inst(w).opcode = "INVALID" <=> decode_inst(w).format = "INVALID"
<1> SUFFICES ASSUME NEW w \in U32
             PROVE  /\ decode_inst(w) \in Decoded
                    /\ decode_inst(w).opcode = "INVALID" <=> decode_inst(w).format = "INVALID"
  OBVIOUS
<1> DEFINE op == extract_opcode(w)
           mode == extract_bits(w, MODE)
           format == classify_format(op, mode)
<1>1. op \in Mnemonic \union {"INVALID"}
  <2> DEFINE ops == Numbered(Number, extract_bits(w, OPCODE))
  <2>1. ops \subseteq Mnemonic
    BY DEF Numbered, Mnemonic
  <2>2. op = IF ops = {} THEN "INVALID" ELSE CHOOSE o \in ops : TRUE
    BY DEF extract_opcode
  <2> HIDE DEF ops, op
  <2> QED
    BY <2>1, <2>2
<1>2. Mnemonic = Logic \union Shift \union Wide \union Access \union Far \union Bare \union Stack
                   \union {"CMP", "MOV", "BJMP", "TRAP", "CSRR", "CSRW", "CSRWI"}
  BY DEF Mnemonic, Number, Logic, Shift, Wide, Access, Far, Bare, Stack
<1>3. format \in Formats /\ (op = "INVALID" <=> format = "INVALID")
  <2>1. "INVALID" \notin Mnemonic
    BY DEF Mnemonic, Number
  <2>2. op \in Mnemonic => format \in Formats \ {"INVALID"}
    <3> HIDE DEF op, mode
    <3> QED
      BY <1>2 DEF classify_format, TwoForms, Formats
  <2>3. op = "INVALID" => format = "INVALID"
    <3> HIDE DEF op, mode
    <3> QED
      BY DEF classify_format, TwoForms, Logic, Shift, Wide, Access, Far, Bare, Stack
  <2> QED
    BY <1>1, <2>1, <2>2, <2>3 DEF Formats
<1>4. /\ extract_bits(w, RD) \in Five /\ extract_bits(w, RS1) \in Five
      /\ extract_bits(w, RS2) \in Five /\ extract_bits(w, CSR_ADDR) \in Five
      /\ extract_bits(w, CSRWI_ADDR) \in Five /\ {} \in Five
  BY FieldTypes DEF Five, RD, RS1, RS2, CSR_ADDR, CSRWI_ADDR
<1>5. /\ Signed(IMM21, w) \in U32 /\ Signed(IMM19, w) \in U32 /\ Signed(IMM16, w) \in U32
      /\ Signed(ADDR26, w) \in U32 /\ Signed(ADDR23, w) \in U32 /\ Signed(IMM26, w) \in U32
      /\ Signed(IMM11, w) \in U32 /\ {} \in U32
  BY FieldTypes DEF IMM21, IMM19, IMM16, ADDR26, ADDR23, IMM26, IMM11, U32
<1>6. extract_cond(w) \in Cond /\ "EQ" \in Cond
  <2>1. extract_bits(w, COND) \in SUBSET (0 .. 2)
    BY FieldTypes DEF COND
  <2>2. Numbered(CondNumber, extract_bits(w, COND)) # {}
    BY <2>1, EveryCond DEF Numbered, Cond
  <2>3. Numbered(CondNumber, extract_bits(w, COND)) \subseteq Cond
    BY DEF Numbered, Cond
  <2> QED
    BY <2>2, <2>3 DEF extract_cond, Cond, CondNumber
<1>7. ASSUME NEW c, NEW x \in Five PROVE Only(c, x) \in Five
  BY <1>4, <1>7 DEF Only
<1>8. ASSUME NEW c, NEW x \in U32 PROVE Only(c, x) \in U32
  BY <1>5, <1>8 DEF Only
<1>9. \A x, y \in Five : x \union y \in Five
  BY DEF Five
<1>10. \A x, y \in U32 : x \union y \in U32
  BY DEF U32
<1> QED
  <2>1. decode_inst(w).opcode = op /\ decode_inst(w).format = format
    BY DEF decode_inst
  <2>2. /\ decode_inst(w).rd \in Five /\ decode_inst(w).rs1 \in Five
        /\ decode_inst(w).rs2 \in Five /\ decode_inst(w).csr \in Five
    BY <1>4, <1>7, <1>9 DEF decode_inst
  <2>3. decode_inst(w).imm \in U32
    BY <1>5, <1>8, <1>10 DEF decode_inst
  <2>4. decode_inst(w).cond \in Cond
    BY <1>6 DEF decode_inst
  <2>5. decode_inst(w) = [opcode |-> decode_inst(w).opcode, format |-> decode_inst(w).format,
                          rd |-> decode_inst(w).rd, rs1 |-> decode_inst(w).rs1,
                          rs2 |-> decode_inst(w).rs2, csr |-> decode_inst(w).csr,
                          imm |-> decode_inst(w).imm, cond |-> decode_inst(w).cond]
    BY DEF decode_inst
  <2> HIDE DEF op, mode, format
  <2> QED
    BY <1>1, <1>3, <2>1, <2>2, <2>3, <2>4, <2>5 DEF Decoded
=============================================================================
