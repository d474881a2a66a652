-------------------------- MODULE AssemblerProofs --------------------------
(***************************************************************************)
(* The two passes of the assembler agree on addresses, and the words they  *)
(* make decode to what the lines say, for every set of source files.       *)
(***************************************************************************)
EXTENDS AssemblerSpec, EncodingProofs, FiniteSetTheorems, TLAPS

(* Appending one word to a sequence. *)
LEMMA AppendOne ==
  ASSUME NEW s, Len(s) \in Nat, s = [i \in 1 .. Len(s) |-> s[i]], NEW e
  PROVE  /\ Len(Append(s, e)) = Len(s) + 1
         /\ Append(s, e) = [i \in 1 .. Len(s) + 1 |-> Append(s, e)[i]]
<1> DEFINE S == {s[i] : i \in 1 .. Len(s)} \union {e}
<1>1. s \in [1 .. Len(s) -> S]
  OBVIOUS
<1>2. s \in Seq(S) /\ e \in S
  BY <1>1
<1> HIDE DEF S
<1>3. Append(s, e) \in Seq(S) /\ Len(Append(s, e)) = Len(s) + 1
  BY <1>2
<1>4. \A q \in Seq(S) : q = [i \in 1 .. Len(q) |-> q[i]]
  OBVIOUS
<1> QED
  BY <1>3, <1>4, Zenon

(* The instructions in front of a line are finitely many. *)
LEMMA CodeFinite == \A k \in Nat : IsFiniteSet(CodeBefore(k))
<1> SUFFICES ASSUME NEW k \in Nat PROVE IsFiniteSet(CodeBefore(k))
  OBVIOUS
<1>1. IsFiniteSet(1 .. k - 1)
  BY FS_Interval
<1>2. CodeBefore(k) \subseteq 1 .. k - 1
  BY DEF CodeBefore
<1> QED
  BY <1>1, <1>2, FS_Subset

(* Addresses begin at 0, and a line takes 4 bytes if it is an instruction. *)
LEMMA PlaceSteps ==
  /\ Place(1) = 0
  /\ \A k \in Nat \ {0} : /\ Place(k) \in Nat
                          /\ IsCode(source[k].text)  => Place(k + 1) = Place(k) + 4
                          /\ ~IsCode(source[k].text) => Place(k + 1) = Place(k)
<1>1. Place(1) = 0
  <2>1. CodeBefore(1) = {}
    BY DEF CodeBefore
  <2> QED
    BY <2>1, FS_EmptySet DEF Place
<1>2. ASSUME NEW k \in Nat \ {0}
      PROVE  /\ Place(k) \in Nat
             /\ IsCode(source[k].text)  => Place(k + 1) = Place(k) + 4
             /\ ~IsCode(source[k].text) => Place(k + 1) = Place(k)
  <2>1. IsFiniteSet(CodeBefore(k)) /\ Cardinality(CodeBefore(k)) \in Nat
    BY CodeFinite, FS_CardinalityType
  <2>2. 1 .. (k + 1) - 1 = (1 .. k - 1) \union {k}
    OBVIOUS
  <2>3. ASSUME IsCode(source[k].text) PROVE Place(k + 1) = Place(k) + 4
    <3>1. CodeBefore(k + 1) = CodeBefore(k) \union {k}
      BY <2>2, <2>3 DEF CodeBefore
    <3>2. k \notin CodeBefore(k)
      BY DEF CodeBefore
    <3>3. Cardinality(CodeBefore(k + 1)) = Cardinality(CodeBefore(k)) + 1
      BY <2>1, <3>1, <3>2, FS_AddElement
    <3> QED
      BY <2>1, <3>3 DEF Place
  <2>4. ASSUME ~IsCode(source[k].text) PROVE Place(k + 1) = Place(k)
    <3>1. CodeBefore(k + 1) = CodeBefore(k)
      BY <2>2, <2>4 DEF CodeBefore
    <3> QED
      BY <3>1 DEF Place
  <2> QED
    BY <2>1, <2>3, <2>4 DEF Place
<1> QED
  BY <1>1, <1>2

(* The definitions of a label in front of a line. *)
LEMMA DefinitionSteps ==
  ASSUME NEW k \in Nat \ {0}, NEW t
  PROVE  /\ DefinedBefore(1, t) = {}
         /\ IsLabel(source[k].text) /\ source[k].text.label = t =>
              k \in DefinedBefore(k + 1, t) /\ Max(DefinedBefore(k + 1, t)) = k
         /\ ~(IsLabel(source[k].text) /\ source[k].text.label = t) =>
              DefinedBefore(k + 1, t) = DefinedBefore(k, t)
<1>1. 1 .. (k + 1) - 1 = (1 .. k - 1) \union {k}
  OBVIOUS
<1>2. DefinedBefore(1, t) = {}
  BY DEF DefinedBefore
<1>3. ASSUME IsLabel(source[k].text), source[k].text.label = t
      PROVE  k \in DefinedBefore(k + 1, t) /\ Max(DefinedBefore(k + 1, t)) = k
  <2> DEFINE D == DefinedBefore(k + 1, t)
  <2>1. k \in D /\ D \subseteq 1 .. k
    BY <1>1, <1>3 DEF DefinedBefore
  <2> HIDE DEF D
  <2>2. \A y \in D : k >= y
    BY <2>1
  <2>3. \A x \in D : (\A y \in D : x >= y) => x = k
    BY <2>1
  <2>4. Max(D) = k
    BY <2>1, <2>2, <2>3 DEF Max
  <2> QED
    BY <2>1, <2>4 DEF D
<1>4. ~(IsLabel(source[k].text) /\ source[k].text.label = t)
        => DefinedBefore(k + 1, t) = DefinedBefore(k, t)
  BY <1>1 DEF DefinedBefore
<1> QED
  BY <1>2, <1>3, <1>4

(* What the addresses are of depends on the file alone. *)
LEMMA SameFile ==
  ASSUME source' = source
  PROVE  /\ \A k : Place(k)' = Place(k) /\ LabelPlace(k)' = LabelPlace(k)
         /\ \A k, t : DefinedBefore(k, t)' = DefinedBefore(k, t)
         /\ \A t : Definitions(t)' = Definitions(t)
  BY DEF Place, LabelPlace, DefinedBefore, Definitions, CodeBefore

(* Both passes start in agreement, *)
LEMMA PassesInit == Init => PassesAgree
<1> SUFFICES ASSUME Init PROVE PassesAgree
  OBVIOUS
<1>1. Len(source) \in Nat
  BY SourcesAssumption DEF Init
<1>2. DOMAIN labels = {} /\ Len(instructions) = 0 /\ instructions = [i \in 1 .. 0 |-> instructions[i]]
  BY DEF Init
<1>3. InTheFile
  BY <1>1, <1>2 DEF Init, InTheFile
<1>4. Addresses
  BY <1>2, PlaceSteps DEF Init, Addresses
<1> QED
  BY <1>3, <1>4 DEF PassesAgree

(* A line of the first pass. *)
LEMMA FirstSteps ==
  ASSUME PassesAgree, FirstBlank \/ FirstLabel \/ FirstCode
  PROVE  PassesAgree'
<1>1. /\ line \in Nat \ {0} /\ line <= Len(source) /\ Len(source) \in Nat
      /\ pass = "first" /\ pass' = "first" /\ line' = line + 1 /\ source' = source
      /\ UNCHANGED instructions
  BY DEF PassesAgree, InTheFile, FirstBlank, FirstLabel, FirstCode, At, Advance
<1>2. /\ current_address = Place(line)
      /\ \A t \in DOMAIN labels : /\ labels[t] = Place(Max(DefinedBefore(line, t)))
                                  /\ DefinedBefore(line, t) # {}
      /\ \A j \in 1 .. line - 1 :
           IsLabel(source[j].text) => source[j].text.label \in DOMAIN labels
  BY <1>1 DEF PassesAgree, InTheFile, Addresses
<1>3. current_address' = Place(line + 1)
  BY <1>1, <1>2, PlaceSteps
     DEF FirstBlank, FirstLabel, FirstCode, Here, FirstTrim, IsCode, IsLabel
<1>4. /\ \A t \in DOMAIN labels' : /\ labels'[t] = Place(Max(DefinedBefore(line + 1, t)))
                                   /\ DefinedBefore(line + 1, t) # {}
      /\ \A j \in 1 .. line : IsLabel(source[j].text) => source[j].text.label \in DOMAIN labels'
  <2>1. CASE FirstBlank \/ FirstCode
    <3>1. labels' = labels /\ ~IsLabel(source[line].text)
      BY <2>1 DEF FirstBlank, FirstCode, Here, FirstTrim, IsCode, IsLabel
    <3>2. \A t : DefinedBefore(line + 1, t) = DefinedBefore(line, t)
      BY <1>1, <3>1, DefinitionSteps
    <3> QED
      BY <1>1, <1>2, <3>1, <3>2
  <2>2. CASE FirstLabel
    <3> DEFINE t0 == source[line].text.label
    <3>1. /\ IsLabel(source[line].text)
          /\ labels' = [t \in DOMAIN labels \union {t0} |->
                          IF t = t0 THEN current_address ELSE labels[t]]
      BY <2>2 DEF FirstLabel, Here, FirstTrim
    <3>2. \A t : t # t0 => DefinedBefore(line + 1, t) = DefinedBefore(line, t)
      BY <1>1, <3>1, DefinitionSteps
    <3>3. line \in DefinedBefore(line + 1, t0) /\ Max(DefinedBefore(line + 1, t0)) = line
      BY <1>1, <3>1, DefinitionSteps
    <3> HIDE DEF t0
    <3>4. DOMAIN labels' = DOMAIN labels \union {t0}
      BY <3>1
    <3>5. ASSUME NEW t \in DOMAIN labels'
          PROVE  /\ labels'[t] = Place(Max(DefinedBefore(line + 1, t)))
                 /\ DefinedBefore(line + 1, t) # {}
      <4>1. CASE t = t0
        <5>1. labels'[t] = current_address
          BY <3>1, <4>1
        <5> QED
          BY <1>2, <3>3, <4>1, <5>1
      <4>2. CASE t # t0
        <5>1. t \in DOMAIN labels /\ labels'[t] = labels[t]
          BY <3>1, <3>4, <3>5, <4>2
        <5> QED
          BY <1>2, <3>2, <4>2, <5>1
      <4> QED
        BY <4>1, <4>2
    <3>6. \A j \in 1 .. line : IsLabel(source[j].text) => source[j].text.label \in DOMAIN labels'
      BY <1>1, <1>2, <3>4 DEF t0
    <3> QED
      BY <3>5, <3>6
  <2> QED
    BY <2>1, <2>2
<1>5. InTheFile'
  <2>1. Len(instructions)' \in Nat /\ instructions' = << >>
        /\ instructions' = [i \in 1 .. Len(instructions) |-> instructions[i]]'
    BY <1>1 DEF PassesAgree, InTheFile
  <2> QED
    BY <1>1, <1>4, <2>1, SameFile DEF InTheFile
<1>6. Addresses'
  BY <1>1, <1>3, <1>4, SameFile DEF Addresses
<1> QED
  BY <1>5, <1>6 DEF PassesAgree

(* Between the passes. *)
LEMMA StartSteps ==
  ASSUME PassesAgree, StartSecond
  PROVE  PassesAgree'
<1>1. /\ line = Len(source) + 1 /\ Len(source) \in Nat /\ pass = "first" /\ pass' = "second"
      /\ line' = 1 /\ source' = source /\ current_address' = 0 /\ UNCHANGED <<labels, instructions>>
  BY DEF PassesAgree, InTheFile, StartSecond, SecondPass
<1>2. instructions = << >> /\ Len(instructions) = 0
  BY <1>1 DEF PassesAgree, InTheFile
<1>3. /\ \A t \in DOMAIN labels : Definitions(t) # {} /\ labels[t] = LabelPlace(t)
      /\ \A j \in 1 .. Len(source) :
           IsLabel(source[j].text) => source[j].text.label \in DOMAIN labels
  BY <1>1 DEF PassesAgree, InTheFile, Addresses, LabelPlace, Definitions
<1>4. InTheFile'
  BY <1>1 DEF PassesAgree, InTheFile
<1>5. DOMAIN source = 1 .. Len(source)
  BY DEF PassesAgree, InTheFile
<1>6. Addresses'
  BY <1>1, <1>2, <1>3, <1>5, PlaceSteps, SameFile DEF Addresses
<1> QED
  BY <1>4, <1>6 DEF PassesAgree

(* A line of the second pass. *)
LEMMA SecondSteps ==
  ASSUME PassesAgree, SecondSkip \/ SecondCode
  PROVE  PassesAgree'
<1>1. /\ line \in Nat \ {0} /\ line <= Len(source) /\ Len(source) \in Nat
      /\ DOMAIN source = 1 .. Len(source)
      /\ pass = "second" /\ pass' = "second" /\ line' = line + 1 /\ source' = source
  BY DEF PassesAgree, InTheFile, SecondSkip, SecondCode, At, Advance
<1>2. /\ current_address = Place(line) /\ current_address = 4 * Len(instructions)
      /\ \A t \in DOMAIN labels : labels[t] = IF Definitions(t) = {} THEN 0 ELSE LabelPlace(t)
      /\ \A j \in DOMAIN source :
           IsLabel(source[j].text) => source[j].text.label \in DOMAIN labels
  BY <1>1 DEF PassesAgree, Addresses
<1>3. /\ Len(instructions) \in Nat
      /\ instructions = [i \in 1 .. Len(instructions) |-> instructions[i]]
  BY DEF PassesAgree, InTheFile
<1>4. CASE SecondSkip
  <2>1. ~IsCode(source[line].text) /\ UNCHANGED <<labels, current_address, instructions>>
    BY <1>4 DEF SecondSkip, Now, SecondTrim
  <2>2. current_address' = Place(line + 1)
    BY <1>1, <1>2, <2>1, PlaceSteps
  <2>3. InTheFile'
    BY <1>1, <1>3, <2>1 DEF InTheFile
  <2>4. Addresses'
    BY <1>1, <1>2, <2>1, <2>2, SameFile DEF Addresses
  <2> QED
    BY <2>3, <2>4 DEF PassesAgree
<1>5. CASE SecondCode
  <2>1. IsCode(source[line].text) /\ current_address' = current_address + 4
    BY <1>5 DEF SecondCode, Now, SecondTrim
  <2>2. current_address' = Place(line + 1)
    BY <1>1, <1>2, <2>1, PlaceSteps
  <2>3. PICK word : instructions' = Append(instructions, word)
    BY <1>5 DEF SecondCode
  <2>4. /\ Len(instructions') = Len(instructions) + 1
        /\ instructions' = [i \in 1 .. Len(instructions') |-> instructions'[i]]
    BY <1>3, <2>3, AppendOne
  <2>5. /\ \A t \in DOMAIN labels' : labels'[t] = IF Definitions(t) = {} THEN 0 ELSE LabelPlace(t)
        /\ \A j \in DOMAIN source :
             IsLabel(source[j].text) => source[j].text.label \in DOMAIN labels'
    <3>1. CASE labels' = labels
      BY <1>2, <3>1
    <3>2. CASE labels' # labels
      <4>1. PICK t0 : labels' = Looked(t0)
        BY <1>5, <3>2 DEF SecondCode
      <4>2. /\ t0 \notin DOMAIN labels
            /\ labels' = [k \in DOMAIN labels \union {t0} |-> IF k = t0 THEN 0 ELSE labels[k]]
        BY <3>2, <4>1 DEF Looked, IsKey
      <4>3. Definitions(t0) = {}
        BY <1>1, <1>2, <4>2 DEF Definitions, DefinedBefore
      <4>4. DOMAIN labels' = DOMAIN labels \union {t0}
        BY <4>2
      <4>5. ASSUME NEW t \in DOMAIN labels'
            PROVE  labels'[t] = IF Definitions(t) = {} THEN 0 ELSE LabelPlace(t)
        <5>1. CASE t = t0
          BY <4>2, <4>3, <5>1
        <5>2. CASE t # t0
          BY <1>2, <4>2, <4>4, <4>5, <5>2
        <5> QED
          BY <5>1, <5>2
      <4> QED
        BY <1>2, <4>4, <4>5
    <3> QED
      BY <3>1, <3>2
  <2>6. InTheFile'
    BY <1>1, <1>3, <2>4 DEF InTheFile
  <2>7. Addresses'
    BY <1>1, <1>2, <1>3, <2>1, <2>2, <2>4, <2>5, SameFile DEF Addresses
  <2> QED
    BY <2>6, <2>7 DEF PassesAgree
<1> QED
  BY <1>4, <1>5

(* and every line they take keeps it. *)
LEMMA PassesNext == PassesAgree /\ [Next]_assembler_vars => PassesAgree'
<1> SUFFICES ASSUME PassesAgree, [Next]_assembler_vars PROVE PassesAgree'
  OBVIOUS
<1>1. CASE FirstBlank \/ FirstLabel \/ FirstCode
  BY <1>1, FirstSteps
<1>2. CASE StartSecond
  BY <1>2, StartSteps
<1>3. CASE SecondSkip \/ SecondCode
  BY <1>3, SecondSteps
<1>4. CASE Abort \/ OpenFails
  BY <1>4 DEF Abort, OpenFails, PassesAgree, InTheFile, Addresses
<1>5. CASE Write
  <2>1. /\ pass = "second" /\ pass' = "written" /\ line = Len(source) + 1
        /\ UNCHANGED <<source, line, labels, current_address, instructions>>
    BY <1>5 DEF Write, PassesAgree, InTheFile
  <2>2. InTheFile'
    BY <2>1 DEF PassesAgree, InTheFile
  <2>3. Addresses'
    BY <2>1, SameFile DEF PassesAgree, Addresses
  <2> QED
    BY <2>2, <2>3 DEF PassesAgree
<1>6. CASE UNCHANGED assembler_vars
  <2>1. UNCHANGED <<source, pass, line, labels, current_address, instructions>>
    BY <1>6 DEF assembler_vars
  <2>2. InTheFile'
    BY <2>1, SameFile DEF PassesAgree, InTheFile
  <2>3. Addresses'
    BY <2>1, SameFile DEF PassesAgree, Addresses
  <2> QED
    BY <2>2, <2>3 DEF PassesAgree
<1> QED
  BY <1>1, <1>2, <1>3, <1>4, <1>5, <1>6 DEF Next

(* In every source the second pass meets each line at the address the      *)
(* first one gave it, which is that of its word in the binary, and has     *)
(* every label where the line behind it is; what it makes up itself is 0.  *)
THEOREM TwoPasses == Spec => []Addresses
<1>1. PassesAgree => Addresses
  BY DEF PassesAgree
<1> QED
  BY <1>1, PassesInit, PassesNext, PTL DEF Spec

---------------------------------------------------------------------------
(* The words: from the arguments of a line to the fields of its word. *)

(* What is parsed for a register, a CSR, an immediate and a jump is what   *)
(* the line says, and fits its field.                                      *)
LEMMA RegisterRead ==
  ASSUME NEW t, IsRegister(t)
  PROVE  StartsWithR(t) /\ Reg(t) = R(t) /\ R(t) \in RegisterNumber
<1>1. t.n \in 0 .. 31 /\ t.type = "register"
  BY DEF IsRegister
<1>2. R(t) \in RegisterNumber
  BY <1>1, FiveBits DEF R
<1> QED
  BY <1>1, <1>2 DEF StartsWithR, Reg, parseRegister, R

(* The name of a CSR becomes its number in csr.hpp. *)
LEMMA CsrNumberRead ==
  ASSUME NEW t, IsCsr(t)
  PROVE  U32Of(parseCSR(t)) = CsrOf(t) /\ CsrOf(t) \in RegisterNumber
<1>1. DOMAIN CsrOrder = 1 .. 15
  BY DEF CsrOrder
<1>2. \A i, j \in 1 .. 15 : CsrOrder[i] = CsrOrder[j] => i = j
  BY DEF CsrOrder
<1>3. PICK i \in 1 .. 15 : CsrOrder[i] = t.name
  BY <1>1 DEF IsCsr
<1>4. parseCSR(t) = i - 1
  <2> DEFINE at == {j \in DOMAIN CsrOrder : t.type = "name" /\ t.name = CsrOrder[j]}
  <2>1. at = {i}
    BY <1>1, <1>2, <1>3 DEF IsCsr
  <2> HIDE DEF at
  <2>2. (CHOOSE j \in at : TRUE) = i
    BY <2>1
  <2>3. at # {}
    BY <2>1
  <2> QED
    BY <2>2, <2>3, Zenon DEF parseCSR, at
<1>5. (CHOOSE j \in 0 .. 14 : CsrOrder[j + 1] = t.name) = i - 1
  <2>1. i - 1 \in 0 .. 14 /\ CsrOrder[(i - 1) + 1] = t.name
    BY <1>3
  <2>2. \A j \in 0 .. 14 : CsrOrder[j + 1] = t.name => j = i - 1
    <3> TAKE j \in 0 .. 14
    <3> HAVE CsrOrder[j + 1] = t.name
    <3>1. j + 1 \in 1 .. 15 /\ CsrOrder[j + 1] = CsrOrder[i]
      BY <1>3
    <3>2. j + 1 = i
      BY <1>2, <3>1
    <3> QED
      BY <3>2
  <2> QED
    BY <2>1, <2>2
<1>6. i - 1 \in 0 .. 31
  OBVIOUS
<1> QED
  BY <1>4, <1>5, <1>6, FiveBits DEF CsrOf

(* A number in the range of a signed field survives it. *)
LEMMA InRange ==
  ASSUME NEW size \in 1 .. 31, NEW n \in SignedRange(size)
  PROVE  U32Of(n) \in U32 /\ FitsField(U32Of(n), size)
<1>1. n \in -Pow(size - 1) .. Pow(size - 1) - 1
  BY DEF SignedRange, Pow
<1> QED
  BY <1>1, SignBits

(* A number or label that fits its field is read as itself. *)
LEMMA ImmediateRead ==
  ASSUME Faithful, pass = "second", NEW size \in 1 .. 31, NEW t, Fits(t, size)
  PROVE  /\ ~StartsWithR(t) /\ t.type # "indirect"
         /\ Imm(t) = Value(t) /\ Value(t) \in U32 /\ FitsField(Value(t), size)
<1>1. CASE IsNumber(t) /\ t.n \in SignedRange(size)
  <2>1. t.type = "number" /\ t \notin DOMAIN labels
    BY <1>1 DEF IsNumber, Faithful, LabelsKnown
  <2>2. Imm(t) = U32Of(t.n) /\ Value(t) = U32Of(t.n)
    BY <2>1 DEF Imm, parseImmediate, IsKey, Value
  <2> QED
    BY <1>1, <2>1, <2>2, InRange DEF StartsWithR
<1>2. CASE t.type = "name" /\ Definitions(t) # {} /\ LabelPlace(t) \in SignedRange(size)
  <2>1. t \in DOMAIN labels /\ labels[t] = LabelPlace(t)
    <3>1. PICK j \in 1 .. Len(source) : IsLabel(source[j].text) /\ source[j].text.label = t
      BY <1>2 DEF Definitions, DefinedBefore, Faithful, PassesAgree, InTheFile
    <3>2. j \in DOMAIN source
      BY DEF Faithful, PassesAgree, InTheFile
    <3> QED
      BY <1>2, <3>1, <3>2 DEF Faithful, PassesAgree, Addresses
  <2>2. Imm(t) = U32Of(LabelPlace(t)) /\ Value(t) = U32Of(LabelPlace(t))
    BY <1>2, <2>1 DEF Imm, parseImmediate, IsKey, Value
  <2> QED
    BY <1>2, <2>2, InRange DEF StartsWithR
<1> QED
  BY <1>1, <1>2 DEF Fits

(* A label within reach is read as the distance to it. *)
LEMMA OffsetRead ==
  ASSUME Faithful, pass = "second", NEW size \in 1 .. 31, NEW t, Reaches(t, line, size)
  PROVE  LET o == U32Of(LabelPlace(t) - Place(line))
         IN  Offset(t) = o /\ o \in U32 /\ FitsField(o, size)
<1>1. PICK j \in 1 .. Len(source) : IsLabel(source[j].text) /\ source[j].text.label = t
  BY DEF Reaches, IsDefined, Definitions, DefinedBefore, Faithful, PassesAgree, InTheFile
<1>2. j \in DOMAIN source
  BY DEF Faithful, PassesAgree, InTheFile
<1>3. t \in DOMAIN labels /\ labels[t] = LabelPlace(t)
  BY <1>1, <1>2 DEF Reaches, IsDefined, Faithful, PassesAgree, Addresses
<1>4. Offset(t) = U32Of(LabelPlace(t) - Place(line))
  BY <1>3 DEF Offset, Looked, IsKey, Faithful, PassesAgree, Addresses
<1> QED
  BY <1>4, InRange DEF Reaches

---------------------------------------------------------------------------
(* The kinds of lines, one by one. *)

(* ADD r1, r2, r3 and its like. *)
LEMMA ThreeRegistersLine ==
  ASSUME NEW op \in ThreeRegisters, NEW a, a # << >>, NEW k, Supported(op, a, k),
         NEW word \in parseInstruction(op, a)
  PROVE  Says(decode_inst(word), op, a, k)
<1>1. op \in Logic \union Shift
  BY DEF ThreeRegisters, Logic, Shift
<1> op \in ThreeRegisters /\ op \notin Far /\ op \notin Stack
  BY DEF ThreeRegisters, Far, Stack
<1> /\ op # "WORD" /\ op # "CMP" /\ op # "MOV" /\ op # "BJMP" /\ op # "CSRR" /\ op # "CSRW"
    /\ op # "POP" /\ op # "PUSH" /\ op # "CALLR" /\ op # "LOADW" /\ op # "STOREW"
  BY DEF ThreeRegisters
<1>2. IsRegister(a[1]) /\ IsRegister(a[2]) /\ IsRegister(a[3])
  <2>1. \A i \in 1 .. 3 : IsRegister(a[i])
    BY Zenon DEF Supported
  <2> QED
    BY <2>1
<1>3. word = Arithmetic(op, Reg(a[1]), Reg(a[2]), Reg(a[3]), REGISTER)
  BY Zenon DEF parseInstruction
<1>4. LET d == decode_inst(word)
      IN  d.opcode = op /\ d.format = "R" /\ d.rd = R(a[1]) /\ d.rs1 = R(a[2]) /\ d.rs2 = R(a[3])
  <2>1. /\ Reg(a[1]) = R(a[1]) /\ Reg(a[2]) = R(a[2]) /\ Reg(a[3]) = R(a[3])
        /\ R(a[1]) \in RegisterNumber /\ R(a[2]) \in RegisterNumber /\ R(a[3]) \in RegisterNumber
    BY <1>2, RegisterRead
  <2>2. {} \in U32
    BY DEF U32
  <2> QED
    BY <1>1, <1>3, <2>1, <2>2, DecoderInvertsEncoder
<1> QED
  BY <1>4 DEF Says

(* CMP with a register or an immediate. *)
LEMMA CmpLine ==
  ASSUME Faithful, pass = "second", NEW a, a # << >>, NEW k, Supported("CMP", a, k),
         NEW word \in parseInstruction("CMP", a)
  PROVE  Says(decode_inst(word), "CMP", a, k)
<1>1. IsRegister(a[1]) /\ (IsRegister(a[2]) \/ Fits(a[2], 19))
  BY DEF Supported, ThreeRegisters, Far, Stack
<1>2. word = IF StartsWithR(a[2]) THEN CMP(Reg(a[1]), Reg(a[2]), REGISTER)
                                  ELSE CMP(Reg(a[1]), Imm(a[2]), IMMEDIATE)
  BY DEF parseInstruction, ThreeRegisters, Far, Stack
<1>3. Reg(a[1]) = R(a[1]) /\ R(a[1]) \in RegisterNumber /\ {} \in U32
  BY <1>1, RegisterRead DEF U32
<1>4. CASE IsRegister(a[2])
  <2>1. StartsWithR(a[2]) /\ Reg(a[2]) = R(a[2]) /\ R(a[2]) \in RegisterNumber
    BY <1>4, RegisterRead
  <2>2. LET d == decode_inst(word)
        IN  d.opcode = "CMP" /\ d.format = "R" /\ d.rs1 = R(a[1]) /\ d.rs2 = R(a[2])
    BY <1>2, <1>3, <2>1, DecoderInvertsEncoder
  <2> QED
    BY <1>4, <2>2 DEF Says
<1>5. CASE ~IsRegister(a[2])
  <2>1. /\ ~StartsWithR(a[2]) /\ Imm(a[2]) = Value(a[2])
        /\ Value(a[2]) \in U32 /\ FitsField(Value(a[2]), 19)
    BY <1>1, <1>5, ImmediateRead
  <2>2. LET d == decode_inst(word)
        IN  d.opcode = "CMP" /\ d.format = "I" /\ d.rs1 = R(a[1]) /\ d.imm = Value(a[2])
    BY <1>2, <1>3, <2>1, DecoderInvertsEncoder
  <2> QED
    BY <1>5, <2>2 DEF Says
<1> QED
  BY <1>4, <1>5

(* MOV, which becomes LOADI for an immediate. *)
LEMMA MovLine ==
  ASSUME Faithful, pass = "second", NEW a, a # << >>, NEW k, Supported("MOV", a, k),
         NEW word \in parseInstruction("MOV", a)
  PROVE  Says(decode_inst(word), "MOV", a, k)
<1>1. IsRegister(a[1]) /\ (IsRegister(a[2]) \/ Fits(a[2], 21))
  BY DEF Supported, ThreeRegisters, Far, Stack
<1>2. word = IF StartsWithR(a[2]) THEN MOV(Reg(a[1]), Reg(a[2]))
                                  ELSE SetWide("LOADI", Reg(a[1]), Imm(a[2]))
  BY DEF parseInstruction, ThreeRegisters, Far, Stack
<1>3. Reg(a[1]) = R(a[1]) /\ R(a[1]) \in RegisterNumber /\ {} \in U32
  BY <1>1, RegisterRead DEF U32
<1>4. CASE IsRegister(a[2])
  <2>1. StartsWithR(a[2]) /\ Reg(a[2]) = R(a[2]) /\ R(a[2]) \in RegisterNumber
    BY <1>4, RegisterRead
  <2>2. LET d == decode_inst(word)
        IN  d.opcode = "MOV" /\ d.rd = R(a[1]) /\ d.rs1 = R(a[2])
    BY <1>2, <1>3, <2>1, DecoderInvertsEncoder
  <2> QED
    BY <1>4, <2>2 DEF Says
<1>5. CASE ~IsRegister(a[2])
  <2>1. /\ ~StartsWithR(a[2]) /\ Imm(a[2]) = Value(a[2])
        /\ Value(a[2]) \in U32 /\ FitsField(Value(a[2]), 21)
    BY <1>1, <1>5, ImmediateRead
  <2>2. LET d == decode_inst(word)
        IN  d.opcode = "LOADI" /\ d.rd = R(a[1]) /\ d.imm = Value(a[2])
    BY <1>2, <1>3, <2>1, DecoderInvertsEncoder DEF Wide
  <2> QED
    BY <1>5, <2>2 DEF Says
<1> QED
  BY <1>4, <1>5

(* JMP and CALL to a label. *)
LEMMA JumpLine ==
  ASSUME Faithful, pass = "second", NEW op \in Far, NEW a, a # << >>, Supported(op, a, line),
         NEW word \in parseInstruction(op, a)
  PROVE  Says(decode_inst(word), op, a, line)
<1>1. Reaches(a[1], line, 26)
  BY DEF Supported, ThreeRegisters, Far, Stack
<1>2. word = Jump(op, Offset(a[1]))
  BY DEF parseInstruction, ThreeRegisters, Far, Stack
<1> DEFINE o == U32Of(LabelPlace(a[1]) - Place(line))
<1>3. Offset(a[1]) = o /\ o \in U32 /\ FitsField(o, 26)
  BY <1>1, OffsetRead
<1> HIDE DEF o
<1>4. decode_inst(word).opcode = op /\ decode_inst(word).imm = o
  <2>1. {} \in RegisterNumber /\ {} \in U32
    BY DEF RegisterNumber, U32
  <2> QED
    BY <1>2, <1>3, <2>1, DecoderInvertsEncoder
<1> QED
  BY <1>4 DEF Says, o

(* BJMP on a condition to a label. *)
LEMMA BranchLine ==
  ASSUME Faithful, pass = "second", NEW a, a # << >>, Supported("BJMP", a, line),
         NEW word \in parseInstruction("BJMP", a)
  PROVE  Says(decode_inst(word), "BJMP", a, line)
<1>1. a[1].type = "name" /\ a[1].name \in Cond \ {"CS", "CC"} /\ Reaches(a[2], line, 23)
  BY DEF Supported, ThreeRegisters, Far, Stack
<1>2. word = BJMP(a[1].name, Offset(a[2]))
  BY <1>1 DEF parseInstruction, Conditions, ThreeRegisters, Far, Stack
<1> DEFINE o == U32Of(LabelPlace(a[2]) - Place(line))
<1>3. Offset(a[2]) = o /\ o \in U32 /\ FitsField(o, 23)
  BY <1>1, OffsetRead
<1> HIDE DEF o
<1>4. LET d == decode_inst(word)
      IN  d.opcode = "BJMP" /\ d.cond = a[1].name /\ d.imm = o
  <2>1. {} \in RegisterNumber /\ {} \in U32
    BY DEF RegisterNumber, U32
  <2> QED
    BY <1>1, <1>2, <1>3, <2>1, DecoderInvertsEncoder
<1> QED
  BY <1>4 DEF Says, o

(* LOADW and STOREW with base and offset. *)
LEMMA AccessLine ==
  ASSUME Faithful, pass = "second", NEW op \in {"LOADW", "STOREW"}, NEW a, a # << >>, NEW k,
         Supported(op, a, k), NEW word \in parseInstruction(op, a)
  PROVE  Says(decode_inst(word), op, a, k)
<1>1. /\ IsRegister(a[1]) /\ a[2].type = "indirect"
      /\ IsRegister(a[2].base) /\ Fits(a[2].off, 16)
  BY DEF Supported, ThreeRegisters, Far, Stack
<1>2. word = Memory(op, Reg(a[1]), Reg(a[2].base), Imm(a[2].off))
  BY <1>1 DEF parseInstruction, BasePart, OffsetPart, ThreeRegisters, Far, Stack
<1>3. /\ Reg(a[1]) = R(a[1]) /\ Reg(a[2].base) = R(a[2].base)
      /\ R(a[1]) \in RegisterNumber /\ R(a[2].base) \in RegisterNumber /\ {} \in U32
  BY <1>1, RegisterRead DEF U32
<1>4. /\ Imm(a[2].off) = Value(a[2].off)
      /\ Value(a[2].off) \in U32 /\ FitsField(Value(a[2].off), 16)
  BY <1>1, ImmediateRead
<1>5. LET d == decode_inst(word)
      IN  d.opcode = op /\ d.rd = R(a[1]) /\ d.rs1 = R(a[2].base) /\ d.imm = Value(a[2].off)
  BY <1>2, <1>3, <1>4, DecoderInvertsEncoder DEF Access
<1> QED
  BY <1>5 DEF Says

(* CSRR and CSRW. *)
LEMMA CsrLine ==
  ASSUME NEW op \in {"CSRR", "CSRW"}, NEW a, a # << >>, NEW k,
         Supported(op, a, k), NEW word \in parseInstruction(op, a)
  PROVE  Says(decode_inst(word), op, a, k)
<1>1. {} \in U32
  BY DEF U32
<1>2. CASE op = "CSRR"
  <2>1. IsRegister(a[1]) /\ IsCsr(a[2])
    BY <1>2 DEF Supported, ThreeRegisters, Far, Stack
  <2>2. word = CSRR(Reg(a[1]), U32Of(parseCSR(a[2])), REGISTER)
    BY <1>2 DEF parseInstruction, ThreeRegisters, Far, Stack
  <2>3. /\ Reg(a[1]) = R(a[1]) /\ R(a[1]) \in RegisterNumber
        /\ U32Of(parseCSR(a[2])) = CsrOf(a[2]) /\ CsrOf(a[2]) \in RegisterNumber
    BY <2>1, RegisterRead, CsrNumberRead
  <2>4. LET d == decode_inst(word)
        IN  d.opcode = op /\ d.rd = R(a[1]) /\ d.csr = CsrOf(a[2])
    BY <1>1, <1>2, <2>2, <2>3, DecoderInvertsEncoder DEF REGISTER
  <2> QED
    BY <1>2, <2>4 DEF Says
<1>3. CASE op = "CSRW"
  <2>1. IsCsr(a[1]) /\ IsRegister(a[2])
    BY <1>3 DEF Supported, ThreeRegisters, Far, Stack
  <2>2. a[2].type \notin {"number", "huge"}
    BY <2>1 DEF IsRegister
  <2>3. word = CSRW(Reg(a[2]), U32Of(parseCSR(a[1])), REGISTER)
    BY <1>3, <2>2 DEF parseInstruction, ThreeRegisters, Far, Stack
  <2>4. /\ Reg(a[2]) = R(a[2]) /\ R(a[2]) \in RegisterNumber
        /\ U32Of(parseCSR(a[1])) = CsrOf(a[1]) /\ CsrOf(a[1]) \in RegisterNumber
    BY <2>1, RegisterRead, CsrNumberRead
  <2>5. LET d == decode_inst(word)
        IN  d.opcode = op /\ d.rs1 = R(a[2]) /\ d.csr = CsrOf(a[1])
    BY <1>1, <1>3, <2>3, <2>4, DecoderInvertsEncoder DEF REGISTER
  <2> QED
    BY <1>3, <2>5 DEF Says
<1> QED
  BY <1>2, <1>3

(* PUSH, POP and CALLR. *)
LEMMA StackLine ==
  ASSUME NEW op \in Stack, NEW a, a # << >>, NEW k, Supported(op, a, k),
         NEW word \in parseInstruction(op, a)
  PROVE  Says(decode_inst(word), op, a, k)
<1>1. IsRegister(a[1])
  BY DEF Supported, ThreeRegisters, Far, Stack
<1>2. word = OneRegister(op, Reg(a[1]))
  BY DEF parseInstruction, ThreeRegisters, Far, Stack
<1>3. Reg(a[1]) = R(a[1]) /\ R(a[1]) \in RegisterNumber /\ {} \in U32
  BY <1>1, RegisterRead DEF U32
<1>4. LET d == decode_inst(word)
      IN  d.opcode = op /\ (IF op = "POP" THEN d.rd ELSE d.rs1) = R(a[1])
  BY <1>2, <1>3, DecoderInvertsEncoder
<1>5. CASE op = "POP"
  <2> QED
    BY <1>4, <1>5 DEF Says
<1>6. CASE op \in {"PUSH", "CALLR"}
  <2> QED
    BY <1>4, <1>6 DEF Says
<1> QED
  BY <1>5, <1>6 DEF Stack

(* The word the second pass makes of a line is what the line says. *)
LEMMA LineDecodes ==
  ASSUME Faithful, pass = "second", NEW word \in parseInstruction(Now.op, Now.args)
  PROVE  Decodes(word, line)
<1> DEFINE op == source[line].text.op
           a  == source[line].text.args
<1>1. word \in parseInstruction(op, a)
  BY DEF Now, SecondTrim
<1> SUFFICES ASSUME Supported(op, a, line)
             PROVE  IF op = "WORD" THEN word = Value(a[1]) ELSE Says(decode_inst(word), op, a, line)
  BY Zenon DEF Decodes
<1> HIDE DEF op, a
<1>2. CASE a = << >>
  <2>1. op \in Bare
    BY <1>2, Zenon DEF Supported
  <2>2. word = Plain(op)
    BY <1>1, <1>2, <2>1 DEF parseInstruction
  <2>3. decode_inst(word).opcode = op /\ op # "WORD"
    BY <2>1, <2>2, BareInstruction DEF Bare
  <2> QED
    BY <1>2, <2>3 DEF Says
<1>3. CASE a # << >>
  <2>1. CASE op = "WORD"
    <3>1. Fits(a[1], 31) /\ word = Imm(a[1])
      BY <1>1, <1>3, <2>1 DEF Supported, parseInstruction, ThreeRegisters, Far, Stack
    <3>2. Imm(a[1]) = Value(a[1])
      BY <3>1, ImmediateRead
    <3> QED
      BY <2>1, <3>1, <3>2
  <2>2. CASE op \in ThreeRegisters
    BY <1>1, <1>3, <2>2, ThreeRegistersLine DEF ThreeRegisters
  <2>3. CASE op = "CMP"
    BY <1>1, <1>3, <2>3, CmpLine
  <2>4. CASE op = "MOV"
    BY <1>1, <1>3, <2>4, MovLine
  <2>5. CASE op \in Far
    BY <1>1, <1>3, <2>5, JumpLine DEF Far
  <2>6. CASE op = "BJMP"
    BY <1>1, <1>3, <2>6, BranchLine
  <2>7. CASE op \in {"LOADW", "STOREW"}
    BY <1>1, <1>3, <2>7, AccessLine
  <2>8. CASE op \in {"CSRR", "CSRW"}
    BY <1>1, <1>3, <2>8, CsrLine
  <2>9. CASE op \in Stack
    BY <1>1, <1>3, <2>9, StackLine DEF Stack
  <2>10. CASE /\ op \notin ThreeRegisters /\ op \notin Far /\ op \notin Stack
              /\ op # "WORD" /\ op # "CMP" /\ op # "MOV" /\ op # "BJMP"
              /\ op \notin {"LOADW", "STOREW"} /\ op # "CSRR" /\ op # "CSRW"
    BY <1>3, <2>10, Zenon DEF Supported
  <2> QED
    BY <2>1, <2>2, <2>3, <2>4, <2>5, <2>6, <2>7, <2>8, <2>9, <2>10
<1> QED
  BY <1>2, <1>3

(* What a line says, and whether it is supported, depends on the file alone. *)
LEMMA SameLines ==
  ASSUME source' = source
  PROVE  /\ \A word, k : Decodes(word, k)' = Decodes(word, k)
         /\ \A t : JumpedTo(t)' = JumpedTo(t)
<1>1. /\ \A k : Place(k)' = Place(k) /\ LabelPlace(k)' = LabelPlace(k)
      /\ \A t : Definitions(t)' = Definitions(t)
  BY SameFile
<1>2. \A t : JumpedTo(t)' = JumpedTo(t)
  BY DEF JumpedTo
<1>3. \A t, size : Fits(t, size)' = Fits(t, size)
  BY <1>1, <1>2, Zenon DEF Fits, IsNumber
<1>4. \A t, k, size : Reaches(t, k, size)' = Reaches(t, k, size)
  BY <1>1, Zenon DEF Reaches, IsDefined
<1>5. \A t : Value(t)' = Value(t)
  BY <1>1, Zenon DEF Value
<1>6. ASSUME NEW op, NEW a, NEW k PROVE Supported(op, a, k)' <=> Supported(op, a, k)
  <2>1. /\ Fits(a[1], 31)' <=> Fits(a[1], 31)
        /\ Fits(a[2], 19)' <=> Fits(a[2], 19)
        /\ Fits(a[2], 21)' <=> Fits(a[2], 21)
        /\ Fits(a[2].off, 16)' <=> Fits(a[2].off, 16)
        /\ Reaches(a[1], k, 26)' <=> Reaches(a[1], k, 26)
        /\ Reaches(a[2], k, 23)' <=> Reaches(a[2], k, 23)
    BY <1>3, <1>4, Zenon
  <2> QED
    BY <2>1, SMT DEF Supported
<1>7. ASSUME NEW d, NEW op, NEW a, NEW k PROVE Says(d, op, a, k)' <=> Says(d, op, a, k)
  <2>1. /\ Value(a[2])' = Value(a[2]) /\ Value(a[2].off)' = Value(a[2].off)
        /\ LabelPlace(a[1])' = LabelPlace(a[1]) /\ LabelPlace(a[2])' = LabelPlace(a[2])
        /\ Place(k)' = Place(k)
    BY <1>1, <1>5, Zenon
  <2> QED
    BY <2>1, SMT DEF Says
<1>8. \A word, k : Decodes(word, k)' = Decodes(word, k)
  BY <1>5, <1>6, <1>7, Zenon DEF Decodes
<1> QED
  BY <1>2, <1>8

(* The word of a line in front of another one is in front of its word. *)
LEMMA PlaceBefore ==
  ASSUME NEW n \in Nat \ {0}, NEW k \in CodeBefore(n)
  PROVE  Place(k) \in Nat /\ Place(k) % 4 = 0 /\ Place(k) < Place(n)
<1>1. k \in 1 .. n - 1 /\ IsCode(source[k].text)
  BY DEF CodeBefore
<1>2. Place(k + 1) = Place(k) + 4 /\ Place(k) \in Nat
  BY <1>1, PlaceSteps
<1>3. CodeBefore(k + 1) \subseteq CodeBefore(n)
  BY <1>1 DEF CodeBefore
<1>4. IsFiniteSet(CodeBefore(n)) /\ IsFiniteSet(CodeBefore(k)) /\ IsFiniteSet(CodeBefore(k + 1))
  BY <1>1, CodeFinite
<1>5. /\ Cardinality(CodeBefore(k + 1)) <= Cardinality(CodeBefore(n))
      /\ Cardinality(CodeBefore(k + 1)) \in Nat /\ Cardinality(CodeBefore(n)) \in Nat
      /\ Cardinality(CodeBefore(k)) \in Nat
  BY <1>3, <1>4, FS_Subset, FS_CardinalityType
<1> QED
  BY <1>2, <1>5 DEF Place

(* An earlier word stays where it is when another is appended. *)
LEMMA WordsStay ==
  ASSUME NEW s, Len(s) \in Nat, s = [i \in 1 .. Len(s) |-> s[i]], NEW e
  PROVE  /\ \A i \in 1 .. Len(s) : Append(s, e)[i] = s[i]
         /\ Append(s, e)[Len(s) + 1] = e
<1> DEFINE S == {s[i] : i \in 1 .. Len(s)} \union {e}
<1>1. s \in [1 .. Len(s) -> S]
  OBVIOUS
<1>2. s \in Seq(S) /\ e \in S
  BY <1>1
<1> HIDE DEF S
<1> QED
  BY <1>2

(* The empty binary is faithful, *)
LEMMA FaithfulInit == Init => Faithful
<1> SUFFICES ASSUME Init PROVE Faithful
  OBVIOUS
<1>1. PassesAgree
  BY PassesInit
<1>2. LabelsKnown /\ AssemblesToWhatItSays
  BY DEF Init, LabelsKnown, AssemblesToWhatItSays, Assembled
<1> QED
  BY <1>1, <1>2 DEF Faithful

(* a line assembled keeps it so, *)
LEMMA FaithfulCode ==
  ASSUME Faithful, SecondCode
  PROVE  LabelsKnown' /\ AssemblesToWhatItSays'
<1>1. /\ pass = "second" /\ pass' = "second" /\ source' = source /\ line' = line + 1
      /\ line \in Nat \ {0} /\ line <= Len(source) /\ DOMAIN source = 1 .. Len(source)
      /\ IsCode(source[line].text)
  BY DEF SecondCode, At, Advance, Now, SecondTrim, Faithful, PassesAgree, InTheFile
<1>2. LabelsKnown'
  <2>1. \A t \in DOMAIN labels' : t \in DOMAIN labels \/ t \in Targets(Now.op, Now.args)
    BY DEF SecondCode, Looked
  <2>2. \A t \in Targets(Now.op, Now.args) : JumpedTo(t)
    BY <1>1 DEF JumpedTo, Now, SecondTrim
  <2>3. \A t \in DOMAIN labels : Definitions(t) # {} \/ JumpedTo(t)
    BY <1>1 DEF Faithful, LabelsKnown
  <2> QED
    BY <1>1, <2>1, <2>2, <2>3, SameFile, SameLines DEF LabelsKnown
<1>3. AssemblesToWhatItSays'
  <2>1. PICK word \in parseInstruction(Now.op, Now.args) : instructions' = Append(instructions, word)
    BY DEF SecondCode
  <2>2. /\ Len(instructions) \in Nat /\ Place(line) = 4 * Len(instructions)
        /\ instructions = [i \in 1 .. Len(instructions) |-> instructions[i]]
    BY <1>1 DEF Faithful, PassesAgree, InTheFile, Addresses
  <2>3. /\ \A i \in 1 .. Len(instructions) : instructions'[i] = instructions[i]
        /\ instructions'[Len(instructions) + 1] = word
    BY <2>1, <2>2, WordsStay
  <2>4. CodeBefore(line + 1) = CodeBefore(line) \union {line}
    <3>1. 1 .. (line + 1) - 1 = (1 .. line - 1) \union {line}
      BY <1>1
    <3> QED
      BY <1>1, <3>1 DEF CodeBefore
  <2>5. ASSUME NEW k \in CodeBefore(line)
        PROVE  Decodes(instructions'[Place(k) \div 4 + 1], k)
    <3>1. Place(k) \in Nat /\ Place(k) % 4 = 0 /\ Place(k) < Place(line)
      BY <1>1, PlaceBefore
    <3>2. Place(k) \div 4 + 1 \in 1 .. Len(instructions)
      BY <2>2, <3>1
    <3>3. Decodes(WordOf(k), k)
      BY <1>1 DEF Faithful, AssemblesToWhatItSays, Assembled
    <3> QED
      BY <2>3, <3>2, <3>3 DEF WordOf
  <2>6. Decodes(instructions'[Place(line) \div 4 + 1], line)
    <3>1. Place(line) \div 4 + 1 = Len(instructions) + 1
      BY <2>2
    <3>2. Decodes(word, line)
      BY <1>1, LineDecodes
    <3> QED
      BY <2>3, <3>1, <3>2
  <2>7. \A k \in CodeBefore(line + 1) : Decodes(instructions'[Place(k) \div 4 + 1], k)
    BY <2>4, <2>5, <2>6
  <2>8. Assembled' = CodeBefore(line + 1)
    BY <1>1 DEF Assembled, CodeBefore
  <2>9. \A k : WordOf(k)' = instructions'[Place(k) \div 4 + 1]
    BY <1>1, SameFile DEF WordOf
  <2> QED
    BY <1>1, <2>7, <2>8, <2>9, SameLines DEF AssemblesToWhatItSays
<1> QED
  BY <1>2, <1>3

(* and so does every other step. *)
LEMMA FaithfulNext == Faithful /\ [Next]_assembler_vars => Faithful'
<1> SUFFICES ASSUME Faithful, [Next]_assembler_vars PROVE Faithful'
  OBVIOUS
<1>1. PassesAgree'
  BY PassesNext DEF Faithful
<1> SUFFICES LabelsKnown' /\ AssemblesToWhatItSays'
  BY <1>1 DEF Faithful
<1>2. CASE FirstBlank \/ FirstLabel \/ FirstCode
  <2>1. pass' = "first"
    BY <1>2 DEF FirstBlank, FirstLabel, FirstCode, At
  <2> QED
    BY <2>1 DEF LabelsKnown, AssemblesToWhatItSays, Assembled
<1>3. CASE StartSecond
  <2>1. /\ pass' = "second" /\ line' = 1 /\ labels' = labels /\ source' = source
        /\ pass = "first" /\ line = Len(source) + 1
    BY <1>3 DEF StartSecond, Faithful, PassesAgree, InTheFile
  <2>2. \A t \in DOMAIN labels : Definitions(t) # {}
    BY <2>1 DEF Faithful, PassesAgree, InTheFile, Definitions
  <2>3. LabelsKnown'
    BY <2>1, <2>2, SameFile DEF LabelsKnown
  <2>4. Assembled' = {}
    BY <2>1 DEF Assembled, CodeBefore
  <2> QED
    BY <2>3, <2>4 DEF AssemblesToWhatItSays
<1>4. CASE SecondSkip
  <2>1. /\ pass = "second" /\ pass' = "second" /\ line' = line + 1 /\ ~IsCode(source[line].text)
        /\ source' = source /\ labels' = labels /\ instructions' = instructions
        /\ line \in Nat
    BY <1>4 DEF SecondSkip, At, Advance, Now, SecondTrim, Faithful, PassesAgree, InTheFile
  <2>2. LabelsKnown'
    BY <2>1, SameFile, SameLines DEF Faithful, LabelsKnown
  <2>3. Assembled' = Assembled
    <3>1. 1 .. (line + 1) - 1 = 1 .. line
      BY <2>1
    <3>2. \A j \in 1 .. line : IsCode(source[j].text) => j \in 1 .. line - 1
      BY <2>1
    <3> QED
      BY <2>1, <3>1, <3>2 DEF Assembled, CodeBefore
  <2>4. \A k : WordOf(k)' = WordOf(k)
    BY <2>1, SameFile DEF WordOf
  <2>5. AssemblesToWhatItSays'
    BY <2>1, <2>3, <2>4, SameLines DEF Faithful, AssemblesToWhatItSays
  <2> QED
    BY <2>2, <2>5
<1>5. CASE SecondCode
  BY <1>5, FaithfulCode
<1>6. CASE Abort \/ Write \/ UNCHANGED assembler_vars
  <2>1. /\ source' = source /\ labels' = labels /\ instructions' = instructions /\ line' = line
        /\ pass' = "second" => pass = "second"
        /\ pass' = "first" <=> pass = "first"
    BY <1>6 DEF Abort, Write, At, assembler_vars
  <2>2. LabelsKnown'
    BY <2>1, SameFile, SameLines DEF Faithful, LabelsKnown
  <2>3. Assembled' = Assembled
    BY <2>1 DEF Assembled, CodeBefore
  <2>4. \A k : WordOf(k)' = WordOf(k)
    BY <2>1, SameFile DEF WordOf
  <2>5. AssemblesToWhatItSays'
    BY <2>1, <2>3, <2>4, SameLines DEF Faithful, AssemblesToWhatItSays
  <2> QED
    BY <2>2, <2>5
<1>7. CASE OpenFails
  <2>1. pass' = "empty" /\ line' = 1
    BY <1>7 DEF OpenFails
  <2> QED
    BY <2>1 DEF LabelsKnown, AssemblesToWhatItSays, Assembled, CodeBefore
<1> QED
  BY <1>2, <1>3, <1>4, <1>5, <1>6, <1>7 DEF Next

(* In the binary of every source each supported line is the word that the  *)
(* decoder takes apart into what the line says, and every jump that fits   *)
(* its field reaches the line behind its label.                            *)
THEOREM Assembly == Spec => []AssemblesToWhatItSays
<1>1. Faithful => AssemblesToWhatItSays
  BY DEF Faithful
<1> QED
  BY <1>1, FaithfulInit, FaithfulNext, PTL DEF Spec
=============================================================================
