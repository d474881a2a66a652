--------------------------- MODULE MachineProofs ---------------------------
(***************************************************************************)
(* Facts about words and arithmetic, and what the operators on memory,     *)
(* registers and control and status registers return, for every width and  *)
(* every size.                                                             *)
(***************************************************************************)
EXTENDS Machine, SequenceTheorems, WellFoundedInduction, TLAPS

(* The numbers of words and of non-negative words. *)
LEMMA WordCount == HALF \in Nat /\ HALF > 1 /\ WORDS \in Nat /\ WORDS = 2 * HALF /\ WORDS > 3
  BY WidthAssumption

(* Converting any int to u32 gives a word, and leaves a word as it is. *)
LEMMA WrapType == \A i \in Int : Wrap(i) \in Word
  BY WordCount DEF Wrap, Word

(* A word does not wrap. *)
LEMMA WrapWord == \A w \in Word : Wrap(w) = w
  BY WordCount DEF Wrap, Word

(* Words are naturals and 0 is one. *)
LEMMA ZeroWord == 0 \in Word /\ Word \subseteq Nat
  BY WordCount DEF Word

(* Sums and differences wrap into words. *)
LEMMA PlusType == \A a, b \in Int : Plus(a, b) \in Word /\ Minus(a, b) \in Word
  BY WrapType DEF Plus, Minus

(* A set of bit positions is a word in binary. *)
LEMMA NumType == \A S \in SUBSET Bit : Num(S) \in Word /\ BitsOf(Num(S)) = S
  BY BinaryAssumption DEF Num

(* The ones of a word are bit positions. *)
LEMMA BitsType == \A w : BitsOf(w) \subseteq Bit
  BY DEF BitsOf

(* Words have a signed reading. *)
LEMMA SignedType == \A w \in Word : Signed(w) \in Int
  BY WordCount DEF Signed, Word

(* The four update_flags functions return flags. *)
LEMMA FlagsType ==
  \A r, a, b \in Word : /\ update_flags_add(r, a, b) \in Flags
                        /\ update_flags_sub(r, a, b) \in Flags
                        /\ update_flags_logic(r) \in Flags
                        /\ update_flags_shift(r) \in Flags
  BY DEF update_flags_add, update_flags_sub, update_flags_logic, update_flags_shift, Flags, Sign

(* Division truncates to an integer. *)
LEMMA QuotientType == \A a \in Int, b \in Int \ {0} : Quotient(a, b) \in Int
<1> SUFFICES ASSUME NEW a \in Int, NEW b \in Int \ {0} PROVE Quotient(a, b) \in Int
  OBVIOUS
<1> DEFINE Abs(i) == IF i < 0 THEN -i ELSE i
           q == Abs(a) \div Abs(b)
<1>1. Abs(a) \in Nat /\ Abs(b) \in Nat /\ Abs(b) > 0
  OBVIOUS
<1>2. q \in Int
  BY <1>1
<1> QED
  BY <1>2 DEF Quotient

(* The result of every arithmetic and logic instruction is a word, its     *)
(* flags are flags.                                                        *)
LEMMA AluResultType ==
  \A op \in AluOp, a, b \in Word : AluResult(op, a, b) \in Word
<1> SUFFICES ASSUME NEW op \in AluOp, NEW a \in Word, NEW b \in Word
             PROVE  AluResult(op, a, b) \in Word
  OBVIOUS
<1>0. a \in Int /\ b \in Int /\ Signed(a) \in Int /\ Signed(b) \in Int
  BY ZeroWord, SignedType
<1>1. CASE op \in {"ADD", "SUB"}
  BY <1>0, <1>1, PlusType DEF AluResult
<1>2. CASE op \in LogicOp
  <2>1. /\ BitsOf(a) \intersect BitsOf(b) \in SUBSET Bit
        /\ BitsOf(a) \union BitsOf(b) \in SUBSET Bit
        /\ (BitsOf(a) \union BitsOf(b)) \ (BitsOf(a) \intersect BitsOf(b)) \in SUBSET Bit
    BY BitsType
  <2> QED
    BY <1>2, <2>1, NumType DEF AluResult, LogicOp
<1>3. CASE op \in ShiftOp
  <2>1. Shift(b) \in Bit
    BY <1>0, WidthAssumption DEF Shift, Bit
  <2>2. 2^Shift(b) \in Nat /\ 2^Shift(b) > 0
    BY <2>1, WidthAssumption
  <2>3. a * 2^Shift(b) \in Int /\ a \div 2^Shift(b) \in Int /\ Signed(a) \div 2^Shift(b) \in Int
    BY <1>0, <2>2
  <2> QED
    BY <1>3, <2>3, WrapType DEF AluResult, ShiftOp
<1>4. CASE op = "MUL"
  <2>1. Signed(a) * Signed(b) \in Int
    BY <1>0
  <2> QED
    BY <1>4, <2>1, WrapType DEF AluResult
<1>5. CASE op = "DIV"
  <2>1. CASE b = 0
    BY <1>5, <2>1, ZeroWord DEF AluResult
  <2>2. CASE b # 0
    <3>1. Signed(b) # 0
      BY <2>2, WordCount DEF Signed, Word
    <3>2. Quotient(Signed(a), Signed(b)) \in Int
      BY <1>0, <3>1, QuotientType
    <3> QED
      BY <1>5, <2>2, <3>2, WrapType DEF AluResult
  <2> QED
    BY <2>1, <2>2
<1> QED
  BY <1>1, <1>2, <1>3, <1>4, <1>5 DEF AluOp

(* The flags of each ALU operation. *)
LEMMA AluFlagsType ==
  \A op \in AluOp, r, a, b \in Word : AluFlags(op, r, a, b) \in Flags
  BY FlagsType DEF AluFlags

(* The two ways Wrap brings the sum or difference of two words back.       *)
LEMMA WrapOnce ==
  ASSUME NEW a \in Word, NEW b \in Word
  PROVE  /\ Plus(a, b)  = IF a + b >= WORDS THEN a + b - WORDS ELSE a + b
         /\ Minus(a, b) = IF a < b THEN a - b + WORDS ELSE a - b
<1>1. /\ \A i \in 0 .. WORDS - 1 : i % WORDS = i
      /\ \A i \in WORDS .. 2 * WORDS - 1 : i % WORDS = i - WORDS
      /\ \A i \in -WORDS .. -1 : i % WORDS = i + WORDS
  BY WordCount
<1>2. a + b \in 0 .. 2 * WORDS - 1 /\ a - b \in -WORDS .. WORDS - 1
  BY WordCount DEF Word
<1> QED
  BY <1>1, <1>2, WordCount DEF Plus, Minus, Wrap, Word

(* ADD and SUB among the ALU operations. *)
LEMMA SumResult ==
  ASSUME NEW a, NEW b, NEW r
  PROVE  /\ AluResult("ADD", a, b) = Plus(a, b)
         /\ AluResult("SUB", a, b) = Minus(a, b)
         /\ AluFlags("ADD", r, a, b) = update_flags_add(r, a, b)
         /\ AluFlags("SUB", r, a, b) = update_flags_sub(r, a, b)
<1>1. AluResult("ADD", a, b) = Plus(a, b)
  BY DEF AluResult
<1>2. AluResult("SUB", a, b) = Minus(a, b)
  BY DEF AluResult
<1>3. AluFlags("ADD", r, a, b) = update_flags_add(r, a, b)
  BY DEF AluFlags, ShiftOp
<1>4. AluFlags("SUB", r, a, b) = update_flags_sub(r, a, b)
  BY DEF AluFlags, ShiftOp
<1> QED
  BY <1>1, <1>2, <1>3, <1>4

(* After SUB and CMP the conditions are the comparisons of the operands.   *)
LEMMA CompareFlags ==
  ASSUME NEW a \in Word, NEW b \in Word
  PROVE  Compares(update_flags_sub(Minus(a, b), a, b), a, b)
<1> DEFINE r  == Minus(a, b)
           fl == update_flags_sub(r, a, b)
<1>1. r = IF a < b THEN a - b + WORDS ELSE a - b
  BY WrapOnce
<1>2. /\ fl.zf = (r = 0) /\ fl.sf = Sign(r) /\ fl.cf = (a < b)
      /\ fl.of = (Sign(a) # Sign(b) /\ Sign(a) # Sign(r))
  BY DEF update_flags_sub
<1>3. (r = 0) <=> a = b
  BY <1>1, WordCount DEF Word
<1>4. (Sign(r) # (Sign(a) # Sign(b) /\ Sign(a) # Sign(r))) <=> Signed(a) < Signed(b)
  BY <1>1, WordCount DEF Word, Sign, Signed
<1>5. Signed(a) = Signed(b) <=> a = b
  BY WordCount DEF Word, Sign, Signed
<1>6. Signed(a) \in Int /\ Signed(b) \in Int /\ a \in Int /\ b \in Int
  BY SignedType, ZeroWord
<1> HIDE DEF r, fl
<1>7. /\ (fl.sf # fl.of) <=> Signed(a) < Signed(b)
      /\ fl.zf <=> Signed(a) = Signed(b)
      /\ fl.cf <=> a < b
  BY <1>2, <1>3, <1>4, <1>5
<1>8. Compares(fl, a, b)
  BY <1>2, <1>3, <1>5, <1>6, <1>7 DEF Compares, Taken
<1> QED
  BY <1>8 DEF fl, r

(* After ADD the flags say where the sum left the range of words.          *)
LEMMA AddFlags ==
  ASSUME NEW a \in Word, NEW b \in Word
  PROVE  Overflows(update_flags_add(Plus(a, b), a, b), a, b)
<1> DEFINE r  == Plus(a, b)
<1>1. r = IF a + b >= WORDS THEN a + b - WORDS ELSE a + b
  BY WrapOnce
<1>2. (r = 0) <=> a + b \in {0, WORDS}
  BY <1>1, WordCount DEF Word
<1>3. r < a <=> a + b >= WORDS
  BY <1>1, WordCount DEF Word
<1>4. (Sign(a) = Sign(b) /\ Sign(a) # Sign(r))
        <=> Signed(a) + Signed(b) \notin -HALF .. HALF - 1
  BY <1>1, WordCount DEF Word, Sign, Signed
<1> HIDE DEF r
<1>5. Overflows(update_flags_add(r, a, b), a, b)
  BY <1>2, <1>3, <1>4 DEF Overflows, update_flags_add
<1> QED
  BY <1>5 DEF r

(* The flags saved in EFLAGS fit a word, and any word gives back flags. *)
LEMMA FlagBitsType ==
  /\ \A f \in Flags : FlagBits(f) \in SUBSET Bit
  /\ \A S : BitFlags(S) \in Flags
<1>1. 0 .. 3 \subseteq Bit
  BY WidthAssumption DEF Bit
<1>2. \A f \in Flags : FlagBits(f) \subseteq 0 .. 3
  BY DEF FlagBits
<1> QED
  BY <1>1, <1>2 DEF BitFlags, Flags

(* Saving the flags in EFLAGS and taking them back loses nothing: the bit  *)
(* positions of SYSCALL, TRAP and handle_interrupt are those of IRET.      *)
THEOREM FlagsSurviveHandlers == \A f \in Flags : BitFlags(BitsOf(Num(FlagBits(f)))) = f
<1> SUFFICES ASSUME NEW f \in Flags PROVE BitFlags(BitsOf(Num(FlagBits(f)))) = f
  OBVIOUS
<1>1. BitsOf(Num(FlagBits(f))) = FlagBits(f)
  BY FlagBitsType, NumType
<1>2. BitFlags(FlagBits(f)) = f
  BY DEF FlagBits, BitFlags, Flags
<1> QED
  BY <1>1, <1>2

---------------------------------------------------------------------------
(* Words *)

(* Words are numbers the provers can calculate with. *)
LEMMA WordInt == \A w \in Word : w \in Int /\ w \in Nat
  BY ZeroWord

(* The remainder of a division by the number of words. *)
LEMMA Division ==
  \A i \in Int : /\ i % WORDS \in Word /\ i \div WORDS \in Int
                 /\ i = WORDS * (i \div WORDS) + (i % WORDS)
<1>1. \A i \in Int : /\ i % WORDS \in Int /\ 0 <= i % WORDS /\ i % WORDS < WORDS
                     /\ i \div WORDS \in Int /\ i = WORDS * (i \div WORDS) + (i % WORDS)
  BY WordCount
<1>2. \A n \in Int : 0 <= n /\ n < WORDS => n \in Word
  BY WordCount DEF Word
<1> QED
  BY <1>1, <1>2

(* Words that differ by a multiple of 2^WIDTH are equal. *)
LEMMA SameWord ==
  ASSUME NEW k \in Int, NEW x \in Word, NEW y \in Word, WORDS * k = y - x
  PROVE  x = y
<1>1. x \in Int /\ y \in Int /\ y - x < WORDS /\ y - x > -WORDS
  BY WordCount DEF Word
<1>2. CASE k >= 1
  <2>1. WORDS * k >= WORDS
    BY <1>2, WordCount
  <2> QED
    BY <1>1, <2>1, WordCount
<1>3. CASE k <= -1
  <2>1. WORDS * k <= -WORDS
    BY <1>3, WordCount
  <2> QED
    BY <1>1, <2>1, WordCount
<1>4. CASE k = 0
  BY <1>1, <1>4, WordCount
<1> QED
  BY <1>2, <1>3, <1>4

(* Wrapping a term of a sum makes no difference to the wrapped sum.        *)
LEMMA WrapInside == \A a, b \in Int : (a + (b % WORDS)) % WORDS = (a + b) % WORDS
<1> SUFFICES ASSUME NEW a \in Int, NEW b \in Int
             PROVE  (a + (b % WORDS)) % WORDS = (a + b) % WORDS
  OBVIOUS
<1> DEFINE r == b % WORDS
           q == b \div WORDS
           s == a + r
           t == a + b
<1>1. r \in Int /\ q \in Int /\ b = WORDS * q + r /\ WORDS \in Int
  BY Division, WordCount, WordInt
<1> HIDE DEF r, q
<1>2. s \in Int /\ t \in Int /\ t - s = WORDS * q
  BY <1>1
<1> HIDE DEF s, t
<1> DEFINE u == s \div WORDS
           v == t \div WORDS
           x == s % WORDS
           y == t % WORDS
<1>3. /\ x \in Word /\ u \in Int /\ s = WORDS * u + x
      /\ y \in Word /\ v \in Int /\ t = WORDS * v + y
  BY <1>2, Division, Zenon
<1> HIDE DEF u, v, x, y
<1>4. u + q - v \in Int /\ WORDS * (u + q - v) = y - x
  BY <1>1, <1>2, <1>3, WordInt
<1>5. x = y
  BY <1>3, <1>4, SameWord
<1> QED
  BY <1>5 DEF s, t, r, x, y

(* Addresses stay words when an offset is added. *)
LEMMA PlusWord == \A w \in Word, i \in Int : Plus(w, i) \in Word /\ Minus(w, i) \in Word
  BY WordInt, PlusType

---------------------------------------------------------------------------
(* Memory *)

(* Addresses of memory are words. *)
LEMMA AddrType == Addr \subseteq Word /\ MEMORY_SIZE \in Nat /\ STACK_START \in Word
  BY MemoryAssumption, WordCount DEF Addr, Word, STACK_START

(* The low byte of a word. *)
LEMMA LowType == \A w \in Word : Low(w) \in Word /\ Low(w) \in 0 .. BYTE - 1 /\ Low(w) <= w
<1> SUFFICES ASSUME NEW w \in Word PROVE Low(w) \in 0 .. BYTE - 1 /\ Low(w) <= w
  BY ZeroWord, WordCount DEF Word, Low
<1>1. w \in Nat /\ BYTE \in Nat /\ BYTE > 0
  BY ZeroWord, MemoryAssumption
<1>2. w % BYTE \in 0 .. BYTE - 1 /\ w % BYTE <= w
  BY <1>1
<1> QED
  BY <1>2 DEF Low

(* Replacing the low byte of a word gives a word. *)
LEMMA LowReplaced == \A w, v \in Word : w - Low(w) + Low(v) \in Word
<1> SUFFICES ASSUME NEW w \in Word, NEW v \in Word PROVE w - Low(w) + Low(v) \in Word
  OBVIOUS
<1> DEFINE q == w \div BYTE
           k == WORDS \div BYTE
<1>1. w \in Nat /\ w < WORDS /\ WORDS \in Nat /\ BYTE \in Nat /\ BYTE > 0
  BY WordCount, MemoryAssumption DEF Word
<1>2. q \in Nat /\ k \in Nat
  BY <1>1
<1>3. w = BYTE * q + Low(w) /\ Low(w) \in 0 .. BYTE - 1
  BY <1>1 DEF Low
<1>4. WORDS = BYTE * k
  BY <1>1, MemoryAssumption
<1>5. BYTE * q < BYTE * k
  BY <1>1, <1>2, <1>3, <1>4
<1>6. q + 1 <= k
  <2>1. CASE q >= k
    <3>1. BYTE * q >= BYTE * k
      BY <1>1, <1>2, <2>1
    <3> QED
      BY <3>1, <1>5, <1>1, <1>2
  <2> QED
    BY <2>1, <1>2
<1>7. BYTE * (q + 1) <= BYTE * k
  BY <1>1, <1>2, <1>6
<1>8. BYTE * q + BYTE <= WORDS
  BY <1>1, <1>2, <1>4, <1>7
<1>9. Low(v) \in 0 .. BYTE - 1
  BY LowType
<1>10. BYTE * q \in Nat
  BY <1>1, <1>2
<1> HIDE DEF q, k
<1> QED
  BY <1>1, <1>3, <1>8, <1>9, <1>10 DEF Word

(* Accesses that go past the devices (read_u32_direct, write_u32_direct). *)
LEMMA DirectType ==
  \A m \in Memory, a, v \in Word :
    read_u32_direct(m, a) \in Word /\ write_u32_direct(m, a, v) \in Memory
  BY ZeroWord DEF read_u32_direct, write_u32_direct, Memory

(* Changing one field of a memory, and the queue of keys. *)
LEMMA MemoryFields ==
  \A m \in Memory :
    /\ \A d \in [Addr -> Word] : [m EXCEPT !.data = d] \in Memory
    /\ \A q \in Seq(Word) : [m EXCEPT !.keyboard_buffer = q] \in Memory
    /\ \A o \in Seq(Word \X Int) : [m EXCEPT !.out = o] \in Memory
  BY DEF Memory

(* The keyboard's queue holds words. *)
LEMMA KeyQueue ==
  \A q \in Seq(Word) : /\ q # << >> => Head(q) \in Word /\ Tail(q) \in Seq(Word)
                       /\ \A k \in Word : Append(q, k) \in Seq(Word)
  BY HeadTailProperties, AppendProperties

(* Every read gives a word, and every access leaves a memory. *)
LEMMA AccessType ==
  \A m \in Memory, a, v \in Word :
    /\ read_u32_direct(m, a) \in Word /\ read_u8(m, a) \in Word /\ read_u32(m, a) \in Word
    /\ after_read_u32(m, a) \in Memory
    /\ write_u32_direct(m, a, v) \in Memory /\ write_u8(m, a, v) \in Memory
    /\ write_u32(m, a, v) \in Memory
    /\ push_key(m, v) \in Memory
<1> SUFFICES ASSUME NEW m \in Memory, NEW a \in Word, NEW v \in Word
             PROVE  /\ read_u8(m, a) \in Word /\ read_u32(m, a) \in Word
                    /\ after_read_u32(m, a) \in Memory
                    /\ write_u8(m, a, v) \in Memory /\ write_u32(m, a, v) \in Memory
                    /\ push_key(m, v) \in Memory
  BY DirectType
<1>1. m.keyboard_buffer \in Seq(Word) /\ m.out \in Seq(Word \X Int)
  BY DEF Memory
<1>2. read_u8(m, a) \in Word
  BY DirectType, LowType DEF read_u8
<1>3. read_u32(m, a) \in Word
  <2>1. 1 \in Word
    BY WordCount DEF Word
  <2>2. m.keyboard_buffer # << >> => Head(m.keyboard_buffer) \in Word
    BY <1>1, KeyQueue
  <2> QED
    BY <2>1, <2>2, DirectType, ZeroWord DEF read_u32
<1>4. after_read_u32(m, a) \in Memory
  <2>1. CASE a = KBD_DATA /\ m.keyboard_buffer # << >>
    <3>1. Tail(m.keyboard_buffer) \in Seq(Word)
      BY <1>1, <2>1, KeyQueue
    <3> QED
      BY <2>1, <3>1, MemoryFields DEF after_read_u32
  <2> QED
    BY <2>1 DEF after_read_u32
<1>5. write_u8(m, a, v) \in Memory
  <2>1. read_u32_direct(m, a) - read_u8(m, a) + Low(v) \in Word
    BY DirectType, LowReplaced DEF read_u8
  <2> QED
    BY <2>1, DirectType DEF write_u8
<1>6. write_u32(m, a, v) \in Memory
  <2>1. Printed(a, v) \in Int
    BY SignedType, ZeroWord DEF Printed
  <2>2. Append(m.out, <<a, Printed(a, v)>>) \in Seq(Word \X Int)
    BY <1>1, <2>1, AppendProperties
  <2> QED
    BY <2>2, DirectType, MemoryFields DEF write_u32
<1>7. push_key(m, v) \in Memory
  <2>1. Append(m.keyboard_buffer, v) \in Seq(Word)
    BY <1>1, KeyQueue
  <2> QED
    BY <2>1, MemoryFields DEF push_key
<1> QED
  BY <1>2, <1>3, <1>4, <1>5, <1>6, <1>7

(* Memory::reset leaves memory. *)
LEMMA ResetType == ZeroMemory \in Memory /\ \A m \in Memory : reset_memory(m) \in Memory
<1>1. [a \in Addr |-> 0] \in [Addr -> Word]
  BY ZeroWord
<1>2. << >> \in Seq(Word) /\ << >> \in Seq(Word \X Int)
  BY EmptySeq
<1> QED
  BY <1>1, <1>2, MemoryFields DEF ZeroMemory, reset_memory, Memory

---------------------------------------------------------------------------
(* Registers and control and status registers *)

(* A register read gives a word, r0 included. *)
LEMMA ReadType == \A regs \in RegFile, r \in Reg : Read(regs, r) \in Word
  BY ZeroWord DEF Read, RegFile

(* A register written leaves a register file, r0 included. *)
LEMMA WriteType ==
  \A regs \in RegFile, r \in Reg, v \in Word : WriteReg(regs, r, v) \in RegFile
  BY DEF WriteReg, RegFile

(* What is written to a register is read from it, except from r0. *)
LEMMA ReadWrite ==
  \A regs \in RegFile, r, s \in Reg, v \in Word :
    Read(WriteReg(regs, r, v), s) = IF r # 0 /\ s = r THEN v ELSE Read(regs, s)
  BY DEF Read, WriteReg, RegFile

(* The registers and CSRs of a new processor. *)
LEMMA ZeroType == ZeroRegisters \in RegFile /\ ZeroCsr \in CsrFile
  BY ZeroWord, AddrType DEF ZeroRegisters, ZeroCsr, RegFile, CsrFile

(* Setting and clearing a line keeps IRQ a word. *)
LEMMA RaiseType ==
  /\ \A w : \A i \in Bit : Raise(w, i) \in Word
  /\ \A w, i : Clear(w, i) \in Word
  BY NumType, BitsType DEF Raise, Clear

(* The bits of STATUS and of the lines have places in a word. *)
LEMMA LineBits ==
  /\ TIMER \in Bit /\ EXT0 \in Bit /\ IE \in Bit /\ PIE \in Bit /\ MODE \in Bit
  /\ INTERRUPT \in Bit /\ 0 .. NIRQ - 1 \subseteq Bit
  BY WidthAssumption, MachineAssumption
     DEF Bit, TIMER, EXT0, IE, PIE, MODE, INTERRUPT

(* A tick of the timer. *)
LEMMA TickedType == \A c \in CsrFile : Ticked(c) \in CsrFile
<1> SUFFICES ASSUME NEW c \in CsrFile PROVE Ticked(c) \in CsrFile
  OBVIOUS
<1>1. /\ c.TCOUNTER \in Word /\ c.TCONTROL \in Word /\ c.IPENDING \in Word
      /\ {"TCOUNTER", "TCONTROL", "IPENDING"} \subseteq Csr
  BY DEF CsrFile, Csr
<1>2. Plus(c.TCOUNTER, 1) \in Word
  BY <1>1, PlusWord
<1>3. Raise(c.IPENDING, TIMER) \in Word /\ Clear(c.TCONTROL, ENABLE) \in Word
  BY RaiseType, LineBits
<1> QED
  BY <1>1, <1>2, <1>3, ZeroWord DEF Ticked, CsrFile

(* A set of numbers has a least one. *)
LEMMA LeastOf ==
  ASSUME NEW S, S \subseteq Nat, S # {} PROVE \E i \in S : \A j \in S : i <= j
<1> DEFINE less == {p \in Nat \X Nat : p[1] < p[2]}
<1>1. IsWellFoundedOn(less, Nat)
  BY NatLessThanWellFounded DEF OpToRel
<1>2. PICK i \in S : \A j \in S : <<j, i>> \notin less
  <2> HIDE DEF less
  <2> QED
    BY <1>1, WFMin
<1>3. ASSUME NEW j \in S PROVE i <= j
  <2>1. i \in Nat /\ j \in Nat
    OBVIOUS
  <2>2. ~(j < i)
    BY <1>2, <2>1
  <2> QED
    BY <2>1, <2>2
<1> QED
  BY <1>3

(* The search of handle_interrupt ends with a line or one past the last. *)
LEMMA IrqCodeType == \A c \in CsrFile : IrqCode(c) \in 0 .. NIRQ
<1> SUFFICES ASSUME NEW c \in CsrFile PROVE IrqCode(c) \in 0 .. NIRQ
  OBVIOUS
<1> DEFINE lines == Pending(c) \intersect (0 .. NIRQ - 1)
<1>1. NIRQ \in Nat
  BY MachineAssumption
<1>2. CASE lines = {}
  BY <1>1, <1>2 DEF IrqCode
<1>3. CASE lines # {}
  <2>1. lines \subseteq Nat
    BY <1>1
  <2>2. \E i \in lines : \A j \in lines : i <= j
    <3> HIDE DEF lines
    <3> QED
      BY <1>3, <2>1, LeastOf
  <2> QED
    BY <1>1, <1>3, <2>2 DEF IrqCode
<1> QED
  BY <1>2, <1>3

(* STATUS of a handler, and after IRET. *)
LEMMA StatusType == \A w : EnterStatus(w) \in Word /\ LeaveStatus(w) \in Word
  BY NumType, BitsType, LineBits DEF EnterStatus, LeaveStatus

(* The CSRs a handler is entered with. *)
LEMMA EnterHandlerType ==
  \A code : \A c \in CsrFile, fl \in Flags, epc \in Word :
    EnterHandler(c, fl, epc, code) \in CsrFile
<1> SUFFICES ASSUME NEW code, NEW c \in CsrFile, NEW fl \in Flags, NEW epc \in Word
             PROVE  EnterHandler(c, fl, epc, code) \in CsrFile
  OBVIOUS
<1>1. Num({INTERRUPT} \union BitsOf(code)) \in Word
  BY NumType, BitsType, LineBits
<1>2. Num(FlagBits(fl)) \in Word
  BY NumType, FlagBitsType
<1> QED
  BY <1>1, <1>2, StatusType DEF EnterHandler, CsrFile

(* The frame's place below SP. *)
LEMMA FrameType ==
  /\ FrameSize \in Nat
  /\ \A c \in CsrFile : FrameTop(c) \in Word /\ WithFrame(c) \in CsrFile
<1>1. FrameSize \in Nat
  BY MachineAssumption DEF FrameSize
<1>2. \A c \in CsrFile : c.SP \in Word
  BY DEF CsrFile, Csr
<1>3. \A c \in CsrFile : FrameTop(c) \in Word
  BY <1>1, <1>2, PlusWord DEF FrameTop
<1> QED
  BY <1>1, <1>3 DEF WithFrame, CsrFile

(* Entries of the vector table are found at words. *)
LEMMA VectorType == \A c \in CsrFile, code \in Int : Vector(c, code) \in Word
<1>1. \A c \in CsrFile : c.IVTBR \in Word
  BY DEF CsrFile, Csr
<1> QED
  BY <1>1, PlusWord DEF Vector

(* Saving a frame leaves memory. *)
LEMMA SaveType ==
  \A m \in Memory, sp \in Word, regs \in RegFile : SaveRegisters(m, sp, regs) \in Memory
<1> SUFFICES ASSUME NEW m \in Memory, NEW sp \in Word, NEW regs \in RegFile
             PROVE  SaveRegisters(m, sp, regs) \in Memory
  OBVIOUS
<1> DEFINE below(a) == Minus(sp, a)
           data == [a \in Addr |-> IF below(a) \in 1 .. FrameSize THEN regs[NREG - below(a)]
                                   ELSE m.data[a]]
<1>1. \A a \in Addr : below(a) \in 1 .. FrameSize => NREG - below(a) \in Reg
  BY MachineAssumption DEF Reg, FrameSize
<1>2. data \in [Addr -> Word]
  BY <1>1 DEF RegFile, Memory
<1>3. SaveRegisters(m, sp, regs) = [m EXCEPT !.data = data]
  BY DEF SaveRegisters, Memory
<1> QED
  BY <1>2, <1>3 DEF Memory

(* Restoring one leaves a register file. *)
LEMMA RestoredType ==
  \A m \in Memory, sp \in Word, regs \in RegFile : RestoredRegisters(m, sp, regs) \in RegFile
<1> SUFFICES ASSUME NEW m \in Memory, NEW sp \in Word, NEW regs \in RegFile
             PROVE  RestoredRegisters(m, sp, regs) \in RegFile
  OBVIOUS
<1>1. \A r \in Reg : Plus(sp, r - 1) \in Word
  BY PlusWord, MachineAssumption DEF Reg
<1> QED
  BY <1>1, DirectType DEF RestoredRegisters, RegFile

(* Every word decodes to an instruction. *)
LEMMA DecodeType == \A w \in Word : Decode[w] \in Instruction
  BY MachineAssumption

(* Words below a word, counted from further down and from it.              *)
LEMMA BelowUp == \A w \in Word, n, k \in Int : Plus(Minus(w, n), k) = Minus(w, n - k)
<1> SUFFICES ASSUME NEW w \in Word, NEW n \in Int, NEW k \in Int
             PROVE  Plus(Minus(w, n), k) = Minus(w, n - k)
  OBVIOUS
<1>1. w \in Int /\ w - n \in Int
  BY WordInt
<1>2. (k + ((w - n) % WORDS)) % WORDS = (k + (w - n)) % WORDS
  BY <1>1, WrapInside
<1>3. (w - n) % WORDS \in Int
  BY <1>1, Division, WordInt
<1>4. ((w - n) % WORDS) + k = k + ((w - n) % WORDS)
  BY <1>3
<1>5. k + (w - n) = w - (n - k)
  BY <1>1
<1> QED
  BY <1>2, <1>4, <1>5 DEF Plus, Minus, Wrap

(* A distance below a word, found again. *)
LEMMA BelowBack == \A w, j \in Word : Minus(w, Minus(w, j)) = j
<1> SUFFICES ASSUME NEW w \in Word, NEW j \in Word PROVE Minus(w, Minus(w, j)) = j
  OBVIOUS
<1> DEFINE a == (w - j) % WORDS
           q == (w - j) \div WORDS
           x == (w - a) % WORDS
           u == (w - a) \div WORDS
<1>1. w \in Int /\ j \in Int /\ w - j \in Int /\ WORDS \in Int
  BY WordInt, WordCount
<1>2. a \in Word /\ q \in Int /\ w - j = WORDS * q + a
  BY <1>1, Division, Zenon
<1> HIDE DEF a, q
<1>3. a \in Int /\ w - a \in Int
  BY <1>1, <1>2, WordInt
<1>4. x \in Word /\ u \in Int /\ w - a = WORDS * u + x
  BY <1>3, Division, Zenon
<1> HIDE DEF x, u
<1>5. u - q \in Int /\ WORDS * (u - q) = j - x
  BY <1>1, <1>2, <1>3, <1>4, WordInt
<1>6. x = j
  BY <1>4, <1>5, SameWord
<1> QED
  BY <1>6 DEF Minus, Wrap, x, a

(* What IRET reads from a frame is what was saved there. *)
LEMMA SavedAndRestored ==
  ASSUME NEW m \in Memory, NEW sp \in Word, NEW regs \in RegFile, NEW old \in RegFile,
         \A i \in 1 .. FrameSize : Minus(sp, i) \in Addr, regs[0] = 0, old[0] = 0
  PROVE  RestoredRegisters(SaveRegisters(m, sp, regs), Minus(sp, FrameSize), old) = regs
<1> DEFINE s == SaveRegisters(m, sp, regs)
           at(r) == Plus(Minus(sp, FrameSize), r - 1)
<1>1. NREG \in Nat /\ NREG > 1 /\ NREG <= WORDS /\ FrameSize = NREG - 1 /\ WORDS \in Nat
  BY MachineAssumption, WordCount DEF FrameSize
<1>2. s.data = [a \in Addr |-> IF Minus(sp, a) \in 1 .. FrameSize THEN regs[NREG - Minus(sp, a)]
                               ELSE m.data[a]]
  BY DEF SaveRegisters, Memory
<1> HIDE DEF s
<1>3. ASSUME NEW r \in Reg, r # 0 PROVE read_u32_direct(s, at(r)) = regs[r]
  <2>1. r \in 1 .. NREG - 1 /\ NREG - r \in 1 .. FrameSize /\ NREG - r \in Word
    BY <1>1, <1>3 DEF Reg, Word
  <2>2. FrameSize - (r - 1) = NREG - r /\ FrameSize \in Int /\ r - 1 \in Int
    BY <1>1, <2>1
  <2>3. at(r) = Minus(sp, NREG - r)
    BY <2>2, BelowUp
  <2>4. at(r) \in Addr
    BY <2>1, <2>3
  <2>5. Minus(sp, at(r)) = NREG - r
    BY <2>1, <2>3, BelowBack
  <2>6. NREG - (NREG - r) = r
    BY <1>1, <2>1
  <2> HIDE DEF at
  <2>7. s.data[at(r)] = regs[r]
    BY <1>2, <2>1, <2>4, <2>5, <2>6
  <2> QED
    BY <2>4, <2>7 DEF read_u32_direct
<1>4. RestoredRegisters(s, Minus(sp, FrameSize), old) = [r \in Reg |-> regs[r]]
  BY <1>3 DEF RestoredRegisters
<1>5. regs = [r \in Reg |-> regs[r]]
  BY DEF RegFile
<1> QED
  BY <1>4, <1>5 DEF s

(* STATUS in a handler and after it. *)
LEMMA StatusBits ==
  \A w : /\ MODE \in BitsOf(EnterStatus(w)) /\ IE \notin BitsOf(EnterStatus(w))
         /\ MODE \notin BitsOf(LeaveStatus(w))
<1> SUFFICES ASSUME NEW w
             PROVE  /\ MODE \in BitsOf(EnterStatus(w)) /\ IE \notin BitsOf(EnterStatus(w))
                    /\ MODE \notin BitsOf(LeaveStatus(w))
  OBVIOUS
<1> DEFINE s == BitsOf(w)
           e == (s \ {IE, PIE}) \union {MODE} \union (IF IE \in s THEN {PIE} ELSE {})
           l == (s \ {MODE}) \union (IF PIE \in s THEN {IE} ELSE {})
<1>1. e \in SUBSET Bit /\ l \in SUBSET Bit
  BY BitsType, LineBits
<1>2. BitsOf(Num(e)) = e /\ BitsOf(Num(l)) = l
  BY <1>1, NumType
<1>3. EnterStatus(w) = Num(e) /\ LeaveStatus(w) = Num(l)
  BY DEF EnterStatus, LeaveStatus
<1>4. MODE \in e /\ IE \notin e /\ MODE \notin l
  BY DEF IE, PIE, MODE
<1> QED
  BY <1>2, <1>3, <1>4

(* No bit of zero is set. *)
LEMMA ZeroBits == BitsOf(0) = {}
<1>1. ASSUME NEW q \in Int, q > 0 PROVE 0 \div q = 0
  BY <1>1
<1>2. \A i \in Bit : 2^i \in Int /\ 2^i > 0
  BY WidthAssumption
<1>3. \A i \in Bit : 0 \div 2^i = 0
  BY <1>1, <1>2, Zenon
<1>4. 0 % 2 = 0
  OBVIOUS
<1> QED
  <2> DEFINE d(i) == 0 \div 2^i
  <2>1. BitsOf(0) = {i \in Bit : d(i) % 2 = 1}
    BY Zenon DEF BitsOf
  <2>2. \A i \in Bit : d(i) = 0
    BY <1>3
  <2> HIDE DEF d
  <2> QED
    BY <1>4, <2>1, <2>2
=============================================================================
