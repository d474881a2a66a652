-------------------------------- MODULE Alu --------------------------------
(***************************************************************************)
(* Machine words, the arithmetic of the execute stage and the flags it     *)
(* leaves (src/cpu.cpp: the arithmetic cases of ex_stage, update_flags_*,  *)
(* the condition test of BJMP).                                            *)
(*                                                                         *)
(* A word is the unsigned number a u32 holds.  The width is a parameter    *)
(* (DATA_WIDTH, 32 in include/types.hpp) so that a small instance can be   *)
(* enumerated; every operation wraps modulo 2^WIDTH as u32 arithmetic does.*)
(***************************************************************************)
EXTENDS Integers

CONSTANT WIDTH          \* bits of a word, DATA_WIDTH in include/types.hpp

WORDS == 2^WIDTH        \* number of words
HALF  == 2^(WIDTH - 1)  \* the sign bit, 0x80000000
Word  == 0 .. WORDS - 1
Bit   == 0 .. WIDTH - 1

(* The positions of the bits that are set in a word, and back. *)
BitsOf(w) == {i \in Bit : (w \div 2^i) % 2 = 1}
Num(S)    == CHOOSE w \in Word : BitsOf(w) = S

(* The width is large enough for the four flags, and binary notation is    *)
(* what it is: every set of bit positions is the expansion of a word.      *)
ASSUME WidthAssumption ==
  /\ WIDTH \in Nat /\ WIDTH >= 4
  /\ HALF \in Nat /\ HALF > 1 /\ WORDS = 2 * HALF
  /\ \A i \in Bit : 2^i \in Nat /\ 2^i > 0
ASSUME BinaryAssumption == \A S \in SUBSET Bit : \E w \in Word : BitsOf(w) = S

Wrap(i)     == i % WORDS                  \* conversion of an int to u32
Plus(a, b)  == Wrap(a + b)
Minus(a, b) == Wrap(a - b)
Sign(w)     == w >= HALF                  \* (w & 0x80000000) != 0
Signed(w)   == IF Sign(w) THEN w - WORDS ELSE w   \* (int32_t) w

---------------------------------------------------------------------------
(* Flags *)

Flags   == [zf : BOOLEAN, sf : BOOLEAN, cf : BOOLEAN, of : BOOLEAN]
NoFlags == [zf |-> FALSE, sf |-> FALSE, cf |-> FALSE, of |-> FALSE]

update_flags_add(result, op1, op2) ==
  [zf |-> result = 0, sf |-> Sign(result), cf |-> result < op1,
   of |-> Sign(op1) = Sign(op2) /\ Sign(op1) # Sign(result)]

(* Faulty variant: overflow is tested as it is for ADD. *)
update_flags_sub_AddOverflow(result, op1, op2) ==
  [zf |-> result = 0, sf |-> Sign(result), cf |-> op1 < op2,
   of |-> Sign(op1) = Sign(op2) /\ Sign(op1) # Sign(result)]

update_flags_sub(result, op1, op2) ==
  [zf |-> result = 0, sf |-> Sign(result), cf |-> op1 < op2,
   of |-> Sign(op1) # Sign(op2) /\ Sign(op1) # Sign(result)]

update_flags_logic(result) ==
  [zf |-> result = 0, sf |-> Sign(result), cf |-> FALSE, of |-> FALSE]

update_flags_shift(result) ==
  [zf |-> result = 0, sf |-> Sign(result), cf |-> FALSE, of |-> FALSE]

(* The bit positions ex_stage and handle_interrupt give the flags in       *)
(* EFLAGS, and the flags IRET takes back from there.                       *)
FlagBits(f) == {i \in 0 .. 3 : \/ i = 0 /\ f.zf
                               \/ i = 1 /\ f.sf
                               \/ i = 2 /\ f.cf
                               \/ i = 3 /\ f.of}
BitFlags(S) == [zf |-> 0 \in S, sf |-> 1 \in S, cf |-> 2 \in S, of |-> 3 \in S]

---------------------------------------------------------------------------
(* Operations *)

LogicOp == {"AND", "OR", "XOR"}
ShiftOp == {"SHL", "SHR", "SAR"}
AluOp   == {"ADD", "SUB", "MUL", "DIV"} \union LogicOp \union ShiftOp
Cond    == {"EQ", "NE", "LT", "LE", "GT", "GE", "CS", "CC"}

Shift(b) == b % WIDTH                     \* b & 0x1F

(* C++ division truncates towards zero. *)
Quotient(a, b) ==
  LET Abs(i) == IF i < 0 THEN -i ELSE i
      q      == Abs(a) \div Abs(b)
  IN  IF (a < 0) = (b < 0) THEN q ELSE -q

(* INT_MIN / -1 is undefined: the host division instruction may trap.      *)
DivOverflow(op, a, b) == op = "DIV" /\ Signed(a) = -HALF /\ Signed(b) = -1

AluResult(op, a, b) ==
  CASE op = "ADD" -> Plus(a, b)
    [] op = "SUB" -> Minus(a, b)
    [] op = "AND" -> Num(BitsOf(a) \intersect BitsOf(b))
    [] op = "OR"  -> Num(BitsOf(a) \union BitsOf(b))
    [] op = "XOR" -> Num((BitsOf(a) \union BitsOf(b)) \ (BitsOf(a) \intersect BitsOf(b)))
    [] op = "SHL" -> Wrap(a * 2^Shift(b))
    [] op = "SHR" -> Wrap(a \div 2^Shift(b))
    [] op = "SAR" -> Wrap(Signed(a) \div 2^Shift(b))
    [] op = "MUL" -> Wrap(Signed(a) * Signed(b))
    [] OTHER      -> IF b = 0 THEN 0 ELSE Wrap(Quotient(Signed(a), Signed(b)))

AluFlags(op, result, a, b) ==
  CASE op = "ADD"         -> update_flags_add(result, a, b)
    [] op = "SUB"         -> update_flags_sub(result, a, b)
    [] op \in ShiftOp     -> update_flags_shift(result)
    [] OTHER              -> update_flags_logic(result)

(* Whether BJMP takes its branch. *)
Taken(cond, f) ==
  \/ cond = "EQ" /\ f.zf
  \/ cond = "NE" /\ ~f.zf
  \/ cond = "LT" /\ f.sf # f.of
  \/ cond = "LE" /\ (f.zf \/ f.sf # f.of)
  \/ cond = "GT" /\ ~f.zf /\ f.sf = f.of
  \/ cond = "GE" /\ f.sf = f.of
  \/ cond = "CS" /\ f.cf
  \/ cond = "CC" /\ ~f.cf

(* What the flags of an instruction say of the numbers it worked on, and   *)
(* not of the bits: the conditions of BJMP are the comparisons they are    *)
(* named for, signed, and CS is the unsigned one; after an addition CF is  *)
(* the carry and OF says that the signed sum does not fit.                 *)
Compares(fl, a, b) ==
  /\ Taken("EQ", fl) <=> a = b
  /\ Taken("NE", fl) <=> a # b
  /\ Taken("LT", fl) <=> Signed(a) < Signed(b)
  /\ Taken("LE", fl) <=> Signed(a) <= Signed(b)
  /\ Taken("GT", fl) <=> Signed(a) > Signed(b)
  /\ Taken("GE", fl) <=> Signed(a) >= Signed(b)
  /\ Taken("CS", fl) <=> a < b
  /\ Taken("CC", fl) <=> a >= b

Overflows(fl, a, b) ==
  /\ fl.zf <=> (a + b) \in {0, WORDS}
  /\ fl.cf <=> a + b >= WORDS
  /\ fl.of <=> Signed(a) + Signed(b) \notin -HALF .. HALF - 1
=============================================================================
