----------------------------- MODULE Predictor -----------------------------
(***************************************************************************)
(* class predictor (src/predictor.cpp): a table of two-bit saturating      *)
(* counters indexed by the low bits of the instruction's number.           *)
(***************************************************************************)
EXTENDS Integers

CONSTANT TABLE_SIZE     \* 256 in include/cpu/predictor.hpp

ASSUME PredictorAssumption == TABLE_SIZE \in Nat /\ TABLE_SIZE > 0

INITIAL_STATE == 2      \* weakly taken
Counter       == 0 .. 3
Table         == [0 .. TABLE_SIZE - 1 -> Counter]
InitialTable  == [i \in 0 .. TABLE_SIZE - 1 |-> INITIAL_STATE]

get_index(pc) == pc % TABLE_SIZE

predict(table, pc) == table[get_index(pc)] >= 2

update(table, pc, actual_taken) ==
  [table EXCEPT ![get_index(pc)] =
     IF actual_taken THEN (IF @ < 3 THEN @ + 1 ELSE 3)
                     ELSE (IF @ > 0 THEN @ - 1 ELSE 0)]
=============================================================================
