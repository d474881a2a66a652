------------------------------ MODULE MCBytes ------------------------------
(***************************************************************************)
(* 16 bytes of memory in 36 addresses: an unaligned word at 1 and the last *)
(* word, bytes at the start and at the end of a word, an output port, and  *)
(* stack slots that overlap each other or reach out of the array.          *)
(***************************************************************************)
EXTENDS BytesAsWords

SomeWords == {[i \in 0 .. 3 |-> IF i = 0 THEN 1 ELSE 2], [i \in 0 .. 3 |-> IF i = 1 THEN 0 ELSE 3]}
SomeEntry == {[valid |-> TRUE, addr |-> 12, data |-> [i \in 0 .. 3 |-> 1]]}
=============================================================================
