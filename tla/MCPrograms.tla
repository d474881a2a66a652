---------------------------- MODULE MCPrograms -----------------------------
(***************************************************************************)
(* The programs of MCCpu that keep code, words, bytes and stack apart, and *)
(* where they keep them: instances of CpuDiscipline.                       *)
(***************************************************************************)
EXTENDS MCCpu, CpuDiscipline

(* Loads and stores of every order: r1 + 22 is 22 to 29, the byte at 19. *)
DataCode  == 0 .. 15
DataWords == 22 .. 29
DataBytes == {19}
DataStack == {}

(* Timer and keyboard: one word at 19, frames and calls below the top. *)
DeviceCode  == 0 .. 18
DeviceWords == {19}
DeviceBytes == {}
DeviceStack == 22 .. 31
=============================================================================
