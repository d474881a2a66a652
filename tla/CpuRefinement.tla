--------------------------- MODULE CpuRefinement ---------------------------
(***************************************************************************)
(* The pipelined processor implements the one-instruction-at-a-time        *)
(* machine.  An instruction counts as executed when ex_stage has executed  *)
(* it; what its write back is still to do is added to the machine's state, *)
(* and the program is at the oldest instruction not yet executed.  A load  *)
(* of a keyboard port is the exception: its write back takes the answer of *)
(* the keyboard, and that is when it counts as executed.                   *)
(***************************************************************************)
EXTENDS CpuInvariants

(* The instruction that has been executed and not written back. *)
InFlight ==
  IF stage \in {"host", "loop", "timer", "wb"} THEN exwb
  ELSE IF stage \in {"id", "if", "clock"} THEN next_exwb
  ELSE ZeroExWb

KeyLoadInFlight ==
  InFlight.is_valid /\ LoadFromMemory(InFlight) /\ InFlight.mem_addr \in {KBD_DATA, KBD_STATUS}

Completed(after, before) ==
  IF InFlight.is_valid /\ ~KeyLoadInFlight THEN after ELSE before

(* The number of the next instruction of the program. *)
Place == IF KeyLoadInFlight THEN Minus(ArchPc, 1) ELSE ArchPc

IsaRegisters == Completed(RegsAfter(InFlight), registers)
IsaMem       == Completed(MemAfter(InFlight), mem)
IsaFlags     == Completed(FlagsAfter(InFlight), f)
IsaHalted    == Completed(HaltedAfter(InFlight), halted)

Sequential == INSTANCE Isa WITH
  registers <- IsaRegisters, mem <- IsaMem, f <- IsaFlags, halted <- IsaHalted,
  pc <- Place, Keys <- Key

(* Every behaviour of the pipeline is a behaviour of the sequential        *)
(* machine: forwarding, the flag bypass, the write history, prediction,    *)
(* flushes, interrupts and halts together show a program nothing but its   *)
(* instructions one after another.  It holds for the programs that module  *)
(* CpuDiscipline describes; see the README for those for which the code    *)
(* breaks it.                                                              *)
ImplementsIsa == Sequential!Spec
=============================================================================
