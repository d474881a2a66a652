--------------------------- MODULE CpuDocumented ---------------------------
(***************************************************************************)
(* What README.md of the repository says of the processor, stated as       *)
(* properties of the model.                                                *)
(***************************************************************************)
EXTENDS CpuSystem

(* The write history holds what memory holds: a load answered from it      *)
(* reads the value last written (README.md:380-382, the mem_history loops  *)
(* of wb_stage).  The output and keyboard ports are not memory.            *)
HistoryCoherent ==
  \A a \in Addr \ (MmioPort \union {KBD_DATA, KBD_STATUS}) :
    Hits(a) # {} => mem_history[Hit(a)].data = mem.data[a]

(* A division by zero and an opcode that is none are exceptions, handled   *)
(* like interrupts: the handler is entered, with INTERRUPT 0 and the code  *)
(* of the exception in CAUSE (README.md:192-197, 629-633, enum Exception   *)
(* of csr.hpp).  The code goes on to the next instruction: the DIV case of *)
(* ex_stage takes 0 for the quotient, its default case does nothing.       *)
INVALID_OPCODE   == 0
DIVISION_BY_ZERO == 1

ExceptionStep ==
  /\ Executed({"INVALID"}) =>
       MODE \in BitsOf(csr'.STATUS) /\ csr'.CAUSE = INVALID_OPCODE
  /\ Executed({"DIV"}) /\ AluRight = 0 =>
       MODE \in BitsOf(csr'.STATUS) /\ csr'.CAUSE = DIVISION_BY_ZERO

ExceptionsEnterHandlers == [][ExceptionStep]_vars
=============================================================================
