------------------------------ MODULE CpuKeys ------------------------------
(***************************************************************************)
(* Which handlers read every key.  The keyboard has one interrupt line and *)
(* a queue: keys that arrive while the line is pending leave nothing but   *)
(* the queue behind, and accepting the interrupt clears the line however   *)
(* many keys wait.  From then on the handler owes the keyboard a read of   *)
(* the status port that says that no key is left.  A history variable      *)
(* remembers it; the processor does not depend on it.                      *)
(***************************************************************************)
EXTENDS CpuSystem

VARIABLE owed          \* EXT0 was accepted, and the status not yet seen to be 0

key_vars == <<vars, owed>>

(* handle_interrupt takes the keyboard's line. *)
AcceptsKeys == (Accepting \/ HandleInterrupt) /\ IrqCode(csr) = EXT0

(* wb_stage gives a program the status of the keyboard, and it is 0. *)
SeesNoKey ==
  /\ stage = "wb" /\ exwb.is_valid
  /\ LoadFromMemory(exwb) /\ exwb.mem_addr = KBD_STATUS
  /\ LoadValue(exwb) = 0

Remembers == owed' = (AcceptsKeys \/ (owed /\ ~SeesNoKey))

KeyInit  == Init /\ owed = FALSE
KeyNext  == Next /\ Remembers
KeySpec  == KeyInit /\ [][KeyNext]_key_vars
FairKeySpec == KeySpec /\ WF_vars(Thread)

---------------------------------------------------------------------------
(* The word that CSRW and CSRWI write. *)
CsrOperand == IF idex.d.opcode = "CSRW" THEN rs1_val ELSE idex.d.imm

WritesCsr(c) == Executed({"CSRW", "CSRWI"}) /\ idex.d.csr = c

LeavesHandler ==
  \/ Executed({"IRET"})
  \/ WritesCsr("STATUS") /\ MODE \notin BitsOf(CsrOperand)

(* What handlers have to keep to: one that was entered for the keyboard    *)
(* reads the status until it is 0 before it returns, and a program does    *)
(* not clear the keyboard's line, unless it is going to read the status.   *)
KeysServed ==
  /\ LeavesHandler => ~owed
  /\ WritesCsr("IPENDING") /\ EXT0 \in BitsOf(csr.IPENDING) =>
       owed \/ EXT0 \in BitsOf(CsrOperand)

(* set_irq can clear the line, reset() clears it and keeps the queue, and  *)
(* get_memory() lets the host push keys that nothing announces.            *)
KeyHost == HOST \intersect {"set_irq", "reset", "get_memory"} = {}

(* The inductive invariant behind KeysAnnounced: keys that wait are        *)
(* announced by the line or owed to the keyboard by a handler that is      *)
(* running.  A key that comes after the status was seen to be 0, before    *)
(* the handler returns, raises the line again.                             *)
KeysOwed ==
  /\ owed => InHandler
  /\ mem.keyboard_buffer # << >> => owed \/ EXT0 \in BitsOf(csr.IPENDING)
=============================================================================
