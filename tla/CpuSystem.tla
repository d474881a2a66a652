----------------------------- MODULE CpuSystem -----------------------------
(***************************************************************************)
(* The processor together with the programs and handlers that run on it:   *)
(* what interrupts do to the program they interrupt, and what the run loop *)
(* and the handlers are certain to reach.  These are promises to software, *)
(* so they are stated for the programs of a configuration.                 *)
(***************************************************************************)
EXTENDS CpuRefinement

InHandler == MODE \in BitsOf(csr.STATUS)

(* The program outside the handlers, as it is or as it will be resumed.    *)
UserProgram ==
  IF InHandler
    THEN [registers |-> RestoredRegisters(mem, csr.SCRATCH, ZeroRegisters),
          f         |-> BitFlags(BitsOf(csr.EFLAGS)),
          sp        |-> Plus(csr.SCRATCH, FrameSize),
          pc        |-> csr.EPC]
    ELSE [registers |-> IsaRegisters,
          f         |-> IsaFlags,
          sp        |-> csr.SP,
          pc        |-> Place]

(* An interrupted program cannot tell: from the moment an interrupt is     *)
(* accepted, through every step of its handler, to the end of IRET, the    *)
(* registers, flags, stack pointer and place of the program are as they    *)
(* were, whatever was in the pipeline; and SYSCALL only moves it past the  *)
(* SYSCALL.  A TRAP, which saves no registers, keeps the place and the     *)
(* flags (handle_interrupt, the SYSCALL, TRAP and IRET cases of ex_stage). *)
(* It is a promise to handlers that leave the saved state alone.           *)
TransparentStep ==
  /\ InHandler \/ Accepting => UserProgram' = UserProgram
  /\ ~InHandler /\ Executing /\ idex.d.opcode = "SYSCALL" =>
       UserProgram' = [UserProgram EXCEPT !.pc = Plus(@, 1)]
  /\ ~InHandler /\ Executing /\ idex.d.opcode = "TRAP" =>
       UserProgram'.pc = Plus(UserProgram.pc, 1) /\ UserProgram'.f = UserProgram.f

HandlersTransparent == [][TransparentStep]_vars

Executed(ops) == stage = "ex" /\ idex.is_valid /\ idex.d.opcode \in ops

(* Where the registers of the interrupted program are saved, and whether   *)
(* memory has room for a frame below the stack pointer.                    *)
SavedFrame  == {Plus(csr.SCRATCH, i) : i \in 0 .. FrameSize - 1}
FrameFits   == \A i \in 1 .. FrameSize : Minus(csr.SP, i) \in Addr

(* What handlers and programs have to keep to for that: a handler lets     *)
(* alone the frame and the registers that IRET reads, and a program the    *)
(* mode bit, and its stack has room for the frame.  There is one return    *)
(* address and one frame address, so a handler makes no system calls; and  *)
(* PUSH stores a second time wherever an earlier store did.                *)
HandlersBehave ==
  /\ InHandler =>
       /\ ~Executed({"SYSCALL", "TRAP", "PUSH"})
       /\ Executed({"STOREW", "STOREB"}) => DataAddr \notin SavedFrame
       /\ Executed({"CALL", "CALLR"})    => PushSp \notin SavedFrame
       /\ Executed({"CSRW", "CSRWI"})    =>
            idex.d.csr \notin {"EPC", "EFLAGS", "SCRATCH", "STATUS"}
  /\ ~InHandler =>
       /\ Accepting \/ Executed({"SYSCALL"}) => FrameFits
       /\ Executed({"CSRW", "CSRWI"}) /\ idex.d.csr = "STATUS" =>
            MODE \notin BitsOf(IF idex.d.opcode = "CSRW" THEN rs1_val ELSE idex.d.imm)

(* The inductive invariant behind it: handlers run with interrupts         *)
(* disabled, no store on its way to memory is aimed at the saved frame,    *)
(* only stores are on their way there, and r0, which no frame holds, is    *)
(* zero.                                                                   *)
MarksStores(r) == r.is_valid /\ r.mem_write => r.d.opcode \in WritesMem

FramesKept ==
  /\ InHandler => IE \notin BitsOf(csr.STATUS)
  /\ InHandler /\ InFlight.is_valid /\ InFlight.mem_write =>
       InFlight.mem_addr \notin SavedFrame
  /\ stage \in BeforeEx => MarksStores(idex)
  /\ stage \in {"if", "clock"} => MarksStores(next_idex)
  /\ registers[0] = 0

(* An interrupt that was raised stays pending until its handler is         *)
(* entered, whatever else is raised, accepted, saved and restored in the   *)
(* meantime: neither the timer, a key nor another interrupt takes a line   *)
(* away; only the program and the host can (handle_interrupt,              *)
(* update_timer, trigger_interrupt, the CSR cases of ex_stage, set_irq).   *)
LinesStep ==
  \A line \in BitsOf(csr.IPENDING) \ BitsOf(csr'.IPENDING) :
    \/ (Accepting \/ HandleInterrupt) /\ line = IrqCode(csr) /\ pc' = HandlerAddr(line)
    \/ Executed({"CSRW", "CSRWI"}) /\ idex.d.csr = "IPENDING"
    \/ stage = "host" /\ HOST \intersect {"set_irq", "reset"} # {}

LinesKept == [][LinesStep]_vars

(* A timer interrupt that is due is accepted while run() goes on: a        *)
(* handler that is running, the system call it comes in, and the disabled  *)
(* interrupts of either only delay it, and so do a debugger that stops     *)
(* the program and keys that the keyboard's handler has still to read      *)
(* (update_timer, handle_interrupt, IRET's PIE to IE).                     *)
TimerServed ==
  in_run /\ TIMER \in Pending(csr)
    ~> \/ ~in_run \/ TIMER \notin BitsOf(csr.IPENDING)
       \/ EXT0 \in BitsOf(csr.IMASK) /\ mem.keyboard_buffer # << >>

(* Outside the handlers a key in the queue is announced by EXT0, although  *)
(* keys that arrive while EXT0 is pending leave no trace of their own: a   *)
(* handler that reads until the status port says empty misses no key       *)
(* (push_key, handle_interrupt, the keyboard ports of read_u32).           *)
KeysAnnounced == ~InHandler /\ mem.keyboard_buffer # << >> => EXT0 \in BitsOf(csr.IPENDING)

(* And a queue that is full is read from while run() goes on, however late *)
(* in a step or in a handler the keys came, and whatever the timer does.   *)
KeysConsumed ==
  in_run /\ EXT0 \in BitsOf(csr.IMASK) /\ Len(mem.keyboard_buffer) = MAX_KEYS
    ~> ~in_run \/ Len(mem.keyboard_buffer) < MAX_KEYS

=============================================================================
