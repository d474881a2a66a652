--------------------------- MODULE CpuDiscipline ---------------------------
(***************************************************************************)
(* The programs for which the pipeline shows nothing of itself, whatever   *)
(* they compute: those that keep code, words, bytes and the stack in       *)
(* memory of their own and do not use PUSH.  The write history is searched *)
(* by address alone and filled by stores alone, so a program that stores a *)
(* byte over a word, or a word into the stack, reads a stale value later;  *)
(* and nothing tells the pipeline that code in it has been overwritten.    *)
(***************************************************************************)
EXTENDS CpuDocumented

CONSTANTS
  Code,      \* where the program executes instructions
  Words,     \* what STOREW stores to, besides what is not memory
  Bytes,     \* what STOREB stores to
  Stack      \* what calls and handlers push to

KbdPort == {KBD_DATA, KBD_STATUS}

(* Where a store leaves nothing that a load could read. *)
Sink == MmioPort \union (Word \ Addr)

ASSUME DisciplineAssumption ==
  /\ Words \subseteq Addr \ (MmioPort \union KbdPort)
  /\ Bytes \subseteq Addr \ (MmioPort \union KbdPort)
  /\ Words \intersect Bytes = {}
  /\ Stack \intersect (Words \union Bytes) = {}
  /\ Code \intersect (Words \union Bytes \union Stack) = {}
  /\ \A p \in Program, a \in Bytes : a < Len(p) => p[a + 1] < BYTE

(* The object is built in storage without valid history entries, and the   *)
(* host only runs it, gives it interrupts, keys and timer ticks, and       *)
(* debugs it.                                                              *)
PlainHost ==
  /\ \A w \in RESIDUE : ~w.valid
  /\ HOST \intersect {"set_register", "set_flags", "load_program", "reset",
                      "handle_interrupt", "get_memory"} = {}

(* The words that the registers of an interrupted program are saved in. *)
Frame == {a \in Addr : Minus(csr.SP, a) \in 1 .. FrameSize}

(* What every instruction executed keeps to. *)
Disciplined ==
  /\ ~Executed({"PUSH"})
  /\ Executed(Opcode)            => idex.curr_pc \in Code
  /\ Executed({"STOREW"})        => DataAddr \in Words \union Sink
  /\ Executed({"STOREB"})        => DataAddr \in Bytes
  /\ Executed({"LOADW"}) /\ DataAddr \in Sink => Hits(DataAddr) = {}
  /\ Executed({"LOADB"}) /\ DataAddr \in Words \union Sink => Hits(DataAddr) = {}
  /\ Executed({"CALL", "CALLR"}) => PushSp \in Stack
  /\ Executed({"SYSCALL"})       => Frame \subseteq Stack
  /\ stage = "int" /\ Accepts(csr) => Frame \subseteq Stack

---------------------------------------------------------------------------
(* The inductive invariant *)

(* The write history records words and bytes only, and a word of bytes     *)
(* holds nothing but its byte.                                             *)
EntriesApart ==
  /\ \A i \in Slot : mem_history[i].valid =>
       mem_history[i].addr \in Words \union Bytes \union Sink
  /\ \A a \in Bytes : mem.data[a] < BYTE

(* So does the store that waits for its write back. *)
StoreApart ==
  InFlight.is_valid /\ InFlight.mem_write =>
    IF InFlight.mem_u8 THEN InFlight.mem_addr \in Bytes /\ InFlight.w_data < BYTE
    ELSE InFlight.mem_addr \in Words \union Sink

(* The instructions in the pipeline are those in memory. *)
InMemory(r)    == r.curr_pc \in Code => r.inst = read_u32_direct(mem, r.curr_pc)
DecodedFrom(r) ==
  /\ r.curr_pc \in Code => r.d = Decode[read_u32_direct(mem, r.curr_pc)]
  /\ r.reg_write = (r.d.opcode \in WritesReg)
  /\ r.mem_read  = (r.d.opcode \in ReadsMem)
  /\ r.mem_write = (r.d.opcode \in WritesMem)

CodeKept ==
  /\ stage \in BeforeEx \union {"id"} /\ ifid.is_valid => InMemory(ifid)
  /\ stage = "clock" /\ ~need_flush_ifid => InMemory(next_ifid)
  /\ stage \in BeforeEx /\ idex.is_valid => DecodedFrom(idex)
  /\ stage \in {"if", "clock"} /\ next_idex.is_valid => DecodedFrom(next_idex)

(* A load of a keyboard port that waits for its write back is at Place. *)
KeyLoadWaits ==
  KeyLoadInFlight =>
    LET d == Decode[read_u32_direct(mem, Place)]
    IN  /\ d.opcode = "LOADW" /\ d.rd = InFlight.n_rd
        /\ InFlight.mem_addr = Plus(ReadReg(d.rs1), d.imm)
        /\ InFlight.opcode = "LOADW" /\ ~InFlight.mem_write /\ ~InFlight.flags_write

Apart == HistoryCoherent /\ EntriesApart /\ StoreApart /\ CodeKept /\ KeyLoadWaits
=============================================================================
