------------------------------- MODULE Bytes -------------------------------
(***************************************************************************)
(* Memory as it is, an array of bytes (src/memory.cpp), and the write      *)
(* history in front of it (wb_stage and reset() in src/cpu.cpp), for any   *)
(* sequence of accesses.  Cpu has the pipeline, and addresses that count   *)
(* words; this module has what accesses do to each other: they may be      *)
(* unaligned, overlap, and leave the array.                                *)
(*                                                                         *)
(* A u32 is its four bytes, the low one first.                             *)
(***************************************************************************)
EXTENDS Integers

CONSTANTS
  MEMORY_SIZE,             \* in bytes
  ADDRESSES,               \* number of addresses (2^32)
  Byte,                    \* values of a u8
  OutPort, KeyPort,        \* addresses of the output and keyboard ports
  HIST, HIST_RESET,        \* entries of mem_history (8), those reset() clears (4)
  RESIDUE,                 \* entries the object's storage may hold
  Values,                  \* the words that are written
  StoreW, StoreB, Direct   \* addresses of STOREW, of STOREB, and of the writes
                           \* that bypass the history: CALL, PUSH, frames, host

Address == 0 .. ADDRESSES - 1
Cell    == 0 .. MEMORY_SIZE - 1
Slot    == 0 .. HIST - 1
Word    == [0 .. 3 -> Byte]

Entry   == [valid : BOOLEAN, addr : Address, data : Word]
Zero    == [i \in 0 .. 3 |-> 0]
NoWrite == [valid |-> FALSE, addr |-> 0, data |-> Zero]

ASSUME BytesAssumption ==
  /\ MEMORY_SIZE \in Nat /\ ADDRESSES \in Nat
  /\ MEMORY_SIZE >= 4 /\ MEMORY_SIZE <= ADDRESSES
  /\ 0 \in Byte
  /\ HIST \in Nat /\ HIST_RESET \in 1 .. HIST
  /\ RESIDUE \subseteq Entry /\ Values \subseteq Word
  /\ StoreW \subseteq Address /\ StoreB \subseteq Address /\ Direct \subseteq Address
  /\ OutPort \subseteq Address /\ KeyPort \subseteq Address
---------------------------------------------------------------------------
(* What a program has to keep to: the bytes it stores words to, the bytes  *)
(* it stores bytes to and the bytes of the stack, the frames and the code  *)
(* are apart, word stores are the same or apart too, and nothing is stored *)
(* across the end of the array.  Alignment is not needed.                  *)
Span(a) == a .. a + 3
Fits(a) == a <= MEMORY_SIZE - 4
MemoryW == StoreW \ OutPort

ASSUME Discipline ==
  /\ \A a, b \in MemoryW : a # b => Span(a) \intersect Span(b) = {}
  /\ \A a \in MemoryW : Fits(a) /\ Span(a) \intersect StoreB = {}
  /\ \A b \in StoreB : b < MEMORY_SIZE
  /\ \A s \in Direct : Fits(s) => /\ \A a \in MemoryW : Span(a) \intersect Span(s) = {}
                               /\ StoreB \intersect Span(s) = {}

VARIABLES
  data, mem_history,
  leftover        \* history variable: the entries a reset left, not stored to since

bytes_vars == <<data, mem_history, leftover>>
---------------------------------------------------------------------------
(* class Memory: d is the data array *)

FromByte(b) == [i \in 0 .. 3 |-> IF i = 0 THEN b ELSE 0]

read_u8_Last(d, a) == IF a < MEMORY_SIZE - 1 THEN d[a + 1] ELSE 0   \* faulty variant
read_u8(d, a)  == IF a < MEMORY_SIZE THEN d[a] ELSE 0
read_u32(d, a) == IF Fits(a) THEN [i \in 0 .. 3 |-> d[a + i]] ELSE Zero

write_u8(d, a, b) == [c \in Cell |-> IF c = a THEN b ELSE d[c]]

(* Faulty variant: the high byte comes first. *)
write_u32_direct_BigEndian(d, a, w) ==
  [c \in Cell |-> IF Fits(a) /\ c \in Span(a) THEN w[a + 3 - c] ELSE d[c]]

(* Faulty variant: only the first byte is compared with the size. *)
write_u32_direct_Cut(d, a, w) ==
  [c \in Cell |-> IF c \in Span(a) THEN w[c - a] ELSE d[c]]

write_u32_direct(d, a, w) ==
  [c \in Cell |-> IF Fits(a) /\ c \in Span(a) THEN w[c - a] ELSE d[c]]

write_u32(d, a, w) == IF a \in OutPort THEN d ELSE write_u32_direct(d, a, w)
---------------------------------------------------------------------------
(* The memory part of wb_stage *)

Hits(a)  == {i \in Slot : mem_history[i].valid /\ mem_history[i].addr = a}
First(a) == CHOOSE i \in Hits(a) : \A j \in Hits(a) : i <= j

LoadWord(a) == IF Hits(a) # {} THEN mem_history[First(a)].data ELSE read_u32(data, a)
LoadByte(a) == IF Hits(a) # {} THEN mem_history[First(a)].data ELSE FromByte(read_u8(data, a))

Recorded(a, w) ==
  IF Hits(a) # {} THEN [mem_history EXCEPT ![First(a)].data = w]
  ELSE [i \in Slot |-> IF i = 0 THEN [valid |-> TRUE, addr |-> a, data |-> w]
                                ELSE mem_history[i - 1]]

(* The leftover entries are updated and shifted with the history. *)
LeftAfter(a) ==
  IF Hits(a) # {} THEN [leftover EXCEPT ![First(a)] = FALSE]
  ELSE [i \in Slot |-> IF i = 0 THEN FALSE ELSE leftover[i - 1]]

StoreWord(a, w) ==
  /\ data' = write_u32(data, a, w) /\ mem_history' = Recorded(a, w)
  /\ leftover' = LeftAfter(a)

(* ex_stage has cut the register to a byte. *)
StoreByte(a, w) ==
  /\ data' = write_u8(data, a, w[0]) /\ mem_history' = Recorded(a, FromByte(w[0]))
  /\ leftover' = LeftAfter(a)

(* CALL and PUSH use write_u32, frames and the host its direct form. *)
DirectStore(a, w) ==
  /\ data' \in {write_u32(data, a, w), write_u32_direct(data, a, w)}
  /\ UNCHANGED <<mem_history, leftover>>

Cleared == [i \in Slot |-> IF i < HIST_RESET THEN NoWrite ELSE mem_history[i]]

Reset ==
  /\ data' = [c \in Cell |-> 0] /\ mem_history' = Cleared
  /\ leftover' = [i \in Slot |-> Cleared[i].valid]

(* The constructor runs reset() in storage that holds anything. *)
Init ==
  /\ data = [c \in Cell |-> 0]
  /\ mem_history \in {h \in [Slot -> RESIDUE \union {NoWrite}] :
                        \A i \in Slot : i < HIST_RESET => h[i] = NoWrite}
  /\ leftover = [i \in Slot |-> mem_history[i].valid]

Next ==
  \/ \E a \in StoreW, w \in Values : StoreWord(a, w)
  \/ \E a \in StoreB, w \in Values : StoreByte(a, w)
  \/ \E a \in Direct, w \in Values : DirectStore(a, w)
  \/ Reset

Spec == Init /\ [][Next]_bytes_vars
---------------------------------------------------------------------------
(* Every cell is a byte, every entry of the history an address and a word  *)
(* (class Memory, MemWrite).                                               *)
TypeOK ==
  /\ data \in [Cell -> Byte]
  /\ mem_history \in [Slot -> Entry]
  /\ leftover \in [Slot -> BOOLEAN]

(* A load can rely on memory, and on an entry stored to since the last     *)
(* reset and the constructor, which leave some as they were.               *)
Trusted(a) == Hits(a) = {} \/ ~leftover[First(a)]

(* The inductive form: every entry stored to since then is of a port or    *)
(* holds what memory holds at its address, in the width it was stored in,  *)
(* and is the first of its address (Recorded and the writes beside it in   *)
(* wb_stage).                                                              *)
Agrees(d, e) ==
  \/ e.addr \in OutPort
  \/ e.addr \in MemoryW /\ e.data = read_u32(d, e.addr)
  \/ e.addr \in StoreB \ StoreW /\ e.data = FromByte(read_u8(d, e.addr))
Coherent ==
  \A i \in Slot : mem_history[i].valid /\ ~leftover[i] =>
    /\ Agrees(data, mem_history[i])
    /\ \A j \in Hits(mem_history[i].addr) : i <= j

(* Under that discipline a load gives what memory holds, aligned or not,   *)
(* in the array or not, however many stores, stack writes and resets came  *)
(* before, unless what answers it is an entry that a reset did not clear   *)
(* and nothing was stored to since (the mem_history loops of wb_stage;     *)
(* write_u32 and its direct form).                                         *)
LoadsReadMemory ==
  \A a \in Address \ (OutPort \union KeyPort) :
    Trusted(a) => /\ a \notin StoreB => LoadWord(a) = read_u32(data, a)
                  /\ a \notin StoreW => LoadByte(a) = FromByte(read_u8(data, a))
=============================================================================
