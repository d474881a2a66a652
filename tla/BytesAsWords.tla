---------------------------- MODULE BytesAsWords ----------------------------
(***************************************************************************)
(* The processor modules count addresses in words and access words only at *)
(* their first byte: module Memory.  This module relates the two: at those *)
(* addresses the array of bytes behaves as the array of words does, ports, *)
(* bytes and the ends of the array included (src/memory.cpp).              *)
(***************************************************************************)
EXTENDS Bytes

CONSTANTS
  WIDTH, BYTE,                     \* of module Memory
  MMIO_INT, MMIO_BOOL, MMIO_STR,   \* the ports, counted in words
  KBD_DATA, KBD_STATUS

AsWords == INSTANCE Memory WITH MEMORY_SIZE <- MEMORY_SIZE \div 4

ASSUME WordsAssumption ==
  /\ BYTE \in Nat /\ BYTE > 1 /\ Byte = 0 .. BYTE - 1
  /\ MEMORY_SIZE % 4 = 0
  /\ \A n \in 0 .. ADDRESSES : 4 * n \in OutPort <=> n \in AsWords!MmioPort

(* A word as a number, the low byte first. *)
Value(w) == w[0] + BYTE * (w[1] + BYTE * (w[2] + BYTE * w[3]))

(* Memory's data array, for the bytes d. *)
WordAt(d, n) == Value([i \in 0 .. 3 |-> d[4 * n + i]])
Words(d)     == [data |-> [n \in AsWords!Addr |-> WordAt(d, n)],
                 keyboard_buffer |-> << >>, out |-> << >>]

WordNumber == {n \in 0 .. ADDRESSES : 4 * n \in Address}

(* A word or a byte read at the address of a word, in the array or beyond  *)
(* it, is what the array of words gives (read_u32, read_u8).               *)
ReadsAgree ==
  \A n \in WordNumber :
    /\ Value(read_u32(data, 4 * n)) = AsWords!read_u32_direct(Words(data), n)
    /\ read_u8(data, 4 * n) = AsWords!read_u8(Words(data), n)

(* A store of a word, of its low byte, of the stack or the host at the     *)
(* address of a word, and a reset, do to the array of words what module    *)
(* Memory says (write_u32, write_u32_direct, write_u8, Memory::reset).     *)
WriteStep ==
  LET now  == Words(data)
      next == Words(data').data
  IN  /\ \A n \in WordNumber, w \in Values :
           /\ 4 * n \in StoreW /\ StoreWord(4 * n, w)
                => next = AsWords!write_u32(now, n, Value(w)).data
           /\ 4 * n \in StoreB /\ StoreByte(4 * n, w)
                => next = AsWords!write_u8(now, n, w[0]).data
           /\ 4 * n \in Direct /\ DirectStore(4 * n, w)
                => next \in {AsWords!write_u32(now, n, Value(w)).data,
                             AsWords!write_u32_direct(now, n, Value(w)).data}
      /\ Reset => next = AsWords!reset_memory(now).data

WritesAgree == [][WriteStep]_bytes_vars
=============================================================================
