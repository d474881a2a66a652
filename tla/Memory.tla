------------------------------- MODULE Memory -------------------------------
(***************************************************************************)
(* class Memory (src/memory.cpp): the data array, the memory mapped output *)
(* ports and the keyboard.  The object is one value with three fields, and *)
(* a member function that changes it is an operator from the old value to  *)
(* the new one.                                                            *)
(*                                                                         *)
(* Addresses count words: the 4 bytes of an instruction or of a stack slot *)
(* are one unit, and every address is word aligned.  A byte access reaches *)
(* the byte at the word's address, which is its low one (little endian).   *)
(***************************************************************************)
EXTENDS Alu, Sequences

CONSTANTS
  MEMORY_SIZE,                     \* MEMORY_SIZE of include/types.hpp, in words
  BYTE,                            \* number of values of a u8
  MMIO_INT, MMIO_BOOL, MMIO_STR,   \* 0x100, 0x104, 0x108: the output ports
  KBD_DATA, KBD_STATUS             \* 0x110, 0x114: the keyboard ports

Addr     == 0 .. MEMORY_SIZE - 1
MmioPort == {MMIO_INT, MMIO_BOOL, MMIO_STR}

ASSUME MemoryAssumption ==
  /\ MEMORY_SIZE \in Nat /\ MEMORY_SIZE > 1 /\ MEMORY_SIZE <= WORDS
  /\ BYTE \in Nat /\ BYTE > 1 /\ WORDS % BYTE = 0
  /\ KBD_DATA # KBD_STATUS

Memory == [data : [Addr -> Word], keyboard_buffer : Seq(Word), out : Seq(Word \X Int)]

ZeroMemory == [data |-> [a \in Addr |-> 0], keyboard_buffer |-> << >>, out |-> << >>]

(* Memory::reset clears the array; the keyboard queue survives it. *)
reset_memory(m) == [m EXCEPT !.data = [a \in Addr |-> 0]]

(* Outside the array a read gives 0 and a write is dropped. *)
read_u32_direct(m, a)     == IF a \in Addr THEN m.data[a] ELSE 0
write_u32_direct(m, a, v) == IF a \in Addr THEN [m EXCEPT !.data[a] = v] ELSE m

Low(w)             == w % BYTE
read_u8(m, a)      == Low(read_u32_direct(m, a))
write_u8(m, a, v)  ==
  write_u32_direct(m, a, read_u32_direct(m, a) - read_u8(m, a) + Low(v))

(* Faulty variant: the status port always says that no key waits. *)
read_u32_NoStatus(m, a) ==
  IF a = KBD_DATA THEN (IF m.keyboard_buffer = << >> THEN 0 ELSE Head(m.keyboard_buffer))
  ELSE IF a = KBD_STATUS THEN 0
  ELSE read_u32_direct(m, a)

(* The value read_u32 returns, and the memory it leaves: reading the data  *)
(* port of the keyboard takes the oldest key out of the queue.             *)
read_u32(m, a) ==
  IF a = KBD_DATA THEN (IF m.keyboard_buffer = << >> THEN 0 ELSE Head(m.keyboard_buffer))
  ELSE IF a = KBD_STATUS THEN (IF m.keyboard_buffer = << >> THEN 0 ELSE 1)
  ELSE read_u32_direct(m, a)

(* Faulty variant: a key that is read stays in the queue. *)
after_read_u32_Keeps(m, a) == m

after_read_u32(m, a) ==
  IF a = KBD_DATA /\ m.keyboard_buffer # << >>
    THEN [m EXCEPT !.keyboard_buffer = Tail(@)] ELSE m

(* What an output port shows for a value: a signed integer, a truth value, *)
(* or the string at that address (its characters are left out).            *)
Printed(port, v) ==
  IF port = MMIO_INT THEN Signed(v)
  ELSE IF port = MMIO_BOOL THEN (IF v = 0 THEN 0 ELSE 1)
  ELSE v

write_u32(m, a, v) ==
  IF a \in MmioPort THEN [m EXCEPT !.out = Append(@, <<a, Printed(a, v)>>)]
  ELSE write_u32_direct(m, a, v)

push_key(m, c) == [m EXCEPT !.keyboard_buffer = Append(@, c)]
=============================================================================
