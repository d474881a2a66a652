---------------------------- MODULE BytesProofs ----------------------------
(***************************************************************************)
(* Loads read memory, for every size of memory and of the history, every   *)
(* set of values and every program that keeps to Discipline; and at the    *)
(* addresses of words the array of bytes is the array of words of Memory.  *)
(***************************************************************************)
EXTENDS BytesAsWords, WellFoundedInduction, TLAPS

(* Zero and the words of one byte are words. *)
LEMMA WordTypes == Zero \in Word /\ \A b \in Byte : FromByte(b) \in Word
  BY BytesAssumption DEF Zero, Word, FromByte

(* Reads give bytes and words, inside the array or not. *)
LEMMA ReadTypes ==
  ASSUME NEW d \in [Cell -> Byte], NEW a \in Address
  PROVE  read_u8(d, a) \in Byte /\ read_u32(d, a) \in Word
<1>1. read_u8(d, a) \in Byte
  BY BytesAssumption DEF read_u8, Address, Cell
<1>2. CASE Fits(a)
  <2>1. \A i \in 0 .. 3 : a + i \in Cell
    BY <1>2, BytesAssumption DEF Fits, Address, Cell
  <2> QED
    BY <1>1, <1>2, <2>1 DEF read_u32, Word
<1>3. CASE ~Fits(a)
  BY <1>1, <1>3, WordTypes DEF read_u32
<1> QED
  BY <1>2, <1>3

(* A set of numbers has a least one. *)
LEMMA LeastOf ==
  ASSUME NEW S, S \subseteq Nat, S # {} PROVE \E i \in S : \A j \in S : i <= j
<1> DEFINE less == {p \in Nat \X Nat : p[1] < p[2]}
<1>1. IsWellFoundedOn(less, Nat)
  BY NatLessThanWellFounded DEF OpToRel
<1>2. PICK i \in S : \A j \in S : <<j, i>> \notin less
  <2> HIDE DEF less
  <2> QED
    BY <1>1, WFMin
<1>3. ASSUME NEW j \in S PROVE i <= j
  <2>1. i \in Nat /\ j \in Nat /\ ~(j < i)
    BY <1>2
  <2> QED
    BY <2>1
<1> QED
  BY <1>3

(* The entry a load's search returns is one that answers, and the first. *)
LEMMA FirstIsHit ==
  ASSUME NEW a, Hits(a) # {}
  PROVE  First(a) \in Hits(a) /\ \A j \in Hits(a) : First(a) <= j
<1>1. Hits(a) \subseteq Nat
  BY BytesAssumption DEF Hits, Slot
<1>2. \E i \in Hits(a) : \A j \in Hits(a) : i <= j
  BY <1>1, LeastOf
<1> QED
  BY <1>2 DEF First
---------------------------------------------------------------------------
(* Types *)

NewEntry(a, w) == [valid |-> TRUE, addr |-> a, data |-> w]

(* Recording keeps every entry an entry. *)
LEMMA RecordedType ==
  ASSUME TypeOK, NEW a \in Address, NEW w \in Word
  PROVE  Recorded(a, w) \in [Slot -> Entry]
<1>1. CASE Hits(a) # {}
  <2>1. First(a) \in Slot
    BY <1>1, FirstIsHit DEF Hits
  <2>2. [mem_history[First(a)] EXCEPT !.data = w] \in Entry
    BY <2>1 DEF TypeOK, Entry
  <2> QED
    BY <1>1, <2>1, <2>2 DEF TypeOK, Recorded
<1>2. CASE Hits(a) = {}
  <2>1. NewEntry(a, w) \in Entry
    BY DEF NewEntry, Entry
  <2>2. \A i \in Slot : i # 0 => i - 1 \in Slot
    BY BytesAssumption DEF Slot
  <2> QED
    BY <1>2, <2>1, <2>2 DEF TypeOK, Recorded, NewEntry
<1> QED
  BY <1>1, <1>2

(* Writes leave an array of bytes. *)
LEMMA WriteTypes ==
  ASSUME NEW d \in [Cell -> Byte], NEW a \in Address, NEW w \in Word
  PROVE  /\ write_u32_direct(d, a, w) \in [Cell -> Byte]
         /\ write_u32(d, a, w) \in [Cell -> Byte]
         /\ write_u8(d, a, w[0]) \in [Cell -> Byte]
<1>1. w[0] \in Byte
  BY DEF Word
<1>2. \A c \in Cell : c \in Span(a) => w[c - a] \in Byte
  <2> SUFFICES ASSUME NEW c \in Cell, c \in Span(a)
               PROVE  w[c - a] \in Byte
    OBVIOUS
  <2>1. c - a \in 0 .. 3
    BY BytesAssumption DEF Address, Cell, Span
  <2> QED
    BY <2>1 DEF Word
<1>3. write_u32_direct(d, a, w) \in [Cell -> Byte]
  BY <1>2 DEF write_u32_direct
<1> QED
  BY <1>1, <1>3 DEF write_u32, write_u8

(* Storage and reset() leave entries. *)
LEMMA ClearedType ==
  /\ NoWrite \in Entry
  /\ TypeOK => Cleared \in [Slot -> Entry]
<1>1. NoWrite \in Entry
  BY WordTypes, BytesAssumption DEF NoWrite, Entry, Address
<1> QED
  BY <1>1 DEF TypeOK, Cleared

(* The history variable is one mark for each entry, *)
LEMMA ValidType ==
  ASSUME NEW h \in [Slot -> Entry]
  PROVE  [i \in Slot |-> h[i].valid] \in [Slot -> BOOLEAN]
  BY Zenon DEF Entry

(* and stays so. *)
LEMMA LeftType ==
  ASSUME TypeOK, NEW a
  PROVE  LeftAfter(a) \in [Slot -> BOOLEAN]
<1>1. \A i \in Slot : i # 0 => i - 1 \in Slot
  BY BytesAssumption DEF Slot
<1> QED
  BY <1>1 DEF TypeOK, LeftAfter

(* TypeOK holds initially, *)
LEMMA InitType == Init => TypeOK
<1> SUFFICES ASSUME Init PROVE TypeOK
  OBVIOUS
<1>1. mem_history \in [Slot -> Entry]
  BY ClearedType, BytesAssumption DEF Init
<1>2. leftover \in [Slot -> BOOLEAN]
  BY <1>1, ValidType DEF Init
<1> QED
  BY <1>1, <1>2, BytesAssumption DEF Init, TypeOK

(* Arguments of the actions. *)
LEMMA StepArguments ==
  /\ \A w \in Values : w \in Word /\ FromByte(w[0]) \in Word
  /\ StoreW \subseteq Address /\ StoreB \subseteq Address /\ Direct \subseteq Address
  BY BytesAssumption, WordTypes DEF Word

(* and every access and reset keeps it. *)
LEMMA StepType == TypeOK /\ [Next]_bytes_vars => TypeOK'
<1> SUFFICES ASSUME TypeOK, [Next]_bytes_vars PROVE TypeOK'
  OBVIOUS
<1>1. ASSUME NEW a \in StoreW, NEW w \in Values, StoreWord(a, w) PROVE TypeOK'
  <2>1. a \in Address /\ w \in Word
    BY StepArguments
  <2> QED
    BY <1>1, <2>1, RecordedType, LeftType, WriteTypes DEF StoreWord, TypeOK
<1>2. ASSUME NEW a \in StoreB, NEW w \in Values, StoreByte(a, w) PROVE TypeOK'
  <2>1. a \in Address /\ w \in Word /\ FromByte(w[0]) \in Word
    BY StepArguments
  <2> QED
    BY <1>2, <2>1, RecordedType, LeftType, WriteTypes DEF StoreByte, TypeOK
<1>3. ASSUME NEW a \in Direct, NEW w \in Values, DirectStore(a, w) PROVE TypeOK'
  <2>1. a \in Address /\ w \in Word
    BY StepArguments
  <2> QED
    BY <1>3, <2>1, WriteTypes DEF DirectStore, TypeOK
<1>4. CASE Reset
  <2>1. mem_history' \in [Slot -> Entry]
    BY <1>4, ClearedType DEF Reset
  <2>2. leftover' \in [Slot -> BOOLEAN]
    BY <1>4, ClearedType, ValidType DEF Reset
  <2> QED
    BY <1>4, <2>1, <2>2, BytesAssumption DEF Reset, TypeOK
<1>5. CASE UNCHANGED bytes_vars
  BY <1>5 DEF bytes_vars, TypeOK
<1> QED
  BY <1>1, <1>2, <1>3, <1>4, <1>5 DEF Next
---------------------------------------------------------------------------
(* An entry keeps agreeing with memory while others are written *)

(* What reads the same bytes reads the same. *)
LEMMA SameBytes ==
  ASSUME NEW d, NEW d2, NEW e \in Entry, Agrees(d, e),
         e.addr \in MemoryW => \A c \in Cell : c \in Span(e.addr) => d2[c] = d[c],
         e.addr \in StoreB \ StoreW => (e.addr \in Cell => d2[e.addr] = d[e.addr])
  PROVE  Agrees(d2, e)
<1> e.addr \in Address
  BY DEF Entry
<1>1. CASE e.addr \in MemoryW /\ e.data = read_u32(d, e.addr)
  <2>1. Fits(e.addr) => \A i \in 0 .. 3 : e.addr + i \in Cell /\ e.addr + i \in Span(e.addr)
    BY BytesAssumption DEF Fits, Span, Address, Cell
  <2>2. read_u32(d2, e.addr) = read_u32(d, e.addr)
    BY <1>1, <2>1 DEF read_u32
  <2> QED
    BY <1>1, <2>2 DEF Agrees
<1>2. CASE e.addr \in StoreB \ StoreW /\ e.data = FromByte(read_u8(d, e.addr))
  <2>1. read_u8(d2, e.addr) = read_u8(d, e.addr)
    BY <1>2, BytesAssumption DEF read_u8, Address, Cell
  <2> QED
    BY <1>2, <2>1 DEF Agrees
<1> QED
  BY <1>1, <1>2 DEF Agrees

(* A word written apart from the entry's bytes does not disturb it. *)
LEMMA WordApart ==
  ASSUME NEW d \in [Cell -> Byte], NEW a \in Address, NEW w \in Word,
         NEW e \in Entry, Agrees(d, e),
         Fits(a) => /\ e.addr \in MemoryW => Span(e.addr) \intersect Span(a) = {}
                    /\ e.addr \in StoreB \ StoreW => e.addr \notin Span(a)
  PROVE  Agrees(write_u32_direct(d, a, w), e)
<1> DEFINE d2 == write_u32_direct(d, a, w)
<1>1. \A c \in Cell : (Fits(a) /\ c \in Span(a)) \/ d2[c] = d[c]
  BY DEF write_u32_direct
<1> HIDE DEF d2
<1>2. e.addr \in MemoryW => \A c \in Cell : c \in Span(e.addr) => d2[c] = d[c]
  BY <1>1
<1>3. e.addr \in StoreB \ StoreW => (e.addr \in Cell => d2[e.addr] = d[e.addr])
  BY <1>1
<1>4. Agrees(d2, e)
  BY <1>2, <1>3, SameBytes
<1> QED
  BY <1>4 DEF d2

(* Nor does a byte. *)
LEMMA ByteApart ==
  ASSUME NEW d \in [Cell -> Byte], NEW b \in Address, NEW v \in Byte,
         NEW e \in Entry, Agrees(d, e), e.addr # b,
         e.addr \in MemoryW => b \notin Span(e.addr)
  PROVE  Agrees(write_u8(d, b, v), e)
<1> DEFINE d2 == write_u8(d, b, v)
<1>1. \A c \in Cell : c = b \/ d2[c] = d[c]
  BY DEF write_u8
<1> HIDE DEF d2
<1>2. e.addr \in MemoryW => \A c \in Cell : c \in Span(e.addr) => d2[c] = d[c]
  BY <1>1
<1>3. e.addr \in Cell => d2[e.addr] = d[e.addr]
  BY <1>1
<1>4. Agrees(d2, e)
  BY <1>2, <1>3, SameBytes
<1> QED
  BY <1>4 DEF d2

(* What is stored is what is read back. *)
LEMMA StoredWordAgrees ==
  ASSUME NEW d \in [Cell -> Byte], NEW a \in MemoryW, NEW w \in Word
  PROVE  Agrees(write_u32_direct(d, a, w), NewEntry(a, w))
<1> DEFINE d2 == write_u32_direct(d, a, w)
<1>1. Fits(a) /\ a \in Address
  BY Discipline, StepArguments DEF MemoryW
<1>2. \A i \in 0 .. 3 : a + i \in Cell /\ a + i \in Span(a) /\ (a + i) - a = i
  BY <1>1, BytesAssumption DEF Fits, Address, Cell, Span
<1>3. \A i \in 0 .. 3 : d2[a + i] = w[i]
  BY <1>1, <1>2 DEF write_u32_direct
<1> HIDE DEF d2
<1>4. read_u32(d2, a) = [i \in 0 .. 3 |-> w[i]]
  BY <1>1, <1>3 DEF read_u32
<1>5. read_u32(d2, a) = w
  BY <1>4 DEF Word
<1>6. Agrees(d2, NewEntry(a, w))
  BY <1>5 DEF Agrees, NewEntry
<1> QED
  BY <1>6 DEF d2

(* A byte stored with STOREB is in no word that memory is read for. *)
LEMMA BytesApartFromWords == StoreB \intersect MemoryW = {}
<1> SUFFICES ASSUME NEW b \in StoreB, b \in MemoryW PROVE FALSE
  OBVIOUS
<1>1. b \in Span(b)
  BY StepArguments DEF Span, Address
<1> QED
  BY <1>1, Discipline

(* STOREB and the entry it records agree. *)
LEMMA StoredByteAgrees ==
  ASSUME NEW d \in [Cell -> Byte], NEW b \in StoreB, NEW v \in Byte
  PROVE  Agrees(write_u8(d, b, v), NewEntry(b, FromByte(v)))
<1>1. b \in Cell /\ b < MEMORY_SIZE
  BY Discipline, StepArguments, BytesAssumption DEF Address, Cell
<1>2. read_u8(write_u8(d, b, v), b) = v
  BY <1>1 DEF read_u8, write_u8
<1>3. b \in OutPort \/ b \notin StoreW
  BY BytesApartFromWords DEF MemoryW
<1> QED
  BY <1>2, <1>3 DEF Agrees, NewEntry
---------------------------------------------------------------------------
(* The history stays coherent *)

(* Recording a write that disturbs no entry of another address keeps what  *)
(* was stored since the reset coherent.                                    *)
LEMMA RecordedCoherent ==
  ASSUME TypeOK, Coherent, NEW a \in Address, NEW w \in Word,
         mem_history' = Recorded(a, w), leftover' = LeftAfter(a),
         Agrees(data', NewEntry(a, w)),
         \A e \in Entry : Agrees(data, e) /\ e.addr # a => Agrees(data', e)
  PROVE  Coherent'
<1> SUFFICES ASSUME NEW i \in Slot, mem_history'[i].valid, ~leftover'[i]
             PROVE  /\ Agrees(data', mem_history'[i])
                    /\ \A j \in Slot : /\ mem_history'[j].valid
                                       /\ mem_history'[j].addr = mem_history'[i].addr
                                      => i <= j
  BY DEF Coherent, Hits
<1>1. \A n \in Slot : n \in Int /\ mem_history[n] \in Entry
  BY BytesAssumption DEF Slot, TypeOK
<1>2. CASE Hits(a) # {}
  <2>1. PICK k \in Slot : /\ k = First(a)
                          /\ mem_history[k].valid /\ mem_history[k].addr = a
                          /\ \A j \in Hits(a) : k <= j
    <3>1. First(a) \in Hits(a) /\ \A j \in Hits(a) : First(a) <= j
      BY <1>2, FirstIsHit
    <3> QED
      BY <3>1 DEF Hits, TypeOK, Entry
  <2>2. mem_history'[k] = NewEntry(a, w)
    BY <1>2, <2>1 DEF Recorded, TypeOK, Entry, NewEntry
  <2>3. \A n \in Slot : n # k => mem_history'[n] = mem_history[n] /\ leftover'[n] = leftover[n]
    BY <1>2, <2>1 DEF Recorded, LeftAfter, TypeOK
  <2>4. \A n \in Slot : /\ mem_history'[n].valid <=> mem_history[n].valid
                       /\ mem_history'[n].addr = mem_history[n].addr
    BY <2>1, <2>2, <2>3 DEF NewEntry
  <2>5. CASE i = k
    <3>1. Agrees(data', mem_history'[i])
      BY <2>2, <2>5
    <3>2. \A j \in Slot : mem_history[j].valid /\ mem_history[j].addr = a => i <= j
      BY <2>1, <2>5 DEF Hits
    <3> QED
      BY <2>1, <2>4, <2>5, <3>1, <3>2
  <2>6. CASE i # k
    <3>1. mem_history[i].valid /\ ~leftover[i] /\ mem_history'[i] = mem_history[i]
      BY <2>3, <2>4, <2>6
    <3>2. /\ Agrees(data, mem_history[i])
          /\ \A j \in Slot : mem_history[j].valid /\ mem_history[j].addr = mem_history[i].addr
                                => i <= j
      BY <3>1 DEF Coherent, Hits
    <3>3. mem_history[i].addr # a
      <4>1. SUFFICES ASSUME mem_history[i].addr = a PROVE FALSE
        OBVIOUS
      <4>2. i <= k
        BY <2>1, <3>2, <4>1
      <4>3. k <= i
        BY <2>1, <3>1, <4>1 DEF Hits
      <4> QED
        BY <1>1, <2>6, <4>2, <4>3
    <3> QED
      BY <1>1, <2>4, <3>1, <3>2, <3>3
  <2> QED
    BY <2>5, <2>6
<1>3. CASE Hits(a) = {}
  <2>1. 0 \in Slot /\ mem_history'[0] = NewEntry(a, w)
    BY <1>3, BytesAssumption DEF Recorded, NewEntry, Slot
  <2>2. ASSUME NEW n \in Slot, n # 0
        PROVE  /\ n - 1 \in Slot /\ mem_history'[n] = mem_history[n - 1]
               /\ leftover'[n] = leftover[n - 1]
    <3>1. n - 1 \in Slot
      BY <2>2, BytesAssumption DEF Slot
    <3> QED
      BY <1>3, <2>2, <3>1 DEF Recorded, LeftAfter
  <2>3. \A n \in Slot : mem_history[n].valid => mem_history[n].addr # a
    BY <1>3 DEF Hits
  <2>4. CASE i = 0
    BY <2>1, <2>4, BytesAssumption DEF Slot
  <2>5. CASE i # 0
    <3>1. /\ i - 1 \in Slot /\ mem_history'[i] = mem_history[i - 1]
          /\ mem_history[i - 1].valid /\ ~leftover[i - 1]
      BY <2>2, <2>5
    <3>2. /\ Agrees(data, mem_history[i - 1])
          /\ \A j \in Slot :
               /\ mem_history[j].valid /\ mem_history[j].addr = mem_history[i - 1].addr
               => i - 1 <= j
      BY <3>1 DEF Coherent, Hits
    <3>3. mem_history[i - 1].addr # a /\ mem_history[i - 1] \in Entry
      BY <1>1, <2>3, <3>1
    <3>4. ASSUME NEW j \in Slot, mem_history'[j].valid,
                 mem_history'[j].addr = mem_history'[i].addr
          PROVE  i <= j
      <4>1. j # 0
        BY <2>1, <3>1, <3>3, <3>4 DEF NewEntry
      <4>2. j - 1 \in Slot /\ mem_history'[j] = mem_history[j - 1]
        BY <2>2, <4>1
      <4>3. i - 1 <= j - 1
        BY <3>1, <3>2, <3>4, <4>2
      <4> QED
        BY <1>1, <4>3
    <3> QED
      BY <3>1, <3>2, <3>3, <3>4
  <2> QED
    BY <2>4, <2>5
<1> QED
  BY <1>2, <1>3

(* An empty history is coherent, and so is one that is all left over, *)
LEMMA InitCoherent == Init => Coherent
  BY DEF Init, Coherent

(* and every access and reset keeps it so. *)
LEMMA StepCoherent == TypeOK /\ Coherent /\ [Next]_bytes_vars => Coherent'
<1> SUFFICES ASSUME TypeOK, Coherent, [Next]_bytes_vars PROVE Coherent'
  OBVIOUS
<1> data \in [Cell -> Byte]
  BY DEF TypeOK
<1>1. ASSUME NEW a \in StoreW, NEW w \in Values, StoreWord(a, w) PROVE Coherent'
  <2>1. a \in Address /\ w \in Word
    BY StepArguments
  <2>2. CASE a \in OutPort
    <3>1. data' = data
      BY <1>1, <2>2 DEF StoreWord, write_u32
    <3>2. Agrees(data', NewEntry(a, w))
      BY <2>2 DEF Agrees, NewEntry
    <3> QED
      BY <1>1, <2>1, <3>1, <3>2, RecordedCoherent DEF StoreWord
  <2>3. CASE a \notin OutPort
    <3>1. a \in MemoryW /\ data' = write_u32_direct(data, a, w)
      BY <1>1, <2>3 DEF StoreWord, write_u32, MemoryW
    <3>2. Agrees(data', NewEntry(a, w))
      BY <2>1, <3>1, StoredWordAgrees
    <3>3. ASSUME NEW e \in Entry, Agrees(data, e), e.addr # a PROVE Agrees(data', e)
      <4>1. e.addr \in MemoryW => Span(e.addr) \intersect Span(a) = {}
        BY <3>1, <3>3, Discipline
      <4>2. e.addr \in StoreB => e.addr \notin Span(a)
        BY <3>1, Discipline
      <4> QED
        BY <2>1, <3>1, <3>3, <4>1, <4>2, WordApart
    <3> QED
      BY <1>1, <2>1, <3>2, <3>3, RecordedCoherent DEF StoreWord
  <2> QED
    BY <2>2, <2>3
<1>2. ASSUME NEW b \in StoreB, NEW w \in Values, StoreByte(b, w) PROVE Coherent'
  <2>1. b \in Address /\ w[0] \in Byte /\ FromByte(w[0]) \in Word
    BY StepArguments DEF Word
  <2>2. data' = write_u8(data, b, w[0])
    BY <1>2 DEF StoreByte
  <2>3. Agrees(data', NewEntry(b, FromByte(w[0])))
    BY <2>1, <2>2, StoredByteAgrees
  <2>4. ASSUME NEW e \in Entry, Agrees(data, e), e.addr # b PROVE Agrees(data', e)
    <3>1. e.addr \in MemoryW => b \notin Span(e.addr)
      BY Discipline
    <3> QED
      BY <2>1, <2>2, <2>4, <3>1, ByteApart
  <2> QED
    BY <1>2, <2>1, <2>3, <2>4, RecordedCoherent DEF StoreByte
<1>3. ASSUME NEW s \in Direct, NEW w \in Values, DirectStore(s, w) PROVE Coherent'
  <2>1. s \in Address /\ w \in Word
    BY StepArguments
  <2>2. ASSUME NEW e \in Entry, Agrees(data, e) PROVE Agrees(data', e)
    <3>1. CASE data' = data
      BY <2>2, <3>1
    <3>2. CASE data' = write_u32_direct(data, s, w)
      <4>1. Fits(s) => /\ e.addr \in MemoryW => Span(e.addr) \intersect Span(s) = {}
                       /\ e.addr \in StoreB \ StoreW => e.addr \notin Span(s)
        BY Discipline
      <4> QED
        BY <2>1, <2>2, <3>2, <4>1, WordApart
    <3> QED
      BY <1>3, <3>1, <3>2 DEF DirectStore, write_u32
  <2>3. \A i \in Slot : mem_history[i] \in Entry
    BY DEF TypeOK
  <2>4. mem_history' = mem_history /\ leftover' = leftover
    BY <1>3 DEF DirectStore
  <2> QED
    BY <2>2, <2>3, <2>4 DEF Coherent, Hits
<1>4. CASE Reset
  <2>1. \A i \in Slot : mem_history'[i].valid = leftover'[i]
    BY <1>4 DEF Reset
  <2> QED
    BY <2>1 DEF Coherent
<1>5. CASE UNCHANGED bytes_vars
  BY <1>5 DEF bytes_vars, Coherent, Hits
<1> QED
  BY <1>1, <1>2, <1>3, <1>4, <1>5 DEF Next
---------------------------------------------------------------------------
(* What the entries say is what loads read. *)
LEMMA CoherentLoads == TypeOK /\ Coherent => LoadsReadMemory
<1> SUFFICES ASSUME TypeOK, Coherent,
                    NEW a \in Address \ (OutPort \union KeyPort), Trusted(a)
             PROVE  /\ a \notin StoreB => LoadWord(a) = read_u32(data, a)
                    /\ a \notin StoreW => LoadByte(a) = FromByte(read_u8(data, a))
  BY DEF LoadsReadMemory
<1>1. CASE Hits(a) = {}
  BY <1>1 DEF LoadWord, LoadByte
<1>2. CASE Hits(a) # {}
  <2>1. ~leftover[First(a)] /\ First(a) \in Hits(a)
    BY <1>2, FirstIsHit DEF Trusted
  <2>2. Agrees(data, mem_history[First(a)]) /\ mem_history[First(a)].addr = a
    BY <2>1 DEF Coherent, Hits
  <2> QED
    BY <1>2, <2>2 DEF Agrees, LoadWord, LoadByte, MemoryW
<1> QED
  BY <1>1, <1>2

(* Whatever is stored, pushed, saved in frames and reset, in memory of any *)
(* size behind a history of any length, a load of a disciplined program    *)
(* reads what memory holds, or an entry reset() did not clear and nothing  *)
(* was stored to since.                                                    *)
THEOREM Loads == Spec => []LoadsReadMemory
<1>1. Init => TypeOK /\ Coherent
  BY InitType, InitCoherent
<1>2. TypeOK /\ Coherent /\ [Next]_bytes_vars => (TypeOK /\ Coherent)'
  BY StepType, StepCoherent
<1> QED
  BY <1>1, <1>2, CoherentLoads, PTL DEF Spec
---------------------------------------------------------------------------
(* Bytes as words *)

(* The array of words has a word for every four bytes. *)
LEMMA WordCount ==
  /\ AsWords!Addr = 0 .. (MEMORY_SIZE \div 4) - 1
  /\ MEMORY_SIZE \div 4 \in Nat /\ MEMORY_SIZE = 4 * (MEMORY_SIZE \div 4)
  BY BytesAssumption, WordsAssumption DEF AsWords!Addr

(* A word number is in that array when its bytes are in theirs. *)
LEMMA WordFits ==
  \A n \in Nat : /\ Fits(4 * n) <=> n \in AsWords!Addr
                 /\ 4 * n < MEMORY_SIZE <=> n \in AsWords!Addr
                 /\ n \in AsWords!Addr => \A i \in 0 .. 3 : 4 * n + i \in Cell
<1> DEFINE M == MEMORY_SIZE \div 4
<1>1. M \in Nat /\ MEMORY_SIZE = 4 * M /\ AsWords!Addr = 0 .. M - 1
  BY WordCount
<1> HIDE DEF M
<1> QED
  BY <1>1 DEF Fits, Cell

(* The bytes of a word are numbers below BYTE. *)
LEMMA ByteType == \A w \in Word, i \in 0 .. 3 : w[i] \in Nat /\ w[i] < BYTE
  BY WordsAssumption DEF Word

(* A word's number without the low byte. *)
Upper(w) == w[1] + BYTE * (w[2] + BYTE * w[3])

(* It is a number, and what the low byte is added to. *)
LEMMA ValueParts ==
  \A w \in Word : /\ w[0] \in Nat /\ w[0] < BYTE /\ Upper(w) \in Nat
                  /\ Value(w) = w[0] + BYTE * Upper(w) /\ Value(w) \in Nat
<1> SUFFICES ASSUME NEW w \in Word
             PROVE  /\ w[0] \in Nat /\ w[0] < BYTE /\ Upper(w) \in Nat
                    /\ Value(w) = w[0] + BYTE * Upper(w) /\ Value(w) \in Nat
  OBVIOUS
<1>1. BYTE \in Nat /\ w[0] \in Nat /\ w[0] < BYTE /\ w[1] \in Nat /\ w[2] \in Nat /\ w[3] \in Nat
  BY ByteType, WordsAssumption
<1>2. \A x, y \in Nat : x + BYTE * y \in Nat
  BY <1>1
<1>3. Upper(w) \in Nat
  BY <1>1, <1>2 DEF Upper
<1>4. Value(w) = w[0] + BYTE * Upper(w)
  BY DEF Value, Upper
<1> QED
  BY <1>1, <1>2, <1>3, <1>4

(* A remainder is found under any multiple. *)
LEMMA RemainderOf ==
  \A b, k \in Nat : b < BYTE => (b + BYTE * k) % BYTE = b
<1> SUFFICES ASSUME NEW b \in Nat, NEW k \in Nat, b < BYTE PROVE (b + BYTE * k) % BYTE = b
  OBVIOUS
<1>1. BYTE \in Nat /\ BYTE > 1
  BY WordsAssumption
<1> DEFINE x == b + BYTE * k
           q == x \div BYTE
           r == x % BYTE
<1>2. x \in Int
  BY <1>1
<1>3. q \in Int /\ r \in Int /\ 0 <= r /\ r < BYTE /\ x = BYTE * q + r
  <2> HIDE DEF x
  <2> QED
    BY <1>1, <1>2
<1>4. BYTE * (q - k) = b - r
  <2>1. x = b + BYTE * k
    OBVIOUS
  <2> HIDE DEF x, q, r
  <2>2. BYTE * (q - k) = BYTE * q - BYTE * k
    BY <1>1, <1>3
  <2> QED
    BY <1>1, <1>3, <2>1, <2>2
<1>5. q - k = 0
  <2> HIDE DEF x, q, r
  <2>1. ASSUME q - k >= 1 PROVE FALSE
    <3>1. BYTE * (q - k) >= BYTE
      BY <1>1, <1>3, <2>1
    <3> QED
      BY <1>1, <1>3, <1>4, <3>1
  <2>2. ASSUME q - k <= -1 PROVE FALSE
    <3>1. BYTE * (q - k) <= -BYTE
      BY <1>1, <1>3, <2>2
    <3> QED
      BY <1>1, <1>3, <1>4, <3>1
  <2> QED
    BY <1>3, <2>1, <2>2
<1>6. b - r = 0
  <2> HIDE DEF x, q, r
  <2> QED
    BY <1>1, <1>3, <1>4, <1>5
<1> QED
  BY <1>3, <1>6

(* The low byte of a word's number is its first byte. *)
LEMMA LowByte == \A w \in Word : AsWords!Low(Value(w)) = w[0]
  BY ValueParts, RemainderOf DEF AsWords!Low

(* The four bytes of a word of the array. *)
BytesOf(d, n) == [i \in 0 .. 3 |-> d[4 * n + i]]

(* They are a word, and what read_u32 reads. *)
LEMMA BytesOfWord ==
  ASSUME NEW d \in [Cell -> Byte], NEW n \in AsWords!Addr
  PROVE  /\ n \in Nat /\ BytesOf(d, n) \in Word /\ read_u32(d, 4 * n) = BytesOf(d, n)
         /\ read_u8(d, 4 * n) = BytesOf(d, n)[0] /\ WordAt(d, n) = Value(BytesOf(d, n))
<1>1. n \in Nat /\ Fits(4 * n) /\ 4 * n < MEMORY_SIZE /\ \A i \in 0 .. 3 : 4 * n + i \in Cell
  BY WordFits, WordCount
<1> QED
  BY <1>1 DEF BytesOf, Word, read_u32, read_u8, WordAt

(* Reads, in the array and beyond it. *)
LEMMA ReadsWords == TypeOK => ReadsAgree
<1> SUFFICES ASSUME TypeOK, NEW n \in WordNumber
             PROVE  /\ Value(read_u32(data, 4 * n)) = AsWords!read_u32_direct(Words(data), n)
                    /\ read_u8(data, 4 * n) = AsWords!read_u8(Words(data), n)
  BY DEF ReadsAgree
<1>1. n \in Nat /\ data \in [Cell -> Byte]
  BY BytesAssumption DEF WordNumber, TypeOK
<1>2. CASE n \in AsWords!Addr
  <2>1. AsWords!read_u32_direct(Words(data), n) = WordAt(data, n)
    BY <1>2 DEF AsWords!read_u32_direct, Words
  <2> QED
    BY <1>1, <1>2, <2>1, BytesOfWord, LowByte DEF AsWords!read_u8
<1>3. CASE n \notin AsWords!Addr
  <2>1. AsWords!read_u32_direct(Words(data), n) = 0 /\ AsWords!read_u8(Words(data), n) = 0 % BYTE
    BY <1>3 DEF AsWords!read_u32_direct, AsWords!read_u8, AsWords!Low
  <2>2. read_u32(data, 4 * n) = Zero /\ read_u8(data, 4 * n) = 0
    BY <1>1, <1>3, WordFits DEF read_u32, read_u8
  <2>3. Value(Zero) = 0 /\ 0 % BYTE = 0
    BY WordsAssumption DEF Value, Zero
  <2> QED
    BY <2>1, <2>2, <2>3
<1> QED
  BY <1>2, <1>3

(* A word written past the devices. *)
LEMMA DirectWords ==
  ASSUME NEW d \in [Cell -> Byte], NEW n \in Nat, NEW w \in Word
  PROVE  Words(write_u32_direct(d, 4 * n, w)).data
           = AsWords!write_u32_direct(Words(d), n, Value(w)).data
<1> DEFINE e == write_u32_direct(d, 4 * n, w)
<1>1. Words(e).data = [m \in AsWords!Addr |-> WordAt(e, m)]
  BY DEF Words
<1>2. AsWords!write_u32_direct(Words(d), n, Value(w)).data
        = [m \in AsWords!Addr |-> IF m = n THEN Value(w) ELSE WordAt(d, m)]
  BY DEF AsWords!write_u32_direct, Words
<1>3. ASSUME NEW m \in AsWords!Addr
      PROVE  WordAt(e, m) = IF m = n THEN Value(w) ELSE WordAt(d, m)
  <2>1. m \in Nat /\ \A i \in 0 .. 3 : 4 * m + i \in Cell
    BY WordFits, WordCount
  <2>2. CASE m = n
    <3>1. Fits(4 * n)
      BY <2>2, WordFits
    <3>2. \A i \in 0 .. 3 : e[4 * m + i] = w[i]
      BY <2>1, <2>2, <3>1 DEF write_u32_direct, Span
    <3>3. BytesOf(e, m) = w
      BY <3>2 DEF BytesOf, Word
    <3> QED
      BY <2>2, <3>3 DEF WordAt, BytesOf
  <2>3. CASE m # n
    <3>1. \A i \in 0 .. 3 : 4 * m + i \notin Span(4 * n)
      BY <2>1, <2>3 DEF Span
    <3>2. \A i \in 0 .. 3 : e[4 * m + i] = d[4 * m + i]
      BY <2>1, <3>1 DEF write_u32_direct
    <3> QED
      BY <2>3, <3>2 DEF WordAt
  <2> QED
    BY <2>2, <2>3
<1>4. [m \in AsWords!Addr |-> WordAt(e, m)]
        = [m \in AsWords!Addr |-> IF m = n THEN Value(w) ELSE WordAt(d, m)]
  <2> HIDE DEF e
  <2> QED
    BY <1>3
<1> QED
  BY <1>1, <1>2, <1>4

(* A word written, ports included. *)
LEMMA PortWords ==
  ASSUME NEW d \in [Cell -> Byte], NEW n \in WordNumber, NEW w \in Word
  PROVE  Words(write_u32(d, 4 * n, w)).data = AsWords!write_u32(Words(d), n, Value(w)).data
<1>1. n \in Nat /\ (4 * n \in OutPort <=> n \in AsWords!MmioPort)
  BY BytesAssumption, WordsAssumption DEF WordNumber
<1>2. CASE 4 * n \in OutPort
  BY <1>1, <1>2 DEF write_u32, AsWords!write_u32, Words
<1>3. CASE 4 * n \notin OutPort
  BY <1>1, <1>3, DirectWords DEF write_u32, AsWords!write_u32
<1> QED
  BY <1>2, <1>3

(* A byte written. *)
LEMMA ByteWords ==
  ASSUME NEW d \in [Cell -> Byte], NEW n \in Nat, NEW b \in Byte
  PROVE  Words(write_u8(d, 4 * n, b)).data = AsWords!write_u8(Words(d), n, b).data
<1> DEFINE e == write_u8(d, 4 * n, b)
           v == AsWords!read_u32_direct(Words(d), n) - AsWords!read_u8(Words(d), n)
                  + AsWords!Low(b)
<1>1. Words(e).data = [m \in AsWords!Addr |-> WordAt(e, m)]
  BY DEF Words
<1>2. AsWords!write_u8(Words(d), n, b).data
        = [m \in AsWords!Addr |-> IF m = n THEN v ELSE WordAt(d, m)]
  BY DEF AsWords!write_u8, AsWords!write_u32_direct, Words
<1>3. AsWords!Low(b) = b /\ b \in Nat /\ b < BYTE
  BY WordsAssumption DEF AsWords!Low
<1>4. ASSUME NEW m \in AsWords!Addr
      PROVE  WordAt(e, m) = IF m = n THEN v ELSE WordAt(d, m)
  <2>1. m \in Nat /\ (\A i \in 0 .. 3 : 4 * m + i \in Cell)
    BY WordFits, WordCount
  <2>2. CASE m = n
    <3>1. \A i \in 0 .. 3 : e[4 * m + i] = IF i = 0 THEN b ELSE d[4 * m + i]
      BY <2>1, <2>2 DEF write_u8
    <3>2. e \in [Cell -> Byte]
      BY DEF write_u8
    <3>3. BytesOf(e, m)[0] = b /\ Upper(BytesOf(e, m)) = Upper(BytesOf(d, m))
      BY <3>1 DEF BytesOf, Upper
    <3>4. /\ WordAt(e, m) = Value(BytesOf(e, m)) /\ BytesOf(e, m) \in Word
          /\ WordAt(d, m) = Value(BytesOf(d, m)) /\ BytesOf(d, m) \in Word
      BY <3>2, BytesOfWord
    <3>5. AsWords!read_u32_direct(Words(d), n) = WordAt(d, m)
      BY <2>2 DEF AsWords!read_u32_direct, Words
    <3>6. AsWords!read_u8(Words(d), n) = BytesOf(d, m)[0]
      BY <3>4, <3>5, LowByte DEF AsWords!read_u8
    <3> DEFINE u == BYTE * Upper(BytesOf(d, m))
               o == BytesOf(d, m)[0]
    <3>7. u \in Nat /\ o \in Nat /\ WordAt(d, m) = o + u /\ WordAt(e, m) = b + u
      BY <3>3, <3>4, ValueParts, WordsAssumption
    <3>8. v = (o + u) - o + b
      BY <1>3, <3>5, <3>6, <3>7
    <3> HIDE DEF u, o, v
    <3> QED
      BY <1>3, <2>2, <3>7, <3>8
  <2>3. CASE m # n
    <3>1. \A i \in 0 .. 3 : 4 * m + i # 4 * n
      BY <2>1, <2>3
    <3>2. \A i \in 0 .. 3 : e[4 * m + i] = d[4 * m + i]
      BY <2>1, <3>1 DEF write_u8
    <3> QED
      BY <2>3, <3>2 DEF WordAt
  <2> QED
    BY <2>2, <2>3
<1>5. [m \in AsWords!Addr |-> WordAt(e, m)]
        = [m \in AsWords!Addr |-> IF m = n THEN v ELSE WordAt(d, m)]
  <2> HIDE DEF e, v
  <2> QED
    BY <1>4
<1> QED
  BY <1>1, <1>2, <1>5

(* Memory::reset *)
LEMMA ResetWords ==
  Words([c \in Cell |-> 0]).data = AsWords!reset_memory(Words(data)).data
<1> DEFINE z == [c \in Cell |-> 0]
<1>1. ASSUME NEW m \in AsWords!Addr PROVE WordAt(z, m) = 0
  <2>1. m \in Nat /\ \A i \in 0 .. 3 : 4 * m + i \in Cell
    BY WordFits, WordCount
  <2>2. \A i \in 0 .. 3 : z[4 * m + i] = 0
    BY <2>1
  <2> HIDE DEF z
  <2> QED
    BY <2>2, WordsAssumption DEF WordAt, Value
<1>2. AsWords!reset_memory(Words(data)).data = [m \in AsWords!Addr |-> 0]
  BY DEF AsWords!reset_memory, Words
<1> HIDE DEF z
<1>3. Words(z).data = [m \in AsWords!Addr |-> 0]
  BY <1>1 DEF Words
<1> QED
  BY <1>2, <1>3 DEF z

(* Every store, one by one. *)
LEMMA WritesWords == TypeOK /\ [Next]_bytes_vars => [WriteStep]_bytes_vars
<1> SUFFICES ASSUME TypeOK PROVE WriteStep
  OBVIOUS
<1>1. data \in [Cell -> Byte]
  BY DEF TypeOK
<1>2. ASSUME NEW n \in WordNumber, NEW w \in Values
      PROVE  n \in Nat /\ w \in Word /\ w[0] \in Byte
  BY BytesAssumption DEF WordNumber, Word
<1>3. ASSUME NEW n \in WordNumber, NEW w \in Values, StoreWord(4 * n, w)
      PROVE  Words(data').data = AsWords!write_u32(Words(data), n, Value(w)).data
  BY <1>1, <1>2, <1>3, PortWords DEF StoreWord
<1>4. ASSUME NEW n \in WordNumber, NEW w \in Values, StoreByte(4 * n, w)
      PROVE  Words(data').data = AsWords!write_u8(Words(data), n, w[0]).data
  BY <1>1, <1>2, <1>4, ByteWords DEF StoreByte
<1>5. ASSUME NEW n \in WordNumber, NEW w \in Values, DirectStore(4 * n, w)
      PROVE  Words(data').data \in {AsWords!write_u32(Words(data), n, Value(w)).data,
                                    AsWords!write_u32_direct(Words(data), n, Value(w)).data}
  BY <1>1, <1>2, <1>5, PortWords, DirectWords DEF DirectStore
<1>6. Reset => Words(data').data = AsWords!reset_memory(Words(data)).data
  BY ResetWords DEF Reset
<1> QED
  BY <1>3, <1>4, <1>5, <1>6 DEF WriteStep

(* At the addresses of words the array of bytes gives what the array of    *)
(* words would, whatever was stored before, unaligned words included.      *)
THEOREM Reads == Spec => []ReadsAgree
<1>1. Init => TypeOK
  BY InitType
<1>2. TypeOK /\ [Next]_bytes_vars => TypeOK'
  BY StepType
<1> QED
  BY <1>1, <1>2, ReadsWords, PTL DEF Spec

(* And stores to them change it as module Memory says.                     *)
THEOREM Writes == Spec => WritesAgree
<1>1. Init => TypeOK
  BY InitType
<1>2. TypeOK /\ [Next]_bytes_vars => TypeOK'
  BY StepType
<1> QED
  BY <1>1, <1>2, WritesWords, PTL DEF Spec, WritesAgree
=============================================================================
