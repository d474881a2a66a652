-------------------------- MODULE DisciplineProofs --------------------------
(***************************************************************************)
(* Programs that keep code, words, bytes and the stack apart find in the   *)
(* write history what memory holds, and in the pipeline the code that is   *)
(* in memory, for every such program, every memory size and every depth of *)
(* the history.  No program can tell that it was interrupted by handlers   *)
(* that leave alone what was saved for it.  And no interrupt and no key is *)
(* lost, for handlers that read the keyboard until it is empty.            *)
(***************************************************************************)
EXTENDS CpuDiscipline, CpuKeys, PipelineProofs

(* One word up and one down. *)
LEMMA OneBack == \A w \in Word : Minus(Plus(w, 1), 1) = w
<1> SUFFICES ASSUME NEW w \in Word PROVE Minus(Plus(w, 1), 1) = w
  OBVIOUS
<1>1. w \in Int /\ w >= 0 /\ w < WORDS /\ WORDS \in Nat /\ WORDS > 1
  BY WordCount DEF Word
<1>2. CASE w + 1 = WORDS
  <2>1. Plus(w, 1) = 0
    BY <1>1, <1>2 DEF Plus, Wrap
  <2>2. Minus(0, 1) = WORDS - 1
    BY <1>1 DEF Minus, Wrap
  <2> QED
    BY <1>1, <1>2, <2>1, <2>2
<1>3. CASE w + 1 < WORDS
  <2>1. Plus(w, 1) = w + 1
    BY <1>1, <1>3 DEF Plus, Wrap
  <2> QED
    BY <1>1, <2>1 DEF Minus, Wrap
<1> QED
  BY <1>1, <1>2, <1>3

---------------------------------------------------------------------------
(* The write history *)

(* The entry that answers is the first. *)
LEMMA HitLeast ==
  \A a : Hits(a) # {} => Hit(a) \in Hits(a) /\ \A j \in Hits(a) : Hit(a) <= j
<1> SUFFICES ASSUME NEW a, Hits(a) # {}
             PROVE  Hit(a) \in Hits(a) /\ \A j \in Hits(a) : Hit(a) <= j
  OBVIOUS
<1>1. Hits(a) \subseteq Nat
  BY CpuAssumption DEF Hits, Slot
<1>2. \E i \in Hits(a) : \A j \in Hits(a) : i <= j
  BY <1>1, LeastOf
<1> QED
  BY <1>2 DEF Hit

(* A step that changes neither an entry nor the memory it is about.        *)
AroundStores == \A a \in Addr \ Stack : mem'.data[a] = mem.data[a]

(* Steps that write only to the stack and to no entry. *)
LEMMA HistoryAround ==
  ASSUME HistoryCoherent, EntriesApart, AroundStores, mem_history' = mem_history
  PROVE  HistoryCoherent' /\ EntriesApart'
<1>1. \A a : Hits(a)' = Hits(a) /\ Hit(a)' = Hit(a)
  BY DEF Hits, Hit
<1>2. ASSUME NEW a \in Addr \ (MmioPort \union KbdPort), Hits(a) # {}
      PROVE  mem_history[Hit(a)].data = mem'.data[a]
  <2>1. a \in Words \union Bytes \union Sink
    BY <1>2, HitInHits DEF EntriesApart, Hits
  <2>2. a \notin Stack
    BY <1>2, <2>1, DisciplineAssumption DEF Sink
  <2> QED
    BY <1>2, <2>2 DEF HistoryCoherent, AroundStores, KbdPort
<1>3. HistoryCoherent'
  BY <1>1, <1>2 DEF HistoryCoherent, KbdPort
<1>4. EntriesApart'
  BY DisciplineAssumption DEF EntriesApart, AroundStores
<1> QED
  BY <1>3, <1>4

(* What a store does to memory, when it is written back. *)
Stored(a, v) ==
  mem'.data = IF a \in Addr \ MmioPort THEN [mem.data EXCEPT ![a] = v] ELSE mem.data

(* A store to an address that has an entry updates the one that answers. *)
LEMMA HistoryUpdated ==
  ASSUME TypeOK, HistoryCoherent, NEW a \in Word, NEW v \in Word, Hits(a) # {},
         mem_history' = [mem_history EXCEPT ![Hit(a)].data = v], Stored(a, v)
  PROVE  HistoryCoherent'
<1>1. /\ mem_history \in [Slot -> MemWrite] /\ Hit(a) \in Slot
      /\ mem_history[Hit(a)].addr = a
  BY HitInHits DEF TypeOK, Hits
<1>2. \A i \in Slot : /\ mem_history'[i].valid = mem_history[i].valid
                      /\ mem_history'[i].addr = mem_history[i].addr
                      /\ i # Hit(a) => mem_history'[i] = mem_history[i]
  BY <1>1 DEF MemWrite
<1>3. mem_history'[Hit(a)].data = v
  BY <1>1 DEF MemWrite
<1>4. \A b : Hits(b)' = Hits(b) /\ Hit(b)' = Hit(b)
  <2>1. \A b : Hits(b)' = Hits(b)
    BY <1>2 DEF Hits
  <2> QED
    BY <2>1 DEF Hit
<1>5. ASSUME NEW b \in Addr \ (MmioPort \union KbdPort), Hits(b) # {}
      PROVE  mem_history'[Hit(b)].data = mem'.data[b]
  <2>1. Hit(b) \in Slot /\ mem_history[Hit(b)].addr = b
    BY <1>5, HitInHits DEF Hits
  <2>2. mem.data \in [Addr -> Word]
    BY DEF TypeOK, Memory
  <2>3. CASE b = a
    BY <1>3, <1>5, <2>2, <2>3 DEF Stored
  <2>4. CASE b # a
    <3>1. mem_history'[Hit(b)] = mem_history[Hit(b)]
      BY <1>1, <1>2, <2>1, <2>4
    <3>2. mem'.data[b] = mem.data[b]
      BY <1>5, <2>2, <2>4 DEF Stored
    <3> QED
      BY <1>5, <3>1, <3>2 DEF HistoryCoherent, KbdPort
  <2> QED
    BY <2>3, <2>4
<1> QED
  BY <1>4, <1>5 DEF HistoryCoherent, KbdPort

(* A word of which no entry is known pushes the oldest entry out.          *)
LEMMA HistoryShifted ==
  ASSUME TypeOK, HistoryCoherent, NEW a \in Word, NEW v \in Word, Hits(a) = {},
         mem_history' = [i \in Slot |-> IF i = 0 THEN [valid |-> TRUE, addr |-> a, data |-> v]
                                        ELSE mem_history[i - 1]],
         Stored(a, v)
  PROVE  HistoryCoherent'
<1>1. /\ HIST \in Nat /\ HIST > 0 /\ Slot = 0 .. HIST - 1
      /\ mem.data \in [Addr -> Word]
  BY CpuAssumption DEF Slot, TypeOK, Memory
<1>2. /\ mem_history'[0] = [valid |-> TRUE, addr |-> a, data |-> v]
      /\ \A i \in Slot \ {0} : mem_history'[i] = mem_history[i - 1] /\ i - 1 \in Slot
  BY <1>1
<1>3. SUFFICES ASSUME NEW b \in Addr \ (MmioPort \union KbdPort), Hits(b)' # {}
               PROVE  mem_history'[Hit(b)'].data = mem'.data[b]
  BY DEF HistoryCoherent, KbdPort
<1>4. /\ Hit(b)' \in Hits(b)' /\ Hits(b)' \subseteq Slot
      /\ \A j \in Hits(b)' : Hit(b)' <= j
  <2>1. Hits(b)' \subseteq Slot /\ Hits(b)' \subseteq Nat
    BY <1>1 DEF Hits
  <2>2. \E i \in Hits(b)' : \A j \in Hits(b)' : i <= j
    BY <1>3, <2>1, LeastOf
  <2> QED
    BY <2>1, <2>2 DEF Hit
<1>5. CASE b = a
  <2>1. 0 \in Hits(b)'
    BY <1>1, <1>2, <1>5 DEF Hits
  <2>2. Hit(b)' = 0
    BY <1>1, <1>4, <2>1
  <2> QED
    BY <1>1, <1>2, <1>3, <1>5, <2>2 DEF Stored
<1>6. CASE b # a
  <2> DEFINE k == Hit(b)'
  <2>1. k # 0
    BY <1>2, <1>4, <1>6 DEF Hits
  <2>2. k \in Slot /\ k - 1 \in Slot /\ mem_history'[k] = mem_history[k - 1]
    BY <1>2, <1>4, <2>1
  <2>3. k - 1 \in Hits(b)
    BY <1>4, <2>2 DEF Hits
  <2>4. ASSUME NEW j \in Hits(b) PROVE k - 1 <= j
    <3>1. j \in Slot /\ mem_history[j].valid /\ mem_history[j].addr = b
      BY DEF Hits
    <3>2. CASE j + 1 \in Slot
      <4>1. mem_history'[j + 1] = mem_history[j]
        BY <1>1, <1>2, <3>1, <3>2
      <4>2. j + 1 \in Hits(b)'
        BY <3>1, <3>2, <4>1 DEF Hits
      <4> QED
        BY <1>1, <1>4, <2>2, <3>1, <4>2
    <3>3. CASE j + 1 \notin Slot
      BY <1>1, <2>2, <3>1, <3>3
    <3> QED
      BY <3>2, <3>3
  <2>5. Hit(b) = k - 1
    <3>1. Hit(b) \in Hits(b) /\ Hit(b) <= k - 1 /\ k - 1 <= Hit(b)
      BY <2>3, <2>4, HitLeast
    <3>2. Hit(b) \in Int /\ k - 1 \in Int
      BY <1>1, <2>2, <3>1 DEF Hits
    <3> QED
      BY <3>1, <3>2
  <2>6. mem_history[k - 1].data = mem.data[b]
    BY <1>3, <2>3, <2>5 DEF HistoryCoherent, KbdPort
  <2>7. mem'.data[b] = mem.data[b]
    BY <1>1, <1>3, <1>6 DEF Stored
  <2> QED
    BY <2>2, <2>6, <2>7
<1> QED
  BY <1>5, <1>6

---------------------------------------------------------------------------
(* Write back *)

(* Reading a word takes at most a key, storing one changes at most a word. *)
LEMMA ReadData == \A m \in Memory, a \in Word : after_read_u32(m, a).data = m.data
  BY DEF after_read_u32, Memory

(* STOREW changes its word and no other, ports and out of range aside. *)
LEMMA WriteData ==
  ASSUME NEW m \in Memory, NEW a \in Word, NEW v \in Word
  PROVE  write_u32(m, a, v).data =
           IF a \in Addr \ MmioPort THEN [m.data EXCEPT ![a] = v] ELSE m.data
<1>1. CASE a \in MmioPort
  BY <1>1 DEF write_u32, Memory
<1>2. CASE a \notin MmioPort
  BY <1>2 DEF write_u32, write_u32_direct, Memory
<1> QED
  BY <1>1, <1>2

(* What a store changes. *)
LEMMA StoreData ==
  ASSUME NEW m \in Memory, NEW a \in Word, NEW v \in Word, NEW b \in Addr, b # a
  PROVE  write_u32(m, a, v).data[b] = m.data[b] /\ write_u8(m, a, v).data[b] = m.data[b]
<1>1. write_u32(m, a, v).data[b] = m.data[b]
  <2>1. m.data \in [Addr -> Word]
    BY DEF Memory
  <2>2. write_u32(m, a, v).data = IF a \in Addr \ MmioPort THEN [m.data EXCEPT ![a] = v]
                                  ELSE m.data
    BY WriteData
  <2> QED
    BY <2>1, <2>2
<1>2. write_u8(m, a, v).data[b] = m.data[b]
  BY DEF write_u8, write_u32_direct, Memory
<1> QED
  BY <1>1, <1>2

(* The low byte of a word that is a byte. *)
LEMMA LowOfByte == \A w \in Word : w < BYTE => Low(w) = w
  BY ZeroWord, MemoryAssumption DEF Low

(* STOREB over a word that is a byte writes it all. *)
LEMMA WriteByte ==
  ASSUME NEW m \in Memory, NEW a \in Addr, NEW v \in Word, v < BYTE, m.data[a] < BYTE
  PROVE  write_u8(m, a, v).data = [m.data EXCEPT ![a] = v]
<1>1. m.data \in [Addr -> Word] /\ m.data[a] \in Word
  BY DEF Memory
<1>2. read_u32_direct(m, a) = m.data[a] /\ read_u8(m, a) = m.data[a] /\ Low(v) = v
  BY <1>1, LowOfByte DEF read_u8, read_u32_direct
<1>3. m.data[a] - m.data[a] + v = v
  BY <1>1, WordInt
<1>4. write_u8(m, a, v) = write_u32_direct(m, a, v)
  BY <1>2, <1>3 DEF write_u8
<1> QED
  BY <1>4 DEF write_u32_direct, Memory

(* What a write back does to memory and to the history. *)
LEMMA WrittenBack ==
  ASSUME TypeOK, EntriesApart, StoreApart, WbRetire
  PROVE  IF exwb.mem_write
           THEN /\ Stored(exwb.mem_addr, exwb.w_data)
                /\ mem_history' = Recorded(exwb.mem_addr, exwb.w_data)
                /\ exwb.mem_addr \in Words \union Bytes \union Sink
                /\ exwb.mem_addr \in Bytes => exwb.w_data < BYTE
           ELSE mem'.data = mem.data /\ mem_history' = mem_history
<1> DEFINE m == IF LoadFromMemory(exwb) THEN after_read_u32(mem, exwb.mem_addr) ELSE mem
           a == exwb.mem_addr
           v == exwb.w_data
<1>1. /\ exwb.is_valid /\ InFlight = exwb /\ mem' = MemAfter(exwb)
      /\ mem_history' = IF exwb.mem_write THEN Recorded(a, v) ELSE mem_history
  BY DEF WbRetire, InFlight
<1>2. a \in Word /\ v \in Word /\ mem \in Memory /\ exwb.mem_write \in BOOLEAN
  BY DEF TypeOK, ExWb
<1>3. m \in Memory /\ m.data = mem.data
  BY <1>2, AccessType, ReadData
<1>4. CASE ~exwb.mem_write
  BY <1>1, <1>3, <1>4 DEF MemAfter
<1>5. CASE exwb.mem_write /\ exwb.mem_u8
  <2>1. a \in Bytes /\ v < BYTE
    BY <1>1, <1>5 DEF StoreApart
  <2>2. a \in Addr \ MmioPort /\ m.data[a] < BYTE
    BY <1>3, <2>1, DisciplineAssumption DEF EntriesApart
  <2>3. mem' = write_u8(m, a, v)
    BY <1>1, <1>5 DEF MemAfter
  <2> HIDE DEF m
  <2>4. write_u8(m, a, v).data = [m.data EXCEPT ![a] = v]
    BY <1>2, <1>3, <2>1, <2>2, WriteByte
  <2> QED
    BY <1>1, <1>3, <1>5, <2>1, <2>2, <2>3, <2>4 DEF Stored
<1>6. CASE exwb.mem_write /\ ~exwb.mem_u8
  <2>1. a \in Words \union Sink
    BY <1>1, <1>6 DEF StoreApart
  <2>2. a \notin Bytes
    BY <2>1, DisciplineAssumption DEF Sink
  <2>3. mem' = write_u32(m, a, v)
    BY <1>1, <1>6 DEF MemAfter
  <2> HIDE DEF m
  <2>4. write_u32(m, a, v).data = IF a \in Addr \ MmioPort THEN [m.data EXCEPT ![a] = v]
                                 ELSE m.data
    BY <1>2, <1>3, WriteData
  <2> QED
    BY <1>1, <1>3, <1>6, <2>1, <2>2, <2>3, <2>4 DEF Stored
<1> QED
  BY <1>4, <1>5, <1>6

(* The words that instructions are executed from stay as they are.         *)
CodeUntouched == \A a \in Code : read_u32_direct(mem', a) = read_u32_direct(mem, a)

(* Writes to the stack leave the code alone. *)
LEMMA CodeAroundStores == AroundStores => CodeUntouched
  BY DisciplineAssumption DEF AroundStores, CodeUntouched, read_u32_direct

(* What wb_stage stores goes to memory and to the history alike. *)
LEMMA HistoryWb ==
  ASSUME TypeOK, HistoryCoherent, EntriesApart, StoreApart, wb_stage
  PROVE  HistoryCoherent' /\ EntriesApart' /\ CodeUntouched
<1> DEFINE a == exwb.mem_addr
           v == exwb.w_data
<1>1. CASE WbBubble
  <2>1. AroundStores /\ mem_history' = mem_history
    BY <1>1 DEF WbBubble, AroundStores
  <2> QED
    BY <2>1, HistoryAround, CodeAroundStores
<1>2. CASE WbRetire /\ ~exwb.mem_write
  <2>1. AroundStores /\ mem_history' = mem_history
    BY <1>2, WrittenBack DEF AroundStores
  <2> QED
    BY <2>1, HistoryAround, CodeAroundStores
<1>3. CASE WbRetire /\ exwb.mem_write
  <2>1. /\ Stored(a, v) /\ mem_history' = Recorded(a, v)
        /\ a \in Words \union Bytes \union Sink /\ (a \in Bytes => v < BYTE)
    BY <1>3, WrittenBack
  <2>2. a \in Word /\ v \in Word /\ mem.data \in [Addr -> Word] /\ mem_history \in [Slot -> MemWrite]
    BY DEF TypeOK, ExWb, Memory
  <2> HIDE DEF a, v
  <2>3. HistoryCoherent'
    <3>1. CASE Hits(a) # {}
      BY <2>1, <2>2, <3>1, HistoryUpdated DEF Recorded
    <3>2. CASE Hits(a) = {}
      BY <2>1, <2>2, <3>2, HistoryShifted DEF Recorded
    <3> QED
      BY <3>1, <3>2
  <2>4. ASSUME NEW i \in Slot, mem_history'[i].valid
        PROVE  mem_history'[i].addr \in Words \union Bytes \union Sink
    <3>1. CASE Hits(a) # {}
      <4>1. mem_history' = [mem_history EXCEPT ![Hit(a)].data = v] /\ Hit(a) \in Slot
        BY <2>1, <3>1, HitLeast DEF Recorded, Hits
      <4>2. mem_history'[i].valid = mem_history[i].valid /\ mem_history'[i].addr = mem_history[i].addr
        BY <2>2, <4>1 DEF MemWrite
      <4> QED
        BY <2>4, <4>2 DEF EntriesApart
    <3>2. CASE Hits(a) = {}
      <4>1. mem_history'[i] = IF i = 0 THEN [valid |-> TRUE, addr |-> a, data |-> v]
                              ELSE mem_history[i - 1]
        BY <2>1, <3>2 DEF Recorded
      <4>2. i # 0 => i - 1 \in Slot
        BY CpuAssumption DEF Slot
      <4> QED
        BY <2>1, <2>4, <4>1, <4>2 DEF EntriesApart
    <3> QED
      BY <3>1, <3>2
  <2>5. ASSUME NEW b \in Bytes PROVE mem'.data[b] < BYTE
    BY <2>1, <2>2, DisciplineAssumption DEF Stored, EntriesApart
  <2>6. CodeUntouched
    <3>1. ASSUME NEW c \in Code \intersect Addr PROVE mem'.data[c] = mem.data[c]
      BY <2>1, <2>2, DisciplineAssumption DEF Stored, Sink
    <3> QED
      BY <3>1 DEF CodeUntouched, read_u32_direct
  <2> QED
    BY <2>3, <2>4, <2>5, <2>6 DEF EntriesApart
<1> QED
  BY <1>1, <1>2, <1>3 DEF wb_stage

---------------------------------------------------------------------------
(* The stages *)

(* Whether a load of a keyboard port waits is seen from these alone, *)
LEMMA KeyLoadKept ==
  ASSUME InFlight' = InFlight, mem_history' = mem_history
  PROVE  KeyLoadInFlight' = KeyLoadInFlight
  BY DEF KeyLoadInFlight, LoadFromMemory, Hits

(* and where it waits from these. *)
LEMMA KeyLoadPlace ==
  ASSUME KeyLoadWaits, InFlight' = InFlight, mem_history' = mem_history, mem'.data = mem.data,
         registers' = registers, ArchPc' = ArchPc
  PROVE  KeyLoadWaits'
<1>1. Place' = Place /\ KeyLoadInFlight' = KeyLoadInFlight
  BY KeyLoadKept DEF Place
<1>2. read_u32_direct(mem', Place) = read_u32_direct(mem, Place)
  BY DEF read_u32_direct
<1> QED
  BY <1>1, <1>2 DEF KeyLoadWaits, ReadReg

(* Steps between the stages, the timer, and those that do nothing.         *)
LEMMA ApartIdle ==
  ASSUME Apart, UNCHANGED <<registers, mem_history, pipe, flush>>, mem'.data = mem.data,
         ArchPc' = ArchPc, InFlight' = InFlight, stage \in BeforeEx, stage' \in BeforeEx
  PROVE  Apart'
<1>1. AroundStores /\ CodeUntouched
  BY CodeAroundStores DEF AroundStores
<1>2. HistoryCoherent' /\ EntriesApart'
  BY <1>1, HistoryAround DEF Apart
<1>3. StoreApart'
  BY DEF Apart, StoreApart
<1>4. CodeKept'
  BY <1>1 DEF Apart, CodeKept, InMemory, DecodedFrom, CodeUntouched, BeforeEx, pipe, flush
<1>5. KeyLoadWaits'
  BY KeyLoadPlace DEF Apart
<1> QED
  BY <1>2, <1>3, <1>4, <1>5 DEF Apart

(* wb_stage keeps Apart. *)
LEMMA ApartWb ==
  ASSUME TypeOK, Apart, wb_stage
  PROVE  Apart'
<1>1. HistoryCoherent' /\ EntriesApart' /\ CodeUntouched
  BY HistoryWb DEF Apart
<1>2. stage = "wb" /\ stage' = "int" /\ ifid' = ifid /\ idex' = idex
  BY DEF wb_stage, WbBubble, WbRetire, pipe
<1>3. ~InFlight'.is_valid
  BY <1>2 DEF InFlight, ZeroExWb
<1>4. CodeKept'
  BY <1>1, <1>2 DEF Apart, CodeKept, InMemory, DecodedFrom, CodeUntouched, BeforeEx
<1> QED
  BY <1>1, <1>3, <1>4 DEF Apart, StoreApart, KeyLoadWaits, KeyLoadInFlight

(* The registers of the interrupted program are saved below its stack.     *)
LEMMA FrameAround ==
  ASSUME NEW m \in Memory, m.data = mem.data, Frame \subseteq Stack, NEW regs,
         mem' = SaveRegisters(m, csr.SP, regs)
  PROVE  AroundStores
<1>1. mem'.data = [a \in Addr |->
         IF Minus(csr.SP, a) \in 1 .. FrameSize THEN regs[NREG - Minus(csr.SP, a)] ELSE mem.data[a]]
  BY DEF SaveRegisters, Memory
<1> QED
  BY <1>1 DEF AroundStores, Frame

(* So does an interrupt that saves its frame in the stack. *)
LEMMA ApartAccept ==
  ASSUME TypeOK, Apart, Disciplined, IntAccept
  PROVE  Apart'
<1> DEFINE m == after_read_u32(mem, Vector(csr, IrqCode(csr)))
<1>1. stage = "int" /\ stage' = "ex" /\ mem_history' = mem_history
      /\ mem' = SaveRegisters(m, csr.SP, registers)
      /\ Accepts(csr)
  BY DEF IntAccept, AcceptInterrupt
<1>2. csr \in CsrFile /\ mem \in Memory /\ IrqCode(csr) \in Int
  BY IrqCodeType, MachineAssumption DEF TypeOK
<1>3. m \in Memory /\ m.data = mem.data
  BY <1>2, VectorType, AccessType, ReadData
<1> HIDE DEF m
<1>4. AroundStores
  BY <1>1, <1>3, FrameAround DEF Disciplined
<1>5. HistoryCoherent' /\ EntriesApart'
  BY <1>1, <1>4, HistoryAround DEF Apart
<1>6. ~InFlight'.is_valid
  BY <1>1 DEF InFlight, ZeroExWb
<1>7. ~ifid'.is_valid /\ ~idex'.is_valid
  BY DEF IntAccept, AcceptInterrupt, TypeOK, IfId, IdEx
<1>8. CodeKept'
  BY <1>1, <1>7 DEF CodeKept
<1> QED
  BY <1>5, <1>6, <1>8 DEF Apart, StoreApart, KeyLoadWaits, KeyLoadInFlight

---------------------------------------------------------------------------
(* Execute *)

(* What an instruction passes on to its write back. *)
LEMMA PassedFields ==
  ASSUME TypeOK, NEW b \in BOOLEAN
  PROVE  /\ Passed(b) \in ExWb
         /\ Passed(b).opcode = idex.d.opcode /\ Passed(b).is_valid = b
         /\ Passed(b).reg_write = idex.reg_write /\ Passed(b).mem_read = idex.mem_read
         /\ Passed(b).mem_write = idex.mem_write /\ Passed(b).flags_write = FALSE
<1>1. next_exwb \in ExWb
  BY DEF TypeOK
<1> QED
  BY <1>1, PassedType DEF Passed, ExWb

(* What ex_stage passes on with a result: the control bits of id_stage. *)
LEMMA ResultFields ==
  ASSUME TypeOK, NEW v \in Word
  PROVE  /\ Result(v) \in ExWb
         /\ Result(v).opcode = idex.d.opcode /\ Result(v).is_valid
         /\ Result(v).reg_write = idex.reg_write /\ Result(v).mem_read = idex.mem_read
         /\ Result(v).mem_write = idex.mem_write /\ Result(v).flags_write = FALSE
         /\ Result(v).alu_result = v /\ Result(v).n_rd = idex.d.rd
<1> DEFINE P == Passed(TRUE)
<1>1. /\ P \in ExWb /\ P.opcode = idex.d.opcode /\ P.is_valid
      /\ P.reg_write = idex.reg_write /\ P.mem_read = idex.mem_read
      /\ P.mem_write = idex.mem_write /\ P.flags_write = FALSE
  BY PassedFields
<1>2. Result(v) = [P EXCEPT !.alu_result = v, !.n_rd = idex.d.rd] /\ Result(v) \in ExWb
  BY ResultType DEF Result
<1> HIDE DEF P
<1> QED
  BY <1>1, <1>2 DEF ExWb

(* What the instruction executed is, and how it is carried out. *)
ExecutesOne == ex_stage /\ idex.is_valid /\ stage' = "id"

(* What no case of ex_stage changes. *)
LEMMA ExecutesFrame ==
  ASSUME ExecutesOne
  PROVE  /\ stage = "ex" /\ idex.d.opcode \in Opcode
         /\ UNCHANGED <<mem_history, halted, ifid, idex, exwb, next_ifid, next_idex>>
  BY DEF ExecutesOne, ex_stage, ExBubble, ExDivTrap, Executes, ExAlu, ExCmp, ExMov, ExLui, ExAui,
         ExLoadi, ExNop, ExLoad, ExStore, ExJmp, ExBjmp, ExCall, ExRet, ExSyscall, ExTrap,
         ExIret, ExCsrr, ExCsrw, ExPush, ExPop, ExInvalid, Opcode

(* The result of an operation, its flags, what a load and a store ask for. *)
LEMMA AluPassed ==
  ASSUME TypeOK, ExAlu
  PROVE  /\ next_exwb'.is_valid /\ next_exwb'.opcode = idex.d.opcode
         /\ next_exwb'.reg_write = idex.reg_write /\ next_exwb'.mem_read = idex.mem_read
         /\ next_exwb'.mem_write = idex.mem_write /\ next_exwb'.n_rd = idex.d.rd
         /\ next_exwb'.alu_result = AluResult(idex.d.opcode, AluLeft, AluRight)
         /\ next_exwb'.flags_write
         /\ next_exwb'.f = AluFlags(idex.d.opcode, AluResult(idex.d.opcode, AluLeft, AluRight),
                                    AluLeft, AluRight)
<1> DEFINE v == AluResult(idex.d.opcode, AluLeft, AluRight)
           fl == AluFlags(idex.d.opcode, v, AluLeft, AluRight)
           R == Result(v)
<1>1. next_exwb' = [R EXCEPT !.f = fl, !.flags_write = TRUE]
  BY DEF ExAlu, Passes
<1>2. v \in Word
  BY OperandType, AluResultType DEF ExAlu, Executes
<1>3. /\ R \in ExWb /\ R.opcode = idex.d.opcode /\ R.is_valid
      /\ R.reg_write = idex.reg_write /\ R.mem_read = idex.mem_read
      /\ R.mem_write = idex.mem_write /\ R.alu_result = v /\ R.n_rd = idex.d.rd
  BY <1>2, ResultFields
<1> HIDE DEF R, v, fl
<1>4. /\ next_exwb'.is_valid /\ next_exwb'.opcode = idex.d.opcode
      /\ next_exwb'.reg_write = idex.reg_write /\ next_exwb'.mem_read = idex.mem_read
      /\ next_exwb'.mem_write = idex.mem_write /\ next_exwb'.n_rd = idex.d.rd
      /\ next_exwb'.alu_result = v /\ next_exwb'.flags_write /\ next_exwb'.f = fl
  BY <1>1, <1>3 DEF ExWb
<1> QED
  BY <1>4 DEF v, fl

(* What CMP passes to wb_stage, *)
LEMMA CmpPassed ==
  ASSUME TypeOK, ExCmp
  PROVE  /\ next_exwb'.is_valid /\ next_exwb'.opcode = idex.d.opcode
         /\ next_exwb'.reg_write = idex.reg_write /\ next_exwb'.mem_read = idex.mem_read
         /\ next_exwb'.mem_write = idex.mem_write /\ next_exwb'.flags_write
         /\ next_exwb'.f = update_flags_sub(Minus(rs1_val, AluRight), rs1_val, AluRight)
<1> DEFINE fl == update_flags_sub(Minus(rs1_val, AluRight), rs1_val, AluRight)
           P == Passed(TRUE)
<1>1. next_exwb' = [P EXCEPT !.f = fl, !.flags_write = TRUE]
  BY DEF ExCmp, Passes
<1>2. /\ P \in ExWb /\ P.opcode = idex.d.opcode /\ P.is_valid
      /\ P.reg_write = idex.reg_write /\ P.mem_read = idex.mem_read
      /\ P.mem_write = idex.mem_write
  BY PassedFields
<1> HIDE DEF P, fl
<1>3. /\ next_exwb'.is_valid /\ next_exwb'.opcode = idex.d.opcode
      /\ next_exwb'.reg_write = idex.reg_write /\ next_exwb'.mem_read = idex.mem_read
      /\ next_exwb'.mem_write = idex.mem_write /\ next_exwb'.flags_write /\ next_exwb'.f = fl
  BY <1>1, <1>2 DEF ExWb
<1> QED
  BY <1>3 DEF fl

(* what a load does, *)
LEMMA LoadPassed ==
  ASSUME TypeOK, ExLoad
  PROVE  /\ next_exwb'.is_valid /\ next_exwb'.opcode = idex.d.opcode
         /\ next_exwb'.mem_read /\ next_exwb'.mem_write = idex.mem_write
         /\ ~next_exwb'.flags_write
         /\ next_exwb'.mem_addr = DataAddr /\ next_exwb'.n_rd = idex.d.rd
         /\ next_exwb'.mem_u8 = (idex.d.opcode = "LOADB")
<1> DEFINE P == Passed(TRUE)
           b == (idex.d.opcode = "LOADB")
<1>1. next_exwb' = [P EXCEPT !.mem_addr = DataAddr, !.n_rd = idex.d.rd, !.mem_read = TRUE,
                             !.mem_u8 = b]
  BY DEF ExLoad, Passes
<1>2. /\ P \in ExWb /\ P.opcode = idex.d.opcode /\ P.is_valid
      /\ P.mem_write = idex.mem_write /\ P.flags_write = FALSE
  BY PassedFields
<1> HIDE DEF P, b
<1>3. /\ next_exwb'.is_valid /\ next_exwb'.opcode = idex.d.opcode
      /\ next_exwb'.mem_read /\ next_exwb'.mem_write = idex.mem_write
      /\ ~next_exwb'.flags_write
      /\ next_exwb'.mem_addr = DataAddr /\ next_exwb'.n_rd = idex.d.rd
      /\ next_exwb'.mem_u8 = b
  BY <1>1, <1>2 DEF ExWb
<1> QED
  BY <1>3 DEF b

(* a store, *)
LEMMA StorePassed ==
  ASSUME TypeOK, ExStore
  PROVE  /\ next_exwb'.is_valid /\ next_exwb'.opcode = idex.d.opcode
         /\ next_exwb'.reg_write = idex.reg_write /\ next_exwb'.mem_read = idex.mem_read
         /\ next_exwb'.mem_write /\ ~next_exwb'.flags_write
         /\ next_exwb'.mem_addr = DataAddr
         /\ next_exwb'.mem_u8 = (idex.d.opcode = "STOREB")
         /\ next_exwb'.w_data = IF idex.d.opcode = "STOREB" THEN Low(rd_val) ELSE rd_val
<1> DEFINE P == Passed(TRUE)
           b == (idex.d.opcode = "STOREB")
           v == IF b THEN Low(rd_val) ELSE rd_val
<1>1. next_exwb' = [P EXCEPT !.mem_addr = DataAddr, !.w_data = v, !.mem_write = TRUE, !.mem_u8 = b]
  BY DEF ExStore, Passes
<1>2. /\ P \in ExWb /\ P.opcode = idex.d.opcode /\ P.is_valid
      /\ P.reg_write = idex.reg_write /\ P.mem_read = idex.mem_read
      /\ P.flags_write = FALSE
  BY PassedFields
<1> HIDE DEF P, b, v
<1>3. /\ next_exwb'.is_valid /\ next_exwb'.opcode = idex.d.opcode
      /\ next_exwb'.reg_write = idex.reg_write /\ next_exwb'.mem_read = idex.mem_read
      /\ next_exwb'.mem_write /\ ~next_exwb'.flags_write
      /\ next_exwb'.mem_addr = DataAddr /\ next_exwb'.mem_u8 = b /\ next_exwb'.w_data = v
  BY <1>1, <1>2 DEF ExWb
<1> QED
  BY <1>3 DEF b, v

(* POP, *)
LEMMA PopPassed ==
  ASSUME TypeOK, ExPop
  PROVE  /\ next_exwb'.is_valid /\ next_exwb'.opcode = idex.d.opcode
         /\ next_exwb'.reg_write /\ next_exwb'.mem_read = idex.mem_read
         /\ next_exwb'.mem_write = idex.mem_write /\ ~next_exwb'.flags_write
         /\ next_exwb'.alu_result = read_u32(mem, csr.SP) /\ next_exwb'.n_rd = idex.d.rd
<1> DEFINE v == read_u32(mem, csr.SP)
           R == Result(v)
<1>1. next_exwb' = [R EXCEPT !.reg_write = TRUE]
  BY DEF ExPop
<1>2. v \in Word
  BY AccessType DEF TypeOK, CsrFile, Csr
<1>3. /\ R \in ExWb /\ R.opcode = idex.d.opcode /\ R.is_valid /\ R.mem_read = idex.mem_read
      /\ R.mem_write = idex.mem_write /\ R.flags_write = FALSE /\ R.alu_result = v
      /\ R.n_rd = idex.d.rd
  BY <1>2, ResultFields
<1> HIDE DEF R, v
<1>4. /\ next_exwb'.is_valid /\ next_exwb'.opcode = idex.d.opcode
      /\ next_exwb'.reg_write /\ next_exwb'.mem_read = idex.mem_read
      /\ next_exwb'.mem_write = idex.mem_write /\ ~next_exwb'.flags_write
      /\ next_exwb'.alu_result = v /\ next_exwb'.n_rd = idex.d.rd
  BY <1>1, <1>3 DEF ExWb
<1> QED
  BY <1>4 DEF v

(* The operations whose result is a word of their own. *)
LEMMA ValuePassed ==
  ASSUME TypeOK, ExMov \/ ExLui \/ ExAui \/ ExLoadi \/ ExCsrr
  PROVE  \E v \in Word :
           /\ next_exwb' = Result(v)
           /\ ExMov => v = rs1_val
           /\ ExLui => v = UpperImm
           /\ ExAui => v = Plus(rd_val, UpperImm)
           /\ ExLoadi => v = idex.d.imm
           /\ ExCsrr => v = csr[idex.d.csr]
<1>1. /\ rs1_val \in Word /\ UpperImm \in Word /\ Plus(rd_val, UpperImm) \in Word
      /\ idex.d.imm \in Word /\ csr[idex.d.csr] \in Word
  BY AddressType, OperandType DEF TypeOK, CsrFile
<1> QED
  BY <1>1 DEF ExMov, ExLui, ExAui, ExLoadi, ExCsrr, Executes, Passes

(* The instructions that leave nothing to be written back. *)
LEMMA PlainPassed ==
  ASSUME ExNop \/ ExRet \/ ExCsrw \/ ExPush
  PROVE  next_exwb' = Passed(TRUE)
  BY DEF ExNop, ExRet, ExCsrw, ExPush, Passes

(* and jumps, traps and returns: nothing. *)
LEMMA NothingPassed ==
  ASSUME TypeOK, ExJmp \/ ExBjmp \/ ExCall \/ ExSyscall \/ ExTrap \/ ExIret \/ ExInvalid
  PROVE  ~next_exwb'.is_valid
  BY PassedFields DEF ExJmp, ExBjmp, ExCall, ExSyscall, ExTrap, ExIret, ExInvalid, Passes

(* The instruction in idex is decoded from memory.                         *)
LEMMA DecodedEx ==
  ASSUME Apart, ExecutesOne
  PROVE  /\ idex.reg_write = (idex.d.opcode \in WritesReg)
         /\ idex.mem_read  = (idex.d.opcode \in ReadsMem)
         /\ idex.mem_write = (idex.d.opcode \in WritesMem)
         /\ idex.curr_pc \in Code => idex.d = Decode[read_u32_direct(mem, idex.curr_pc)]
<1>1. stage = "ex" /\ idex.is_valid
  BY ExecutesFrame DEF ExecutesOne
<1> QED
  BY <1>1 DEF Apart, CodeKept, DecodedFrom, BeforeEx

(* All others pass on neither a load nor a store, PUSH being left out. *)
LEMMA OnlyLoadsAndStores ==
  ASSUME TypeOK, Apart, Disciplined, ExecutesOne, ~ExLoad, ~ExStore
  PROVE  next_exwb'.is_valid => ~next_exwb'.mem_read /\ ~next_exwb'.mem_write
<1>1. /\ idex.mem_read  = (idex.d.opcode \in ReadsMem)
      /\ idex.mem_write = (idex.d.opcode \in WritesMem)
      /\ stage = "ex" /\ idex.is_valid /\ idex.d.opcode # "PUSH"
  BY DecodedEx, ExecutesFrame DEF ExecutesOne, Disciplined, Executed
<1>2. CASE ExAlu
  BY <1>1, <1>2, AluPassed DEF ExAlu, Executes, AluOp, LogicOp, ShiftOp, ReadsMem, WritesMem
<1>3. CASE ExCmp
  BY <1>1, <1>3, CmpPassed DEF ExCmp, Executes, ReadsMem, WritesMem
<1>4. CASE ExMov \/ ExLui \/ ExAui \/ ExLoadi \/ ExCsrr
  <2>1. PICK v \in Word : next_exwb' = Result(v)
    BY <1>4, ValuePassed
  <2>2. next_exwb'.mem_read = idex.mem_read /\ next_exwb'.mem_write = idex.mem_write
    BY <2>1, ResultFields
  <2> QED
    BY <1>1, <1>4, <2>2 DEF ExMov, ExLui, ExAui, ExLoadi, ExCsrr, Executes, ReadsMem, WritesMem
<1>5. CASE ExNop \/ ExRet \/ ExCsrw \/ ExPush
  <2>1. next_exwb'.mem_read = idex.mem_read /\ next_exwb'.mem_write = idex.mem_write
    BY <1>5, PlainPassed, PassedFields
  <2> QED
    BY <1>1, <1>5, <2>1 DEF ExNop, ExRet, ExCsrw, ExPush, Executes, ReadsMem, WritesMem
<1>6. CASE ExPop
  BY <1>1, <1>6, PopPassed DEF ExPop, Executes, ReadsMem, WritesMem
<1>7. CASE ExJmp \/ ExBjmp \/ ExCall \/ ExSyscall \/ ExTrap \/ ExIret \/ ExInvalid
  BY <1>7, NothingPassed
<1> QED
  BY <1>1, <1>2, <1>3, <1>4, <1>5, <1>6, <1>7 DEF ExecutesOne, ex_stage, ExBubble, ExDivTrap

(* Only calls and handlers change memory at once. *)
LEMMA ExecuteAround ==
  ASSUME TypeOK, Disciplined, ExecutesOne
  PROVE  AroundStores
<1>1. /\ stage = "ex" /\ idex.is_valid /\ mem \in Memory /\ csr \in CsrFile
      /\ ReturnAddr \in Word /\ PushSp \in Word /\ csr.SP \in Word
  BY ExecutesFrame, AddressType DEF ExecutesOne, TypeOK
<1>2. CASE ExCall
  <2>1. mem' = write_u32(mem, PushSp, ReturnAddr)
    BY <1>2 DEF ExCall
  <2>2. mem'.data = IF PushSp \in Addr \ MmioPort THEN [mem.data EXCEPT ![PushSp] = ReturnAddr]
                    ELSE mem.data
    BY <1>1, <2>1, WriteData
  <2>3. PushSp \in Stack
    BY <1>1, <1>2 DEF Disciplined, Executed, ExCall, Executes
  <2>4. mem.data \in [Addr -> Word]
    BY <1>1 DEF Memory
  <2> QED
    BY <2>2, <2>3, <2>4 DEF AroundStores
<1>3. CASE ExSyscall
  <2> DEFINE m == after_read_u32(mem, Vector(csr, SWI))
  <2>1. mem' = SaveRegisters(m, csr.SP, registers)
    BY <1>3 DEF ExSyscall
  <2>2. m \in Memory /\ m.data = mem.data
    <3>1. Vector(csr, SWI) \in Word
      BY <1>1, MachineAssumption, VectorType
    <3> QED
      BY <1>1, <3>1, AccessType, ReadData
  <2>3. Frame \subseteq Stack
    BY <1>1, <1>3 DEF Disciplined, Executed, ExSyscall, Executes
  <2> HIDE DEF m
  <2> QED
    BY <2>1, <2>2, <2>3, FrameAround
<1>4. CASE ExRet \/ ExPop
  <2>1. mem' = after_read_u32(mem, csr.SP)
    BY <1>4 DEF ExRet, ExPop
  <2> QED
    BY <1>1, <2>1, ReadData DEF AroundStores
<1>5. CASE ExTrap
  <2>1. mem' = after_read_u32(mem, Vector(csr, idex.d.imm % CODES))
    BY <1>5 DEF ExTrap
  <2>2. idex.d.imm % CODES \in Int
    BY AddressType, WordInt, MachineAssumption
  <2> QED
    BY <1>1, <2>1, <2>2, VectorType, ReadData DEF AroundStores
<1>6. CASE ExPush
  BY <1>1, <1>6 DEF Disciplined, Executed, ExPush, Executes
<1>7. CASE \/ ExAlu \/ ExCmp \/ ExMov \/ ExLui \/ ExAui \/ ExLoadi \/ ExNop \/ ExLoad \/ ExStore
           \/ ExJmp \/ ExBjmp \/ ExIret \/ ExCsrr \/ ExCsrw \/ ExInvalid
  BY <1>7 DEF AroundStores, ExAlu, ExCmp, ExMov, ExLui, ExAui, ExLoadi, ExNop, ExLoad, ExStore,
              ExJmp, ExBjmp, ExIret, ExCsrr, ExCsrw, ExInvalid, Passes
<1> QED
  BY <1>1, <1>2, <1>3, <1>4, <1>5, <1>6, <1>7 DEF ExecutesOne, ex_stage, ExBubble, ExDivTrap

(* Executing a disciplined instruction keeps Apart. *)
LEMMA ApartExecute ==
  ASSUME TypeOK, Operands, Chain, Apart, Disciplined, ExecutesOne
  PROVE  Apart'
<1>1. /\ stage = "ex" /\ stage' = "id" /\ idex.is_valid /\ mem_history' = mem_history
      /\ ifid' = ifid /\ idex' = idex
  BY ExecutesFrame DEF ExecutesOne
<1>2. AroundStores /\ CodeUntouched
  BY ExecuteAround, CodeAroundStores
<1>3. HistoryCoherent' /\ EntriesApart'
  BY <1>1, <1>2, HistoryAround DEF Apart
<1>4. InFlight' = next_exwb'
  BY <1>1 DEF InFlight
<1>5. CodeKept'
  BY <1>1, <1>2 DEF Apart, CodeKept, InMemory, CodeUntouched, BeforeEx
<1>6. CASE ~ExLoad /\ ~ExStore
  <2>1. InFlight'.is_valid => ~InFlight'.mem_read /\ ~InFlight'.mem_write
    BY <1>4, <1>6, OnlyLoadsAndStores
  <2> QED
    BY <1>3, <1>5, <2>1 DEF Apart, StoreApart, KeyLoadWaits, KeyLoadInFlight, LoadFromMemory
<1>7. CASE ExStore
  <2>1. ~next_exwb'.mem_read
    BY <1>7, StorePassed, DecodedEx DEF ExStore, Executes, ReadsMem
  <2>2. ~KeyLoadInFlight'
    BY <1>4, <2>1 DEF KeyLoadInFlight, LoadFromMemory
  <2>3. StoreApart'
    <3>1. CASE idex.d.opcode = "STOREB"
      <4>1. DataAddr \in Bytes
        BY <1>1, <3>1 DEF Disciplined, Executed
      <4>2. Low(rd_val) < BYTE
        BY OperandType, LowType, MemoryAssumption
      <4> QED
        BY <1>4, <1>7, <3>1, <4>1, <4>2, StorePassed DEF StoreApart
    <3>2. CASE idex.d.opcode = "STOREW"
      <4>1. DataAddr \in Words \union Sink
        BY <1>1, <3>2 DEF Disciplined, Executed
      <4> QED
        BY <1>4, <1>7, <3>2, <4>1, StorePassed DEF StoreApart
    <3> QED
      BY <1>7, <3>1, <3>2 DEF ExStore, Executes
  <2> QED
    BY <1>3, <1>5, <2>2, <2>3 DEF Apart, KeyLoadWaits
<1>8. CASE ExLoad
  <2>1. ~next_exwb'.mem_write
    BY <1>8, LoadPassed, DecodedEx DEF ExLoad, Executes, WritesMem
  <2>2. StoreApart'
    BY <1>4, <2>1 DEF StoreApart
  <2>3. ASSUME KeyLoadInFlight'
        PROVE  /\ Decode[read_u32_direct(mem', Place')] = idex.d
               /\ idex.d.opcode = "LOADW" /\ Read(registers', idex.d.rs1) = rs1_val
    <3>1. ~next_exwb'.mem_u8
      BY <1>4, <2>3 DEF KeyLoadInFlight, LoadFromMemory
    <3>2. idex.d.opcode = "LOADW"
      BY <1>8, <3>1, LoadPassed DEF ExLoad, Executes
    <3>3. ArchPc = idex.curr_pc
      BY <1>1 DEF ArchPc, Oldest, Chain, BeforeEx
    <3>4. ArchPc' = Successor(idex.d)
      BY <1>1, ChainExecute DEF ExecutesOne
    <3>5. ArchPc' = Plus(idex.curr_pc, 1)
      BY <3>2, <3>3, <3>4 DEF Successor
    <3>6. idex.curr_pc \in Word
      BY DEF TypeOK, IdEx
    <3>7. Place' = idex.curr_pc
      BY <2>3, <3>5, <3>6, OneBack DEF Place
    <3>8. idex.curr_pc \in Code
      BY <1>1, ExecutesFrame DEF Disciplined, Executed
    <3>9. mem' = mem /\ registers' = registers
      BY <1>8 DEF ExLoad, Passes
    <3>10. rs1_val = ReadReg(idex.d.rs1)
      BY <1>1 DEF Operands, Forwarded
    <3> QED
      BY <3>2, <3>7, <3>8, <3>9, <3>10, DecodedEx DEF ReadReg
  <2>4. KeyLoadWaits'
    BY <1>4, <1>8, <2>1, <2>3, LoadPassed DEF KeyLoadWaits, DataAddr, ReadReg
  <2> QED
    BY <1>3, <1>5, <2>2, <2>4 DEF Apart
<1> QED
  BY <1>6, <1>7, <1>8

(* So does a bubble. *)
LEMMA ApartBubble ==
  ASSUME TypeOK, Apart, ExBubble
  PROVE  Apart'
<1>1. /\ stage = "ex" /\ stage' = "id" /\ mem' = mem /\ mem_history' = mem_history
      /\ ifid' = ifid
  BY DEF ExBubble
<1>2. AroundStores /\ CodeUntouched
  BY <1>1 DEF AroundStores, CodeUntouched
<1>3. HistoryCoherent' /\ EntriesApart'
  BY <1>1, <1>2, HistoryAround DEF Apart
<1>4. ~InFlight'.is_valid
  BY <1>1 DEF InFlight, ExBubble, TypeOK, ExWb
<1>5. CodeKept'
  BY <1>1, <1>2 DEF Apart, CodeKept, InMemory, CodeUntouched, BeforeEx
<1> QED
  BY <1>3, <1>4, <1>5 DEF Apart, StoreApart, KeyLoadWaits, KeyLoadInFlight

---------------------------------------------------------------------------
(* Decode, fetch, clock *)

(* Stages behind ex_stage change neither memory nor what is in flight.     *)
LEMMA ApartBehindEx ==
  ASSUME TypeOK, Chain, Apart, id_stage \/ if_stage \/ Clock, CodeKept'
  PROVE  Apart'
<1>1. /\ mem' = mem /\ mem_history' = mem_history /\ registers' = registers
      /\ InFlight' = InFlight
  BY DEF id_stage, IdBubble, IdDecode, if_stage, IfFlushed, IfFetch, Clock, InFlight, pipe
<1>2. ArchPc' = ArchPc
  BY ChainId, ChainIf, ChainClock
<1>3. AroundStores
  BY <1>1 DEF AroundStores
<1>4. HistoryCoherent' /\ EntriesApart'
  BY <1>1, <1>3, HistoryAround DEF Apart
<1>5. StoreApart'
  BY <1>1 DEF Apart, StoreApart
<1>6. KeyLoadWaits'
  BY <1>1, <1>2, KeyLoadPlace DEF Apart
<1> QED
  BY <1>4, <1>5, <1>6 DEF Apart

(* id_stage decodes what is in memory, *)
LEMMA CodeId == ASSUME TypeOK, CodeKept, id_stage PROVE CodeKept'
<1>1. stage = "id" /\ stage' = "if"
  BY DEF id_stage, IdBubble, IdDecode
<1>2. CASE IdBubble
  <2>1. ~next_idex'.is_valid
    BY <1>2 DEF IdBubble, TypeOK, IdEx
  <2> QED
    BY <1>1, <2>1 DEF CodeKept, BeforeEx
<1>3. CASE IdDecode
  <2> DEFINE d == Decode[ifid.inst]
  <2>1. /\ next_idex'.d = d /\ next_idex'.curr_pc = ifid.curr_pc
        /\ next_idex'.reg_write = (d.opcode \in WritesReg)
        /\ next_idex'.mem_read = (d.opcode \in ReadsMem)
        /\ next_idex'.mem_write = (d.opcode \in WritesMem)
        /\ ifid.is_valid /\ mem' = mem
    BY <1>3 DEF IdDecode
  <2>2. InMemory(ifid)
    BY <1>1, <2>1 DEF CodeKept
  <2>3. DecodedFrom(next_idex)'
    BY <2>1, <2>2 DEF DecodedFrom, InMemory
  <2> QED
    BY <1>1, <2>3 DEF CodeKept, BeforeEx
<1> QED
  BY <1>2, <1>3 DEF id_stage

(* if_stage fetches it, *)
LEMMA CodeIf == ASSUME TypeOK, CodeKept, if_stage PROVE CodeKept'
<1>1. /\ stage = "if" /\ stage' = "clock" /\ next_idex' = next_idex /\ mem' = mem
      /\ need_flush_ifid' = need_flush_ifid
  BY DEF if_stage, IfFlushed, IfFetch, pipe, flush
<1>2. next_idex'.is_valid => DecodedFrom(next_idex)'
  BY <1>1 DEF CodeKept, DecodedFrom
<1>3. ~need_flush_ifid => InMemory(next_ifid)'
  BY <1>1 DEF if_stage, IfFlushed, IfFetch, InMemory
<1> QED
  BY <1>1, <1>2, <1>3 DEF CodeKept, BeforeEx

(* and the exchange moves both on. *)
LEMMA CodeClock == ASSUME TypeOK, Chain, CodeKept, Clock PROVE CodeKept'
<1>1. /\ stage = "clock" /\ stage' \in {"host", "loop"} /\ mem' = mem
      /\ need_flush_idex = need_flush_ifid
  BY DEF Clock, Chain
<1>2. CASE need_flush_ifid
  <2>1. ~ifid'.is_valid /\ ~idex'.is_valid
    BY <1>1, <1>2 DEF Clock, Flushed, TypeOK, IfId, IdEx
  <2> QED
    BY <1>1, <2>1 DEF CodeKept
<1>3. CASE ~need_flush_ifid
  <2>1. ifid' = next_ifid /\ idex' = next_idex
    BY <1>1, <1>3 DEF Clock, Flushed
  <2> QED
    BY <1>1, <1>3, <2>1 DEF CodeKept, InMemory, DecodedFrom, BeforeEx
<1> QED
  BY <1>2, <1>3

---------------------------------------------------------------------------
(* The host, and the whole *)

(* Steps that touch neither history nor pipeline, the host's included. *)
LEMMA ApartBetween ==
  ASSUME PlainHost, TypeOK, Chain, Apart,
         update_timer \/ IntNone \/ ExDivTrap \/ LoopContinue \/ LoopReturn \/ Host
  PROVE  Apart'
<1>1. ~SetRegister /\ ~SetFlags /\ ~LoadProgram /\ ~HandleInterrupt /\ ~GetMemory /\ ~Reset
  BY DEF PlainHost, SetRegister, SetFlags, LoadProgram, HandleInterrupt, GetMemory, Reset, Calls
<1>2. ArchPc' = ArchPc
  BY <1>1, ChainBetween, Undisturbed DEF PlainHost, RegistersLeftAlone
<1>3. /\ UNCHANGED <<registers, mem_history, pipe, flush>>
      /\ stage \in BeforeEx /\ stage' \in BeforeEx
      /\ InFlight' = InFlight /\ mem'.data = mem.data
  <2>1. \A k : push_key(mem, k).data = mem.data
    BY DEF push_key, TypeOK, Memory
  <2>2. CASE update_timer \/ IntNone \/ ExDivTrap
    BY <2>2 DEF update_timer, TimerOff, TimerOn, TimerFrame, IntNone, ExDivTrap, BeforeEx,
                InFlight, pipe
  <2>3. CASE LoopContinue \/ LoopReturn \/ Run \/ Step
    BY <2>1, <2>3 DEF LoopContinue, LoopReturn, Run, Step, Calls, StepBegins, KeyArrives,
                BeforeEx, InFlight, pipe
  <2>4. CASE \/ SetIrq \/ TriggerInterrupt \/ PushKey \/ Breakpoints \/ ContinueExecution
             \/ UpdateTimer
    BY <2>1, <2>4 DEF SetIrq, TriggerInterrupt, PushKey, Breakpoints, ContinueExecution,
                UpdateTimer, Calls, HostFrame, KeyArrives, BeforeEx, InFlight, pipe
  <2> QED
    BY <1>1, <2>2, <2>3, <2>4 DEF Host
<1> QED
  BY <1>2, <1>3, ApartIdle

(* Apart holds initially, *)
LEMMA ApartInit == ASSUME PlainHost, Init PROVE Apart
<1>1. \A i \in Slot : ~mem_history[i].valid
  BY DEF Init, PlainHost, NoWrite
<1>2. \A a : Hits(a) = {}
  BY <1>1 DEF Hits
<1>3. ~InFlight.is_valid
  BY DEF Init, InFlight, ZeroExWb
<1>4. ASSUME NEW a \in Bytes PROVE mem.data[a] < BYTE
  <2>1. PICK p \in Program : mem = Loaded(ZeroMemory, p, 0)
    BY DEF Init
  <2>2. a \in Addr /\ 0 < BYTE
    BY DisciplineAssumption, MemoryAssumption
  <2>3. Minus(a, 0) = a
    <3>1. a \in Word
      BY <2>2, AddrType
    <3>2. a - 0 = a
      BY <3>1, ZeroWord
    <3> QED
      BY <3>1, <3>2, WrapWord DEF Minus
  <2>4. mem.data[a] = IF a < Len(p) THEN p[a + 1] ELSE 0
    BY <2>1, <2>2, <2>3 DEF Loaded, ZeroMemory
  <2> QED
    BY <2>2, <2>4, DisciplineAssumption
<1>5. CodeKept
  BY DEF Init, CodeKept, ZeroIfId, ZeroIdEx
<1> QED
  BY <1>1, <1>2, <1>3, <1>4, <1>5 DEF Apart, HistoryCoherent, EntriesApart, StoreApart, KeyLoadWaits,
                                     KeyLoadInFlight

(* and is inductive for disciplined programs. *)
LEMMA ApartNext ==
  ASSUME PlainHost, TypeOK, Operands, Chain, Apart, Disciplined, [Next]_vars
  PROVE  Apart'
<1>1. CASE update_timer \/ IntNone \/ ExDivTrap \/ LoopContinue \/ LoopReturn \/ Host
  BY <1>1, ApartBetween
<1>2. CASE wb_stage
  BY <1>2, ApartWb
<1>3. CASE IntAccept
  BY <1>3, ApartAccept
<1>4. CASE ex_stage /\ ~ExDivTrap
  <2>1. CASE idex.is_valid
    <3>1. stage' = "id"
      BY <1>4 DEF ex_stage, Executes, ExBubble, ExAlu, ExCmp, ExMov, ExLui, ExAui, ExLoadi,
           ExNop, ExLoad, ExStore, ExJmp, ExBjmp, ExCall, ExRet, ExSyscall, ExTrap, ExIret,
           ExCsrr, ExCsrw, ExPush, ExPop, ExInvalid
    <3> QED
      BY <1>4, <2>1, <3>1, ApartExecute DEF ExecutesOne
  <2>2. CASE ~idex.is_valid
    <3>1. ExBubble
      BY <1>4, <2>2 DEF ex_stage, Executes, ExAlu, ExCmp, ExMov, ExLui, ExAui, ExLoadi,
           ExNop, ExLoad, ExStore, ExJmp, ExBjmp, ExCall, ExRet, ExSyscall, ExTrap, ExIret,
           ExCsrr, ExCsrw, ExPush, ExPop, ExInvalid
    <3> QED
      BY <3>1, ApartBubble
  <2> QED
    BY <2>1, <2>2
<1>5. CASE id_stage
  BY <1>5, CodeId, ApartBehindEx DEF Apart
<1>6. CASE if_stage
  BY <1>6, CodeIf, ApartBehindEx DEF Apart
<1>7. CASE Clock
  BY <1>7, CodeClock, ApartBehindEx DEF Apart
<1>8. CASE UNCHANGED vars
  <2>1. /\ stage' = stage /\ mem' = mem /\ mem_history' = mem_history /\ registers' = registers
        /\ pc' = pc /\ ifid' = ifid /\ idex' = idex /\ exwb' = exwb /\ next_ifid' = next_ifid
        /\ next_idex' = next_idex /\ next_exwb' = next_exwb
        /\ need_flush_ifid' = need_flush_ifid
    BY <1>8 DEF vars, pipe, flush
  <2>2. InFlight' = InFlight /\ ArchPc' = ArchPc
    BY <2>1 DEF InFlight, ArchPc, Oldest
  <2>3. AroundStores
    BY <2>1 DEF AroundStores
  <2>4. HistoryCoherent' /\ EntriesApart'
    BY <2>1, <2>3, HistoryAround DEF Apart
  <2>5. KeyLoadWaits'
    BY <2>1, <2>2, KeyLoadPlace DEF Apart
  <2>6. CodeKept'
    BY <2>1 DEF Apart, CodeKept, InMemory, DecodedFrom
  <2> QED
    BY <2>2, <2>4, <2>5, <2>6 DEF Apart, StoreApart
<1> QED
  BY <1>1, <1>2, <1>3, <1>4, <1>5, <1>6, <1>7, <1>8 DEF Next, Thread, handle_interrupt

(* A program that keeps code, words, bytes and the stack in memory of      *)
(* their own keeps the history, the stores in flight and the instructions  *)
(* in the pipeline in agreement with memory.                               *)
THEOREM ApartKept == PlainHost => (Spec /\ []Disciplined => []Apart)
<1> SUFFICES ASSUME PlainHost PROVE Spec /\ []Disciplined => []Apart
  OBVIOUS
<1>1. RegistersLeftAlone
  BY DEF PlainHost, RegistersLeftAlone
<1>2. TypeOK /\ Operands /\ Chain /\ Apart /\ Disciplined /\ [Next]_vars => Apart'
  BY ApartNext
<1> QED
  BY <1>1, <1>2, OperandsKept, ChainKept, ApartInit, TypeCorrect, PTL DEF Spec

(* The write history answers a load with the value last written, for every *)
(* such program.                                                           *)
THEOREM Coherence == PlainHost => (Spec /\ []Disciplined => []HistoryCoherent)
<1>1. Apart => HistoryCoherent
  BY DEF Apart
<1> QED
  BY <1>1, ApartKept, PTL

---------------------------------------------------------------------------
(* Handlers *)

(* A host that changes neither registers nor memory behind a program, nor  *)
(* lets an interrupt in itself, which would save the registers without the *)
(* result that waits for its write back.                                   *)
ProgramLeftAlone ==
  HOST \intersect {"set_register", "reset", "load_program", "handle_interrupt", "get_memory"}
    = {}

(* With nothing in flight the program's state is in the registers. *)
LEMMA NothingInFlight ==
  ASSUME ~InFlight.is_valid
  PROVE  IsaRegisters = registers /\ IsaFlags = f /\ Place = ArchPc
  BY DEF IsaRegisters, IsaFlags, Place, Completed, KeyLoadInFlight

(* A step that leaves alone what IRET reads. *)
SavedCsrs == UNCHANGED <<csr.SCRATCH, csr.EPC, csr.EFLAGS, csr.STATUS>>
SavedData == \A a \in Addr : a \in SavedFrame => mem'.data[a] = mem.data[a]

(* A handler's step that leaves them alone leaves the program alone. *)
LEMMA SavedStays ==
  ASSUME InHandler, SavedCsrs, SavedData
  PROVE  UserProgram' = UserProgram
<1>1. InHandler'
  BY DEF InHandler, SavedCsrs
<1>2. ASSUME NEW r \in Reg, r # 0
      PROVE  read_u32_direct(mem', Plus(csr.SCRATCH, r - 1))
               = read_u32_direct(mem, Plus(csr.SCRATCH, r - 1))
  <2>1. r - 1 \in 0 .. FrameSize - 1
    BY <1>2, MachineAssumption DEF Reg, FrameSize
  <2>2. Plus(csr.SCRATCH, r - 1) \in SavedFrame
    BY <2>1 DEF SavedFrame
  <2> QED
    BY <2>2 DEF SavedData, read_u32_direct
<1>3. RestoredRegisters(mem', csr.SCRATCH, ZeroRegisters)
        = RestoredRegisters(mem, csr.SCRATCH, ZeroRegisters)
  BY <1>2 DEF RestoredRegisters
<1> QED
  BY <1>1, <1>3 DEF UserProgram, SavedCsrs

(* Such a step is transparent unless it enters a handler. *)
LEMMA SavedStep ==
  ASSUME SavedCsrs, InHandler => SavedData, ~Accepting,
         Executing => idex.d.opcode \notin {"SYSCALL", "TRAP"}
  PROVE  TransparentStep
  BY SavedStays DEF TransparentStep

(* and keeps the invariant if nothing new is in flight. *)
LEMMA FramesIdle ==
  ASSUME FramesKept, SavedCsrs, registers' = registers,
         InFlight' = InFlight \/ ~InFlight'.is_valid,
         stage' \in BeforeEx => MarksStores(idex)',
         stage' \in {"if", "clock"} => MarksStores(next_idex)'
  PROVE  FramesKept'
<1>1. InHandler' = InHandler /\ SavedFrame' = SavedFrame
  BY DEF InHandler, SavedFrame, SavedCsrs
<1> QED
  BY <1>1 DEF FramesKept, SavedCsrs

(* The timer *)
LEMMA TimerSaved == ASSUME TypeOK, update_timer PROVE SavedCsrs /\ mem' = mem
<1>1. csr \in CsrFile
  BY DEF TypeOK
<1>2. csr' = csr \/ csr' = Ticked(csr)
  BY DEF update_timer, TimerOff, TimerOn
<1>3. UNCHANGED mem
  BY DEF update_timer, TimerOff, TimerOn, TimerFrame
<1> QED
  BY <1>1, <1>2, <1>3 DEF SavedCsrs, Ticked, CsrFile, Csr

(* So it keeps the frames. *)
LEMMA FramesTimer ==
  ASSUME TypeOK, FramesKept, update_timer PROVE FramesKept' /\ TransparentStep
<1>1. /\ stage = "timer" /\ stage' = "wb" /\ UNCHANGED <<registers, pipe>>
  BY DEF update_timer, TimerOff, TimerOn, TimerFrame
<1>2. InFlight' = InFlight
  BY <1>1 DEF InFlight, pipe
<1>3. MarksStores(idex)'
  BY <1>1 DEF FramesKept, MarksStores, pipe, BeforeEx
<1> QED
  BY <1>1, <1>2, <1>3, TimerSaved, FramesIdle, SavedStep
     DEF SavedData, Accepting, Executing

(* wb_stage stores to no saved frame and leaves r0 alone. *)
LEMMA FramesWb ==
  ASSUME TypeOK, FramesKept, wb_stage PROVE FramesKept' /\ TransparentStep
<1>1. /\ stage = "wb" /\ stage' = "int" /\ csr' = csr /\ idex' = idex
  BY DEF wb_stage, WbBubble, WbRetire, pipe
<1>2. InFlight = exwb /\ ~InFlight'.is_valid
  BY <1>1 DEF InFlight, ZeroExWb
<1>3. registers'[0] = 0
  <2>1. registers \in RegFile /\ registers[0] = 0 /\ 0 \in Reg
    BY MachineAssumption DEF TypeOK, FramesKept, Reg
  <2>2. ASSUME NEW r, NEW v PROVE WriteReg(registers, r, v)[0] = 0
    BY <2>1 DEF WriteReg, RegFile
  <2>3. registers' = registers \/ registers' = RegsAfter(exwb)
    BY DEF wb_stage, WbBubble, WbRetire
  <2> QED
    BY <2>1, <2>2, <2>3 DEF RegsAfter
<1>4. InHandler => SavedData
  <2> SUFFICES ASSUME InHandler, NEW a \in Addr, a \in SavedFrame
               PROVE  mem'.data[a] = mem.data[a]
    BY DEF SavedData
  <2>1. CASE WbBubble
    BY <2>1 DEF WbBubble
  <2>2. CASE WbRetire
    <3> DEFINE m == IF LoadFromMemory(exwb) THEN after_read_u32(mem, exwb.mem_addr) ELSE mem
    <3>1. mem \in Memory /\ exwb.mem_addr \in Word /\ exwb.w_data \in Word
      BY DEF TypeOK, ExWb
    <3>2. m \in Memory /\ m.data = mem.data
      BY <3>1, AccessType, ReadData
    <3>3. mem' = IF ~exwb.mem_write THEN m
                 ELSE IF exwb.mem_u8 THEN write_u8(m, exwb.mem_addr, exwb.w_data)
                 ELSE write_u32(m, exwb.mem_addr, exwb.w_data)
      BY <2>2 DEF WbRetire, MemAfter
    <3>4. exwb.mem_write => exwb.mem_addr # a
      BY <1>2, <2>2 DEF FramesKept, WbRetire
    <3> HIDE DEF m
    <3> QED
      BY <3>1, <3>2, <3>3, <3>4, StoreData
  <2> QED
    BY <2>1, <2>2 DEF wb_stage
<1>5. FramesKept'
  BY <1>1, <1>2, <1>3 DEF FramesKept, InHandler, MarksStores, BeforeEx
<1> QED
  BY <1>1, <1>4, <1>5, SavedStep DEF SavedCsrs, Accepting, Executing

(* The registers of the program are those of the frame, from the moment a  *)
(* handler is entered.                                                     *)
LEMMA FrameEntered ==
  ASSUME TypeOK, registers[0] = 0, FrameFits, NEW m \in Memory,
         mem' = SaveRegisters(m, csr.SP, registers), csr'.SCRATCH = FrameTop(csr),
         csr'.EFLAGS = Num(FlagBits(f)), InHandler'
  PROVE  UserProgram' = [registers |-> registers, f |-> f, sp |-> csr.SP, pc |-> csr'.EPC]
<1>1. csr.SP \in Word /\ registers \in RegFile /\ f \in Flags
  BY DEF TypeOK, CsrFile, Csr
<1>2. ZeroRegisters \in RegFile /\ ZeroRegisters[0] = 0
  BY ZeroType, MachineAssumption DEF ZeroRegisters, Reg
<1>3. RestoredRegisters(mem', csr'.SCRATCH, ZeroRegisters) = registers
  BY <1>1, <1>2, SavedAndRestored DEF FrameFits, FrameTop
<1>4. BitFlags(BitsOf(csr'.EFLAGS)) = f
  BY <1>1, FlagsSurviveHandlers
<1>5. Plus(csr'.SCRATCH, FrameSize) = csr.SP
  <2>1. FrameSize \in Int /\ FrameSize - FrameSize = 0
    BY FrameType
  <2>2. Plus(Minus(csr.SP, FrameSize), FrameSize) = Minus(csr.SP, 0)
    BY <1>1, <2>1, BelowUp
  <2>3. Minus(csr.SP, 0) = csr.SP
    BY <1>1, WrapWord, WordInt DEF Minus
  <2> QED
    BY <2>2, <2>3 DEF FrameTop
<1> QED
  BY <1>3, <1>4, <1>5 DEF UserProgram

(* What entering a handler records. *)
LEMMA Entered ==
  ASSUME NEW c \in CsrFile, NEW fl, NEW epc, NEW code
  PROVE  LET h == EnterHandler(c, fl, epc, code)
         IN  /\ h.EPC = epc /\ h.EFLAGS = Num(FlagBits(fl)) /\ h.STATUS = EnterStatus(c.STATUS)
             /\ h.SCRATCH = c.SCRATCH /\ h.SP = c.SP
             /\ WithFrame(h).SCRATCH = FrameTop(c) /\ WithFrame(h).EPC = epc
             /\ WithFrame(h).EFLAGS = Num(FlagBits(fl))
             /\ WithFrame(h).STATUS = EnterStatus(c.STATUS)
  BY DEF EnterHandler, WithFrame, FrameTop, CsrFile, Csr

(* An interrupt comes outside handlers and changes nothing of the program. *)
LEMMA FramesAccept ==
  ASSUME TypeOK, Chain, FramesKept, HandlersBehave, IntAccept
  PROVE  FramesKept' /\ TransparentStep
<1> DEFINE code == IrqCode(csr)
           m    == after_read_u32(mem, Vector(csr, code))
           h    == EnterHandler(csr, f, ReturnPc, code)
<1>1. /\ stage = "int" /\ stage' = "ex" /\ Accepts(csr)
      /\ csr' = [WithFrame(h) EXCEPT !.IPENDING = Clear(@, code)]
      /\ mem' = SaveRegisters(m, csr.SP, registers) /\ registers' = registers
      /\ idex' = [idex EXCEPT !.is_valid = FALSE]
  BY DEF IntAccept, AcceptInterrupt
<1>2. ~InHandler
  BY <1>1 DEF FramesKept, Accepts
<1>3. csr \in CsrFile /\ mem \in Memory /\ code \in Int /\ idex \in IdEx
  BY IrqCodeType, MachineAssumption DEF TypeOK
<1>4. m \in Memory
  BY <1>3, VectorType, AccessType
<1>5. /\ csr'.SCRATCH = FrameTop(csr) /\ csr'.EFLAGS = Num(FlagBits(f))
      /\ csr'.STATUS = EnterStatus(csr.STATUS)
  <2>1. /\ WithFrame(h).SCRATCH = FrameTop(csr) /\ WithFrame(h).EFLAGS = Num(FlagBits(f))
        /\ WithFrame(h).STATUS = EnterStatus(csr.STATUS)
    BY <1>3, Entered
  <2>2. /\ csr'.SCRATCH = WithFrame(h).SCRATCH /\ csr'.EFLAGS = WithFrame(h).EFLAGS
        /\ csr'.STATUS = WithFrame(h).STATUS
    BY <1>1
  <2> QED
    BY <2>1, <2>2
<1>6. InHandler' /\ IE \notin BitsOf(csr'.STATUS)
  BY <1>5, StatusBits DEF InHandler
<1>7. FrameFits
  BY <1>1, <1>2 DEF HandlersBehave, Accepting
<1> HIDE DEF m, h, code
<1>8. UserProgram' = [registers |-> registers, f |-> f, sp |-> csr.SP, pc |-> csr'.EPC]
  BY <1>1, <1>4, <1>5, <1>6, <1>7, FrameEntered DEF FramesKept
<1>9. ~InFlight.is_valid /\ ~InFlight'.is_valid
  BY <1>1 DEF InFlight, ZeroExWb
<1>10. UserProgram = [registers |-> registers, f |-> f, sp |-> csr.SP, pc |-> csr'.EPC]
  BY <1>2, <1>9, NothingInFlight, ChainAccept DEF UserProgram
<1>11. ~idex'.is_valid
  BY <1>1, <1>3 DEF IdEx
<1>12. FramesKept'
  BY <1>1, <1>6, <1>9, <1>11 DEF FramesKept, MarksStores
<1> QED
  BY <1>1, <1>8, <1>10, <1>12 DEF TransparentStep, Executing

---------------------------------------------------------------------------
(* The cases of ex_stage *)

(* Only STOREW, STOREB and PUSH send a store to memory. *)
LEMMA OnlyStores ==
  ASSUME TypeOK, FramesKept, ExecutesOne, ~ExStore, ~ExPush
  PROVE  next_exwb'.is_valid => ~next_exwb'.mem_write
<1>1. stage = "ex" /\ idex.is_valid /\ (idex.mem_write => idex.d.opcode \in WritesMem)
  BY ExecutesFrame DEF ExecutesOne, FramesKept, MarksStores, BeforeEx
<1>2. CASE ExAlu
  BY <1>1, <1>2, AluPassed DEF ExAlu, Executes, AluOp, LogicOp, ShiftOp, WritesMem
<1>3. CASE ExCmp
  BY <1>1, <1>3, CmpPassed DEF ExCmp, Executes, WritesMem
<1>4. CASE ExMov \/ ExLui \/ ExAui \/ ExLoadi \/ ExCsrr
  <2>1. PICK v \in Word : next_exwb' = Result(v)
    BY <1>4, ValuePassed
  <2>2. next_exwb'.mem_write = idex.mem_write
    BY <2>1, ResultFields
  <2> QED
    BY <1>1, <1>4, <2>2 DEF ExMov, ExLui, ExAui, ExLoadi, ExCsrr, Executes, WritesMem
<1>5. CASE ExNop \/ ExRet \/ ExCsrw
  <2>1. next_exwb'.mem_write = idex.mem_write
    BY <1>5, PlainPassed, PassedFields
  <2> QED
    BY <1>1, <1>5, <2>1 DEF ExNop, ExRet, ExCsrw, Executes, WritesMem
<1>6. CASE ExPop
  BY <1>1, <1>6, PopPassed DEF ExPop, Executes, WritesMem
<1>7. CASE ExLoad
  BY <1>1, <1>7, LoadPassed DEF ExLoad, Executes, WritesMem
<1>8. CASE ExJmp \/ ExBjmp \/ ExCall \/ ExSyscall \/ ExTrap \/ ExIret \/ ExInvalid
  BY <1>8, NothingPassed
<1> QED
  BY <1>1, <1>2, <1>3, <1>4, <1>5, <1>6, <1>7, <1>8 DEF ExecutesOne, ex_stage, ExBubble, ExDivTrap

(* What is left to show of an instruction: interrupts stay disabled in     *)
(* handlers, and its store is not into the frame.                          *)
LEMMA FramesExecuted ==
  ASSUME ExecutesOne, registers'[0] = 0, InHandler' => IE \notin BitsOf(csr'.STATUS),
         InHandler' /\ next_exwb'.is_valid /\ next_exwb'.mem_write =>
           next_exwb'.mem_addr \notin SavedFrame'
  PROVE  FramesKept'
<1>1. stage' = "id" /\ InFlight' = next_exwb'
  BY DEF ExecutesOne, InFlight
<1> QED
  BY <1>1 DEF FramesKept, BeforeEx

(* SYSCALL saves the program and moves it past the SYSCALL. *)
LEMMA FramesSyscall ==
  ASSUME TypeOK, Operands, Chain, FramesKept, HandlersBehave, ExecutesOne, ExSyscall
  PROVE  FramesKept' /\ TransparentStep
<1> DEFINE m == after_read_u32(mem, Vector(csr, SWI))
           h == EnterHandler(csr, f, ReturnAddr, SWI)
<1>1. /\ stage = "ex" /\ idex.is_valid /\ idex.d.opcode = "SYSCALL"
      /\ csr' = WithFrame(h) /\ mem' = SaveRegisters(m, csr.SP, registers)
      /\ registers' = registers
  BY DEF ExSyscall, Executes
<1>2. ~InHandler /\ FrameFits
  BY <1>1 DEF HandlersBehave, Executed
<1>3. csr \in CsrFile /\ mem \in Memory
  BY DEF TypeOK
<1>4. m \in Memory
  BY <1>3, VectorType, AccessType, MachineAssumption
<1>5. /\ csr'.SCRATCH = FrameTop(csr) /\ csr'.EFLAGS = Num(FlagBits(f))
      /\ csr'.STATUS = EnterStatus(csr.STATUS) /\ csr'.EPC = ReturnAddr
  BY <1>1, <1>3, Entered
<1>6. InHandler' /\ IE \notin BitsOf(csr'.STATUS)
  BY <1>5, StatusBits DEF InHandler
<1> HIDE DEF m, h
<1>7. UserProgram' = [registers |-> registers, f |-> f, sp |-> csr.SP, pc |-> ReturnAddr]
  BY <1>1, <1>2, <1>4, <1>5, <1>6, FrameEntered DEF FramesKept
<1>8. ~InFlight.is_valid /\ ~next_exwb'.is_valid
  BY <1>1, NothingPassed DEF InFlight, ZeroExWb
<1>9. ArchPc = idex.curr_pc
  BY <1>1 DEF ArchPc, Oldest, Chain, BeforeEx
<1>10. UserProgram = [registers |-> registers, f |-> f, sp |-> csr.SP, pc |-> idex.curr_pc]
  BY <1>2, <1>8, <1>9, NothingInFlight DEF UserProgram
<1>11. FramesKept'
  BY <1>1, <1>6, <1>8, FramesExecuted DEF FramesKept
<1> QED
  BY <1>1, <1>2, <1>7, <1>10, <1>11 DEF TransparentStep, ReturnAddr, Accepting

(* TRAP keeps place and flags. *)
LEMMA FramesTrap ==
  ASSUME TypeOK, Operands, Chain, FramesKept, HandlersBehave, ExecutesOne, ExTrap
  PROVE  FramesKept' /\ TransparentStep
<1>1. /\ stage = "ex" /\ idex.is_valid /\ idex.d.opcode = "TRAP"
      /\ csr' = EnterHandler(csr, f, ReturnAddr, idex.d.imm % CODES)
      /\ registers' = registers
  BY DEF ExTrap, Executes
<1>2. ~InHandler
  BY <1>1 DEF HandlersBehave, Executed
<1>3. csr \in CsrFile /\ f \in Flags
  BY DEF TypeOK
<1>4. /\ csr'.EFLAGS = Num(FlagBits(f)) /\ csr'.EPC = ReturnAddr
      /\ csr'.STATUS = EnterStatus(csr.STATUS)
  BY <1>1, <1>3, Entered
<1>5. InHandler' /\ IE \notin BitsOf(csr'.STATUS)
  BY <1>4, StatusBits DEF InHandler
<1>6. BitFlags(BitsOf(csr'.EFLAGS)) = f
  BY <1>3, <1>4, FlagsSurviveHandlers
<1>7. UserProgram'.f = f /\ UserProgram'.pc = ReturnAddr
  BY <1>4, <1>5, <1>6 DEF UserProgram
<1>8. ~InFlight.is_valid /\ ~next_exwb'.is_valid
  BY <1>1, NothingPassed DEF InFlight, ZeroExWb
<1>9. ArchPc = idex.curr_pc
  BY <1>1 DEF ArchPc, Oldest, Chain, BeforeEx
<1>10. UserProgram.f = f /\ UserProgram.pc = idex.curr_pc
  BY <1>2, <1>8, <1>9, NothingInFlight DEF UserProgram
<1>11. FramesKept'
  BY <1>1, <1>5, <1>8, FramesExecuted DEF FramesKept
<1> QED
  BY <1>1, <1>2, <1>7, <1>10, <1>11 DEF TransparentStep, ReturnAddr, Accepting

(* IRET goes on with the program that is in the frame. *)
LEMMA FramesIret ==
  ASSUME TypeOK, Operands, Chain, FramesKept, HandlersBehave, ExecutesOne, ExIret
  PROVE  FramesKept' /\ TransparentStep
<1>1. /\ stage = "ex" /\ stage' = "id" /\ idex.is_valid /\ idex.d.opcode = "IRET"
      /\ registers' = RestoredRegisters(mem, csr.SCRATCH, registers)
      /\ f' = BitFlags(BitsOf(csr.EFLAGS))
      /\ csr' = [csr EXCEPT !.SP = Plus(csr.SCRATCH, FrameSize), !.STATUS = LeaveStatus(@)]
  BY DEF ExIret, Executes
<1>2. csr \in CsrFile /\ registers[0] = 0 /\ 0 \in Reg
  BY MachineAssumption DEF TypeOK, FramesKept, Reg
<1>3. csr'.STATUS = LeaveStatus(csr.STATUS) /\ csr'.SP = Plus(csr.SCRATCH, FrameSize)
  BY <1>1, <1>2 DEF CsrFile, Csr
<1>4. ~InHandler'
  BY <1>3, StatusBits DEF InHandler
<1>5. registers' = RestoredRegisters(mem, csr.SCRATCH, ZeroRegisters) /\ registers'[0] = 0
  BY <1>1, <1>2 DEF RestoredRegisters, ZeroRegisters
<1>6. ~next_exwb'.is_valid /\ ~InFlight'.is_valid
  BY <1>1, NothingPassed DEF InFlight
<1>7. ArchPc' = csr.EPC
  <2>1. ArchPc' = Successor(idex.d)
    BY <1>1, ChainExecute DEF ExecutesOne
  <2> QED
    BY <1>1, <2>1 DEF Successor
<1>8. IsaRegisters' = registers' /\ IsaFlags' = f' /\ Place' = ArchPc'
  BY <1>6 DEF IsaRegisters, IsaFlags, Place, Completed, KeyLoadInFlight
<1>9. InHandler => UserProgram' = UserProgram
  BY <1>1, <1>3, <1>4, <1>5, <1>7, <1>8 DEF UserProgram
<1>10. FramesKept'
  BY <1>4, <1>5, FramesExecuted
<1> QED
  BY <1>1, <1>9, <1>10 DEF TransparentStep, Accepting

(* The other instructions. *)
Plain ==
  \/ ExAlu \/ ExCmp \/ ExMov \/ ExLui \/ ExAui \/ ExLoadi \/ ExNop \/ ExLoad \/ ExStore
  \/ ExJmp \/ ExBjmp \/ ExCall \/ ExRet \/ ExCsrr \/ ExCsrw \/ ExPush \/ ExPop \/ ExInvalid

(* A handler writes with them to no register IRET reads, and a program     *)
(* does not become a handler.                                              *)
LEMMA PlainCsrs ==
  ASSUME TypeOK, HandlersBehave, ExecutesOne, Plain
  PROVE  /\ InHandler => SavedCsrs
         /\ InHandler' = InHandler
<1>1. /\ stage = "ex" /\ idex.is_valid /\ csr \in CsrFile /\ idex.d.csr \in Csr
      /\ rs1_val \in Word /\ idex.d.imm \in Word
  BY ExecutesFrame, AddressType, OperandType DEF ExecutesOne, TypeOK
<1>2. CASE ExCall \/ ExPush
  <2>1. csr' = [csr EXCEPT !.SP = PushSp]
    BY <1>2 DEF ExCall, ExPush
  <2> QED
    BY <1>1, <2>1 DEF SavedCsrs, InHandler, CsrFile, Csr
<1>3. CASE ExRet \/ ExPop
  <2>1. csr' = [csr EXCEPT !.SP = PopSp]
    BY <1>3 DEF ExRet, ExPop
  <2> QED
    BY <1>1, <2>1 DEF SavedCsrs, InHandler, CsrFile, Csr
<1>4. CASE ExCsrw
  <2> DEFINE v == IF idex.d.opcode = "CSRW" THEN rs1_val ELSE idex.d.imm
  <2>1. csr' = [csr EXCEPT ![idex.d.csr] = v] /\ Executed({"CSRW", "CSRWI"})
    BY <1>1, <1>4 DEF ExCsrw, Executes, Executed
  <2>2. CASE InHandler
    <3>1. idex.d.csr \notin {"EPC", "EFLAGS", "SCRATCH", "STATUS"}
      BY <2>1, <2>2 DEF HandlersBehave
    <3> HIDE DEF v
    <3> QED
      BY <1>1, <2>1, <3>1 DEF SavedCsrs, InHandler, CsrFile, Csr
  <2>3. CASE ~InHandler /\ idex.d.csr = "STATUS"
    <3>1. MODE \notin BitsOf(v)
      BY <2>1, <2>3 DEF HandlersBehave
    <3> HIDE DEF v
    <3>2. csr'.STATUS = v
      BY <1>1, <2>1, <2>3 DEF CsrFile, Csr
    <3> QED
      BY <2>3, <3>1, <3>2 DEF InHandler
  <2>4. CASE ~InHandler /\ idex.d.csr # "STATUS"
    <3> HIDE DEF v
    <3>1. csr'.STATUS = csr.STATUS
      BY <1>1, <2>1, <2>4 DEF CsrFile, Csr
    <3> QED
      BY <2>4, <3>1 DEF InHandler
  <2> QED
    BY <2>2, <2>3, <2>4
<1>5. CASE \/ ExAlu \/ ExCmp \/ ExMov \/ ExLui \/ ExAui \/ ExLoadi \/ ExNop \/ ExLoad \/ ExStore
           \/ ExJmp \/ ExBjmp \/ ExCsrr \/ ExInvalid
  <2>1. csr' = csr
    BY <1>5 DEF ExAlu, ExCmp, ExMov, ExLui, ExAui, ExLoadi, ExNop, ExLoad, ExStore, ExJmp, ExBjmp,
                ExCsrr, ExInvalid, Passes
  <2> QED
    BY <2>1 DEF SavedCsrs, InHandler
<1> QED
  BY <1>2, <1>3, <1>4, <1>5 DEF Plain

(* A handler writes with them to no saved register. *)
LEMMA PlainData ==
  ASSUME TypeOK, HandlersBehave, ExecutesOne, Plain, InHandler
  PROVE  SavedData
<1>1. /\ stage = "ex" /\ idex.is_valid /\ mem \in Memory /\ csr.SP \in Word
      /\ PushSp \in Word /\ ReturnAddr \in Word
  BY ExecutesFrame, AddressType DEF ExecutesOne, TypeOK
<1>2. CASE ExCall
  <2>1. mem' = write_u32(mem, PushSp, ReturnAddr)
    BY <1>2 DEF ExCall
  <2>2. PushSp \notin SavedFrame
    BY <1>1, <1>2 DEF HandlersBehave, Executed, ExCall, Executes
  <2>3. ASSUME NEW a \in Addr, a \in SavedFrame PROVE mem'.data[a] = mem.data[a]
    <3>1. a # PushSp
      BY <2>2, <2>3
    <3> HIDE DEF PushSp, ReturnAddr
    <3> QED
      BY <1>1, <2>1, <3>1, StoreData
  <2> QED
    BY <2>3 DEF SavedData
<1>3. CASE ExRet \/ ExPop
  <2>1. mem' = after_read_u32(mem, csr.SP)
    BY <1>3 DEF ExRet, ExPop
  <2> QED
    BY <1>1, <2>1, ReadData DEF SavedData
<1>4. CASE ExPush
  BY <1>1, <1>4 DEF HandlersBehave, Executed, ExPush, Executes
<1>5. CASE \/ ExAlu \/ ExCmp \/ ExMov \/ ExLui \/ ExAui \/ ExLoadi \/ ExNop \/ ExLoad \/ ExStore
           \/ ExJmp \/ ExBjmp \/ ExCsrr \/ ExCsrw \/ ExInvalid
  <2>1. mem' = mem
    BY <1>5 DEF ExAlu, ExCmp, ExMov, ExLui, ExAui, ExLoadi, ExNop, ExLoad, ExStore, ExJmp, ExBjmp,
                ExCsrr, ExCsrw, ExInvalid, Passes
  <2> QED
    BY <2>1 DEF SavedData
<1> QED
  BY <1>2, <1>3, <1>4, <1>5 DEF Plain

(* So they change nothing for the program. *)
LEMMA FramesPlain ==
  ASSUME TypeOK, FramesKept, HandlersBehave, ExecutesOne, Plain
  PROVE  FramesKept' /\ TransparentStep
<1>1. stage = "ex" /\ idex.is_valid /\ idex.d.opcode \notin {"SYSCALL", "TRAP"}
  BY DEF ExecutesOne, Plain, Executes, ExAlu, ExCmp, ExMov, ExLui, ExAui, ExLoadi, ExNop, ExLoad,
         ExStore, ExJmp, ExBjmp, ExCall, ExRet, ExCsrr, ExCsrw, ExPush, ExPop, ExInvalid, AluOp,
         LogicOp, ShiftOp
<1>2. registers' = registers
  BY DEF Plain, ExAlu, ExCmp, ExMov, ExLui, ExAui, ExLoadi, ExNop, ExLoad, ExStore, ExJmp,
         ExBjmp, ExCall, ExRet, ExCsrr, ExCsrw, ExPush, ExPop, ExInvalid, Passes
<1>3. InHandler' = InHandler /\ (InHandler => SavedCsrs /\ SavedData)
  BY PlainCsrs, PlainData
<1>4. InHandler => UserProgram' = UserProgram
  BY <1>3, SavedStays
<1>5. InHandler' => IE \notin BitsOf(csr'.STATUS)
  BY <1>3 DEF FramesKept, SavedCsrs
<1>6. ASSUME InHandler', next_exwb'.is_valid, next_exwb'.mem_write
      PROVE  next_exwb'.mem_addr \notin SavedFrame'
  <2>1. InHandler /\ SavedFrame' = SavedFrame
    BY <1>3, <1>6 DEF SavedFrame, SavedCsrs
  <2>2. CASE ExStore
    <3>1. next_exwb'.mem_addr = DataAddr
      BY <2>2, StorePassed
    <3>2. DataAddr \notin SavedFrame
      BY <1>1, <2>1, <2>2 DEF HandlersBehave, Executed, ExStore, Executes
    <3> QED
      BY <2>1, <3>1, <3>2
  <2>3. ~ExPush
    BY <1>1, <2>1 DEF HandlersBehave, Executed, ExPush, Executes
  <2> QED
    BY <1>6, <2>2, <2>3, OnlyStores
<1>7. FramesKept'
  BY <1>2, <1>5, <1>6, FramesExecuted DEF FramesKept
<1> QED
  BY <1>1, <1>4, <1>7 DEF TransparentStep, Accepting

(* A bubble writes to nothing. *)
LEMMA FramesBubble ==
  ASSUME TypeOK, FramesKept, ExBubble PROVE FramesKept' /\ TransparentStep
<1>1. /\ stage = "ex" /\ stage' = "id" /\ mem' = mem /\ csr' = csr /\ registers' = registers
      /\ ~idex.is_valid
  BY DEF ExBubble
<1>2. ~InFlight'.is_valid
  BY <1>1 DEF InFlight, ExBubble, TypeOK, ExWb
<1>3. SavedCsrs /\ SavedData
  BY <1>1 DEF SavedCsrs, SavedData
<1>4. FramesKept'
  BY <1>1, <1>2, <1>3, FramesIdle DEF BeforeEx
<1> QED
  BY <1>1, <1>3, <1>4, SavedStep DEF Accepting, Executing

---------------------------------------------------------------------------
(* The other stages and the host *)

(* Decoding marks the stores, and nothing else. *)
LEMMA FramesBehindEx ==
  ASSUME TypeOK, FramesKept, id_stage \/ if_stage \/ Clock
  PROVE  FramesKept' /\ TransparentStep
<1>1. /\ mem' = mem /\ csr' = csr /\ registers' = registers /\ InFlight' = InFlight
      /\ stage \notin {"int", "ex"}
  BY DEF id_stage, IdBubble, IdDecode, if_stage, IfFlushed, IfFetch, Clock, InFlight, pipe
<1>2. SavedCsrs /\ SavedData
  BY <1>1 DEF SavedCsrs, SavedData
<1>3. CASE id_stage
  <2>1. stage' = "if" /\ MarksStores(next_idex)'
    <3>1. CASE IdBubble
      <4>1. ~next_idex'.is_valid
        BY <3>1 DEF IdBubble, TypeOK, IdEx
      <4> QED
        BY <3>1, <4>1 DEF IdBubble, MarksStores
    <3>2. CASE IdDecode
      <4>1. stage' = "if" /\ next_idex'.mem_write = (next_idex'.d.opcode \in WritesMem)
        BY <3>2 DEF IdDecode
      <4> QED
        BY <4>1 DEF MarksStores
    <3> QED
      BY <1>3, <3>1, <3>2 DEF id_stage
  <2> QED
    BY <1>1, <1>2, <2>1, FramesIdle, SavedStep DEF BeforeEx, Accepting, Executing
<1>4. CASE if_stage
  <2>1. stage = "if" /\ stage' = "clock" /\ next_idex' = next_idex
    BY <1>4 DEF if_stage, IfFlushed, IfFetch, pipe
  <2>2. MarksStores(next_idex)'
    BY <2>1 DEF FramesKept, MarksStores
  <2> QED
    BY <1>1, <1>2, <2>1, <2>2, FramesIdle, SavedStep DEF BeforeEx, Accepting, Executing
<1>5. CASE Clock
  <2>1. /\ stage = "clock" /\ stage' \in {"host", "loop"}
        /\ idex' = Flushed(next_idex, need_flush_idex)
    BY <1>5 DEF Clock
  <2>2. MarksStores(idex)'
    BY <2>1 DEF FramesKept, MarksStores, Flushed, TypeOK, IdEx
  <2> QED
    BY <1>1, <1>2, <2>1, <2>2, FramesIdle, SavedStep DEF BeforeEx, Accepting, Executing
<1> QED
  BY <1>3, <1>4, <1>5

(* Raising and clearing lines, keys, breakpoints and flags are not the     *)
(* program's: what is saved stays.                                         *)
LEMMA FramesBetween ==
  ASSUME ProgramLeftAlone, TypeOK, FramesKept,
         IntNone \/ ExDivTrap \/ LoopContinue \/ LoopReturn \/ Host
  PROVE  FramesKept' /\ TransparentStep
<1>1. csr \in CsrFile
  BY DEF TypeOK
<1>2. \A v : LET c == [csr EXCEPT !.IPENDING = v]
             IN  /\ c.SCRATCH = csr.SCRATCH /\ c.EPC = csr.EPC
                 /\ c.EFLAGS = csr.EFLAGS /\ c.STATUS = csr.STATUS
  BY <1>1 DEF CsrFile, Csr
<1>3. \A k : push_key(mem, k).data = mem.data
  BY DEF push_key, TypeOK, Memory
<1>4. ~SetRegister /\ ~LoadProgram /\ ~HandleInterrupt /\ ~GetMemory /\ ~Reset
  BY DEF ProgramLeftAlone, SetRegister, LoadProgram, HandleInterrupt, GetMemory, Reset, Calls
<1>5. /\ SavedCsrs /\ mem'.data = mem.data /\ registers' = registers /\ pipe' = pipe
      /\ stage \in BeforeEx /\ stage' \in BeforeEx
      /\ InFlight' = InFlight /\ ~Accepting /\ ~Executing
  <2>1. CASE IntNone \/ ExDivTrap
    BY <2>1 DEF IntNone, ExDivTrap, BeforeEx, InFlight, pipe, SavedCsrs, Accepting, Executing
  <2>2. CASE LoopContinue \/ LoopReturn \/ Run \/ Step
    BY <1>2, <1>3, <2>2 DEF LoopContinue, LoopReturn, Run, Step, Calls, StepBegins, KeyArrives,
       trigger_interrupt, BeforeEx, InFlight, pipe, SavedCsrs, Accepting, Executing
  <2>3. CASE \/ SetIrq \/ TriggerInterrupt \/ PushKey \/ Breakpoints \/ ContinueExecution
             \/ SetFlags
    BY <1>2, <1>3, <2>3 DEF SetIrq, TriggerInterrupt, PushKey, Breakpoints, ContinueExecution,
       SetFlags, Calls, HostFrame, KeyArrives, trigger_interrupt, BeforeEx, InFlight, pipe,
       SavedCsrs, Accepting, Executing
  <2>4. CASE UpdateTimer
    <3>1. csr' = Ticked(csr) /\ stage = "host" /\ HostFrame /\ UNCHANGED <<registers, mem>>
      BY <2>4 DEF UpdateTimer, Calls
    <3>2. SavedCsrs
      BY <1>1, <3>1 DEF SavedCsrs, Ticked, CsrFile, Csr
    <3> QED
      BY <3>1, <3>2 DEF HostFrame, BeforeEx, InFlight, pipe, Accepting, Executing
  <2> QED
    BY <1>4, <2>1, <2>2, <2>3, <2>4 DEF Host
<1>6. MarksStores(idex)'
  BY <1>5 DEF FramesKept, MarksStores, pipe
<1>7. SavedData
  BY <1>5 DEF SavedData
<1>8. FramesKept'
  BY <1>5, <1>6, FramesIdle DEF BeforeEx
<1> QED
  BY <1>5, <1>7, <1>8, SavedStep

(* The empty pipeline stores nothing. *)
LEMMA FramesInit == ASSUME Init PROVE FramesKept
<1>1. BitsOf(csr.STATUS) = {}
  BY ZeroBits DEF Init, ZeroCsr, Csr
<1>2. registers[0] = 0
  BY MachineAssumption DEF Init, ZeroRegisters, Reg
<1>3. ~InFlight.is_valid /\ ~idex.is_valid /\ stage = "host"
  BY DEF Init, InFlight, ZeroExWb, ZeroIdEx
<1> QED
  BY <1>1, <1>2, <1>3 DEF FramesKept, InHandler, MarksStores

(* Every step keeps the frames and leaves the program alone. *)
LEMMA FramesNext ==
  ASSUME ProgramLeftAlone, TypeOK, Operands, Chain, FramesKept, HandlersBehave, [Next]_vars
  PROVE  FramesKept' /\ [TransparentStep]_vars
<1>1. CASE update_timer
  BY <1>1, FramesTimer
<1>2. CASE wb_stage
  BY <1>2, FramesWb
<1>3. CASE IntAccept
  BY <1>3, FramesAccept
<1>4. CASE IntNone \/ ExDivTrap \/ LoopContinue \/ LoopReturn \/ Host
  BY <1>4, FramesBetween
<1>5. CASE ExBubble
  BY <1>5, FramesBubble
<1>6. CASE ex_stage /\ ~ExDivTrap /\ ~ExBubble
  <2>1. ExecutesOne
    BY <1>6 DEF ExecutesOne, ex_stage, Executes, ExBubble, ExAlu, ExCmp, ExMov, ExLui, ExAui,
         ExLoadi, ExNop, ExLoad, ExStore, ExJmp, ExBjmp, ExCall, ExRet, ExSyscall, ExTrap, ExIret,
         ExCsrr, ExCsrw, ExPush, ExPop, ExInvalid
  <2>2. ExSyscall \/ ExTrap \/ ExIret \/ Plain
    BY <1>6 DEF ex_stage, Plain
  <2> QED
    BY <2>1, <2>2, FramesSyscall, FramesTrap, FramesIret, FramesPlain
<1>7. CASE id_stage \/ if_stage \/ Clock
  BY <1>7, FramesBehindEx
<1>8. CASE UNCHANGED vars
  <2>1. /\ stage' = stage /\ csr' = csr /\ registers' = registers /\ idex' = idex
        /\ next_idex' = next_idex /\ exwb' = exwb /\ next_exwb' = next_exwb
    BY <1>8 DEF vars, pipe
  <2>2. InFlight' = InFlight /\ InHandler' = InHandler /\ SavedFrame' = SavedFrame
    BY <2>1 DEF InFlight, InHandler, SavedFrame
  <2> QED
    BY <1>8, <2>1, <2>2 DEF FramesKept, MarksStores
<1> QED
  BY <1>1, <1>2, <1>3, <1>4, <1>5, <1>6, <1>7, <1>8 DEF Next, Thread, handle_interrupt, ex_stage

(* For handlers that leave the saved state alone, and whatever programs    *)
(* they interrupt: interrupts stay disabled in a handler, and no store on  *)
(* its way to memory when it is entered, or made in it, reaches the frame  *)
(* that IRET will read.                                                    *)
THEOREM FramesStay == ProgramLeftAlone => (Spec /\ []HandlersBehave => []FramesKept)
<1> SUFFICES ASSUME ProgramLeftAlone PROVE Spec /\ []HandlersBehave => []FramesKept
  OBVIOUS
<1>1. RegistersLeftAlone
  BY DEF ProgramLeftAlone, RegistersLeftAlone
<1>2. TypeOK /\ Operands /\ Chain /\ FramesKept /\ HandlersBehave /\ [Next]_vars => FramesKept'
  BY FramesNext
<1> QED
  BY <1>1, <1>2, OperandsKept, ChainKept, FramesInit, TypeCorrect, PTL DEF Spec

(* So no program can tell that it was interrupted, in any state of the     *)
(* pipeline, with any number of registers, any memory and any handlers     *)
(* that behave.                                                            *)
THEOREM Transparency ==
  ProgramLeftAlone => (Spec /\ []HandlersBehave => HandlersTransparent)
<1> SUFFICES ASSUME ProgramLeftAlone PROVE Spec /\ []HandlersBehave => HandlersTransparent
  OBVIOUS
<1>1. RegistersLeftAlone
  BY DEF ProgramLeftAlone, RegistersLeftAlone
<1>2. TypeOK /\ Operands /\ Chain /\ FramesKept /\ HandlersBehave /\ [Next]_vars
        => [TransparentStep]_vars
  BY FramesNext
<1>3. Spec /\ []HandlersBehave => [][TransparentStep]_vars
  BY <1>1, <1>2, OperandsKept, ChainKept, FramesStay, TypeCorrect, PTL DEF Spec
<1> QED
  BY <1>3 DEF HandlersTransparent
---------------------------------------------------------------------------
(* Interrupt lines, and handlers that read every key *)

(* What a step does to the pending lines and to STATUS. *)
SameStatus == csr'.STATUS = csr.STATUS
SameLines  == csr'.IPENDING = csr.IPENDING
LineRaised == \E i \in Bit : csr'.IPENDING = Raise(csr.IPENDING, i)
LineTaken  ==
  (IntAccept \/ HandleInterrupt) /\ csr'.IPENDING = Clear(csr.IPENDING, IrqCode(csr))
EntersHandler == csr'.STATUS = EnterStatus(csr.STATUS)

LinesAndStatus ==
  \/ SameLines /\ SameStatus
  \/ LineRaised /\ SameStatus
  \/ LineTaken /\ EntersHandler
  \/ SameLines /\ EntersHandler
  \/ SameLines /\ Executed({"IRET"})
  \/ ExCsrw /\ csr' = [csr EXCEPT ![idex.d.csr] = CsrOperand]
  \/ SetIrq /\ SameStatus
  \/ Reset

(* The timer raises its own line and changes nothing else of these. *)
LEMMA LinesTimer == ASSUME TypeOK, update_timer \/ UpdateTimer PROVE LinesAndStatus
<1>1. csr \in CsrFile /\ TIMER \in Bit
  BY LineBits DEF TypeOK
<1>2. csr' = csr \/ csr' = Ticked(csr)
  BY DEF update_timer, TimerOff, TimerOn, UpdateTimer
<1>3. CASE csr' = csr
  BY <1>3 DEF LinesAndStatus, SameLines, SameStatus
<1>4. CASE csr' = Ticked(csr)
  <2>1. csr'.STATUS = csr.STATUS
    BY <1>1, <1>4 DEF Ticked, CsrFile, Csr
  <2>2. csr'.IPENDING = csr.IPENDING \/ csr'.IPENDING = Raise(csr.IPENDING, TIMER)
    BY <1>1, <1>4 DEF Ticked, CsrFile, Csr
  <2> QED
    BY <1>1, <2>1, <2>2 DEF LinesAndStatus, SameLines, SameStatus, LineRaised
<1> QED
  BY <1>2, <1>3, <1>4

(* An interrupt takes the line that is accepted and no other. *)
LEMMA LinesAccept ==
  ASSUME TypeOK, IntAccept \/ HandleInterrupt PROVE LineTaken /\ EntersHandler
<1> DEFINE h == WithFrame(EnterHandler(csr, f, ReturnPc, IrqCode(csr)))
<1>1. csr \in CsrFile /\ f \in Flags
  BY DEF TypeOK
<1>2. csr' = [h EXCEPT !.IPENDING = Clear(@, IrqCode(csr))]
  BY DEF IntAccept, HandleInterrupt, AcceptInterrupt
<1>3. h.STATUS = EnterStatus(csr.STATUS) /\ h.IPENDING = csr.IPENDING
  BY <1>1 DEF EnterHandler, WithFrame, FrameTop, CsrFile, Csr
<1>4. DOMAIN h = Csr
  BY <1>1 DEF EnterHandler, WithFrame, CsrFile
<1> HIDE DEF h
<1>5. csr'.STATUS = h.STATUS /\ csr'.IPENDING = Clear(h.IPENDING, IrqCode(csr))
  BY <1>2, <1>4 DEF Csr
<1> QED
  BY <1>3, <1>5 DEF LineTaken, EntersHandler

(* Instructions take no line, CSRW and CSRWI aside. *)
LEMMA LinesExecute == ASSUME TypeOK, ex_stage PROVE LinesAndStatus
<1>1. csr \in CsrFile
  BY DEF TypeOK
<1>2. CASE \/ ExBubble \/ ExDivTrap \/ ExAlu \/ ExCmp \/ ExMov \/ ExLui \/ ExAui \/ ExLoadi
           \/ ExNop \/ ExLoad \/ ExStore \/ ExJmp \/ ExBjmp \/ ExCsrr \/ ExInvalid
  <2>1. csr' = csr
    BY <1>2 DEF ExBubble, ExDivTrap, ExAlu, ExCmp, ExMov, ExLui, ExAui, ExLoadi, ExNop, ExLoad,
         ExStore, ExJmp, ExBjmp, ExCsrr, ExInvalid, Passes
  <2> QED
    BY <2>1 DEF LinesAndStatus, SameLines, SameStatus
<1>3. CASE ExCall \/ ExRet \/ ExPush \/ ExPop
  <2>1. PICK v : csr' = [csr EXCEPT !.SP = v]
    BY <1>3 DEF ExCall, ExRet, ExPush, ExPop
  <2> QED
    BY <1>1, <2>1 DEF LinesAndStatus, SameLines, SameStatus, CsrFile, Csr
<1>4. CASE ExSyscall
  <2>1. csr' = WithFrame(EnterHandler(csr, f, ReturnAddr, SWI))
    BY <1>4 DEF ExSyscall
  <2> QED
    BY <1>1, <2>1 DEF LinesAndStatus, SameLines, EntersHandler, EnterHandler, WithFrame, FrameTop,
       CsrFile, Csr
<1>5. CASE ExTrap
  <2>1. PICK code : csr' = EnterHandler(csr, f, ReturnAddr, code)
    BY <1>5 DEF ExTrap
  <2> QED
    BY <1>1, <2>1 DEF LinesAndStatus, SameLines, EntersHandler, EnterHandler, CsrFile, Csr
<1>6. CASE ExIret
  <2>1. /\ csr' = [csr EXCEPT !.SP = Plus(csr.SCRATCH, FrameSize), !.STATUS = LeaveStatus(@)]
        /\ Executed({"IRET"})
    BY <1>6 DEF ExIret, Executes, Executed
  <2> QED
    BY <1>1, <2>1 DEF LinesAndStatus, SameLines, CsrFile, Csr
<1>7. CASE ExCsrw
  BY <1>7 DEF ExCsrw, LinesAndStatus, CsrOperand
<1> QED
  BY <1>2, <1>3, <1>4, <1>5, <1>6, <1>7 DEF ex_stage

(* The host takes a line with set_irq and reset() only. *)
LEMMA LinesHost == ASSUME TypeOK, Host \/ LoopContinue \/ LoopReturn PROVE LinesAndStatus
<1>1. csr \in CsrFile
  BY DEF TypeOK
<1>2. ASSUME NEW code \in Bit, trigger_interrupt(code) PROVE LineRaised /\ SameStatus
  BY <1>1, <1>2 DEF trigger_interrupt, LineRaised, SameStatus, CsrFile, Csr
<1>3. CASE Step \/ LoopContinue \/ PushKey
  <2>1. csr' = csr \/ trigger_interrupt(EXT0)
    BY <1>3 DEF Step, LoopContinue, PushKey, StepBegins, KeyArrives
  <2> QED
    BY <1>2, <2>1, LineBits DEF LinesAndStatus, SameLines, SameStatus
<1>4. CASE TriggerInterrupt
  BY <1>2, <1>4 DEF TriggerInterrupt, LinesAndStatus
<1>5. CASE SetIrq
  BY <1>1, <1>5 DEF SetIrq, LinesAndStatus, SameStatus, CsrFile, Csr
<1>6. CASE Reset
  BY <1>6 DEF LinesAndStatus
<1>7. CASE \/ Run \/ Breakpoints \/ ContinueExecution \/ SetRegister \/ SetFlags \/ LoadProgram
           \/ GetMemory \/ LoopReturn
  BY <1>7 DEF Run, Breakpoints, ContinueExecution, SetRegister, SetFlags, LoadProgram, GetMemory,
     LoopReturn, LinesAndStatus, SameLines, SameStatus
<1>8. CASE UpdateTimer
  BY <1>8, LinesTimer
<1>9. CASE HandleInterrupt
  BY <1>9, LinesAccept DEF LinesAndStatus
<1> QED
  BY <1>3, <1>4, <1>5, <1>6, <1>7, <1>8, <1>9 DEF Host

(* Every step of the system. *)
LEMMA LinesNext == ASSUME TypeOK, [Next]_vars PROVE LinesAndStatus
<1>1. CASE wb_stage \/ IntNone \/ id_stage \/ if_stage \/ Clock \/ UNCHANGED vars
  <2>1. csr' = csr
    BY <1>1 DEF wb_stage, WbBubble, WbRetire, IntNone, id_stage, IdBubble, IdDecode, if_stage,
       IfFlushed, IfFetch, Clock, vars
  <2> QED
    BY <2>1 DEF LinesAndStatus, SameLines, SameStatus
<1>2. CASE IntAccept
  BY <1>2, LinesAccept DEF LinesAndStatus
<1> QED
  BY <1>1, <1>2, LinesTimer, LinesExecute, LinesHost DEF Next, Thread, handle_interrupt

(* The bits of a word with a line raised, and taken. *)
LEMMA LineOnOff ==
  \A w, i : /\ i \in Bit => BitsOf(Raise(w, i)) = BitsOf(w) \union {i}
            /\ BitsOf(Clear(w, i)) = BitsOf(w) \ {i}
  BY NumType, BitsType DEF Raise, Clear

(* A line that is pending stays so, but for the three ways to lose it. *)
LEMMA LinesStay ==
  ASSUME TypeOK, [Next]_vars PROVE LinesStep
<1> SUFFICES ASSUME NEW line \in BitsOf(csr.IPENDING), line \notin BitsOf(csr'.IPENDING)
             PROVE  \/ /\ Accepting \/ HandleInterrupt
                       /\ line = IrqCode(csr) /\ pc' = HandlerAddr(line)
                    \/ Executed({"CSRW", "CSRWI"}) /\ idex.d.csr = "IPENDING"
                    \/ stage = "host" /\ HOST \intersect {"set_irq", "reset"} # {}
  BY DEF LinesStep
<1>1. ~SameLines /\ ~LineRaised
  BY LineOnOff DEF SameLines, LineRaised
<1>2. CASE LineTaken
  <2>1. line = IrqCode(csr)
    BY <1>2, LineOnOff DEF LineTaken
  <2> QED
    BY <1>2, <2>1 DEF LineTaken, IntAccept, HandleInterrupt, AcceptInterrupt, Accepting
<1>3. CASE ExCsrw /\ csr' = [csr EXCEPT ![idex.d.csr] = CsrOperand]
  <2>1. csr \in CsrFile
    BY DEF TypeOK
  <2>2. idex.d.csr # "IPENDING" => csr'.IPENDING = csr.IPENDING
    BY <1>3, <2>1 DEF CsrFile, Csr
  <2> QED
    BY <1>3, <2>2 DEF ExCsrw, Executes, Executed
<1>4. CASE SetIrq \/ Reset
  BY <1>4 DEF SetIrq, Reset, Calls
<1> QED
  BY <1>1, <1>2, <1>3, <1>4, LinesNext DEF LinesAndStatus

(* For every program and every host that calls neither set_irq nor         *)
(* reset(): an interrupt that was raised is delivered, unless the program  *)
(* itself writes to IPENDING.                                              *)
THEOREM LinesAreKept == Spec => LinesKept
<1>1. TypeOK /\ [Next]_vars => [LinesStep]_vars
  BY LinesStay
<1> QED
  BY <1>1, TypeCorrect, PTL DEF Spec, LinesKept

(* Accesses to memory shorten the queue of keys or leave it. *)
Keys(m) == m.keyboard_buffer
Shorter(m, n) == Keys(m) # << >> => Keys(n) # << >>

(* Reads and writes, one by one. *)
LEMMA AccessKeys ==
  \A m \in Memory, a, v \in Word :
    /\ Keys(write_u32(m, a, v)) = Keys(m) /\ Keys(write_u8(m, a, v)) = Keys(m)
    /\ Shorter(after_read_u32(m, a), m)
  BY DEF Keys, Shorter, write_u32, write_u8, write_u32_direct, after_read_u32, Memory

(* Saving the registers of a frame is not a port access. *)
LEMMA SaveKeys ==
  \A m \in Memory : \A sp, regs : Keys(SaveRegisters(m, sp, regs)) = Keys(m)
  BY DEF Keys, SaveRegisters, Memory

(* A write back shortens the queue or leaves it. *)
LEMMA RetireKeys == ASSUME TypeOK, WbRetire PROVE Shorter(mem', mem)
<1> DEFINE m == IF LoadFromMemory(exwb) THEN after_read_u32(mem, exwb.mem_addr) ELSE mem
<1>1. mem \in Memory /\ exwb.mem_addr \in Word /\ exwb.w_data \in Word
  BY DEF TypeOK, ExWb
<1>2. m \in Memory /\ Shorter(m, mem)
  BY <1>1, AccessType, AccessKeys DEF Shorter
<1>3. mem' = IF ~exwb.mem_write THEN m
             ELSE IF exwb.mem_u8 THEN write_u8(m, exwb.mem_addr, exwb.w_data)
             ELSE write_u32(m, exwb.mem_addr, exwb.w_data)
  BY DEF WbRetire, MemAfter
<1> HIDE DEF m
<1>4. Keys(mem') = Keys(m)
  BY <1>1, <1>2, <1>3, AccessKeys
<1> QED
  BY <1>2, <1>4 DEF Shorter

(* Entering a handler reads a vector and saves registers. *)
LEMMA EnterKeys ==
  ASSUME TypeOK, NEW code \in Int,
         LET m == after_read_u32(mem, Vector(csr, code))
         IN  mem' = m \/ mem' = SaveRegisters(m, csr.SP, registers)
  PROVE  Shorter(mem', mem)
<1> DEFINE m == after_read_u32(mem, Vector(csr, code))
<1>1. mem \in Memory /\ Vector(csr, code) \in Word
  BY VectorType DEF TypeOK
<1>2. m \in Memory /\ Shorter(m, mem)
  BY <1>1, AccessType, AccessKeys, ZeroWord
<1>3. mem' = m \/ mem' = SaveRegisters(m, csr.SP, registers)
  OBVIOUS
<1> HIDE DEF m
<1> QED
  BY <1>2, <1>3, SaveKeys DEF Shorter

(* No instruction makes a key. *)
LEMMA ExecuteKeys == ASSUME TypeOK, ex_stage PROVE Shorter(mem', mem)
<1>1. mem \in Memory /\ csr.SP \in Word
  BY DEF TypeOK, CsrFile, Csr
<1>2. CASE \/ ExBubble \/ ExDivTrap \/ ExAlu \/ ExCmp \/ ExMov \/ ExLui \/ ExAui \/ ExLoadi
           \/ ExNop \/ ExLoad \/ ExStore \/ ExJmp \/ ExBjmp \/ ExIret \/ ExCsrr \/ ExCsrw
           \/ ExInvalid
  <2>1. mem' = mem
    BY <1>2 DEF ExBubble, ExDivTrap, ExAlu, ExCmp, ExMov, ExLui, ExAui, ExLoadi, ExNop, ExLoad,
         ExStore, ExJmp, ExBjmp, ExIret, ExCsrr, ExCsrw, ExInvalid, Passes
  <2> QED
    BY <2>1 DEF Shorter
<1>3. CASE ExRet \/ ExPop
  <2>1. mem' = after_read_u32(mem, csr.SP)
    BY <1>3 DEF ExRet, ExPop
  <2> QED
    BY <1>1, <2>1, AccessKeys, ZeroWord
<1>4. CASE ExCall \/ ExPush
  <2>1. /\ PushSp \in Word
        /\ \/ mem' = write_u32(mem, PushSp, ReturnAddr) /\ ReturnAddr \in Word
           \/ mem' = write_u32(mem, PushSp, rs1_val) /\ rs1_val \in Word
    BY <1>4, AddressType, OperandType DEF ExCall, ExPush, Executes, TypeOK
  <2> HIDE DEF PushSp, ReturnAddr, rs1_val
  <2> QED
    BY <1>1, <2>1, AccessKeys DEF Shorter
<1>5. CASE ExSyscall
  BY <1>5, EnterKeys, MachineAssumption DEF ExSyscall
<1>6. CASE ExTrap
  <2>1. idex.d.imm % CODES \in Int
    BY MachineAssumption, WordInt DEF TypeOK, IdEx, Instruction
  <2> QED
    BY <1>6, <2>1, EnterKeys DEF ExTrap
<1> QED
  BY <1>2, <1>3, <1>4, <1>5, <1>6 DEF ex_stage

(* The queue grows only when the line is raised with it. *)
LEMMA KeysNext ==
  ASSUME TypeOK, KeyHost, [Next]_vars
  PROVE  Shorter(mem', mem) \/ EXT0 \in BitsOf(csr'.IPENDING)
<1>1. mem \in Memory /\ csr \in CsrFile
  BY DEF TypeOK
<1>2. ASSUME NEW k, KeyArrives(k) PROVE EXT0 \in BitsOf(csr'.IPENDING)
  <2>1. csr'.IPENDING = Raise(csr.IPENDING, EXT0)
    BY <1>1, <1>2 DEF KeyArrives, trigger_interrupt, CsrFile, Csr
  <2> QED
    BY <2>1, LineOnOff, LineBits
<1>3. CASE LoopContinue \/ Step \/ PushKey
  <2>1. mem' = mem \/ \E k \in Key : KeyArrives(k)
    BY <1>3 DEF LoopContinue, Step, PushKey, StepBegins
  <2> QED
    BY <1>2, <2>1 DEF Shorter
<1>4. CASE \/ update_timer \/ WbBubble \/ IntNone \/ id_stage \/ if_stage \/ Clock \/ LoopReturn
           \/ Run \/ SetIrq \/ TriggerInterrupt \/ Breakpoints \/ ContinueExecution
           \/ SetRegister \/ SetFlags \/ UpdateTimer \/ UNCHANGED vars
  <2>1. mem' = mem
    BY <1>4 DEF update_timer, TimerOff, TimerOn, TimerFrame, WbBubble, IntNone, id_stage, IdBubble,
       IdDecode, if_stage, IfFlushed, IfFetch, Clock, LoopReturn, Run, SetIrq, TriggerInterrupt,
       Breakpoints, ContinueExecution, SetRegister, SetFlags, UpdateTimer, vars
  <2> QED
    BY <2>1 DEF Shorter
<1>5. CASE LoadProgram \/ Reset
  BY <1>1, <1>5 DEF LoadProgram, Reset, Loaded, reset_memory, Shorter, Keys, Memory
<1>6. CASE IntAccept \/ HandleInterrupt
  BY <1>6, EnterKeys, IrqCodeType DEF IntAccept, HandleInterrupt, AcceptInterrupt, TypeOK
<1>7. ~GetMemory
  BY DEF GetMemory, Calls, KeyHost
<1> QED
  BY <1>3, <1>4, <1>5, <1>6, <1>7, RetireKeys, ExecuteKeys
     DEF Next, Thread, Host, wb_stage, handle_interrupt

(* A handler is left by IRET and by writes to STATUS only. *)
LEMMA HandlerStays ==
  ASSUME TypeOK, KeyHost, [Next]_vars, InHandler, ~LeavesHandler PROVE InHandler'
<1>1. CASE SameStatus
  BY <1>1 DEF SameStatus, InHandler
<1>2. CASE EntersHandler
  BY <1>2, StatusBits DEF EntersHandler, InHandler
<1>3. CASE ExCsrw /\ csr' = [csr EXCEPT ![idex.d.csr] = CsrOperand]
  <2>1. csr \in CsrFile
    BY DEF TypeOK
  <2>2. idex.d.csr # "STATUS" => csr'.STATUS = csr.STATUS
    BY <1>3, <2>1 DEF CsrFile, Csr
  <2>3. idex.d.csr = "STATUS" => csr'.STATUS = CsrOperand
    BY <1>3, <2>1 DEF CsrFile, Csr
  <2>4. WritesCsr(idex.d.csr)
    BY <1>3 DEF ExCsrw, Executes, Executed, WritesCsr
  <2> QED
    BY <2>2, <2>3, <2>4 DEF InHandler, LeavesHandler
<1>4. ~Reset
  BY DEF Reset, Calls, KeyHost
<1> QED
  BY <1>1, <1>2, <1>3, <1>4, LinesNext DEF LinesAndStatus, LeavesHandler

(* The status is 0 when no key waits, and then none does after the step.   *)
LEMMA NoKeySeen == ASSUME TypeOK, [Next]_vars, SeesNoKey PROVE Keys(mem') = << >>
<1>1. Hits(exwb.mem_addr) = {} /\ ~exwb.mem_u8 /\ exwb.mem_addr = KBD_STATUS
  BY DEF SeesNoKey, LoadFromMemory
<1>2. read_u32(mem, KBD_STATUS) = 0
  BY <1>1 DEF SeesNoKey, LoadValue
<1>3. Keys(mem) = << >>
  BY <1>2, MemoryAssumption DEF read_u32, Keys
<1>4. WbRetire \/ mem' = mem
  BY DEF SeesNoKey, vars, Next, Thread, update_timer, TimerOff, TimerOn, TimerFrame, wb_stage,
     WbBubble, handle_interrupt, IntNone, IntAccept, ex_stage, ExBubble, ExDivTrap, Executes, ExAlu,
     ExCmp, ExMov, ExLui, ExAui, ExLoadi, ExNop, ExLoad, ExStore, ExJmp, ExBjmp, ExCall, ExRet,
     ExSyscall, ExTrap, ExIret, ExCsrr, ExCsrw, ExPush, ExPop, ExInvalid, id_stage, IdBubble,
     IdDecode, if_stage, IfFlushed, IfFetch, Clock, LoopContinue, LoopReturn, Host, Run, Step,
     SetIrq, TriggerInterrupt, PushKey, Breakpoints, ContinueExecution, SetRegister, SetFlags,
     LoadProgram, UpdateTimer, HandleInterrupt, GetMemory, Reset, Calls
<1> QED
  BY <1>3, <1>4, RetireKeys DEF Shorter

(* What is pending is announced or owed after every step. *)
LEMMA OwedNext ==
  ASSUME TypeOK, KeyHost, KeysServed, KeysOwed, [KeyNext]_key_vars PROVE KeysOwed'
<1>1. [Next]_vars
  BY DEF KeyNext, key_vars
<1>2. CASE UNCHANGED key_vars
  <2>1. csr' = csr /\ mem' = mem /\ owed' = owed
    BY <1>2 DEF key_vars, vars
  <2> QED
    BY <2>1 DEF KeysOwed, InHandler
<1>3. CASE KeyNext
  <2>1. owed' = (AcceptsKeys \/ (owed /\ ~SeesNoKey))
    BY <1>3 DEF KeyNext, Remembers
  <2>2. AcceptsKeys => IntAccept \/ HandleInterrupt
    BY <1>3 DEF KeyNext, AcceptsKeys, Accepting, vars, Next, Thread, update_timer, TimerOff,
       TimerOn, TimerFrame, wb_stage, WbBubble, WbRetire, handle_interrupt, IntNone, ex_stage,
       ExBubble, ExDivTrap, Executes, ExAlu, ExCmp, ExMov, ExLui, ExAui, ExLoadi, ExNop, ExLoad,
       ExStore, ExJmp, ExBjmp, ExCall, ExRet, ExSyscall, ExTrap, ExIret, ExCsrr, ExCsrw, ExPush,
       ExPop, ExInvalid, id_stage, IdBubble, IdDecode, if_stage, IfFlushed, IfFetch, Clock,
       LoopContinue, LoopReturn, Host, Run, Step, SetIrq, TriggerInterrupt, PushKey, Breakpoints,
       ContinueExecution, SetRegister, SetFlags, LoadProgram, UpdateTimer, GetMemory, Reset, Calls
  <2>3. owed' => InHandler'
    <3>1. AcceptsKeys => InHandler'
      BY <2>2, LinesAccept, StatusBits DEF EntersHandler, InHandler
    <3>2. owed => InHandler'
      BY <1>1, HandlerStays DEF KeysServed, KeysOwed
    <3> QED
      BY <2>1, <3>1, <3>2
  <2>4. ASSUME Keys(mem') # << >>, EXT0 \notin BitsOf(csr'.IPENDING) PROVE owed'
    <3>1. owed \/ EXT0 \in BitsOf(csr.IPENDING)
      BY <1>1, <2>4, KeysNext DEF Shorter, Keys, KeysOwed
    <3>2. ~SeesNoKey
      BY <1>1, <2>4, NoKeySeen
    <3>3. CASE EXT0 \in BitsOf(csr.IPENDING)
      <4>1. \/ (Accepting \/ HandleInterrupt) /\ EXT0 = IrqCode(csr)
            \/ WritesCsr("IPENDING")
        BY <1>1, <2>4, <3>3, LinesStay DEF LinesStep, KeyHost, WritesCsr
      <4>2. ASSUME WritesCsr("IPENDING") PROVE owed
        <5>1. EXT0 \notin BitsOf(CsrOperand)
          <6>1. csr \in CsrFile
            BY DEF TypeOK
          <6>2. ~SameLines /\ ~LineRaised
            BY <2>4, <3>3, LineOnOff DEF SameLines, LineRaised
          <6>3. ~LineTaken /\ ~SetIrq /\ ~Reset
            BY <4>2 DEF WritesCsr, Executed, LineTaken, IntAccept, HandleInterrupt, SetIrq, Reset,
               Calls
          <6>4. csr' = [csr EXCEPT ![idex.d.csr] = CsrOperand]
            BY <1>1, <6>2, <6>3, LinesNext DEF LinesAndStatus
          <6>5. csr'.IPENDING = CsrOperand
            BY <4>2, <6>1, <6>4 DEF WritesCsr, CsrFile, Csr
          <6> QED
            BY <2>4, <6>5
        <5> QED
          BY <3>3, <4>2, <5>1 DEF KeysServed
      <4> QED
        BY <2>1, <3>2, <4>1, <4>2 DEF AcceptsKeys
    <3> QED
      BY <2>1, <3>1, <3>2, <3>3
  <2> QED
    BY <2>3, <2>4 DEF KeysOwed, Keys
<1> QED
  BY <1>2, <1>3

(* At the start no key waits and none is owed. *)
LEMMA OwedInit == ASSUME KeyInit PROVE KeysOwed
  BY DEF KeyInit, Init, Loaded, ZeroMemory, KeysOwed

(* A program with the history is a program. *)
LEMMA HistoryOnly == KeySpec => Spec
<1>1. KeyInit => Init
  BY DEF KeyInit
<1>2. [KeyNext]_key_vars => [Next]_vars
  BY DEF KeyNext, key_vars
<1> QED
  BY <1>1, <1>2, PTL DEF KeySpec, Spec

(* For handlers that read the status until it is 0: keys that wait are     *)
(* announced, or owed to the keyboard by a handler that is running.        *)
THEOREM OwedKept == KeyHost => (KeySpec /\ []KeysServed => []KeysOwed)
<1> SUFFICES ASSUME KeyHost PROVE KeySpec /\ []KeysServed => []KeysOwed
  OBVIOUS
<1>1. TypeOK /\ KeysServed /\ KeysOwed /\ [KeyNext]_key_vars => KeysOwed'
  BY OwedNext
<1> QED
  BY <1>1, OwedInit, HistoryOnly, TypeCorrect, PTL DEF KeySpec

(* So outside the handlers no key waits unannounced, whenever keys come:   *)
(* while the handler reads, after it saw the last one, before it returns.  *)
THEOREM Announced == KeyHost => (KeySpec /\ []KeysServed => []KeysAnnounced)
<1> SUFFICES ASSUME KeyHost PROVE KeySpec /\ []KeysServed => []KeysAnnounced
  OBVIOUS
<1>1. KeysOwed => KeysAnnounced
  BY DEF KeysOwed, KeysAnnounced
<1> QED
  BY <1>1, OwedKept, PTL
=============================================================================
