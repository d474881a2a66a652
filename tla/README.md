# A TLA+ model of the 32-bit CPU emulator

The repository is a C++17 emulator of a 32-bit processor with a four-stage
pipeline (fetch, decode, execute, write back), operand forwarding, a branch
predictor, interrupts with a vector table and register frames, a timer, a
keyboard, memory mapped output and a small debugger, together with a two-pass
assembler.  It has no tests: `CMakeLists.txt` names `test/test_cpu.cpp`, which
is not in the repository.  `README.md` of the repository (in Korean) is the only
description of the intended behaviour.  Paths below are relative to the
repository; `cpu.cpp` is `src/cpu.cpp`.

This directory holds

 * a model of everything that happens in one `CPU` object: the pipeline, stage
   by stage, its memory and devices, and the calls of the host program;
 * a one-instruction-at-a-time machine, `Isa`, and the claim that the pipeline
   implements it;
 * a model of the memory as the array of bytes it is, behind the write history, and
   what it has to do with the words the processor model counts in;
 * a model of the instruction encoding and of the assembler, and what they
   promise: the decoder inverts the encoder, and a source becomes the words that
   decode to what its lines say;
 * configurations that check these on small instances with TLC;
 * proofs, checked by TLAPS for every value of the constants: that the pipeline
   implements the sequential machine, that handlers are transparent to the programs
   they interrupt, that no interrupt line and no key is forgotten, that the write
   history agrees with memory, that an assembled source decodes to what it says, and
   below these type correctness, forwarding, control flow under speculation, flushes
   and interrupts, recovery from what the host disturbs, loads of an array of bytes,
   comparisons and conditions, and decoding what was encoded.

## 1. Inventory

| Component | State | Operations | Correct when | Model |
|---|---|---|---|---|
| CPU pipeline (`cpu.cpp`, `pipeline.hpp`) | two copies of IF/ID, ID/EX, EX/WB; `pc`; flush requests | `if_stage`, `id_stage`, `ex_stage`, `wb_stage`, `step`, `run` | a program sees its instructions one after another: no stale operand, no lost, repeated or wrong-path instruction | `Cpu`, `CpuInvariants`, `CpuRefinement`, `Isa`, `CpuDiscipline` |
| Register file, flags, ALU (`cpu.cpp`, `types.hpp`) | 32 registers, 4 flags | arithmetic cases of `ex_stage`, `update_flags_*` | results wrap at 32 bits; conditions read the flags of the last arithmetic instruction | `Alu`, `Machine` |
| Write history (`cpu.cpp:42-89`) | 8 `MemWrite` entries | searched by loads, filled by stores | a load reads what memory holds | `Cpu`, `CpuDocumented`, `CpuDiscipline`, `Bytes` |
| Interrupts, CSRs (`cpu.cpp`, `csr.hpp`) | 15 control and status registers | `handle_interrupt`, `trigger_interrupt`, `set_irq`, SYSCALL, TRAP, IRET | an interrupted program cannot tell; a pending enabled line is served | `Machine`, `Cpu`, `CpuSystem`, `CpuKeys` |
| Timer (`cpu.cpp:984-1006`) | TCOUNTER, TPERIOD, TCONTROL | `update_timer`, once per step | an expiry raises the line and is served | `Machine`, `Cpu`, `CpuSystem` |
| Memory and devices (`memory.cpp`) | 16 MiB, keyboard queue | `read_u*`, `write_u*`, `*_direct`, `push_key` | accesses out of range do nothing; reading the key port consumes a key; no key waits unannounced | `Memory`, `Bytes`, `BytesAsWords`, `CpuKeys` |
| Branch predictor (`predictor.cpp`) | 256 two-bit counters | `predict`, `update` | never changes what a program computes | `Predictor` |
| Debugger (`cpu.cpp:909-923`) | breakpoints, `paused` | add, remove, clear, `continue_execution` | stopping and going on does not change the program | `Cpu` |
| Decoder (`decoder.cpp`) | none | `decode_inst` | inverse of the encoder | `Encoding` |
| Encoder (`encoder.cpp`) | none | one function per instruction | fields do not overlap | `Encoding` |
| Assembler (`assembler.cpp`) | label table, address | two passes, parsing | both passes give every line the address of its word; the word decodes to what the line says | `Assembler`, `AssemblerSpec` |
| Dump (`dump.cpp`) | none | prints | | not modelled |

**How they interact.**  Everything runs on one thread: the host program calls
the public members of `CPU`; `run()` calls `step()` until `halted` or `paused`;
`step()` polls the keyboard of the host (Windows only), then calls
`update_timer`, `wb_stage`, `handle_interrupt`, `ex_stage`, `id_stage` and
`if_stage` in that order, applies the flushes, exchanges the two copies of the
pipeline registers and tests the breakpoints.  The stages share the register
file, the flags, the CSRs, `pc`, the memory and the write history.  There are no
locks and no preemption, so the concurrency is that of the *instructions*: up to
three are in flight, each reads state another is about to change, and timer,
keyboard, interrupt lines and host calls cut in between.

**What is hard.**  Data hazards: an operand is copied in `id_stage`, two steps
before it is used.  The flags travel in a pipeline register.  Partly filled
pipeline registers keep values from two steps before.  A load looks in a write
history that only some of the writes reach.  Branches are predicted; a wrong
path is in flight when an interrupt is taken.  An interrupt discards the decoded
and the fetched instruction and must resume at the oldest one not executed.
Host calls change registers, flags, memory or lines between two steps.
Counters, addresses and the stack pointer wrap.

The assembler is a program of its own, connected to the CPU by the binary it
writes.  It goes through the source twice, counting addresses each time; what it
cannot parse becomes another instruction more often than an error.  The hazards of the code,
each at its line and with the properties that would catch it, are listed in
`PROJECT.json`.

## 2. Modules

    Alu          words, arithmetic, flags, conditions
     +- Memory        data array, output ports, keyboard
         +- Machine       registers, CSRs, decoded instructions, timer, entering
             |            and leaving handlers (no variables)
             +- Isa           one instruction at a time (the abstract machine)
             +- Cpu           class CPU: one action per stage and per host call
                 |            (also EXTENDS Predictor)
                 +- CpuInvariants   Operands, Chain: the inductive invariants; Recovers
                     +- CpuRefinement   Cpu implements Isa (INSTANCE ... WITH)
                         +- CpuSystem       what programs and handlers rely on
                             +- CpuKeys         what handlers owe the keyboard
                             +- CpuDocumented   what the README says
                                 +- MCCpu           programs and instances for TLC
                                 +- CpuDiscipline   programs that keep code, words,
                                     |              bytes and stack apart; Apart
                                     +- MCPrograms      which of MCCpu's do, and where
                                         |              (also EXTENDS MCCpu)
                                         +- MCDevices       timer and keyboard
                                                            (also EXTENDS CpuKeys)

    Encoding         encoder.cpp and decode_inst (no variables)
     +- Assembler        the two passes
         +- AssemblerSpec    what sources say and where their lines end up
             +- MCAssembler      source files for TLC

    Bytes            array of bytes and write history, any sequence of accesses
     +- BytesAsWords     that array behaves as module Memory's array of words
         +- MCBytes          instance for TLC

    MachineProofs        lemmas on words, memory, registers and CSRs; EFLAGS round trip
     +- CpuProofs            Spec => []TypeOK, Spec => ComparisonsDecide
         +- PipelineProofs       forwarding, the flag bypass, control flow, recovery
             +- DisciplineProofs     the write history coheres; handlers are transparent;
                 |                   interrupt lines and keys are kept
                 +- RefinementProofs     the pipeline implements Isa
    BytesProofs          Spec => []LoadsReadMemory; bytes and words agree
    EncodingProofs       decoding inverts encoding; every word decodes to something
     +- AssemblerProofs      Spec => []Addresses, Spec => []AssemblesToWhatItSays

### State

| Variable of `Cpu` | In the code |
|---|---|
| `stage` | the program counter of the C++ thread: which member function `step()` calls next, or that the control is in `run()`'s loop or in the host; `aborted` once the host process has been killed |
| `in_run` | `step()` was called by `run()` |
| `registers`, `csr`, `f`, `pc`, `halted`, `paused`, `breakpoint`, `need_flush_ifid`, `need_flush_idex` | the members of the same names |
| `mem` | the `Memory` object: `data`, `keyboard_buffer`, and `out`, what the output ports have printed |
| `branch_pred`, `mem_history` | the members of the same names |
| `ifid`, `idex`, `exwb`, `next_ifid`, `next_idex`, `next_exwb` | `regs[idx]` and `regs[1 - idx]` of class `pipeline`; `clock()` exchanges them.  The copy that is filled keeps in every field a stage does not assign what it held two steps before |

`CpuKeys` adds the history variable `owed`: EXT0 was accepted and the status port has not
yet been seen to be 0.  No action of `Cpu` reads it.

Left out: `interrupt_jump_pending` and `interrupt_target` (never read),
`is_branch` and `branch_taken` of the pipeline registers (never read), `get_irq`,
the `get_*` that return values or constant references, `dump` (they change
nothing, except that `dump_stack` may read the keyboard port), and everything
printed except through the output ports.

| Variable of `Assembler` | In the code |
|---|---|
| `source` | the lines of the file: their text, as tokens, and whether blanks or a comment surround it |
| `pass`, `line` | which of `firstPass` and `secondPass` is running and at which line; `written` once `main` has written the binary, `aborted` after an exception, `empty` when the file could not be opened (`main` then writes a binary of no words) |
| `labels`, `current_address`, `instructions` | the members of the same names and the result of `secondPass` |

| Variable of `Bytes` | In the code |
|---|---|
| `data` | `Memory::data` |
| `mem_history` | the member of `CPU` |
| `leftover` | not in the code: for each entry, whether the last `reset()` or the constructor left it as it was and nothing has been stored to it since |

### Actions

Every member function `step()` calls is one atomic action, a disjunction over its
early returns and cases: `update_timer` (TimerOff, TimerOn), `wb_stage`
(WbBubble, WbRetire), `handle_interrupt` (IntNone, IntAccept), `ex_stage` (one
action per case of its switch, ALU operations together, and ExBubble), `id_stage`
(IdBubble, IdDecode), `if_stage` (IfFlushed, IfFetch) and Clock.  The variable
`stage` makes their order that of the code.  `run()` is LoopContinue and
LoopReturn, and the public members that change anything are the actions under *Calls
of the host program*; a host call is possible only when no step is in progress.
`update_timer()` and `handle_interrupt()` are public too: UpdateTimer and
HandleInterrupt are these two called from outside `step()`, the second with the
action (AcceptInterrupt) of the stage.  `get_memory()` returns the memory itself:
GetMemory is what the host may do with it, write a word or a byte, read a port, reset the
array, or push a key that no interrupt announces.  The constant HOST says which members
the host of an instance calls; "every host" below means every value of HOST.

A push of a key, on Windows, is polled at the beginning of `step()`; `StepBegins`
takes it when `"kbhit"` is in HOST.

In `Assembler` an action is one line of a pass.  Each pass cuts blanks and comments off
with code of its own (FirstTrim and SecondTrim), and OpenFails is a source that cannot be opened.
FirstBlank, FirstLabel and FirstCode are the branches of `firstPass`, SecondSkip and SecondCode those of
`secondPass`, with `parseInstruction` and what it does to the label table inside
SecondCode; Abort is an uncaught exception of `stoi`.  In `Bytes` an action is one
access: StoreWord and StoreByte are the two writes of `wb_stage`, each with its
entry in the history; DirectStore is every write that goes past the history (CALL, CALLR,
PUSH, the frames of `handle_interrupt`, `load_program`); Reset is `reset()`.
Loads change nothing in `Bytes` (key ports excepted, which it leaves to `Memory`), so
they are what its properties speak of.

### Abstractions

 * **Words.**  A word has WIDTH bits and every operation is modulo 2^WIDTH.
   The proofs hold for every WIDTH of at least 4; TLC uses 4, 5 and 6.
 * **Addresses** of the processor modules count words, so the 4 of the code is 1
   there, and a byte access reads or writes the low byte of a word (`% BYTE`).
   Unaligned and overlapping accesses, and those across the end of the array,
   are what `Bytes` is for: it has the array and the history of the code and leaves
   the pipeline out.  `BytesAsWords` relates the two (theorems
   `Reads` and `Writes`): at the addresses of words the array of bytes reads as the array of
   words, and every store at such an address changes the one as the other.
 * **Discipline.**  `Bytes` assumes of a program that the bytes it stores words to, the
   bytes it stores bytes to and the bytes of stack, frames and code are apart,
   that two words overlap in full or not at all, and that nothing is stored
   across the end of the array.  Without it a load may get a stale value
   (section 5); alignment is not needed.
 * **Decoding** is, for the processor, the constant `Decode`, any function from
   words to decoded instructions: what the pipeline does is checked and proved
   for every encoding.  That `decode_inst` returns for each of the 2^32 words a known
   opcode, a known condition and five bits for each register, as `Decode` is assumed to, is
   `DecodesEveryWord` (for the CSR see the next item).  `Encoding` has the encoding of the code, an instruction word
   being the set of its positions that are 1.  In `Cpu` `imm` stands for the immediate of whichever format applies,
   sign extended; the two sign extensions of the code (in `decoder.cpp` and again
   in `cpu.cpp`) come to one.
 * **CSR numbers** are names.  The five bits of the field can also say 15..31,
   which the code would use as an index out of the array; the model has no such
   instruction.
 * **Undefined behaviour.**  `INT_MIN / -1` either wraps or kills the host
   process (ExDivTrap).  The members the constructor leaves uninitialised
   (`paused`, entries 4..7 of the write history) start with any value of
   BOOLEAN and RESIDUE.
 * **Lines of assembler** are tokens: what `split`, `find` and `substr` do to
   characters has been done, and the margin around a line, the blanks and the comment
   a pass has to cut off, is there or not.  Mnemonics are written as opcodes, `.word` as WORD.
   A line has the arguments its mnemonic needs or none (with some missing
   the code reads past the end of a vector), and operands in parentheses only in loads
   and stores.
 * **External**: the terminal the output ports print to and the console `kbhit`
   reads from.

## 3. Properties

| Property | Says | Over |
|---|---|---|
| `TypeOK` (Cpu) | every variable holds a value its C++ type can hold: nothing escapes 32 bits, no register index leaves the file | all programs |
| `ForwardingCorrect` (Cpu) | every operand and flag `ex_stage` works on is the architectural one | all programs |
| `BranchFlags` (Cpu) | a branch decides on the flags of the machine | all programs, all host calls |
| `ComparisonsDecide` (Cpu) | after CMP and SUB the branch conditions are the signed and unsigned comparisons of the operands, after ADD CF and OF say where the sum left the range, wrapped results notwithstanding | all programs, all host calls |
| `Operands` (CpuInvariants) | its inductive form: the copies are right up to `wb_stage`, then forwarding makes up for the one register behind | all programs |
| `Chain` (CpuInvariants) | the instructions in flight are a chain of predicted successors without a gap; flushes are over when the step is | all programs |
| `ControlFlow` (Cpu) | executing an instruction moves the program to its successor; an accepted interrupt saves the number of the next instruction; nothing else moves the program | all programs |
| `ImplementsIsa` (CpuRefinement) | every behaviour of the pipeline is one of the sequential machine | programs with loads, stores and stack on memory of their own |
| `Disciplined` (CpuDiscipline) | what is asked of the programs of the refinement: instructions are executed from `Code`, words are stored to `Words` or to nowhere, bytes to `Bytes`, calls and frames go to `Stack`, PUSH is not used | the programs of `isa_data` and `devices` |
| `Apart` (CpuDiscipline) | what they get: every entry of the history, every store in flight and every instruction in the pipeline agrees with memory | the same |
| `HandlersBehave` (CpuSystem) | what is asked of handlers: they store and call to nothing of the saved frame, write none of EPC, EFLAGS, SCRATCH, STATUS, and make no system call, TRAP or PUSH; and of programs: room for a frame below the stack, and MODE left alone | the handlers of `interrupts` |
| `FramesKept` (CpuSystem) | what comes of it: handlers run with interrupts disabled, and no store in flight, older than the handler or its own, is aimed at the saved frame | the same |
| `Recovers` (CpuInvariants) | whatever `set_register` and `reset` disturbed, one step later no operand is stale, two steps later no instruction is lost, repeated or invented | all programs, all host calls |
| `HandlersTransparent` (CpuSystem) | from acceptance to IRET the registers, flags, stack pointer and place of the interrupted program are as they were; a TRAP, which saves no registers, keeps the place and the flags | handlers that behave |
| `TimerServed` (CpuSystem) | a due timer interrupt is eventually accepted, delayed at most by handlers, system calls and keys still to be read while EXT0 is enabled | handlers that return |
| `LinesKept` (CpuSystem) | a raised line stays pending until its handler is entered, whatever is raised, accepted and restored meanwhile; only a CSR write, `set_irq` and `reset` take one away | all programs, all host calls |
| `KeysServed` (CpuKeys) | what is asked of software for the next two: a handler entered for the keyboard reads the status until it is 0 before it leaves, and EXT0 is cleared only before that | the handlers of `devices` |
| `KeysAnnounced` (CpuSystem) | outside handlers, keys in the queue are announced although many share one pending bit | handlers that read the status until it is 0 |
| `KeysOwed` (CpuKeys) | its inductive form: a waiting key is announced by its line or owed by a handler that is running | the same |
| `KeysConsumed` (CpuSystem) | while EXT0 is enabled a full queue is eventually read from, whatever the timer does | the same |
| `RunGoesOn` (Cpu) | at every point of a call of `run()` another instruction is executed later, or the call returns, or a division stops the process: neither flushes nor bubbles nor wrong paths, an HLT on one of them included, keep it from going on | all programs of `any_program` |
| `HistoryCoherent` (CpuDocumented) | the write history holds what memory holds | programs without stack instructions at stored addresses |
| `LoadsReadMemory` (Bytes) | a load gives what memory holds, aligned or not, in the array or not, unless what answers it is an entry that a reset did not clear and nothing was stored to since | programs under Discipline |
| `ReadsAgree` (BytesAsWords) | a word or a byte read at the address of a word is what the array of words gives, in the array and beyond it | any sequence of accesses, unaligned ones included |
| `WritesAgree` (BytesAsWords) | a store of a word or a byte there, and a reset, do to the array of words what `Memory` says, output ports included | the same |
| `ExceptionsEnterHandlers` (CpuDocumented) | an invalid opcode and a division by zero enter the handler with their code in CAUSE; it does not hold (section 5) | |
| `Addresses` (AssemblerSpec) | both passes, each with its own way of cutting off blanks and comments, give each line the same address, that of its word in the binary; every label has the address of the line behind it, a made-up label 0 | all sources |
| `AssemblesToWhatItSays` (AssemblerSpec) | the word of a supported line decodes to the line's fields, and a jump reaches the instruction behind its label | all sources; `Supported` says which lines: fields within their ranges, labels near enough for their field, no number that is a label of the file |

`ArchPc`, the place of the program, is the number of the oldest instruction that
has not been executed: the decoded one if it is valid, else the fetched one, else
`pc`; and `pc` once a flush has been asked for.

**Refinement.**  `ImplementsIsa` maps the pipeline to the sequential machine at
the *execute* stage: an instruction counts as executed when `ex_stage` has
executed it.  Its write back, still to come, is added to registers, memory, flags
and `halted` (`InFlight`, `Completed`), and `pc` is `ArchPc`.  Timer ticks,
interrupt lines, accepted interrupts and executed instructions are steps of
`Isa`; all other steps stutter.  A load from a keyboard port is the exception: the
keyboard answers it in `wb_stage`, after a timer tick and perhaps another key,
so it counts as executed there (`KeyLoadInFlight`).  `Isa` lets the world outside raise lines
and take them away, so the refinement says nothing of lines that get lost; `LinesKept` does.

**Where it breaks.**  The refinement is false for programs that mix, at one
address, STOREW with LOADB or stores with the stack (section 5), for PUSH at
all (a second, stale store), for programs that write the instructions just
fetched, and for a host that changes registers, flags or memory between two
steps, or calls `handle_interrupt` there, before the last instruction is written
back.  `Disciplined` and `PlainHost` are exactly what excludes these; the runs
that check the refinement use programs that keep to them, and separate runs show
the cases of the history and of PUSH.

## 4. Runs

The runs of the processor use `MCCpu`, which defines an instruction table per group of programs;
an instruction word is its place in the table, and word 0 is `ADD r0, r0, r0` as
in the code, so that unwritten memory decodes as it does there.  `isa_data` uses
`MCPrograms`, which adds where its programs keep what, and `devices` `MCDevices`, which adds
what its handlers owe.

| Run | Programs | Checks |
|---|---|---|
| `isa_data` | every sequence of 4 (of 7 instructions) and of 7 (of 3) with loads, stores, byte accesses, ALU and moves; a debugger that may set a breakpoint at the fourth word, clear it, and go on | ImplementsIsa, HistoryCoherent, Apart, Disciplined |
| `isa_control` | every sequence of 4 (of 8) and of 3 (of 12): branches taken and not, both ways, jumps, calls, returns | ImplementsIsa |
| `interrupts` | 6 bodies x 2 handlers, one body with a store just below the stack pointer, where the next frame goes, which may be in the pipeline when the interrupt comes; two lines set and cleared by the host before any step | ImplementsIsa, ControlFlow, HandlersTransparent, HandlersBehave, FramesKept |
| `devices` | 14 programs with a timer, periodic, one-shot or of period 0, 2 handlers and masked keys; handlers that drain the queue, one of which clears the line first, alone and next to a timer; keys at any step; a debugger sets, clears and hits a breakpoint, in the program or at a handler, and calls `run` and `continue_execution` in any order | ImplementsIsa, LinesKept, TimerServed, KeysServed, KeysOwed, KeysAnnounced, KeysConsumed, Apart, Disciplined |
| `any_program` | every pair of 34 instructions behind r1 = INT_MIN and r2 = -1; programs that overwrite themselves, divide INT_MIN by -1, compare, add and subtract past the ends of the ranges, and start a timer of period 0 included | TypeOK, ForwardingCorrect, Operands, Chain, ControlFlow, ComparisonsDecide, RunGoesOn |
| `host_calls` | `step`, `trigger_interrupt`, `push_key`, `handle_interrupt` called by the host, and the program loaded over itself, at its place and 3 words further | ControlFlow |
| `host_writes` | `step`, `set_register`, `set_flags`, `reset`, `update_timer`, and what the host may do with `get_memory()` | BranchFlags, Recovers |
| `assembler` | every file of up to 4 lines of labels, blanks, jumps, calls, data words and moves of addresses, bare or with blanks and comments around them; a source that cannot be opened; every file of up to 2 lines of any kind, with every mnemonic and with fields at the ends of their ranges, wrong lines included | Addresses, AssemblesToWhatItSays |
| `bytes` | any sequence of word stores (unaligned, at the end of the array, to a port), byte stores, overlapping stack writes and resets, over a history of which a reset clears one entry and leaves two | LoadsReadMemory, ReadsAgree, WritesAgree |

`any_program` does not check for deadlock, because the host process really
stops when the division traps, nor does `assembler`, because the assembler ends.

**Bounds.**  WIDTH is 5 (4 where the host may do anything, 6 in `any_program`, whose
table of instructions is larger): enough for signed
overflow, carry, wrapped addresses and stack pointers, and 16 distinct program
words plus data.  Three registers are one that reads as zero and two that can
depend on each other; forwarding compares one register number at a time.  Two
entries of the write history make it overflow after three stores, and
HIST_RESET = 1 < HIST keeps the code's 4 < 8.  Programs are as long as the
pipeline is deep and longer: a hazard needs at most three instructions in flight
and a branch around them.  Two interrupt lines at every step, together with the
timer, give every order of acceptance against flushes.  MAX_KEYS = 2 with two
distinct keys makes keys coalesce into one pending bit.  The other named bounds
are `Program` (the images), VALUES and ADDRESSES (what the host passes
to `set_register`, `add_breakpoint`, `load_program` and the functions of memory) and RESIDUE.  Two labels in four lines can be
forward and backward, unused, defined twice and nested around each
other's jumps; a field error shows in a single line, since lines meet only in
the label table and the address.  `bytes` has 16 bytes in 36 addresses, so a word
can lie inside, at the end of and across the array, and the ports within it and beyond, and a history of 3 with 1
cleared by a reset, so that it overflows, and entries a reset left are shifted and stored to
again before the next; the theorem
has every size.

**Fairness.**  `FairSpec` adds `WF_vars(Thread)`: once the host has called
`run()` or `step()`, the thread goes on executing C++.  Nothing is assumed about the
host, the keyboard or the interrupt lines.  `TimerServed`, `KeysConsumed` and `RunGoesOn` need no
more, because the code has no other scheduling.  They are stated for
`in_run`, since a host need not call `step()` again.

## 5. Findings

Each is a run that TLC ends with a counterexample.

| Run | README.md says | The code does |
|---|---|---|
| `doc_push` | PUSH pushes its operand on the stack (README.md:476) | `ex_stage` stores it at once, and `id_stage` also marks PUSH `mem_write` (cpu.cpp:718-722), so `wb_stage` stores again, at the address and with the data a previous instruction left in the pipeline register, 0 at 0 to begin with (cpu.cpp:65-71) |
| `doc_history` | the history holds the last writes and a load found there is forwarded (README.md:380-382) | CALL, PUSH and frames write past the history (cpu.cpp:466, 625, 963-967): a later load of a stored address gets the old value |
| `doc_exceptions` | an opcode that is none and a division by 0 are exceptions (README.md:192-197), handled like interrupts, with the bit INTERRUPT 0 and the code of the exception in CAUSE (README.md:629-633, enum Exception of csr.hpp:84-90) | nothing raises one: DIV takes 0 for the quotient, the default case of `ex_stage` does nothing, and the next instruction follows |

Noticed as well, visible in single definitions and left without a run.  In the
processor:

 * LOADB of an address in the history gets the whole word a STOREW left there
   (cpu.cpp:46-52), where README.md:471 says it loads a byte (`LoadByte` of `Bytes`).
 * README.md:285-295 puts the interrupts before the write back in the order of a step; the code
   has update_timer, wb_stage, handle_interrupt (cpu.cpp:782-784), and with good reason: the
   frame an interrupt saves would otherwise miss a register.
 * README.md:399 says OF is set when two numbers of one sign give a result of the other.
   That is the overflow of an addition; a subtraction overflows for numbers of
   different signs, and so it is in the code (`AluFlags`).
 * HLT halts in `wb_stage`, and the same step executes the instruction after it
   (cpu.cpp:91-98, 783-785), where README.md:250 says `run()` executes up to HLT.
 * IRET sets IE when PIE is set but never clears it, where README.md:615 says
   IE = PIE (`LeaveStatus`, cpu.cpp:592-597).
 * Nothing calls `predictor::update`, so every branch is predicted taken for ever,
   where README.md:235 says outcomes train the table (`ExBjmp`, cpu.cpp:419-459).
 * Shifts clear CF and OF, where README.md:405-406 says they leave them
   (`update_flags_shift`, cpu.cpp:860-865).
 * `reset()` clears 4 of the 8 entries of the history (cpu.cpp:28), and neither the pipeline
   registers nor the keyboard queue.
 * A store to an output port or out of range changes no memory but enters the
   history, so that a load of that address gives the stored value (`Recorded`,
   `write_u32`).  LOADB of the keyboard port reads the array and no key, where
   README.md:575 gives a one-byte port (`read_u8`, memory.cpp).

In the encoder and the assembler (`Encoding`, `Assembler`):

 * A source that cannot be opened becomes a binary of no words and the exit code 0, after a
   message (`OpenFails`, assembler.cpp:275-278).
 * The immediate forms of MUL, DIV and the shifts put five bits of the immediate
   where rs1 is (`ImmediateFormOverlap`); a TRAP with a negative immediate is an
   IRET (`TrapNumber`).  No mnemonic produces the former.
 * The format tables of README.md:425-440 place MODE at bits 25-24; `encoder.cpp`
   has it elsewhere, and jumps have none.
 * An unknown mnemonic is a NOP without a message (assembler.cpp:269), the
   samples `addi` (README.md:709-710) and `bjmpeq` (README.md:717) included;
   `loadw r1, r2, 0` (README.md:713) ends the assembler with an exception; and
   `add r1, r2, 5`, which README.md:445 allows, takes the 5 for r31.
 * `csrw STATUS, 1` becomes CSRW, not CSRWI, with the number in the register field,
   and so writes register 1 (assembler.cpp:249-256).
 * `jmp 8` makes a label `8` at address 0 and jumps there; from then on the number 8
   means 0 (assembler.cpp:47, 201).  A jump to a label that is missing goes to 0, too,
   and a label `8:` makes every immediate 8 its address.
 * The distance of a jump and the address of a label are cut to the field without a
   message, so a jump too far reaches another instruction.

## 6. Proofs

The theorems hold for every word width of at least 4, every number of registers,
every size of memory, of the predictor and of the history, every decoder, every
program and every breakpoint set.

| Theorem | States |
|---|---|
| `TypeCorrect` (CpuProofs) | `Spec => []TypeOK` |
| `Refinement` (RefinementProofs) | `PlainHost => (Spec /\ []Disciplined => ImplementsIsa)` |
| `Transparency` (DisciplineProofs) | `ProgramLeftAlone => (Spec /\ []HandlersBehave => HandlersTransparent)` |
| `FramesStay` (DisciplineProofs) | its invariant: `[]FramesKept` under the same conditions |
| `Coherence` (DisciplineProofs) | `PlainHost => (Spec /\ []Disciplined => []HistoryCoherent)` |
| `ApartKept` (DisciplineProofs) | its invariant: `[]Apart` under the same conditions |
| `Forwarding` (PipelineProofs) | `RegistersLeftAlone => (Spec => []ForwardingCorrect)` |
| `FlagBypass` (PipelineProofs) | `Spec => []BranchFlags` |
| `Control` (PipelineProofs) | `RegistersLeftAlone => (Spec => ControlFlow)` |
| `OperandsKept`, `ChainKept` (PipelineProofs) | the inductive invariants: `RegistersLeftAlone => (Spec => []Operands)`, and `[]Chain` |
| `Comparisons` (CpuProofs) | `Spec => ComparisonsDecide` |
| `Recovery` (PipelineProofs) | `Spec => Recovers` |
| `LinesAreKept` (DisciplineProofs) | `Spec => LinesKept` |
| `Announced` (DisciplineProofs) | `KeyHost => (KeySpec /\ []KeysServed => []KeysAnnounced)` |
| `OwedKept` (DisciplineProofs) | its invariant: `[]KeysOwed` under the same conditions |
| `FlagsSurviveHandlers` (MachineProofs) | the flags an interrupt saves in EFLAGS are the ones IRET restores |
| `Loads` (BytesProofs) | `Spec => []LoadsReadMemory`, for every memory size, history length and disciplined set of addresses |
| `Reads`, `Writes` (BytesProofs) | `Spec => []ReadsAgree` and `Spec => WritesAgree`, for every memory size, byte width and placement of ports |
| `Assembly` (AssemblerProofs) | `Spec => []AssemblesToWhatItSays`, for every set of sources |
| `TwoPasses` (AssemblerProofs) | `Spec => []Addresses`, for every set of sources |
| `DecoderInvertsEncoder` (EncodingProofs) | for every register number and every immediate that fits its field, `decode_inst` of what a function of `encoder.cpp` returns has the fields that were encoded |
| `DecodesEveryWord` (EncodingProofs) | each of the 2^32 words decodes to a record of `Decoded`: the opcodes, formats, conditions and field widths of the code, the format INVALID exactly with the opcode INVALID |
| `ImmediateFormOverlap` (EncodingProofs) | in the immediate forms of SHL to DIV, rs1 and the immediate each come back with what the other has in the shared bits |
| `TrapNumber` (EncodingProofs) | TRAP with bit 24 of its immediate set decodes as IRET; without it the handler's number survives |

`RegistersLeftAlone` says that the host calls neither `set_register` nor
`reset()` between steps.  It is needed: `set_register` changes a register behind a
copy `id_stage` took, and `reset()` sets `pc` to 0 and clears the registers
while the pipeline still holds instructions.  `Recovery` says how far that reaches
for the hosts it excludes.  `FlagBypass`, `TypeCorrect`, `Comparisons` and `LinesAreKept` need
no such condition.

**Conditions of the refinement.**  `PlainHost` says that the object is built in storage
without valid history entries and that the host calls no `set_register`,
`set_flags`, `load_program`, `reset`, `get_memory` or `handle_interrupt` between steps.  Each
of these but the last changes behind the pipeline what an instruction in it has already read.
`handle_interrupt`, called from outside `step()`, comes before the write back of the
instruction executed last: the frame misses its result, and its store may land in
the frame.  `Disciplined` is a
condition on every instruction executed, so it describes the programs by what they
do, not by a list.  Each of its parts is needed: `doc_push` and `doc_history`
are the counterexamples with PUSH and with stores to the stack, a LOADB of a stored word gives the
word, and code that overwrites itself is executed as it was fetched.  Programs of this kind
exist: `isa_data` and `devices` check `Disciplined` in every state of theirs.
Loads may be anywhere, except that a load of a port or outside memory must not find an
entry, since there the history answers what memory would not.

**Conditions of transparency.**  `ProgramLeftAlone` says that the host calls no `set_register`,
`reset`, `load_program`, `get_memory` or `handle_interrupt`, the last for the reason given above; breakpoints, lines, keys and `set_flags` are allowed.
`HandlersBehave` is what the one frame address and the one return address
of the code ask of software (section 7); nothing is asked about the addresses of
the program's own loads and stores, and the history may be as stale as it likes, because
frames are written and read past it.  `interrupts` checks `HandlersBehave` in
every state.

**Conditions of the keyboard.**  `KeyHost` says that the host calls neither `set_irq` nor
`reset`, which take the line away and leave the queue, nor pushes keys through
`get_memory()`, which raises no line.  `KeysServed` is a condition on
the handler's path and not on its end: it has seen the status 0 at some time since it was
entered; a key that comes after that raises the line again.  The devices run checks it
in every state, and has handlers that clear EXT0 themselves before they read.

**Argument.**  `TypeOK` is inductive: the proof is one step per action, the
operators of `Alu`, `Memory` and `Machine` being covered by lemmas on their
ranges (`MachineProofs`).  `ForwardingCorrect` speaks of the execute
stage only, so it is not inductive: `TypeOK /\ Operands` is.  `Operands`
follows an instruction's copies of its operands from `id_stage` to `ex_stage`;
the step that matters is `wb_stage`, which changes the one register that
`need_forwarding` recognises.  `ControlFlow` is an action property proved from
`TypeOK /\ Operands /\ Chain`: `Chain` gives that the instruction behind the one
being executed is the one predicted, so that not flushing when the prediction
was right, and flushing when it was wrong, both leave `ArchPc` at the successor;
`Operands` gives that conditions and register targets are the architectural
ones.  TLC checks `Operands` and `Chain` as invariants of `any_program`.

`Recovery` needs what holds whatever the host calls, because one step does it and the
host calls between steps: `Latest`, the part of `Operands` and `Chain` that speaks of
the copies being filled.  The exchange hands them on: to `Operands` and `Newest`, the
last conjunct of `Chain`, after one step, and to the rest of `Chain` if `Newest` held when
the step began (`ClockRepairs`).  The lemmas that keep `Operands` and `Chain`
are those of `Forwarding` and `Control`; they ask only that the one step at hand is no
`set_register` or `reset`.

`HistoryCoherent` alone is not inductive: whether a store in `wb_stage` keeps it depends
on where the store goes, which `ex_stage` decided a step before, for an instruction
that `id_stage` decoded before that.  `Apart` carries the discipline through the
pipeline: every entry of the history is of a word or a byte kept apart
(`EntriesApart`), so is the store in flight (`StoreApart`), the instructions in
the pipeline registers are those still in memory (`CodeKept`), and a load of a keyboard port
that waits for its write back is the instruction at `Place` (`KeyLoadWaits`).
The history itself is three lemmas: an entry updated, entries shifted, and
steps that write around it.

`Refinement` is proved from `TypeOK /\ Operands /\ Chain /\ Apart`, an initial-state
lemma and one lemma per action, each naming the action of `Isa` it implements or the stutter.
`Isa` is an instance, so the first lemmas show that its operators
are those of the pipeline's modules.  `BeforeExecute` says what the mapping is when
`ex_stage` begins, with nothing in flight; `AfterExecute` what it is with the new
EX/WB register in flight.  `wb_stage` moves what the mapping added into the machine and
stutters, except for the load of a keyboard port, which it executes.

`Transparency` needs what is true inside a handler to follow from what was true
when it was entered: `FramesKept`.  Interrupts being disabled keeps the frame from being
replaced; that the store in flight misses the frame is what `wb_stage` needs, one
step after `HandlersBehave` spoke of the instruction; that only stores are marked as
stores (`MarksStores`) is what `ex_stage` needs of what it passes on; and r0, which no frame
holds, is zero.  Saving and restoring are inverse (`SavedAndRestored`) when the frame
lies in memory, at any stack pointer, the wrapped ones included.

`KeysAnnounced` is not inductive: the handler that makes it true again does so steps before it
returns.  `KeysOwed`, with the history variable, is; the cases are the
acceptance, which takes the line and makes the handler owe, the status load in `wb_stage` that
reads 0 (`NoKeySeen`), and the keys that come (`LinesStay` and the lemmas around it say which
steps leave lines and queue alone).

`LoadsReadMemory` speaks of the entry a search finds first.  A store that finds no entry
shifts all of them, and a store to one address changes bytes another entry may
stand for, so it is not inductive; `Coherent` is: every entry stored to since the last reset agrees with
memory in the width it was stored in, and is the first of its address.  Agreement
of an entry is kept by the discipline (`WordApart` and its relatives), uniqueness
by `Recorded`, which writes the entry it finds.  A reset keeps the entries behind
the ones it clears while it zeroes memory; the history variable `leftover` follows them when
they are shifted, and until they are stored to or shifted out nothing is claimed of them.

`Reads` needs no discipline: memory has no history in it.  A word is the number of its bytes
(`Value`), so that a store of four bytes at the address of a word replaces one number and a store of
its low byte one remainder; alignment keeps the other numbers.

`Comparisons` rests on two lemmas about words (`CompareFlags`, `AddFlags`): a sum or
difference of two words wraps at most once (`WrapOnce`), and the cases that are
left are linear.

`Addresses` is inductive with `InTheFile`: in the first pass the label table has the
labels of the lines passed and no others, so that a label the second pass makes up
is one that no line defines.

`AssemblesToWhatItSays` is inductive with that and with `LabelsKnown`, together
`Faithful`: the only labels that are not the file's are those its own jumps made up.  A line
is looked at when `parseInstruction` assembles it (`LineDecodes`, one lemma per
kind of line, from the lemmas of `EncodingProofs`); from then on its word stays (`WordsStay`).

The theorems of `EncodingProofs` take an instruction word for the set of its positions that are 1.
Encoding is a union of fields moved into place, so that decoding inverts it
exactly when the ranges of positions are disjoint; each format is a lemma, and the theorem
is their conjunction over the functions of the encoder.

**Assumptions.**  `WidthAssumption`, `BinaryAssumption` (every set of bit
positions is the expansion of a word), `MemoryAssumption`, `PredictorAssumption`,
`MachineAssumption`, `CpuAssumption`, `DisciplineAssumption` (code, words, bytes and stack do not meet and leave the
ports alone; it holds of empty sets, too, so the theorems on handlers ask nothing
by it), `BytesAssumption`, `Discipline`, `WordsAssumption` (bytes are digits below BYTE, memory is
a whole number of words, and the ports are the same in both) and `SourcesAssumption`, each in the module of its constants;
TLC evaluates them in the runs of those modules.  `BinaryAssumption` is a fact about binary
notation whose proof is an induction the provers cannot do; TLC evaluates it
for the widths it uses.

**Model-checked only.**  `TimerServed`, `KeysConsumed` and `RunGoesOn`: liveness under
fairness is out of the prover's reach.
`Disciplined`, `HandlersBehave` and `KeysServed`: they are conditions on programs, which the
runs show to be met by theirs.  The violations of section 5.

## 7. Not modelled

 * `read_u16` and `write_u16`: no instruction and no other function uses them; a host that calls
   them through `get_memory()` is left out.
 * The string port's scan for a NUL and everything else about characters: what the
   port prints is its address.
 * Handlers that are themselves interrupted.  The code keeps one return address
   and one frame address, so a handler that enables interrupts loses its own; no
   document promises otherwise, and there is nothing to state.
 * CSR numbers 15 to 31 in the processor, which index past the array.
 * Lines of assembler with too few arguments, which read past a vector.
 * `dump.cpp`, `CMakeLists.txt`, `assembler.exe`: printing, build, binary.

## 8. Plan

Done: 1. `Alu`, `Memory`, `Machine`, `Predictor`; 2. `Cpu` with type correctness,
forwarding and control flow; 3. `Isa` and the refinement; 4. interrupts, timer,
keyboard, debugger and host calls, the devices together; 5. `Encoding`; 6. `Assembler`;
7. `Bytes`; 8. type correctness, forwarding, control flow, loads, comparisons, addresses
and decoding as theorems; 9. the write history, the refinement, the transparency of
handlers and the assembler as theorems, with the programs and handlers described by
predicates; 10. interrupt lines and keys, for handlers described by what they
read; 11. the array of bytes and the array of words related; 12. what
`set_register` and `reset()` in the middle of a program leave intact; 13. decoding of every word.

What is left is small: the CSR numbers as numbers, with what an index out of the
array may do, and the text the string port prints.
