# Specifications of HVM: simulator core and toolchain

TLA+ models of the HVM instruction-set simulator and of the hvmc toolchain, the
TLC runs that check them on small instances, and TLAPS proofs about the hart, its
vector unit, the memory, the machine code, the preprocessor, the C lexer, the
code generator, the assembler and the ELF writer. Paths below are relative to the
repository.

## 1. Inventory

| Part | Code | State | Operations |
|---|---|---|---|
| hart executor | `src/hvm_sim_core/executor.cpp` | registers, pc, CSRs, privilege, LR/SC reservation, hardware loop, memory through its interface | `step`, `execute_inst` (one case per mnemonic), `tick_timer` |
| vector unit | same file, `kVSETVL` to `kVSRL_VX` | 32 vector registers of 4 lanes, `vl`, `vtype` | loads, stores, lane arithmetic, merge, first, reductions |
| CPU state, decoder, exceptions | headers `hvm-sim/core/*`, not in the repository | the CSRs; `trap_pending` | `signal_trap`, `read_reg`/`write_reg`, `read_csr`/`write_csr`, `decode_inst` |
| memory system | `src/hvm_sim_mem/memory.cpp`, `memory.hpp` | the list of regions, the MMIO handlers | add, protect, clear, byte, wide and bulk accesses |
| flat memory | same files | one array | the same accesses |
| preprocessor | `src/tools/hvmc/src/preprocessor.cpp` | one state per open file: macros, include stack, two conditional flags, output | one per directive, text, end of file |
| assembler | `src/tools/hvmc/src/assembler.cpp` | pass, current section and its bytes, sections, labels, globals | one per kind of statement, end of pass |
| encoder | `src/tools/hvmc/src/encoder.cpp` | none | packing of fields |
| ELF writer | `src/tools/hvmc/src/elf.cpp` | section headers, symbol and string tables, layout, output | `write_elf` |
| C lexer | `src/tools/hvmc/src/lexer.cpp` | position in the source, line, a token looked at | `next`, `peek` |
| C parser | `src/tools/hvmc/src/parser.cpp` | the lexer | one function per rule of the grammar |
| code generator | `src/tools/hvmc/src/codegen.cpp` | the text written, the label counter | `gen`, one function per kind of node |
| hvmc driver | `src/tools/hvmc/src/main.cpp` | none | preprocess, compile, assemble, write; options and files |
| hvmsys, hvmimg, hvmdisk | `tools/*/main.cpp` | none | option parsing; they print what they would do |
| block, board, dev, fw, host, jit, monitor | `hvm_sim_*/stub.cpp` | none | none: stubs of three lines |

How they interact. The host calls `step` in a loop. `step` decodes the
instruction at the pc, executes it, and turns a thrown C++ exception into a
trap; memory is reached by calls that throw, so a failing access leaves
`execute_inst` in the middle of an instruction. After an instruction that
completed, or that itself signalled a trap, the timer ticks and may signal an
interrupt in the same call. A device is a pair of callbacks that the memory
system calls. In the toolchain each stage calls the next: the preprocessor's
text is compiled to assembly, the assembler's sections and symbols become the
ELF writer's argument, and the file it writes is read by the loader that
`docs/hvm-kernel-development.md` describes and run by the hart.

What is hard here, and what correctness means for each part:

- *Hart.* Three sources of control transfer (instructions, faults thrown in the
  middle of one, timer interrupts) meet in one call, and the software handler is
  itself interpreted, may fault, and returns to code that must not notice.
  Correct means: user code and handler never run in each other's mode, an
  interrupted program behaves as an undisturbed one, a faulting instruction can
  be run again, LR/SC loops lose no update.
- *Vector unit.* A lane may throw after others were stored; registers may be
  source and destination at once. Correct means: a restarted access ends as an
  undisturbed one, and a reduction reads its operands before it overwrites them.
- *Memory.* Regions are found by first match, several call paths see the same
  bytes. Correct means: it is a byte store with devices.
- *Preprocessor.* Recursion over files that include each other, and two flags
  that stand for a stack of conditional groups. Correct means: it terminates and
  selects the lines C selects.
- *Lexer and parser.* Where a token begins depends on all that was skipped
  before it, and eleven functions share the stream of tokens. Correct means: the
  tokens are C's, and the tree is the one that was meant.
- *Code generator.* Every operator computes in the same two registers, and
  labels are taken before the nested statements that take more. Correct means:
  the text does what the C program does.
- *Encoder.* Instructions have one word or an escape and two, and a reader has
  only the bytes to tell. Correct means: the bytes are read back, and run, as
  the instructions written.
- *Assembler.* Two passes must walk the same source alike; sections are
  switched, committed and started again. Correct means: labels are true, and
  nothing is lost.
- *ELF writer.* Addresses, file offsets, section numbers and string offsets are
  computed separately and refer to each other. Correct means: a reader that
  follows the references and a loader that copies the segment find every byte
  and every symbol where the headers say.

`PROJECT.json` lists the hazards of this kind with their lines and the
properties that cover them.

## 2. Modules

| Module | Models | Role |
|---|---|---|
| `Hart` | `executor.cpp`: `step`, `tick_timer`, `execute_inst` | the base of the next four |
| `HartTraps` | Hart under an image of user code and a handler | trap invariants, `TrapInv` |
| `HartFaults` | Hart, its memory instructions | what a throwing instruction leaves behind |
| `Threads` | Hart running two threads and a switching handler | LR/SC under preemption |
| `Transparency` | Hart running a looping program with a timer handler | refinement to a hart without a timer |
| `HartProofs` | | types of the hart; theorems about `HartFaults` |
| `TrapProofs` | | theorems about `HartTraps`, on top of `HartProofs` |
| `ThreadProofs` | | theorems about `Threads`, on top of `HartProofs` |
| `TransparencyProofs` | | theorems about `Transparency`, on top of `HartProofs` |
| `Words` | powers of two, bits and fields of a word, sign extension | used by `Scalar`, `Encoder` and `FlatMemory` |
| `Scalar` | `executor.cpp`: arithmetic, shifts, comparisons, accesses of every width | operators |
| `FlatMemory` | `memory.cpp`: the flat memory | operators |
| `Encoder` | `encoder.cpp` and the opcode table of `types.h` | operators |
| `MachineCode` | the three together: encode, decode, execute | beside the documented decoding and the instruction set |
| `VectorUnit`, `VectorSpec` | the vector instructions; their properties | |
| `VectorProofs` | | theorems about `VectorSpec` |
| `ByteStore` | | abstract memory: bytes, locked blocks, device ports |
| `MemorySystem` | `memory.cpp` | shown to implement `ByteStore` |
| `MachineProofs` | | theorems about `MemorySystem`, the refinement among them, and about `MachineCode` |
| `Preprocessor`, `PreprocessorC` | `preprocessor.cpp`; beside the rules of C | |
| `FrontEndProofs` | | theorems about `PreprocessorC` and `Lexer` |
| `Lexer`, `Parser`, `CodeGen` | `lexer.cpp`, `parser.cpp`, `codegen.cpp` | |
| `Lexemes`, `CSyntax` | | what C says of lexemes; of the spelling of trees |
| `CodeMeaning` | | the generated text at work, beside the rules of C |
| `Compiler` | `main.cpp`: the path of `-S` | composes the six above |
| `BackEndProofs` | | theorems about `CodeGen`, `AssemblerSpec` and `ElfSpec` |
| `Assembler`, `AssemblerSpec` | `assembler.cpp`; its promises | |
| `ElfWriter`, `ElfSpec` | `elf.cpp`; what readers and the loader rely on | |
| `MC*` | | instances for TLC |

An operator whose name is another's followed by an underscore and a word
(`Retire_TicksFirst`) is that operator with a plausible programming mistake in
it. No action uses one; each exists to show that the property named with it in
`PROJECT.json` fails when the code has that mistake.

### The hart

`ctl` holds the pc, the privilege level and the CSRs, `regs` the general
registers, `resv` and `loop` the reservation and the hardware loop, `mem` the
mapped doublewords. One action is one call of `step` for one group of mnemonics,
with everything that call does: the register and memory effects in the order of
the code, the trap if an access throws, the pc, and the tick with the interrupt
it may signal. Three operators stand for the three ways out of `step`: `Retire`
(the instruction completed; tick), `Raise` (the instruction signalled a trap;
tick) and `Thrown` (an access threw; no tick).

The program is a constant: `Code(a)` is the set of instructions that may be
decoded at address `a`, so that one run covers many programs, and self-modifying
code is outside the model. Words wrap at `WordSize` and `stime` at `TimeSize`.
Doubleword accesses are aligned: an action whose access is not is disabled, and
such executions are not followed. Sizes below a doubleword are in `Scalar`.

The headers `hvm-sim/core/*` are not in the repository. What `signal_trap`, the
CSR accessors and `TRAPRET` rely on follows the executor's use of them,
`docs/hvm-spec.md` 9.1 to 9.3 and `docs/roadmaps/hvm-simulator-roadmap.md`
80-85, and is marked external in the map.

### Scalar instructions and their encoding

`MachineCode` carries a program of any instructions of the table through
`Encode` into bytes, reads them back, and runs the scalar ones over a flat
memory. `decode_inst` is not in the repository: `Decode` is the decoding that
`docs/instructions.md`, section 3, describes, on the formats of `types.h`, and
is external. Instruction words are 32 bits, as sets of positions, so that
overlapping fields overlap. Registers are eight bytes of `ByteBits` bits; with
two bits to a byte a word has 16, enough for the 15-bit immediates at their real
width.

`Scalar` computes as the executor does, by way of unsigned arithmetic, sets of
bits and masks; `Meant`, `MeantLoad` and `MeantStore` say what the Operation
column of `docs/hvm_instruction_set.csv` says, as conditions on the result. Of a
division by zero the column says nothing; there `test_cpu.cpp:269`, `:283`
and `:297` speak. RETAIN and RELEASE have no meaning in `Meant`, because the code
does not do what the column says (section 5). DIV and REM of the least value by
-1 are undefined in C++: the model wraps or stops the process, and
`ExecutesAsWritten` leaves the result open.

### Vector unit, memory, preprocessor, assembler, ELF writer

In `VectorUnit` the lane loops are instances of `Loop`, a recursive function over
the lanes in their order, each iteration reading what the earlier ones wrote.
`retried` is a history variable: the instruction that threw and the result it
would have had. `VectorOperands` says which operands name vector registers, so
that a program of the model is one the decoder can yield.

In `MemorySystem` a call is an action with its arguments in `request` and its
outcome in `reply`, a throw changes nothing else, and a device is the byte it
holds. The host is held to a contract (`Disjoint`): regions share neither a base
nor an address and do not reach the top of the address space, and a device is
accessed byte by byte. `ImplementsStore` maps the regions to the bytes, ports,
blocks and locks of `ByteStore`, where `request` is the same variable: what
`ByteStore` answers and changes is a function of the call and its arguments, down
to the addresses named by a `write` or a `set_read_only`.

In `Preprocessor` the recursion of `preprocess_internal` is a stack of frames
and an action is one line; `PreprocessorC` follows it with the groups C would
have open, C's one table of macros, and the lines C would have written. The code
writes its lines without their ends, so `RunTogether` of C's lines is what
`PlainFollowsC` compares with: the right lines, in order, with the right macros,
but not C's words where two of them meet. In `Assembler` an action is one round
of the token loop, tokens are given (the lexer is abstract), and the contents of
a section are sized pieces; `AssemblerSpec` records what the first pass saw. In
`ElfWriter` contents are sizes, the file is the sequence of the pieces written,
and the stages are those of `write_elf`.

### The C compiler

The parser pulls tokens from the lexer one at a time, but nothing the lexer does
depends on the parser and an exception of either ends the compilation, so
`Compiler` lexes first: an action is one call of `next`. A function of the
parser is an operator from a position in the tokens to a node and the next
position, with position 0 for a parser that has thrown. In `CodeGen` the
recursion of `gen` is a stack: `work` holds what the calls under way have still
to do, and an action is the body of one call, up to the calls it makes.

Three things are compared. `ReadsLexemes` compares the tokens with the lexemes
of `Lexemes`, which are those of the part of C that hvmc reads: no suffixes of
numbers, no floating numbers, no `...`, no digraphs. `ParsesAsMeant` starts from
a tree, spells it as C with as few parentheses as C needs, and compares what the
parser makes of it. `RunsAsWritten` runs the text: `CodeMeaning` has a machine
for its lines and an interpreter of the tree by the rules of C, and they meet
the same world. When both wait for it (a call, inline assembly, return) they
must wait for the same, with the same arguments; what a call answers is free.
`KeepsUp` says that the machine gets there. `Plain` is the part of C for which
the generator has code; section 5 has the rest.

## 3. Runs

States are distinct states; every passing run takes under two minutes.

| Run | Question | Bounds | States |
|---|---|---|---|
| `traps` | Are user and handler kept apart under exceptions, nested faults and interrupts? | 6 code addresses, any of up to 8 instructions at each, timer set to any of 5 ticks, time modulo 4 | 557,973 |
| `faults` | What does an instruction that throws leave behind, and can it be run again? | 11 memory instructions, 3 doublewords, one read-only, addresses in and out of them, a handler that moves any base register; time modulo 2, enough to tell a tick from none | 619,740 |
| `threads` | Do two LR/SC loops lose an increment, and do they finish? | 2 threads, 3 rounds each, a switch at any instruction (a period of 9 to 14 ticks chosen anew each time; time modulo 512) | 208,269 |
| `transparency` | Does an interrupted program do what it does undisturbed? | loop counts 0 to 3, a call with a frame in each round, periods 5, 6 and 9 mixed freely | 75,699 |
| `memory` | Do regions implement the byte store? | 5 addresses, 2 regions of 0 to 2 bytes, 2 byte values, one device, wide accesses of 2 | 9,410 |
| `preprocessor` | Does it end, and agree with C on the plain part of the language? | every root file of 4 lines over 10, with 7 families of included files: guarded, recursive, mutually recursive, failing | 479,649 |
| `vector` | Do restarted accesses and reductions end right? | 3 lanes, 3 registers, 21 instructions, any of 4 doublewords missing, 3 instructions in a row | 32,881 |
| `assembler` | Do the passes agree, and does a source that enters each section once lose nothing? | every source of 4 lines over 18 | 1,206,431 |
| `elf` | Is every byte and symbol where the headers say? | section sizes 0, 4 and 9, up to two symbols, local or global, with and without relocations | 286,902 |
| `compiler` | Is what the generated text does what the C program says? | 1,678 trees: every statement inside every other, every operator beside every other, declarations (884 of them are plain and run); and 2,575 texts, all of up to 3 to 5 symbols over eight alphabets, for the lexer | 144,809 |
| `machine_code` | Is each instruction read back and run as it was written? | every instruction with immediates at the ends of its field, all streams of three over 15 shapes, stores followed by loads; 16-bit words, 12 bytes of memory | 145,409 |
| `first_operand_lost` | deviation, section 5 | sources of 4 lines | |

Why the bounds suffice. Traps nest by faults of the handler, and a nested trap
overwrites all there is, so a second nesting is like the first; three
instructions of user code and a timer at any tick put an interrupt before,
inside and after each exception. Two rounds of two threads allow the
load-switch-store-switch-store pattern that LR/SC is about; the third repeats
it. The handler picks each period anew, so the switch falls on every
instruction, between every LR.D and SC.D. Four lines open, branch and close a
conditional with a line in it, or enter two sections and come back. An
instruction's meaning depends on its own bytes and, through the escape, on the
ones before it: three in a row have one before, within and after. A statement's
code depends on its parts only through labels and the two registers, so depth
two shows what any nesting does, and the labels are proved for every depth.
Lexemes of C have at most three characters that are not letters or digits. In
`elf` the sizes are below, at and above each alignment. Vector registers have
one lane fewer than the code's four, so that lane sequences stay short; first,
middle and last lanes exist. `MaxIssued` bounds the vector programs, and
`MaxRegions` the memory map. `memory` has a VIEW that leaves `request` and
`reply` out of a state's identity: no call reads them, and the refinement is
checked on every step, also on one that leads to a state already seen.

Deadlock is checked in every passing run but `vector`, where a behaviour stops
after `MaxIssued` instructions or at an access that is not aligned.

Fairness. `FairSpec` is weak fairness of `Step`: the host calls `step` in a loop
and `step` returns whether an instruction completes or traps. Nothing is assumed
of the timer: its periods are what the handler's program writes. In `compiler`
it is weak fairness of `Machine`: the generated code goes on until it waits;
nothing is assumed of the compiler or of the world. `BothFinish` holds for
periods from 9 ticks on: the handler takes part of a period, and a slice must
hold a whole LR.D to SC.D sequence, for the switch breaks the reservation. With
a period of 8 TLC finds the two threads retrying for ever, which is a property
of the program and not of the simulator. `ProgramFinishes` likewise needs a
period that outlasts the handler.

What the properties say is written above each in its module. The ones that carry
most:

- `EntryIsExact`, `ExceptionSurvivesTick`: the two trap signals that one `step`
  can give never run into each other.
- `SavedContext`: while the handler runs, `sepc`, SPP and SPIE describe one
  context, the user's or the handler's own after a nested fault.
- `InterruptsTransparent`: refinement of the interrupted hart to a hart with no
  timer, by the map that reads the pc of a hart in its handler from `sepc`.
- `FaultsRepeatable`, `PartialStoreConfined`, `RestartIsExact`: partial effects
  before a throw are harmless to the run that follows the repair.
- `ReservationEarned`: no SC.D reports a success that it did not have, however
  often it threw and was run again; what invalidates a reservation is left open.
- `NoLostUpdate`, `CounterTracksRounds`: LR/SC is atomic *if the handler breaks
  the reservation* (`Breaks`). With `Breaks = FALSE` TLC finds a lost update;
  the duty is the handler's, because the simulator does not do it.
- `RunsAsWritten`, `KeepsUp`, `ExecutesAsWritten`: what code *does* is compared,
  from C to the lines of assembly, and from instructions to their bytes and back
  to effects.
- `ImplementsStore`, `PlainFollowsC`, `MacrosFollowC`, `PassesAlign`,
  `PlainIsComplete`, `LoadsWhereLinked`: the specification of each other part,
  on the part of its inputs where it holds; section 5 has the rest.

## 4. Proofs

Every theorem holds for every value of the constants that satisfies the named
assumptions; TLC evaluates each assumption in a run. "Invariant" is what is
proved inductive, because none of these properties is inductive alone.

| Module | Theorem | Statement | Invariant |
|---|---|---|---|
| `HartProofs` | `TypeCorrect` | `Spec => []TypeOK` | itself |
| | `FaultsRepeat` | `Spec => FaultsRepeatable` | `TypeOK` |
| | `PartialStores` | `Spec => PartialStoreConfined` | `TypeOK` |
| | `ReservationsEarned` | `Spec => ReservationEarned` | `TypeOK` |
| `TrapProofs` | `Separation` | `Spec => []PrivilegeFollowsCode` | `TrapInv` |
| | `Masking` | `Spec => []HandlerMasked` | `TrapInv` |
| | `EnableKept` | `Spec => []UserKeepsSie` | `TrapInv` |
| | `ContextSaved` | `Spec => []SavedContext` | `TrapInv` |
| | `ExceptionsReported` | `Spec => ExceptionSurvivesTick` | `TrapInv` |
| | `EntryExact` | `Spec => EntryIsExact` | `TrapInv` |
| `ThreadProofs` | `NoUpdateLost` | `Spec => []NoLostUpdate`, if `Breaks` | `ThreadInv` |
| | `CounterTracks` | `Spec => []CounterTracksRounds`, if `Breaks` | `ThreadInv` |
| `TransparencyProofs` | `FramesBalance` | `Spec => []FrameBalanced` | `ProgInv` |
| | `LoopExact` | `Spec => []LoopRunsExactly` | `ProgInv` |
| | `TimerIsTransparent` | `Spec => InterruptsTransparent` | `ProgInv` |
| `VectorProofs` | `VectorTypeCorrect` | `Spec => []TypeOK` | itself |
| | `RestartExact` | `Spec => RestartIsExact` | `TypeOK`, `Owed` |
| | `ReductionsExact` | `Spec => ReductionExact` | `TypeOK` |
| | `InactiveKept` | `Spec => AccessKeepsInactive` | `TypeOK` |
| `MachineProofs` | `MemoryTypeCorrect` | `Spec => []TypeOK` | `TypeOK`, `Disjoint` |
| | `MemoryIsByteStore` | `Spec => ImplementsStore` | `TypeOK`, `Disjoint`, `Owned` |
| | `ProgramReadsBack` | `CodeSpec => []ReadsBack` | `CodeInv` |
| | `ProgramExecutes` | `CodeSpec => ExecutesAsWritten` | `CodeInv`, `HartInv` |
| `FrontEndProofs` | `NoEndlessInclude` | `CSpec => []NestingBounded` | `NestInv` |
| | `MacrosAreCs` | `CSpec => []MacrosFollowC` | `MacroInv` |
| | `PlainIsC` | `CSpec => []PlainFollowsC` | `TextInv` |
| | `LexemesRead` | `LexSpec => []ReadsLexemes` | `LexInv` |
| `BackEndProofs` | `CodeGenTypeCorrect` | `Spec => []TypeOK` | itself |
| | `EveryLabelResolves` | `Spec => []LabelsResolve` | `LabelsInv` |
| | `OffsetsAgree` | `ASpec => []PassesAlign` | `AsmInv` |
| | `PlainIsWhole` | `ASpec => []PlainIsComplete` | `AsmInv` |
| | `ElfTypeCorrect` | `WriteElf => []ElfTypeOK` | `ElfInv` |
| | `FileIsExact` | `WriteElf => []FileIsWhatItSays` | `ElfInv` |
| | `LoadedWhereLinked` | `WriteElf => []LoadsWhereLinked` | `ElfInv` |
| | `TablesAreLinked` | `WriteElf => []TablesLinked` | `ElfInv` |
| | `SymbolsAreResolved` | `WriteElf => []SymbolsResolve` | `ElfInv` |

*Types and faults.* Assumptions: `SizesAssumption`, `RegsAssumption`,
`CellsAssumption`, `CodeAssumption` and `BootAssumption` give the constants of
`Hart` their types. A step that throws does not tick, and one that completes
does; `ClockAssumption` (`stime` has at least two values, 2^64 in the code) makes
the tick visible, and with it the theorems tell a throw from the rest
(`TickedIsNotThrown`, `RetiredIsNotThrown`). Only the actions in `ThrowingOps`
are left, and each is shown to leave registers and memory as the property says.
For `ReservationEarned` every other action is shown to leave the reservation
alone.

*Traps.* `ImageAssumption` and `UserBootAssumption` are the contract of the
software image: user code stays in its addresses and uses neither CSRRW nor
TRAPRET, the handler leaves by TRAPRET only and does not write `sstatus`,
`stvec` or `sepc`, and the host starts user code in user mode. That the handler
is masked needs that a nested TRAPRET restores a masked context, that TRAPRET
ends in user code needs what `sepc` holds. `TrapInv` is the conjunction of them
with `TypeOK` and `stvec` in the handler. Lemma `Outcome` reduces the 24 actions
to six outcomes (retire to an address of `Flow`, raise, throw, TRAPRET, CSRRW,
undecodable); `ControlOK` is `TrapInv` as a predicate of the control record, and
`SignalTrapControl`, `TickTimerControl` and `FlowControl` show that the building
blocks keep it, so each outcome does.

*Threads.* `ThreadImageAssumption` says that the hart runs the two threads and
the handler of `Threads`, `RoundsAssumption` that the two doublewords differ and
are aligned, that each thread has a round to do and that the sum fits a
register. The number of rounds and the periods are free. `ThreadInv` says where
each thread is (the one that does not run by the pc in r28), what its registers
hold there, that the doubleword is the sum of the rounds done so far, a round
counting from its successful SC.D on, and, what atomicity rests on, that while
the running thread holds the reservation the value it loaded is still the
counter's (`Fresh`). The handler's own store-conditional is where `Breaks` comes
in: after it the reservation is of the other doubleword, so the thread that is
switched in cannot inherit it.

*Transparency.* `ProgAssumption` says that the hart runs the program and the
handler of `Transparency`, on a stack with room for three doublewords; counts,
periods, the widths and the rest of memory are free. `ProgInv` says, for the pc
the program is at or will return to, which frame is on the stack, what is saved
in it, and how the calls made and the loop counter add up to the count asked
for; while the handler runs none of this changes, because it writes r28 and CSRs
only (`HandlerEffect`). For the refinement, the quiet hart is `Hart` with a timer
of one value that is disabled, so that its tick does nothing (`QuietTick`);
`QuietFlow`, `QuietRegister`, `QuietMemory` and `QuietStack` show for all 19
actions a program may take that reading and writing any register but r28 has the
same outcome there, unless the instruction throws. `ProgInv` is what says that
none does. `UnderHandler` in `HartProofs` is what this and *Threads* share: the
control states of a program below a masked timer handler.

*Vector unit.* `ProgramAssumption` and `BootAssumption` are types.
`SizesAssumption` bounds the lanes by the values of a word (VFIRST puts a lane's
number in a register); `PowersAssumption` states the arithmetic fact that powers
of two up to the word's width are positive, because the provers do not know
powers. The loops are recursive functions, so the module begins with induction
and recursion over an initial segment of the naturals, from the least element of
a set (`Induction`, `Recursion`, `Determined`). From them `TransferLoads` and
`TransferStores` say in closed form what a load or store has done: lane j of the
destination holds the doubleword its address names if no lane up to j threw; a
doubleword holds what the last lane to reach it stored. `RunAgain` and
`CompletedRun` follow: a run from what an earlier one left ends as one from the
start, because it computes the same addresses (unless a gather overwrites its
own indices) and does at least the same lanes. `Owed` is the invariant: while an
instruction waits to run again, one undisturbed run from here ends where its
first would have. For reductions the accumulator is shown equal, lane by lane,
to the reduction of the vector as it was before; the property speaks of it where
all lanes are active.

*Memory.* `AddrAssumption` gives the types (0 is a byte, which is what fresh
regions hold); `WidthsAssumption` says that no caller asks for so many bytes that
offset plus length wraps. In a layout that keeps the host's contract the first
region found for an address is the only one (`OnlyRegion`), so what the code
reads, writes and refuses by searching is what the mapped bytes, ports, blocks
and locks of `ByteStore` say. `Owned` says that a device's handlers belong to a
region, so that a region added at a free base is not answered by a device. Each
action is shown to be the step of `ByteStore` for the same request, wide and bulk
accesses of any length included.

*Machine code.* `StartsAssumption` says what the assembler hands the encoder and
the host the hart: mnemonics of the table, registers 0 to 31 (`parse_reg`), any
immediates, programs of any length; registers that hold words, r0 zero.
`DataAssumption`: the image loaded into memory is bytes. `WordAssumption` (an
immediate fits in a word) and `ByteAssumption` leave the widths of bytes and
words free, so that 64 bits are one case. `CodeInv` says that the section is the
instructions encoded so far, one after another, by the existence of the places
they start at; `HartInv` that the pc is the place of the instruction that runs
next, and that registers and memory hold words and bytes. The rest is arithmetic.

Powers of two are the recursive function `TwoTo`, because the prover knows
`2^n` for a given `n` only; that it has a solution, and the laws of exponents, are
proved first (`TwoToSum`, `TwoToMonotone`, `TwoToTable`). A number modulo `2^n`
is the sum of its low `n` bits (`ValueOfOneBits`), as what memory holds is the sum
of its bytes (`DigitOf`), by induction over the positions. For *reading back*:
the fields of a format do not overlap, so each holds what was put there
(`FieldsR`, `FieldsI`, `FieldsB`, `FieldsJ`); two rows of the opcode table differ
in the opcode or in the function code (`BaseApart`, `EscapeApart`), so the decoder
finds one row; a word whose low byte is not the prefix is not taken for an escaped
one, and an opcode above 127 is two bytes of ULEB128, so that the escaped form
always has eight (`DecodeBack`). For *executing*: two words with the same bits are
equal (`BitsDetermine`), which is how shifts by sets of positions are shown to be
multiplication, division and division of the signed reading (`ShiftMeant`);
wrapping commutes with the signed reading (`SignedWrap`), and rounding towards
zero has the one remainder with the sign of the dividend (`DivideMeant`); a load's
extension by its sign sets the bytes above, whatever the width (`LoadMeant`), and
a store replaces the bytes it names (`StoreMeant`). `RunMeant` puts the lemma of
the instruction that `FoundAt` finds at the pc under each way a step can end.

*Preprocessor.* `FilesAssumption` says what files there are. `NestInv` says that
the include stack of a frame lists exactly the files open above the root, its
own the last, and that none of them is there twice. `MacroInv` relates the two
flags of each frame to the groups C would have open, on the plain part of the
language: at most one group is open in all, it is in one frame, and the flags of
every frame above it say whether it selects; the table of a frame that is
returned to is replaced by the included file's, as C's single table would be.
`TextInv` adds that the outputs of the open files, one after the other, are the
lines of C's text run together: a line extends the last of them and the whole
alike (`FlattenWrite`, `RunOn`), and the end of an included file puts the last
at the end of the one before it (`FlattenPop`), which is not muted because on
the plain part it was included from a selected line. That a macro is replaced
exactly once, whatever the order of the `unordered_map`, is `ExpandsAsC`: the
order tries each of the finitely many macros, and a value that is no macro is
left alone after it.

*C lexer.* `LexSpec` is the lexer on its own; `Compiler` starts it on some of
its sources, and only its steps change the lexer's variables, so that the
theorem holds of `Compiler` as well. `AlphabetAssumption` says that letters,
digits, operators and the other characters are apart, that the digits below ten
are the decimal ones, and that `x` and `X` are letters and no digits; words and
hexadecimal digits are then those of C. `LexInv` adds to the property what the
next token starts from: between the last token and `pos` there is nothing but
blanks and comments, or a comment that is not closed (`Gap`), and `line` counts
the newlines before `pos`, unless one follows a backslash. `Skip` and
`StringFrom` call themselves further on in the source: that they are functions
at all is `Onward`, a function given by its value at later positions exists when
some position is the last; what they return is shown from the end of the source
backwards (`CountDown`, then `SkipFacts` and `StringFacts`). The heart of a
string is `EndingLater`: the quote that closes it is the first with an even
number of backslashes before it, counted back to its start, whichever escape the
scan has just passed. Each kind of token then has its lemma (`WordReads` to
`OperatorReads`): the symbol it begins with leaves one kind of lexeme
(`LexemeClass`), and the scan ends where that one is longest. For operators the
four tables of the lexer are compared with the spelling of all 45 (`Forms`).

*Labels.* `NodeAssumption` says that the parts of a node are nodes. A label may
be named long before it is placed, so `LabelsInv` says that in the text and the
calls still to be made together, no label is placed twice, every label named is
placed, and all are below the counter. When `work` is empty that is
`LabelsResolve`.

*Assembler.* `SourcesAssumption` gives the tokens their types and says that no
`.align` has a zero, for which the code divides by zero; sources are otherwise of
any length and content. `NextPos`, `NextSize` and `NextSec` say where a round at
a token goes on and what it makes of the offset and the section, from the tokens
alone; `Rounds` shows of the ten actions that they do just that, in either pass.
`AsmInv` says that the tokens of the first pass are one run of them, noted
without gaps (`TraceInv`), so that the second pass, which starts where the first
did, meets the same offsets. For plain sources it adds that the switches noted
are those of that run, each with a name of its own (`EnteredInv`), and, while the
second pass is in a section, that what it has gathered is what was assembled
there, that the sections left are whole and those still to be entered empty
(`GatherInv`). `Size` is a recursive function; `SizeAppend` is proved by induction
over its length.

*ELF writer.* `SizesAssumption`: the base address is a multiple of 8 below the
word's limit. `ObjectsAssumption` types the assembler's output; its symbols are
in one of the four sections. `FitsAssumption`: the addresses and offsets of a
loaded image fit a word, as they do in any file the writer's 64-bit sums can
describe. `NamesAssumption`: a string has a length. Contents, sizes, symbols and
names are otherwise free. `ElfInv` is the conjunction of `ElfTypeOK` with what
each stage leaves: the headers and tables pushed so far (`HeadersInv`), the
symbols written (`SymbolsInv`), the placement of the sections (`LayoutInv`), the
segment (`SegmentInv`) and the pieces in the file (`FileInv`). `LayoutInv` is the
heart of it: the sections placed so far follow one another, and each loaded one
is as far from the end of the headers as its address is from the base. That
survives alignment because base and header end are both multiples of 8
(`AlignShift`); so the one segment, taken from the least and greatest of the
loaded sections' bounds, maps each of them to its own address, and the first
section that has bytes to the base, the empty ones before it taking no room.
`FileInv` has the pieces distinct and in order, those of the first sections
written, and the end of the file not past what is still to come: that is why no
piece overwrites another.

Only model-checked: liveness, under fairness, and ENABLED, which are out of the
prover's reach; the parser and the meaning of the generated text
(`ParsesAsMeant`, `RunsAsWritten`, `KeepsUp`), whose definitions are RECURSIVE,
over trees of any depth. The library's induction theorems cannot be instantiated
with the provers used here: induction over naturals and over the positions of a
text is proved above as far as it is needed, induction over trees is not.

## 5. Known deviations

One is a run of its own.

- `assembler.cpp:318`, run `first_operand_lost`. The token after a mnemonic is
  read to look for a colon and dropped: `mov r1, r2` is assembled with `r2` as
  its destination. If that token is the newline, the next line is swallowed.

The others were met while modelling, are reproduced by the models, and bound the
properties; they have no run of their own.

Hart:

- `executor.cpp:460`: a store to the reserved address leaves the reservation
  valid, and so does a trap; `docs/hvm-spec.md:292-293` says both invalidate it.
  A handler that switches threads has to break it (see `Threads`).
- `executor.cpp:967`: `step` returns `trap_pending`, which nothing in the
  repository clears; the host cannot tell a trap from an earlier one.
- `executor.cpp:179`, `:205`: DIV and REM of the least value by -1 are undefined
  in C++. RETAIN copies its source and RELEASE gives 0, where
  `docs/hvm_instruction_set.csv:7-8` counts references in memory and returns the
  zero flag; `ExecutesAsWritten` leaves both out.
- `executor.cpp:605`: LOOP.DECBR with a count of 0 goes on to the next
  instruction, so that the body has run once; by
  `docs/hvm_instruction_set.csv:73` the count wraps and the branch is taken.
  `LoopRunsExactly` leaves a count of 0 open.
- `executor.cpp:481`: PUSH moves r31 before its store can throw, and LEAVE
  writes r29 before its second load can; the design document 10 (line 1974)
  requires precise exceptions. `FaultsRepeatable` leaves PUSH out, and a pair
  load into its own base register, which is lost before the second access.
- `executor.cpp:961`: every exception that is thrown is reported with cause 2;
  `docs/hvm-spec.md:204-207` gives loads cause 1 and the comment at
  `executor.cpp:960` speaks of illegal instructions.
- `executor.cpp:722`, `:854`, `:741`: a gather into its own index register
  cannot be restarted; a reduction in place loses lane 0; arithmetic changes
  lanes past `vl`, where `docs/hvm_instruction_set.csv:91` says active elements.
- `executor.cpp:855`, `:864`, `:874`: reductions go over all lanes whatever `vl`
  is, where `docs/hvm_instruction_set.csv:105-107` reduces the active elements.
  `ReductionExact` speaks of `vl = Lanes` only.

Memory and toolchain:

- `memory.cpp:256`: wide and bulk accesses to a device's addresses use the
  region's own bytes; `docs/hvm-kernel-development.md:1485` drives a device with
  64-bit stores.
- `preprocessor.cpp`: a branch after the one taken (`:207`) and text after a
  nested `#endif` (`:214`) are written; directives in a skipped group take
  effect (`:109`); a macro with value 0 is true (`:251`). `PlainFollowsC` is what
  remains. Lines are written without their ends (`:81`), everywhere: of the two
  lines `foo` and `bar` the compiler reads the one word `foobar`. That is in
  `PlainFollowsC` itself, as `RunTogether`.
- `assembler.cpp`: a section entered again loses its contents (`:181`); the
  second pass starts in the section the first ended in (`:152`); a signed number
  in a data directive is dropped (`:220`); branch displacements are in bytes
  (`:402`) where `docs/hvm-spec.md:54` and the executor count instructions;
  registers are taken by position, so that `beq r1, r2, L` would encode r1 as rd
  (`:412`), which format B has not; a `.global` without a label has an
  uninitialised value (`:209`).
- `elf.cpp`: the entry is the last of `_start`, `main` and `kernel_main`
  (`:231`); an executable without bytes gets a segment outside its file
  (`:274`); `.symtab` has 1 in `info` (`:153`), where ELF has the index of the
  first symbol that is not local, although four section symbols follow. `.strtab`
  begins with the first symbol's name (`:127`), where `.shstrtab` begins with a
  NUL (`:49`): that symbol has `st_name` 0, which is the empty string by
  `docs/ho-file-format.md:192`, the format `docs/hvm-kernel-development.md:2078`
  names for HVM's ELF files. `SymbolsResolve` claims no name for it.
- `encoder.cpp:85`: a one-word instruction whose lowest byte is 0xFE, such as
  any immediate of -2 or 254, reads as the escape prefix of
  `docs/instructions.md:43-50`, and all after it is read out of step. Immediates
  that do not fit are cut off in silence (`:10`, `:14`, `:18`). `ReadsBack`
  leaves both out.
- `lexer.cpp`: a comment that is not closed leaves its last character to be read
  (`:34`); an escaped newline in a string is not counted as a line (`:294`);
  `''` takes its own quote as the character; strings and inline assembly may end
  with the source; `0x` is a number.
- `parser.cpp`: in a parenthesised part of an expression the parenthesis is lost
  (`:484`), so that it is refused; compound assignments lose their operator
  (`:295`); a postfix `++` takes the token after it as well (`:590`); a
  parenthesis after anything but a name is dropped (`:555`); `short` becomes
  `int` (`:49`); `volatile` begins no statement (`:181`); `sizeof (int)`, a
  declaration in a `for`, and a function that returns a pointer are refused.
- `codegen.cpp`: an expression statement, `break` and `continue` emit nothing
  (`:31`, `:51`); a right operand that is an operator or a call overwrites the
  left one (`:182`), and so do arguments after the first; `&&`, `||` and
  comparisons have no code as values (`:184`); prefix operators are ignored
  (`:202`); an assignment stores nothing (`:206`), and a declaration writes `mov
  r1, name`, which reads (`:85`). Labels are written without a colon, and `bge`,
  `bgt`, `sll` and `srl` are not in the opcode table, so that text with a loop
  does not assemble; `enter` is undone by nothing before `ret` (`:73`).
  `CodeMeaning` gives the lines the meaning they are evidently meant to have.
- `main.cpp:113`: the preprocessor is called outside the `try`, so that its
  errors end the process.

## 6. Not modelled

- Floating-point instructions, whose values TLA+ has no numbers for; the three
  bitwise vector instructions; unaligned accesses in `Hart` and the vector unit
  (`Scalar` has them); self-modifying code.
- Format RI, which no row of the opcode table has, and `emit_escape_R`, `_I`,
  `_B` and `_J`, which nothing calls.
- The driver but for the path of `-S`: arguments, file names, files.
- Command line tools, stubs and the opcode table generator: no state to check.

## 7. Plan

Done: the hart with its four instances, the scalar instructions, vector unit,
both memories, preprocessor, C compiler, assembler, encoder, ELF writer; proofs
about traps, faults, threads, transparency, the vector unit, the memory, the
machine code, the preprocessor, the C lexer, labels, the assembler and the ELF
writer.

Next modules, in this order:

1. A composition of assembler, encoder, ELF writer and loader: the address a
   label's instruction has in memory, and the one its branch reaches.
2. A hart on a `MemorySystem`, with a device that is accessed by doublewords.
3. The driver: which stages run on which file, and what is left behind when one
   fails.
