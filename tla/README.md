# Specifications of RocketVM

RocketVM is a 16-bit virtual machine with its assembler: `rocketasm` turns a
text (`.rsm`) into a file of 16-bit words (`.rvm`), `rocketrun` loads such a
file and executes it on a virtual processor. Both are sequential C99 programs;
they share the instruction set in `rocketvm/common/isa` and meet only in the
file. This directory models them in TLA+, checks the models with TLC on small
instances, and proves with TLAPS, for every memory layout, every program and
every text, the safety properties that the runs find to hold: from the
characters of a text, through the tokens, the program, the words in the file and
the memory, to what the processor executes. Liveness is model-checked only, and
so is one property that lists the values of particular numerals (section 4).

Paths below are relative to the repository root.

## 1. Inventory

| Component | Source | State | Operations |
|---|---|---|---|
| instruction set | `rocketvm/common/isa` | none | encode (formats A/B: `opcode:4 reg:3 mode:1 operand:8`; format C: `opcode:4 mode:1 operand:11`), decode |
| memory | `rocketvm/memory.h` | 64 KiB of bytes | little-endian word read and write, each with an assertion on the offset |
| arithmetic unit | `rocketvm/cpu/cpu_alu.c`, `cmp` in `cpu_ctrlf.c` | registers, flags | ADD SUB MUL DIV MOD SHL SHR CMP |
| processor | `rocketvm/cpu` | `rv[8] rip rsp rsb flags halt` | `rvm_cpu_cycle`: fetch, increment RIP, one of 16 handlers; faults |
| machine and runtime | `rocketvm/vm.c`, `io.c`, `rocketrun/main.c` | the machine, the file being read | create, load, run, exit status |
| lexer | `rocketasm/lexer.c` | position in the text | one token per call |
| parser | `rocketasm/parser.c` | one token of lookahead, the growing program | labels, instructions, operands |
| program container | `rocketasm/program.c` | growing arrays of instructions and labels | push, find label |
| assembler back end | `rocketasm/encoder.c`, `emitter.c`, `main.c` | position in the program, output file | resolve labels, encode, emit |
| logger, dumps | `logger.c`, `cpu_debug.c`, `isa/utility.c` | none of interest | print |

How they interact. `rocketasm` is a pipeline: main reads the file, the parser
pulls tokens out of the lexer and pushes instructions and labels into the
program, `rsm_resolve_labels` checks the branch targets, and `rsm_emit_binary`
opens the output and calls `rsm_encode_instr` for one instruction after
another. `rocketrun` measures and reads the file in separate library calls,
copies it to address 0 of a zeroed memory and calls `rvm_cpu_cycle` until the
processor halts or the cycle returns -1. Memory is shared by everything that
executes: program, heap and stack are one array, and nothing protects them from
each other.

What is hard here:

- **long legal sequences.** A program is an arbitrary sequence of arbitrary
  words, it can rewrite itself and its return addresses, and CALL and RET must
  keep RSP inside the stack region whatever it does;
- **boundaries.** RSP starts at an odd address in a region of odd end; fetch,
  access and stack guards are all of the form "one word must fit"; arithmetic
  wraps at 2^16, the C product overflows `int`, offsets have 11 bits;
- **partial effects.** A handler that faults half way, an assembler that fails
  after it has emptied its output, a fault that `rocketrun` reports as success;
- **lookahead.** The parser holds one token across three functions; after a
  label, a missing operand or the last token the next function must find the
  right one;
- **interleaving.** Only with another process on the file: `rocketrun` reads in
  several library calls while `rocketasm` empties the file and its stdio buffer
  refills it in pieces, some of which the disk may refuse.

What makes each component correct: the instruction set round-trips; the
arithmetic means in integers what its flags say; the processor never leaves its
memory, keeps the stack discipline, faults precisely and gives programs a
last-in first-out call stack; the runtime runs what was assembled, ends, and
reports how; the front end accepts the grammar and nothing else, and builds what
the text says; the assembler's words mean the source, or it fails; a failed
assembly does not cost the file that was there.
`PROJECT.json` lists the individual hazards, each with the properties that
would notice it going wrong.

## 2. Modules

    RocketIsa                        encoding and decoding, pure
      RocketMemory                   layout constants, word access
      RocketAlu                      arithmetic, pure
        RocketAluBench               one operation on any two words
          RocketAlu_proofs           theorems: results and flags
          MCRocketAlu                boundary words for TLC
      CallStack                      abstract: a bounded stack of return addresses
      RocketCpu                      the processor (Memory, Alu; refines CallStack)
        RocketCpu_proofs             theorems: types, stack, assertions, faults
          RocketCpu_stack            theorems: RocketCpu implements CallStack,
                                     and its frames are call sites
        MCRocketCpu                  programs for TLC (put together by MCImages)
        RocketVm                     the runtime around RocketCpu
          RocketVm_proofs            theorems: exit status, a safe machine
      RocketProgram                  the program container, pure
        RocketAssembler              the back end of rocketasm
          RocketAssembler_proofs     theorems: branches, operands, labels
          MCRocketAssembler          source programs for TLC
      RocketLexer                    text to tokens, pure
        RocketLexer_proofs           theorems: the tokens returned, exact numbers
        RocketParser                 the front end of rocketasm (Lexer, Program)
          RocketParser_proofs        theorems: the program built, the texts accepted,
                                     words and comments
          MCRocketParser             texts for TLC
      RocketToolchain                RocketParser, RocketAssembler and RocketVm
                                     on one file
        RocketToolchain_proofs       theorems: from the text to the running machine
        MCRocketToolchain            texts and old files for TLC

**RocketIsa, RocketMemory, RocketAlu.** Operators only. Shifts and masks are
`\div`, `%` and `*`. The four layout macros are CONSTANTS with the assumption
`LayoutAssumption` (regions in order, a stack of at least one frame, addresses
of 16 bits), so that the same module runs with the 64 KiB of the header or with
48 bytes. An ALU operator returns the value and the set of flags left standing;
`MulOutcomes` returns a set, because the product of two `uint16_t` is computed
in `int`: above `INT_MAX` the behaviour is undefined and the comparison
`result > 0xFFFF` may be compiled either way.

**RocketCpu.** The variables are the fields of `rvm_cpu_t` (without `rsb`,
which nothing uses), the memory, and `rc`, what the last `rvm_cpu_cycle`
returned. There is one action per handler and it contains the fetch, the decode
and the increment of RIP of its cycle, so that one step of `Next` is one call of
`rvm_cpu_cycle`. `RipOutOfBounds` is the error return of the fetch. The error
returns of `rvm_cpu_execute` are unreachable (sixteen opcodes in four bits, all
with a handler) and have no action. `Stop` is `rvm_cpu_fault` and the halt of a
division: `halt` and RIP move and nothing else. A program is an element of the
constant `Images`, a sequence of bytes loaded at address 0.

**CallStack** says what CALL and RET promise without registers and memory: a
stack of at most `Capacity` addresses; only CALL pushes, always the next
address; RET goes to the top or, if a store has damaged it, drops it and stops; a
store cannot change the depth and damages at most two neighbouring frames.
`RocketCpu!ImplementsCallStack` instantiates it with `stack` the words between
RSP and `RVM_MEMORY_STACK_END` and with the kind of the instruction at RIP.

**RocketVm** wraps it: `phase` is how far `main` has come; every `return` of
`main`, `rvm_vm_load` and `rvm_io_read_file` is an `Exit`. `file` is what is at
the path now. `Open` is everything up to the `fopen` (nothing before it looks
into the file), `Measure` the `ftell`, and `Read` one piece of the `fread`: the
library may need several, each delivers some of the bytes that are there at that
moment, and another process may act between any two of them. `ShortRead` is a
file that has shrunk since. Failing library calls are `LibraryError`.

**RocketProgram** is `rsm_program_t` with its pushes and its label lookup. An
operand has the number or register in `value` and the name in `label`, a union
in the code. `IsParsed` is the contract between the two halves of the assembler:
arrays of instructions with a value of the right width for every kind of operand.
The encoder's proofs assume it (`ProgramsAssumption`), the parser's establish it
(`KeepsTheContract`).

**RocketLexer** has one operator per part of `rsm_lexer_tokenize`. A text is a
sequence of characters (strings of length one), `TokenAt` the switch on the first
character of a token, and `FirstStop` each of its loops over characters. Words are compared with the mnemonics after making
capitals small, as `rsm_tolower` does; a number is what `strtol` with base 0
makes of it (external), and `LongIsWide` says whether a `long` has more than 32
bits: where it has not, `strtol` saturates at `INT32_MAX` and the range check
behind it never fires. `Tokens` is the sequence of tokens the calls return.

**RocketParser** is `main` up to the return of `rsm_parser_parse`. One step is one
turn of its loop with all it calls: `Label`, `Instruction`, `NewLine`, `EndOfText`,
and `Reject` for every error return. The lexer depends on nothing but the text
and the number of calls so far, so the token the parser holds is an index,
`held`, into `tokens`, and `parse_operand`, `parse_opcode` and `Lookahead` are
functions of it. `PushFails` is a failing `realloc`, `SetupFails` every other
failing library call and bad arguments.

**RocketAssembler** starts from a program as the parser leaves it and models
`rsm_resolve_labels`, `rsm_encode_instr` for each instruction, and
`rsm_emit_binary`, with the two builds: with `NDEBUG` false a failing assertion
aborts, and the words still in the stdio buffer are lost.

**RocketToolchain** composes the three. `rocketasm` is the front end, then the back
end, over the shared variables `program` and `asm`; `rocketrun` is a second
process that may be started at any moment. Between `fwrite` and the file is the
buffer of stdio, `pending`: it is written out in pieces whenever the library
likes (`Flush`), by `fclose` and at exit (`LastFlush`), and a write that fails
(`FlushFails`) loses what was in it, unnoticed, as the code ignores every result.
`old` is what was in the file before and `launched` how far `rocketasm` had come
when `rocketrun` was started; both are only read by the properties, and
`NothingLost` says that no write has failed. The parser and the encoder are
instances, `P` and `A`, of their modules with the proofs, so that their theorems
and lemmas hold here by name.

## 3. Runs

The small machine has 48 bytes: program region 0..15, a heap of 8 bytes, stack
region 24..31 (three frames, as the first is at 29), 16 bytes above. Its
boundaries have the parity and the order of those in `memory.h` (odd ends, even
starts, room above the stack and below it), every one is reachable by an 8-bit
operand and an 11-bit offset, and three CALLs fill the stack. What does not
depend on the size is proved for every size (section 4); `cpu_last_word` uses
the real one. The toolchain has no room above the stack (34 bytes).

| Run | Bounds | What it shows |
|---|---|---|
| `cpu_stores` | every program of 3 words from a menu of 19: calls forward, to themselves and through a register, jumps to odd addresses and out of memory, loads and stores of program, frames and beyond | type, stack, alignment and assertion invariants, which writes are possible, what a fault may change, and the refinement of `CallStack`, with self-modifying programs and damaged frames |
| `cpu_no_stores` | every program of 4 words from 7 calls, returns and branches; every program of 3 words from 46 arithmetic ones | without stores every frame is the address behind a CALL, up to the overflow; 16-bit results; division by zero leaves no trace |
| `alu` | all pairs of 17 boundary words, all 16 sets of flags before, seven operations | what results and flags mean in signed and unsigned integers, and which flags an operation leaves alone, shifts by zero included |
| `assembler` | every program of 3 instructions from a menu of 13 shapes, with up to two label definitions anywhere (missing, duplicate, behind the end); branches over 511 and 512 instructions, both ways | branches land on their labels, operands survive, no undefined label passes; assertions enabled |
| `front_end` | 12410 texts: every statement of an opcode, two operands, a separator and an end of line from menus of right and wrong ones (comments, mixed case, octal, missing brackets, each blank character); all sequences of 3 out of 15 pieces; all listings of 4 and 5 out of 6 lines with labels and instructions in any order; numerals at the limits. Arrays start with 1 element and labels end at address 2, so that both limits are met | the parser accepts exactly the grammar, which is stated on its own, and builds what the text says; at every moment the encoder could take what it has built; no word or number is cut in two; comments change nothing; numbers have their value in C; every text is parsed or rejected |
| `toolchain` | 13 texts (calls, branches, stores, undefined and duplicate labels, errors of each stage, empty) x 3 old files (empty, a program, one too large), real array and label limits; `rocketrun` started and interrupted at any point, any flush of the buffer, any failing write | what a machine that races with the assembler can run, and that one started after it runs the program, with each line decoded as it is written (`RunsTheText`) and the branches going where the text says; a bad label does not cost the old file; the exit status; both processes end |

In the runs of the processor the program runs into the zero bytes behind it,
which are `MOV rv0, 0`, so that also the short ones reach the end of the program
region. In the arithmetic menu there are no loops, since a register could count
for ever.

Runs that end in a violation show where the code and what is said of it differ:

| Run | Expectation | What happens |
|---|---|---|
| `cpu_last_word` | Architecture.md:60: 0x0000-0x7FFF is the program | the fetch (cpu.c:44) refuses 0x7FFE, the last whole word |
| `assembler_release` | encoder.h:138 asserts the reach of a branch | in a Release build a branch over 512 instructions silently goes elsewhere |
| `assembler_wide` | examples/simple.rsm:33, :37: `MOV rv0, 0x100`, then `[rv0]` is `[0x100]` | encoder.c:51 keeps the low byte: rv0 is 0 |
| `assembler_label_operand` | README.md:58: `[label]` is a memory operand | encoder.c:75 encodes the index of the instruction, not its address |
| `assembler_jump_imm` | Architecture.md:250: `JMP SIMM11`; the parser accepts it | encoder.c:187-237 has no encoding; rocketasm fails and leaves a truncated output |
| `toolchain_full_disk` | emitter.c:33: "rsm_emit_binary written to", and 0 is returned | the results of `fwrite` and `fclose` are ignored (emitter.c:30, :34): on a full disk the file lacks words, at the end or in the middle |

Smaller observations without a run:

- Architecture.md:15 has a stack that is 16-bit aligned; RSP starts at 0xFEFF
  (vm.c:20), every frame is at an odd address and no LOAD can read one;
- SHL by zero returns before it touches a flag (cpu_alu.c:180), where
  Architecture.md:347 defines RZ for every shift; `ShiftsAreExact` states it;
- a RET on the empty stack halts, which is how programs end, and is in no document;
- faults exit with status 0, like the end of a program. `ExitStatus` states it, as
  nothing in the repository asks for another status;
- a product above `INT_MAX` is undefined in C. `MulIsExact` leaves open whether RC
  and RO are set there, and states the value and that the two flags agree;
- a branch accepts a second operand and ignores it (`Forms`), `010` is octal, and
  a binary literal (`0b1`) depends on the C library's `strtol`: before C23 it is a
  number and a name, which the parser rejects. The models have the older library;
- where a `long` has 32 bits, as under Windows, `strtol` saturates and the range
  check of lexer.c:122 never fires: `mov rv0, 0x80000000` is an error with a wide
  `long` and `INT32_MAX` with a narrow one. `LongIsWide` tells the two apart;
  `front_end` has the wide one, `toolchain` the other, and `NumbersReadAsWritten`
  states that the tokens of the two differ in such numbers only.

Fairness. `rocketrun` is one thread in a loop without blocking calls other than
file reads: a step it can take is taken, weak fairness of its steps
(`WF(RunAdvances)`); so is `rocketasm` (`WF(rocketasm)`, in `RocketParser`
`WF(Next)`). That a library call of `rocketrun` fails is never assumed, and nothing
synchronises the two processes. `ParsingEnds` holds for every text. `BothEnd` is
a property of the programs of its run, none of which has a backward jump or
stores into the program, so that every mixture of two of them ends as well: it
shows that recursion, runaway execution, faults, races and load errors all end
both processes.

Deadlock is checked in `front_end`, where the only state without a step of the
program is a returned parser (`Returned`). Elsewhere it is not: these programs
stop.

## 4. Proofs

Every theorem holds for all values of the constants that satisfy the assumptions
of the modules: `LayoutAssumption` and `ImagesAssumption` (any layout with the
regions in order, any files of bytes), `ProgramsAssumption` (programs that keep
the contract `IsParsed`), `TextsAssumption` (texts are sequences of characters;
`FrontEndAssumption` repeats it for the composition), `CapacityAssumption`,
`AddressAssumption`, `LongAssumption`. Of the lexer nothing is assumed.
TLC evaluates them in the runs. A theorem that needs more names it as its
hypothesis; the tables list those.

### The processor

| Theorem | States | Hypothesis |
|---|---|---|
| `TypeCorrect` | `[]TypeOK` | |
| `StackSafe` | `[]StackDiscipline` | |
| `InstructionsAligned` | `[]RipAligned` | |
| `AssertsNeverFail` | `[]AssertsHold` | |
| `WritesConfined` | `WritesAreConfined` | |
| `FaultPrecision` | `FaultsArePrecise` | |
| `Refinement` (`RocketCpu_stack`) | `ImplementsCallStack` | |
| `ReturnsToCallers` (`RocketCpu_stack`) | `[]FramesAreCallSites` | no word that can be fetched from a loaded image is a STORE |

The inductive invariant is `IInv == TypeOK /\ StackDiscipline /\ RipAligned`.
The parts need each other: a register only keeps its width if the bytes it is
loaded from have theirs; a push stays inside the region only because RSP is an
even distance from its end, so that `rsp >= RVM_MEMORY_STACK_START + 2` really
leaves room for a word, and a pop needs the same parity to know that a stack that
is not empty holds two bytes; the fetch is inside the memory only because the
program region is. The layout of `RVM_MEMORY_STACK_END` being odd is not used.
`NextKeepsInv` has one step per handler. The lemmas say what each operator
returns (`DecodedFields`, `ReadIsWord`, `WriteIsMemory`, `AddSubType`,
`MulType`, `DivModType`, `ShiftType`, `WriteIsLocal`), what the invariant says of
RIP and RSP as numbers (`Pointers`), and that a fetch that is not refused is
inside memory and does not wrap (`FetchFits`); none of these theorems but the
last assumes anything about the program, which may rewrite itself.

`Refinement` shows that every step of the processor is a step of `CallStack`.
`Geometry` relates RSP, the depth and the addresses of the frames; it needs the
parity and the bounds of `IInv`. `PushAppends` and `PopRemovesLast` say that
moving RSP by a word appends or removes one frame; they rest on `ReadBack` and
`ReadElsewhere`: a word that is written reads back as itself, and leaves every
word alone that it does not overlap. In `StoreRefines` the two frames a store can
reach are found by dividing its distance from the end of the region by two.
`OthersRefine` serves all handlers that touch neither memory nor RSP.

For `ReturnsToCallers` the invariant is `FInv == IInv /\ StoreFree(mem) /\
CallSitesIn(mem, rsp)`. That every frame is the address behind a CALL is not
inductive alone: a frame is as good as the code it was made by, and the code
stays without a STORE only because a push, the other instruction that writes,
cannot reach it.

### Arithmetic

`RocketAlu_proofs` proves all six properties of `alu` for all pairs of words and
all flags before (`AluAddIsExact`, `AluSubCompares`, `AluMulIsExact`,
`AluDivModIsExact`, `AluShiftsAreExact`, `AluFlagsDescribeTheValue`); for MUL
the value is exact for all operands, the flags are up to `INT_MAX`. The
invariant, `Performed`, says that the outcome is one of the operator for these
operands; the work is in the lemmas `AddMeans` to `ShrMeans` about the operators.

### The lexer

| Theorem | States |
|---|---|
| `LexerReturnsTokens` | `IsTokens(Tokens(text))`: opcodes and registers that exist, numbers that are not negative, and one EOF, at the end |
| `NumbersAreExact` | the value of a number token is what its digits spell in their base; above `INT32_MAX` it is refused, or saturates where a `long` has 32 bits |

Both are for texts of every length, and so are the facts about words and comments
that the parser's proofs take from here. `RocketLexer` recurses over data, and
the induction theorems of the library cannot be instantiated with the installed
provers. The proofs do without them: `LeastOf` finds the least element of a set of
numbers, and `UpTo` concludes from it that a set with 0, and with the successor of
each of its members below a bound, has every number up to the bound; the set is then
the positions at which the fact in question holds. `StepByStep` shows in this way
that a function given by its first value and its steps exists, which is what a
recursive definition needs to mean anything.

`OneFirstStop` says where a loop over characters ends, whatever it looks for.
With it one call is understood: what its token is and that it ends behind its
start (`TokenIs`). `IsRun` says that a sequence is what the calls return one after
the other; that `Tokens(text)` is one (`TokensRun`) needs that each call but the
last moves forward.

For comments, `at` maps the positions of a text to those of the text without its
comments, and `within` is the positions inside a comment. `Reads` relates the two texts:
outside `within` they have the same characters in the same order. Each part of the lexer is shown to
be a simulation along `at`: where a token starts (`SameStart`), where a loop ends
(`SameSpan`), words, prefixes and numbers (`SameToken`), and so the whole run
(`TokensOfBare`). `NumberIsExact` compares the loop that stops at `INT32_MAX`
with one over all natural numbers.

### The assembler

| Theorem | States | Hypothesis |
|---|---|---|
| `ParserTypeOK` | `[]TypeOK` | |
| `ParserKeepsTheContract` | `[]KeepsTheContract` | |
| `ParserBuildsTheProgram` | `[]BuildsTheProgram` | |
| `ParserAcceptsTheGrammar` | `[]AcceptsTheGrammar` | |
| `ParserKeepsWordsWhole` | `[]WordsAreWhole` | |
| `ParserIgnoresComments` | `[]CommentsAreBlank` | |
| `AssemblerTypeOK` | `[]TypeOK` | |
| `BranchesLand` | `[]BranchesReachTheirLabels` | `NDEBUG = FALSE` |
| `NarrowOperandsSurvive` | `[]OperandsSurvive` | `NarrowImmediates(p)` for all programs |
| `LabelsAreDefined` | `[]NothingUndefinedIsAssembled` | |

The parser's proofs (`RocketParser_proofs`) are about the one token of lookahead,
for texts of every length. `PInv` says that the arrays hold instructions that
start at a token of the text; it is what keeps `held` inside the text, since only
an instruction that was read as far as the push is known to end before EOF
(`LookaheadInText`). `Built` relates the two arrays to the tokens *before* the
one that is held: instruction by instruction and label by label they are what
those tokens say. `InstructionTokens` is its heart: between an opcode and the
token the parser holds afterwards there is no other opcode, colon or end of line,
and the operands are exactly the tokens that were read. `Accepted` says that the
lines before the held token are lines of a program, and that the held token
starts a line or ends one; without that last part a rejection would say nothing
about the grammar. `LineLegal` connects it with the grammar: for the five groups
of operations, `rsm_parser_parse_opcode` gets as far as the push if and only if
the tokens of the line have one of the `Forms`. The grammar is stated with
concatenations of token types and the parser with a lookahead, so both are first
written out token by token (`FormsWritten`, `FormSeen`, and the lemmas `RetLine`
to `TransferLine`). The labels in range need `Built`: the address that is compared
with `UINT16_MAX` is the length of an array, the one in the grammar a number of
tokens.

`ParserKeepsWordsWhole` needs an invariant of its own, `NumbersEnd`: behind every
number the parser has passed there is a comma, a bracket, or the end of a line.
The lexer alone does cut words: `12ab` is a number and a name, and that no
accepted text has them side by side is the parser's doing. `HalvesAreSeen` says
that the rest of a word that is cut is a token that is none of these.
`ParserIgnoresComments` is `TokensOfBare` for the text that is being read.

The back end (`RocketAssembler_proofs`) has the invariant `AInv`: the contract,
`TypeOK`, that the targets were resolved, and that word `i` of the output is the
encoding of instruction `i`, valid and, with assertions, in reach (`Encoded`).
What is then decoded from a word follows from lemmas about the formats alone
(`EncodedFields` and those behind it); `OperandsOfWord` is their sum, the operands
of an instruction of any shape as the processor finds them. The two hypotheses are the two known
differences: in a Release build (`NDEBUG`) a long branch goes elsewhere, and a
number that is no byte is cut (runs `assembler_release`, `assembler_wide`).
The proof attempt of `LabelsAreDefined` corrected its property: a branch may
have a second operand, which nobody reads, and a label in its brackets may be
undefined. No program of the run had that shape.

### The runtime and the tools together

| Theorem | States | Hypothesis |
|---|---|---|
| `ExitStatusTells`, `ToolExitStatus` | `[]ExitStatus`, alone and with rocketasm on the file | |
| `MachineStaysSafe`, `ToolMachineSafe` | type, stack and alignment, between the steps of the loader as well; in the second for any mixture of two files | |
| `UndefinedTargetsAreHarmless` | `[]UndefinedTargetsKeepTheFile` | |
| `OldThenNew` | `[]RunsOldThenNew` | |
| `AssembledIsRun` | `[]RunsWhatWasAssembled` | `[]StoresMissTheProgram` |
| `TextIsRun` | `[]RunsTheText` | `[]StoresMissTheProgram` |
| `StoreFreeTextsMiss` | `[]StoresMissTheProgram` | `TextsAreStoreFree` |
| `BranchesGoToTheirLabels` | `BranchesFollowTheText` | `[]StoresMissTheProgram`, `RVM_MEMORY_PROGRAM_END < 2^15`, `[]WithinReach` |

`VmInv` adds to `IInv` how much of the file has been read in each phase of
`main`, and that a cycle does not both halt and fail; the lemmas about the steps of
`rocketrun` allow the file to change between any two of them, which is why the
same invariant serves both modules. In the composition `BothInv == AsmInv /\
VmInv /\ FileInv`: the invariants of the parser and of the encoder are those of
their modules, taken over through the instances `P` and `A`, and `FileInv` says
that the file and the buffer of stdio are together the bytes of the words emitted
so far, or that the file is still the old one. `Mixed` says the same of the bytes
that `rocketrun` has read: up to some `k` they are the old file's, from there the
new program's, each at its place. It is inductive because the file can be shorter
than what was read of it, but its bytes are never changed once they are written.
`LaunchInv` is about a `rocketrun` started after the end of `rocketasm`: it reads
the whole image, and as long as it runs neither a STORE (by the hypothesis) nor a
frame changes a word of it. `BranchesGoToTheirLabels` joins the chain: the first
definition of the label in the program, the 11-bit offset in the word
(`BranchesLand`'s lemmas), the word in memory (as in `AssembledIsRun`), and RIP.
That the program has the labels and instructions of the text, each in its place,
is `ParserBuildsTheProgram`.

`TextIsRun` is the whole chain in one statement: it names no program and no
output file, only the tokens of the text and the words in memory. What the
parser has built must for that stay true of the text while the encoder and
`rocketrun` work; the parser's invariant is about its own phases only, so
`TextBuilt` carries it on. `LineInProgram` then finds the instruction of a
line, `OperandIsFound` the operands in its word, and `ProgramInMemory` (shared with
`AssembledIsRun`) the word at its address. Numbers are compared if they are bytes:
the others are those that `assembler_wide` is about.

The hypotheses are those under which the code means what it says. A program may
rewrite itself, and then it no longer is the text: `StoresMissTheProgram` says
that each STORE it executes faults or hits the heap, the stack or what is above.
Texts without a STORE satisfy it (`StoreFreeTextsMiss`: what is fetched is an
instruction of the text or a zero word, and neither stores). `WithinReach` is what the assertions of
`isa/encoder.h` demand, and holds of every program a Debug build assembles; the
program region of `memory.h` ends at 0x7FFF. The texts of the run `toolchain`
satisfy all three (the one with stores hits 16 and 18, behind the program region
of its run), and those of `assembler_release` show what happens without the
second.

### Model-checked only

- `NumbersReadAsWritten`, a table of C numerals and their values, and the
  comparison of the two widths of a `long`: the characters of a string cannot be
  evaluated by the provers. What it samples is proved
  for every number as `NumbersAreExact`, except that the base is chosen as C
  does: there the model of `strtol` is its own definition;
- liveness, `ParsingEnds` and `BothEnd`, which are outside the prover;
- the six runs that end in a violation, each a single trace.

## 5. Not modelled

The logger and the dumps (`logger.c`, `cpu_debug.c`, `isa/utility.c`, the printing
functions of `lexer.c` and `program.c`): output only, no state. The build scripts.
How a file is found, of which only success and failure are distinguished; the
extension of a path. Bytes that are no ASCII characters: no text of the runs has
them. `isalpha` of a negative `char` is undefined in C;
where it is false such a byte is an `INVALID` token like `$`. The place an error
message names (line and column). Reading of the text by `rocketasm`: it is the
same `rvm_io_read_file`, modelled in `RocketVm`, and nobody changes the text.

## 6. Plan

1. (done) instruction set, memory, arithmetic, processor, abstract call stack,
   runtime, assembler back end; type and safety theorems of the processor and
   its refinement of the call stack.
2. (done) the front end, with the grammar stated independently; the assembler
   and the runtime composed over one file, with failing writes.
3. (done) proofs: the arithmetic for all words, the frames of programs without
   a STORE, the assembler and the parser for all programs and texts, the exit
   status, and the composition from the program to RIP.
4. (done) proofs: the lexer for texts of every length, so that nothing is
   assumed of the tokens; words, comments and numbers; and the composition from
   the characters of a text to the decoded instruction (`TextIsRun`).
5. What is left: labels in brackets are not in `TextIsRun`, as the code encodes
   them wrongly (`assembler_label_operand`); once that is decided, the address of
   the label belongs there. The byte accessors of `memory.h` get an action when
   the first instruction uses them.
