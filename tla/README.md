# NanoBasic in TLA+

A model of NanoBasic (`src/`): a BASIC compiler, the virtual machine that runs
its byte code, the block heap of that machine, and the programs that embed it.
The modules follow the source; file names below are relative to `src/`.

## The system

| component | state | operations | what makes it correct |
|---|---|---|---|
| heap allocator, `src/nb_memory.c` | `heap` (8192 bytes in blocks of 8; the first block of an allocation starts with its length in blocks and its usable size in words), `mem_start_addr` | init, alloc, free, realloc, get_blocksize, get_free | allocations are disjoint, whole and inside the heap; program data is never read as a tag; what is free is found and counted |
| interpreter, `nb_run` and the `nb_*` calls of `src/nb_runtime.c` | `pc`, `sp`, `psp`, `stack` (32 words), `paramstack` (8), `variables` (256), `nested_loop_idx`, `data_read_offs`, `trace_on` | about 70 opcodes; `nb_set_pc`, `nb_push_num`, `nb_pop_num`, `nb_reset` | returns go where the call came from, NEXT finds the values of its own loop, expressions find their operands, also when an interrupt came in between; limits are noticed |
| strings and arrays, same file | two temporary buffers, heap addresses in variables | DIM, ERASE, element access, string assignment and functions | a variable names its own allocation or none; a temporary lives until it is used |
| compiler, `src/nb_compiler.c` | code, forward declarations, DATA list, current line, error count | one function per statement and per level of expressions; `error` leaves by `longjmp` | jumps lead to the label that was named; what is compiled leaves the stack balanced; errors are counted |
| symbol table and registry, same file | `a_Symbol`, `StartOfVars`, `CurrVarIdx`, `a_XFuncs`: one per process | `nb_init`, `nb_define_external_function`, `sym_add`, `nb_get_label_address` | names mean the same for all machines of the process |
| scanner, `src/nb_scanner.c` | none | `nb_scanner` | one token per call, inside the line |
| Lua binding, `src/nb_lua.c` | machine, source position, screen of 20 lines of 61, `p_Cpu` | create, run, reset, destroy, pack, unpack, screen, parameters | output stays on the screen; handles stay valid |
| embedding program, `test/main.c` | slices of cycles, interrupt in progress | loop around `nb_run`, answers to external functions | the program is run to its end |

How they interact: the compiler writes the code into the machine before it is
run. The interpreter calls the allocator synchronously. The interpreter and the
host alternate: `nb_run` returns to its caller when its cycles are used up and
at every external function, BREAK and RETI, and the host may then take and push
parameters, move the program to an interrupt routine (`nb_set_pc`) or reset it.
So an interrupt comes between any two instructions. There are no threads.

Hard to test: data that looks like tags; the state the search hint is left in;
interrupts in the middle of expressions, loop headers and parameter lists; the
rings of untyped words at their limits; resets in whatever state; signed and
unsigned words; the temporary buffers; errors half-way through an operation.
`PROJECT.json` lists each of these at its line.

## Modules

| module | models |
|---|---|
| `AbstractHeap` | what the allocator promises: disjoint runs of blocks, whose content only their holder changes |
| `NbMem` | `nb_memory.c` (build with strings) |
| `NbMemProofs` | theorems about `NbMem` and their proofs |
| `TypedStack` | the machine that compiled programs are written for: a stack of items that know what they are, signed variables |
| `NbVM` | `nb_runtime.c` without the contents of strings and arrays, and its host |
| `NbVMProofs` | the types of `NbVM` for every program: theorem and proof |
| `NbFrames` | how compiled code uses the stack: the frame that each instruction is reached with |
| `NbFramesProofs` | `NbVM` implements `TypedStack` for compiled programs, and its counters agree with what is on the stacks: theorems and proofs |
| `NbStrings` | the contents of strings and arrays in `nb_runtime.c`: variables, temporary buffers, allocations, the host's strings |
| `NbStringsProofs` | theorems about `NbStrings` and their proofs |
| `NbCompiler` | `nb_compiler.c`: lines, statements, blocks, labels and forward declarations, on tokens |
| `NbCompilerProofs` | theorems about `NbCompiler` and their proofs |
| `NbScanner` | `nb_scanner.c` and `next_token`, on characters |
| `NbExpr` | expressions: the functions `compile_expression` to `compile_factor`, their code on the interpreter, and what a text means |
| `NbRegistry` | `a_Symbol`, `a_XFuncs` and the counters of the process, for several machines |
| `NbRegistryProofs` | theorems about `NbRegistry` and their proofs |
| `Terminal` | what the screen of the Lua binding promises to a program |
| `NbScreen` | the screen of `nb_lua.c`, as operators |
| `NbHost` | `nb_lua.c`: handles, machines, the loop of `run`, printing, pack and unpack |
| `NbHostProofs` | theorems about `NbHost` and their proofs |
| `NbTerminalProofs` | `NbHost` implements `Terminal`: theorem and proof |
| `MCNbMem`, `MCNbVM`, ... | instances for TLC |

### NbMem

State: `tag[b]` and `words[b]` are bytes 0 and 1 of block `b` - of *every*
block, since behind the first block of an allocation they hold what the program
put there (`UserWrite`). `memStart` is the hint. `pc`, `req`, `i`, `blocked`,
`start`, `count` are the locals of `nb_mem_alloc`; each iteration of its loop is
one action (`ScanBlocked`, `ScanUsed`, `ScanFree`, `ScanFound`, `ScanEnd`).
`nb_mem_free` is one step; `nb_mem_realloc` keeps (`ReallocKeep`), moves
(`ReallocMove`: releases, then searches) or refuses (`ReallocRefused`);
`MemInit` is the part of `nb_reset` that concerns the heap. `owner`, `ask` and
`from` are history variables: who was promised which block and how many bytes,
and where the search began. The other bytes of the heap are not modelled:
no code of the allocator reads them. A caller frees or reallocates what a
variable holds - the address of an allocation, or 0. `UserWrite` stays inside the
allocation; whether the interpreter keeps to that is a question for `NbStrings`.

### NbVM

An instruction is a record, an address the number of an instruction; there are
`2 * Half` numbers, so that sums wrap around as they do in C. There is one
action per opcode, or one for opcodes that differ only in what they compute
(`Binary` with `Arith`) or print (`Output`, `Nop`). `Executing` is the loop
condition `(*p_cycles)-- > 1` with the fetch, `OutOfCycles` its other outcome.
The stack is the ring of the macros `PUSH`, `POP`, `TOP`, `PEEK`; `PPUSH` and
`PPOP` reach the variables behind `paramstack` as the layout of `t_VM` has it.
The instructions on strings and arrays (`HeapValue`, `HeapStore`) take and
leave the words that the code takes and leaves, with arbitrary results and with
the failures that the code can meet. The history variable `kinds` says of every
pending word what it was pushed as: a temporary, a return address, the end or
the step value of a loop over a certain variable. The last two are marked in
the program (`kind`), where `compile_for` emits them.

The host (`Run`, `Answer`, `Interrupt`, `Reset`) grants a slice of cycles,
takes the parameters of an external function and pushes its result, sends an
interrupt when the program is outside `nb_run`, and resets it after the end or an error. It goes on
after a BREAK, as a Lua host can. An interrupt is never sent between an
external function and its answer; `test/main.c` and a Lua host answer first.

### NbFrames

The interpreter cannot see what it relies on: that compiled code has the same
words on the stack whenever it comes to an instruction. `Places[p]` describes a
program: its addresses with the *frame* that the running routine has pushed
there (temporaries, and the end and step values of its open loops), whether
the program itself or a routine runs, and whether a FOR is evaluating its
expressions. `Taken`, `After`, `Loop`, `Entering`, `GoesOn` and `Called` are what each instruction
does to a frame and where it leads; `Fitting` is what it needs. `Described` says that every place
fits its instruction and that what comes after it is a place. It holds of what
`compile_for`, `compile_gosub`, `compile_on` and the functions of expressions emit, as
long as no GOTO leads into or out of a loop, and can be decided for a program:
the instances compute `Places` by following the code (`MCPlaces`), and TLC evaluates
the assumption. `Framed` is the whole stack: the running
frame on top, and below each return address the frame of the place that it leads to.

Two counts go with the frames. `InFrames` is the number of loops in them: the steps
on the stack, and the return addresses to places where a FOR is still evaluating
its expressions; `LoopsTallied` says that `nested_loop_idx` is that, and one more while the running
routine is entering a loop. `Pars[p]` says for each address what the routine that
runs there has on the parameter stack (`Wanted` and `Given` are what an instruction takes
from it and puts onto it); `ParsTallied` says that `psp` is the sum over the
frames and what the host still owes for an external function. `ProgramsBalanced` says
that `Pars` is well-defined, that routines return when they have taken their
parameters and that END is reached with every loop and call closed; it is a fact about
a program's text, the instances compute `Pars` by following the code (`MCPars`), and TLC
evaluates it for `MCPrograms` (`MCBalanced`). The programs of `limits` recurse without end and
are not balanced. `ResetOutsideLoops` says of the host that it resets where no loop is
counted.

`Room[p]` says for each address how much of the two stacks the program still needs from
there; `ProgramsRoomy` says that these numbers agree with each other, instruction by
instruction (`Taken`, `Leaving` and `Dropped` are what moves the words), and that those of the
beginning fit the stacks with all interrupts. It, too, is a fact about the text, evaluated for
`MCPrograms` (`MCRoomy`, with the numbers of `MCRoom`). `Roomed` says that every frame has what it needs.

### NbCompiler

The build with labels. A token is a keyword with the expressions that go with
it and the name that follows, so `FOR i = 1 TO 9` is one token; a cell of `code`
is the code of a statement, or of the part of it up to a jump, and an address is
the number of a cell. `rest` is what is left of the line, `table` and `varIdx`
are the symbol table and `CurrVarIdx`, `fwd`, `data`, `errors` the fields of
`comp_inst_t`.

The functions of the compiler are recursive; `calls` is the stack of those that
wait for a block (`compile_for`, `compile_while`, `compile_if_V2`) or for the
statements of their line (`compile_if`, also on behalf of ELSEIF), and `at` says
where the running one is. There is one action per branch of each function:
`Let`, `Dim`, `Goto`, ..., for statements; `For` and `NextTail`, `While` and
`LoopTail`, `If`, `ElseIf`, `Else`, `EndIf`, `ElseHere` for what comes before and
behind the blocks; `LineDone`, `FirstLineDone`, `StatementsDone` for the three
callers of `compile_stmts`. What is left of a line is replaced when `GetLine` reads
the next; at the end of the file (`EndOfFile`) it is still there, and the function
that waits goes on with it (`nb_compiler.c:507-518`). `Error` is `error()`: it drops the rest of the line
and all of `calls`, as `longjmp` does. `Compiled` is `compile_end`,
`append_data_to_code` and `resolve_forward_declarations` in one step: nothing
comes in between. The scanner adds every name it meets to the table
(`SymAdd`); a name becomes a label when a colon or a jump shows it
(`LabelSymbol`, `AsLabel`).

The text is an arbitrary sequence of lines, chosen one by one as `get_line` asks
for them. `where`, and `parts` in a cell, are history: the place of each label,
and the blocks that a cell was written in.

### NbStrings

`variables`, `strbuf1_used` and the two buffers (`bufs`) are those of `t_VM`.
An operand is an address as the code tells them apart (`get_string`): a constant
below `STRBUF1`, one of the two buffers, or the heap; addresses of the heap are
opaque, and an allocation there knows its size in blocks and words and its
text or elements. Allocation and release are those of `AbstractHeap`: any free
address, or a refusal at any time (see `heap_full`). There is an action per
instruction: `AddStr`, `LeftStr`, `MidStr`, ..., which leave their result in the
next buffer (`Yield`, for `alloc_temp_string`); `AssignStatic`, `AssignInPlace`,
`AssignCopy`, `AssignRefused` for the outcomes of `realloc_string`; `Dim`,
`DimRefused`, `SetArr`, `GetArr`, `OutOfBounds`, `NeverDimensioned`; `PushParam`,
`HostPop`, `HostPush`, `Param`, `HostWrite` for external functions; `Reset`.
A text stays where it is when it fits the words that were asked for last (`Fits`,
`nb_memory.c:111`), not when it fits the blocks. The number of elements of an array is cut
to 16 bits (`Count`, `nb_runtime.c:303`), and so is the number of bytes (`Asked`, `304`); four
times an index has 32 bits and a sign (`Reached`, `526`).
Any sequence of them that finds its operands is explored, so the ways an
interrupt routine can meddle with an expression are included; `Programs` says how
many words are on the stacks at a time and which variables are used.

History: `store` is what the program stored in each variable, `Lost` when it
stored a text that was already gone; a word knows the text it was pushed for
(`meant`) and what is left of its life. `astray` is set by the steps that read or
write what is not theirs: a sum longer than the buffer (`nb_runtime.c:681`), a
comparison that takes a word too many (`713`), a negative number of characters (`723`,
`735`, `748`, `800`), INSTR in an empty text (`785`), an index before or behind the array
(`527`), a DIM that clears more than it has asked for (`309`). The memory may hold
anything then, tags of other allocations included: the model ends there, and every property
is about the states before. A copy of RIGHT$ or MID$ onto the buffer it reads
(`Overlap`, `737`, `751`) leaves a text nobody knows.

### NbScanner and NbExpr

`nb_scanner` returns the next piece of a line and the rest of it, `TokenOf` is
what `next_token` makes of the piece, `Tokenized` the tokens of a line. In
`NbExpr` a state of the compiler is the rest of the line, the code so far, the
type that the function returned, and whether `error()` was called. `Rest` is the
loop of `compile_expression`, `compile_and_expr`, `compile_comp_expr`,
`compile_add_expr` and `compile_term`, which differ in their operators and in
what they demand of the operands (`Fits`); `Not`, `Neg`, `Factor`, `Call` and
`XFunc` are the functions of these names. `Executed` runs the code on a stack of
words, with the number of the text in a word that lies in a buffer. `Meanings`
is the reference definition: it splits a sequence of tokens in every way the
grammar allows, with operators of a level from the left. TLC builds every text out
of an alphabet of lexemes; a lexeme has a spelling, which the scanner reads, and
the tokens it is meant as, which `Meanings` reads.

### NbRegistry

`table` is `a_Symbol` up to the last name; `startOfVars`, `currVarIdx` and
`xfuncs` are the globals of the same names. `Define` is
`nb_define_external_function`. `Compile` is the beginning of `nb_compile`, which
clears the table from `StartOfVars` on; then the lines of the program come one
by one (`at` is the number of the line, and nothing else happens in between). A
line begins with a word and uses one name in one way - as a variable, an array, a
label, a constant, a function - and there is one action for each: `Variable`,
`Dim`, `Label`, `Goto`, `Const`, `ConstantValue`, `Call`; `Mismatch` is the
statement that finds the name to be something else, `NotRead` the error before
the name: the table is full, or the word is no keyword any more. The name is
added by the scanner (`Met`, for `next_token`) before the statement looks at it, so
`Mismatch` leaves it in the table. `code[m]` is what a machine's code has of
names - variables and called functions with their numbers, labels with their
addresses - and the count of errors. `LabelAddress` is `nb_get_label_address`,
`VariableList` the list that `get_variable_list` of the Lua binding counts.
`constants` is history: the names that CONST was used on.

### Terminal, NbScreen and NbHost

`NbScreen` has the functions on a screen as operators: `Put`, `LineFeed`, `Tab`
(`nb_print`, `new_line`), `CursorSet`, `LineCleared`, `Cleared` (the external
functions that `run` answers), `WithLineEnds` (`get_screen_buffer`). The screen
is one array with the ends of lines in it, as in the code.

`NbHost` has the handles of Lua. `vm`, `screen` and `cpu` are `pv_vm`, the
screen of a handle and `p_Cpu`; `self` is the `C` of the function that executes, the handle
that Lua called it with, and is what `run` answers for: `cpu` only says where `nb_print`
writes. `mem` says which machines `malloc` has
delivered. A call of `create`, `print` or `run` takes many steps: `call` and `at` say
where it is, and what `nb_print` has still to write is `out`, character by
character. The loop of `run` is `Enter`, then `ProgramPrints`, `MachineReturns` or
`MachineBusy` for `nb_run`, `SetCur` ... `ToLua` for the external functions, and
`LoopEnds`; the budget is counted down as `nb_run` does, also when it returns
early. What `nb_run` computes is left open. `packed` is a string that `pack_vm`
made - the structure with its pointer, and the memory of the machine - which may
be unpacked into any handle, any number of times. `SymbolTable` and `AddFunction`
begin the two calls that reach `nb_print` and do not set `p_Cpu` (`Listed`). A tabulator in
the last place of a line fills the beginning of the next one and takes the cursor behind its
line, as in the code (`Tab`, `nb_lua.c:164`). `astray` is set by the use of a
handle after `destroy`, and by a character or a tabulator that writes behind the
array (`WritesBehind`); the model ends there.

## What is checked

| run | question | result |
|---|---|---|
| `heap` | all properties of the allocator, and that it implements `AbstractHeap` | hold |
| `heap_full` | does "Out of memory" mean that there is no room? | no |
| `machine` | does the ring implement `TypedStack`, are the loops counted, do programs end, and with nothing left behind? | yes |
| `limits` | do runaway calls and loops meet the limits? | yes |
| `program` | do the jumps of blocks skip what the text says, and does every text come to its end? | yes |
| `labels` | do jumps reach their labels, and do variables keep places of their own? | yes |
| `strings` | does a variable own its allocation, does it read back what was stored, do operands live as long as the buffers allow? | yes, up to the first step that goes astray |
| `expr` | does the code of an expression compute what its text means, and is what has a meaning compiled? | yes |
| `temporaries` | is every text kept until its operator uses it? | no |
| `registry` | do the language, the code of a machine and the answers to the host survive what others register and compile? | yes |
| `screen` | is the array of lines a terminal, and does only a tabulator take the cursor out of its line? | yes, up to the step that writes behind the array |
| `host` | are machines apart, is `p_Cpu` the handle that was called, does output go to its screen alone, does every run return? | yes, up to the use of a destroyed handle |

The runs with the answer "no" are expected to end with a counterexample; each
checks a single statement that the documentation or a message of the
program makes, and has an entry under "findings" in `PROJECT.json`.

Other departures, which the models follow and no run is spent on:

- Interpreter: FREE leaves a random number on the stack (`nb_runtime.c:661`, a
  missing break); `PUSH` wraps around onto return addresses without a report
  (`nb_runtime.c:34`); parameters pending beyond `cfg_PARAMSTACK_SIZE` are
  written to variables (`nb_runtime.c:39`); the loop variable is compared as an
  unsigned number (`nb_runtime.c:446`, against `README.md:58`); `nb_reset` keeps
  `data_read_offs` (`nb_runtime.c:54`, against `test/simu.lua:84`).
- Strings: `>` of strings falls through into `>=` (`nb_runtime.c:713`); two texts
  that are too long together are added all the same (`nb_runtime.c:681`); an array
  without DIM is indexed by what stands behind the heap, and an index one behind the
  bound is accepted for odd sizes, a negative one for all (`nb_runtime.c:527`);
  `DIM a(-1)` and `DIM a(16383)` get one block, since the size is cut to 16 bits
  (`nb_runtime.c:303`, `304`), and clear far more (`309`).
- Compiler: a line that begins with NEXT outside a loop is skipped
  (`nb_compiler.c:537`); in a block of several lines, a NEXT, LOOP or ENDIF behind another
  statement is dropped with the rest of its line when another line comes, and closes the
  block when none does (`nb_compiler.c:512`), so that `LET i = 1 : NEXT` closes a loop
  only in the last line of the text; the texts of DATA come before the END that the compiler
  adds, so that a program without one runs into them (`nb_compiler.c:910`); the list of
  constants has no bound (`nb_compiler.c:902`); a code that is too long is
  reported and compilation goes on behind the array (`nb_compiler.c:541`); a label
  that exists nowhere is not reported when a variable has its name
  (`nb_compiler.c:495`, `1289`); a name used as a variable and as a label takes the number of
  another variable (`nb_compiler.c:497`).
- Expressions: `>=` is compiled as `>` (`nb_compiler.c:444`, which compares the first
  character twice); a comparison of strings keeps the type of its operands, so
  that IF does not take it; `-` takes a string and NIL; `PRINT a$+b$` is a
  syntax error (`nb_compiler.c:842`); operators that touch, as in `2*-a`, are rejected
  as one piece (`nb_scanner.c:96`), while `=<` and `==` are accepted; a text
  without its second quote is read on behind the line (`nb_scanner.c:109`).
- Registry: a function that is registered after a compilation moves
  `StartOfVars` by the names of that program (`nb_compiler.c:237`); a function that is registered
  twice gets a number that is never called; CONST takes any name
  (`nb_compiler.c:1064`), also that of a keyword or a function, which is then a constant
  in all later programs of the process.
- Lua binding: a tabulator in the last place of a line takes the cursor behind the line, and
  the next character is written into the line below, or behind the screen
  (`nb_lua.c:165`); a handle can be used after `destroy` (`nb_lua.c:346`).
- Allocator: the assertion of `nb_memory.c:203` contradicts `nb_mem_realloc`.

"hazards" in `PROJECT.json` has those that bite, with the properties near them.

What the properties of the passing runs mean:

- `RunsMatchTags`, `UnownedIsFree`, `HintAtBoundary`, `SizeCoversRequest`: the
  two header bytes, which the program could not be kept from imitating, agree
  with who holds what.
- `ScanInStep`, `NoRunPassedOver`: in every iteration `blocked`, `start` and
  `count` describe where the search is, and no sufficient run behind the hint
  is missed. `FreeCountExact`: `nb_mem_get_free` counts what is free from the
  hint on. (What lies before the hint is the subject of `heap_full`.)
- `AllocReturns`: the loop ends. `ImplementsHeap`: refinement of `AbstractHeap`,
  with the tags and the data as the cells.
- `ImplementsTypedStack`: refinement of `TypedStack`; the refinement mapping
  reads the words of the ring with their kinds, and the variables as signed. `nexts` gives
  `TypedStack` the NEXTs of the program by their addresses: where one stands nothing but
  `LoopBack` is possible, which gives the variable the signed sum, goes on at the
  beginning of that loop if it has not passed the end value, and leaves it otherwise. Every
  other instruction changes at most one variable, and goes on behind itself if it does.
- `JumpsSpanParts`: compared with the blocks that each cell was written in, a
  conditional jump and the jump before an ELSE skip their part, all of it and
  nothing else; LOOP and NEXT go back to their own loop.
- `JumpsReachLabels`: the address of a label that exists. (One that exists
  nowhere may get the number of a variable.) `VariablesApart` is checked with
  names that are variables or labels, not with a name that is both.
- `CompileEnds`: see the comment in `NbCompiler`.
- `LoopsCounted`, `BalancedAtEnd`, `NestingBounded`, `ProgramEnds`: see the
  comments in `NbVM`.
- `Framed`: the stack is made of frames of the compiled program. `RoomLeft`: the
  programs of `machine` stay within both stacks, which nothing in the code
  checks (`nb_runtime.c:34`, `39`), and their loops do not cross zero (`446`). It is a
  property of programs, and the premise of the refinement theorem; the first half is
  proved of programs that have room (`ProgramsRoomy`).
- The properties of `strings` are about the states before a step goes astray.
  `NamesOwnAllocations`: every allocation is named by exactly one variable and
  every variable names an allocation, a constant or nothing, also when the heap
  refuses a text. `ReadsBack`: a variable holds what the program stored, whatever
  happened to buffers, other variables and the heap since. `OperandsKept`: a
  text that was made lasts until the second one after it is made, a variable's until
  the variable is assigned. `TemporariesLast`, which asks for more, fails.
- `MeaningKept`: the code leaves one word, which has the type that the compiler
  says and the value that the text means by its grammar. `MeaningfulAccepted`: the
  converse, except for operators that touch.
- `LanguageStays`: keywords and functions are not cleared or redefined by
  compilations, unless CONST was used on one. `NumbersIndependent`: the numbers of variables in a program are
  those it would get alone: they count the names that the program used before and that were no
  labels then. `CallsReachFunctions`: code calls the function its host
  registered under that name. `HostFindsNames`: variable list and label addresses
  agree with the code compiled last, if that keeps labels and variables apart
  (`LabelsApart`; a name that is both gives its number to the next one).
- `ImplementsTerminal`: each handle's screen refines `Terminal`; the mapping cuts
  the array into rows and drops the ends of lines. A screen that is unpacked is
  the one that was packed. Steps that begin or end with the cursor out of its line are
  excepted. `TypeOK` of `screen`: the cursor is out of its line only at a stop of the tabulator.
- `MachinesApart`: no two handles share a machine, none uses one that was freed.
  `CpuIsCallers`: while `create`, `print` and `run` execute, `p_Cpu` is the handle they were called
  with (`self`), so that nothing they print is lost; at any other time it is NULL and
  nothing is left to print. `OutputIsCallers`: no step of a call changes the screen of a handle
  other than the one it was called with, and a call that lists tables or registers a function
  changes none: a `p_Cpu` left behind by an earlier call would show there.
  `RunReturns`: a call of `run` ends, or goes astray.

Bounds. `heap`: four blocks, and requests of one, two and three blocks
and one that is refused, so that a hole of every size lies before, between and
behind allocations; data of 1 (a short allocation, were it a tag) and 9
(longer than the heap), and freed blocks are free tags; the sizes 6 and 7 are
the two sides of a block boundary. `machine`: numbers of 7 bits, 16 words of
stack (the programs need fewer, overflow is the question of `limits`), slices of 2 and 4 cycles - one instruction or three, so that the host
gets control after every instruction - and one interrupt between two resets,
which may come anywhere. `limits`: 8 words, 2 loops, no interrupts. The runs with
the answer "no" use the smallest instance that shows the effect.

The compiler's runs let TLC build every text of a few lines out of a set of
lines. `program`: five lines, as an IF with an ELSEIF or an ELSE, its ENDIF and
a loop around or within take; one-line forms of each are among the lines, also one that ends with a NEXT
behind another statement; the
code has room enough, so that limits do not hide what is asked. `labels`: four
lines - a jump, its label, a name between, and another label or jump - and five
names; 12 cells of code, with a margin of 4 cells per line, and four forward
declarations, so that lists and data meet the limits while two jumps and two
labels fit easily. No line but DATA, which looks at the size itself, takes
more cells than the margin. A text ends after `MaxErrors` errors: two in `program`, so that
the compiler goes on behind an error and meets another one, and one in `labels`,
since no program with an error is accepted.

`strings`: programs with two strings, with a string and an array, and with one of them and
external functions, with one or two words on the stacks - two is what a binary operator
needs, and with the two buffers it takes three texts to overwrite one; a heap
of two allocations, so that it is full when both variables have one and refuses
earlier at will; texts of up to two characters that stand for `Chunk` = 4 each, so that
texts of one and of two characters need different numbers of blocks and both branches of
`realloc_string` occur; numbers -1 and 1; sizes -1, 0, 16383 and 65536, which ask for 0, 4, 0 and 4 bytes, and clear
262144, 4, 65536 and 4; indexes on both sides of the bounds, and 2^30, which reaches the
element 0. The two strings are interchangeable, as no operator tells them apart. `Overlap`
takes texts of three characters and does not occur here; the proof covers it.

`expr`: every text of up to seven lexemes out of one of four alphabets
(arithmetic; comparisons and logic; strings; functions, arrays and NIL), in which a
call with two parameters and an operator, or two operators of different levels and
parentheses, just fit. The alphabets leave out `>=` and the comparison of
strings, whose departures are listed above. `temporaries` has the lexemes of one
such text. `registry`: two machines, two keywords, two functions, and a table with room for
two more names than these, so that it is full with the third; all programs of two lines
out of four, and eleven longer ones, which declare a constant of a variable, a label, a
keyword and a function, use labels before and behind their definition, and fill the
table; functions are registered before programs are compiled, as
`test/main.c` and the Lua binding do (`RegisterLate` = FALSE).

`screen`: two lines of two places and a line end, a tabulator stop at every second place, so
that the stops end one place behind the last column as those of 61 columns do,
and texts that are longer than a line; coordinates 0, 1 and 3 - none, the first,
and one behind the last line. `host`: two handles and two machines, so that a string
can be unpacked into either, before and after destroy; budgets of 0 and 3 cycles
(no entry into `nb_run`, and two instructions with an external function between); a
screen of one place, as the screens are the subject of `screen`.

Fairness. `WF(ScanStep)`: the loop of `nb_mem_alloc` runs without anybody in
between. `WF(VMStep)`: nb_run does not return before its cycles are used up or
the program leaves it. `WF(HostStep)`: the host loops around `nb_run`
(`test/main.c:128`) and answers external functions. Nothing is assumed of
interrupts and resets. A host that grants slices of one cycle makes no
progress (`nb_runtime.c:215`); slices here are longer. `WF(Next)` in
`NbCompiler`: `nb_compile` runs without anybody in between, and a text is a file.

`WF(Step)` in `NbHost`: C code that
was called runs until it returns; nothing makes Lua call.

Deadlock is checked in `heap`, `machine` and `registry`. `limits` stops where the
program stops: at its end or at an error; the runs on texts stop when the text is
compiled or long enough; `strings`, `screen` and `host` stop when the model leaves off
behind a step that goes astray.

## What is proved

`NbMemProofs`, for every number of blocks up to 4096 (so that addresses fit 15
bits), every limit whose size in words fits a byte, and all requests and data:

- `TypeCorrect`: `Spec => []TypeOK`.
- `AllocationsApart`: `RunsMatchTags`, `UnownedIsFree`, `HintAtBoundary` and
  `SizeCoversRequest` always hold.
- `SearchComplete`: `ScanInStep` and `NoRunPassedOver` always hold.
- `Refinement`: `Spec => ImplementsHeap`.
- `FreeCounted`: `Spec => []FreeCountExact`.

The argument: none of these is inductive alone. That the search reads tags only
where tags are (`ScanInStep`) needs the tags to match the owners
(`RunsMatchTags`), the hint to be at a boundary (`HintAtBoundary`) and free
blocks to carry the free tag (`UnownedIsFree`); these in turn survive a
successful search because the run found consists of blocks that nobody holds,
which is what `ScanInStep` says of `start` and `count`. So `Inv` is their
conjunction with the types, and `Invariance` shows it inductive, one lemma per
kind of step. `Refinement` follows: a successful search is `Allocate`,
`nb_mem_free` (also within `nb_mem_realloc`) is `Release`, a write is `Store`,
and all other steps leave tags and owners alone.

`FreeCountExact` follows from the same `Inv`, but what `nb_mem_get_free` walks is a
recursive function of the tags, so that the proof is an induction over the blocks. The
library's induction theorems are out of reach (they take an operator), so
`SetInduction` is one over a set of numbers, from the least number that is not in it.
With it `WalkExists` shows that the function is there - the walk always goes
on at a later block, or ends (`WalkOnward`) - and `WalkCounts` that from a boundary
it counts the free blocks from there on: a free block is one (`FreeCounts`), an
allocation is passed over as a whole (`HeldCounts`). That the walk starts at a boundary is
`HintAtBoundary`, so this is proved of a state of the program, not of any tags.

The assumptions are the named `ASSUME`s of `NbMem`; 8192 / 8 blocks and 512
bytes satisfy them.

`NbStringsProofs`, for any number of variables, allocations and constants, texts and
arrays of any length, every program and every host:

- `TypeCorrect`: `Spec => []TypeOK`.
- `AllocationsOwned`: `Spec => []NamesOwnAllocations`.
- `StoredIsRead`: `Spec => []ReadsBack`.
- `OperandsLive`: `Spec => []OperandsKept`.

All four speak of the states before a step goes astray: behind a DIM whose size does
not fit 16 bits, or an element outside its array, the tags of other allocations may be
gone, and nothing of this holds. So for arrays they say that what is read and written
within an array of a size that fits disturbs nobody; that `astray` is set where the code
leaves the array (`Inside`, `Asked`) is in the actions.

Their strengthening is `SInv`. What is read back depends on who owns the allocations
(`Owned`): a change of one variable leaves the others' allocations alone only because
nobody shares one (`Untouched`, `StoredElsewhere`). What an operand is worth depends on
two facts the properties do not state (`Alive`): a live word in the buffer that is
handed out next has one life left, so that `alloc_temp_string` overwrites it when it
has none (`AliveOlder`), and a live word in the heap is the value of a variable, so that
an allocation is released together with the words that name it (`AliveParted`). That
arrays are not addressed by words is why DIM and element access need not look at the
stack. `YieldStep`, `ChangeStep` and `WordsStep` are the three kinds of steps -
a text in a buffer, a variable, neither - and every instruction is one of them. The
assumptions are the named `ASSUME`s of `NbStrings`, which TLC evaluates in `strings`:
strings and arrays are apart, constants lie below the buffers, and what is stored and
typed in is made of the characters and elements there are.

`NbHostProofs`, for every size of the screen that fits the bytes of the cursor, every
number of handles and machines, all texts and all budgets of 16 bits:

- `TypeCorrect`: `Spec => []TypeOK`; in it, the cursor is in its line or where a
  tabulator has taken it, at one of its stops (`Good`), also on screens that were packed.
- `MachinesStayApart`: `Spec => []MachinesApart`.
- `CpuIsAlwaysCallers`: `Spec => []CpuIsCallers`.
- `OutputIsAlwaysCallers`: `Spec => OutputIsCallers`.

The invariant, `HInv`, says as long as nothing went astray (`Sound`): what the three state
properties say, and `PlaceOfCall`: the calls that list tables, which may have no
handle, and only these are where tables are listed, so that whatever else executes has one. A machine is used only
through the handle of the call (`self`), which has one of its own (`MachinesApart`), and
the screen it prints to is that of `cpu`, which is `self` (`CpuIsCallers`); so the only
screen that changes is that of `self`, and none when tables are listed, since
`cpu` is none then: this is `OutputIsCallers`. The lemmas on `NbScreen` say of each operator that it makes
a screen of a screen, and where it leaves the cursor: the stop that a tabulator reaches is a
multiple of `TabStop` whatever the line is, which is arithmetic of its own (`Remainder`,
`MultipleLeavesNothing`, `StopAfter`). The assumptions are `ScreenAssumption` and
`HostAssumption`; 20 lines of 61 columns and stops of 10 satisfy them.

`NbTerminalProofs`, from the same assumptions:

- `ScreensAreTerminals`: `Spec => ImplementsTerminal`.

A place in the array is a row and a column (`Place`), and no two pairs are one place, so the
lemmas say of every operator of `NbScreen` what it does to the rows (`Shown`): one
character, one row that scrolls in, a part of a row that becomes blanks, or
nothing, where only ends of lines are written. `IsPut`, `IsNextRow`, `IsTab`, ... are
these facts as relations of two screens, and each is a step of `Terminal`. `HInv`
tells that the screen of a step is one and that nobody else's is written. The facts are
proved for a cursor in its line (`InLine`); a step that begins or ends with one that a tabulator
took out of it is excepted by the property itself (`OutOfLine`), since what it writes is in
another row.

`NbCompilerProofs`, for all names, lines, limits and margins, and texts of any length:

- `TypeCorrect`: `Spec => []TypeOK`.
- `BlocksSpanned`: `Spec => []JumpsSpanParts`.
- `LabelsReached`: `Spec => []JumpsReachLabels`.
- `VariablesStayApart`: `VariablesApart` always holds.

The lists are long while a text is compiled, so each property rests on a fact about the
unfinished code. `Nested`: every part of a block that is still open belongs to exactly
one waiting function, which knows where the part began; so the hole that a function
patches is that of its part. `Declared`: the forward declarations are exactly the
jumps to names, each at its cell. `LabelsSet`: a symbol with an address is a
label and the address is where it was set last, or CONST made something else of it.
`Counted`: `CurrVarIdx` lies between the number of variables and that of the names met.
A block that is closed at the end of the file by what is left of the last line is closed by its
own function, as any other: `Nested` does not say where the end of a block comes from.
An error drops all waiting functions; what they leave open is covered by
the count of errors (`ErrorsCounted`), since nothing is said of a program with one.
`VariablesApart` says that two variables have two places if no name is a variable and
a label and no error was met: `label()` gives a number back whichever it was
(`nb_compiler.c:497`). The assumptions are the named `ASSUME`s of `NbCompiler`.

`NbRegistryProofs`, for any number of machines, all names, keywords and programs:

- `TypeCorrect`: `[]TypeOK`. `LanguageAlwaysStays`: `[]LanguageStays`.
- `CallsAlwaysReach`: `[]CallsReachFunctions`.
- `NumbersAlwaysIndependent`: `[]NumbersIndependent`.
- `HostAlwaysFinds`: `[]HostFindsNames`.

Their premise is `~RegisterLate`: functions are registered before the first compilation,
as `test/main.c` and the Lua binding do. Without it `nb_define_external_function`
takes `CurrVarIdx`, which starts from 0 with each compilation, for the number of
symbols (`nb_compiler.c:237`): TLC then finds `LanguageStays` violated, and a
registration on a full table leaves the model. `Inv` is what every step keeps: up to `startOfVars` the table has the keywords
and the functions (`KeywordsKept`, `FunctionsKept`), and nothing of the language lies
behind (`Apart`); before the first compilation there is nothing else (`OnlyLanguage`), so that
the count of a new function is right; every name has one entry. `Numbering` follows a program
line by line: the table behind `startOfVars` is what the lines so far met, each name
with the count of the names before it that were no labels then. `Hosted` adds that for
programs that keep labels apart these numbers are the ones that the Lua binding counts
again. The lines differ only in what they make of the one symbol they met, which
the relations `Named`, `Kept`, `Became` and `Outcome` say.

`NbVMProofs`, for every program, stack size and width of the numbers, and every host:

- `TypeCorrect`: `Spec => []TypeOK`.

No premise: also when a stack overflows, and parameters are written over
the variables behind `paramstack`, every counter and word keeps its C type. The
assumptions say of the code only that instructions have operands of their types.

`NbFramesProofs`, for every set of compiled programs of any length, loops and calls of any
depth, every host and any number of interrupts:

- `FramesStand`: `Spec /\ []StacksFit => []Framed`.
- `TypedStackImplemented`: `Spec /\ []RoomLeft => ImplementsTypedStack`.

The premises: `PlacesAssumption` (the code is as the compiler lays it out, see
`NbFrames`), `[]StacksFit`, since otherwise the ring overwrites its oldest words, and for the
refinement `[]OneSide` (both together are `RoomLeft`), since a loop across zero ends early.
Every step is then one of `Instruction`, `LoopBack` or `Interrupt` of `TypedStack`, and where
a NEXT stands it is `LoopBack` with the variable and the address of that NEXT
(`AbstractSteps`);
`machine` checks that its programs satisfy them. The argument: that RETURN finds a return address, and NEXT its loop, is a fact about the
running frame, but after RETURN the caller's frame runs, so the invariant (`VInv`)
speaks of all of them: `Framed`, with `Counted` (the history has one entry per
word) and `Halted` (nothing runs after an error, which leaves a frame half-way). A step
changes the topmost frame only (`FramedAgain`: pop, push, NEXT), puts one on top
(`CalledRuns`: GOSUB, ON ... GOSUB, and an interrupt, which may find any frame), or drops
it, and then the one below stands as it did (`FrameRunsAgain`, `ReturnedRuns`). That
the unsigned variable and the signed end compare as the language means is
`SignedSum` and `SameSide`. FREE, which overwrites the top word, is allowed where
that is a temporary or the program itself runs with nothing on the stack (`Fitting`).

- `LoopsAreCounted`: `Spec /\ []StacksFit /\ ResetOutsideLoops => []LoopsCounted`.
- `NestingIsBounded`: with the same premises `[]NestingBounded`.
- `EndIsBalanced`: with these and `ProgramsBalanced`, `[]BalancedAtEnd`.
- `RestartsAreClean`: `ResetOutsideLoops` itself, for balanced programs and a host that
  resets after the end only (`ResetAfter \subseteq {"END"}`).

`LoopsCounted` is not inductive: nothing in it says why NEXT, which takes one from the counter,
takes back one that FOR has counted, or what an interrupt between FOR and its step value does.
`LoopsTallied` counts by the places instead, and with `Framed` is inductive: only FOR and
NEXT change the sum of `InFrames` and the entering of the running routine (`ForCounts`,
`NextCounts`, `OthersKeepLoops`); a call moves what the caller is entering from the one to
the other, a return moves it back. An error may leave a FOR counted that is not entered.
That nb_reset leaves `nested_loop_idx` alone makes `ResetOutsideLoops` necessary: after an
error within a loop the next run has fewer loops. `NestingBounded` has two halves; that
the calls fit the stack is part of `StacksFit` already, and what is shown of it is the loops.

`ParsTallied` is proved in the same way: an instruction moves the count of the running
routine along `Onward`, a call or an interrupt leaves the caller's at the return address,
and what `nb_run` owes the host for (`XFUNC`, `BREAK`) is `Unanswered` until the
answer (`ParamsMove`, `ParsStep`). At END the place has an empty first frame and no
parameters, so both counts are zero (`EndIsEmpty`).

- `StacksAlwaysFit`: `ProgramsBalanced /\ ProgramsRoomy /\ Spec => []StacksFit`.
- `RoomIsLeft`: with `[]OneSide` besides, `[]RoomLeft`; so (`RoomyProgramsAreTyped`) such
  programs run on the typed stack.
- `RoomyProgramsAreSafe`: with a host that resets after the end only, `Framed`,
  `LoopsCounted`, `NestingBounded` and `BalancedAtEnd` always hold, without a
  premise about runs.

Nothing in the code compares the stacks with their sizes, so that they suffice is a property of
the programs, and `Roomy` says which: `Room[p]` gives, for each address, how many words and
parameters are needed above those that are there when the program comes to it, with what
it calls; each instruction needs at least what comes after it and what it leaves itself, less what it
takes; a routine that is called needs its return address besides. So a program that calls
itself has none. An interrupt may come anywhere, again within an interrupt routine, so all
of the `MaxInterrupts` that the host sends between two resets are reckoned at once. The least such
numbers can be computed from the code: `MCNbVM` does so for its programs, and `MCRoomy`, an
`ASSUME` that TLC evaluates in `machine`, says that they have room in stacks of 16 words and
4 parameters. Among them are loops, calls, expressions, parameters and an interrupt routine with
one. `StacksFit` alone is not inductive: a step from a full stack may
push. The invariant, `RInv`, adds `Roomed`: each frame, the running one and those
that wait, still has the room that its routine needs at its address, and that of the interrupts to
come. A step finds room for what it pushes (`StepFits`, `HostFits`), since the words move as the
instruction says also where the ring would wrap (`WordsGrow`, `ParamsGrow`); so `StepRuns` may be
used, and the frames that wait keep theirs, since nobody touches the words below
(`Moved`, `Tops`, `WaitingRoom`); a call takes the room of the routine out of that of the caller
(`CalledRoom`, `MovedRoom`), an interrupt what was kept for it (`InterruptRoom`). That no loop
crosses zero depends on the values of the variables and stays a premise of the
refinement.

Only model-checked: `OneSide`; liveness (`AllocReturns`, `ProgramEnds`, `CompileEnds`,
`RunReturns`), which is out of the prover's reach, and `NbExpr` (`MeaningKept`,
`MeaningfulAccepted`), whose recursive operators the provers cannot unfold. That the programs of the instances are
`Described`, `ProgramsBalanced` and `ProgramsRoomy` is evaluated by TLC, program by program.

## Not modelled

- Byte access to arrays (`cfg_DATA_ACCESS`), which is off by default; the build
  without strings (an allocator that never frees); `cfg_LINE_NUMBERS`.
- Tracing, the wording of output and the disassembler.
- In the Lua binding, the conversion between Lua tables and C values.
- In `NbRegistry` the types of the parameters that a function is registered with;
  in `NbExpr` they are constants.
- A program from its text to its output in one model: `NbExpr` covers it for
  expressions; statements are compiled in `NbCompiler` and executed in `NbVM`,
  whose programs are written as the compiler emits them.

## Plan

What is left:

1. The code that `NbCompiler` makes of a text on the machine of `NbVM`: that what it emits is
   `Described`.
