-------------------------------- MODULE NbVM --------------------------------
(***************************************************************************)
(* The byte code interpreter (src/src/nb_runtime.c) and the program that   *)
(* embeds it, which calls nb_run with a budget of cycles, answers external *)
(* functions, redirects the program to an interrupt routine (nb_set_pc)    *)
(* and restarts it (nb_reset).                                             *)
(*                                                                         *)
(* Code is a sequence of instructions, so an address is the number of an   *)
(* instruction; instruction 0 is k_END.  There are 2 * Half numbers.       *)
(* Strings and arrays are the heap's business: the instructions that work  *)
(* on them take and leave what they take and leave on the stack, their     *)
(* results and failures are arbitrary.                                     *)
(***************************************************************************)
EXTENDS Integers, Sequences, FiniteSets

CONSTANTS StackSize,      \* cfg_STACK_SIZE
          ParamSize,      \* cfg_PARAMSTACK_SIZE
          MaxForLoops,    \* cfg_MAX_FOR_LOOPS
          Half,           \* 2^31: a word has 2 * Half values
          Var,            \* 0 .. cfg_NUM_VARS - 1
          Opaque,         \* string addresses, array elements
          Programs,       \* compiled programs
          Budgets,        \* cycles the host grants with a call of nb_run
          MaxInterrupts,  \* interrupts the host sends
          ResetAfter      \* results of nb_run after which the host may reset

Byte == 0 .. 255
Word16 == 0 .. 65535
Offsets == 0 .. 16383            \* of 16 bits, counted in numbers of four bytes
Wrap16(n) == n % 65536
ToUnsigned(n) == n % (2 * Half)
ToSigned_mA(n) == ToUnsigned(n)             \* the word stays unsigned
ToSigned(n) == LET u == ToUnsigned(n) IN IF u < Half THEN u ELSE u - 2 * Half
Num == -Half .. Half - 1

ASSUME StackAssumption == StackSize \in Word16 \ {0} /\ 65536 % StackSize = 0
ASSUME ParamAssumption == ParamSize \in Nat /\ ParamSize < StackSize /\ ParamSize < 255
ASSUME WordAssumption == Half \in Nat /\ Half > 1
ASSUME LoopAssumption == MaxForLoops \in 0 .. 254
ASSUME InterruptAssumption == MaxInterrupts \in Nat

\* There are variables wherever a parameter may be written; a heap address is
\* a word; cycles are counted in 16 bits.
ASSUME DataAssumption ==
    /\ 0 .. StackSize - ParamSize - 1 \subseteq Var
    /\ Opaque \subseteq 0 .. Half - 1
    /\ Budgets \subseteq Word16

\* What the compiler emits has its operands.
Functions == {"ADD", "SUB", "MUL", "DIV", "MOD", "AND", "OR", "EQ", "NE", "LT", "LE", "GT", "GE"}
Operands(i) ==
    /\ i.op \in {"PUSH_NUM", "BREAK"} => i.n \in Num
    /\ i.op \in {"PUSH_VAR", "POP_VAR", "HEAP_STORE", "NEXT"} => i.x \in Var
    /\ i.op = "BINARY" => i.f \in Functions
    /\ i.op \in {"GOTO", "IF", "GOSUB", "NEXT"} => i.to \in Nat
    /\ i.op \in {"HEAP_VALUE", "HEAP_STORE"} => i.k \in 0 .. 3
    /\ i.op \in {"ON_GOTO", "ON_GOSUB"} => i.n \in Nat
    /\ i.op = "XFUNC" => i.pars \in Nat /\ i.res \in 0 .. 1
ASSUME ProgramAssumption == \A p \in Programs :
    /\ \A a \in DOMAIN p.code : Operands(p.code[a])
    /\ p.data \in Seq([str : BOOLEAN, n : Num])
    /\ \A e \in p.routines : e.at \in Word16

-----------------------------------------------------------------------------
VARIABLES
    prog,            \* the program: code, data, and the interrupt routines
    pc, sp, psp,     \* as in t_VM
    loops,           \* nested_loop_idx
    stack,           \* stack[0 .. StackSize - 1], signed
    params,          \* paramstack[0 .. ParamSize - 1], signed
    variables,       \* unsigned
    dataOffs,        \* data_read_offs / 4
    cycles,          \* *p_cycles
    mode,            \* "run" inside of nb_run, "host" outside of it
    result,          \* what nb_run returned last
    owed,            \* parameters and results of the external function that
                     \* the host has to answer, or <<>>
    interrupts,      \* interrupts sent so far
    kinds            \* history: what the words of the stack were pushed as

machine == <<pc, sp, psp, loops, stack, params, variables, dataOffs>>
vars == <<prog, machine, cycles, mode, result, owed, interrupts, kinds>>

-----------------------------------------------------------------------------
\* The stack is a ring: PUSH, POP, TOP and PEEK of nb_runtime.c.  Word(1) is
\* the top.  The history has one entry per word as long as there are words.
Slot(n) == n % StackSize
Word(k) == stack[Slot(sp - k)]

Temp == <<"val">>
ReturnTo == <<"ret">>
EndOf(x) == <<"end", x>>
StepOf(x) == <<"step", x>>

Below(k) == SubSeq(kinds, 1, Len(kinds) - k)

Pop(k) == /\ sp' = Wrap16(sp - k)
          /\ kinds' = Below(k)
          /\ UNCHANGED stack

PopPush(k, n, kind) == /\ sp' = Wrap16(sp - k + 1)
                       /\ stack' = [stack EXCEPT ![Slot(sp - k)] = n]
                       /\ kinds' = Append(Below(k), kind)

SameStack == UNCHANGED <<sp, stack, kinds>>

\* PPUSH and PPOP take the index modulo cfg_STACK_SIZE although paramstack has
\* cfg_PARAMSTACK_SIZE entries: behind it lie the variables.
ParamAt(mem, vs, n) == IF n < ParamSize THEN mem[n] ELSE ToSigned(vs[n - ParamSize])

PPop_mA == UNCHANGED <<psp, params, variables>>                  \* not taken
PPop == /\ psp' = (psp - 1) % 256
        /\ UNCHANGED <<params, variables>>
PWord == ParamAt(params, variables, Slot((psp - 1) % 256))

PPush(n) == LET k == Slot(psp) IN
            /\ psp' = (psp + 1) % 256
            /\ params' = IF k < ParamSize THEN [params EXCEPT ![k] = n] ELSE params
            /\ variables' = IF k < ParamSize THEN variables
                            ELSE [variables EXCEPT ![k - ParamSize] = ToUnsigned(n)]

SameParams == UNCHANGED <<psp, params>>

-----------------------------------------------------------------------------
EndInstr == [op |-> "END"]
Fetch(a) == IF a \in DOMAIN prog.code THEN prog.code[a] ELSE EndInstr
ins == Fetch(pc)

\* What the result of an expression is for: most are temporaries, those behind
\* TO and STEP are the end and step value of a loop.
KindOf(i) == IF "kind" \in DOMAIN i THEN i.kind ELSE Temp
Kind == KindOf(ins)

\* The machine as nb_create and nb_reset are to leave it.
Fresh == /\ pc = 1 /\ sp = 0 /\ psp = 0 /\ loops = 0 /\ dataOffs = 0
         /\ stack = [k \in 0 .. StackSize - 1 |-> 0]
         /\ params = [k \in 0 .. ParamSize - 1 |-> 0]
         /\ variables = [x \in Var |-> 0]

Init == /\ prog \in Programs
        /\ Fresh
        /\ cycles = 0 /\ mode = "host" /\ result = "none" /\ owed = <<>>
        /\ interrupts = 0 /\ kinds = <<>>

-----------------------------------------------------------------------------
\* An instruction is executed while more than one cycle is left.
Executing(op) == /\ mode = "run" /\ cycles > 1 /\ ins.op = op
                 /\ cycles' = cycles - 1
                 /\ UNCHANGED <<prog, interrupts>>

GoOn == UNCHANGED <<mode, result, owed>>
Leave(r) == mode' = "host" /\ result' = r /\ owed' = <<>>
GoTo(a) == pc' = Wrap16(a)
Step1 == GoTo(pc + 1)

\* nb_run gives up: the instruction stays where it is.
Fail == Leave("ERROR") /\ UNCHANGED pc

OutOfCycles == /\ mode = "run" /\ cycles <= 1
               /\ cycles' = Wrap16(cycles - 1)
               /\ Leave("BUSY")
               /\ UNCHANGED <<prog, machine, interrupts, kinds>>

End == Executing("END") /\ Leave("END") /\ UNCHANGED <<machine, kinds>>

\* Output of what is not on the stack, TRON and TROFF.
Nop == Executing("NOP") /\ Step1 /\ GoOn /\ SameStack /\ SameParams
       /\ UNCHANGED <<loops, variables, dataOffs>>

Output == Executing("PRINT") /\ Step1 /\ GoOn /\ Pop(1) /\ SameParams
         /\ UNCHANGED <<loops, variables, dataOffs>>

PushNum == Executing("PUSH_NUM") /\ Step1 /\ GoOn /\ PopPush(0, ins.n, Kind)
           /\ SameParams /\ UNCHANGED <<loops, variables, dataOffs>>

PushVar == Executing("PUSH_VAR") /\ Step1 /\ GoOn
           /\ PopPush(0, ToSigned(variables[ins.x]), Kind)
           /\ SameParams /\ UNCHANGED <<loops, variables, dataOffs>>

PopVar == /\ Executing("POP_VAR") /\ Step1 /\ GoOn /\ Pop(1)
          /\ variables' = [variables EXCEPT ![ins.x] = ToUnsigned(Word(1))]
          /\ SameParams /\ UNCHANGED <<loops, dataOffs>>

\* C arithmetic: division truncates, the operands are Word(2) and Word(1).
Abs(n) == IF n < 0 THEN -n ELSE n
Sign(n) == IF n < 0 THEN -1 ELSE 1
TruncDiv(a, b) == IF b = 0 THEN 0 ELSE Sign(a) * Sign(b) * (Abs(a) \div Abs(b))
Bool(p) == IF p THEN 1 ELSE 0
Arith(f, a, b) == CASE f = "ADD" -> ToSigned(a + b)
                    [] f = "SUB" -> ToSigned(a - b)
                    [] f = "MUL" -> ToSigned(a * b)
                    [] f = "DIV" -> ToSigned(TruncDiv(a, b))
                    [] f = "MOD" -> IF b = 0 THEN 0 ELSE a - b * TruncDiv(a, b)
                    [] f = "AND" -> Bool(a # 0 /\ b # 0)
                    [] f = "OR"  -> Bool(a # 0 \/ b # 0)
                    [] f = "EQ"  -> Bool(a = b)
                    [] f = "NE"  -> Bool(a # b)
                    [] f = "LT"  -> Bool(a < b)
                    [] f = "LE"  -> Bool(a <= b)
                    [] f = "GT"  -> Bool(a > b)
                    [] f = "GE"  -> Bool(a >= b)
Binary == Executing("BINARY") /\ Step1 /\ GoOn
          /\ PopPush(2, Arith(ins.f, Word(2), Word(1)), Kind)
          /\ SameParams /\ UNCHANGED <<loops, variables, dataOffs>>

Unary == Executing("UNARY") /\ Step1 /\ GoOn
         /\ PopPush(1, IF ins.f = "NOT" THEN Bool(Word(1) = 0) ELSE ToSigned(-Word(1)), Kind)
         /\ SameParams /\ UNCHANGED <<loops, variables, dataOffs>>

\* The string functions and GET_ARR: ins.k operands and an arbitrary result;
\* SET_ARR, DIM, ERASE and the assignment of a string: ins.k operands; all but
\* SET_ARR change the variable.  The checks come after the operands were popped.
HeapValue == /\ Executing("HEAP_VALUE") /\ SameParams
             /\ \/ Step1 /\ GoOn /\ \E n \in Opaque : PopPush(ins.k, n, Kind)
                \/ ins.mayFail /\ Fail /\ Pop(ins.k)
             /\ UNCHANGED <<loops, variables, dataOffs>>

HeapStore == /\ Executing("HEAP_STORE") /\ SameParams /\ Pop(ins.k)
             /\ \/ /\ Step1 /\ GoOn
                   /\ \E n \in Opaque \cup {variables[ins.x]} :
                         variables' = [variables EXCEPT ![ins.x] = n]
                \/ ins.mayFail /\ Fail /\ UNCHANGED variables
             /\ UNCHANGED <<loops, dataOffs>>

\* rand() % (n + 1); for -1 there is no result, the process dies.
Random(n) == IF n >= 0 THEN 0 .. n ELSE 0 .. -n - 2

Rnd == Executing("RND") /\ Step1 /\ GoOn
       /\ \E n \in Random(Word(1)) : PopPush(1, n, Kind)
       /\ SameParams /\ UNCHANGED <<loops, variables, dataOffs>>

\* After its output FREE falls through into RND: it overwrites the top word, or
\* the one below the bottom, which nobody uses.
Free == /\ Executing("FREE") /\ Step1 /\ GoOn /\ UNCHANGED sp
        /\ \E n \in Random(Word(1)) : stack' = [stack EXCEPT ![Slot(sp - 1)] = n]
        /\ kinds' = IF kinds = <<>> THEN <<>> ELSE Append(Below(1), Temp)
        /\ SameParams /\ UNCHANGED <<loops, variables, dataOffs>>

-----------------------------------------------------------------------------
Goto == Executing("GOTO") /\ GoTo(ins.to) /\ GoOn /\ SameStack /\ SameParams
        /\ UNCHANGED <<loops, variables, dataOffs>>

\* Faulty variants of some actions (their names end in _m and a letter) stand in
\* front of them: they show that the properties notice such faults.
If_mA == Executing("IF") /\ GoTo(IF Word(1) = 0 THEN ins.to ELSE pc + 1) /\ GoOn
         /\ (IF Word(1) = 0 THEN Pop(1) ELSE SameStack)        \* kept when true
         /\ SameParams /\ UNCHANGED <<loops, variables, dataOffs>>

If == Executing("IF") /\ GoTo(IF Word(1) = 0 THEN ins.to ELSE pc + 1) /\ GoOn /\ Pop(1)
      /\ SameParams /\ UNCHANGED <<loops, variables, dataOffs>>

ReturnWord(a) == ToSigned(a)

Gosub_mA == /\ Executing("GOSUB") /\ SameParams                    \* no check
            /\ GoTo(ins.to) /\ GoOn /\ PopPush(0, ReturnWord(pc + 1), ReturnTo)
            /\ UNCHANGED <<loops, variables, dataOffs>>

Gosub == /\ Executing("GOSUB") /\ SameParams
         /\ \/ sp < StackSize /\ GoTo(ins.to) /\ GoOn /\ PopPush(0, ReturnWord(pc + 1), ReturnTo)
            \/ sp >= StackSize /\ Fail /\ SameStack
         /\ UNCHANGED <<loops, variables, dataOffs>>

Return == Executing("RETURN") /\ GoTo(Word(1)) /\ GoOn /\ Pop(1)
          /\ SameParams /\ UNCHANGED <<loops, variables, dataOffs>>

Reti == Executing("RETI") /\ GoTo(Word(1)) /\ Leave("RETI") /\ Pop(1)
        /\ SameParams /\ UNCHANGED <<loops, variables, dataOffs>>

\* ON ... GOTO and ON ... GOSUB are followed by one GOTO for each of their
\* ins.n targets.
Target(idx) == IF idx \in 1 .. ins.n THEN pc + idx ELSE pc + 1 + ins.n

OnGoto == Executing("ON_GOTO") /\ GoTo(Target(Wrap16(Word(1)))) /\ GoOn /\ Pop(1)
          /\ SameParams /\ UNCHANGED <<loops, variables, dataOffs>>

OnGosub_mA ==                                     \* returns to before the targets
    /\ Executing("ON_GOSUB") /\ SameParams
    /\ LET idx == Wrap16(Word(1)) IN
       IF idx \in 1 .. ins.n
       THEN GoTo(Target(idx)) /\ GoOn /\ PopPush(1, ReturnWord(pc + 1), ReturnTo)
       ELSE GoTo(Target(idx)) /\ GoOn /\ Pop(1)
    /\ UNCHANGED <<loops, variables, dataOffs>>

OnGosub ==
    /\ Executing("ON_GOSUB") /\ SameParams
    /\ LET idx == Wrap16(Word(1)) IN
       \/ /\ idx \notin 1 .. ins.n
          /\ GoTo(Target(idx)) /\ GoOn /\ Pop(1)
       \/ /\ idx \in 1 .. ins.n /\ Wrap16(sp - 1) < StackSize
          /\ GoTo(Target(idx)) /\ GoOn /\ PopPush(1, ReturnWord(pc + 1 + ins.n), ReturnTo)
       \/ /\ idx \in 1 .. ins.n /\ Wrap16(sp - 1) >= StackSize
          /\ mode' = "host" /\ result' = "ERROR" /\ owed' = <<>>
          /\ Step1 /\ Pop(1)
    /\ UNCHANGED <<loops, variables, dataOffs>>

-----------------------------------------------------------------------------
\* FOR comes before the expressions of its loop are evaluated.
For == /\ Executing("FOR")
       /\ loops' = (loops + 1) % 256
       /\ IF loops' > MaxForLoops THEN Fail ELSE Step1 /\ GoOn
       /\ SameStack /\ SameParams /\ UNCHANGED <<variables, dataOffs>>

\* The variables are unsigned in C, so the end value, which is signed, is
\* converted for the comparison; only the sign of the step is looked at.
Ahead(step, n, end) == IF step < 0 THEN n >= ToUnsigned(end) ELSE n <= ToUnsigned(end)

Next_m(stored, lost, early) ==
    /\ Executing("NEXT") /\ GoOn /\ SameParams
    /\ LET n == ToUnsigned(variables[ins.x] + Word(1))
           seen == IF early THEN variables[ins.x] ELSE n
       IN
       /\ variables' = IF stored THEN [variables EXCEPT ![ins.x] = n] ELSE variables
       /\ \/ Ahead(Word(1), seen, Word(2)) /\ GoTo(ins.to) /\ SameStack /\ UNCHANGED loops
          \/ /\ ~Ahead(Word(1), seen, Word(2)) /\ Step1 /\ Pop(2)
             /\ loops' = (loops - lost) % 256
    /\ UNCHANGED dataOffs
Next_mA == Next_m(TRUE, 0, FALSE)     \* the loop stays counted
Next_mB == Next_m(FALSE, 1, FALSE)    \* the variable stays what it was
Next_mC == Next_m(TRUE, 1, TRUE)      \* compared before the step is added: a turn too many

Next ==
    /\ Executing("NEXT") /\ GoOn /\ SameParams
    /\ LET n == ToUnsigned(variables[ins.x] + Word(1)) IN
       /\ variables' = [variables EXCEPT ![ins.x] = n]
       /\ \/ Ahead(Word(1), n, Word(2)) /\ GoTo(ins.to) /\ SameStack /\ UNCHANGED loops
          \/ /\ ~Ahead(Word(1), n, Word(2)) /\ Step1 /\ Pop(2)
             /\ loops' = (loops - 1) % 256
    /\ UNCHANGED dataOffs

-----------------------------------------------------------------------------
\* The data section ends where the code ends; its entries have a type.
DataLeft == dataOffs < Len(prog.data) /\ prog.data[dataOffs + 1].str = ins.str

Read == /\ Executing("READ") /\ SameParams
        /\ \/ /\ DataLeft /\ PopPush(0, prog.data[dataOffs + 1].n, Kind)
              /\ dataOffs' = (dataOffs + 1) % 16384
              /\ Step1 /\ GoOn
           \/ /\ ~DataLeft /\ Fail /\ SameStack /\ UNCHANGED dataOffs
        /\ UNCHANGED <<loops, variables>>

Restore == Executing("RESTORE") /\ Step1 /\ GoOn /\ Pop(1)
           /\ dataOffs' = Word(1) % 16384
           /\ SameParams /\ UNCHANGED <<loops, variables>>

-----------------------------------------------------------------------------
PushParam == Executing("PUSH_PARAM") /\ Step1 /\ GoOn /\ Pop(1) /\ PPush(Word(1))
             /\ UNCHANGED <<loops, dataOffs>>

Param == /\ Executing("PARAM") /\ Step1 /\ GoOn
         /\ \/ psp > 0 /\ PPop /\ PopPush(0, PWord, Kind)
            \/ psp = 0 /\ SameParams /\ UNCHANGED variables /\ PopPush(0, 0, Kind)
         /\ UNCHANGED <<loops, dataOffs>>

\* The host is left to take ins.pars parameters and give ins.res results; for
\* BREAK it takes the line number.
Xfunc == /\ Executing("XFUNC") /\ Step1 /\ SameStack /\ SameParams
         /\ mode' = "host" /\ result' = "XFUNC" /\ owed' = <<ins.pars, ins.res>>
         /\ UNCHANGED <<loops, variables, dataOffs>>

Break == /\ Executing("BREAK") /\ Step1 /\ SameStack /\ PPush(ins.n)
         /\ mode' = "host" /\ result' = "BREAK" /\ owed' = <<1, 0>>
         /\ UNCHANGED <<loops, dataOffs>>

-----------------------------------------------------------------------------
\* The host.  It goes on after every result but the end and an error.
Run(budget) == /\ mode = "host" /\ owed = <<>> /\ result \notin {"END", "ERROR"}
               /\ mode' = "run" /\ cycles' = budget
               /\ UNCHANGED <<prog, machine, result, owed, interrupts, kinds>>

\* nb_pop_num for every parameter, nb_push_num for the result.
Answer(n) == /\ mode = "host" /\ owed # <<>>
             /\ LET left == IF psp < owed[1] THEN 0 ELSE psp - owed[1] IN
                IF owed[2] = 0 \/ left >= StackSize
                THEN psp' = left /\ UNCHANGED <<params, variables>>
                ELSE /\ psp' = (left + 1) % 256
                     /\ params' = IF left < ParamSize THEN [params EXCEPT ![left] = n]
                                                      ELSE params
                     /\ variables' = IF left < ParamSize THEN variables
                           ELSE [variables EXCEPT ![left - ParamSize] = ToUnsigned(n)]
             /\ owed' = <<>>
             /\ UNCHANGED <<prog, pc, loops, dataOffs, cycles, mode, result, interrupts>>
             /\ SameStack

\* nb_set_pc to the routine at e.at, then nb_push_num for its parameter.
Interrupt(e, n) == /\ mode = "host" /\ owed = <<>>
                   /\ result \in {"BUSY", "RETI", "XFUNC"}
                   /\ interrupts < MaxInterrupts /\ interrupts' = interrupts + 1
                   /\ PopPush(0, ReturnWord(pc), ReturnTo)
                   /\ pc' = e.at
                   /\ IF e.par /\ psp < StackSize THEN PPush(n)
                      ELSE UNCHANGED <<psp, params, variables>>
                   /\ UNCHANGED <<prog, loops, dataOffs, cycles, mode, result, owed>>

\* nb_reset; it leaves nested_loop_idx and data_read_offs alone.
Reset == /\ mode = "host" /\ owed = <<>> /\ result \in ResetAfter
         /\ pc' = 1 /\ sp' = 0 /\ psp' = 0
         /\ stack' = [k \in 0 .. StackSize - 1 |-> 0]
         /\ params' = [k \in 0 .. ParamSize - 1 |-> 0]
         /\ variables' = [x \in Var |-> 0]
         /\ kinds' = <<>>
         /\ result' = "none" /\ interrupts' = 0
         /\ UNCHANGED <<prog, loops, dataOffs, cycles, mode, owed>>

-----------------------------------------------------------------------------
VMStep == \/ OutOfCycles \/ End \/ Nop \/ Output \/ PushNum \/ PushVar \/ PopVar
          \/ Binary \/ Unary \/ HeapValue \/ HeapStore \/ Rnd \/ Free
          \/ Goto \/ If \/ Gosub \/ Return \/ Reti \/ OnGoto \/ OnGosub
          \/ For \/ Next \/ Read \/ Restore \/ PushParam \/ Param \/ Xfunc \/ Break

HostStep == \/ \E budget \in Budgets : Run(budget)
            \/ \E n \in Opaque : Answer(n)

Steps == \/ VMStep
         \/ HostStep
         \/ \E e \in prog.routines, n \in Opaque : Interrupt(e, n)
         \/ Reset

\* The host calls nb_run again and again (src/test/main.c:128) and nb_run does
\* not stop before its cycles are used up.
Spec == Init /\ [][Steps]_vars /\ WF_vars(VMStep) /\ WF_vars(HostStep)

-----------------------------------------------------------------------------
(* The type invariant: counters and words keep their C types.              *)
TypeOK == /\ pc \in Word16 /\ sp \in Word16 /\ psp \in Byte
          /\ loops \in Byte /\ dataOffs \in Offsets /\ cycles \in Word16
          /\ stack \in [0 .. StackSize - 1 -> Num]
          /\ params \in [0 .. ParamSize - 1 -> Num]
          /\ variables \in [Var -> 0 .. 2 * Half - 1]
          /\ mode \in {"host", "run"}

\* The words of the stack of a certain sort.
Words(sort) == {n \in DOMAIN kinds : kinds[n][1] = sort}
OpenLoops == Cardinality(Words("step"))
PendingCalls == Cardinality(Words("ret"))

(* The ring of untyped words does the work of the typed stack: every       *)
(* return, also the one from an interrupt that came in the middle of an    *)
(* expression or a loop, goes back to where its call came from, every NEXT *)
(* finds the end and step of its own loop, counts its own variable and     *)
(* goes back to the beginning of the loop or behind it as the signed       *)
(* variable says, every expression finds its own operands, and no other    *)
(* instruction changes more than one variable.                             *)
TypedItems == [k \in 1 .. Len(kinds) |->
                 [kind |-> kinds[k], v |-> stack[Slot(k - 1)]]]
LoopEnds == {a \in DOMAIN prog.code : prog.code[a].op = "NEXT"}
TS == INSTANCE TypedStack
        WITH Low <- -Half, High <- Half - 1,
             items <- TypedItems, at <- pc,
             vars <- [x \in Var |-> ToSigned(variables[x])],
             nexts <- [a \in LoopEnds |-> [over |-> prog.code[a].x, back |-> prog.code[a].to]]
ImplementsTypedStack == TS!ASpec

(* nested_loop_idx counts the loops that are open on the stack; a FOR that *)
(* still evaluates its expressions is counted already, at most one for     *)
(* each running routine.                                                   *)
LoopsCounted == loops \in OpenLoops .. OpenLoops + 1 + PendingCalls

(* A program whose loops and calls are properly nested ends with nothing   *)
(* on its stacks and no loop open, whatever interrupts it has met and      *)
(* whatever the external functions answered.                               *)
BalancedAtEnd == result = "END" => sp = 0 /\ psp = 0 /\ loops = 0

(* A program that is run comes to its end or to an error, however small    *)
(* the slices are in which the host runs it.                               *)
ProgramEnds == mode = "run" ~> result \in {"END", "ERROR"}

(* FOR and GOSUB refuse what does not fit: no more than MaxForLoops loops  *)
(* are open and no more than StackSize calls are pending.                  *)
NestingBounded == OpenLoops <= MaxForLoops /\ PendingCalls <= StackSize
=============================================================================
