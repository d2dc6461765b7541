----------------------------- MODULE TypedStack -----------------------------
(***************************************************************************)
(* The machine that compiled programs are written for.  The interpreter of *)
(* src/src/nb_runtime.c keeps the temporaries of expressions, the end and  *)
(* step values of the open FOR loops and the return addresses of the       *)
(* running subroutines in one array of 32 untyped words (cfg_STACK_SIZE).  *)
(* Here every item knows what it is, there is room for all of them, an     *)
(* operation that meets an item of another kind is not possible, and loop  *)
(* variables are the signed numbers the language promises.                 *)
(***************************************************************************)
EXTENDS Integers, Sequences

CONSTANTS Var,      \* variables
          Low,      \* smallest number
          High      \* largest number

VARIABLES items,    \* the stack; an item has a kind and a value v
          vars,     \* vars[x]: the number in variable x
          at,       \* address of the next instruction
          nexts     \* the NEXTs of the program, by their addresses: the
                    \* variable each is over and the address it goes back to

avars == <<items, vars, at, nexts>>

Temp == <<"val">>            \* kind of a temporary
ReturnTo == <<"ret">>        \* kind of a return address
EndOf(x) == <<"end", x>>     \* kinds of the two values of a loop over x
StepOf(x) == <<"step", x>>

WrapNum(n) == Low + ((n - Low) % (High - Low + 1))

Top(k) == items[Len(items) - k + 1]
Rest(k) == SubSeq(items, 1, Len(items) - k)
TempsOnTop(k) == /\ k <= Len(items)
                 /\ \A j \in 1 .. k : Top(j).kind = Temp

AInit == items = <<>> /\ vars = [x \in Var |-> 0] /\ at = 1

\* k temporaries are used up; what lies below them is not touched.
Use(k) == /\ TempsOnTop(k)
          /\ items' = Rest(k)

\* An instruction that gives a variable a number goes on behind itself.
Assign == /\ at' = at + 1
          /\ \E x \in Var, n \in Low .. High : vars' = [vars EXCEPT ![x] = n]

\* As before, and there is a result, which may become the end or step value
\* of a loop.
Compute(k) ==
    /\ TempsOnTop(k)
    /\ Len(items') = Len(items) - k + 1
    /\ items' = Append(Rest(k), items'[Len(items')])
    /\ items'[Len(items')].kind # ReturnTo
    /\ UNCHANGED vars

\* A subroutine is called: ON ... GOSUB uses up a temporary, GOSUB none.  No
\* call returns to before where it came from.
Call(k) == /\ TempsOnTop(k)
           /\ Len(items') = Len(items) - k + 1
           /\ items' = Append(Rest(k), items'[Len(items')])
           /\ items'[Len(items')].kind = ReturnTo
           /\ items'[Len(items')].v >= at
           /\ UNCHANGED vars

\* An interrupt comes in between two instructions and returns to the second.
Interrupt == Call(0) /\ items'[Len(items')].v = at

Return == /\ items # <<>>
          /\ Top(1).kind = ReturnTo
          /\ at' = Top(1).v
          /\ items' = Rest(1)
          /\ UNCHANGED vars

\* NEXT x: the innermost loop is the one over x; it goes on at the address a while
\* the variable has not passed the end value, and is left when it has.
InLoop(x) == /\ Len(items) > 1
             /\ Top(1).kind = StepOf(x)
             /\ Top(2).kind = EndOf(x)
Ahead(x, n) == IF Top(1).v < 0 THEN n >= Top(2).v ELSE n <= Top(2).v
LoopBack(x, a) ==
    /\ InLoop(x)
    /\ vars' = [vars EXCEPT ![x] = WrapNum(vars[x] + Top(1).v)]
    /\ \/ Ahead(x, vars'[x]) /\ items' = items /\ at' = a
       \/ ~Ahead(x, vars'[x]) /\ items' = Rest(2) /\ at' = at + 1

Clear == items' = <<>> /\ vars' = [x \in Var |-> 0] /\ at' = 1

\* Every instruction but NEXT.
Instruction == \/ \E k \in 0 .. 3 : Use(k) /\ (UNCHANGED vars \/ Assign)
               \/ \E k \in 0 .. 3 : Compute(k) /\ at' = at + 1
               \/ \E k \in 0 .. 1 : Call(k)
               \/ Return

\* Where a NEXT stands nothing else is done, but for the host's calls.
ANext == /\ UNCHANGED nexts
         /\ \/ at \notin DOMAIN nexts /\ Instruction
            \/ at \in DOMAIN nexts /\ LoopBack(nexts[at].over, nexts[at].back)
            \/ Interrupt
            \/ Clear

ASpec == AInit /\ [][ANext]_avars
=============================================================================
