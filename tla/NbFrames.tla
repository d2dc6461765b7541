------------------------------ MODULE NbFrames ------------------------------
(***************************************************************************)
(* What the interpreter relies on and cannot see: that the compiler's code *)
(* (src/src/nb_compiler.c) has the same words on the stack whenever it     *)
(* comes to an instruction. The words that a running routine has pushed    *)
(* are its frame; a program is described by its places, each an address    *)
(* with the frame it is reached with.                                      *)
(***************************************************************************)
EXTENDS NbVM

CONSTANTS Places,      \* program -> its places
          Pars,        \* program -> address -> parameters of the running routine
          Room         \* program -> what it needs of the stacks at most

Kinds == {Temp} \cup {EndOf(x) : x \in Var} \cup {StepOf(x) : x \in Var}

\* A place: an address, the frame there, whether the program itself or a
\* routine runs there, and whether a loop is counted that is not yet on the
\* stack.
Place(a, f, l, e) == [at |-> a, frame |-> f, level |-> l, entering |-> e]
AllPlaces == [at : Nat, frame : Seq(Kinds), level : {"main", "sub"}, entering : BOOLEAN]

\* Expressions: compile_factor pushes, the operators take and leave.
Pushing == {"PUSH_NUM", "PUSH_VAR", "READ", "PARAM"}
Taken(i) == CASE i.op \in {"PRINT", "POP_VAR", "UNARY", "RND", "IF", "ON_GOTO", "ON_GOSUB",
                           "RESTORE", "PUSH_PARAM"} -> 1
              [] i.op = "BINARY" -> 2
              [] i.op \in {"HEAP_VALUE", "HEAP_STORE"} -> i.k
              [] OTHER -> 0
Leaving == Pushing \cup {"BINARY", "UNARY", "RND", "HEAP_VALUE"}

Without(f, k) == SubSeq(f, 1, Len(f) - k)
Temps(f, k) == k <= Len(f) /\ \A j \in 1 .. k : f[Len(f) - j + 1] = Temp
After(f, i) == IF i.op \in Leaving THEN Append(Without(f, Taken(i)), KindOf(i)) ELSE Without(f, Taken(i))
Loop(f, x) == Len(f) > 1 /\ f[Len(f)] = StepOf(x) /\ f[Len(f) - 1] = EndOf(x)

\* The loop is on the stack when its step is.
Entering(s, i) == i.op = "FOR" \/ (s.entering /\ ~(i.op \in Leaving /\ \E x \in Var : KindOf(i) = StepOf(x)))

\* Where an instruction goes on, and the routines that it calls.
GoesOn(i, a) == CASE i.op = "GOTO" -> {i.to}
                  [] i.op = "IF" -> {i.to, a + 1}
                  [] i.op = "ON_GOTO" -> a + 1 .. a + 1 + i.n
                  [] i.op = "ON_GOSUB" -> {a + 1 + i.n}
                  [] i.op \in {"END", "RETURN", "RETI"} -> {}
                  [] OTHER -> {a + 1}
Called(i, a) == CASE i.op = "GOSUB" -> {i.to}
                  [] i.op = "ON_GOSUB" -> a + 1 .. a + i.n
                  [] OTHER -> {}

\* What an instruction needs: its operands on top; a loop, for NEXT; nothing above
\* the return address, for RETURN; nothing at all, for FREE, which drops a word.
Fitting(s, i) ==
    /\ Temps(s.frame, Taken(i))
    /\ i.op \in Leaving => KindOf(i) \in Kinds
    /\ i.op = "NEXT" => Loop(s.frame, i.x) /\ ~s.entering
    /\ i.op = "FOR" => ~s.entering
    /\ i.op \in Leaving /\ (\E x \in Var : KindOf(i) = StepOf(x)) => s.entering
    /\ i.op \in {"RETURN", "RETI"} => s.frame = <<>> /\ s.level = "sub" /\ ~s.entering
    /\ i.op = "FREE" => Temps(s.frame, 1) \/ (s.frame = <<>> /\ s.level = "main")

\* The places after one.
NextPlaces(s, i) ==
    IF i.op = "NEXT"
    THEN {[s EXCEPT !.at = i.to], [s EXCEPT !.at = s.at + 1, !.frame = Without(@, 2)]}
    ELSE {Place(a, After(s.frame, i), s.level, Entering(s, i)) : a \in GoesOn(i, s.at)}
         \cup {Place(a, <<>>, "sub", FALSE) : a \in Called(i, s.at)}

\* Every instruction fits its places, and what comes after them is a place.
Described(p, places) ==
    /\ Len(p.code) + 1 < Half /\ Len(p.code) + 1 \in Word16
    /\ DOMAIN p.code = 1 .. Len(p.code)
    /\ places \subseteq AllPlaces
    /\ \A s \in places : s.at \in 1 .. Len(p.code) + 1
    /\ Place(1, <<>>, "main", FALSE) \in places
    /\ \A e \in p.routines : Place(e.at, <<>>, "sub", FALSE) \in places
    /\ \A s \in places : s.at \in DOMAIN p.code =>
          Fitting(s, p.code[s.at]) /\ NextPlaces(s, p.code[s.at]) \subseteq places
    /\ \A s, t \in places : s.at = t.at => s.entering = t.entering

ASSUME PlacesAssumption == \A p \in Programs : Described(p, Places[p])

-----------------------------------------------------------------------------
\* The stack as frames: below the running one, each ends where the return address
\* above it goes back to.
AddressAt(items, a, n) == IF n = Len(items) + 1 THEN a ELSE items[n].v
Base(n, s) == n - 1 - Len(s.frame)       \* the words below the frame
Stands(items, a, n, s) ==
    /\ s.at = AddressAt(items, a, n)
    /\ Base(n, s) >= 0
    /\ \A j \in 1 .. Len(s.frame) : items[Base(n, s) + j].kind = s.frame[j]
    /\ s.level = IF Base(n, s) = 0 THEN "main" ELSE "sub"
    /\ Base(n, s) > 0 => items[Base(n, s)].kind = ReturnTo
Returns(items) == {n \in DOMAIN items : items[n].kind = ReturnTo}

\* Every frame is that of a place; after an error the running one is left alone.
Running(items, a, places) == \E s \in places : Stands(items, a, Len(items) + 1, s)
Waiting(items, a, places) == \A n \in Returns(items) : \E s \in places : Stands(items, a, n, s)
Framed == /\ Waiting(TypedItems, pc, Places[prog])
          /\ result # "ERROR" => Running(TypedItems, pc, Places[prog])

(* The programs that are run leave room: the words fit the stack and the   *)
(* parameters the parameter stack (nothing compares them, nb_runtime.c:34  *)
(* and 39), and no loop crosses zero (nb_runtime.c:446 compares the signed *)
(* end with the unsigned variable).                                        *)
OneSide == mode = "run" /\ ins.op = "NEXT" =>
             (ToSigned(variables[ins.x] + Word(1)) < 0 <=> Word(2) < 0)
StacksFit == Len(kinds) <= StackSize /\ psp <= ParamSize
RoomLeft == StacksFit /\ OneSide

-----------------------------------------------------------------------------
\* The loops that nested_loop_idx counts: those whose step is on the stack and
\* those that a frame, the running one or one that waits, is entering.
EnteringAt(a, places) == \E s \in places : s.at = a /\ s.entering
Counts(item, places) == \/ \E x \in Var : item.kind = StepOf(x)
                        \/ item.kind = ReturnTo /\ EnteringAt(item.v, places)
Counting(items, places) == {n \in DOMAIN items : Counts(items[n], places)}
InFrames == Cardinality(Counting(TypedItems, Places[prog]))
LoopsTallied ==
    /\ InFrames <= MaxForLoops
    /\ loops \in InFrames .. InFrames + 1
    /\ result # "ERROR" => loops = InFrames + Bool(EnteringAt(pc, Places[prog])) /\ loops <= MaxForLoops

(* The host resets the program where no loop is counted: nb_reset leaves   *)
(* nested_loop_idx what it is (nb_runtime.c:54).                           *)
ResetOutsideLoops == [][Reset => loops = 0]_vars

-----------------------------------------------------------------------------
\* The parameter stack is not the expressions' business: what a routine has pushed
\* onto it and not taken is known at each of its addresses.
Onward(i, a) == GoesOn(i, a) \cup (IF i.op = "NEXT" THEN {i.to} ELSE {})
Wanted(i) == CASE i.op = "PARAM" -> 1
               [] i.op = "XFUNC" -> i.pars
               [] OTHER -> 0
Given(i) == CASE i.op = "PUSH_PARAM" -> 1
              [] i.op = "XFUNC" -> i.res
              [] OTHER -> 0

\* A program ends as it began: loops and calls are closed before END, everyone finds
\* the parameters that are wanted and a routine returns when it has taken its own.
Balanced(p, places, pars) ==
    /\ pars \in [1 .. Len(p.code) + 1 -> 0 .. ParamSize]
    /\ pars[1] = 0
    /\ \A e \in p.routines : pars[e.at] = Bool(e.par)
    /\ \A s \in places : s.at \in DOMAIN p.code =>
          LET i == p.code[s.at] IN
          /\ Wanted(i) <= pars[s.at]
          /\ \A a \in Onward(i, s.at) : pars[a] = pars[s.at] - Wanted(i) + Given(i)
          /\ \A a \in Called(i, s.at) : pars[a] = 0
          /\ i.op \in {"RETURN", "RETI"} => pars[s.at] = 0
    /\ \A s \in places : (s.at \in DOMAIN p.code => p.code[s.at].op = "END") =>
          s.frame = <<>> /\ s.level = "main" /\ ~s.entering /\ pars[s.at] = 0
ProgramsBalanced == \A p \in Programs : Balanced(p, Places[p], Pars[p])

\* The parameters of the frames that wait, those of the running one and those that
\* the host has not answered yet are all there are.
Cells(items, pars) == {c \in (1 .. Len(items)) \X (1 .. ParamSize) :
                         items[c[1]].kind = ReturnTo /\ c[2] <= pars[items[c[1]].v]}
ParsWaiting == Cardinality(Cells(TypedItems, Pars[prog]))
Unanswered == IF owed = <<>> THEN 0 ELSE owed[1] - owed[2]
ParsTallied ==
    /\ mode = "run" => owed = <<>>
    /\ owed # <<>> => owed[1] \in Nat /\ owed[2] \in 0 .. 1 /\ owed[2] <= Pars[prog][pc]
    /\ result # "ERROR" => psp = ParsWaiting + Pars[prog][pc] + Unanswered

-----------------------------------------------------------------------------
\* What a program needs: room.words[a] words and room.pars[a] parameters above those
\* that are there when it comes to the address a, with all the routines that are called
\* from there; an interrupt needs room.intWords and room.intPars wherever it comes.
Dropped(i) == IF i.op = "NEXT" THEN 2 ELSE Taken(i)
Roomy(p, places, pars, room) ==
    /\ room.words \in [1 .. Len(p.code) + 1 -> Nat] /\ room.intWords \in Nat
    /\ room.pars \in [1 .. Len(p.code) + 1 -> Nat] /\ room.intPars \in Nat
    /\ room.words[1] + MaxInterrupts * room.intWords <= StackSize
    /\ room.pars[1] + MaxInterrupts * room.intPars <= ParamSize
    /\ \A e \in p.routines : /\ room.words[e.at] + 1 <= room.intWords
                             /\ room.pars[e.at] + Bool(e.par) <= room.intPars
    /\ \A s \in places : s.at \in DOMAIN p.code =>
          LET i == p.code[s.at] IN
          /\ \A a \in GoesOn(i, s.at) :
                room.words[a] + Bool(i.op \in Leaving) <= room.words[s.at] + Dropped(i)
          /\ \A a \in Called(i, s.at) : /\ room.words[a] + 1 <= room.words[s.at] + Taken(i)
                                        /\ room.pars[a] <= room.pars[s.at]
          /\ \A a \in Onward(i, s.at) : pars[a] + room.pars[a] <= pars[s.at] + room.pars[s.at]
          /\ i.op = "NEXT" => room.words[i.to] <= room.words[s.at]
          /\ i.op = "BREAK" => room.pars[s.at] >= 1
ProgramsRoomy == \A p \in Programs : Roomy(p, Places[p], Pars[p], Room[p])

\* Each frame has the room that its routine needs and that of the interrupts to come.
Enough(p, lower, a, sent) ==
    /\ Len(lower) + Room[p].words[a] + (MaxInterrupts - sent) * Room[p].intWords <= StackSize
    /\ Cardinality(Cells(lower, Pars[p])) + Pars[p][a] + Room[p].pars[a]
          + (MaxInterrupts - sent) * Room[p].intPars <= ParamSize
Lower(items, n) == SubSeq(items, 1, n - 1)
Roomed ==
    /\ interrupts \in 0 .. MaxInterrupts
    /\ \A n \in Returns(TypedItems) : Enough(prog, Lower(TypedItems, n), TypedItems[n].v, interrupts)
    /\ result # "ERROR" => Enough(prog, TypedItems, pc, interrupts)
=============================================================================
