------------------------------- MODULE MCNbVM -------------------------------
(***************************************************************************)
(* NbVM for TLC, with small programs in the form the compiler gives them.  *)
(***************************************************************************)
EXTENDS NbFrames, TLC

Push(n) == [op |-> "PUSH_NUM", n |-> n]
Get(x) == [op |-> "PUSH_VAR", x |-> x]
Set(x) == [op |-> "POP_VAR", x |-> x]
Binop(f) == [op |-> "BINARY", f |-> f]
Op(op) == [op |-> op]
Jump(op, to) == [op |-> op, to |-> to]
As(instr, kind) == [kind |-> kind] @@ instr

\* FOR x = a TO b [STEP -1]
ForUp(x, a, b) == <<Op("FOR"), Push(a), Set(x), As(Push(b), EndOf(x)),
                    As(Push(1), StepOf(x))>>
ForDown(x, a, b) == <<Op("FOR"), Push(a), Set(x), As(Push(b), EndOf(x)), Push(1),
                      As([op |-> "UNARY", f |-> "NEG"], StepOf(x))>>
Back(x, to) == <<[op |-> "NEXT", x |-> x, to |-> to]>>

i == 0
j == 1
k == 2
MCVar == 0 .. 11
MCOpaque == {0, 1}

\* Loops within loops and subroutines; the routine at 30 has a loop, too.
Nested ==
  [code |->
     ForUp(i, 1, 2) \o                                             \*  1
     <<Jump("GOSUB", 15), Push(2), Op("RND"),                      \*  6
       [op |-> "ON_GOSUB", n |-> 2], Jump("GOTO", 15), Jump("GOTO", 27)>> \o
     Back(i, 6) \o                                                 \* 12
     <<Op("END"), Op("END")>> \o                                   \* 13
     ForDown(j, 3, 2) \o                                           \* 15
     <<Get(j), Get(i), Binop("ADD"), Set(k)>> \o                   \* 21
     Back(j, 21) \o <<Op("RETURN")>> \o                            \* 25
     <<Get(k), Op("PRINT"), Op("RETURN")>> \o                      \* 27
     <<Op("PARAM"), Set(k)>> \o                                    \* 30
     ForUp(k, 1, 1) \o <<Op("NOP")>> \o Back(k, 37) \o             \* 32
     <<Op("RETI")>>,                                               \* 39
   data |-> <<>>,
   routines |-> {[at |-> 30, par |-> TRUE]}]

\* Data, an external function in a WHILE loop, the heap, ON ... GOTO, BREAK and
\* FREE; the routine at 36 calls an external function, too.
Mixed ==
  [code |->
     <<Push(1), Op("RESTORE"), [op |-> "READ", str |-> TRUE],      \*  1
       [op |-> "HEAP_STORE", k |-> 1, x |-> k, mayFail |-> FALSE],
       Push(0), Op("RESTORE"), [op |-> "READ", str |-> FALSE], Set(i),
       Push(1), Get(i), Binop("LE"), Jump("IF", 27),               \*  9
       Get(i), Op("PUSH_PARAM"), Push(3), Op("PUSH_PARAM"),        \* 13
       [op |-> "XFUNC", pars |-> 2, res |-> 1], Op("PARAM"),       \* 17
       Get(i), Binop("ADD"), Set(j),                               \* 19
       Get(i), Push(1), Binop("SUB"), Set(i), Jump("GOTO", 9),     \* 22
       Get(j), [op |-> "ON_GOTO", n |-> 1], Jump("GOTO", 31),      \* 27
       [op |-> "BREAK", n |-> 9], Op("FREE"),
       Push(1), [op |-> "HEAP_VALUE", k |-> 1, mayFail |-> TRUE],  \* 32
       Op("PRINT"), Op("END"),                                     \* 34
       Op("PARAM"), Set(k), [op |-> "XFUNC", pars |-> 0, res |-> 1], \* 36
       Op("PARAM"), Set(k), Op("RETURN")>>,
   data |-> <<[str |-> FALSE, n |-> 2], [str |-> TRUE, n |-> 5]>>,
   routines |-> {[at |-> 36, par |-> TRUE]}]

\* GOSUB and ON ... GOSUB without end, loops nested too deep, READ behind the
\* last DATA and READ of the wrong type.
Limits ==
  {[code |-> <<Jump("GOSUB", 1)>>,
    data |-> <<>>, routines |-> {}],
   [code |-> <<Push(1), [op |-> "ON_GOSUB", n |-> 1], Jump("GOTO", 1)>>,
    data |-> <<>>, routines |-> {}],
   [code |-> ForUp(i, 1, 2) \o <<Jump("GOSUB", 9)>> \o Back(i, 6) \o <<Op("END")>>
             \o ForUp(j, 1, 2) \o ForUp(k, 1, 2) \o ForUp(i, 1, 2),
    data |-> <<>>, routines |-> {}],
   [code |-> <<[op |-> "READ", str |-> FALSE], Set(i), Jump("GOTO", 1)>>,
    data |-> <<[str |-> FALSE, n |-> 1], [str |-> TRUE, n |-> 1]>>, routines |-> {}],
   [code |-> <<Get(i), [op |-> "HEAP_STORE", k |-> 1, x |-> i, mayFail |-> TRUE],
               [op |-> "READ", str |-> FALSE], Set(i), Jump("GOTO", 1)>>,
    data |-> <<[str |-> FALSE, n |-> 1]>>, routines |-> {}]}

\* The places of a program: its beginning, its routines, and what comes after.
Beginnings(p) == {Place(1, <<>>, "main", FALSE)} \cup {Place(e.at, <<>>, "sub", FALSE) : e \in p.routines}
RECURSIVE Reached(_, _, _)
Reached(p, known, new) ==
    IF new = {} THEN known
    ELSE LET next == UNION {NextPlaces(s, p.code[s.at]) : s \in {s \in new : s.at \in DOMAIN p.code}}
         IN Reached(p, known \cup new, next \ (known \cup new))
MCPlaces == [p \in Programs |-> Reached(p, {}, Beginnings(p))]

\* What is on the parameter stack at the addresses that are reached.
RECURSIVE Counted(_, _, _)
Counted(p, known, new) ==
    IF new = {} THEN known
    ELSE LET next == UNION {LET instr == p.code[c[1]] IN
                              {<<a, c[2] - Wanted(instr) + Given(instr)>> : a \in Onward(instr, c[1])}
                              \cup {<<a, 0>> : a \in Called(instr, c[1])}
                            : c \in {c \in new : c[1] \in DOMAIN p.code}}
         IN Counted(p, known \cup new, next \ (known \cup new))
ParsAt(p) == LET counts == Counted(p, {}, {<<1, 0>>} \cup {<<e.at, Bool(e.par)>> : e \in p.routines})
             IN [a \in 1 .. Len(p.code) + 1 |->
                   IF \E n \in 0 .. ParamSize : <<a, n>> \in counts
                   THEN CHOOSE n \in 0 .. ParamSize : <<a, n>> \in counts ELSE 0]
MCPars == [p \in Programs |-> ParsAt(p)]

\* What the programs need, up to a limit: need[a] is at least d more than need[b] for
\* each <<a, b, d>>.
RECURSIVE Needed(_, _, _)
Needed(needs, limit, need) ==
    LET Most(a) == {0} \cup {need[t[2]] + t[3] : t \in {t \in needs : t[1] = a}}
        more == [a \in DOMAIN need |->
                   LET most == CHOOSE n \in Most(a) : \A m \in Most(a) : m <= n
                   IN IF most > limit THEN limit ELSE most]
    IN IF more = need THEN need ELSE Needed(needs, limit, more)
RoomFor(p, places, pars) ==
    LET addresses == 1 .. Len(p.code) + 1
        in == {s.at : s \in places} \cap DOMAIN p.code
        nothing == [a \in addresses |-> 0]
        words == Needed(UNION {LET instr == p.code[a] IN
                     {<<a, b, Bool(instr.op \in Leaving) - Dropped(instr)>> : b \in GoesOn(instr, a)}
                     \cup {<<a, b, 1 - Taken(instr)>> : b \in Called(instr, a)}
                     \cup (IF instr.op = "NEXT" THEN {<<a, instr.to, 0>>} ELSE {}) : a \in in}, StackSize, nothing)
        more == Needed(UNION {LET instr == p.code[a] IN
                     {<<a, b, pars[b] - pars[a]>> : b \in Onward(instr, a)}
                     \cup {<<a, b, 0>> : b \in Called(instr, a)}
                     \cup (IF instr.op = "BREAK" THEN {<<a, Len(p.code) + 1, 1>>} ELSE {}) : a \in in}, ParamSize, nothing)
        Most(S) == CHOOSE n \in S : \A m \in S : m <= n
    IN [words |-> words, pars |-> more,
        intWords |-> Most({0} \cup {words[e.at] + 1 : e \in p.routines}),
        intPars |-> Most({0} \cup {more[e.at] + Bool(e.par) : e \in p.routines})]
MCRoom == [p \in Programs |-> RoomFor(p, MCPlaces[p], MCPars[p])]

MCPrograms == {Nested, Mixed}
ASSUME MCBalanced == Programs = MCPrograms => ProgramsBalanced
ASSUME MCRoomy == Programs = MCPrograms => ProgramsRoomy
MCBudgets == {2, 4}
MCResetAfter == {"END", "ERROR"}
OnlyEnd == {"END"}
=============================================================================
