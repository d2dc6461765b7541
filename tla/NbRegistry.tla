------------------------------ MODULE NbRegistry ------------------------------
(***************************************************************************)
(* The symbol table and the registry of external functions of the compiler *)
(* (src/src/nb_compiler.c): one of each in a process, for all machines.    *)
(* A program is a sequence of lines, each of which begins with a word and  *)
(* uses one name in one way; what NbCompiler keeps of a line's code is     *)
(* left out here, and what it leaves out is here: keywords, functions,     *)
(* constants, the way from one compilation to the next, and what the host  *)
(* asks about names afterwards.                                            *)
(***************************************************************************)
EXTENDS Integers, Sequences, FiniteSets, SequencesExt

CONSTANTS
    Machines,
    Keywords,        \* names that nb_init adds, in order
    XNames,          \* names of functions that a host may register
    Programs,        \* what may be compiled
    Words,           \* what a line may begin with, which may be a keyword
    Key,             \* a name in lower case, cut to k_MAX_SYM_LEN - 1
    TextNames,       \* keys that end in '$'
    MaxSym,          \* cfg_MAX_NUM_SYM
    MaxXFuncs,       \* cfg_MAX_NUM_XFUNC
    RegisterLate     \* whether a host registers functions after a compilation

Names == DOMAIN Key
Keys == {Key[n] : n \in Names}
Uses == {"let", "value", "dim", "label", "goto", "const", "call"}

ASSUME RegistryAssumption ==
    /\ MaxXFuncs \in Nat /\ MaxSym \in Nat
    /\ Len(Keywords) + MaxXFuncs <= MaxSym
    /\ RegisterLate \in BOOLEAN

\* A keyword is there once; programs and hosts use names.
ASSUME NamesAssumption ==
    /\ Keywords \in Seq(Keys)
    /\ \A i, k \in DOMAIN Keywords : Keywords[i] = Keywords[k] => i = k
    /\ XNames \subseteq Names
    /\ Programs \subseteq Seq([word : Words, use : Uses, name : Names])

NoMachine == "none"
ASSUME MachinesAssumption == NoMachine \notin Machines

NoCode == [program |-> <<>>, vars |-> {}, labels |-> {}, calls |-> {}, errors |-> 0]

VARIABLES
    table,           \* a_Symbol up to the last name
    startOfVars,     \* StartOfVars
    currVarIdx,      \* CurrVarIdx
    xfuncs,          \* names in a_XFuncs, in the order of registration
    code,            \* machine -> the names in its code and what they became
    latest,          \* the machine that is compiled, or was last, or none
    at,              \* the line that is compiled; 0 when none is
    constants        \* history: the names that CONST was used on

vars == <<table, startOfVars, currVarIdx, xfuncs, code, latest, at, constants>>

Symbol(n, t, v) == [name |-> n, type |-> t, value |-> v]
Types == {"KEYWORD", "XFUNC", "ID", "SID", "ARR", "LABEL", "CNST"}

-----------------------------------------------------------------------------
\* Where a name is, or 0.
Find(tab, n) == SelectInSeq(tab, LAMBDA e : e.name = n)

\* sym_add
SymAdd(tab, n, val, t) ==
    LET i == Find(tab, n)
    IN IF i = 0 THEN Append(tab, Symbol(n, t, val))
       ELSE IF tab[i].type = "LABEL" /\ tab[i].value = 0 /\ val > 0
            THEN [tab EXCEPT ![i].value = val] ELSE tab
NumberAfter(tab, n, number) == IF Find(tab, n) = 0 THEN number + 1 ELSE number
Full_mA(tab, n) == Find(tab, n) = 0 /\ Len(tab) > MaxSym
Full(tab, n) == Find(tab, n) = 0 /\ Len(tab) = MaxSym

\* nb_init, called when the library is loaded.
Loaded == [k \in 1 .. Len(Keywords) |-> Symbol(Keywords[k], "KEYWORD", 0)]

Init == /\ table = Loaded
        /\ currVarIdx = Len(Loaded) /\ startOfVars = Len(Loaded)
        /\ xfuncs = <<>>
        /\ code = [m \in Machines |-> NoCode]
        /\ latest = NoMachine /\ at = 0
        /\ constants = {}

\* nb_define_external_function
Bound_mA(next) == startOfVars        \* the function is cleared like a variable
Bound(next) == next
Number_mA == Len(xfuncs) + 1         \* counted before it is added
Number == Len(xfuncs)

Define(f) ==
    /\ at = 0
    /\ Len(xfuncs) < MaxXFuncs
    /\ latest = NoMachine \/ RegisterLate
    /\ table' = SymAdd(table, Key[f], Number, "XFUNC")
    /\ currVarIdx' = NumberAfter(table, Key[f], currVarIdx)
    /\ startOfVars' = Bound(currVarIdx')
    /\ xfuncs' = Append(xfuncs, Key[f])
    /\ UNCHANGED <<code, latest, at, constants>>

-----------------------------------------------------------------------------
\* nb_compile: the names of the last program are cleared, then the lines come.
Cleared_mA == table                  \* the names stay
Cleared == SubSeq(table, 1, startOfVars)
FirstNumber_mA == currVarIdx         \* CurrVarIdx is not reset
FirstNumber == 0

LineAfter(p, k) == IF k < Len(p) THEN k + 1 ELSE 0

Compile(m, p) ==
    /\ at = 0
    /\ table' = Cleared /\ currVarIdx' = FirstNumber
    /\ code' = [code EXCEPT ![m] = [NoCode EXCEPT !.program = p]]
    /\ latest' = m /\ at' = LineAfter(p, 0)
    /\ UNCHANGED <<startOfVars, xfuncs, constants>>

\* The line, and its name: next_token adds it before the statement looks at it.
program == code[latest].program
line == program[at]
name == Key[line.name]
Met == SymAdd(table, name, currVarIdx, IF name \in TextNames THEN "SID" ELSE "ID")
Counted == NumberAfter(table, name, currVarIdx)
here == Find(Met, name)

\* A statement is known by its word, unless that is something else by now.
Understood == \A i \in DOMAIN table : table[i].name = line.word => table[i].type = "KEYWORD"

Compiled(c) == /\ code' = [code EXCEPT ![latest] = c]
               /\ at' = LineAfter(program, at)
               /\ UNCHANGED <<startOfVars, xfuncs, latest>>

\* error(), before a name is read and behind it.
Failed == Compiled([code[latest] EXCEPT !.errors = @ + 1])
NotRead == /\ at > 0
           /\ ~Understood \/ Full(table, name)
           /\ Failed
           /\ UNCHANGED <<table, currVarIdx, constants>>

Reads == at > 0 /\ Understood /\ ~Full(table, name)
Takes(use) == CASE use \in {"let", "value"} -> {"ID", "SID"}
                [] use = "dim" -> {"ID", "ARR"}
                [] use \in {"label", "goto"} -> {"ID", "LABEL"}
                [] use = "call" -> {"XFUNC"}
                [] use = "const" -> Types
IsConstant == line.use = "value" /\ Met[here].type = "CNST"

Mismatch == /\ Reads
            /\ Met[here].type \notin Takes(line.use) /\ ~IsConstant
            /\ table' = Met /\ currVarIdx' = Counted
            /\ Failed
            /\ UNCHANGED constants

Accepts(use) == Reads /\ line.use = use /\ Met[here].type \in Takes(use)

\* A name is a number of a variable in the code.
WithVariable == [code[latest] EXCEPT !.vars = @ \cup {<<name, Met[here].value>>}]

Variable == /\ Accepts("let") \/ Accepts("value")
            /\ table' = Met /\ currVarIdx' = Counted
            /\ Compiled(WithVariable)
            /\ UNCHANGED constants

ConstantValue == /\ Reads /\ IsConstant
                 /\ table' = Met /\ currVarIdx' = Counted
                 /\ Compiled(code[latest])
                 /\ UNCHANGED constants

Dim == /\ Accepts("dim")
       /\ table' = [Met EXCEPT ![here].type = "ARR"] /\ currVarIdx' = Counted
       /\ Compiled(WithVariable)
       /\ UNCHANGED constants

\* label(): what was a variable until now gives its number back.
Freed == IF Met[here].type = "ID" THEN Counted - 1 ELSE Counted

Goto == /\ Accepts("goto")
        /\ table' = [Met EXCEPT ![here].type = "LABEL"] /\ currVarIdx' = Freed
        /\ Compiled(code[latest])
        /\ UNCHANGED constants

Label == /\ Accepts("label")
         /\ table' = [Met EXCEPT ![here].type = "LABEL", ![here].value = at] /\ currVarIdx' = Freed
         /\ Compiled([code[latest] EXCEPT !.labels = {x \in @ : x[1] # name} \cup {<<name, at>>}])
         /\ UNCHANGED constants

\* compile_const does not look at what the name was.
Const == /\ Accepts("const")
         /\ table' = [Met EXCEPT ![here].type = "CNST", ![here].value = at] /\ currVarIdx' = Counted
         /\ Compiled(code[latest])
         /\ constants' = constants \cup {name}

Call == /\ Accepts("call")
        /\ table' = Met /\ currVarIdx' = Counted
        /\ Compiled([code[latest] EXCEPT !.calls = @ \cup {<<name, Met[here].value>>}])
        /\ UNCHANGED constants

-----------------------------------------------------------------------------
\* nb_get_label_address, for whichever machine
LabelAddress(n) ==
    LET i == SelectInSubSeq(table, startOfVars + 1, Len(table),
                            LAMBDA e : e.type = "LABEL" /\ e.name = n)
    IN IF i = 0 THEN 0 ELSE table[i].value

\* get_variable_list of the Lua binding: names, numbered as they come.
Listed == {i \in startOfVars + 1 .. Len(table) : table[i].type # "LABEL"}
VariableList == {<<table[i].name, Cardinality({k \in Listed : k < i})>> : i \in Listed}

CompileLine == \/ NotRead \/ Mismatch
               \/ Variable \/ ConstantValue \/ Dim \/ Goto \/ Label \/ Const \/ Call

Next == \/ \E f \in XNames : Define(f)
        \/ \E m \in Machines, p \in Programs : Compile(m, p)
        \/ CompileLine

Spec == Init /\ [][Next]_vars

-----------------------------------------------------------------------------
\* Names of the table are names of one thing each, its size and the numbers are
\* in range: a_Symbol, CurrVarIdx.
TypeOK ==
    /\ table \in Seq([name : Keys, value : Nat, type : Types])
    /\ Len(table) <= MaxSym
    /\ \A i, k \in DOMAIN table : table[i].name = table[k].name => i = k
    /\ startOfVars \in 0 .. Len(table) /\ currVarIdx \in 0 .. MaxSym
    /\ xfuncs \in Seq(Keys) /\ Len(xfuncs) <= MaxXFuncs
    /\ latest \in Machines \cup {NoMachine}
    /\ at # 0 => latest \in Machines /\ at \in DOMAIN program

\* Whatever is compiled, the language stays what it is: keywords are keywords,
\* and the name of a function calls it (nb_compile clears from StartOfVars on,
\* nb_compiler.c:262), unless a program made a constant of it (compile_const).
LanguageStays ==
    /\ \A k \in DOMAIN Keywords : /\ k <= startOfVars /\ table[k].name = Keywords[k]
                                  /\ table[k].type = "KEYWORD" \/ Keywords[k] \in constants
    /\ \A k \in DOMAIN xfuncs : LET i == Find(table, xfuncs[k])
                                IN /\ i \in 1 .. startOfVars
                                   /\ table[i].type \in {"XFUNC", "KEYWORD"} \/ xfuncs[k] \in constants

\* The code of a machine does not depend on what was compiled before it: its
\* variables are numbered in the order in which the program names them, from 0,
\* without what are labels by then (nb_compiler.c:272, 497).
IsName(n) == n \notin Range(Keywords) \cup Range(xfuncs)
IsLabelIn(p, n, k) == \E j \in 1 .. k - 1 : Key[p[j].name] = n /\ p[j].use \in {"label", "goto"}
NumberedBefore(p, k) == {n \in {Key[p[j].name] : j \in 1 .. k - 1} : IsName(n) /\ ~IsLabelIn(p, n, k)}
FirstNamed(p, n, k) == Key[p[k].name] = n /\ \A j \in 1 .. k - 1 : Key[p[j].name] # n
NumbersIndependent ==
    \A m \in Machines : \A x \in code[m].vars :
       LET p == code[m].program
       IN code[m].errors = 0 => \E k \in DOMAIN p : /\ FirstNamed(p, x[1], k)
                                                    /\ x[2] = Cardinality(NumberedBefore(p, k))

\* A function is called by the number that its host was given for it, when it was
\* registered first.
CallsReachFunctions ==
    \A m \in Machines : \A x \in code[m].calls :
       x[2] + 1 \in DOMAIN xfuncs /\ xfuncs[x[2] + 1] = x[1]

\* Of the machine compiled last, the host finds variables and labels where the
\* code has them (get_variable_list counts them again, nb_lua.c:564), if the
\* labels are nothing else.
IsUsedAs(p, n, uses) == \E k \in DOMAIN p : Key[p[k].name] = n /\ p[k].use \in uses
LabelsApart(p) == \A n \in Keys : IsUsedAs(p, n, {"label", "goto"}) => ~IsUsedAs(p, n, Uses \ {"label", "goto"})
HostFindsNames ==
    at = 0 /\ latest # NoMachine /\ code[latest].errors = 0 /\ LabelsApart(program) =>
      /\ code[latest].vars \subseteq VariableList
      /\ \A x \in code[latest].labels : LabelAddress(x[1]) = x[2]
=============================================================================
