--------------------------- MODULE NbRegistryProofs ---------------------------
(***************************************************************************)
(* Theorems about the symbol table, for all programs, hosts and machines:  *)
(* what one compilation leaves behind does not reach the next one.         *)
(***************************************************************************)
EXTENDS NbRegistry, SequenceTheorems, FiniteSetTheorems, TLAPS

-----------------------------------------------------------------------------
\* The table: names are there once, and the search finds them.
Entries == [name : Keys, value : Nat, type : Types]
Lines == [word : Words, use : Uses, name : Names]
Unique(tab) == \A i, k \in DOMAIN tab : tab[i].name = tab[k].name => i = k
Absent(tab, n) == \A i \in DOMAIN tab : tab[i].name # n

\* A name that is there is found where it is.
LEMMA Found == ASSUME NEW tab \in Seq(Entries), Unique(tab), NEW i \in DOMAIN tab
               PROVE Find(tab, tab[i].name) = i
<1> DEFINE I == {k \in 1 .. Len(tab) : tab[k].name = tab[i].name}
<1>1. I = {i}
  BY DEF Unique
<1>2. Min({i}) = i
  BY DEF Min
<1> QED
  BY <1>1, <1>2 DEF Find, SelectInSeq

\* A name that is not there is not found.
LEMMA NotFound == ASSUME NEW tab \in Seq(Entries), NEW n, Absent(tab, n)
                  PROVE Find(tab, n) = 0
<1> DEFINE I == {k \in 1 .. Len(tab) : tab[k].name = n}
<1>1. I = {}
  BY DEF Absent
<1> QED
  BY <1>1 DEF Find, SelectInSeq

\* What the search returns is where the name is, or nothing.
LEMMA FindIs == ASSUME NEW tab \in Seq(Entries), Unique(tab), NEW n
                PROVE \/ Find(tab, n) = 0 /\ Absent(tab, n)
                      \/ Find(tab, n) \in DOMAIN tab /\ tab[Find(tab, n)].name = n
<1>1. CASE Absent(tab, n)
  BY <1>1, NotFound
<1>2. CASE ~Absent(tab, n)
  <2>1. PICK i \in DOMAIN tab : tab[i].name = n
    BY <1>2 DEF Absent
  <2> QED
    BY <2>1, Found
<1> QED
  BY <1>1, <1>2

-----------------------------------------------------------------------------
\* A table that differs from another one in the entry of a name at most.
Named(tab, new, n, i) ==
    /\ new \in Seq(Entries) /\ Unique(new)
    /\ i \in DOMAIN new /\ new[i].name = n
    /\ \A k \in DOMAIN tab : k \in DOMAIN new /\ new[k].name = tab[k].name /\ (k # i => new[k] = tab[k])
    /\ i \in DOMAIN tab => Len(new) = Len(tab)
    /\ i \notin DOMAIN tab => Len(new) = Len(tab) + 1 /\ i = Len(tab) + 1 /\ Absent(tab, n)

\* The entry of a name that is read: a new one, or what was there.
New(e, n, v, t) == e = Symbol(n, t, v)
Kept(e, old) == e.type = old.type /\ (old.type # "LABEL" \/ old.value # 0 => e = old)

\* sym_add adds a name behind the others or finds it.
LEMMA Added == ASSUME NEW tab \in Seq(Entries), Unique(tab), NEW n \in Keys, NEW v \in Nat, NEW t \in Types
               PROVE LET new == SymAdd(tab, n, v, t)
                         i == Find(new, n)
                     IN /\ Named(tab, new, n, i)
                        /\ i \in DOMAIN tab => Kept(new[i], tab[i]) /\ Find(tab, n) = i
                        /\ i \notin DOMAIN tab => New(new[i], n, v, t) /\ Find(tab, n) = 0
<1> DEFINE new == SymAdd(tab, n, v, t)
           j == Find(tab, n)
<1>1. CASE j = 0 /\ Absent(tab, n)
  <2>1. new = Append(tab, Symbol(n, t, v)) /\ Symbol(n, t, v) \in Entries /\ Symbol(n, t, v).name = n
    BY <1>1 DEF SymAdd, Symbol, Entries
  <2>2. new \in Seq(Entries) /\ Len(new) = Len(tab) + 1 /\ DOMAIN new = 1 .. Len(tab) + 1
        /\ DOMAIN tab = 1 .. Len(tab) /\ Len(tab) \in Nat
    BY <2>1
  <2>3. new[Len(tab) + 1] = Symbol(n, t, v) /\ \A k \in DOMAIN tab : new[k] = tab[k]
    BY <2>1
  <2> HIDE DEF new
  <2>4. Unique(new)
    BY <1>1, <2>1, <2>2, <2>3 DEF Unique, Absent
  <2>5. PICK k \in DOMAIN new : k = Len(tab) + 1 /\ k \notin DOMAIN tab /\ new[k] = Symbol(n, t, v) /\ new[k].name = n
    BY <2>1, <2>2, <2>3
  <2>6. Find(new, n) = k
    BY <2>2, <2>4, <2>5, Found
  <2>7. Named(tab, new, n, k)
    <3>1. \A m \in DOMAIN tab : m \in DOMAIN new /\ new[m].name = tab[m].name /\ (m # k => new[m] = tab[m])
      BY <2>2, <2>3
    <3> QED
      BY <1>1, <2>2, <2>4, <2>5, <3>1 DEF Named
  <2> QED
    BY <1>1, <2>5, <2>6, <2>7 DEF New, new
<1>2. CASE j \in DOMAIN tab /\ tab[j].name = n
  <2>1. DOMAIN tab = 1 .. Len(tab) /\ Len(tab) \in Nat /\ j # 0 /\ tab[j] \in Entries
    BY <1>2
  <2>2. \/ new = tab
        \/ tab[j].type = "LABEL" /\ tab[j].value = 0 /\ new = [tab EXCEPT ![j].value = v]
    BY <2>1 DEF SymAdd
  <2>3. /\ new \in Seq(Entries) /\ Len(new) = Len(tab) /\ DOMAIN new = DOMAIN tab
        /\ \A k \in DOMAIN tab : new[k].name = tab[k].name /\ (k # j => new[k] = tab[k])
        /\ Kept(new[j], tab[j])
    <3>1. CASE new = tab
      BY <3>1 DEF Kept
    <3>2. CASE tab[j].type = "LABEL" /\ tab[j].value = 0 /\ new = [tab EXCEPT ![j].value = v]
      <4>1. [tab[j] EXCEPT !.value = v] \in Entries
        BY <2>1 DEF Entries
      <4>2. new = [tab EXCEPT ![j] = [tab[j] EXCEPT !.value = v]]
        BY <3>2
      <4>3. new \in Seq(Entries) /\ Len(new) = Len(tab) /\ DOMAIN new = DOMAIN tab
        BY <4>1, <4>2, <1>2
      <4>4. new[j] = [tab[j] EXCEPT !.value = v] /\ \A k \in DOMAIN tab : k # j => new[k] = tab[k]
        BY <4>2, <1>2
      <4>5. new[j].name = tab[j].name /\ new[j].type = tab[j].type
        BY <4>4, <2>1 DEF Entries
      <4> QED
        BY <3>2, <4>3, <4>4, <4>5 DEF Kept
    <3> QED
      BY <2>2, <3>1, <3>2
  <2> HIDE DEF new
  <2>4. Unique(new)
    BY <2>3 DEF Unique
  <2>5. Find(new, n) = j
    BY <1>2, <2>3, <2>4, Found
  <2>6. Named(tab, new, n, j)
    BY <1>2, <2>3, <2>4 DEF Named
  <2> QED
    BY <1>2, <2>3, <2>5, <2>6 DEF new
<1> QED
  BY <1>1, <1>2, FindIs

\* The entry may become something else.
WithType(new, i, t) == [new EXCEPT ![i].type = t]
WithValue(new, i, v) == [new EXCEPT ![i].value = v]
LEMMA Retyped == ASSUME NEW tab, NEW new, NEW n, NEW i, Named(tab, new, n, i), NEW t \in Types
                 PROVE /\ Named(tab, WithType(new, i, t), n, i)
                       /\ WithType(new, i, t)[i].type = t
                       /\ WithType(new, i, t)[i].value = new[i].value
<1> DEFINE e == [new[i] EXCEPT !.type = t]
           tab2 == [new EXCEPT ![i] = e]
<1>1. new[i] \in Entries /\ e \in Entries /\ e.name = n /\ e.type = t /\ e.value = new[i].value
  <2>1. PICK o \in Entries : o = new[i] /\ o.name = n
    BY DEF Named
  <2>2. [o EXCEPT !.type = t] \in Entries
    BY DEF Entries
  <2>3. [o EXCEPT !.type = t].name = o.name /\ [o EXCEPT !.type = t].type = t /\ [o EXCEPT !.type = t].value = o.value
    BY DEF Entries
  <2> QED
    BY <2>1, <2>2, <2>3
<1>2. tab2 \in Seq(Entries) /\ Len(tab2) = Len(new) /\ DOMAIN tab2 = DOMAIN new
  BY <1>1 DEF Named
<1>3. tab2[i] = e /\ \A k \in DOMAIN new : k # i => tab2[k] = new[k]
  BY DEF Named
<1>4. WithType(new, i, t) = tab2
  BY DEF WithType
<1> HIDE DEF tab2, e
<1>5. Unique(tab2)
  <2>1. new[i].name = n /\ Unique(new)
    BY DEF Named
  <2>2. \A k \in DOMAIN new : tab2[k].name = new[k].name
    BY <1>1, <1>3, <2>1
  <2> QED
    BY <1>2, <2>1, <2>2 DEF Unique
<1>6. Named(tab, tab2, n, i)
  BY <1>1, <1>2, <1>3, <1>5 DEF Named
<1> QED
  BY <1>1, <1>3, <1>4, <1>6

\* And get another value.
LEMMA Revalued == ASSUME NEW tab, NEW new, NEW n, NEW i, Named(tab, new, n, i), NEW v \in Nat
                  PROVE /\ Named(tab, WithValue(new, i, v), n, i)
                        /\ WithValue(new, i, v)[i].value = v
                        /\ WithValue(new, i, v)[i].type = new[i].type
<1> DEFINE e == [new[i] EXCEPT !.value = v]
           tab2 == [new EXCEPT ![i] = e]
<1>1. new[i] \in Entries /\ e \in Entries /\ e.name = n /\ e.value = v /\ e.type = new[i].type
  <2>1. PICK o \in Entries : o = new[i] /\ o.name = n
    BY DEF Named
  <2>2. [o EXCEPT !.value = v] \in Entries
    BY DEF Entries
  <2>3. [o EXCEPT !.value = v].name = o.name /\ [o EXCEPT !.value = v].value = v /\ [o EXCEPT !.value = v].type = o.type
    BY DEF Entries
  <2> QED
    BY <2>1, <2>2, <2>3
<1>2. tab2 \in Seq(Entries) /\ Len(tab2) = Len(new) /\ DOMAIN tab2 = DOMAIN new
  BY <1>1 DEF Named
<1>3. tab2[i] = e /\ \A k \in DOMAIN new : k # i => tab2[k] = new[k]
  BY DEF Named
<1>4. WithValue(new, i, v) = tab2
  BY DEF WithValue
<1> HIDE DEF tab2, e
<1>5. Unique(tab2)
  <2>1. new[i].name = n /\ Unique(new)
    BY DEF Named
  <2>2. \A k \in DOMAIN new : tab2[k].name = new[k].name
    BY <1>1, <1>3, <2>1
  <2> QED
    BY <1>2, <2>1, <2>2 DEF Unique
<1>6. Named(tab, tab2, n, i)
  BY <1>1, <1>2, <1>3, <1>5 DEF Named
<1> QED
  BY <1>1, <1>3, <1>4, <1>6

-----------------------------------------------------------------------------
\* The types of what TypeOK leaves out.
Codes == [program : Programs \cup {<<>>}, vars : SUBSET (Keys \X Nat), labels : SUBSET (Keys \X Nat),
          calls : SUBSET (Keys \X Nat), errors : Nat]

SymbolsTyped == /\ table \in Seq(Entries) /\ Unique(table) /\ Len(table) <= MaxSym
                /\ startOfVars \in 0 .. Len(table) /\ currVarIdx \in 0 .. Len(table)
HostTyped == xfuncs \in Seq(Keys) /\ Len(xfuncs) <= MaxXFuncs /\ constants \subseteq Keys
CodeTyped == /\ code \in [Machines -> Codes]
             /\ latest \in Machines \cup {NoMachine} /\ at \in Nat
             /\ at # 0 => latest \in Machines /\ at \in DOMAIN program

\* As long as nothing was compiled there are only keywords and functions, all counted.
OnlyLanguage == latest = NoMachine => /\ startOfVars = Len(table) /\ currVarIdx = Len(table)
                                      /\ Len(table) <= Len(Keywords) + Len(xfuncs)

\* Keywords keep their places, functions theirs, and variables come behind them.
Language == Range(Keywords) \cup Range(xfuncs)
InLanguage(e, lang, cs) == /\ e.name \in lang
                           /\ e.type \in {"KEYWORD", "XFUNC"} \/ (e.type = "CNST" /\ e.name \in cs)
OfProgram(e, lang) == e.name \notin lang /\ e.type \notin {"KEYWORD", "XFUNC"}
Apart == \A i \in DOMAIN table : IF i <= startOfVars THEN InLanguage(table[i], Language, constants) ELSE OfProgram(table[i], Language)
KeywordsKept == \A k \in DOMAIN Keywords : /\ k \in DOMAIN table /\ k <= startOfVars /\ table[k].name = Keywords[k]
                                           /\ table[k].type = "KEYWORD" \/ Keywords[k] \in constants
FunctionsKept == \A k \in DOMAIN xfuncs : \E i \in DOMAIN table : i <= startOfVars /\ table[i].name = xfuncs[k]

\* The entry of a function holds the number its host was given.
Numbered == \A i \in DOMAIN table : table[i].type = "XFUNC" =>
              table[i].value + 1 \in DOMAIN xfuncs /\ xfuncs[table[i].value + 1] = table[i].name

\* A number that a label gives back was given to it.
Places == {i \in DOMAIN table : i > startOfVars /\ table[i].type \in {"ID", "SID", "ARR"}}
Counting == at > 0 => Cardinality(Places) <= currVarIdx /\ currVarIdx <= Len(table) - startOfVars

Inv == /\ SymbolsTyped /\ HostTyped /\ CodeTyped
       /\ OnlyLanguage /\ Apart /\ KeywordsKept /\ FunctionsKept /\ Numbered
       /\ Counting /\ CallsReachFunctions

-----------------------------------------------------------------------------
\* What reading the name of a line and the statement behind it leave in the table.
LineRead == /\ Named(table, Met, name, here)
            /\ here \in DOMAIN table => Kept(Met[here], table[here]) /\ Counted = currVarIdx
            /\ here \notin DOMAIN table => /\ Met[here].value = currVarIdx /\ Met[here].type \in {"ID", "SID"}
                                           /\ Counted = currVarIdx + 1 /\ Len(Met) <= MaxSym
Became(t, v) == /\ Named(table, table', name, here)
                /\ table'[here].type = t /\ table'[here].value = v

\* A line of the program that is compiled is a line.
LEMMA LineTyped == ASSUME CodeTyped, at > 0
                   PROVE /\ latest \in Machines /\ program \in Programs /\ program \in Seq(Lines)
                         /\ at \in DOMAIN program /\ line \in Lines /\ name \in Keys /\ line.use \in Uses
<1>1. latest \in Machines /\ at \in DOMAIN program /\ code[latest] \in Codes
  BY DEF CodeTyped
<1>2. program \in Programs \cup {<<>>}
  BY <1>1 DEF program, Codes
<1>3. program # <<>>
  BY <1>1
<1>4. program \in Programs /\ program \in Seq(Lines)
  BY <1>2, <1>3, NamesAssumption DEF Lines
<1>5. line \in Lines
  BY <1>1, <1>4 DEF line
<1>6. line.name \in Names /\ line.use \in Uses
  BY <1>5 DEF Lines
<1> QED
  BY <1>1, <1>4, <1>5, <1>6 DEF name, Keys

\* next_token: the name of the line is in the table then.
LEMMA NameRead == ASSUME SymbolsTyped, CodeTyped, Reads PROVE LineRead
<1>1. at > 0 /\ name \in Keys /\ currVarIdx \in Nat
  BY LineTyped DEF Reads, SymbolsTyped
<1> DEFINE t == IF name \in TextNames THEN "SID" ELSE "ID"
<1>2. t \in {"ID", "SID"} /\ t \in Types
  BY DEF Types
<1>3. table \in Seq(Entries) /\ Unique(table) /\ Len(table) \in Nat /\ Len(table) <= MaxSym /\ MaxSym \in Nat
  BY RegistryAssumption DEF SymbolsTyped
<1>4. Met = SymAdd(table, name, currVarIdx, t) /\ here = Find(Met, name)
  BY DEF Met, here
<1> HIDE DEF t
<1>5. /\ Named(table, Met, name, here)
      /\ here \in DOMAIN table => Kept(Met[here], table[here]) /\ Find(table, name) = here
      /\ here \notin DOMAIN table => New(Met[here], name, currVarIdx, t) /\ Find(table, name) = 0
  BY <1>1, <1>2, <1>3, <1>4, Added
<1>6. ASSUME here \in DOMAIN table PROVE Counted = currVarIdx
  <2>1. here # 0
    BY <1>3, <1>6
  <2> QED
    BY <1>5, <1>6, <2>1 DEF Counted, NumberAfter
<1>7. ASSUME here \notin DOMAIN table
      PROVE Met[here].value = currVarIdx /\ Met[here].type = t /\ Counted = currVarIdx + 1 /\ Len(Met) <= MaxSym
  <2>1. Find(table, name) = 0 /\ Met[here] = Symbol(name, t, currVarIdx)
    BY <1>5, <1>7 DEF New
  <2>2. Len(table) # MaxSym
    BY <2>1 DEF Reads, Full
  <2>3. Len(Met) = Len(table) + 1
    BY <1>5, <1>7 DEF Named
  <2>4. Len(Met) <= MaxSym
    BY <1>3, <2>2, <2>3
  <2> QED
    BY <2>1, <2>4 DEF Symbol, Counted, NumberAfter
<1> QED
  BY <1>2, <1>5, <1>6, <1>7 DEF LineRead

\* The statements of the language, in the table.
\* A statement that refuses the name leaves it as it was read.
LEMMA MismatchBecame == ASSUME LineRead, Mismatch PROVE Became(Met[here].type, Met[here].value)
  BY DEF LineRead, Mismatch, Became
\* A variable stays what it is.
LEMMA VariableBecame == ASSUME LineRead, Variable PROVE Became(Met[here].type, Met[here].value)
  BY DEF LineRead, Variable, Became
\* A constant stays what it is.
LEMMA ConstantValueBecame == ASSUME LineRead, ConstantValue PROVE Became(Met[here].type, Met[here].value)
  BY DEF LineRead, ConstantValue, Became
\* A function stays what it is.
LEMMA CallBecame == ASSUME LineRead, Call PROVE Became(Met[here].type, Met[here].value)
  BY DEF LineRead, Call, Became

\* DIM makes an array of a name.
LEMMA DimBecame == ASSUME LineRead, Dim PROVE Became("ARR", Met[here].value)
<1>1. "ARR" \in Types
  BY DEF Types
<1>2. table' = WithType(Met, here, "ARR")
  BY DEF Dim, WithType
<1>3. Named(table, Met, name, here)
  BY DEF LineRead
<1> QED
  BY <1>1, <1>2, <1>3, Retyped DEF Became
\* GOTO makes a label of a name.
LEMMA GotoBecame == ASSUME LineRead, Goto PROVE Became("LABEL", Met[here].value)
<1>1. "LABEL" \in Types
  BY DEF Types
<1>2. table' = WithType(Met, here, "LABEL")
  BY DEF Goto, WithType
<1>3. Named(table, Met, name, here)
  BY DEF LineRead
<1> QED
  BY <1>1, <1>2, <1>3, Retyped DEF Became
\* A label gets its address.
LEMMA LabelBecame == ASSUME LineRead, CodeTyped, Label PROVE Became("LABEL", at)
<1>1. "LABEL" \in Types /\ at \in Nat
  BY DEF Types, CodeTyped
<1>2. PICK mid : mid = WithType(Met, here, "LABEL")
  OBVIOUS
<1>3. Named(table, mid, name, here) /\ mid[here].type = "LABEL"
  BY <1>1, <1>2, Retyped DEF LineRead
<1>4. table' = WithValue(mid, here, at)
  BY <1>2 DEF Label, WithType, WithValue
<1> QED
  BY <1>1, <1>3, <1>4, Revalued DEF Became
\* CONST makes a constant of a name.
LEMMA ConstBecame == ASSUME LineRead, CodeTyped, Const PROVE Became("CNST", at)
<1>1. "CNST" \in Types /\ at \in Nat
  BY DEF Types, CodeTyped
<1>2. PICK mid : mid = WithType(Met, here, "CNST")
  OBVIOUS
<1>3. Named(table, mid, name, here) /\ mid[here].type = "CNST"
  BY <1>1, <1>2, Retyped DEF LineRead
<1>4. table' = WithValue(mid, here, at)
  BY <1>2 DEF Const, WithType, WithValue
<1> QED
  BY <1>1, <1>3, <1>4, Revalued DEF Became

-----------------------------------------------------------------------------
\* What a line whose name is read does to the entry and the counter.
Turned(t) == \/ t = Met[here].type
             \/ Met[here].type \in {"ID", "ARR"} /\ t = "ARR"
             \/ Met[here].type \in {"ID", "LABEL"} /\ t = "LABEL"
             \/ t = "CNST" /\ name \in constants'
Outcome(t, v) ==
    /\ Became(t, v) /\ Turned(t)
    /\ t \notin {"LABEL", "CNST"} => v = Met[here].value
    /\ currVarIdx' = IF t = "LABEL" /\ Met[here].type = "ID" THEN Counted - 1 ELSE Counted
    /\ constants \subseteq constants' /\ constants' \subseteq constants \cup {name}
    /\ UNCHANGED <<startOfVars, xfuncs, latest>> /\ at' = LineAfter(program, at)
ReadsLine == Mismatch \/ Variable \/ ConstantValue \/ Dim \/ Goto \/ Label \/ Const \/ Call

\* Of a mismatch, the type is not one that is turned.
LEMMA LineOutcome == ASSUME SymbolsTyped, CodeTyped, ReadsLine
                     PROVE Reads /\ LineRead /\ \E t, v : Outcome(t, v)
<1>1. Reads
  BY DEF ReadsLine, Mismatch, Variable, ConstantValue, Dim, Goto, Label, Const, Call, Accepts
<1>2. LineRead
  BY <1>1, NameRead
<1> DEFINE m == Met[here]
<1>3. CASE Mismatch \/ Variable \/ ConstantValue \/ Call
  <2>1. Became(m.type, m.value)
    BY <1>2, <1>3, MismatchBecame, VariableBecame, ConstantValueBecame, CallBecame
  <2>2. currVarIdx' = Counted /\ constants' = constants /\ UNCHANGED <<startOfVars, xfuncs, latest>>
        /\ at' = LineAfter(program, at)
    BY <1>3 DEF Mismatch, Variable, ConstantValue, Call, Compiled, Failed
  <2>3. ~(m.type = "LABEL" /\ m.type = "ID")
    OBVIOUS
  <2>4. Outcome(m.type, m.value)
    BY <2>1, <2>2, <2>3 DEF Outcome, Turned
  <2> QED
    BY <1>1, <1>2, <2>4
<1>4. CASE Dim
  <2>1. Became("ARR", m.value) /\ m.type \in {"ID", "ARR"}
    BY <1>2, <1>4, DimBecame DEF Dim, Accepts, Takes
  <2>2. currVarIdx' = Counted /\ constants' = constants /\ UNCHANGED <<startOfVars, xfuncs, latest>>
        /\ at' = LineAfter(program, at)
    BY <1>4 DEF Dim, Compiled
  <2>3. Outcome("ARR", m.value)
    BY <2>1, <2>2 DEF Outcome, Turned
  <2> QED
    BY <1>1, <1>2, <2>3
<1>5. CASE Goto
  <2>1. Became("LABEL", m.value) /\ m.type \in {"ID", "LABEL"}
    BY <1>2, <1>5, GotoBecame DEF Goto, Accepts, Takes
  <2>2. currVarIdx' = Freed /\ constants' = constants /\ UNCHANGED <<startOfVars, xfuncs, latest>>
        /\ at' = LineAfter(program, at)
    BY <1>5 DEF Goto, Compiled
  <2>3. Outcome("LABEL", m.value)
    BY <2>1, <2>2 DEF Outcome, Turned, Freed
  <2> QED
    BY <1>1, <1>2, <2>3
<1>6. CASE Label
  <2>1. Became("LABEL", at) /\ m.type \in {"ID", "LABEL"}
    BY <1>2, <1>6, LabelBecame DEF Label, Accepts, Takes
  <2>2. currVarIdx' = Freed /\ constants' = constants /\ UNCHANGED <<startOfVars, xfuncs, latest>>
        /\ at' = LineAfter(program, at)
    BY <1>6 DEF Label, Compiled
  <2>3. Outcome("LABEL", at)
    BY <2>1, <2>2 DEF Outcome, Turned, Freed
  <2> QED
    BY <1>1, <1>2, <2>3
<1>7. CASE Const
  <2>1. Became("CNST", at)
    BY <1>2, <1>7, ConstBecame
  <2>2. currVarIdx' = Counted /\ constants' = constants \cup {name} /\ UNCHANGED <<startOfVars, xfuncs, latest>>
        /\ at' = LineAfter(program, at)
    BY <1>7 DEF Const, Compiled
  <2>3. Outcome("CNST", at)
    BY <2>1, <2>2 DEF Outcome, Turned
  <2> QED
    BY <1>1, <1>2, <2>3
<1> QED
  BY <1>3, <1>4, <1>5, <1>6, <1>7 DEF ReadsLine

\* What the table is then.
LEMMA TableAfter == ASSUME SymbolsTyped, LineRead, NEW t, NEW v, Outcome(t, v)
                    PROVE /\ table' \in Seq(Entries) /\ Unique(table') /\ Len(table') <= MaxSym
                          /\ Len(table) \in Nat /\ Len(table') \in Nat
                          /\ DOMAIN table = 1 .. Len(table) /\ DOMAIN table' = 1 .. Len(table')
                          /\ here \in DOMAIN table' /\ table'[here] = Symbol(name, t, v)
                          /\ table'[here].name = name /\ table'[here].type = t /\ table'[here].value = v
                          /\ \A k \in DOMAIN table : /\ k \in DOMAIN table' /\ table'[k].name = table[k].name
                                                     /\ k # here => table'[k] = table[k]
                          /\ here \in DOMAIN table => Len(table') = Len(table) /\ table[here].name = name
                          /\ here \notin DOMAIN table => /\ Len(table') = Len(table) + 1 /\ here = Len(table) + 1
                                                         /\ Absent(table, name)
<1>1. Named(table, table', name, here) /\ table'[here].type = t /\ table'[here].value = v
  BY DEF Outcome, Became
<1>2. table \in Seq(Entries) /\ Len(table) <= MaxSym
  BY DEF SymbolsTyped
<1>3. table' \in Seq(Entries) /\ here \in DOMAIN table' /\ table'[here].name = name
  BY <1>1 DEF Named
<1>4. table'[here] = Symbol(name, t, v)
  <2>1. PICK e \in Entries : e = table'[here]
    BY <1>3
  <2>2. e = [name |-> e.name, type |-> e.type, value |-> e.value]
    BY DEF Entries
  <2> QED
    BY <1>1, <1>3, <2>1, <2>2 DEF Symbol
<1>5. Len(table') <= MaxSym
  <2>1. CASE here \in DOMAIN table
    BY <1>1, <1>2, <2>1 DEF Named
  <2>2. CASE here \notin DOMAIN table
    <3>1. Len(Met) <= MaxSym /\ Len(Met) = Len(table) + 1
      BY <2>2 DEF LineRead, Named
    <3>2. Len(table') = Len(table) + 1
      BY <1>1, <2>2 DEF Named
    <3> QED
      BY <3>1, <3>2
  <2> QED
    BY <2>1, <2>2
<1>6. Len(table) \in Nat /\ Len(table') \in Nat /\ DOMAIN table = 1 .. Len(table) /\ DOMAIN table' = 1 .. Len(table')
  BY <1>2, <1>3
<1>7. here \in DOMAIN table => table[here].name = name
  BY <1>1 DEF Named
<1> QED
  BY <1>1, <1>3, <1>4, <1>5, <1>6, <1>7 DEF Named

-----------------------------------------------------------------------------
\* A line keeps the table apart: below StartOfVars the language, behind it the program.

\* The type of the name that is read.
LEMMA TypeRead == ASSUME LineRead
                  PROVE /\ here \in DOMAIN table => Met[here].type = table[here].type
                        /\ here \notin DOMAIN table => Met[here].type \in {"ID", "SID"}
  BY DEF LineRead, Kept

\* Keywords, functions and names of the program stay what they are.
LEMMA LineApart == ASSUME SymbolsTyped, Apart, KeywordsKept, FunctionsKept, LineRead, NEW t, NEW v, Outcome(t, v)
                   PROVE Apart'
<1>1. startOfVars' = startOfVars /\ constants \subseteq constants' /\ Language' = Language /\ startOfVars \in Nat
      /\ startOfVars <= Len(table)
  BY DEF Outcome, Language, SymbolsTyped
<1>2. SUFFICES ASSUME NEW i \in DOMAIN table'
               PROVE IF i <= startOfVars THEN InLanguage(table'[i], Language, constants') ELSE OfProgram(table'[i], Language)
  BY <1>1 DEF Apart
<1>3. CASE i # here
  <2>1. i \in DOMAIN table /\ table'[i] = table[i]
    BY <1>2, <1>3, TableAfter
  <2>2. IF i <= startOfVars THEN InLanguage(table[i], Language, constants) ELSE OfProgram(table[i], Language)
    BY <2>1 DEF Apart
  <2> QED
    BY <1>1, <2>1, <2>2 DEF InLanguage, OfProgram
<1>4. CASE i = here /\ here \in DOMAIN table
  <2>1. PICK e : e = table[here] /\ e.name = name /\ Met[here].type = e.type
    BY <1>4, TableAfter, TypeRead
  <2>2. IF i <= startOfVars THEN InLanguage(e, Language, constants) ELSE OfProgram(e, Language)
    BY <1>4, <2>1 DEF Apart
  <2>3. table'[i].name = name /\ table'[i].type = t
    BY <1>4, TableAfter DEF Symbol
  <2>4. Turned(t)
    BY DEF Outcome
  <2>5. CASE i <= startOfVars
    <3>1. InLanguage(e, Language, constants)
      BY <2>2, <2>5
    <3>2. name \in Language /\ (t \in {"KEYWORD", "XFUNC"} \/ (t = "CNST" /\ name \in constants'))
      BY <1>1, <2>1, <2>4, <3>1 DEF InLanguage, Turned
    <3> QED
      BY <1>1, <2>3, <2>5, <3>2 DEF InLanguage
  <2>6. CASE ~(i <= startOfVars)
    <3>1. OfProgram(e, Language)
      BY <2>2, <2>6
    <3>2. name \notin Language /\ t \notin {"KEYWORD", "XFUNC"}
      BY <2>1, <2>4, <3>1 DEF OfProgram, Turned
    <3> QED
      BY <1>1, <2>3, <2>6, <3>2 DEF OfProgram
  <2> QED
    BY <2>5, <2>6
<1>5. CASE i = here /\ here \notin DOMAIN table
  <2>1. i = Len(table) + 1 /\ Len(table) \in Nat /\ Absent(table, name) /\ Met[here].type \in {"ID", "SID"}
    BY <1>5, TableAfter, TypeRead
  <2>2. ~(i <= startOfVars)
    BY <1>1, <2>1
  <2>3. table'[i].name = name /\ table'[i].type = t
    BY <1>5, TableAfter DEF Symbol
  <2>4. t \notin {"KEYWORD", "XFUNC"}
    BY <2>1 DEF Outcome, Turned
  <2>5. name \notin Language
    BY <2>1 DEF Absent, Language, Range, KeywordsKept, FunctionsKept
  <2> QED
    BY <1>1, <2>2, <2>3, <2>4, <2>5 DEF OfProgram
<1> QED
  BY <1>3, <1>4, <1>5

\* Keywords stay keywords but for CONST.
LEMMA LineKeepsKeywords == ASSUME SymbolsTyped, KeywordsKept, LineRead, NEW t, NEW v, Outcome(t, v)
                           PROVE KeywordsKept'
<1>1. startOfVars' = startOfVars /\ constants \subseteq constants' /\ Turned(t)
  BY DEF Outcome
<1>2. SUFFICES ASSUME NEW k \in DOMAIN Keywords
               PROVE /\ k \in DOMAIN table' /\ k <= startOfVars /\ table'[k].name = Keywords[k]
                     /\ table'[k].type = "KEYWORD" \/ Keywords[k] \in constants'
  BY <1>1 DEF KeywordsKept
<1>3. /\ k \in DOMAIN table /\ k <= startOfVars /\ table[k].name = Keywords[k]
      /\ table[k].type = "KEYWORD" \/ Keywords[k] \in constants
  BY DEF KeywordsKept
<1>4. k \in DOMAIN table' /\ table'[k].name = Keywords[k]
  BY <1>3, TableAfter
<1>5. CASE k # here
  BY <1>1, <1>3, <1>4, <1>5, TableAfter
<1>6. CASE k = here
  <2>1. Met[here].type = table[k].type /\ name = Keywords[k]
    BY <1>3, <1>6, TypeRead, TableAfter
  <2>2. table'[k].type = t
    BY <1>6, TableAfter
  <2>3. t = "KEYWORD" \/ Keywords[k] \in constants'
    BY <1>1, <1>3, <2>1 DEF Turned
  <2> QED
    BY <1>3, <1>4, <2>2, <2>3
<1> QED
  BY <1>5, <1>6

\* Functions keep their places.
LEMMA LineKeepsFunctions == ASSUME SymbolsTyped, FunctionsKept, LineRead, NEW t, NEW v, Outcome(t, v)
                            PROVE FunctionsKept'
<1>1. startOfVars' = startOfVars /\ xfuncs' = xfuncs
  BY DEF Outcome
<1>2. \A k \in DOMAIN table : k \in DOMAIN table' /\ table'[k].name = table[k].name
  BY TableAfter
<1> QED
  BY <1>1, <1>2 DEF FunctionsKept

\* And their numbers.
LEMMA LineKeepsNumbers == ASSUME SymbolsTyped, Numbered, LineRead, NEW t, NEW v, Outcome(t, v)
                          PROVE Numbered'
<1>1. xfuncs' = xfuncs /\ Turned(t) /\ (t \notin {"LABEL", "CNST"} => v = Met[here].value)
  BY DEF Outcome
<1>2. SUFFICES ASSUME NEW i \in DOMAIN table', table'[i].type = "XFUNC"
               PROVE table'[i].value + 1 \in DOMAIN xfuncs /\ xfuncs[table'[i].value + 1] = table'[i].name
  BY <1>1 DEF Numbered
<1>3. CASE i # here
  <2>1. i \in DOMAIN table /\ table'[i] = table[i]
    BY <1>3, TableAfter
  <2> QED
    BY <1>2, <2>1 DEF Numbered
<1>4. CASE i = here
  <2>1. t = "XFUNC" /\ table'[i] = Symbol(name, t, v)
    BY <1>2, <1>4, TableAfter DEF Symbol
  <2>2. Met[here].type = "XFUNC" /\ v = Met[here].value
    BY <1>1, <2>1 DEF Turned
  <2>3. here \in DOMAIN table /\ Met[here] = table[here]
    BY <2>2 DEF LineRead, Kept
  <2>4. table[here].name = name
    BY <2>3, TableAfter
  <2> QED
    BY <2>1, <2>2, <2>3, <2>4 DEF Numbered, Symbol
<1> QED
  BY <1>3, <1>4

\* A number that is given back was counted.
LEMMA LineCounts == ASSUME SymbolsTyped, Apart, Counting, at > 0, LineRead, NEW t, NEW v, Outcome(t, v)
                    PROVE /\ Cardinality(Places') <= currVarIdx' /\ currVarIdx' <= Len(table') - startOfVars
                          /\ currVarIdx' \in Nat
<1>1. startOfVars' = startOfVars /\ Turned(t) /\ startOfVars \in Nat /\ startOfVars <= Len(table) /\ currVarIdx \in Nat
      /\ currVarIdx' = IF t = "LABEL" /\ Met[here].type = "ID" THEN Counted - 1 ELSE Counted
  BY DEF Outcome, SymbolsTyped
<1>2. Places \subseteq DOMAIN table /\ Places' \subseteq DOMAIN table'
  BY DEF Places
<1>3. IsFiniteSet(Places) /\ IsFiniteSet(Places') /\ Cardinality(Places) \in Nat /\ Cardinality(Places') \in Nat
  <2>1. IsFiniteSet(DOMAIN table) /\ IsFiniteSet(DOMAIN table')
    BY TableAfter, FS_Interval
  <2> QED
    BY <1>2, <2>1, FS_Subset, FS_CardinalityType
<1>4. Cardinality(Places) <= currVarIdx /\ currVarIdx <= Len(table) - startOfVars
  BY DEF Counting
<1>5. \A i \in DOMAIN table : i # here => (i \in Places' <=> i \in Places)
  BY <1>1, TableAfter DEF Places
<1>6. CASE here \in DOMAIN table
  <2>1. Met[here].type = table[here].type /\ Counted = currVarIdx /\ Len(table') = Len(table) /\ DOMAIN table' = DOMAIN table
    BY <1>6, TypeRead, TableAfter DEF LineRead
  <2>2. table'[here].type = t
    BY TableAfter
  <2>3. here \in Places' => here \in Places
    <3>1. t \in {"ID", "SID", "ARR"} => table[here].type \in {"ID", "SID", "ARR"}
      BY <1>1, <2>1 DEF Turned
    <3> QED
      BY <1>1, <1>6, <2>2, <3>1 DEF Places
  <2>4. Places' \subseteq Places
    BY <1>2, <1>5, <2>1, <2>3
  <2>5. CASE t = "LABEL" /\ Met[here].type = "ID"
    <3>1. ~(here <= startOfVars)
      BY <1>6, <2>1, <2>5 DEF Apart, InLanguage
    <3>2. here \in Places /\ here \notin Places'
      <4>1. here \in Int /\ here > startOfVars
        BY <1>1, <1>6, <3>1, TableAfter
      <4>2. here \in Places
        BY <1>6, <2>1, <2>5, <4>1 DEF Places
      <4>3. table'[here].type = "LABEL"
        BY <2>2, <2>5
      <4> QED
        BY <4>2, <4>3 DEF Places
    <3>3. Places' \subseteq Places \ {here}
      BY <2>4, <3>2
    <3>4. Cardinality(Places \ {here}) = Cardinality(Places) - 1 /\ IsFiniteSet(Places \ {here})
      BY <1>3, <3>2, FS_RemoveElement
    <3>5. Cardinality(Places') <= Cardinality(Places \ {here})
      BY <3>3, <3>4, FS_Subset
    <3> QED
      BY <1>1, <1>3, <1>4, <2>1, <2>5, <3>4, <3>5
  <2>6. CASE ~(t = "LABEL" /\ Met[here].type = "ID")
    <3>1. Cardinality(Places') <= Cardinality(Places)
      BY <1>3, <2>4, FS_Subset
    <3> QED
      BY <1>1, <1>3, <1>4, <2>1, <2>6, <3>1
  <2> QED
    BY <2>5, <2>6
<1>7. CASE here \notin DOMAIN table
  <2>1. Counted = currVarIdx + 1 /\ Len(table') = Len(table) + 1 /\ here = Len(table) + 1 /\ Len(table) \in Nat
        /\ DOMAIN table = 1 .. Len(table) /\ DOMAIN table' = 1 .. Len(table')
    BY <1>7, TableAfter DEF LineRead
  <2>2. Places' \subseteq Places \cup {here}
    BY <1>2, <1>5, <2>1
  <2>3. CASE t = "LABEL" /\ Met[here].type = "ID"
    <3>1. table'[here].type = t
      BY TableAfter
    <3>2. here \notin Places'
      BY <2>3, <3>1 DEF Places
    <3>3. Places' \subseteq Places
      BY <2>2, <3>2
    <3>4. Cardinality(Places') <= Cardinality(Places)
      BY <1>3, <3>3, FS_Subset
    <3> QED
      BY <1>1, <1>3, <1>4, <2>1, <2>3, <3>4
  <2>4. CASE ~(t = "LABEL" /\ Met[here].type = "ID")
    <3>1. IsFiniteSet(Places \cup {here}) /\ Cardinality(Places \cup {here}) <= Cardinality(Places) + 1
          /\ Cardinality(Places \cup {here}) \in Nat
      <4>1. IsFiniteSet(Places \cup {here})
            /\ Cardinality(Places \cup {here}) = IF here \in Places THEN Cardinality(Places) ELSE Cardinality(Places) + 1
        BY <1>3, FS_AddElement
      <4> QED
        BY <1>3, <4>1
    <3>2. Cardinality(Places') <= Cardinality(Places \cup {here})
      BY <2>2, <3>1, FS_Subset
    <3> QED
      BY <1>1, <1>3, <1>4, <2>1, <2>4, <3>1, <3>2
  <2> QED
    BY <2>3, <2>4
<1> QED
  BY <1>6, <1>7

-----------------------------------------------------------------------------
\* What a line leaves in the code of its machine.
CallAdded(c) == \/ c.calls = code[latest].calls
                \/ LineRead /\ Met[here].type = "XFUNC" /\ c.calls = code[latest].calls \cup {<<name, Met[here].value>>}

\* The code is of its type, and a call is one of the functions in the table.
LEMMA LineCode == ASSUME SymbolsTyped, CodeTyped, CompileLine
                  PROVE /\ at > 0
                        /\ \E c \in Codes : Compiled(c) /\ c.program = program /\ CallAdded(c)
<1>1. at > 0
  BY DEF CompileLine, NotRead, Mismatch, Variable, ConstantValue, Dim, Goto, Label, Const, Call, Accepts, Reads
<1>2. PICK o \in Codes : o = code[latest]
  BY <1>1, LineTyped DEF CodeTyped
<1>3. o.program = program /\ name \in Keys /\ at \in Nat
  BY <1>1, <1>2, LineTyped DEF program, CodeTyped
<1>4. CASE NotRead \/ Mismatch
  <2> DEFINE c == [o EXCEPT !.errors = @ + 1]
  <2>1. c \in Codes /\ c.program = o.program /\ c.calls = o.calls
    BY DEF Codes
  <2>2. Compiled(c)
    BY <1>2, <1>4 DEF NotRead, Mismatch, Failed
  <2> HIDE DEF c
  <2> QED
    BY <1>1, <1>2, <1>3, <2>1, <2>2 DEF CallAdded
<1>5. CASE ReadsLine /\ ~Mismatch
  <2>1. LineRead
    BY <1>5, LineOutcome
  <2>2. PICK e \in Entries : e = Met[here]
    BY <2>1 DEF LineRead, Named
  <2>3. PICK x \in Keys \X Nat : x = <<name, Met[here].value>>
    <3>1. e.value \in Nat
      BY DEF Entries
    <3> QED
      BY <1>3, <2>2, <3>1
  <2>4. CASE Variable \/ Dim
    <3> DEFINE c == [o EXCEPT !.vars = @ \cup {x}]
    <3>1. c \in Codes /\ c.program = o.program /\ c.calls = o.calls
      BY <2>3 DEF Codes
    <3>2. Compiled(c)
      BY <1>2, <2>3, <2>4 DEF Variable, Dim, WithVariable
    <3> HIDE DEF c
    <3> QED
      BY <1>1, <1>2, <1>3, <3>1, <3>2 DEF CallAdded
  <2>5. CASE ConstantValue \/ Goto \/ Const
    <3>1. Compiled(o)
      BY <1>2, <2>5 DEF ConstantValue, Goto, Const
    <3> QED
      BY <1>1, <1>2, <1>3, <3>1 DEF CallAdded
  <2>6. CASE Label
    <3> DEFINE kept == {y \in o.labels : y[1] # name} \cup {<<name, at>>}
               c == [o EXCEPT !.labels = kept]
    <3>1. kept \in SUBSET (Keys \X Nat)
      BY <1>3 DEF Codes
    <3>2. c \in Codes /\ c.program = o.program /\ c.calls = o.calls
      <4> HIDE DEF kept
      <4> QED
        BY <3>1 DEF Codes
    <3>3. Compiled(c)
      BY <1>2, <2>6 DEF Label
    <3> HIDE DEF c
    <3> QED
      BY <1>1, <1>2, <1>3, <3>2, <3>3 DEF CallAdded
  <2>7. CASE Call
    <3> DEFINE c == [o EXCEPT !.calls = @ \cup {x}]
    <3>1. c \in Codes /\ c.program = o.program /\ c.calls = o.calls \cup {x}
      BY <2>3 DEF Codes
    <3>2. Compiled(c)
      BY <1>2, <2>3, <2>7 DEF Call
    <3>3. Met[here].type = "XFUNC"
      BY <2>7 DEF Call, Accepts, Takes
    <3> HIDE DEF c
    <3> QED
      BY <1>1, <1>2, <1>3, <2>1, <2>3, <3>1, <3>2, <3>3 DEF CallAdded
  <2> QED
    BY <1>5, <2>4, <2>5, <2>6, <2>7 DEF ReadsLine
<1> QED
  BY <1>4, <1>5 DEF CompileLine, ReadsLine

\* Where the compilation goes on.
LEMMA LinePosition == ASSUME CodeTyped, at > 0, NEW c \in Codes, Compiled(c), c.program = program
                      PROVE /\ CodeTyped' /\ program' = program /\ latest' = latest
                            /\ at' = LineAfter(program, at) /\ code'[latest] = c
                            /\ \A m \in Machines : m # latest => code'[m] = code[m]
<1>1. latest \in Machines /\ code \in [Machines -> Codes] /\ at \in DOMAIN program /\ program \in Seq(Lines)
  BY LineTyped DEF CodeTyped
<1>2. code' = [code EXCEPT ![latest] = c] /\ at' = LineAfter(program, at) /\ latest' = latest
  BY DEF Compiled
<1>3. code' \in [Machines -> Codes] /\ code'[latest] = c /\ \A m \in Machines : m # latest => code'[m] = code[m]
  BY <1>1, <1>2
<1>4. program' = program
  BY <1>2, <1>3 DEF program
<1>5. at' \in Nat /\ (at' # 0 => at' \in DOMAIN program)
  BY <1>1, <1>2 DEF LineAfter
<1> QED
  BY <1>1, <1>2, <1>3, <1>4, <1>5 DEF CodeTyped

\* Calls are calls of what the host registered under that number.
LEMMA LineCalls == ASSUME SymbolsTyped, CodeTyped, Numbered, CallsReachFunctions, CompileLine
                   PROVE CallsReachFunctions'
<1>1. at > 0
  BY LineCode
<1>2. PICK c \in Codes : Compiled(c) /\ c.program = program /\ CallAdded(c)
  BY LineCode
<1>3. code'[latest] = c /\ \A m \in Machines : m # latest => code'[m] = code[m]
  BY <1>1, <1>2, LinePosition
<1>4. xfuncs' = xfuncs /\ latest \in Machines
  BY <1>1, <1>2, LineTyped DEF Compiled
<1>5. ASSUME NEW x \in c.calls PROVE x[2] + 1 \in DOMAIN xfuncs /\ xfuncs[x[2] + 1] = x[1]
  <2>1. CASE x \in code[latest].calls
    BY <1>4, <2>1 DEF CallsReachFunctions
  <2>2. CASE x \notin code[latest].calls
    <3>1. LineRead /\ Met[here].type = "XFUNC" /\ x = <<name, Met[here].value>>
      BY <1>2, <1>5, <2>2 DEF CallAdded
    <3>2. here \in DOMAIN table /\ Met[here] = table[here]
      BY <3>1 DEF LineRead, Kept
    <3>3. table[here].name = name
      BY <3>1, <3>2 DEF LineRead, Named
    <3> QED
      BY <3>1, <3>2, <3>3 DEF Numbered
  <2> QED
    BY <2>1, <2>2
<1> QED
  BY <1>3, <1>4, <1>5 DEF CallsReachFunctions

\* Together: a line keeps the invariant.
LEMMA LineKeepsInv == ASSUME Inv, CompileLine PROVE Inv'
<1>1. at > 0
  BY LineCode DEF Inv
<1>2. PICK c \in Codes : Compiled(c) /\ c.program = program /\ CallAdded(c)
  BY LineCode DEF Inv
<1>3. CodeTyped' /\ latest' = latest /\ startOfVars' = startOfVars /\ xfuncs' = xfuncs
  BY <1>1, <1>2, LinePosition DEF Inv, Compiled
<1>4. latest # NoMachine /\ name \in Keys
  BY <1>1, LineTyped, MachinesAssumption DEF Inv
<1>5. OnlyLanguage'
  BY <1>3, <1>4 DEF OnlyLanguage
<1>6. CallsReachFunctions'
  BY LineCalls DEF Inv
<1>7. CASE NotRead
  <2>1. table' = table /\ currVarIdx' = currVarIdx /\ constants' = constants
    BY <1>7 DEF NotRead
  <2>2. Places' = Places
    BY <1>3, <2>1 DEF Places
  <2>3. SymbolsTyped' /\ HostTyped' /\ Apart' /\ KeywordsKept' /\ FunctionsKept' /\ Numbered'
    BY <1>3, <2>1 DEF Inv, SymbolsTyped, HostTyped, Apart, Language, KeywordsKept, FunctionsKept, Numbered
  <2>4. Counting'
    BY <1>1, <1>3, <2>1, <2>2 DEF Inv, Counting
  <2> QED
    BY <1>3, <1>5, <1>6, <2>3, <2>4 DEF Inv
<1>8. CASE ReadsLine
  <2>1. LineRead
    BY <1>8, LineOutcome DEF Inv
  <2>2. PICK t, v : Outcome(t, v)
    BY <1>8, LineOutcome DEF Inv
  <2>3. Apart' /\ KeywordsKept' /\ FunctionsKept' /\ Numbered'
    BY <2>1, <2>2, LineApart, LineKeepsKeywords, LineKeepsFunctions, LineKeepsNumbers DEF Inv
  <2>4. Cardinality(Places') <= currVarIdx' /\ currVarIdx' <= Len(table') - startOfVars /\ currVarIdx' \in Nat
    BY <1>1, <2>1, <2>2, LineCounts DEF Inv
  <2>5. table' \in Seq(Entries) /\ Unique(table') /\ Len(table') <= MaxSym /\ Len(table') \in Nat
        /\ Len(table) \in Nat /\ Len(table) <= Len(table')
    BY <2>1, <2>2, TableAfter DEF Inv
  <2>6. SymbolsTyped'
    BY <1>3, <2>4, <2>5 DEF Inv, SymbolsTyped
  <2>7. HostTyped'
    BY <1>3, <1>4, <2>2 DEF Inv, HostTyped, Outcome
  <2>8. Counting'
    BY <1>3, <2>4 DEF Counting
  <2> QED
    BY <1>3, <1>5, <1>6, <2>3, <2>6, <2>7, <2>8 DEF Inv
<1> QED
  BY <1>7, <1>8 DEF CompileLine, ReadsLine

-----------------------------------------------------------------------------
\* Before anything is compiled.

\* nb_init: the keywords.
LEMMA InitHolds == ASSUME Init PROVE Inv
<1>1. Keywords \in Seq(Keys) /\ Len(Keywords) \in Nat /\ Len(Keywords) <= MaxSym /\ DOMAIN Keywords = 1 .. Len(Keywords)
  BY RegistryAssumption, NamesAssumption
<1>2. /\ table \in Seq(Entries) /\ Len(table) = Len(Keywords) /\ DOMAIN table = DOMAIN Keywords
      /\ \A k \in DOMAIN Keywords : table[k] = Symbol(Keywords[k], "KEYWORD", 0)
  <2>1. table = [k \in 1 .. Len(Keywords) |-> Symbol(Keywords[k], "KEYWORD", 0)]
    BY DEF Init, Loaded
  <2>2. ASSUME NEW k \in 1 .. Len(Keywords) PROVE Symbol(Keywords[k], "KEYWORD", 0) \in Entries
    BY <1>1, <2>2 DEF Symbol, Entries, Types
  <2> QED
    BY <1>1, <2>1, <2>2
<1>3. \A k \in DOMAIN Keywords : table[k].name = Keywords[k] /\ table[k].type = "KEYWORD"
  BY <1>2 DEF Symbol
<1>4. Unique(table)
  BY <1>2, <1>3, NamesAssumption DEF Unique
<1>5. /\ xfuncs = <<>> /\ constants = {} /\ latest = NoMachine /\ at = 0 /\ code = [m \in Machines |-> NoCode]
      /\ startOfVars = Len(table) /\ currVarIdx = Len(table)
  <2>1. startOfVars = Len(Loaded) /\ currVarIdx = Len(Loaded) /\ table = Loaded
    BY DEF Init
  <2> QED
    BY <2>1 DEF Init
<1>6. SymbolsTyped /\ HostTyped
  BY <1>1, <1>2, <1>4, <1>5, RegistryAssumption DEF SymbolsTyped, HostTyped
<1>7. NoCode \in Codes
  BY DEF NoCode, Codes
<1>8. CodeTyped
  BY <1>5, <1>7 DEF CodeTyped
<1>9. OnlyLanguage
  BY <1>1, <1>2, <1>5 DEF OnlyLanguage
<1>10. KeywordsKept /\ FunctionsKept
  BY <1>1, <1>2, <1>3, <1>5 DEF KeywordsKept, FunctionsKept
<1>11. Apart
  <2>1. ASSUME NEW i \in DOMAIN table PROVE i <= startOfVars /\ InLanguage(table[i], Language, constants)
    <3>1. table[i].name \in Language
      BY <1>2, <1>3 DEF Language, Range
    <3>2. i <= startOfVars
      <4>1. i \in 1 .. Len(Keywords) /\ startOfVars = Len(Keywords)
        BY <1>1, <1>2, <1>5
      <4> QED
        BY <4>1
    <3>3. table[i].type = "KEYWORD"
      BY <1>2, <1>3
    <3> QED
      BY <3>1, <3>2, <3>3 DEF InLanguage
  <2> QED
    BY <2>1 DEF Apart
<1>12. Numbered
  BY <1>2, <1>3 DEF Numbered
<1>13. Counting
  BY <1>5 DEF Counting
<1>14. CallsReachFunctions
  BY <1>5 DEF CallsReachFunctions, NoCode
<1> QED
  BY <1>6, <1>8, <1>9, <1>10, <1>11, <1>12, <1>13, <1>14 DEF Inv

\* What nb_define_external_function leaves: the function is in the table, as such
\* if it was not there, and everything before it is where it was.
LEMMA FunctionAdded == ASSUME ~RegisterLate, Inv, NEW f \in XNames, Define(f)
                       PROVE \E i : /\ Named(table, table', Key[f], i)
                                    /\ \A k \in DOMAIN table : table'[k].type = table[k].type
                                    /\ \A k \in DOMAIN table : table[k].type # "LABEL" => table'[k] = table[k]
                                    /\ i \notin DOMAIN table => table'[i] = Symbol(Key[f], "XFUNC", Len(xfuncs))
                                    /\ startOfVars' = Len(table') /\ currVarIdx' = Len(table')
                                    /\ latest = NoMachine /\ at = 0 /\ Key[f] \in Keys
                                    /\ xfuncs' = Append(xfuncs, Key[f]) /\ Len(xfuncs) < MaxXFuncs
<1>1. Key[f] \in Keys
  BY NamesAssumption DEF Keys, Names
<1>2. "XFUNC" \in Types /\ Len(xfuncs) \in Nat /\ table \in Seq(Entries) /\ Unique(table)
  BY DEF Types, Inv, HostTyped, SymbolsTyped
<1>3. PICK new : new = SymAdd(table, Key[f], Len(xfuncs), "XFUNC")
  OBVIOUS
<1>4. table' = new
  BY <1>3 DEF Define, Number
<1>5. PICK i : i = Find(new, Key[f])
  OBVIOUS
<1>6. /\ Named(table, new, Key[f], i)
      /\ i \in DOMAIN table => Kept(new[i], table[i]) /\ Find(table, Key[f]) = i
      /\ i \notin DOMAIN table => New(new[i], Key[f], Len(xfuncs), "XFUNC") /\ Find(table, Key[f]) = 0
  BY <1>1, <1>2, <1>3, <1>5, Added
<1>7. latest = NoMachine /\ at = 0 /\ Len(xfuncs) < MaxXFuncs /\ xfuncs' = Append(xfuncs, Key[f])
      /\ currVarIdx' = NumberAfter(table, Key[f], currVarIdx) /\ startOfVars' = currVarIdx'
  BY DEF Define, Bound
<1>8. currVarIdx = Len(table) /\ Len(table) \in Nat
  BY <1>2, <1>7 DEF Inv, OnlyLanguage
<1>9. currVarIdx' = Len(new)
  <2>1. CASE i \in DOMAIN table
    <3>1. Find(table, Key[f]) # 0 /\ Len(new) = Len(table)
      BY <1>2, <1>6, <2>1 DEF Named
    <3> QED
      BY <1>7, <1>8, <3>1 DEF NumberAfter
  <2>2. CASE i \notin DOMAIN table
    <3>1. Find(table, Key[f]) = 0 /\ Len(new) = Len(table) + 1
      BY <1>6, <2>2 DEF Named
    <3> QED
      BY <1>7, <1>8, <3>1 DEF NumberAfter
  <2> QED
    BY <2>1, <2>2
<1>10. \A k \in DOMAIN table : new[k].type = table[k].type /\ (table[k].type # "LABEL" => new[k] = table[k])
  BY <1>6 DEF Named, Kept
<1>11. i \notin DOMAIN table => new[i] = Symbol(Key[f], "XFUNC", Len(xfuncs))
  BY <1>6 DEF New
<1> QED
  BY <1>1, <1>4, <1>6, <1>7, <1>9, <1>10, <1>11

\* A function that is registered before the first compilation is one of the language.
LEMMA DefineKeepsInv == ASSUME ~RegisterLate, Inv, NEW f \in XNames, Define(f) PROVE Inv'
<1>1. PICK i : /\ Named(table, table', Key[f], i)
               /\ \A k \in DOMAIN table : table'[k].type = table[k].type
               /\ \A k \in DOMAIN table : table[k].type # "LABEL" => table'[k] = table[k]
               /\ i \notin DOMAIN table => table'[i] = Symbol(Key[f], "XFUNC", Len(xfuncs))
               /\ startOfVars' = Len(table') /\ currVarIdx' = Len(table')
               /\ latest = NoMachine /\ at = 0 /\ Key[f] \in Keys
               /\ xfuncs' = Append(xfuncs, Key[f]) /\ Len(xfuncs) < MaxXFuncs
  BY FunctionAdded
<1>2. /\ table \in Seq(Entries) /\ Len(table) \in Nat /\ DOMAIN table = 1 .. Len(table) /\ startOfVars = Len(table)
      /\ Len(table) <= Len(Keywords) + Len(xfuncs)
      /\ xfuncs \in Seq(Keys) /\ Len(xfuncs) \in Nat /\ DOMAIN xfuncs = 1 .. Len(xfuncs) /\ MaxXFuncs \in Nat
  BY <1>1, RegistryAssumption DEF Inv, SymbolsTyped, OnlyLanguage, HostTyped
<1>3. /\ xfuncs' \in Seq(Keys) /\ Len(xfuncs') = Len(xfuncs) + 1 /\ DOMAIN xfuncs' = 1 .. Len(xfuncs) + 1
      /\ xfuncs'[Len(xfuncs) + 1] = Key[f] /\ \A k \in DOMAIN xfuncs : k \in DOMAIN xfuncs' /\ xfuncs'[k] = xfuncs[k]
  BY <1>1, <1>2
<1>4. /\ table' \in Seq(Entries) /\ Unique(table') /\ Len(table') \in Nat /\ DOMAIN table' = 1 .. Len(table')
      /\ i \in DOMAIN table' /\ table'[i].name = Key[f]
      /\ \A k \in DOMAIN table : k \in DOMAIN table' /\ table'[k].name = table[k].name
      /\ \A k \in DOMAIN table' : k # i => k \in DOMAIN table
      /\ i \notin DOMAIN table => i = Len(table) + 1 /\ Len(table') = Len(table) + 1
      /\ i \in DOMAIN table => Len(table') = Len(table)
  <2>1. table' \in Seq(Entries) /\ Unique(table') /\ i \in DOMAIN table' /\ table'[i].name = Key[f]
    BY <1>1 DEF Named
  <2>2. Len(table') \in Nat /\ DOMAIN table' = 1 .. Len(table')
    BY <2>1
  <2>3. /\ i \notin DOMAIN table => i = Len(table) + 1 /\ Len(table') = Len(table) + 1
        /\ i \in DOMAIN table => Len(table') = Len(table)
    BY <1>1 DEF Named
  <2>4. \A k \in DOMAIN table : k \in DOMAIN table' /\ table'[k].name = table[k].name
    BY <1>1 DEF Named
  <2>5. \A k \in DOMAIN table' : k # i => k \in DOMAIN table
    <3>1. SUFFICES ASSUME NEW k \in 1 .. Len(table'), k # i PROVE k \in 1 .. Len(table)
      BY <1>2, <2>2
    <3>2. PICK n \in Nat : n = Len(table) /\ DOMAIN table = 1 .. n
      BY <1>2
    <3>3. k \in Int /\ k >= 1 /\ k <= Len(table')
      BY <2>2, <3>1
    <3>4. CASE i \in DOMAIN table
      BY <2>3, <3>2, <3>3, <3>4
    <3>5. CASE i \notin DOMAIN table
      <4>1. i = n + 1 /\ k <= n + 1
        BY <2>3, <3>2, <3>3, <3>5
      <4> QED
        BY <3>1, <3>2, <3>3, <4>1
    <3> QED
      BY <3>4, <3>5
  <2> QED
    BY <2>1, <2>2, <2>3, <2>4, <2>5
<1>5. Len(table') <= Len(Keywords) + Len(xfuncs') /\ Len(table') <= MaxSym
  BY <1>1, <1>2, <1>3, <1>4, RegistryAssumption, NamesAssumption
<1>6. UNCHANGED <<code, latest, at, constants>>
  BY DEF Define
<1>7. SymbolsTyped' /\ HostTyped' /\ OnlyLanguage'
  BY <1>1, <1>2, <1>3, <1>4, <1>5, <1>6 DEF SymbolsTyped, HostTyped, OnlyLanguage, Inv
<1>8. CodeTyped'
  BY <1>6 DEF Inv, CodeTyped, program
<1>9. Language \subseteq Language' /\ Key[f] \in Language'
  BY <1>2, <1>3 DEF Language, Range
<1>10. ASSUME NEW k \in DOMAIN table
       PROVE InLanguage(table[k], Language, constants)
  BY <1>2 DEF Inv, Apart
<1>11. Apart'
  <2>1. SUFFICES ASSUME NEW k \in DOMAIN table' PROVE k <= Len(table') /\ InLanguage(table'[k], Language', constants)
    BY <1>1, <1>6 DEF Apart
  <2>2. k <= Len(table')
    <3>1. k \in 1 .. Len(table') /\ Len(table') \in Nat
      BY <1>4
    <3> QED
      BY <3>1
  <2>3. CASE k \in DOMAIN table
    <3>1. table'[k].name = table[k].name /\ table'[k].type = table[k].type
      BY <1>1, <1>4, <2>3
    <3> QED
      BY <1>9, <1>10, <2>2, <2>3, <3>1 DEF InLanguage
  <2>4. CASE k \notin DOMAIN table
    <3>1. k = i /\ table'[k] = Symbol(Key[f], "XFUNC", Len(xfuncs))
      BY <1>1, <1>4, <2>4
    <3>2. table'[k].name = Key[f] /\ table'[k].type = "XFUNC"
      BY <3>1 DEF Symbol
    <3> QED
      BY <1>9, <2>2, <3>2 DEF InLanguage
  <2> QED
    BY <2>3, <2>4
<1>12. KeywordsKept'
  <2>1. SUFFICES ASSUME NEW k \in DOMAIN Keywords
                 PROVE /\ k \in DOMAIN table' /\ k <= Len(table') /\ table'[k].name = Keywords[k]
                       /\ table'[k].type = "KEYWORD" \/ Keywords[k] \in constants
    BY <1>1, <1>6 DEF KeywordsKept
  <2>2. /\ k \in DOMAIN table /\ table[k].name = Keywords[k]
        /\ table[k].type = "KEYWORD" \/ Keywords[k] \in constants
    BY DEF Inv, KeywordsKept
  <2>3. k \in DOMAIN table' /\ table'[k].name = Keywords[k] /\ table'[k].type = table[k].type
    BY <1>1, <1>4, <2>2
  <2>4. k \in 1 .. Len(table') /\ Len(table') \in Nat
    BY <1>4, <2>3
  <2> QED
    BY <2>2, <2>3, <2>4
<1>13. FunctionsKept'
  <2>1. SUFFICES ASSUME NEW k \in DOMAIN xfuncs'
                 PROVE \E j \in DOMAIN table' : table'[j].name = xfuncs'[k]
    <3>1. \A n \in Nat : \A j \in 1 .. n : j <= n
      OBVIOUS
    <3>2. \A j \in DOMAIN table' : j <= startOfVars'
      BY <1>1, <1>4, <3>1
    <3> QED
      BY <3>2 DEF FunctionsKept
  <2>2. CASE k \in DOMAIN xfuncs
    <3>1. PICK j \in DOMAIN table : table[j].name = xfuncs[k]
      BY <2>2 DEF Inv, FunctionsKept
    <3>2. xfuncs'[k] = xfuncs[k] /\ j \in DOMAIN table' /\ table'[j].name = table[j].name
      BY <1>3, <1>4, <2>2, <3>1
    <3> QED
      BY <3>1, <3>2
  <2>3. CASE k \notin DOMAIN xfuncs
    <3>1. k \in 1 .. Len(xfuncs) + 1 /\ k \notin 1 .. Len(xfuncs) /\ Len(xfuncs) \in Nat
      BY <1>2, <1>3, <2>1, <2>3
    <3>2. k = Len(xfuncs) + 1
      BY <3>1
    <3> QED
      BY <1>3, <1>4, <3>2
  <2> QED
    BY <2>2, <2>3
<1>14. Numbered'
  <2>1. SUFFICES ASSUME NEW k \in DOMAIN table', table'[k].type = "XFUNC"
                 PROVE table'[k].value + 1 \in DOMAIN xfuncs' /\ xfuncs'[table'[k].value + 1] = table'[k].name
    BY DEF Numbered
  <2>2. CASE k \in DOMAIN table
    <3>1. table'[k] = table[k] /\ table[k].type = "XFUNC"
      BY <1>1, <2>1, <2>2
    <3>2. table[k].value + 1 \in DOMAIN xfuncs /\ xfuncs[table[k].value + 1] = table[k].name
      BY <2>2, <3>1 DEF Inv, Numbered
    <3> QED
      BY <1>3, <3>1, <3>2
  <2>3. CASE k \notin DOMAIN table
    <3>1. k = i /\ table'[k] = Symbol(Key[f], "XFUNC", Len(xfuncs))
      BY <1>1, <1>4, <2>3
    <3>2. table'[k].value = Len(xfuncs) /\ table'[k].name = Key[f]
      BY <3>1 DEF Symbol
    <3> QED
      BY <1>2, <1>3, <3>2
  <2> QED
    BY <2>2, <2>3
<1>15. Counting'
  BY <1>1, <1>6 DEF Counting
<1>16. CallsReachFunctions'
  <2>1. ASSUME NEW m \in Machines, NEW x \in code[m].calls
        PROVE x[2] + 1 \in DOMAIN xfuncs' /\ xfuncs'[x[2] + 1] = x[1]
    BY <1>3 DEF Inv, CallsReachFunctions
  <2> QED
    BY <1>6, <2>1 DEF CallsReachFunctions
<1> QED
  BY <1>7, <1>8, <1>11, <1>12, <1>13, <1>14, <1>15, <1>16 DEF Inv

-----------------------------------------------------------------------------
\* nb_compile: only the language is left.
LEMMA TableCleared == ASSUME Inv, NEW m \in Machines, NEW p \in Programs, Compile(m, p)
                      PROVE /\ table' \in Seq(Entries) /\ Len(table') = startOfVars /\ DOMAIN table' = 1 .. startOfVars
                            /\ startOfVars \in Nat /\ startOfVars <= Len(table) /\ startOfVars' = startOfVars
                            /\ Len(table) \in Nat /\ DOMAIN table = 1 .. Len(table)
                            /\ \A k \in DOMAIN table' : k \in DOMAIN table /\ k <= startOfVars /\ table'[k] = table[k]
                            /\ \A k \in DOMAIN table : k <= startOfVars => k \in DOMAIN table'
                            /\ currVarIdx' = 0
                            /\ xfuncs' = xfuncs /\ constants' = constants /\ latest' = m /\ at = 0
<1>1. table' = SubSeq(table, 1, startOfVars) /\ currVarIdx' = 0
  BY DEF Compile, Cleared, FirstNumber
<1>2. UNCHANGED <<startOfVars, xfuncs, constants>> /\ latest' = m /\ at = 0
  BY DEF Compile
<1>3. table \in Seq(Entries) /\ Len(table) \in Nat /\ DOMAIN table = 1 .. Len(table)
      /\ startOfVars \in Nat /\ startOfVars <= Len(table)
  BY DEF Inv, SymbolsTyped
<1>4. table' \in Seq(Entries) /\ Len(table') = startOfVars
  BY <1>1, <1>3
<1>5. DOMAIN table' = 1 .. startOfVars
  BY <1>4
<1>6. \A k \in 1 .. startOfVars : table'[k] = table[k]
  BY <1>1, <1>3
<1> QED
  BY <1>1, <1>2, <1>3, <1>4, <1>5, <1>6

\* The code of the machine is new, that of the others what it was.
LEMMA CodeCleared == ASSUME Inv, NEW m \in Machines, NEW p \in Programs, Compile(m, p)
                     PROVE /\ CodeTyped' /\ program' = p /\ code'[m] = [NoCode EXCEPT !.program = p]
                           /\ \A k \in Machines : k # m => code'[k] = code[k]
<1>1. code' = [code EXCEPT ![m] = [NoCode EXCEPT !.program = p]] /\ latest' = m /\ at' = LineAfter(p, 0)
  BY DEF Compile
<1>2. code \in [Machines -> Codes]
  BY DEF Inv, CodeTyped
<1>3. [NoCode EXCEPT !.program = p] \in Codes /\ [NoCode EXCEPT !.program = p].program = p
  BY DEF NoCode, Codes
<1>4. code' \in [Machines -> Codes] /\ code'[m] = [NoCode EXCEPT !.program = p]
      /\ \A k \in Machines : k # m => code'[k] = code[k]
  BY <1>1, <1>2, <1>3
<1>5. program' = p
  BY <1>1, <1>3, <1>4 DEF program
<1>6. p \in Seq(Lines)
  BY NamesAssumption DEF Lines
<1>7. at' \in Nat /\ (at' # 0 => at' \in DOMAIN p)
  BY <1>1, <1>6 DEF LineAfter
<1> QED
  BY <1>1, <1>4, <1>5, <1>7 DEF CodeTyped

\* A compilation starts with the language as it is.
LEMMA CompileKeepsInv == ASSUME Inv, NEW m \in Machines, NEW p \in Programs, Compile(m, p) PROVE Inv'
<1>1. /\ table' \in Seq(Entries) /\ Len(table') = startOfVars /\ DOMAIN table' = 1 .. startOfVars
      /\ startOfVars \in Nat /\ startOfVars <= Len(table) /\ startOfVars' = startOfVars
      /\ Len(table) \in Nat /\ DOMAIN table = 1 .. Len(table)
      /\ \A k \in DOMAIN table' : k \in DOMAIN table /\ k <= startOfVars /\ table'[k] = table[k]
      /\ \A k \in DOMAIN table : k <= startOfVars => k \in DOMAIN table'
      /\ currVarIdx' = 0
      /\ xfuncs' = xfuncs /\ constants' = constants /\ latest' = m /\ at = 0
  BY TableCleared
<1>2. SymbolsTyped'
  <2>1. Unique(table')
    BY <1>1 DEF Inv, SymbolsTyped, Unique
  <2>2. Len(table') <= MaxSym
    BY <1>1, RegistryAssumption DEF Inv, SymbolsTyped
  <2> QED
    BY <1>1, <2>1, <2>2 DEF SymbolsTyped
<1>3. HostTyped' /\ OnlyLanguage'
  BY <1>1, MachinesAssumption DEF Inv, HostTyped, OnlyLanguage
<1>4. CodeTyped' /\ code'[m] = [NoCode EXCEPT !.program = p] /\ \A k \in Machines : k # m => code'[k] = code[k]
  BY CodeCleared
<1>5. Apart' /\ KeywordsKept'
  <2>1. Language' = Language
    BY <1>1 DEF Language
  <2>2. Apart'
    BY <1>1, <2>1 DEF Inv, Apart
  <2>3. KeywordsKept'
    BY <1>1 DEF Inv, KeywordsKept
  <2> QED
    BY <2>2, <2>3
<1>6. FunctionsKept'
  <2>1. SUFFICES ASSUME NEW k \in DOMAIN xfuncs
                 PROVE \E i \in DOMAIN table' : i <= startOfVars /\ table'[i].name = xfuncs[k]
    BY <1>1 DEF FunctionsKept
  <2>2. PICK i \in DOMAIN table : i <= startOfVars /\ table[i].name = xfuncs[k]
    BY DEF Inv, FunctionsKept
  <2> QED
    BY <1>1, <2>2
<1>7. Numbered'
  BY <1>1 DEF Inv, Numbered
<1>8. Counting'
  <2>1. Places' = {}
    BY <1>1 DEF Places
  <2> QED
    BY <1>1, <2>1, FS_EmptySet DEF Counting
<1>9. CallsReachFunctions'
  <2>1. code'[m].calls = {}
    BY <1>4 DEF NoCode
  <2> QED
    BY <1>1, <1>4, <2>1 DEF Inv, CallsReachFunctions
<1> QED
  BY <1>2, <1>3, <1>4, <1>5, <1>6, <1>7, <1>8, <1>9 DEF Inv

\* Nothing else changes the registry.
LEMMA StutterKeepsInv == ASSUME Inv, UNCHANGED vars PROVE Inv'
<1>1. /\ table' = table /\ startOfVars' = startOfVars /\ currVarIdx' = currVarIdx /\ xfuncs' = xfuncs
      /\ code' = code /\ latest' = latest /\ at' = at /\ constants' = constants
  BY DEF vars
<1>2. program' = program /\ Places' = Places /\ Language' = Language
  BY <1>1 DEF program, Places, Language
<1>3. SymbolsTyped' /\ HostTyped' /\ CodeTyped'
  BY <1>1, <1>2 DEF Inv, SymbolsTyped, HostTyped, CodeTyped
<1>4. OnlyLanguage' /\ Apart' /\ KeywordsKept' /\ FunctionsKept' /\ Numbered'
  BY <1>1, <1>2 DEF Inv, OnlyLanguage, Apart, KeywordsKept, FunctionsKept, Numbered
<1>5. Counting' /\ CallsReachFunctions'
  BY <1>1, <1>2 DEF Inv, Counting, CallsReachFunctions
<1> QED
  BY <1>3, <1>4, <1>5 DEF Inv

\* Every step keeps the invariant, if functions are registered first.
LEMMA StepKeepsInv == ASSUME ~RegisterLate, Inv, [Next]_vars PROVE Inv'
<1>1. CASE \E f \in XNames : Define(f)
  BY <1>1, DefineKeepsInv
<1>2. CASE \E m \in Machines, p \in Programs : Compile(m, p)
  BY <1>2, CompileKeepsInv
<1>3. CASE CompileLine
  BY <1>3, LineKeepsInv
<1>4. CASE UNCHANGED vars
  BY <1>4, StutterKeepsInv
<1> QED
  BY <1>1, <1>2, <1>3, <1>4 DEF Next

\* The invariant holds, whatever is compiled for whichever machine, as long as the
\* host registers its functions first.
THEOREM Invariance == ASSUME ~RegisterLate PROVE Spec => []Inv
<1>1. Init => Inv
  BY InitHolds
<1>2. Inv /\ [Next]_vars => Inv'
  BY StepKeepsInv
<1> QED
  BY <1>1, <1>2, PTL DEF Spec

\* TypeOK follows.
LEMMA InvTyped == ASSUME Inv PROVE TypeOK
<1>1. Entries = [name : Keys, value : Nat, type : Types]
  BY DEF Entries
<1>2. currVarIdx \in 0 .. MaxSym
  BY RegistryAssumption DEF Inv, SymbolsTyped
<1> QED
  BY <1>1, <1>2 DEF Inv, SymbolsTyped, HostTyped, CodeTyped, Unique, TypeOK

\* Names are there once and numbers stay in range for every size of the table: that
\* of a variable never falls below 0, although labels give numbers back.
THEOREM TypeCorrect == ASSUME ~RegisterLate PROVE Spec => []TypeOK
BY Invariance, InvTyped, PTL

\* LanguageStays follows.
LEMMA InvLanguage == ASSUME Inv PROVE LanguageStays
<1>1. ASSUME NEW k \in DOMAIN Keywords
      PROVE /\ k <= startOfVars /\ table[k].name = Keywords[k]
            /\ table[k].type = "KEYWORD" \/ Keywords[k] \in constants
  BY DEF Inv, KeywordsKept
<1>2. ASSUME NEW k \in DOMAIN xfuncs
      PROVE LET i == Find(table, xfuncs[k])
            IN /\ i \in 1 .. startOfVars
               /\ table[i].type \in {"XFUNC", "KEYWORD"} \/ xfuncs[k] \in constants
  <2>1. PICK i \in DOMAIN table : i <= startOfVars /\ table[i].name = xfuncs[k]
    BY DEF Inv, FunctionsKept
  <2>2. table \in Seq(Entries) /\ Unique(table) /\ startOfVars \in Nat
    BY DEF Inv, SymbolsTyped
  <2>3. Find(table, xfuncs[k]) = i
    BY <2>1, <2>2, Found
  <2>4. i \in 1 .. startOfVars
    BY <2>1, <2>2
  <2>5. InLanguage(table[i], Language, constants)
    BY <2>1 DEF Inv, Apart
  <2>6. table[i].type \in {"XFUNC", "KEYWORD"} \/ xfuncs[k] \in constants
    BY <2>1, <2>5 DEF InLanguage
  <2> QED
    BY <2>3, <2>4, <2>6
<1> QED
  BY <1>1, <1>2 DEF LanguageStays

\* No program takes a keyword or a function from the programs after it, but by CONST.
THEOREM LanguageAlwaysStays == ASSUME ~RegisterLate PROVE Spec => []LanguageStays
BY Invariance, InvLanguage, PTL

\* A call in the code of any machine is a call of the function it names.
THEOREM CallsAlwaysReach == ASSUME ~RegisterLate PROVE Spec => []CallsReachFunctions
<1>1. Inv => CallsReachFunctions
  BY DEF Inv
<1> QED
  BY <1>1, Invariance, PTL

-----------------------------------------------------------------------------
\* What a program names before a line.
NamedBefore(p, k) == {Key[p[j].name] : j \in 1 .. k - 1}
LabelUses == {"label", "goto"}

\* The next line adds its name.
LEMMA NextNamed == ASSUME NEW p \in Seq(Lines), NEW k \in DOMAIN p
                   PROVE /\ NamedBefore(p, k + 1) = NamedBefore(p, k) \cup {Key[p[k].name]}
                         /\ \A x : IsLabelIn(p, x, k + 1) <=>
                                     (IsLabelIn(p, x, k) \/ (x = Key[p[k].name] /\ p[k].use \in LabelUses))
<1>1. 1 .. (k + 1) - 1 = (1 .. k - 1) \cup {k}
  OBVIOUS
<1>2. NamedBefore(p, k + 1) = NamedBefore(p, k) \cup {Key[p[k].name]}
  BY <1>1 DEF NamedBefore
<1>3. ASSUME NEW x
      PROVE IsLabelIn(p, x, k + 1) <=> (IsLabelIn(p, x, k) \/ (x = Key[p[k].name] /\ p[k].use \in LabelUses))
  BY <1>1 DEF IsLabelIn, LabelUses
<1> QED
  BY <1>2, <1>3

\* A number stands for a name that is no label so far.
LEMMA NumberedIs == ASSUME NEW p, NEW k
                    PROVE \A x : x \in NumberedBefore(p, k) <=> /\ x \in NamedBefore(p, k) /\ IsName(x)
                                                                /\ ~IsLabelIn(p, x, k)
  BY DEF NumberedBefore, NamedBefore

\* There are finitely many.
LEMMA NumberedFinite == ASSUME NEW p \in Seq(Lines), NEW k \in Nat
                        PROVE /\ IsFiniteSet(NumberedBefore(p, k)) /\ Cardinality(NumberedBefore(p, k)) \in Nat
<1> DEFINE f == [j \in 1 .. k - 1 |-> Key[p[j].name]]
<1>1. f \in Surjection(1 .. k - 1, NamedBefore(p, k))
  BY DEF NamedBefore, Surjection
<1>2. IsFiniteSet(1 .. k - 1)
  BY FS_Interval
<1>3. IsFiniteSet(NamedBefore(p, k))
  <2> HIDE DEF f
  <2> QED
    BY <1>1, <1>2, FS_Surjection
<1>4. NumberedBefore(p, k) \subseteq NamedBefore(p, k)
  BY NumberedIs
<1> QED
  BY <1>3, <1>4, FS_Subset, FS_CardinalityType

\* And the next line counts its name once, or gives its number back.
LEMMA NextNumbered == ASSUME NEW p \in Seq(Lines), NEW k \in DOMAIN p, NEW n, n = Key[p[k].name]
                      PROVE LET before == NumberedBefore(p, k)
                                after == NumberedBefore(p, k + 1)
                            IN /\ p[k].use \in LabelUses => after = before \ {n}
                               /\ p[k].use \notin LabelUses /\ IsName(n) /\ ~IsLabelIn(p, n, k) => after = before \cup {n}
                               /\ p[k].use \notin LabelUses /\ (~IsName(n) \/ IsLabelIn(p, n, k)) => after = before
<1> DEFINE before == NumberedBefore(p, k)
           after == NumberedBefore(p, k + 1)
<1>1. \A x : x \in before <=> (x \in NamedBefore(p, k) /\ IsName(x) /\ ~IsLabelIn(p, x, k))
  BY NumberedIs
<1>2. \A x : x \in after <=> (x \in NamedBefore(p, k + 1) /\ IsName(x) /\ ~IsLabelIn(p, x, k + 1))
  BY NumberedIs
<1>3. \A x : x \in NamedBefore(p, k + 1) <=> (x \in NamedBefore(p, k) \/ x = n)
  BY NextNamed
<1>4. \A x : IsLabelIn(p, x, k + 1) <=> (IsLabelIn(p, x, k) \/ (x = n /\ p[k].use \in LabelUses))
  BY NextNamed
<1> HIDE DEF before, after
<1>5. ASSUME p[k].use \in LabelUses PROVE after = before \ {n}
  BY <1>1, <1>2, <1>3, <1>4, <1>5
<1>6. ASSUME p[k].use \notin LabelUses, IsName(n), ~IsLabelIn(p, n, k) PROVE after = before \cup {n}
  BY <1>1, <1>2, <1>3, <1>4, <1>6
<1>7. ASSUME p[k].use \notin LabelUses, ~IsName(n) \/ IsLabelIn(p, n, k) PROVE after = before
  BY <1>1, <1>2, <1>3, <1>4, <1>7
<1> QED
  BY <1>5, <1>6, <1>7 DEF before, after

-----------------------------------------------------------------------------
\* A program without an error so far: the table is what its lines made of it.
Variables == {"ID", "SID", "ARR"}
Done == IF at = 0 THEN Len(program) + 1 ELSE at
Clean == latest # NoMachine /\ code[latest].errors = 0
Behind == {i \in DOMAIN table : i > startOfVars}

NumberOf(p, k, n, v) == \E f \in DOMAIN p : f < k /\ FirstNamed(p, n, f) /\ v = Cardinality(NumberedBefore(p, f))
NumberCounted == currVarIdx = Cardinality(NumberedBefore(program, Done))
NamesMet == \A n : (\E i \in Behind : table[i].name = n) <=> (n \in NamedBefore(program, Done) /\ IsName(n))
LabelsMet == \A i \in Behind : table[i].type = "LABEL" => IsLabelIn(program, table[i].name, Done)
VariablesMet == \A i \in Behind : table[i].type \in Variables =>
                   /\ ~IsLabelIn(program, table[i].name, Done)
                   /\ NumberOf(program, Done, table[i].name, table[i].value)
Numbering == Clean => NumberCounted /\ NamesMet /\ LabelsMet /\ VariablesMet
NothingCompiled == latest = NoMachine => \A m \in Machines : code[m] = NoCode

\* What a line without an error does.
Turn(t, v) == /\ \/ line.use \in LabelUses /\ t = "LABEL" /\ Met[here].type \in {"ID", "LABEL"}
                 \/ line.use \notin LabelUses /\ t # "LABEL" /\ (t \in Variables => Met[here].type \in Variables)
              /\ line.use = "label" => v = at
              /\ line.use = "goto" => v = Met[here].value
              /\ Variable \/ Dim => t \in Variables /\ v = Met[here].value
Recorded(c, t, v) ==
    LET o == code[latest]
    IN /\ c.errors = o.errors
       /\ \/ c.vars = o.vars
          \/ t \in Variables /\ c.vars = o.vars \cup {<<name, v>>}
       /\ IF line.use = "label" THEN c.labels = {x \in o.labels : x[1] # name} \cup {<<name, v>>} ELSE c.labels = o.labels
LineAccepted == Variable \/ ConstantValue \/ Dim \/ Goto \/ Label \/ Const \/ Call

\* An error stays an error.
LEMMA StillClean == ASSUME CodeTyped, CompileLine, Clean' PROVE Clean /\ LineAccepted
<1>1. at > 0
  BY DEF CompileLine, NotRead, Mismatch, Variable, ConstantValue, Dim, Goto, Label, Const, Call, Accepts, Reads
<1>2. latest \in Machines /\ latest # NoMachine /\ code \in [Machines -> Codes]
  BY <1>1, LineTyped, MachinesAssumption DEF CodeTyped
<1>3. PICK o \in Codes : o = code[latest]
  BY <1>2
<1>4. o.errors \in Nat
  BY DEF Codes
<1>5. CASE NotRead \/ Mismatch
  <2>1. code' = [code EXCEPT ![latest] = [o EXCEPT !.errors = @ + 1]] /\ latest' = latest
    BY <1>3, <1>5 DEF NotRead, Mismatch, Failed, Compiled
  <2>2. [o EXCEPT !.errors = @ + 1].errors = o.errors + 1
    BY DEF Codes
  <2>3. code'[latest].errors = o.errors + 1
    BY <1>2, <2>1, <2>2
  <2> QED
    BY <1>4, <2>1, <2>3 DEF Clean
<1>6. CASE Variable \/ Dim
  <2> DEFINE x == <<name, Met[here].value>>
  <2>1. code' = [code EXCEPT ![latest] = [o EXCEPT !.vars = @ \cup {x}]] /\ latest' = latest
    BY <1>3, <1>6 DEF Variable, Dim, WithVariable, Compiled
  <2>2. [o EXCEPT !.vars = @ \cup {x}].errors = o.errors
    BY DEF Codes
  <2>3. code'[latest].errors = o.errors
    BY <1>2, <2>1, <2>2
  <2> QED
    BY <1>2, <1>3, <1>6, <2>1, <2>3 DEF Clean, LineAccepted
<1>7. CASE ConstantValue \/ Goto \/ Const
  <2>1. code' = [code EXCEPT ![latest] = code[latest]] /\ latest' = latest
    BY <1>7 DEF ConstantValue, Goto, Const, Compiled
  <2>2. code'[latest].errors = o.errors
    BY <1>2, <1>3, <2>1
  <2> QED
    BY <1>2, <1>3, <1>7, <2>1, <2>2 DEF Clean, LineAccepted
<1>8. CASE Label
  <2> DEFINE ls == {x \in o.labels : x[1] # name} \cup {<<name, at>>}
  <2>1. code' = [code EXCEPT ![latest] = [o EXCEPT !.labels = ls]] /\ latest' = latest
    BY <1>3, <1>8 DEF Label, Compiled
  <2>2. [o EXCEPT !.labels = ls].errors = o.errors
    BY DEF Codes
  <2>3. code'[latest].errors = o.errors
    BY <1>2, <2>1, <2>2
  <2> QED
    BY <1>2, <1>3, <1>8, <2>1, <2>3 DEF Clean, LineAccepted
<1>9. CASE Call
  <2> DEFINE x == <<name, Met[here].value>>
  <2>1. code' = [code EXCEPT ![latest] = [o EXCEPT !.calls = @ \cup {x}]] /\ latest' = latest
    BY <1>3, <1>9 DEF Call, Compiled
  <2>2. [o EXCEPT !.calls = @ \cup {x}].errors = o.errors
    BY DEF Codes
  <2>3. code'[latest].errors = o.errors
    BY <1>2, <2>1, <2>2
  <2> QED
    BY <1>2, <1>3, <1>9, <2>1, <2>3 DEF Clean, LineAccepted
<1> QED
  BY <1>5, <1>6, <1>7, <1>8, <1>9 DEF CompileLine

\* What the table shows is what the statement did.
LEMMA AcceptedTurn == ASSUME CodeTyped, LineRead, LineAccepted, NEW t, NEW v, Outcome(t, v) PROVE Turn(t, v)
<1>1. table'[here].type = t /\ table'[here].value = v
  BY DEF Outcome, Became
<1> DEFINE m == Met[here]
<1>2. CASE Variable
  <2>1. t = m.type /\ v = m.value
    BY <1>1, <1>2, VariableBecame DEF Became
  <2>2. line.use \in {"let", "value"} /\ m.type \in {"ID", "SID"}
    BY <1>2 DEF Variable, Accepts, Takes
  <2> QED
    BY <2>1, <2>2 DEF Turn, LabelUses, Variables
<1>3. CASE ConstantValue
  <2>1. t = m.type /\ v = m.value
    BY <1>1, <1>3, ConstantValueBecame DEF Became
  <2>2. line.use = "value" /\ m.type = "CNST" /\ ~Variable /\ ~Dim
    BY <1>3 DEF ConstantValue, IsConstant, Variable, Dim, Accepts, Takes
  <2> QED
    BY <2>1, <2>2 DEF Turn, LabelUses, Variables
<1>4. CASE Dim
  <2>1. t = "ARR" /\ v = m.value
    BY <1>1, <1>4, DimBecame DEF Became
  <2>2. line.use = "dim" /\ m.type \in {"ID", "ARR"}
    BY <1>4 DEF Dim, Accepts, Takes
  <2> QED
    BY <2>1, <2>2 DEF Turn, LabelUses, Variables
<1>5. CASE Goto
  <2>1. t = "LABEL" /\ v = m.value
    BY <1>1, <1>5, GotoBecame DEF Became
  <2>2. line.use = "goto" /\ m.type \in {"ID", "LABEL"} /\ ~Variable /\ ~Dim
    BY <1>5 DEF Goto, Variable, Dim, Accepts, Takes
  <2> QED
    BY <2>1, <2>2 DEF Turn, LabelUses, Variables
<1>6. CASE Label
  <2>1. t = "LABEL" /\ v = at
    BY <1>1, <1>6, LabelBecame DEF Became
  <2>2. line.use = "label" /\ m.type \in {"ID", "LABEL"} /\ ~Variable /\ ~Dim
    BY <1>6 DEF Label, Variable, Dim, Accepts, Takes
  <2> QED
    BY <2>1, <2>2 DEF Turn, LabelUses, Variables
<1>7. CASE Const
  <2>1. t = "CNST"
    BY <1>1, <1>7, ConstBecame DEF Became
  <2>2. line.use = "const" /\ ~Variable /\ ~Dim
    BY <1>7 DEF Const, Variable, Dim, Accepts
  <2> QED
    BY <2>1, <2>2 DEF Turn, LabelUses, Variables
<1>8. CASE Call
  <2>1. t = m.type
    BY <1>1, <1>8, CallBecame DEF Became
  <2>2. line.use = "call" /\ m.type = "XFUNC" /\ ~Variable /\ ~Dim
    BY <1>8 DEF Call, Variable, Dim, Accepts, Takes
  <2> QED
    BY <2>1, <2>2 DEF Turn, LabelUses, Variables
<1> QED
  BY <1>2, <1>3, <1>4, <1>5, <1>6, <1>7, <1>8 DEF LineAccepted

\* And the code says so.
LEMMA AcceptedRecorded == ASSUME CodeTyped, LineRead, LineAccepted, at > 0, NEW t, NEW v, Turn(t, v)
                          PROVE Recorded(code'[latest], t, v)
<1>1. latest \in Machines /\ code \in [Machines -> Codes]
  BY LineTyped DEF CodeTyped
<1>2. PICK o \in Codes : o = code[latest]
  BY <1>1
<1>3. CASE Variable \/ Dim
  <2> DEFINE x == <<name, Met[here].value>>
             c == [o EXCEPT !.vars = @ \cup {x}]
  <2>1. code' = [code EXCEPT ![latest] = c]
    BY <1>2, <1>3 DEF Variable, Dim, WithVariable, Compiled
  <2>2. c.errors = o.errors /\ c.vars = o.vars \cup {x} /\ c.labels = o.labels
    BY DEF Codes
  <2>3. code'[latest] = c
    BY <1>1, <2>1
  <2>4. t \in Variables /\ x = <<name, v>>
    BY <1>3 DEF Turn
  <2>5. line.use # "label"
    BY <1>3 DEF Variable, Dim, Accepts
  <2> HIDE DEF x, c
  <2> QED
    BY <1>2, <2>2, <2>3, <2>4, <2>5 DEF Recorded
<1>4. CASE ConstantValue \/ Goto \/ Const
  <2>1. code' = [code EXCEPT ![latest] = o]
    BY <1>2, <1>4 DEF ConstantValue, Goto, Const, Compiled
  <2>2. code'[latest] = o
    BY <1>1, <2>1
  <2>3. line.use # "label"
    BY <1>4 DEF ConstantValue, IsConstant, Goto, Const, Accepts
  <2> QED
    BY <1>2, <2>2, <2>3 DEF Recorded
<1>5. CASE Label
  <2> DEFINE ls == {x \in o.labels : x[1] # name} \cup {<<name, at>>}
             c == [o EXCEPT !.labels = ls]
  <2>1. code' = [code EXCEPT ![latest] = c]
    BY <1>2, <1>5 DEF Label, Compiled
  <2>2. c.errors = o.errors /\ c.vars = o.vars /\ c.labels = ls
    BY DEF Codes
  <2>3. code'[latest] = c
    BY <1>1, <2>1
  <2>4. line.use = "label" /\ v = at
    BY <1>5 DEF Label, Accepts, Turn
  <2> HIDE DEF c
  <2> QED
    BY <1>2, <2>2, <2>3, <2>4 DEF Recorded
<1>6. CASE Call
  <2> DEFINE x == <<name, Met[here].value>>
             c == [o EXCEPT !.calls = @ \cup {x}]
  <2>1. code' = [code EXCEPT ![latest] = c]
    BY <1>2, <1>6 DEF Call, Compiled
  <2>2. c.errors = o.errors /\ c.vars = o.vars /\ c.labels = o.labels
    BY DEF Codes
  <2>3. code'[latest] = c
    BY <1>1, <2>1
  <2>4. line.use # "label"
    BY <1>6 DEF Call, Accepts
  <2> HIDE DEF x, c
  <2> QED
    BY <1>2, <2>2, <2>3, <2>4 DEF Recorded
<1> QED
  BY <1>3, <1>4, <1>5, <1>6 DEF LineAccepted

-----------------------------------------------------------------------------
\* Numbers, names and labels go on with the lines.

\* Where the compilation is, before and after a line.
LEMMA LineDone == ASSUME CodeTyped, CompileLine
                  PROVE /\ at > 0 /\ at \in DOMAIN program /\ program \in Seq(Lines) /\ at \in Nat /\ latest \in Machines
                        /\ line = program[at] /\ name = Key[program[at].name]
                        /\ Done = at /\ Done' = at + 1 /\ program' = program /\ latest' = latest
                        /\ xfuncs' = xfuncs /\ startOfVars' = startOfVars
                        /\ \A m \in Machines : m # latest => code'[m] = code[m]
<1>1. at > 0
  BY DEF CompileLine, NotRead, Mismatch, Variable, ConstantValue, Dim, Goto, Label, Const, Call, Accepts, Reads
<1>2. at \in DOMAIN program /\ program \in Seq(Lines) /\ latest \in Machines /\ code \in [Machines -> Codes]
  BY <1>1, LineTyped DEF CodeTyped
<1>3. \E c : Compiled(c) /\ c.program = program
  <2>1. PICK o \in Codes : o = code[latest]
    BY <1>2
  <2>2. o.program = program
    BY <2>1 DEF program
  <2>3. CASE NotRead \/ Mismatch
    <3>1. Compiled([o EXCEPT !.errors = @ + 1])
      BY <2>1, <2>3 DEF NotRead, Mismatch, Failed
    <3>2. [o EXCEPT !.errors = @ + 1].program = o.program
      BY DEF Codes
    <3> QED
      BY <2>2, <3>1, <3>2
  <2>4. CASE Variable \/ Dim
    <3> DEFINE x == <<name, Met[here].value>>
    <3>1. Compiled([o EXCEPT !.vars = @ \cup {x}])
      BY <2>1, <2>4 DEF Variable, Dim, WithVariable
    <3>2. [o EXCEPT !.vars = @ \cup {x}].program = o.program
      BY DEF Codes
    <3> QED
      BY <2>2, <3>1, <3>2
  <2>5. CASE ConstantValue \/ Goto \/ Const
    <3>1. Compiled(o)
      BY <2>1, <2>5 DEF ConstantValue, Goto, Const
    <3> QED
      BY <2>2, <3>1
  <2>6. CASE Label
    <3> DEFINE ls == {x \in o.labels : x[1] # name} \cup {<<name, at>>}
    <3>1. Compiled([o EXCEPT !.labels = ls])
      BY <2>1, <2>6 DEF Label
    <3>2. [o EXCEPT !.labels = ls].program = o.program
      BY DEF Codes
    <3> QED
      BY <2>2, <3>1, <3>2
  <2>7. CASE Call
    <3> DEFINE x == <<name, Met[here].value>>
    <3>1. Compiled([o EXCEPT !.calls = @ \cup {x}])
      BY <2>1, <2>7 DEF Call
    <3>2. [o EXCEPT !.calls = @ \cup {x}].program = o.program
      BY DEF Codes
    <3> QED
      BY <2>2, <3>1, <3>2
  <2> QED
    BY <2>3, <2>4, <2>5, <2>6, <2>7 DEF CompileLine
<1>4. PICK c : Compiled(c) /\ c.program = program
  BY <1>3
<1>5. code' = [code EXCEPT ![latest] = c] /\ at' = LineAfter(program, at) /\ UNCHANGED <<startOfVars, xfuncs, latest>>
  BY <1>4 DEF Compiled
<1>6. program' = program /\ \A m \in Machines : m # latest => code'[m] = code[m]
  BY <1>2, <1>4, <1>5 DEF program
<1>7. at \in Nat /\ Len(program) \in Nat /\ at \in 1 .. Len(program)
  BY <1>2
<1>8. Done = at
  BY <1>1 DEF Done
<1>9. Done' = at + 1
  BY <1>5, <1>6, <1>7 DEF Done, LineAfter
<1> QED
  BY <1>1, <1>2, <1>5, <1>6, <1>7, <1>8, <1>9 DEF line, name

\* Where the name of the line is, and what the program did with it so far.
LEMMA NameSoFar == ASSUME Inv, Numbering, Clean, LineAccepted, LineRead, NEW t, NEW v, Outcome(t, v), Turn(t, v)
                   PROVE /\ here \in DOMAIN table /\ here \notin Behind =>
                              ~IsName(name) /\ line.use \notin LabelUses /\ Counted = currVarIdx
                         /\ here \in Behind => /\ IsName(name) /\ name \in NamedBefore(program, at)
                                               /\ table[here].name = name /\ Met[here].type = table[here].type
                                               /\ Counted = currVarIdx
                         /\ here \notin DOMAIN table => /\ IsName(name) /\ name \notin NamedBefore(program, at)
                                                        /\ ~IsLabelIn(program, name, at)
                                                        /\ Met[here].type \in {"ID", "SID"}
                                                        /\ Met[here].value = currVarIdx /\ Counted = currVarIdx + 1
<1>1. CompileLine /\ CodeTyped /\ SymbolsTyped
  BY DEF LineAccepted, CompileLine, Inv
<1>2. Done = at /\ at \in Nat
  BY <1>1, LineDone
<1>3. \A i \in DOMAIN table : i <= startOfVars \/ i > startOfVars
  BY <1>1 DEF SymbolsTyped
<1>4. \A n : IsName(n) <=> n \notin Language
  BY DEF IsName, Language
<1>5. ASSUME here \in DOMAIN table, here \notin Behind
      PROVE ~IsName(name) /\ line.use \notin LabelUses /\ Counted = currVarIdx
  <2>1. InLanguage(table[here], Language, constants)
    BY <1>3, <1>5 DEF Inv, Apart, Behind
  <2>2. table[here].name = name /\ Met[here].type = table[here].type /\ Counted = currVarIdx
    BY <1>1, <1>5, TableAfter, TypeRead DEF LineRead
  <2>3. Met[here].type \in {"KEYWORD", "XFUNC", "CNST"}
    BY <2>1, <2>2 DEF InLanguage
  <2>4. line.use \notin LabelUses
    BY <2>3 DEF Turn
  <2> QED
    BY <1>4, <2>1, <2>2, <2>4 DEF InLanguage
<1>6. ASSUME here \in Behind
      PROVE /\ IsName(name) /\ name \in NamedBefore(program, at)
            /\ table[here].name = name /\ Met[here].type = table[here].type
            /\ Counted = currVarIdx
  <2>1. here \in DOMAIN table
    BY <1>6 DEF Behind
  <2>2. table[here].name = name /\ Met[here].type = table[here].type /\ Counted = currVarIdx
    BY <1>1, <2>1, TableAfter, TypeRead DEF LineRead
  <2> QED
    BY <1>2, <1>6, <2>2 DEF Numbering, NamesMet
<1>7. ASSUME here \notin DOMAIN table
      PROVE /\ IsName(name) /\ name \notin NamedBefore(program, at) /\ ~IsLabelIn(program, name, at)
            /\ Met[here].type \in {"ID", "SID"} /\ Met[here].value = currVarIdx /\ Counted = currVarIdx + 1
  <2>1. Absent(table, name)
    BY <1>1, <1>7, TableAfter
  <2>2. name \notin Language
    BY <2>1 DEF Absent, Language, Range, Inv, KeywordsKept, FunctionsKept
  <2>3. name \notin NamedBefore(program, at)
    BY <1>2, <1>4, <2>1, <2>2 DEF Numbering, NamesMet, Behind, Absent
  <2>4. ~IsLabelIn(program, name, at)
    BY <2>3 DEF IsLabelIn, NamedBefore
  <2> QED
    BY <1>4, <1>7, <2>2, <2>3, <2>4 DEF LineRead
<1> QED
  BY <1>5, <1>6, <1>7

\* The counter.
LEMMA LineNumbers == ASSUME Inv, Numbering, Clean, LineAccepted, LineRead, NEW t, NEW v, Outcome(t, v), Turn(t, v)
                     PROVE currVarIdx' = Cardinality(NumberedBefore(program, at + 1))
<1>1. CompileLine /\ CodeTyped
  BY DEF LineAccepted, CompileLine, Inv
<1>2. PICK before : before = NumberedBefore(program, at)
  OBVIOUS
<1>3. PICK after : after = NumberedBefore(program, at + 1)
  OBVIOUS
<1>4. program \in Seq(Lines) /\ at \in DOMAIN program /\ at \in Nat /\ Done = at /\ line = program[at]
      /\ name = Key[program[at].name]
  BY <1>1, LineDone
<1>5. /\ line.use \in LabelUses => after = before \ {name}
      /\ line.use \notin LabelUses /\ IsName(name) /\ ~IsLabelIn(program, name, at) => after = before \cup {name}
      /\ line.use \notin LabelUses /\ (~IsName(name) \/ IsLabelIn(program, name, at)) => after = before
  BY <1>2, <1>3, <1>4, NextNumbered
<1>6. IsFiniteSet(before) /\ Cardinality(before) \in Nat /\ currVarIdx = Cardinality(before)
  BY <1>2, <1>4, NumberedFinite DEF Numbering, NumberCounted
<1>7. name \in before <=> name \in NamedBefore(program, at) /\ IsName(name) /\ ~IsLabelIn(program, name, at)
  BY <1>2, NumberedIs
<1>8. currVarIdx' = IF t = "LABEL" /\ Met[here].type = "ID" THEN Counted - 1 ELSE Counted
  BY DEF Outcome
<1>9. \/ line.use \in LabelUses /\ t = "LABEL" /\ Met[here].type \in {"ID", "LABEL"}
      \/ line.use \notin LabelUses /\ t # "LABEL"
  BY DEF Turn
<1>10. Cardinality(before \ {name}) = (IF name \in before THEN Cardinality(before) - 1 ELSE Cardinality(before))
       /\ Cardinality(before \cup {name}) = (IF name \in before THEN Cardinality(before) ELSE Cardinality(before) + 1)
  BY <1>6, FS_AddElement, FS_RemoveElement
<1>11. CASE here \in DOMAIN table /\ here \notin Behind
  <2>1. ~IsName(name) /\ line.use \notin LabelUses /\ Counted = currVarIdx
    BY <1>11, NameSoFar
  <2>2. after = before
    BY <1>5, <2>1
  <2>3. currVarIdx' = currVarIdx
    BY <1>8, <1>9, <2>1
  <2> QED
    BY <1>3, <1>6, <2>2, <2>3
<1>12. CASE here \in Behind
  <2>1. IsName(name) /\ name \in NamedBefore(program, at) /\ table[here].name = name
        /\ Met[here].type = table[here].type /\ Counted = currVarIdx
    BY <1>12, NameSoFar
  <2>2. Met[here].type = "ID" => ~IsLabelIn(program, name, at)
    BY <1>4, <1>12, <2>1 DEF Numbering, VariablesMet, Variables
  <2>3. Met[here].type = "LABEL" => IsLabelIn(program, name, at)
    BY <1>4, <1>12, <2>1 DEF Numbering, LabelsMet
  <2>4. CASE line.use \in LabelUses /\ t = "LABEL" /\ Met[here].type = "ID"
    <3>1. after = before \ {name} /\ name \in before
      BY <1>5, <1>7, <2>1, <2>2, <2>4
    <3>2. currVarIdx' = currVarIdx - 1
      BY <1>8, <2>1, <2>4
    <3> QED
      BY <1>3, <1>6, <1>10, <3>1, <3>2
  <2>5. CASE line.use \in LabelUses /\ t = "LABEL" /\ Met[here].type = "LABEL"
    <3>1. after = before
      BY <1>5, <1>7, <2>3, <2>5
    <3>2. currVarIdx' = currVarIdx
      BY <1>8, <2>1, <2>5
    <3> QED
      BY <1>3, <1>6, <3>1, <3>2
  <2>6. CASE line.use \notin LabelUses /\ t # "LABEL"
    <3>1. after = before
      BY <1>5, <1>7, <2>1, <2>6
    <3>2. currVarIdx' = currVarIdx
      BY <1>8, <2>1, <2>6
    <3> QED
      BY <1>3, <1>6, <3>1, <3>2
  <2> QED
    BY <1>9, <2>4, <2>5, <2>6
<1>13. CASE here \notin DOMAIN table
  <2>1. IsName(name) /\ name \notin NamedBefore(program, at) /\ ~IsLabelIn(program, name, at)
        /\ Met[here].type \in {"ID", "SID"} /\ Counted = currVarIdx + 1
    BY <1>13, NameSoFar
  <2>2. name \notin before
    BY <1>7, <2>1
  <2>3. CASE line.use \in LabelUses /\ t = "LABEL" /\ Met[here].type \in {"ID", "LABEL"}
    <3>1. after = before
      BY <1>5, <2>2, <2>3
    <3>2. Met[here].type = "ID"
      BY <2>1, <2>3
    <3>3. currVarIdx' = (currVarIdx + 1) - 1
      BY <1>8, <2>1, <2>3, <3>2
    <3> QED
      BY <1>3, <1>6, <3>1, <3>3
  <2>4. CASE line.use \notin LabelUses /\ t # "LABEL"
    <3>1. after = before \cup {name}
      BY <1>5, <2>1, <2>4
    <3>2. currVarIdx' = currVarIdx + 1
      BY <1>8, <2>1, <2>4
    <3> QED
      BY <1>3, <1>6, <1>10, <2>2, <3>1, <3>2
  <2> QED
    BY <1>9, <2>3, <2>4
<1> QED
  BY <1>11, <1>12, <1>13

\* The names.
LEMMA LineNames == ASSUME Inv, Numbering, Clean, LineAccepted, LineRead, NEW t, NEW v, Outcome(t, v), Turn(t, v)
                   PROVE NamesMet'
<1>1. CompileLine /\ CodeTyped /\ SymbolsTyped
  BY DEF LineAccepted, CompileLine, Inv
<1>2. program \in Seq(Lines) /\ at \in DOMAIN program /\ Done = at /\ Done' = at + 1 /\ program' = program
      /\ name = Key[program[at].name] /\ xfuncs' = xfuncs /\ startOfVars' = startOfVars
  BY <1>1, LineDone
<1>3. \A x : IsName(x)' <=> IsName(x)
  BY <1>2 DEF IsName
<1>4. NamedBefore(program, Done)' = NamedBefore(program, at) \cup {name}
  BY <1>2, NextNamed DEF NamedBefore
<1>5. \A n : (\E i \in Behind : table[i].name = n) <=> (n \in NamedBefore(program, at) /\ IsName(n))
  BY <1>2 DEF Numbering, NamesMet
<1>6. SUFFICES ASSUME NEW n
               PROVE (\E i \in Behind' : table'[i].name = n) <=> (n \in NamedBefore(program, at) \cup {name} /\ IsName(n))
  BY <1>3, <1>4 DEF NamesMet
<1>7. \A i \in DOMAIN table : i \in DOMAIN table' /\ table'[i].name = table[i].name
  BY <1>1, TableAfter
<1>8. Behind \subseteq Behind' /\ \A i \in Behind : table'[i].name = table[i].name
  BY <1>2, <1>7 DEF Behind
<1>9. here \in DOMAIN table' /\ table'[here].name = name /\ Len(table) \in Nat /\ DOMAIN table = 1 .. Len(table)
      /\ DOMAIN table' = 1 .. Len(table') /\ startOfVars \in Nat /\ startOfVars <= Len(table)
  BY <1>1, TableAfter DEF SymbolsTyped
<1>10. CASE here \in DOMAIN table
  <2>1. DOMAIN table' = DOMAIN table
    BY <1>1, <1>9, <1>10, TableAfter
  <2>2. Behind' = Behind
    BY <1>2, <2>1 DEF Behind
  <2>3. name \in NamedBefore(program, at) \/ ~IsName(name)
    BY <1>10, NameSoFar
  <2> QED
    BY <1>5, <1>8, <2>2, <2>3
<1>11. CASE here \notin DOMAIN table
  <2>1. here = Len(table) + 1 /\ Len(table') = Len(table) + 1 /\ IsName(name)
    BY <1>1, <1>11, TableAfter, NameSoFar
  <2>2. here \in Behind'
    BY <1>2, <1>9, <2>1 DEF Behind
  <2>3. ASSUME NEW i \in Behind', i # here PROVE i \in Behind
    <3>1. i \in 1 .. Len(table) + 1 /\ i > startOfVars
      BY <1>2, <1>9, <2>1, <2>3 DEF Behind
    <3> QED
      BY <1>9, <2>1, <2>3, <3>1 DEF Behind
  <2> QED
    BY <1>5, <1>8, <1>9, <2>1, <2>2, <2>3
<1> QED
  BY <1>10, <1>11

\* What is behind StartOfVars after a line.
LEMMA BehindAfter == ASSUME Inv, CompileLine, LineRead, NEW t, NEW v, Outcome(t, v), NEW i \in Behind', i # here
                     PROVE i \in Behind /\ table'[i] = table[i] /\ table[i].name # name
<1>1. CodeTyped /\ SymbolsTyped
  BY DEF Inv
<1>2. /\ table' \in Seq(Entries) /\ Unique(table')
      /\ Len(table) \in Nat /\ Len(table') \in Nat
      /\ DOMAIN table = 1 .. Len(table) /\ DOMAIN table' = 1 .. Len(table')
      /\ here \in DOMAIN table' /\ table'[here].name = name
      /\ \A k \in DOMAIN table : k # here => table'[k] = table[k]
      /\ here \in DOMAIN table => Len(table') = Len(table)
      /\ here \notin DOMAIN table => Len(table') = Len(table) + 1 /\ here = Len(table) + 1
  BY <1>1, TableAfter
<1>3. startOfVars' = startOfVars
  BY <1>1, LineDone
<1>4. i \in DOMAIN table' /\ i > startOfVars
  BY <1>3 DEF Behind
<1>5. i \in DOMAIN table
  <2>1. i \in 1 .. Len(table')
    BY <1>2, <1>4
  <2>2. CASE here \in DOMAIN table
    BY <1>2, <2>1, <2>2
  <2>3. CASE here \notin DOMAIN table
    <3>1. here = Len(table) + 1 /\ i \in 1 .. Len(table) + 1
      BY <1>2, <2>1, <2>3
    <3>2. i # Len(table) + 1
      BY <3>1
    <3>3. \A n \in Nat : \A j \in 1 .. n + 1 : j # n + 1 => j \in 1 .. n
      OBVIOUS
    <3>4. i \in 1 .. Len(table)
      BY <1>2, <3>1, <3>2, <3>3
    <3> QED
      BY <1>2, <3>4
  <2> QED
    BY <2>2, <2>3
<1>6. table'[i] = table[i]
  BY <1>2, <1>5
<1>7. table'[i].name # name
  BY <1>2, <1>4 DEF Unique
<1> QED
  BY <1>4, <1>5, <1>6, <1>7 DEF Behind

\* The labels.
LEMMA LineLabels == ASSUME Inv, Numbering, Clean, LineAccepted, LineRead, NEW t, NEW v, Outcome(t, v), Turn(t, v)
                    PROVE LabelsMet'
<1>1. CompileLine /\ CodeTyped /\ SymbolsTyped
  BY DEF LineAccepted, CompileLine, Inv
<1>2. program \in Seq(Lines) /\ at \in DOMAIN program /\ Done = at /\ Done' = at + 1 /\ program' = program
      /\ name = Key[program[at].name] /\ line = program[at]
  BY <1>1, LineDone
<1>3. \A x : IsLabelIn(program, x, at + 1) <=> (IsLabelIn(program, x, at) \/ (x = name /\ line.use \in LabelUses))
  BY <1>2, NextNamed
<1>4. SUFFICES ASSUME NEW i \in Behind', table'[i].type = "LABEL"
               PROVE IsLabelIn(program, table'[i].name, at + 1)
  BY <1>2 DEF LabelsMet, IsLabelIn
<1>5. CASE i = here
  <2>1. t = "LABEL" /\ table'[i].name = name
    BY <1>1, <1>4, <1>5, TableAfter
  <2>2. line.use \in LabelUses
    BY <2>1 DEF Turn
  <2> QED
    BY <1>3, <2>1, <2>2
<1>6. CASE i # here
  <2>1. i \in Behind /\ table'[i] = table[i]
    BY <1>1, <1>4, <1>6, BehindAfter
  <2>2. IsLabelIn(program, table[i].name, at)
    BY <1>2, <1>4, <2>1 DEF Numbering, LabelsMet
  <2> QED
    BY <1>3, <2>1, <2>2
<1> QED
  BY <1>5, <1>6

\* The variables.
LEMMA LineVariables == ASSUME Inv, Numbering, Clean, LineAccepted, LineRead, NEW t, NEW v, Outcome(t, v), Turn(t, v)
                       PROVE VariablesMet'
<1>1. CompileLine /\ CodeTyped /\ SymbolsTyped
  BY DEF LineAccepted, CompileLine, Inv
<1>2. program \in Seq(Lines) /\ at \in DOMAIN program /\ Done = at /\ Done' = at + 1 /\ program' = program
      /\ name = Key[program[at].name] /\ line = program[at] /\ xfuncs' = xfuncs /\ at \in Nat
      /\ startOfVars' = startOfVars
  BY <1>1, LineDone
<1>3. \A x : IsLabelIn(program, x, at + 1) <=> (IsLabelIn(program, x, at) \/ (x = name /\ line.use \in LabelUses))
  BY <1>2, NextNamed
<1>4. \A x, w : NumberOf(program, at, x, w) => NumberOf(program, at + 1, x, w)
  <2>1. \A f \in DOMAIN program : f < at => f < at + 1
    BY <1>2
  <2> QED
    BY <2>1 DEF NumberOf
<1>5. \A x, w : NumberOf(program, Done, x, w)' <=> NumberOf(program, at + 1, x, w)
  <2>1. \A f : NumberedBefore(program, f)' = NumberedBefore(program, f)
    BY <1>2 DEF NumberedBefore, IsName, IsLabelIn
  <2>2. \A x, f : FirstNamed(program, x, f)' <=> FirstNamed(program, x, f)
    BY <1>2 DEF FirstNamed
  <2> QED
    BY <1>2, <2>1, <2>2 DEF NumberOf
<1>6. SUFFICES ASSUME NEW i \in Behind', table'[i].type \in Variables
               PROVE /\ ~IsLabelIn(program, table'[i].name, at + 1)
                     /\ NumberOf(program, at + 1, table'[i].name, table'[i].value)
  <2>1. \A x : IsLabelIn(program, x, Done)' <=> IsLabelIn(program, x, at + 1)
    BY <1>2 DEF IsLabelIn
  <2> QED
    BY <1>5, <2>1 DEF VariablesMet
<1>7. CASE i = here
  <2>1. t \in Variables /\ table'[i].name = name /\ table'[i].value = v
    BY <1>1, <1>6, <1>7, TableAfter
  <2>2. line.use \notin LabelUses /\ v = Met[here].value /\ Met[here].type \in Variables
    BY <2>1 DEF Turn, Outcome, Variables
  <2>3. CASE here \in DOMAIN table
    <3>1. here \in Behind
      BY <1>2, <1>7, <1>6, <2>3 DEF Behind
    <3>2. table[here].name = name /\ Met[here].type = table[here].type
      BY <3>1, NameSoFar
    <3>3. Met[here] = table[here]
      BY <2>2, <2>3, <3>2 DEF LineRead, Kept, Variables
    <3>4. ~IsLabelIn(program, name, at) /\ NumberOf(program, at, name, v)
      BY <1>2, <2>2, <3>1, <3>2, <3>3 DEF Numbering, VariablesMet
    <3> QED
      BY <1>3, <1>4, <2>1, <2>2, <3>4
  <2>4. CASE here \notin DOMAIN table
    <3>1. name \notin NamedBefore(program, at) /\ ~IsLabelIn(program, name, at) /\ v = currVarIdx
      BY <2>2, <2>4, NameSoFar
    <3>2. FirstNamed(program, name, at)
      BY <1>2, <3>1 DEF FirstNamed, NamedBefore
    <3>3. v = Cardinality(NumberedBefore(program, at))
      BY <1>2, <3>1 DEF Numbering, NumberCounted
    <3>4. NumberOf(program, at + 1, name, v)
      BY <1>2, <3>2, <3>3 DEF NumberOf
    <3> QED
      BY <1>3, <2>1, <2>2, <3>1, <3>4
  <2> QED
    BY <2>3, <2>4
<1>8. CASE i # here
  <2>1. i \in Behind /\ table'[i] = table[i] /\ table[i].name # name
    BY <1>1, <1>6, <1>8, BehindAfter
  <2>2. ~IsLabelIn(program, table[i].name, at) /\ NumberOf(program, at, table[i].name, table[i].value)
    BY <1>2, <1>6, <2>1 DEF Numbering, VariablesMet
  <2> QED
    BY <1>3, <1>4, <2>1, <2>2
<1> QED
  BY <1>7, <1>8

-----------------------------------------------------------------------------
\* The invariant of the numbers.
NumberInv == Inv /\ Numbering /\ NothingCompiled /\ NumbersIndependent

\* Numbers only depend on the program and the language.
LEMMA SameNumbers == ASSUME xfuncs' = xfuncs
                     PROVE /\ \A p, k : NumberedBefore(p, k)' = NumberedBefore(p, k)
                           /\ \A x : IsName(x)' <=> IsName(x)
  BY DEF NumberedBefore, IsName, IsLabelIn

\* A line goes on with the numbers.
LEMMA LineKeepsNumbering == ASSUME Inv, Numbering, CompileLine PROVE Numbering'
<1>1. SUFFICES ASSUME Clean' PROVE NumberCounted' /\ NamesMet' /\ LabelsMet' /\ VariablesMet'
  BY DEF Numbering
<1>2. Clean /\ LineAccepted
  BY <1>1, StillClean DEF Inv
<1>3. LineRead /\ \E t, v : Outcome(t, v)
  BY <1>2, LineOutcome DEF Inv, LineAccepted, ReadsLine
<1>4. PICK t, v : Outcome(t, v)
  BY <1>3
<1>5. Turn(t, v)
  BY <1>2, <1>3, <1>4, AcceptedTurn DEF Inv
<1>6. currVarIdx' = Cardinality(NumberedBefore(program, at + 1))
  BY <1>2, <1>3, <1>4, <1>5, LineNumbers
<1>7. NumberedBefore(program, Done)' = NumberedBefore(program, at + 1)
  <2>1. Done' = at + 1 /\ program' = program /\ xfuncs' = xfuncs
    BY LineDone DEF Inv
  <2> QED
    BY <2>1 DEF NumberedBefore, IsName, IsLabelIn
<1>8. NumberCounted'
  BY <1>6, <1>7 DEF NumberCounted
<1> QED
  BY <1>2, <1>3, <1>4, <1>5, <1>8, LineNames, LineLabels, LineVariables

\* A variable in the code is one in the table.
LEMMA RecordedBehind == ASSUME Inv, Clean, LineAccepted, LineRead, NEW t, NEW v, Outcome(t, v), Turn(t, v), t \in Variables
                        PROVE here \in Behind' /\ table'[here].name = name /\ table'[here].type = t /\ table'[here].value = v
<1>1. CompileLine /\ CodeTyped /\ SymbolsTyped
  BY DEF LineAccepted, CompileLine, Inv
<1>2. startOfVars' = startOfVars /\ startOfVars \in Nat /\ startOfVars <= Len(table) /\ Len(table) \in Nat
  BY <1>1, LineDone, TableAfter DEF SymbolsTyped
<1>3. here \in DOMAIN table' /\ table'[here].name = name /\ table'[here].type = t /\ table'[here].value = v
  BY <1>1, TableAfter
<1>4. Met[here].type \in Variables
  BY DEF Turn, Variables
<1>5. here > startOfVars
  <2>1. CASE here \in DOMAIN table
    <3>1. Met[here].type = table[here].type
      BY <2>1, TypeRead
    <3>2. ~InLanguage(table[here], Language, constants)
      BY <1>4, <3>1 DEF InLanguage, Variables
    <3>3. ~(here <= startOfVars) /\ here \in 1 .. Len(table)
      BY <1>1, <2>1, <3>2, TableAfter DEF Inv, Apart
    <3> QED
      BY <1>2, <3>3
  <2>2. CASE here \notin DOMAIN table
    BY <1>1, <1>2, <2>2, TableAfter
  <2> QED
    BY <2>1, <2>2
<1> QED
  BY <1>2, <1>3, <1>5 DEF Behind

\* The variables of one machine.
NumbersOf(c) == c.errors = 0 => \A x \in c.vars : \E k \in DOMAIN c.program :
                                  FirstNamed(c.program, x[1], k) /\ x[2] = Cardinality(NumberedBefore(c.program, k))
LEMMA NumbersAreOf == NumbersIndependent <=> \A m \in Machines : NumbersOf(code[m])
  BY DEF NumbersIndependent, NumbersOf

\* The code keeps numbers that only depend on its program.
LEMMA LineKeepsCode == ASSUME NumberInv, CompileLine PROVE NumbersIndependent'
<1>1. CodeTyped /\ SymbolsTyped /\ \A m \in Machines : NumbersOf(code[m])
  BY NumbersAreOf DEF NumberInv, Inv
<1>2. /\ at > 0 /\ at \in DOMAIN program /\ program \in Seq(Lines) /\ latest \in Machines
      /\ Done' = at + 1 /\ program' = program /\ latest' = latest /\ xfuncs' = xfuncs
      /\ \A m \in Machines : m # latest => code'[m] = code[m]
  BY <1>1, LineDone
<1>3. \A p, k : NumberedBefore(p, k)' = NumberedBefore(p, k)
  BY <1>2, SameNumbers
<1>4. \A p, k, x : FirstNamed(p, x, k)' <=> FirstNamed(p, x, k)
  BY DEF FirstNamed
<1>5. ASSUME NEW c, NumbersOf(c) PROVE NumbersOf(c)'
  BY <1>3, <1>4, <1>5 DEF NumbersOf
<1>6. SUFFICES ASSUME NEW m \in Machines PROVE NumbersOf(code[m])'
  <2>1. (\A m \in Machines : NumbersOf(code[m]))' => NumbersIndependent'
    BY NumbersAreOf DEF NumbersIndependent, NumbersOf
  <2> QED
    BY <2>1
<1>7. CASE m # latest
  <2>1. code'[m] = code[m] /\ NumbersOf(code[m])
    BY <1>1, <1>2, <1>7
  <2> QED
    BY <1>3, <1>4, <2>1 DEF NumbersOf
<1>8. CASE m = latest
  <2>1. SUFFICES ASSUME code'[latest].errors = 0, NEW x \in code'[latest].vars
                 PROVE \E k \in DOMAIN program : FirstNamed(program, x[1], k) /\ x[2] = Cardinality(NumberedBefore(program, k))
    <3>1. code'[latest].program = program
      BY <1>2 DEF program
    <3> QED
      BY <1>3, <1>4, <1>8, <3>1 DEF NumbersOf
  <2>2. Clean'
    BY <1>2, <2>1, MachinesAssumption DEF Clean
  <2>3. Clean /\ LineAccepted
    BY <1>1, <2>2, StillClean
  <2>4. LineRead /\ \E t, v : Outcome(t, v)
    BY <1>1, <2>3, LineOutcome DEF LineAccepted, ReadsLine
  <2>5. PICK t, v : Outcome(t, v)
    BY <2>4
  <2>6. Turn(t, v)
    BY <1>1, <2>3, <2>4, <2>5, AcceptedTurn
  <2>7. Recorded(code'[latest], t, v)
    BY <1>1, <1>2, <2>3, <2>4, <2>6, AcceptedRecorded
  <2>8. CASE x \in code[latest].vars
    <3>1. NumbersOf(code[latest]) /\ code[latest].errors = 0
      BY <1>1, <1>2, <2>3 DEF Clean
    <3> QED
      BY <2>8, <3>1 DEF NumbersOf, program
  <2>9. CASE x \notin code[latest].vars
    <3>1. t \in Variables /\ x = <<name, v>>
      BY <2>1, <2>7, <2>9 DEF Recorded
    <3>2. here \in Behind' /\ table'[here].name = name /\ table'[here].type = t /\ table'[here].value = v
      BY <2>3, <2>4, <2>5, <2>6, <3>1, RecordedBehind DEF NumberInv
    <3>3. VariablesMet'
      BY <2>2, LineKeepsNumbering DEF NumberInv, Numbering
    <3>4. \E f \in DOMAIN program : FirstNamed(program, name, f) /\ v = Cardinality(NumberedBefore(program, f))
      BY <1>2, <1>3, <1>4, <3>1, <3>2, <3>3 DEF VariablesMet, NumberOf
    <3> QED
      BY <3>1, <3>4
  <2> QED
    BY <2>8, <2>9
<1> QED
  BY <1>7, <1>8

\* A line keeps it all.
LEMMA LineKeepsNumberInv == ASSUME NumberInv, CompileLine PROVE NumberInv'
<1>1. latest' = latest /\ latest # NoMachine
  BY LineDone, MachinesAssumption DEF NumberInv, Inv
<1>2. NothingCompiled'
  BY <1>1 DEF NothingCompiled
<1> QED
  BY <1>2, LineKeepsInv, LineKeepsNumbering, LineKeepsCode DEF NumberInv

\* A compilation counts from 0.
LEMMA CompileKeepsNumberInv == ASSUME NumberInv, NEW m \in Machines, NEW p \in Programs, Compile(m, p)
                               PROVE NumberInv'
<1>1. Inv'
  BY CompileKeepsInv DEF NumberInv
<1>2. CodeTyped' /\ program' = p /\ code'[m] = [NoCode EXCEPT !.program = p]
      /\ \A k \in Machines : k # m => code'[k] = code[k]
  BY CodeCleared DEF NumberInv
<1>3. /\ DOMAIN table' = 1 .. startOfVars /\ startOfVars \in Nat /\ startOfVars' = startOfVars
      /\ currVarIdx' = 0 /\ xfuncs' = xfuncs /\ latest' = m
  BY TableCleared DEF NumberInv
<1>4. NothingCompiled'
  BY <1>3, MachinesAssumption DEF NothingCompiled
<1>5. Done' = 1
  <2>1. at' = LineAfter(p, 0) /\ p \in Seq(Lines)
    BY NamesAssumption DEF Compile, Lines
  <2> QED
    BY <1>2, <2>1 DEF Done, LineAfter
<1>6. NamedBefore(program, Done)' = {} /\ NumberedBefore(program, Done)' = {}
  <2>1. 1 .. 1 - 1 = {}
    OBVIOUS
  <2> QED
    BY <1>5, <2>1 DEF NamedBefore, NumberedBefore
<1>7. Behind' = {}
  BY <1>3 DEF Behind
<1>8. Numbering'
  <2>1. NumberCounted'
    BY <1>3, <1>6, FS_EmptySet DEF NumberCounted
  <2>2. NamesMet'
    BY <1>6, <1>7 DEF NamesMet
  <2>3. LabelsMet' /\ VariablesMet'
    BY <1>7 DEF LabelsMet, VariablesMet
  <2> QED
    BY <2>1, <2>2, <2>3 DEF Numbering
<1>9. NumbersIndependent'
  <2>1. \A q, k : NumberedBefore(q, k)' = NumberedBefore(q, k)
    BY <1>3, SameNumbers
  <2>2. \A q, k, x : FirstNamed(q, x, k)' <=> FirstNamed(q, x, k)
    BY DEF FirstNamed
  <2>3. code'[m].vars = {}
    BY <1>2 DEF NoCode
  <2>4. ASSUME NEW k \in Machines PROVE NumbersOf(code[k])'
    <3>1. CASE k = m
      BY <2>3, <3>1 DEF NumbersOf
    <3>2. CASE k # m
      <4>1. NumbersOf(code[k])
        BY NumbersAreOf DEF NumberInv
      <4>2. code'[k] = code[k]
        BY <1>2, <3>2
      <4> QED
        BY <2>1, <2>2, <4>1, <4>2 DEF NumbersOf
    <3> QED
      BY <3>1, <3>2
  <2> QED
    BY <2>4 DEF NumbersIndependent, NumbersOf
<1> QED
  BY <1>1, <1>4, <1>8, <1>9 DEF NumberInv

\* Functions are registered before there are numbers.
LEMMA DefineKeepsNumberInv == ASSUME ~RegisterLate, NumberInv, NEW f \in XNames, Define(f) PROVE NumberInv'
<1>1. Inv'
  BY DefineKeepsInv DEF NumberInv
<1>2. latest = NoMachine /\ latest' = latest /\ code' = code
  BY DEF Define
<1>3. NothingCompiled'
  BY <1>2 DEF NumberInv, NothingCompiled
<1>4. Numbering'
  BY <1>2 DEF Numbering, Clean
<1>5. NumbersIndependent'
  <2>1. \A m \in Machines : code'[m].vars = {}
    BY <1>2 DEF NumberInv, NothingCompiled, NoCode
  <2> QED
    BY <2>1 DEF NumbersIndependent
<1> QED
  BY <1>1, <1>3, <1>4, <1>5 DEF NumberInv

\* Nothing else changes them.
LEMMA StutterKeepsNumberInv == ASSUME NumberInv, UNCHANGED vars PROVE NumberInv'
<1>1. /\ table' = table /\ startOfVars' = startOfVars /\ currVarIdx' = currVarIdx /\ xfuncs' = xfuncs
      /\ code' = code /\ latest' = latest /\ at' = at /\ constants' = constants
  BY DEF vars
<1>2. Inv'
  BY StutterKeepsInv DEF NumberInv
<1>3. program' = program /\ Behind' = Behind
  BY <1>1 DEF program, Behind
<1>4. Done' = Done /\ (Clean' <=> Clean)
  BY <1>1, <1>3 DEF Done, Clean
<1>5. /\ \A p, k : NumberedBefore(p, k)' = NumberedBefore(p, k)
      /\ \A x : IsName(x)' <=> IsName(x)
  BY <1>1, SameNumbers
<1>6. /\ \A p, k, x : FirstNamed(p, x, k)' <=> FirstNamed(p, x, k)
      /\ \A p, k, x : IsLabelIn(p, x, k)' <=> IsLabelIn(p, x, k)
  BY DEF FirstNamed, IsLabelIn
<1>7. NumberedBefore(program, Done)' = NumberedBefore(program, Done) /\ NamedBefore(program, Done)' = NamedBefore(program, Done)
  BY <1>1, <1>3, <1>4 DEF NumberedBefore, NamedBefore, IsName, IsLabelIn
<1>8. NumberCounted' <=> NumberCounted
  BY <1>1, <1>7 DEF NumberCounted
<1>9. NamesMet' <=> NamesMet
  BY <1>1, <1>3, <1>5, <1>7 DEF NamesMet
<1>10. LabelsMet' <=> LabelsMet
  BY <1>1, <1>3, <1>4 DEF LabelsMet, IsLabelIn
<1>11. VariablesMet' <=> VariablesMet
  <2>1. \A x : IsLabelIn(program, x, Done)' <=> IsLabelIn(program, x, Done)
    BY <1>3, <1>4 DEF IsLabelIn
  <2>2. \A x, w : NumberOf(program, Done, x, w)' <=> NumberOf(program, Done, x, w)
    BY <1>3, <1>4, <1>5, <1>6 DEF NumberOf
  <2> QED
    BY <1>1, <1>3, <2>1, <2>2 DEF VariablesMet
<1>12. Numbering'
  BY <1>4, <1>8, <1>9, <1>10, <1>11 DEF NumberInv, Numbering
<1>13. NothingCompiled'
  BY <1>1 DEF NumberInv, NothingCompiled
<1>14. NumbersIndependent'
  BY <1>1, <1>5, <1>6 DEF NumberInv, NumbersIndependent
<1> QED
  BY <1>2, <1>12, <1>13, <1>14 DEF NumberInv

\* No names, no numbers.
LEMMA InitNumbers == ASSUME Init PROVE NumberInv
<1>1. latest = NoMachine /\ code = [m \in Machines |-> NoCode]
  BY DEF Init
<1>2. Numbering /\ NothingCompiled
  BY <1>1 DEF Numbering, Clean, NothingCompiled
<1>3. NumbersIndependent
  BY <1>1 DEF NumbersIndependent, NoCode
<1> QED
  BY <1>2, <1>3, InitHolds DEF NumberInv

\* Every step keeps the numbers.
LEMMA StepKeepsNumberInv == ASSUME ~RegisterLate, NumberInv, [Next]_vars PROVE NumberInv'
<1>1. CASE \E f \in XNames : Define(f)
  BY <1>1, DefineKeepsNumberInv
<1>2. CASE \E m \in Machines, p \in Programs : Compile(m, p)
  BY <1>2, CompileKeepsNumberInv
<1>3. CASE CompileLine
  BY <1>3, LineKeepsNumberInv
<1>4. CASE UNCHANGED vars
  BY <1>4, StutterKeepsNumberInv
<1> QED
  BY <1>1, <1>2, <1>3, <1>4 DEF Next

\* The invariant of the numbers holds whatever is compiled.
THEOREM NumberInvariance == ASSUME ~RegisterLate PROVE Spec => []NumberInv
<1>1. Init => NumberInv
  BY InitNumbers
<1>2. NumberInv /\ [Next]_vars => NumberInv'
  BY StepKeepsNumberInv
<1> QED
  BY <1>1, <1>2, PTL DEF Spec

\* The numbers in the code of a machine follow from its own program, whatever was
\* compiled before it and for whom: programs of any length, with labels that are
\* variables until they are seen to be labels.
THEOREM NumbersAlwaysIndependent == ASSUME ~RegisterLate PROVE Spec => []NumbersIndependent
<1>1. NumberInv => NumbersIndependent
  BY DEF NumberInv
<1> QED
  BY <1>1, NumberInvariance, PTL

-----------------------------------------------------------------------------
\* What the host is told of the program compiled last, if its labels are nothing else.
IndexOf(i) == Cardinality({k \in Listed : k < i})
ListCounted == currVarIdx = Cardinality(Listed)
ListNumbered == \A i \in Listed : table[i].type \in Variables => table[i].value = IndexOf(i)
VariablesListed == code[latest].vars \subseteq VariableList
LabelsKnown == \A x \in code[latest].labels :
                  x[2] # 0 /\ \E i \in Behind : table[i] = Symbol(x[1], "LABEL", x[2])
UsesMet == \A i \in Behind : \E j \in DOMAIN program :
              /\ j < Done /\ Key[program[j].name] = table[i].name
              /\ program[j].use \in LabelUses <=> table[i].type = "LABEL"
Hosted == Clean /\ LabelsApart(program) =>
            ListCounted /\ ListNumbered /\ VariablesListed /\ LabelsKnown /\ UsesMet

\* What is listed is behind StartOfVars.
LEMMA ListedIs == ASSUME SymbolsTyped PROVE Listed = {i \in Behind : table[i].type # "LABEL"}
<1>1. /\ table \in Seq(Entries) /\ DOMAIN table = 1 .. Len(table) /\ Len(table) \in Nat
      /\ startOfVars \in Nat /\ startOfVars <= Len(table)
  BY DEF SymbolsTyped
<1>2. \A i : i \in startOfVars + 1 .. Len(table) <=> i \in Behind
  BY <1>1 DEF Behind
<1> QED
  BY <1>2 DEF Listed

\* And so it is after a step.
LEMMA ListedNext == ASSUME SymbolsTyped' PROVE Listed' = {i \in Behind' : table'[i].type # "LABEL"}
<1>1. /\ table' \in Seq(Entries) /\ DOMAIN table' = 1 .. Len(table') /\ Len(table') \in Nat
      /\ startOfVars' \in Nat /\ startOfVars' <= Len(table')
  BY DEF SymbolsTyped
<1>2. \A i : i \in startOfVars' + 1 .. Len(table') <=> i \in Behind'
  BY <1>1 DEF Behind
<1> QED
  BY <1>2 DEF Listed

\* There are finitely many.
LEMMA ListedFinite == ASSUME SymbolsTyped
                      PROVE /\ IsFiniteSet(Listed) /\ Cardinality(Listed) \in Nat
                            /\ Listed \subseteq DOMAIN table /\ DOMAIN table = 1 .. Len(table) /\ Len(table) \in Nat
<1>1. table \in Seq(Entries) /\ DOMAIN table = 1 .. Len(table) /\ Len(table) \in Nat
  BY DEF SymbolsTyped
<1>2. Listed \subseteq DOMAIN table
  BY ListedIs DEF Behind
<1>3. IsFiniteSet(DOMAIN table)
  BY <1>1, FS_Interval
<1> QED
  BY <1>1, <1>2, <1>3, FS_Subset, FS_CardinalityType

\* A name of a label was a label before, another one was none.
LEMMA UseKept == ASSUME Inv, Hosted, Clean, LabelsApart(program), CompileLine, here \in Behind, LineRead
                 PROVE line.use \in LabelUses <=> table[here].type = "LABEL"
<1>1. CodeTyped /\ SymbolsTyped
  BY DEF Inv
<1>2. /\ at \in DOMAIN program /\ program \in Seq(Lines) /\ line = program[at] /\ name = Key[program[at].name]
      /\ Done = at /\ name \in Keys /\ line.use \in Uses
  BY <1>1, LineDone, LineTyped
<1>3. table[here].name = name
  BY DEF Behind, LineRead, Named
<1>4. PICK j \in DOMAIN program : /\ Key[program[j].name] = name
                                  /\ program[j].use \in LabelUses <=> table[here].type = "LABEL"
  BY <1>3 DEF Hosted, UsesMet
<1>5. program[j].use \in Uses
  <2>1. PICK l \in Lines : l = program[j]
    BY <1>2, <1>4
  <2> QED
    BY <2>1 DEF Lines
<1>6. IsUsedAs(program, name, LabelUses) => ~IsUsedAs(program, name, Uses \ LabelUses)
  BY <1>2 DEF LabelsApart, LabelUses
<1>7. /\ line.use \in LabelUses => IsUsedAs(program, name, LabelUses)
      /\ line.use \notin LabelUses => IsUsedAs(program, name, Uses \ LabelUses)
      /\ program[j].use \in LabelUses => IsUsedAs(program, name, LabelUses)
      /\ program[j].use \notin LabelUses => IsUsedAs(program, name, Uses \ LabelUses)
  BY <1>2, <1>4, <1>5 DEF IsUsedAs
<1> QED
  BY <1>4, <1>6, <1>7

\* The list goes on at its end.
LEMMA ListGrows == ASSUME NumberInv, Hosted, Clean, LabelsApart(program), LineAccepted, LineRead,
                          NEW t, NEW v, Outcome(t, v), Turn(t, v)
                   PROVE /\ \/ Listed' = Listed /\ currVarIdx' = currVarIdx
                            \/ /\ here \notin DOMAIN table /\ here = Len(table) + 1
                               /\ Listed' = Listed \cup {here} /\ currVarIdx' = currVarIdx + 1
                               /\ v = currVarIdx \/ t \notin Variables
                         /\ here \in Behind /\ t \in Variables => v = table[here].value /\ table[here].type \in Variables
                         /\ t = "LABEL" => here \in Behind' /\ (here \in Behind => table[here].type = "LABEL")
<1>1. CompileLine /\ CodeTyped /\ SymbolsTyped /\ Inv /\ Numbering
  BY DEF LineAccepted, CompileLine, Inv, NumberInv
<1>2. /\ Len(table) \in Nat /\ Len(table') \in Nat
      /\ DOMAIN table = 1 .. Len(table) /\ DOMAIN table' = 1 .. Len(table')
      /\ here \in DOMAIN table' /\ table'[here].name = name /\ table'[here].type = t /\ table'[here].value = v
      /\ \A k \in DOMAIN table : k # here => table'[k] = table[k]
      /\ here \in DOMAIN table => Len(table') = Len(table)
      /\ here \notin DOMAIN table => Len(table') = Len(table) + 1 /\ here = Len(table) + 1
  BY <1>1, TableAfter
<1>3. startOfVars' = startOfVars /\ startOfVars \in Nat /\ startOfVars <= Len(table)
  BY <1>1, LineDone DEF SymbolsTyped
<1>4. Listed = {i \in Behind : table[i].type # "LABEL"} /\ Listed' = {i \in Behind' : table'[i].type # "LABEL"}
  BY <1>1, ListedIs, ListedNext, LineKeepsInv DEF Inv
<1>5. \A i : i # here => (i \in Listed' <=> i \in Listed)
  <2>1. ASSUME NEW i \in Behind', i # here PROVE i \in Behind /\ table'[i] = table[i]
    BY <1>1, <2>1, BehindAfter
  <2>2. ASSUME NEW i \in Behind, i # here PROVE i \in Behind' /\ table'[i] = table[i]
    <3>1. i \in DOMAIN table
      BY <2>2 DEF Behind
    <3>2. i \in DOMAIN table'
      BY <1>1, <3>1, TableAfter
    <3> QED
      BY <1>2, <1>3, <2>2, <3>1, <3>2 DEF Behind
  <2> QED
    BY <1>4, <2>1, <2>2
<1>6. \/ line.use \in LabelUses /\ t = "LABEL" /\ Met[here].type \in {"ID", "LABEL"}
      \/ line.use \notin LabelUses /\ t # "LABEL" /\ (t \in Variables => Met[here].type \in Variables)
  BY DEF Turn
<1>7. currVarIdx' = (IF t = "LABEL" /\ Met[here].type = "ID" THEN Counted - 1 ELSE Counted) /\ currVarIdx \in Nat
      /\ (t \notin {"LABEL", "CNST"} => v = Met[here].value)
  BY <1>1 DEF Outcome, SymbolsTyped
<1>8. CASE here \in DOMAIN table /\ here \notin Behind
  <2>1. line.use \notin LabelUses /\ Counted = currVarIdx
    BY <1>1, <1>8, NameSoFar
  <2>2. t # "LABEL" /\ currVarIdx' = currVarIdx
    BY <1>6, <1>7, <2>1
  <2>3. here \notin Behind'
    BY <1>3, <1>8 DEF Behind
  <2>4. Listed' = Listed
    BY <1>4, <1>5, <1>8, <2>3
  <2> QED
    BY <1>8, <2>2, <2>4
<1>9. CASE here \in Behind
  <2>1. Met[here].type = table[here].type /\ Counted = currVarIdx /\ here \in DOMAIN table
    BY <1>1, <1>9, NameSoFar DEF Behind
  <2>2. line.use \in LabelUses <=> table[here].type = "LABEL"
    BY <1>1, <1>9, UseKept
  <2>3. t = "LABEL" <=> table[here].type = "LABEL"
    BY <1>6, <2>2
  <2>4. here \in Behind'
    BY <1>2, <1>3, <1>9 DEF Behind
  <2>5. here \in Listed' <=> here \in Listed
    BY <1>2, <1>4, <1>9, <2>3, <2>4
  <2>6. Listed' = Listed
    BY <1>5, <2>5
  <2>7. currVarIdx' = currVarIdx
    BY <1>7, <2>1, <2>3
  <2>8. t \in Variables => v = table[here].value /\ table[here].type \in Variables
    <3>1. SUFFICES ASSUME t \in Variables PROVE v = table[here].value /\ table[here].type \in Variables
      OBVIOUS
    <3>2. v = Met[here].value /\ Met[here].type \in Variables
      BY <1>6, <1>7, <3>1 DEF Variables
    <3>3. Met[here] = table[here]
      BY <2>1, <3>2 DEF LineRead, Kept, Variables
    <3> QED
      BY <3>2, <3>3
  <2> QED
    BY <2>1, <2>3, <2>4, <2>6, <2>7, <2>8
<1>10. CASE here \notin DOMAIN table
  <2>1. Met[here].type \in {"ID", "SID"} /\ Met[here].value = currVarIdx /\ Counted = currVarIdx + 1
        /\ here = Len(table) + 1 /\ here \notin Behind
    BY <1>1, <1>2, <1>10, NameSoFar DEF Behind
  <2>2. here \in Behind'
    <3>1. PICK n \in Nat : n = Len(table)
      BY <1>2
    <3>2. here = n + 1 /\ startOfVars <= n
      BY <1>3, <2>1, <3>1
    <3>3. here > startOfVars
      BY <1>3, <3>2
    <3> QED
      BY <1>2, <1>3, <3>3 DEF Behind
  <2>3. CASE t = "LABEL"
    <3>1. here \notin Listed' /\ here \notin Listed
      BY <1>2, <1>4, <2>1, <2>3
    <3>2. Listed' = Listed
      BY <1>5, <3>1
    <3>3. Met[here].type = "ID"
      BY <1>6, <2>1, <2>3
    <3>4. currVarIdx' = (currVarIdx + 1) - 1
      BY <1>7, <2>1, <2>3, <3>3
    <3>5. currVarIdx' = currVarIdx
      BY <1>7, <3>4
    <3> QED
      BY <2>1, <2>2, <2>3, <3>2, <3>5
  <2>4. CASE t # "LABEL"
    <3>1. here \in Listed'
      BY <1>2, <1>4, <2>2, <2>4
    <3>2. Listed' = Listed \cup {here}
      BY <1>5, <3>1
    <3>3. currVarIdx' = currVarIdx + 1
      BY <1>7, <2>1, <2>4
    <3>4. v = currVarIdx \/ t \notin Variables
      BY <1>7, <2>1 DEF Variables
    <3> QED
      BY <1>10, <2>1, <2>4, <3>2, <3>3, <3>4
  <2> QED
    BY <2>3, <2>4
<1> QED
  BY <1>8, <1>9, <1>10

\* Places in the list stay.
LEMMA LineKeepsIndex == ASSUME NumberInv, Hosted, Clean, LabelsApart(program), LineAccepted, LineRead,
                               NEW t, NEW v, Outcome(t, v), Turn(t, v)
                        PROVE /\ currVarIdx' = Cardinality(Listed')
                              /\ \A i \in Listed : /\ i \in Listed' /\ table'[i].name = table[i].name
                                                   /\ Cardinality({k \in Listed' : k < i}) = IndexOf(i)
                              /\ here \in Listed' /\ t \in Variables => v = Cardinality({k \in Listed' : k < here})
<1>1. SymbolsTyped
  BY DEF NumberInv, Inv
<1>2. IsFiniteSet(Listed) /\ Cardinality(Listed) \in Nat
      /\ Listed \subseteq DOMAIN table /\ DOMAIN table = 1 .. Len(table) /\ Len(table) \in Nat
  BY <1>1, ListedFinite
<1>3. currVarIdx = Cardinality(Listed) /\ ListNumbered
  BY DEF Hosted, ListCounted
<1>4. \A i \in DOMAIN table : table'[i].name = table[i].name
  BY <1>1, TableAfter
<1>5. CASE Listed' = Listed /\ currVarIdx' = currVarIdx
  <2>1. \A i \in Listed : Cardinality({k \in Listed' : k < i}) = IndexOf(i)
    BY <1>5 DEF IndexOf
  <2>2. ASSUME here \in Listed', t \in Variables PROVE v = Cardinality({k \in Listed' : k < here})
    <3>1. here \in Behind
      BY <1>1, <1>5, <2>2, ListedIs
    <3>2. v = table[here].value /\ table[here].type \in Variables
      BY <2>2, <3>1, ListGrows
    <3>3. v = IndexOf(here)
      BY <1>3, <1>5, <2>2, <3>2 DEF ListNumbered
    <3> QED
      BY <1>5, <3>3 DEF IndexOf
  <2> QED
    BY <1>2, <1>3, <1>4, <1>5, <2>1, <2>2
<1>6. CASE /\ here \notin DOMAIN table /\ here = Len(table) + 1
           /\ Listed' = Listed \cup {here} /\ currVarIdx' = currVarIdx + 1
           /\ v = currVarIdx \/ t \notin Variables
  <2>1. here \notin Listed
    BY <1>2, <1>6
  <2>2. Cardinality(Listed') = Cardinality(Listed) + 1
    BY <1>2, <1>6, <2>1, FS_AddElement
  <2>3. \A i \in Listed : i \in 1 .. Len(table)
    BY <1>2
  <2>4. \A i \in Listed : i < here /\ ~(here < i)
    BY <1>2, <1>6, <2>3
  <2>5. \A i \in Listed : {k \in Listed' : k < i} = {k \in Listed : k < i}
    BY <1>6, <2>4
  <2>6. {k \in Listed' : k < here} = Listed
    <3>1. ~(here < here)
      BY <1>2, <1>6
    <3> QED
      BY <1>6, <2>4, <3>1
  <2> QED
    BY <1>2, <1>3, <1>4, <1>6, <2>2, <2>5, <2>6 DEF IndexOf
<1> QED
  BY <1>5, <1>6, ListGrows

\* The labels of the code are in the table.
LEMMA LineKeepsLabels == ASSUME NumberInv, Hosted, Clean, LabelsApart(program), LineAccepted, LineRead,
                                NEW t, NEW v, Outcome(t, v), Turn(t, v)
                         PROVE LabelsKnown'
<1>1. CompileLine /\ CodeTyped /\ SymbolsTyped /\ Inv /\ Numbering
  BY DEF LineAccepted, CompileLine, Inv, NumberInv
<1>2. at > 0 /\ at \in Nat /\ latest' = latest /\ startOfVars' = startOfVars
  BY <1>1, LineDone
<1>3. Recorded(code'[latest], t, v)
  BY <1>1, <1>2, AcceptedRecorded
<1>4. /\ here \in DOMAIN table' /\ table'[here] = Symbol(name, t, v)
      /\ \A k \in DOMAIN table : k \in DOMAIN table' /\ (k # here => table'[k] = table[k])
      /\ here \in DOMAIN table => table[here].name = name
  BY <1>1, TableAfter
<1>5. LabelsKnown
  BY DEF Hosted
<1>6. ASSUME NEW x \in code[latest].labels, x[1] # name \/ line.use # "label"
      PROVE x[2] # 0 /\ \E i \in Behind' : table'[i] = Symbol(x[1], "LABEL", x[2])
  <2>1. PICK i \in Behind : table[i] = Symbol(x[1], "LABEL", x[2])
    BY <1>5, <1>6 DEF LabelsKnown
  <2>2. x[2] # 0 /\ table[i].name = x[1] /\ table[i].type = "LABEL" /\ table[i].value = x[2]
    BY <1>5, <1>6, <2>1 DEF LabelsKnown, Symbol
  <2>3. i \in Behind'
    BY <1>2, <1>4, <2>1 DEF Behind
  <2>4. CASE i # here
    BY <1>4, <2>1, <2>2, <2>3, <2>4 DEF Behind
  <2>5. CASE i = here
    <3>1. here \in DOMAIN table /\ x[1] = name
      BY <1>4, <2>1, <2>2, <2>5 DEF Behind
    <3>2. line.use = "goto"
      BY <1>1, <1>6, <2>1, <2>2, <2>5, <3>1, UseKept DEF LabelUses
    <3>3. t = "LABEL" /\ v = Met[here].value
      BY <3>2 DEF Turn, LabelUses
    <3>4. Met[here] = table[here]
      BY <2>2, <2>5, <3>1 DEF LineRead, Kept
    <3> QED
      BY <1>4, <2>2, <2>3, <2>5, <3>1, <3>3, <3>4
  <2> QED
    BY <2>4, <2>5
<1>7. CASE line.use = "label"
  <2>1. v = at /\ t = "LABEL" /\ at # 0
    BY <1>2, <1>7 DEF Turn, LabelUses
  <2>2. here \in Behind'
    BY <2>1, ListGrows
  <2>3. code'[latest].labels = {x \in code[latest].labels : x[1] # name} \cup {<<name, v>>}
    BY <1>3, <1>7 DEF Recorded
  <2> QED
    BY <1>2, <1>4, <1>6, <2>1, <2>2, <2>3 DEF LabelsKnown
<1>8. CASE line.use # "label"
  <2>1. code'[latest].labels = code[latest].labels
    BY <1>3, <1>8 DEF Recorded
  <2> QED
    BY <1>2, <1>6, <1>8, <2>1 DEF LabelsKnown
<1> QED
  BY <1>7, <1>8

\* A name stays a label or stays none.
LEMMA LineKeepsUses == ASSUME NumberInv, Hosted, Clean, LabelsApart(program), LineAccepted, LineRead,
                              NEW t, NEW v, Outcome(t, v), Turn(t, v)
                       PROVE UsesMet'
<1>1. CompileLine /\ CodeTyped /\ SymbolsTyped /\ Inv
  BY DEF LineAccepted, CompileLine, Inv, NumberInv
<1>2. at \in DOMAIN program /\ program' = program /\ Done = at /\ Done' = at + 1 /\ at \in Nat
      /\ line = program[at] /\ name = Key[program[at].name] /\ program \in Seq(Lines)
  BY <1>1, LineDone
<1>3. SUFFICES ASSUME NEW i \in Behind'
               PROVE \E j \in DOMAIN program : /\ j < at + 1 /\ Key[program[j].name] = table'[i].name
                                               /\ program[j].use \in LabelUses <=> table'[i].type = "LABEL"
  BY <1>2 DEF UsesMet
<1>4. CASE i = here
  <2>1. table'[i].name = name /\ table'[i].type = t
    BY <1>1, <1>4, TableAfter
  <2>2. line.use \in LabelUses <=> t = "LABEL"
    BY DEF Turn
  <2> QED
    BY <1>2, <2>1, <2>2
<1>5. CASE i # here
  <2>1. i \in Behind /\ table'[i] = table[i]
    BY <1>1, <1>3, <1>5, BehindAfter
  <2>2. PICK j \in DOMAIN program : /\ j < at /\ Key[program[j].name] = table[i].name
                                    /\ program[j].use \in LabelUses <=> table[i].type = "LABEL"
    BY <1>2, <2>1 DEF Hosted, UsesMet
  <2>3. j < at + 1
    BY <1>2, <2>2
  <2> QED
    BY <2>1, <2>2, <2>3
<1> QED
  BY <1>4, <1>5

\* A line keeps what the host is told.
LEMMA LineKeepsHosted == ASSUME NumberInv, Hosted, CompileLine PROVE Hosted'
<1>1. CodeTyped /\ SymbolsTyped /\ Inv
  BY DEF Inv, NumberInv
<1>2. at > 0 /\ program' = program /\ latest' = latest /\ startOfVars' = startOfVars
  BY <1>1, LineDone
<1>3. LabelsApart(program)' <=> LabelsApart(program)
  BY <1>2 DEF LabelsApart, IsUsedAs
<1>4. SUFFICES ASSUME Clean', LabelsApart(program)
               PROVE ListCounted' /\ ListNumbered' /\ VariablesListed' /\ LabelsKnown' /\ UsesMet'
  BY <1>3 DEF Hosted
<1>5. Clean /\ LineAccepted
  BY <1>1, <1>4, StillClean
<1>6. LineRead /\ \E t, v : Outcome(t, v)
  BY <1>1, <1>5, LineOutcome DEF LineAccepted, ReadsLine
<1>7. PICK t, v : Outcome(t, v)
  BY <1>6
<1>8. Turn(t, v)
  BY <1>1, <1>5, <1>6, <1>7, AcceptedTurn
<1>9. LabelsKnown' /\ UsesMet'
  BY <1>4, <1>5, <1>6, <1>7, <1>8, LineKeepsLabels, LineKeepsUses
<1>10. /\ currVarIdx' = Cardinality(Listed')
       /\ \A i \in Listed : /\ i \in Listed' /\ table'[i].name = table[i].name
                            /\ Cardinality({k \in Listed' : k < i}) = IndexOf(i)
       /\ here \in Listed' /\ t \in Variables => v = Cardinality({k \in Listed' : k < here})
  BY <1>4, <1>5, <1>6, <1>7, <1>8, LineKeepsIndex
<1>11. ListCounted'
  BY <1>10 DEF ListCounted
<1>12. Listed' = {i \in Behind' : table'[i].type # "LABEL"} /\ Listed = {i \in Behind : table[i].type # "LABEL"}
  BY <1>1, <1>5, LineKeepsInv, ListedIs, ListedNext DEF Inv
<1>13. ListNumbered'
  <2>1. SUFFICES ASSUME NEW i \in Listed', table'[i].type \in Variables
                 PROVE table'[i].value = Cardinality({k \in Listed' : k < i})
    BY DEF ListNumbered, IndexOf
  <2>2. CASE i = here
    <3>1. table'[i].type = t /\ table'[i].value = v
      BY <1>1, <1>6, <1>7, <2>2, TableAfter
    <3> QED
      BY <1>10, <2>1, <2>2, <3>1
  <2>3. CASE i # here
    <3>1. i \in Behind /\ table'[i] = table[i]
      BY <1>1, <1>6, <1>7, <1>12, <2>1, <2>3, BehindAfter
    <3>2. i \in Listed
      BY <1>12, <2>1, <3>1
    <3>3. table[i].value = IndexOf(i)
      BY <1>4, <1>5, <2>1, <3>1, <3>2 DEF Hosted, ListNumbered
    <3> QED
      BY <1>10, <3>1, <3>2, <3>3
  <2> QED
    BY <2>2, <2>3
<1>14. VariablesListed'
  <2>1. Recorded(code'[latest], t, v)
    BY <1>1, <1>2, <1>5, <1>6, <1>8, AcceptedRecorded
  <2>2. SUFFICES ASSUME NEW x \in code'[latest].vars
                 PROVE \E i \in Listed' : x = <<table'[i].name, Cardinality({k \in Listed' : k < i})>>
    BY <1>2 DEF VariablesListed, VariableList
  <2>3. CASE x \in code[latest].vars
    <3>1. PICK i \in Listed : x = <<table[i].name, IndexOf(i)>>
      BY <1>4, <1>5, <2>3 DEF Hosted, VariablesListed, VariableList, IndexOf
    <3> QED
      BY <1>10, <3>1
  <2>4. CASE x \notin code[latest].vars
    <3>1. t \in Variables /\ x = <<name, v>>
      BY <2>1, <2>2, <2>4 DEF Recorded
    <3>2. here \in Behind' /\ table'[here].name = name /\ table'[here].type = t
      BY <1>1, <1>5, <1>6, <1>7, <1>8, <3>1, RecordedBehind
    <3>3. here \in Listed'
      BY <1>12, <3>1, <3>2 DEF Variables
    <3> QED
      BY <1>10, <3>1, <3>2, <3>3
  <2> QED
    BY <2>3, <2>4
<1> QED
  BY <1>9, <1>11, <1>13, <1>14

\* A compilation starts with nothing to tell.
LEMMA CompileKeepsHosted == ASSUME Inv, NEW m \in Machines, NEW p \in Programs, Compile(m, p) PROVE Hosted'
<1>1. SymbolsTyped'
  BY CompileKeepsInv DEF Inv
<1>2. DOMAIN table' = 1 .. startOfVars /\ startOfVars \in Nat /\ startOfVars' = startOfVars /\ currVarIdx' = 0
      /\ latest' = m
  BY TableCleared
<1>3. code'[m].vars = {} /\ code'[m].labels = {}
  BY CodeCleared DEF NoCode
<1>4. Behind' = {}
  BY <1>2 DEF Behind
<1>5. Listed' = {}
  BY <1>1, <1>4, ListedNext
<1>6. ListCounted' /\ ListNumbered'
  BY <1>2, <1>5, FS_EmptySet DEF ListCounted, ListNumbered
<1>7. VariablesListed' /\ LabelsKnown' /\ UsesMet'
  BY <1>2, <1>3, <1>4 DEF VariablesListed, LabelsKnown, UsesMet
<1> QED
  BY <1>6, <1>7 DEF Hosted

\* Nothing else changes it.
LEMMA StutterKeepsHosted == ASSUME Hosted, UNCHANGED vars PROVE Hosted'
<1>1. /\ table' = table /\ startOfVars' = startOfVars /\ currVarIdx' = currVarIdx
      /\ code' = code /\ latest' = latest /\ at' = at
  BY DEF vars
<1>2. program' = program /\ Behind' = Behind /\ Listed' = Listed
  BY <1>1 DEF program, Behind, Listed
<1>3. Done' = Done /\ (Clean' <=> Clean) /\ (LabelsApart(program)' <=> LabelsApart(program))
  BY <1>1, <1>2 DEF Done, Clean, LabelsApart, IsUsedAs
<1>4. VariableList' = VariableList /\ \A i : IndexOf(i)' = IndexOf(i)
  BY <1>1, <1>2 DEF VariableList, IndexOf
<1>5. (ListCounted' <=> ListCounted) /\ (ListNumbered' <=> ListNumbered) /\ (VariablesListed' <=> VariablesListed)
  BY <1>1, <1>2, <1>4 DEF ListCounted, ListNumbered, VariablesListed
<1>6. (LabelsKnown' <=> LabelsKnown) /\ (UsesMet' <=> UsesMet)
  BY <1>1, <1>2, <1>3 DEF LabelsKnown, UsesMet
<1> QED
  BY <1>3, <1>5, <1>6 DEF Hosted

\* Every step keeps it.
LEMMA StepKeepsHosted == ASSUME ~RegisterLate, NumberInv, Hosted, [Next]_vars PROVE Hosted'
<1>1. CASE \E f \in XNames : Define(f)
  <2>1. latest' = NoMachine
    BY <1>1 DEF Define
  <2> QED
    BY <2>1 DEF Hosted, Clean
<1>2. CASE \E m \in Machines, p \in Programs : Compile(m, p)
  BY <1>2, CompileKeepsHosted DEF NumberInv
<1>3. CASE CompileLine
  BY <1>3, LineKeepsHosted
<1>4. CASE UNCHANGED vars
  BY <1>4, StutterKeepsHosted
<1> QED
  BY <1>1, <1>2, <1>3, <1>4 DEF Next

\* HostFindsNames follows.
LEMMA HostedFinds == ASSUME Inv, Hosted PROVE HostFindsNames
<1>1. SUFFICES ASSUME Clean, LabelsApart(program)
               PROVE /\ code[latest].vars \subseteq VariableList
                     /\ \A x \in code[latest].labels : LabelAddress(x[1]) = x[2]
  BY DEF HostFindsNames, Clean
<1>2. code[latest].vars \subseteq VariableList /\ LabelsKnown
  BY <1>1 DEF Hosted, VariablesListed
<1>3. ASSUME NEW x \in code[latest].labels PROVE LabelAddress(x[1]) = x[2]
  <2>1. PICK i \in Behind : table[i] = Symbol(x[1], "LABEL", x[2])
    BY <1>2 DEF LabelsKnown
  <2>2. table[i].name = x[1] /\ table[i].type = "LABEL" /\ table[i].value = x[2]
    BY <2>1 DEF Symbol
  <2>3. /\ DOMAIN table = 1 .. Len(table) /\ Len(table) \in Nat /\ Unique(table)
        /\ startOfVars \in Nat /\ startOfVars <= Len(table)
    BY DEF Inv, SymbolsTyped
  <2>4. i \in startOfVars + 1 .. Len(table) /\ i # 0
    BY <2>1, <2>3 DEF Behind
  <2> DEFINE I == {k \in startOfVars + 1 .. Len(table) : table[k].type = "LABEL" /\ table[k].name = x[1]}
  <2>5. \A k \in startOfVars + 1 .. Len(table) : k \in DOMAIN table
    BY <2>3
  <2>6. I = {i}
    BY <2>2, <2>3, <2>4, <2>5 DEF Unique
  <2>7. Min({i}) = i
    BY <2>4 DEF Min
  <2>8. SelectInSubSeq(table, startOfVars + 1, Len(table), LAMBDA e : e.type = "LABEL" /\ e.name = x[1]) = i
    BY <2>6, <2>7 DEF SelectInSubSeq
  <2> QED
    BY <2>2, <2>4, <2>8 DEF LabelAddress
<1> QED
  BY <1>2, <1>3

\* After every compilation without an error the host finds the variables and the
\* labels of that program where its code has them, for tables of every size.
THEOREM HostAlwaysFinds == ASSUME ~RegisterLate PROVE Spec => []HostFindsNames
<1>1. Init => NumberInv /\ Hosted
  <2>1. Init => Hosted
    BY DEF Init, Hosted, Clean
  <2> QED
    BY <2>1, InitNumbers
<1>2. NumberInv /\ Hosted /\ [Next]_vars => (NumberInv /\ Hosted)'
  BY StepKeepsNumberInv, StepKeepsHosted
<1>3. NumberInv /\ Hosted => HostFindsNames
  BY HostedFinds DEF NumberInv
<1> QED
  BY <1>1, <1>2, <1>3, PTL DEF Spec
=============================================================================
