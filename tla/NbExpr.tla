-------------------------------- MODULE NbExpr --------------------------------
(***************************************************************************)
(* Expressions: from the characters of a line over the code that the       *)
(* functions compile_expression to compile_factor of the compiler          *)
(* (src/src/nb_compiler.c) make of them to the word that the interpreter   *)
(* (src/src/nb_runtime.c) leaves on its stack, compared with what the text *)
(* means by its grammar.                                                   *)
(*                                                                         *)
(* A text is a sequence of lexemes, each with the token it is meant as.    *)
(* Values are integers and texts; that they fit into words and buffers is  *)
(* not a question here.  A text that is made lies in one of two buffers,   *)
(* which are used in turn.                                                 *)
(***************************************************************************)
EXTENDS NbScanner, FiniteSets

CONSTANTS
    Alphabets,    \* sets of lexemes: spelling and the tokens it stands for
    MaxLexemes,
    Functions,    \* kind -> types of the parameters, instruction, type
    XFuncs,       \* name of an external function -> types of the parameters, type
    Value,        \* name -> value of the variable or constant
    Apply(_, _)   \* instruction or external function, operands -> result

VARIABLES alphabet, text
vars == <<alphabet, text>>

Ins(op, arg) == [op |-> op, arg |-> arg]

-----------------------------------------------------------------------------
(***************************************************************************)
(* The compiler.  A state of it: the rest of the line, the code, the type  *)
(* that the function returned, and whether error() was called.             *)
(***************************************************************************)
Tok(c) == IF c.line = <<>> THEN EndOfLine ELSE Head(c.line)
Failed(c) == [c EXCEPT !.ok = FALSE]
Emit(c, op, arg) == [c EXCEPT !.code = Append(@, Ins(op, arg))]
Typed(c, t) == [c EXCEPT !.type = t]
Match(c, k) == IF ~c.ok THEN c
               ELSE IF Tok(c).kind = k THEN [c EXCEPT !.line = Tail(@)] ELSE Failed(c)
Demand(c, types) == IF c.type \in types THEN c ELSE Failed(c)

\* The operators of compile_expression, and_expr, comp_expr, add_expr, term.
Operators(level) == CASE level = "or"   -> {"OR"}
                      [] level = "and"  -> {"AND"}
                      [] level = "comp" -> {"EQ", "NQ", "LE", "LQ", "GR", "GQ"}
                      [] level = "add"  -> {"+", "-"}
                      [] level = "term" -> {"*", "/", "MOD"}
Tighter(level) == CASE level = "or" -> "and" [] level = "and" -> "not"
                    [] level = "comp" -> "add" [] level = "add" -> "term"
                    [] level = "term" -> "neg"

\* What an operator demands of its operands, and the instruction it becomes.
Fits(op, t1, t2) ==
    CASE op \in {"OR", "AND", "*", "/", "MOD"} -> t1 = "NUM" /\ t2 = "NUM"
      [] op = "-" -> t1 = t2 /\ t1 = "NUM"
      [] OTHER -> t1 = t2
Instruction(op, t) ==
    CASE op = "+" -> IF t = "NUM" THEN "ADD" ELSE "ADD_STR"
      [] op \in Operators("comp") -> IF t = "STR" THEN "STR_" \o op ELSE op
      [] OTHER -> op

RECURSIVE Compile(_, _), Rest(_, _), Args(_, _, _), Params(_, _, _)

\* The loop of a level, behind its first operand.
Rest_mA(level, c) ==             \* the operators of a level are taken from the right
    IF ~c.ok \/ Tok(c).kind \notin Operators(level) THEN c
    ELSE LET op == Tok(c).kind
             second == Compile(level, Match(c, op))
         IN IF second.ok /\ Fits(op, c.type, second.type)
            THEN Typed(Emit(second, Instruction(op, c.type), 0), c.type)
            ELSE Failed(second)

Rest(level, c) ==
    IF ~c.ok \/ Tok(c).kind \notin Operators(level) THEN c
    ELSE LET op == Tok(c).kind
             second == Compile(Tighter(level), Match(c, op))
         IN IF second.ok /\ Fits(op, c.type, second.type)
            THEN Rest(level, Typed(Emit(second, Instruction(op, c.type), 0), c.type))
            ELSE Failed(second)

\* compile_expression with the type that the caller demands
Expression(c, type) == LET e == Compile("or", c)
                       IN IF type = "ANY" THEN e ELSE Demand(e, {type})

Not(c) == IF Tok(c).kind = "NOT"
          THEN Emit(Demand(Compile("comp", Match(c, "NOT")), {"NUM"}), "NOT", 0)
          ELSE Compile("comp", c)

Neg(c) == IF Tok(c).kind = "-"
          THEN Emit(Compile("factor", Match(c, "-")), "NEG", 0)
          ELSE Compile("factor", c)

\* The parameters of a function of the language, from the i-th on.
Args(c, types, i) == IF i > Len(types) THEN c
                     ELSE LET open == IF i = 1 THEN c ELSE Match(c, ",")
                          IN Args(Expression(open, types[i]), types, i + 1)
Call(c, kind) ==
    LET f == Functions[kind]
    IN Typed(Emit(Match(Args(Match(Match(c, kind), "("), f.types, 1), ")"), f.ins, Tok(c).value),
             f.type)

\* compile_xfunc: parameters that are left out at the end are 0.
Default(c, n) == [c EXCEPT !.code = @ \o [k \in 1 .. 2 * n |->
                     IF k % 2 = 1 THEN Ins("PUSH", 0) ELSE Ins("PUSH_PARAM", 0)]]
Params(c, types, i) ==
    IF ~c.ok \/ i > Len(types) THEN c
    ELSE LET p == Emit(Expression(c, types[i]), "PUSH_PARAM", 0)
         IN CASE Tok(p).kind = "," -> Params(Match(p, ","), types, i + 1)
              [] Tok(p).kind = ")" -> Default(p, Len(types) - i)
              [] OTHER -> Failed(p)
XFunc(c) == LET f == XFuncs[Tok(c).value]
                called == Emit(Params(Match(Match(c, "XFUNC"), "("), f.types, 1),
                               "XFUNC", Tok(c).value)
            IN Typed(Emit(Match(called, ")"), "PARAM", 0), f.type)

Factor_mA(c) ==                  \* an expression in parentheses ends at its first operand
    LET t == Tok(c)
    IN CASE t.kind = "(" -> Typed(Match(Compile("term", Match(c, "(")), ")"), "NUM")
         [] t.kind = "NUM" -> Typed(Emit(Match(c, "NUM"), "PUSH", t.value), "NUM")
         [] t.kind = "ID" -> Typed(Emit(Match(c, "ID"), "PUSH_VAR", t.value), "NUM")
         [] OTHER -> Failed(c)

Factor(c) ==
    LET t == Tok(c)
    IN CASE t.kind = "(" -> Typed(Match(Expression(Match(c, "("), "NUM"), ")"), "NUM")
         [] t.kind = "NUM" -> Typed(Emit(Match(c, "NUM"), "PUSH", t.value), "NUM")
         [] t.kind = "CNST" -> Typed(Emit(Match(c, "CNST"), "PUSH", Value[t.value]), "NUM")
         [] t.kind = "ID" -> Typed(Emit(Match(c, "ID"), "PUSH_VAR", t.value), "NUM")
         [] t.kind = "SID" -> Typed(Emit(Match(c, "SID"), "PUSH_VAR", t.value), "STR")
         [] t.kind = "STR" -> Typed(Emit(Match(c, "STR"), "PUSH", t.value), "STR")
         [] t.kind = "NIL" -> Typed(Emit(Match(c, "NIL"), "PUSH", 0), "REF")
         [] t.kind \in DOMAIN Functions -> Call(c, t.kind)
         [] t.kind = "XFUNC" -> XFunc(c)
         [] OTHER -> Failed(c)

Compile(level, c) ==
    IF ~c.ok THEN c
    ELSE CASE level = "not" -> Not(c)
           [] level = "neg" -> Neg(c)
           [] level = "factor" -> Factor(c)
           [] OTHER -> Rest(level, Compile(Tighter(level), c))

\* An expression that any type is good for, as in PRINT.
Compiled(line) == Expression([line |-> Tokenized[line], code |-> <<>>, type |-> "NUM", ok |-> TRUE], "ANY")
Accepts(c) == c.ok /\ Tok(c).kind = "end"

-----------------------------------------------------------------------------
(***************************************************************************)
(* The interpreter.  A word has a value and, if it is the address of a     *)
(* text that was made, the number of that text: it is good until the       *)
(* second text after it is made.                                           *)
(***************************************************************************)
Word(v) == [v |-> v, made |-> 0]
Machine0 == [stack |-> <<>>, params |-> <<>>, made |-> 0, lost |-> FALSE, empty |-> FALSE]

Makers == {"ADD_STR", "LEFTS", "RIGHTS", "MIDS", "STRS", "HEXS", "STRINGS"}
Arity(op) == CASE op \in {"NOT", "NEG"} -> 1
               [] \E k \in DOMAIN Functions : Functions[k].ins = op /\ op # "PARAM" ->
                     Len(Functions[CHOOSE k \in DOMAIN Functions : Functions[k].ins = op].types)
               [] OTHER -> 2

Outlived(m, w) == w.made > 0 /\ m.made - w.made >= 2
Used(m, words) == [m EXCEPT !.lost = @ \/ \E k \in DOMAIN words : Outlived(m, words[k])]

\* The operands go, the result comes.
Operate(m, op) ==
    LET n == Arity(op)
        d == Len(m.stack) - n
    IN IF d < 0 THEN [m EXCEPT !.empty = TRUE]
       ELSE LET words == From(m.stack, d + 1)
                u == Used(m, words)
                made == IF op \in Makers THEN m.made + 1 ELSE m.made
                result == [v |-> Apply(op, [k \in 1 .. n |-> words[k].v]),
                           made |-> IF op \in Makers THEN made ELSE 0]
            IN [u EXCEPT !.stack = Append(SubSeq(@, 1, d), result), !.made = made]

Host(m, f) == LET n == Len(XFuncs[f].types)
                  d == Len(m.params) - n
              IN IF d < 0 THEN [m EXCEPT !.empty = TRUE]
                 ELSE LET words == From(m.params, d + 1)
                      IN [Used(m, words) EXCEPT !.params =
                             Append(SubSeq(@, 1, d), Word(Apply(f, [k \in 1 .. n |-> words[k].v])))]

Execute(m, ins) ==
    CASE ins.op = "PUSH" -> [m EXCEPT !.stack = Append(@, Word(ins.arg))]
      [] ins.op = "PUSH_VAR" -> [m EXCEPT !.stack = Append(@, Word(Value[ins.arg]))]
      [] ins.op = "PUSH_PARAM" -> [m EXCEPT !.params = Append(@, Last(m.stack)),
                                            !.stack = Front(@)]
      [] ins.op = "PARAM" -> IF m.params = <<>>
                             THEN [m EXCEPT !.stack = Append(@, Word(0))]
                             ELSE [m EXCEPT !.stack = Append(@, Last(m.params)),
                                            !.params = Front(@)]
      [] ins.op = "XFUNC" -> Host(m, ins.arg)
      [] OTHER -> Operate(m, ins.op)

Executed(code) == FoldLeft(Execute, Machine0, code)

-----------------------------------------------------------------------------
(***************************************************************************)
(* What a text means: the tokens i .. j as an expression of a level, by    *)
(* any way to split them that the grammar allows.                          *)
(***************************************************************************)
Meaning1(t, v) == [type |-> t, value |-> v]
Tokens == FlattenSeq([k \in DOMAIN text |-> text[k].tokens])

Binary(op, a, b) ==
    IF ~Fits(op, a.type, b.type) THEN {}
    ELSE {Meaning1(IF op \in Operators("comp") THEN "NUM" ELSE a.type,
                   Apply(Instruction(op, a.type), <<a.value, b.value>>))}

RECURSIVE Meanings(_, _, _, _), Lists(_, _, _, _)

\* The values of a list of parameters of these types.
Lists(t, i, j, types) ==
    IF types = <<>> THEN IF i > j THEN {<<>>} ELSE {}
    ELSE UNION {{<<a.value>> \o rest :
                    a \in {m \in Meanings("or", t, i, k - 1) : m.type = types[1]},
                    rest \in IF k > j THEN (IF Len(types) = 1 THEN {<<>>} ELSE {})
                             ELSE IF Len(types) = 1 THEN {} ELSE Lists(t, k + 1, j, Tail(types))}
                   : k \in {k \in i .. j + 1 : k = j + 1 \/ t[k].kind = ","}}

\* Parameters of an external function may be left out at the end; a comma may
\* stand behind the last.
Filled(t, i, j, types) ==
    (IF i < j /\ t[j].kind = "," THEN Lists(t, i, j - 1, types) ELSE {}) \cup
    UNION {{l \o [k \in 1 .. Len(types) - n |-> 0] : l \in Lists(t, i, j, SubSeq(types, 1, n))}
              : n \in (IF types = <<>> THEN {0} ELSE 1 .. Len(types))}

Meanings(level, t, i, j) ==
    IF i > j THEN {}
    ELSE CASE level = "not" ->
                 Meanings("comp", t, i, j) \cup
                   (IF t[i].kind # "NOT" THEN {}
                    ELSE {Meaning1("NUM", Apply("NOT", <<m.value>>)) :
                             m \in {m \in Meanings("comp", t, i + 1, j) : m.type = "NUM"}})
           [] level = "neg" ->
                 Meanings("factor", t, i, j) \cup
                   (IF t[i].kind # "-" THEN {}
                    ELSE {Meaning1("NUM", Apply("NEG", <<m.value>>)) :
                             m \in {m \in Meanings("factor", t, i + 1, j) : m.type = "NUM"}})
           [] level = "factor" ->
                 IF i = j
                 THEN CASE t[i].kind = "NUM" -> {Meaning1("NUM", t[i].value)}
                        [] t[i].kind = "STR" -> {Meaning1("STR", t[i].value)}
                        [] t[i].kind \in {"ID", "CNST"} -> {Meaning1("NUM", Value[t[i].value])}
                        [] t[i].kind = "SID" -> {Meaning1("STR", Value[t[i].value])}
                        [] t[i].kind = "NIL" -> {Meaning1("REF", 0)}
                        [] OTHER -> {}
                 ELSE IF t[j].kind # ")" THEN {}
                 ELSE IF t[i].kind = "("
                 THEN {m \in Meanings("or", t, i + 1, j - 1) : m.type = "NUM"}
                 ELSE IF t[i + 1].kind # "(" THEN {}
                 ELSE IF t[i].kind = "XFUNC"
                 THEN LET f == XFuncs[t[i].value]
                      IN {Meaning1(f.type, Apply(t[i].value, l)) : l \in Filled(t, i + 2, j - 1, f.types)}
                 ELSE IF t[i].kind \in DOMAIN Functions
                 THEN LET f == Functions[t[i].kind]
                      IN {Meaning1(f.type, Apply(f.ins, l)) : l \in Lists(t, i + 2, j - 1, f.types)}
                 ELSE {}
           [] OTHER ->
                 Meanings(Tighter(level), t, i, j) \cup
                   UNION {UNION {Binary(t[k].kind, a, b) : a \in Meanings(level, t, i, k - 1),
                                                          b \in Meanings(Tighter(level), t, k + 1, j)}
                             : k \in {k \in i .. j : t[k].kind \in Operators(level)}}

Meant == Meanings("or", Tokens, 1, Len(Tokens))

-----------------------------------------------------------------------------
Line == FlattenSeq([k \in DOMAIN text |-> text[k].spelling])

Init == alphabet \in Alphabets /\ text = <<>>

\* Behind an error the compiler reads no further.
Open == LET c == Compiled(Line) IN Tok(c).kind = "end"

Write == /\ Len(text) < MaxLexemes /\ Open
         /\ \E x \in alphabet : text' = Append(text, x)
         /\ UNCHANGED alphabet

Spec == Init /\ [][Write]_vars

-----------------------------------------------------------------------------
\* What is compiled means what its text means: the code finds an operand for
\* every operator, leaves one word, of the type that the compiler says, and the
\* word is the value of the text; operators of a level from the left, NOT before
\* AND before OR (compile_expression, nb_compiler.c:1317).  Up to texts that are
\* made and not used in time.
MeaningKept ==
    LET c == Compiled(Line)
        m == Executed(c.code)
    IN Accepts(c) => /\ ~m.empty /\ Len(m.stack) = 1 /\ m.params = <<>>
                     /\ \/ m.lost
                        \/ Meant = {Meaning1(c.type, m.stack[1].v)}

\* What has a meaning is compiled, unless two arithmetic operators touch, which
\* the scanner takes for one piece (nb_scanner.c:92).
Touching == \E k \in 1 .. Len(Line) - 1 : Line[k] \in Ariths /\ Line[k + 1] \in Ariths
MeaningfulAccepted == Meant # {} /\ ~Touching => Accepts(Compiled(Line))

\* "LET string-variable$ = string-expression$" (README.md:26), of any length: no
\* text is overwritten while it waits for its operator.
TemporariesLast ==
    LET c == Compiled(Line) IN Accepts(c) => ~Executed(c.code).lost
=============================================================================
