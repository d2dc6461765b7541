------------------------------- MODULE MCNbExpr -------------------------------
(***************************************************************************)
(* Keywords are letters here: n for NOT, d for AND, o for OR, l for LEFT$, *)
(* s for STR$, e for LEN, f for an external function, r for an array; c is *)
(* a constant, and words are followed by a blank.                          *)
(***************************************************************************)
EXTENDS NbExpr, TLC

MCLetters == {"n", "d", "o", "l", "s", "e", "f", "r", "a", "b", "c", "i"}
MCDigits == {"1", "2", "3"}
MCNumber == (<<"1">> :> 1) @@ (<<"2">> :> 2) @@ (<<"3">> :> 3)
MCSymbols == (<<"n">> :> "NOT") @@ (<<"d">> :> "AND") @@ (<<"o">> :> "OR") @@ (<<"l", "$">> :> "LEFTS")
             @@ (<<"s", "$">> :> "STRS") @@ (<<"e">> :> "LEN") @@ (<<"f">> :> "XFUNC")
             @@ (<<"r">> :> "ARR") @@ (<<"c">> :> "CNST") @@ (<<"i">> :> "NIL")
MCValue == (<<"a">> :> 3) @@ (<<"c">> :> 300) @@ (<<"b", "$">> :> <<"p", "q">>)

Function(types, ins, type) == [types |-> types, ins |-> ins, type |-> type]
MCFunctions == [LEFTS |-> Function(<<"STR", "NUM">>, "LEFTS", "STR"),
                STRS |-> Function(<<"NUM">>, "STRS", "STR"),
                LEN |-> Function(<<"STR">>, "LEN", "NUM"),
                ARR |-> Function(<<"NUM">>, "GET_ARR_ELEM", "NUM")]
MCXFuncs == (<<"f">> :> [types |-> <<"NUM", "NUM">>, type |-> "NUM"])

Truth(p) == IF p THEN 1 ELSE 0
Trunc(x, y) == IF y = 0 THEN 0 ELSE IF (x >= 0) = (y > 0) THEN x \div y ELSE -((-x) \div y)
MCApply(op, v) ==
    CASE op = "+" \/ op = "ADD" -> v[1] + v[2]
      [] op = "-" -> v[1] - v[2]
      [] op = "*" -> v[1] * v[2]
      [] op = "/" -> Trunc(v[1], v[2])
      [] op = "AND" -> Truth(v[1] # 0 /\ v[2] # 0)
      [] op = "OR" -> Truth(v[1] # 0 \/ v[2] # 0)
      [] op = "NOT" -> Truth(v[1] = 0)
      [] op = "NEG" -> -v[1]
      [] op = "EQ" -> Truth(v[1] = v[2])
      [] op = "NQ" -> Truth(v[1] # v[2])
      [] op = "LE" -> Truth(v[1] < v[2])
      [] op = "LQ" -> Truth(v[1] <= v[2])
      [] op = "GR" -> Truth(v[1] > v[2])
      [] op = "GQ" -> Truth(v[1] >= v[2])
      [] op = "ADD_STR" -> v[1] \o v[2]
      [] op = "LEFTS" -> SubSeq(v[1], 1, IF v[2] < Len(v[1]) THEN v[2] ELSE Len(v[1]))
      [] op = "STRS" -> <<"n", v[1]>>
      [] op = "LEN" -> Len(v[1])
      [] op = "GET_ARR_ELEM" -> v[1] + 5
      [] op = <<"f">> -> 10 * v[1] + v[2]

Lexeme(spelling, tokens) == [spelling |-> spelling, tokens |-> tokens]
Op(c) == Lexeme(<<c>>, <<Token(c, 0)>>)
Word1(name, kind) == Lexeme(Append(name, " "), <<Token(kind, name)>>)
Open1(name, kind) == Lexeme(Append(name, "("), <<Token(kind, name), Token("(", 0)>>)

Two == Lexeme(<<"2", " ">>, <<Token("NUM", 2)>>)
Comma == Op(",")
Bra == Op("(")
Ket == Op(")")
A == Word1(<<"a">>, "ID")
B == Word1(<<"b", "$">>, "SID")
Le == Lexeme(<<"<", "=", " ">>, <<Token("LQ", 0)>>)
Ne == Lexeme(<<"<", ">", " ">>, <<Token("NQ", 0)>>)

Made == Lexeme(<<"s", "$", "(", "2", ")">>,
               <<Token("STRS", <<"s", "$">>), Token("(", 0), Token("NUM", 2), Token(")", 0)>>)
Left == Open1(<<"l", "$">>, "LEFTS")

MCAlphabets == {
    {Two, A, Op("+"), Op("-"), Op("*"), Bra, Ket},
    {A, Word1(<<"n">>, "NOT"), Word1(<<"d">>, "AND"), Word1(<<"o">>, "OR"), Le, Ne, Bra, Ket,
     Word1(<<"c">>, "CNST")},
    {B, Two, Op("+"), Ket, Comma, Left, Made, Open1(<<"e">>, "LEN"),
     Lexeme(<<"\"", "p", "\"">>, <<Token("STR", <<"p">>)>>)},
    {Two, A, Op("/"), Ket, Comma, Open1(<<"f">>, "XFUNC"), Open1(<<"r">>, "ARR"),
     Word1(<<"i">>, "NIL")}}
MCTexts == {{Two, Op("+"), Ket, Comma, Left, Made}}
=============================================================================
