----------------------------- MODULE MCNbRegistry -----------------------------
(***************************************************************************)
(* Programs of up to three lines, on a table with room for two names       *)
(* beside two keywords and two functions.                                  *)
(***************************************************************************)
EXTENDS NbRegistry, TLC

CONSTANTS m1, m2

MCKey == [n \in {"let", "dim", "f", "F", "g", "a", "A", "b$", "p", "q"} |->
             CASE n = "F" -> "f" [] n = "A" -> "a" [] OTHER -> n]
MCKeywords == <<"let", "dim">>
MCWords == {"let", "dim", "label"}
Line(u, n) == [word |-> IF u \in MCWords THEN u ELSE "label", use |-> u, name |-> n]
MCLines == {Line("let", "A"), Line("label", "q"), Line("goto", "q"), Line("call", "f")}
MCLonger == {<<Line("goto", "q"), Line("let", "A"), Line("let", "b$")>>,
             <<Line("let", "b$"), Line("label", "q"), Line("let", "A")>>,
             <<Line("label", "q"), Line("const", "p"), Line("value", "p")>>,
             <<Line("goto", "q"), Line("dim", "a"), Line("label", "q")>>,
             <<Line("let", "A"), Line("dim", "a"), Line("dim", "q")>>,
             <<Line("let", "q"), Line("label", "q"), Line("let", "a")>>,
             <<Line("label", "q"), Line("const", "q"), Line("value", "a")>>,
             <<Line("const", "p"), Line("let", "a"), Line("let", "b$")>>,
             <<Line("call", "g"), Line("let", "let"), Line("let", "A")>>,
             <<Line("const", "dim"), Line("dim", "a")>>,
             <<Line("const", "f"), Line("call", "f")>>}
MCPrograms == [1 .. 2 -> MCLines] \cup MCLonger
Interchangeable == Permutations(Machines)
=============================================================================
