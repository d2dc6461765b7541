----------------------------- MODULE MCNbStrings -----------------------------
(***************************************************************************)
(* Programs with two string variables, with a string and an array, and     *)
(* with a string and external functions.                                   *)
(***************************************************************************)
EXTENDS NbStrings, TLC

CONSTANTS x, y,      \* characters
          name1, name2, field    \* variables

Program(names, words, calls) == [names |-> names, words |-> words, calls |-> calls]
MCPrograms == {Program({name1, name2}, 1, FALSE), Program({field}, 1, TRUE)}
                \cup UNION {{Program({v, field}, 1, FALSE), Program({v}, 2, TRUE)} : v \in {name1, name2}}
Interchangeable == Permutations({name1, name2})
MCLiterals == [c \in {2} |-> <<x>>]
MCNumerals == {<<y>>}
MCHostTexts == {<<y>>}
MCCounts == {-1, 1}
MCDims == {0, -1, 16383, 65536}
MCIndexes == (-1 .. 2) \cup {2^30}
=============================================================================
