---------------------------- MODULE MCNbCompiler ----------------------------
(***************************************************************************)
(* Source texts for TLC: every sequence of up to MaxLines of these lines.  *)
(***************************************************************************)
EXTENDS NbCompiler

T(t) == [t |-> t, n |-> NoName]
N(t, n) == [t |-> t, n |-> n]

\* Loops, conditions and the statements between them.  Lines that end a block
\* in the middle are among them.
BlockLines == {
    <<N("FOR", "i")>>,
    <<T(":"), N("NEXT", "i")>>,
    <<T("NEXT")>>,
    <<N("LET", "i"), T(":"), T("NEXT")>>,
    <<N("FOR", "j"), T(":"), T("PRINT"), T(":"), T("NEXT")>>,
    <<T("WHILE")>>,
    <<T("WHILE"), T("PRINT"), T("LOOP")>>,
    <<T("LOOP")>>,
    <<T("IF"), T("THEN")>>,
    <<T("ELSEIF"), T("THEN")>>,
    <<T("ELSE")>>,
    <<T("ENDIF")>>,
    <<T("IF"), T("THEN"), T("PRINT"), T("ELSE"), T("IF"), T("THEN"), T("END")>> }

\* Labels before and behind their use, names that are used twice, lists and
\* data, faults in all of these, and what fills the code.
LabelLines == {
    <<N("LABEL", "l")>>,
    <<N("LABEL", "m"), N("LET", "i")>>,
    <<N("GOTO", "l")>>,
    <<N("LET", "j"), T(":"), N("GOSUB", "m")>>,
    <<T("ON"), N("REF", "m"), N("REF", "l"), N("REF", "l")>>,
    <<T("IF"), N("GOTO", "m"), T("ELSE"), N("LET", "i")>>,
    <<N("DIM", "a"), T(":"), N("ELEM", "a"), T("REM"), T("BAD")>>,
    <<N("CONST", "l"), T("RETURN")>>,
    <<T("DATA"), T("NUM"), T("STR"), T("STR"), T("STR"), T("STR"), T("STR")>>,
    <<T("DATA"), T("NUM"), T("NUM"), T("NUM"), T("NUM")>>,
    <<N("FOR", "i"), T(":"), N("NEXT", "j")>>,
    <<T("IF"), T("BAD")>>,
    <<T("ON")>>,
    <<T("BAD")>> }
=============================================================================
