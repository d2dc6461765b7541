------------------------------- MODULE MCNbHost -------------------------------
(***************************************************************************)
(* What is printed.  The screen of MCNbScreen.cfg ends one place behind    *)
(* the last tabulator stop, as that of 61 columns.                         *)
(***************************************************************************)
EXTENDS NbHost

CONSTANT c   \* a character

MCTexts == {<<c>>, <<NewLine>>, <<Tabulator>>, <<c, c, c, c>>}
MCReady == <<c, NewLine>>

MCText1 == <<c>>
MCText == {MCText1}
=============================================================================
