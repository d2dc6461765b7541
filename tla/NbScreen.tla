------------------------------- MODULE NbScreen -------------------------------
(***************************************************************************)
(* The screen of a machine in the Lua binding (src/src/nb_lua.c): one      *)
(* array of Lines times LineLen characters, in which the last character of *)
(* a line is its end, and a cursor that is an offset into it.              *)
(***************************************************************************)
EXTENDS Integers, Sequences

CONSTANTS Lines,      \* MAX_LINES
          LineLen,    \* MAX_LINE_LEN
          TabStop,    \* 10
          Printable,  \* the characters nb_print writes
          Space       \* ' '

ASSUME ScreenAssumption ==
    /\ Lines \in Nat \ {0} /\ LineLen \in Nat \ {0, 1} /\ TabStop \in Nat \ {0}
    /\ LineLen < 256 - TabStop /\ Lines < 256
    /\ Space \in Printable

NewLine == "\n"       \* also what a program prints
Tabulator == "\t"
EndOfText == "nul"
Char == Printable \cup {NewLine, Tabulator}   \* what nb_print tells apart

Cell == 0 .. Lines * LineLen - 1
LastLine == (Lines - 1) * LineLen
Content == Printable \cup {NewLine, EndOfText}

\* A screen: the array, and the cursor.
Screen == [buf : [Cell -> Content], xpos : 0 .. 255, ypos : 0 .. Lines - 1]

\* The ends of the lines as create and get_screen_buffer set them.
WithLineEnds(buf) == [k \in Cell |-> IF k = Lines * LineLen - 1 THEN EndOfText
                                     ELSE IF (k + 1) % LineLen = 0 THEN NewLine
                                     ELSE buf[k]]

Blanks == [k \in Cell |-> Space]
FreshScreen == [buf |-> WithLineEnds(Blanks), xpos |-> 0, ypos |-> 0]

\* clear_screen, and CLRSCR of run
Cleared == [buf |-> [Blanks EXCEPT ![Lines * LineLen - 1] = EndOfText],
            xpos |-> 0, ypos |-> 0]

\* memset(screen_buffer + from, ' ', n)
Filled(buf, from, n) == [k \in Cell |-> IF k \in from .. from + n - 1 THEN Space ELSE buf[k]]

\* new_line: the text moves up by one line at the last one.
Scrolled_mA(buf) == [k \in Cell |-> IF k < LastLine THEN buf[k + LineLen] ELSE buf[k]]
Scrolled(buf) == [k \in Cell |-> IF k < LastLine THEN buf[k + LineLen]
                                 ELSE IF k = Lines * LineLen - 1 THEN EndOfText
                                 ELSE Space]

LineFeed(s) == IF s.ypos + 1 < Lines
               THEN [s EXCEPT !.xpos = 0, !.ypos = @ + 1]
               ELSE [s EXCEPT !.xpos = 0, !.buf = Scrolled(@)]

\* A character of nb_print goes to the cursor; the line ends behind its end.
Put(s, c) ==
    LET written == [s EXCEPT !.buf[s.ypos * LineLen + s.xpos] = c, !.xpos = (@ + 1) % 256]
    IN IF written.xpos >= LineLen THEN LineFeed(written) ELSE written

\* The tabulator does not look at the end of the line: from its last place it
\* goes on into the line below, and leaves the cursor behind its own.
NextStop(x) == ((x + TabStop) \div TabStop) * TabStop
Tab(s) == [s EXCEPT !.buf = Filled(@, s.ypos * LineLen + s.xpos, NextStop(s.xpos) - s.xpos),
                    !.xpos = NextStop(s.xpos) % 256]

\* The array ends before what the character writes does, or the cursor overflows
\* and memset is given a negative size.
WritesBehind(s, c) ==
    LET from == s.ypos * LineLen + s.xpos
    IN \/ c \in Printable /\ from >= Lines * LineLen
       \/ c = Tabulator /\ \/ NextStop(s.xpos) > 255
                           \/ from + NextStop(s.xpos) - s.xpos > Lines * LineLen

Printed(s, c) == CASE c \in Printable -> Put(s, c)
                   [] c = NewLine -> LineFeed(s)
                   [] c = Tabulator -> Tab(s)
                   [] OTHER -> s

\* The coordinates of setcur and clrline come in as bytes and start with 1.
Clamped_mA(n, limit) == LET v == n % 256
                        IN IF v < 1 THEN 0 ELSE IF v > limit THEN limit ELSE v - 1
Clamped(n, limit) == LET v == n % 256
                     IN IF v < 1 THEN 0 ELSE IF v > limit THEN limit - 1 ELSE v - 1

CursorSet(s, x, y) == [s EXCEPT !.xpos = Clamped(x, LineLen), !.ypos = Clamped(y, Lines)]

\* clrline(0) clears the line of the cursor, with its end.
LineCleared(s, y) ==
    LET line == IF y % 256 > 0 THEN Clamped(y, Lines) ELSE s.ypos
    IN [s EXCEPT !.ypos = line,
                 !.xpos = IF y % 256 > 0 THEN @ ELSE 0,
                 !.buf = Filled(@, line * LineLen, LineLen)]

\* What get_screen_buffer shows, line by line without their ends.
Shown(s) == [r \in 0 .. Lines - 1 |-> [k \in 0 .. LineLen - 2 |-> s.buf[r * LineLen + k]]]
=============================================================================
