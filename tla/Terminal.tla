------------------------------- MODULE Terminal -------------------------------
(***************************************************************************)
(* What the screen of the Lua binding (src/src/nb_lua.c) promises to a     *)
(* Basic program: rows of Width characters and a cursor.  A character goes *)
(* where the cursor is, which moves on; the place behind the last column   *)
(* takes a character that is never shown, and a new row begins behind it.  *)
(* Below the last row the rows move up.  Nothing else changes.             *)
(***************************************************************************)
EXTENDS Integers

CONSTANTS Rows, Width, TabWidth, Chars, Blank

VARIABLES text,   \* text[y][x], the characters that are shown
          x, y    \* the cursor

tvars == <<text, x, y>>

Row == 0 .. Rows - 1
Column == 0 .. Width - 1
BlankRow == [k \in Column |-> Blank]

\* The cursor goes to the begin of the next row.
NextRow(t) == /\ x' = 0
              /\ \/ y < Rows - 1 /\ y' = y + 1 /\ text' = t
                 \/ /\ y = Rows - 1 /\ y' = y
                    /\ text' = [r \in Row |-> IF r = Rows - 1 THEN BlankRow ELSE t[r + 1]]

Put(c) == \/ /\ x < Width
             /\ text' = [text EXCEPT ![y][x] = c]
             /\ x' = x + 1 /\ y' = y
          \/ /\ x = Width
             /\ NextRow(text)

\* To the next multiple of TabWidth in this row.
Tab == \E stop \in x + 1 .. Width :
          /\ stop % TabWidth = 0 /\ stop - x <= TabWidth
          /\ text' = [text EXCEPT ![y] = [k \in Column |-> IF k \in x .. stop - 1 THEN Blank
                                                           ELSE @[k]]]
          /\ x' = stop /\ y' = y

Move == /\ x' \in 0 .. Width /\ y' \in Row
        /\ UNCHANGED text

EraseRow == /\ \/ x' = x /\ y' \in Row
               \/ x' = 0 /\ y' = y
            /\ text' = [text EXCEPT ![y'] = BlankRow]

EraseAll == /\ text' = [r \in Row |-> BlankRow]
            /\ x' = 0 /\ y' = 0

\* A screen is brought back that was put away before.
Replace(t, cx, cy) == text' = t /\ x' = cx /\ y' = cy

TInit == /\ text = [r \in Row |-> BlankRow]
         /\ x = 0 /\ y = 0

TNext == \/ \E c \in Chars : Put(c)
         \/ NextRow(text)
         \/ Tab
         \/ Move
         \/ EraseRow
         \/ EraseAll
=============================================================================
