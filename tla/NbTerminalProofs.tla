--------------------------- MODULE NbTerminalProofs ---------------------------
(***************************************************************************)
(* The screens of the Lua binding are terminals, for every size of the     *)
(* screen: what each operator on screens does to the lines that are shown, *)
(* and from that, that every step of the binding is one of the terminal.   *)
(***************************************************************************)
EXTENDS NbHostProofs

-----------------------------------------------------------------------------
\* Where a line and a column are in the array.

Line == 0 .. Lines - 1
Column == 0 .. LineLen - 2       \* the last character of a line is its end
Place(r, k) == r * LineLen + k
Blank == [r \in Line |-> [k \in Column |-> Space]]

\* A place of a line is in the array, and above the last line if its line is.
LEMMA PlaceInside ==
    ASSUME NEW r \in Line, NEW k \in 0 .. LineLen - 1
    PROVE /\ Place(r, k) \in Cell
          /\ Place(r, k) < LastLine <=> r < Lines - 1
          /\ Place(r, k) + LineLen = Place(r + 1, k)
          /\ k < LineLen - 1 => Place(r, k) # Lines * LineLen - 1
<1>1. /\ r \in Nat /\ r <= Lines - 1 /\ k \in Nat /\ k <= LineLen - 1
      /\ Lines \in Nat /\ LineLen \in Nat /\ Lines >= 1 /\ LineLen >= 2
  BY Sizes DEF Line
<1>2. r * LineLen + LineLen <= Lines * LineLen
  BY <1>1, LineOrder
<1>3. r * LineLen \in Nat /\ Lines * LineLen \in Nat
  BY <1>1
<1>4. LastLine = Lines * LineLen - LineLen
  BY <1>1 DEF LastLine
<1>5. r < Lines - 1 => r * LineLen + LineLen <= LastLine
  BY <1>1, LineOrder DEF LastLine
<1>6. r = Lines - 1 => r * LineLen = LastLine
  BY <1>1 DEF LastLine
<1>7. (r + 1) * LineLen = r * LineLen + LineLen
  BY <1>1
<1> DEFINE base == r * LineLen
           size == Lines * LineLen
<1> HIDE DEF base, size
<1>8. /\ base \in Nat /\ size \in Nat /\ base + LineLen <= size /\ LastLine = size - LineLen
      /\ r < Lines - 1 => base + LineLen <= LastLine
      /\ r = Lines - 1 => base = LastLine
      /\ (r + 1) * LineLen = base + LineLen
  BY <1>2, <1>3, <1>4, <1>5, <1>6, <1>7 DEF base, size
<1>9. Place(r, k) = base + k /\ Place(r + 1, k) = base + LineLen + k /\ Cell = 0 .. size - 1
  BY <1>1, <1>8 DEF Place, Cell, base, size
<1>10. Place(r, k) \in Cell /\ (k < LineLen - 1 => Place(r, k) # size - 1)
  BY <1>1, <1>8, <1>9
<1>11. Place(r, k) < LastLine <=> r < Lines - 1
  <2>1. LastLine \in Int
    BY <1>1, <1>8
  <2>2. CASE r < Lines - 1
    BY <1>1, <1>8, <1>9, <2>1, <2>2
  <2>3. CASE r = Lines - 1
    BY <1>1, <1>8, <1>9, <2>1, <2>3
  <2> QED
    BY <1>1, <2>2, <2>3
<1>12. Place(r, k) + LineLen = Place(r + 1, k)
  BY <1>1, <1>8, <1>9
<1> QED
  BY <1>10, <1>11, <1>12 DEF size

\* A part of a line is where its line and its columns are.
LEMMA PlaceIn ==
    ASSUME NEW r \in Line, NEW k \in 0 .. LineLen - 1,
           NEW q \in Line, NEW a \in 0 .. LineLen, NEW b \in 0 .. LineLen
    PROVE Place(r, k) \in Place(q, a) .. Place(q, b) - 1 <=> r = q /\ k \in a .. b - 1
<1>1. /\ r \in Nat /\ q \in Nat /\ k \in Nat /\ k < LineLen /\ LineLen \in Nat
      /\ a \in Nat /\ a <= LineLen /\ b \in Nat /\ b <= LineLen
  BY Sizes DEF Line
<1> DEFINE base == r * LineLen
           other == q * LineLen
<1>2. /\ base \in Nat /\ other \in Nat
      /\ r + 1 <= q => base + LineLen <= other
      /\ q + 1 <= r => other + LineLen <= base
      /\ r = q => base = other
  BY <1>1, LineOrder
<1>3. Place(r, k) = base + k /\ Place(q, a) = other + a /\ Place(q, b) = other + b
  BY DEF Place
<1> HIDE DEF base, other
<1>4. CASE r = q
  BY <1>1, <1>2, <1>3, <1>4
<1>5. CASE r + 1 <= q
  BY <1>1, <1>2, <1>3, <1>5
<1>6. CASE q + 1 <= r
  BY <1>1, <1>2, <1>3, <1>6
<1> QED
  BY <1>1, <1>4, <1>5, <1>6

\* Two places are the same only in the same line and column.
LEMMA PlacesApart ==
    ASSUME NEW r \in Line, NEW k \in 0 .. LineLen - 1, NEW q \in Line, NEW j \in 0 .. LineLen - 1
    PROVE Place(r, k) = Place(q, j) <=> r = q /\ k = j
<1>1. /\ r \in Nat /\ q \in Nat /\ k \in Nat /\ k < LineLen /\ LineLen \in Nat
      /\ j \in Nat /\ j < LineLen
  BY Sizes DEF Line
<1>2. Place(q, j) \in Int /\ Place(r, k) \in Int /\ Place(q, j + 1) = Place(q, j) + 1
  BY <1>1 DEF Place
<1>3. Place(r, k) = Place(q, j) <=> Place(r, k) \in Place(q, j) .. Place(q, j + 1) - 1
  BY <1>2
<1>4. Place(r, k) \in Place(q, j) .. Place(q, j + 1) - 1 <=> r = q /\ k \in j .. (j + 1) - 1
  <2>1. j \in 0 .. LineLen /\ j + 1 \in 0 .. LineLen
    BY <1>1
  <2> QED
    BY <2>1, PlaceIn
<1>5. k \in j .. (j + 1) - 1 <=> k = j
  BY <1>1
<1> QED
  BY <1>3, <1>4, <1>5

\* The end of a line is not one of its columns.
LEMMA NotAtEnd == ASSUME NEW r \in Line, NEW k \in Column
                  PROVE (Place(r, k) + 1) % LineLen # 0 /\ k \in 0 .. LineLen - 1 /\ k < LineLen - 1
<1>1. /\ r \in Nat /\ LineLen \in Nat /\ LineLen >= 1 /\ k + 1 \in 0 .. LineLen - 1 /\ k + 1 # 0
      /\ k \in 0 .. LineLen - 1 /\ k < LineLen - 1
  BY Sizes DEF Line, Column
<1>2. (r * LineLen + (k + 1)) % LineLen = k + 1
  BY <1>1, Remainder
<1>3. Place(r, k) + 1 = r * LineLen + (k + 1)
  BY <1>1 DEF Place
<1> QED
  BY <1>1, <1>2, <1>3

-----------------------------------------------------------------------------
\* What the operators on screens do to what is shown.

\* What is shown is the array without the ends of the lines.
LEMMA ShownPlaces == ASSUME NEW s
                     PROVE Shown(s) = [r \in Line |-> [k \in Column |-> s.buf[Place(r, k)]]]
  BY DEF Shown, Line, Column, Place

\* A text of lines and columns.
IsText(t) == t = [r \in Line |-> t[r]] /\ \A r \in Line : t[r] = [k \in Column |-> t[r][k]]

\* A screen shows a text if it does so in every place.
LEMMA ShownIs == ASSUME NEW s, NEW t, IsText(t),
                        \A r \in Line, k \in Column : s.buf[Place(r, k)] = t[r][k]
                 PROVE Shown(s) = t
<1>1. \A r \in Line : [k \in Column |-> s.buf[Place(r, k)]] = [k \in Column |-> t[r][k]]
  OBVIOUS
<1>2. \A r \in Line : [k \in Column |-> s.buf[Place(r, k)]] = t[r]
  BY <1>1 DEF IsText
<1>3. [r \in Line |-> [k \in Column |-> s.buf[Place(r, k)]]] = [r \in Line |-> t[r]]
  BY <1>2
<1> QED
  BY <1>3, ShownPlaces DEF IsText

\* A screen shows a text of its places.
LEMMA ShownText == ASSUME NEW s
                   PROVE /\ IsText(Shown(s))
                         /\ \A r \in Line, k \in Column : Shown(s)[r][k] = s.buf[Place(r, k)]
<1> DEFINE row(r) == [k \in Column |-> s.buf[Place(r, k)]]
<1>1. Shown(s) = [r \in Line |-> row(r)]
  BY ShownPlaces
<1>2. \A r \in Line : row(r) = [k \in Column |-> row(r)[k]]
  OBVIOUS
<1>3. \A r \in Line, k \in Column : row(r)[k] = s.buf[Place(r, k)]
  OBVIOUS
<1> HIDE DEF row
<1>4. \A r \in Line : Shown(s)[r] = row(r)
  BY <1>1
<1> QED
  BY <1>1, <1>2, <1>3, <1>4 DEF IsText

\* Two screens show the same if they do in every place.
LEMMA SameShown == ASSUME NEW s, NEW t,
                          \A r \in Line, k \in Column : t.buf[Place(r, k)] = s.buf[Place(r, k)]
                   PROVE Shown(t) = Shown(s)
<1>1. IsText(Shown(s)) /\ \A r \in Line, k \in Column : t.buf[Place(r, k)] = Shown(s)[r][k]
  BY ShownText
<1> QED
  BY <1>1, ShownIs

\* A screen that is blank in every place.
LEMMA BlankShown == ASSUME NEW s, \A r \in Line, k \in Column : s.buf[Place(r, k)] = Space
                    PROVE Shown(s) = Blank
<1> DEFINE row == [k \in Column |-> Space]
<1>1. Blank = [r \in Line |-> row] /\ row = [k \in Column |-> row[k]]
  BY DEF Blank
<1>2. \A k \in Column : row[k] = Space
  OBVIOUS
<1> HIDE DEF row
<1>3. \A r \in Line : Blank[r] = row
  BY <1>1
<1>4. IsText(Blank) /\ \A r \in Line, k \in Column : Blank[r][k] = Space
  BY <1>1, <1>2, <1>3 DEF IsText
<1> QED
  BY <1>4, ShownIs

\* The line ends are not shown.
LEMMA LineEndsHidden == ASSUME NEW buf, NEW r \in Line, NEW k \in Column
                        PROVE WithLineEnds(buf)[Place(r, k)] = buf[Place(r, k)]
  BY NotAtEnd, PlaceInside DEF WithLineEnds

\* create makes a blank screen,
LEMMA FreshShown == Shown(FreshScreen) = Blank
<1>1. \A r \in Line, k \in Column : WithLineEnds(Blanks)[Place(r, k)] = Space
  <2> SUFFICES ASSUME NEW r \in Line, NEW k \in Column
               PROVE WithLineEnds(Blanks)[Place(r, k)] = Space
    OBVIOUS
  <2>1. Place(r, k) \in Cell
    BY NotAtEnd, PlaceInside
  <2> QED
    BY <2>1, LineEndsHidden DEF Blanks
<1>2. FreshScreen.buf = WithLineEnds(Blanks)
  BY DEF FreshScreen
<1> QED
  BY <1>1, <1>2, BlankShown

\* and so do clear_screen and CLRSCR.
LEMMA ClearedShown == Shown(Cleared) = Blank
<1>1. \A r \in Line, k \in Column : Cleared.buf[Place(r, k)] = Space
  <2> SUFFICES ASSUME NEW r \in Line, NEW k \in Column
               PROVE Cleared.buf[Place(r, k)] = Space
    OBVIOUS
  <2>1. Place(r, k) \in Cell /\ Place(r, k) # Lines * LineLen - 1
    BY NotAtEnd, PlaceInside
  <2> QED
    BY <2>1 DEF Cleared, Blanks
<1> QED
  BY <1>1, BlankShown

\* get_screen_buffer changes nothing that is shown.
LEMMA EndedShown == ASSUME NEW s \in Good
                    PROVE Shown([s EXCEPT !.buf = WithLineEnds(@)]) = Shown(s)
<1> DEFINE t == [s EXCEPT !.buf = WithLineEnds(@)]
<1>1. t.buf = WithLineEnds(s.buf)
  BY DEF Good, Screen
<1> HIDE DEF t
<1>2. Shown(t) = Shown(s)
  BY <1>1, LineEndsHidden, SameShown
<1> QED
  BY <1>2 DEF t

\* A text of which a line is replaced, or a character; a line of which a part is blanked.
WithLine(text, q, line) == [text EXCEPT ![q] = line]
WithCharacter(text, q, j, c) == [text EXCEPT ![q][j] = c]
BlankedPart(line, a, b) == [k \in Column |-> IF k \in a .. b - 1 THEN Space ELSE line[k]]
WithBlanks(text, q, a, b) == WithLine(text, q, BlankedPart(text[q], a, b))

\* A line of a screen that is replaced is replaced in what is shown.
LEMMA LineReplaced ==
    ASSUME NEW s, NEW t, NEW q \in Line, NEW line, line = [k \in Column |-> line[k]],
           \A r \in Line, k \in Column :
              t.buf[Place(r, k)] = IF r = q THEN line[k] ELSE s.buf[Place(r, k)]
    PROVE Shown(t) = WithLine(Shown(s), q, line)
<1> DEFINE text == Shown(s)
           new == [text EXCEPT ![q] = line]
<1>1. IsText(text) /\ \A r \in Line, k \in Column : text[r][k] = s.buf[Place(r, k)]
  BY ShownText
<1> HIDE DEF text
<1>2. text = [r \in Line |-> text[r]]
  BY <1>1 DEF IsText
<1>3. /\ \A r \in Line : new[r] = IF r = q THEN line ELSE text[r]
      /\ new = [r \in Line |-> new[r]]
  BY <1>2
<1> HIDE DEF new
<1>4. IsText(new)
  BY <1>1, <1>3 DEF IsText
<1>5. \A r \in Line, k \in Column : t.buf[Place(r, k)] = new[r][k]
  BY <1>1, <1>3
<1>6. Shown(t) = new
  BY <1>4, <1>5, ShownIs
<1> QED
  BY <1>6 DEF new, text, WithLine

\* A character that is replaced.
LEMMA CharacterShown ==
    ASSUME NEW s, NEW t, NEW q \in Line, NEW j, NEW c,
           \A r \in Line, k \in Column :
              t.buf[Place(r, k)] = IF r = q /\ k = j THEN c ELSE s.buf[Place(r, k)]
    PROVE Shown(t) = WithCharacter(Shown(s), q, j, c)
<1> DEFINE old == Shown(s)[q]
           line == [old EXCEPT ![j] = c]
<1>1. old = [k \in Column |-> old[k]] /\ \A k \in Column : old[k] = s.buf[Place(q, k)]
  BY ShownText DEF IsText
<1> HIDE DEF old
<1>2. /\ line = [k \in Column |-> line[k]]
      /\ \A k \in Column : line[k] = IF k = j THEN c ELSE old[k]
  BY <1>1
<1> HIDE DEF line
<1>3. \A r \in Line, k \in Column :
         t.buf[Place(r, k)] = IF r = q THEN line[k] ELSE s.buf[Place(r, k)]
  BY <1>1, <1>2
<1>4. Shown(t) = WithLine(Shown(s), q, line)
  BY <1>2, <1>3, LineReplaced
<1> QED
  BY <1>4 DEF line, old, WithLine, WithCharacter

\* The memset of the tabulator and of clrline blanks a part of one line.
LEMMA FilledShown ==
    ASSUME NEW s, NEW t, NEW q \in Line, NEW a \in 0 .. LineLen, NEW b \in 0 .. LineLen,
           t.buf = Filled(s.buf, Place(q, a), b - a)
    PROVE Shown(t) = WithBlanks(Shown(s), q, a, b)
<1> DEFINE line == BlankedPart(Shown(s)[q], a, b)
<1>1. ASSUME NEW r \in Line, NEW k \in Column
      PROVE t.buf[Place(r, k)] = IF r = q /\ k \in a .. b - 1 THEN Space ELSE s.buf[Place(r, k)]
  <2>1. k \in 0 .. LineLen - 1 /\ Place(r, k) \in Cell
    BY NotAtEnd, PlaceInside
  <2>2. Place(q, a) \in Int /\ Place(q, b) \in Int /\ Place(q, a) + (b - a) = Place(q, b)
    BY Sizes DEF Place, Line
  <2>3. Place(r, k) \in Place(q, a) .. Place(q, b) - 1 <=> r = q /\ k \in a .. b - 1
    BY <2>1, PlaceIn
  <2>4. t.buf[Place(r, k)] = IF Place(r, k) \in Place(q, a) .. Place(q, a) + (b - a) - 1 THEN Space
                             ELSE s.buf[Place(r, k)]
    BY <2>1 DEF Filled
  <2>5. Place(q, a) .. Place(q, a) + (b - a) - 1 = Place(q, a) .. Place(q, b) - 1
    BY <2>2, Sizes
  <2> QED
    BY <2>3, <2>4, <2>5, Zenon
<1>2. /\ \A k \in Column : line[k] = IF k \in a .. b - 1 THEN Space ELSE Shown(s)[q][k]
      /\ line = [k \in Column |-> line[k]]
  BY DEF BlankedPart
<1> HIDE DEF line
<1>3. \A k \in Column : Shown(s)[q][k] = s.buf[Place(q, k)]
  BY ShownText
<1>4. \A r \in Line, k \in Column :
         t.buf[Place(r, k)] = IF r = q THEN line[k] ELSE s.buf[Place(r, k)]
  BY <1>1, <1>2, <1>3
<1>5. Shown(t) = WithLine(Shown(s), q, line)
  BY <1>2, <1>4, LineReplaced
<1> QED
  BY <1>5 DEF line, WithBlanks

-----------------------------------------------------------------------------
\* The steps of the terminal, as relations of two screens.

BlankLine == [k \in Column |-> Space]

IsNextRow(s, t) ==
    /\ t.xpos = 0
    /\ \/ s.ypos < Lines - 1 /\ t.ypos = s.ypos + 1 /\ Shown(t) = Shown(s)
       \/ /\ s.ypos = Lines - 1 /\ t.ypos = s.ypos
          /\ Shown(t) = [r \in Line |-> IF r = Lines - 1 THEN BlankLine ELSE Shown(s)[r + 1]]

IsPut(s, t, c) ==
    \/ /\ s.xpos < LineLen - 1
       /\ Shown(t) = [Shown(s) EXCEPT ![s.ypos][s.xpos] = c]
       /\ t.xpos = s.xpos + 1 /\ t.ypos = s.ypos
    \/ s.xpos = LineLen - 1 /\ IsNextRow(s, t)

IsTab(s, t) ==
    \E stop \in s.xpos + 1 .. LineLen - 1 :
       /\ stop % TabStop = 0 /\ stop - s.xpos <= TabStop
       /\ Shown(t) = [Shown(s) EXCEPT ![s.ypos] = [k \in Column |-> IF k \in s.xpos .. stop - 1 THEN Space
                                                                   ELSE Shown(s)[s.ypos][k]]]
       /\ t.xpos = stop /\ t.ypos = s.ypos

IsMove(s, t) == t.xpos \in 0 .. LineLen - 1 /\ t.ypos \in Line /\ Shown(t) = Shown(s)

IsEraseRow(s, t) == /\ \/ t.xpos = s.xpos /\ t.ypos \in Line
                       \/ t.xpos = 0 /\ t.ypos = s.ypos
                    /\ Shown(t) = [Shown(s) EXCEPT ![t.ypos] = BlankLine]

IsEraseAll(t) == Shown(t) = Blank /\ t.xpos = 0 /\ t.ypos = 0

\* A screen whose cursor is in its line.
InLine == {s \in Good : s.xpos < LineLen}

\* It by its parts.
LEMMA InLineFields == ASSUME NEW s \in InLine
                      PROVE /\ s \in Screen /\ s.buf \in [Cell -> Content]
                            /\ s.xpos \in Nat /\ s.xpos < LineLen /\ s.xpos \in 0 .. LineLen - 1
                            /\ s.ypos \in Nat /\ s.ypos < Lines /\ s.ypos \in Line
  BY ScreenFields, Sizes DEF InLine, Good, Line

\* The memmove of new_line moves the lines up, the line behind them is blank.
LEMMA ScrolledShown ==
    ASSUME NEW s, NEW t, t.buf = Scrolled(s.buf)
    PROVE Shown(t) = [r \in Line |-> IF r = Lines - 1 THEN BlankLine ELSE Shown(s)[r + 1]]
<1> DEFINE text == Shown(s)
           row(r) == IF r = Lines - 1 THEN BlankLine ELSE text[r + 1]
           new == [r \in Line |-> row(r)]
<1>1. IsText(text) /\ \A r \in Line, k \in Column : text[r][k] = s.buf[Place(r, k)]
  BY ShownText
<1> HIDE DEF text
<1>2. \A r \in Line : r # Lines - 1 => r + 1 \in Line
  BY Sizes DEF Line
<1>3. /\ BlankLine = [k \in Column |-> BlankLine[k]]
      /\ \A k \in Column : BlankLine[k] = Space
  BY DEF BlankLine
<1>4. \A r \in Line : row(r) = [k \in Column |-> row(r)[k]]
  BY <1>1, <1>2, <1>3 DEF IsText
<1>5. \A r \in Line, k \in Column : t.buf[Place(r, k)] = row(r)[k]
  <2> SUFFICES ASSUME NEW r \in Line, NEW k \in Column PROVE t.buf[Place(r, k)] = row(r)[k]
    OBVIOUS
  <2>1. k \in 0 .. LineLen - 1 /\ k < LineLen - 1
    BY NotAtEnd
  <2>2. /\ Place(r, k) \in Cell /\ Place(r, k) # Lines * LineLen - 1
        /\ Place(r, k) < LastLine <=> r < Lines - 1
        /\ Place(r, k) + LineLen = Place(r + 1, k)
    BY <2>1, PlaceInside
  <2>3. t.buf[Place(r, k)] = IF Place(r, k) < LastLine THEN s.buf[Place(r + 1, k)] ELSE Space
    BY <2>2 DEF Scrolled
  <2>4. CASE r = Lines - 1
    <3>1. ~(Place(r, k) < LastLine)
      BY <2>2, <2>4, Sizes
    <3> QED
      BY <1>3, <2>3, <2>4, <3>1
  <2>5. CASE r # Lines - 1
    <3>1. Place(r, k) < LastLine
      BY <2>2, <2>5, Sizes DEF Line
    <3>2. row(r)[k] = s.buf[Place(r + 1, k)]
      BY <1>1, <1>2, <2>5
    <3> QED
      BY <2>3, <3>1, <3>2
  <2> QED
    BY <2>4, <2>5
<1>6. IsText(new) /\ \A r \in Line : new[r] = row(r)
  <2> HIDE DEF row
  <2>1. \A r \in Line : new[r] = row(r)
    OBVIOUS
  <2>2. new = [r \in Line |-> new[r]]
    BY <2>1
  <2>3. \A r \in Line : new[r] = [k \in Column |-> new[r][k]]
    BY <1>4, <2>1
  <2> HIDE DEF new
  <2> QED
    BY <2>1, <2>2, <2>3 DEF IsText
<1> HIDE DEF row, new
<1>7. Shown(t) = new
  BY <1>5, <1>6, ShownIs
<1> QED
  BY <1>7 DEF new, row, text

\* new_line begins the next row, wherever the cursor is.
LEMMA LineFeedStep == ASSUME NEW s \in Screen PROVE IsNextRow(s, LineFeed(s))
<1>1. s.ypos \in Nat /\ s.ypos < Lines /\ Lines \in Nat
  BY ScreenFields, Sizes
<1>2. CASE s.ypos + 1 < Lines
  <2>1. LineFeed(s) = [buf |-> s.buf, xpos |-> 0, ypos |-> s.ypos + 1]
    BY <1>2, ScreenFields DEF LineFeed, Screen
  <2>2. Shown(LineFeed(s)) = Shown(s)
    BY <2>1 DEF Shown
  <2> QED
    BY <1>1, <1>2, <2>1, <2>2 DEF IsNextRow
<1>3. CASE ~(s.ypos + 1 < Lines)
  <2>1. LineFeed(s) = [buf |-> Scrolled(s.buf), xpos |-> 0, ypos |-> s.ypos]
    BY <1>3, ScreenFields DEF LineFeed, Screen
  <2>2. /\ LineFeed(s).buf = Scrolled(s.buf) /\ LineFeed(s).xpos = 0 /\ LineFeed(s).ypos = s.ypos
    BY <2>1
  <2>3. s.ypos = Lines - 1
    BY <1>1, <1>3
  <2> QED
    BY <2>2, <2>3, ScrolledShown DEF IsNextRow
<1> QED
  BY <1>2, <1>3

\* What nb_print writes before it looks at the end of the line.
LEMMA Written ==
    ASSUME NEW s \in InLine, NEW c \in Printable
    PROVE LET w == [buf |-> [s.buf EXCEPT ![Place(s.ypos, s.xpos)] = c],
                    xpos |-> s.xpos + 1, ypos |-> s.ypos]     \* the cursor does not overflow
          IN w \in Screen /\ Put(s, c) = IF w.xpos >= LineLen THEN LineFeed(w) ELSE w
<1> DEFINE p == Place(s.ypos, s.xpos)
           b == [s.buf EXCEPT ![p] = c]
           x == s.xpos + 1
           w == [buf |-> b, xpos |-> x, ypos |-> s.ypos]
           r == [s EXCEPT !.buf[p] = c, !.xpos = (@ + 1) % 256]
<1>0. (s.xpos + 1) % 256 = x
  BY InLineFields, Sizes
<1>1. r = [s EXCEPT !.buf = b, !.xpos = x]
  BY <1>0
<1>2. Put(s, c) = IF r.xpos >= LineLen THEN LineFeed(r) ELSE r
  BY DEF Put, Place
<1>3. b \in [Cell -> Content]
  BY InLineFields, ContentFacts
<1>4. x \in 0 .. 255
  BY InLineFields, Sizes
<1> HIDE DEF r, b, x
<1>5. r = w
  BY <1>1, InLineFields, TextReplaced
<1>6. w \in Screen
  BY <1>3, <1>4, InLineFields DEF Screen, Line
<1> QED
  BY <1>2, <1>5, <1>6 DEF b, x, p

\* A character is shown where the cursor is; behind the last column it is not
\* shown, and the next row begins.
LEMMA PutStep == ASSUME NEW s \in InLine, NEW c \in Printable PROVE IsPut(s, Put(s, c), c)
<1> DEFINE p == Place(s.ypos, s.xpos)
           w == [buf |-> [s.buf EXCEPT ![p] = c], xpos |-> s.xpos + 1, ypos |-> s.ypos]
<1>1. w \in Screen /\ Put(s, c) = IF w.xpos >= LineLen THEN LineFeed(w) ELSE w
  BY Written
<1>2. w.xpos = s.xpos + 1 /\ w.ypos = s.ypos /\ w.buf = [s.buf EXCEPT ![p] = c]
  OBVIOUS
<1> HIDE DEF w
<1>3. \A r \in Line, k \in Column :
         w.buf[Place(r, k)] = IF r = s.ypos /\ k = s.xpos THEN c ELSE s.buf[Place(r, k)]
  <2> SUFFICES ASSUME NEW r \in Line, NEW k \in Column
               PROVE w.buf[Place(r, k)] = IF r = s.ypos /\ k = s.xpos THEN c ELSE s.buf[Place(r, k)]
    OBVIOUS
  <2>1. k \in 0 .. LineLen - 1 /\ Place(r, k) \in Cell
    BY NotAtEnd, PlaceInside
  <2>2. Place(r, k) = p <=> r = s.ypos /\ k = s.xpos
    BY <2>1, InLineFields, PlacesApart
  <2>3. w.buf[Place(r, k)] = IF Place(r, k) = p THEN c ELSE s.buf[Place(r, k)]
    BY <1>2, <2>1, InLineFields
  <2> QED
    BY <2>2, <2>3
<1>4. CASE s.xpos < LineLen - 1
  <2>0. PICK y \in Line : y = s.ypos
    BY InLineFields
  <2>1. PICK x, o : x = s.xpos /\ o = s
    OBVIOUS
  <2>2. \A r \in Line, k \in Column :
           w.buf[Place(r, k)] = IF r = y /\ k = x THEN c ELSE o.buf[Place(r, k)]
    BY <1>3, <2>1, <2>0
  <2>3. Shown(w) = WithCharacter(Shown(o), y, x, c)
    BY <2>2, CharacterShown
  <2>4. Shown(w) = [Shown(s) EXCEPT ![s.ypos][s.xpos] = c]
    BY <2>1, <2>0, <2>3 DEF WithCharacter
  <2>5. Put(s, c) = w
    BY <1>1, <1>2, <1>4, InLineFields, Sizes
  <2> QED
    BY <1>2, <1>4, <2>4, <2>5 DEF IsPut
<1>5. CASE s.xpos = LineLen - 1
  <2>1. \A k \in Column : k # s.xpos
    BY <1>5, Sizes DEF Column
  <2>2. Shown(w) = Shown(s)
    BY <1>3, <2>1, SameShown
  <2>3. Put(s, c) = LineFeed(w)
    BY <1>1, <1>2, <1>5, InLineFields, Sizes
  <2>4. IsNextRow(w, LineFeed(w))
    BY <1>1, LineFeedStep
  <2>5. IsNextRow(s, LineFeed(w))
    BY <1>2, <2>2, <2>4 DEF IsNextRow
  <2> QED
    BY <1>5, <2>3, <2>5 DEF IsPut
<1> QED
  BY <1>4, <1>5, InLineFields, Sizes

\* The tabulator blanks up to the next stop, if that is in the line.
LEMMA TabStep == ASSUME NEW s \in InLine, Tab(s).xpos < LineLen PROVE IsTab(s, Tab(s))
<1> DEFINE stop == NextStop(s.xpos)
<1>0. /\ stop \in Nat /\ stop % TabStop = 0 /\ s.xpos + 1 <= stop /\ stop - s.xpos <= TabStop
  BY InLineFields, StopAfter
<1>1. stop % 256 = stop
  BY <1>0, InLineFields, Sizes, ScreenAssumption
<1>2. /\ Tab(s).buf = Filled(s.buf, s.ypos * LineLen + s.xpos, stop - s.xpos)
      /\ Tab(s).xpos = stop /\ Tab(s).ypos = s.ypos
  <2> DEFINE r == Tab(s)
             b == Filled(s.buf, s.ypos * LineLen + s.xpos, stop - s.xpos)
  <2>1. r = [s EXCEPT !.buf = b, !.xpos = stop]
    BY <1>1 DEF Tab
  <2> HIDE DEF r, b, stop
  <2>2. r = [buf |-> b, xpos |-> stop, ypos |-> s.ypos]
    BY <2>1, InLineFields, TextReplaced
  <2>3. r.buf = b /\ r.xpos = stop /\ r.ypos = s.ypos
    BY <2>2
  <2> QED
    BY <2>3 DEF r, b, stop
<1> HIDE DEF stop
<1>3. s.ypos \in Line /\ s.xpos \in 0 .. LineLen /\ stop \in 0 .. LineLen
  BY <1>0, <1>2, InLineFields, Sizes
<1>4. Tab(s).buf = Filled(s.buf, Place(s.ypos, s.xpos), stop - s.xpos)
  BY <1>2 DEF Place
<1>5. Shown(Tab(s)) = [Shown(s) EXCEPT ![s.ypos] = [k \in Column |-> IF k \in s.xpos .. stop - 1 THEN Space
                                                                    ELSE Shown(s)[s.ypos][k]]]
  <2>0. PICK y \in Line, x \in 0 .. LineLen : y = s.ypos /\ x = s.xpos
    BY <1>3
  <2>1. PICK t : t = Tab(s)
    OBVIOUS
  <2>2. t.buf = Filled(s.buf, Place(y, x), stop - x)
    BY <1>4, <2>0, <2>1
  <2>3. Shown(t) = WithBlanks(Shown(s), y, x, stop)
    BY <1>3, <2>2, FilledShown
  <2> QED
    BY <2>0, <2>1, <2>3 DEF WithBlanks, WithLine, BlankedPart
<1>6. stop \in s.xpos + 1 .. LineLen - 1
  BY <1>0, <1>2, InLineFields, Sizes
<1> QED
  BY <1>0, <1>2, <1>5, <1>6 DEF IsTab

\* SETCUR moves the cursor inside the screen.
LEMMA CursorStep == ASSUME NEW s \in InLine, NEW x \in Int, NEW y \in Int
                    PROVE IsMove(s, CursorSet(s, x, y))
<1>1. CursorSet(s, x, y) = [buf |-> s.buf, xpos |-> Clamped(x, LineLen), ypos |-> Clamped(y, Lines)]
  BY InLineFields, CursorReplaced, Zenon DEF CursorSet
<1>2. /\ Clamped(x, LineLen) \in Nat /\ Clamped(x, LineLen) < LineLen
      /\ Clamped(y, Lines) \in Nat /\ Clamped(y, Lines) < Lines
  BY ClampedRange, Sizes
<1>3. /\ CursorSet(s, x, y).buf = s.buf
      /\ CursorSet(s, x, y).xpos = Clamped(x, LineLen)
      /\ CursorSet(s, x, y).ypos = Clamped(y, Lines)
  BY <1>1
<1>4. Shown(CursorSet(s, x, y)) = Shown(s)
  BY <1>3, SameShown
<1> QED
  BY <1>2, <1>3, <1>4, Sizes DEF IsMove, Line

\* CLRLINE blanks the line it goes to.
LEMMA LineClearedStep == ASSUME NEW s \in InLine, NEW y \in Int
                         PROVE IsEraseRow(s, LineCleared(s, y))
<1> DEFINE line == IF y % 256 > 0 THEN Clamped(y, Lines) ELSE s.ypos
           column == IF y % 256 > 0 THEN s.xpos ELSE 0
           b == Filled(s.buf, line * LineLen, LineLen)
           t == LineCleared(s, y)
<1>1. t.buf = b /\ t.xpos = column /\ t.ypos = line
  <2>1. t = [s EXCEPT !.ypos = line, !.xpos = column, !.buf = b]
    BY DEF LineCleared
  <2> HIDE DEF t, b, line, column
  <2> QED
    BY <2>1, InLineFields DEF Screen
<1>2. line \in Line
  <2>1. Clamped(y, Lines) \in Nat /\ Clamped(y, Lines) < Lines /\ s.ypos \in Line
    BY InLineFields, ClampedRange, Sizes
  <2> QED
    BY <2>1, Sizes DEF Line
<1>3. (column = s.xpos /\ line \in Line) \/ (column = 0 /\ line = s.ypos)
  BY <1>2
<1> HIDE DEF t, line, column
<1>4. Shown(t) = WithLine(Shown(s), line, BlankLine)
  <2>0. PICK q \in Line, a \in 0 .. LineLen, e \in 0 .. LineLen : q = line /\ a = 0 /\ e = LineLen
    BY <1>2, Sizes
  <2>1. PICK o : o = s
    OBVIOUS
  <2>2. Place(q, a) = line * LineLen /\ e - a = LineLen
    BY <2>0, <2>1, Sizes DEF Place, Line
  <2>3. t.buf = Filled(o.buf, Place(q, a), e - a)
    BY <1>1, <2>0, <2>1, <2>2
  <2>4. Shown(t) = WithBlanks(Shown(o), q, a, e)
    BY <2>3, FilledShown
  <2>5. \A k \in Column : k \in a .. e - 1
    BY <2>0, <2>1, Sizes DEF Column
  <2>6. BlankedPart(Shown(o)[q], a, e) = BlankLine
    BY <2>5 DEF BlankLine, BlankedPart
  <2> QED
    BY <2>0, <2>1, <2>4, <2>6 DEF WithBlanks
<1>5. IsEraseRow(s, t)
  BY <1>1, <1>3, <1>4 DEF IsEraseRow, WithLine
<1> QED
  BY <1>5 DEF t

-----------------------------------------------------------------------------
\* The relations of screens are the steps of the terminal that a handle shows.

\* One case per action of Terminal, for the screen of a handle.
IsTerminal(s, t) == \/ \E c \in Printable : IsPut(s, t, c)
                    \/ IsNextRow(s, t) \/ IsTab(s, t) \/ IsMove(s, t) \/ IsEraseRow(s, t) \/ IsEraseAll(t)

\* A screen that changes like a terminal is one.
LEMMA TerminalStep == ASSUME NEW h \in Handle, IsTerminal(screen[h], screen'[h])
                      PROVE Term(h)!TNext
<1>1. 0 .. Lines - 1 = Line /\ 0 .. LineLen - 1 - 1 = Column
  BY Sizes DEF Line, Column
<1>2. ASSUME IsNextRow(screen[h], screen'[h]) PROVE Term(h)!NextRow(Shown(screen[h]))
  BY <1>1, <1>2, Sizes DEF IsNextRow, Term!NextRow, Term!Row, Term!Column, Term!BlankRow, BlankLine
<1>3. ASSUME NEW c \in Printable, IsPut(screen[h], screen'[h], c) PROVE Term(h)!Put(c)
  BY <1>2, <1>3 DEF IsPut, Term!Put
<1>4. ASSUME IsTab(screen[h], screen'[h]) PROVE Term(h)!Tab
  BY <1>1, <1>4 DEF IsTab, Term!Tab, Term!Column
<1>5. ASSUME IsMove(screen[h], screen'[h]) PROVE Term(h)!Move
  BY <1>1, <1>5 DEF IsMove, Term!Move, Term!Row
<1>6. ASSUME IsEraseRow(screen[h], screen'[h]) PROVE Term(h)!EraseRow
  BY <1>1, <1>6 DEF IsEraseRow, Term!EraseRow, Term!Row, Term!Column, Term!BlankRow, BlankLine
<1>7. ASSUME IsEraseAll(screen'[h]) PROVE Term(h)!EraseAll
  BY <1>1, <1>7 DEF IsEraseAll, Term!EraseAll, Term!Row, Term!Column, Term!BlankRow, Blank
<1> QED
  BY <1>2, <1>3, <1>4, <1>5, <1>6, <1>7, Zenon DEF IsTerminal, Term!TNext

-----------------------------------------------------------------------------
\* The steps of the binding are steps of terminals.

\* The screen shows what it showed, with the same cursor.
IsSame(s, t) == Shown(t) = Shown(s) /\ t.xpos = s.xpos /\ t.ypos = s.ypos
Acts(s, t) == IsTerminal(s, t) \/ IsSame(s, t)
OutsideLine(s, t) == s.xpos >= LineLen \/ t.xpos >= LineLen
AllAct == \A h \in Handle : \/ Acts(screen[h], screen'[h]) \/ OutsideLine(screen[h], screen'[h])
                            \/ Restored(h)

\* A screen that stays shows what it showed.
LEMMA Stands == \A s : Acts(s, s)
  BY DEF Acts, IsSame

\* nb_print writes on the screen as on a terminal (nb_lua.c:141), as long as the
\* cursor is in its line.
LEMMA PrintedActs ==
    ASSUME NEW s \in InLine, NEW c, Printed(s, c).xpos < LineLen PROVE Acts(s, Printed(s, c))
<1>1. CASE c \in Printable /\ Printed(s, c) = Put(s, c)
  BY <1>1, PutStep, Zenon DEF Acts, IsTerminal
<1>2. CASE Printed(s, c) = LineFeed(s)
  BY <1>2, InLineFields, LineFeedStep, Zenon DEF Acts, IsTerminal
<1>3. CASE Printed(s, c) = Tab(s)
  <2>1. IsTab(s, Tab(s))
    BY <1>3, TabStep
  <2> QED
    BY <1>3, <2>1, Zenon DEF Acts, IsTerminal
<1>4. CASE Printed(s, c) = s
  BY <1>4, Stands, Zenon
<1> QED
  BY <1>1, <1>2, <1>3, <1>4 DEF Printed

\* A clear screen is one that was erased.
LEMMA ClearedActs == \A s : Acts(s, Cleared) /\ Acts(s, FreshScreen)
<1>1. IsEraseAll(Cleared)
  <2>1. Cleared.xpos = 0 /\ Cleared.ypos = 0
    BY DEF Cleared
  <2> QED
    BY <2>1, ClearedShown DEF IsEraseAll
<1>2. IsEraseAll(FreshScreen)
  <2>1. FreshScreen.xpos = 0 /\ FreshScreen.ypos = 0
    BY DEF FreshScreen
  <2> QED
    BY <2>1, FreshShown DEF IsEraseAll
<1> QED
  BY <1>1, <1>2, Zenon DEF Acts, IsTerminal

\* Every step writes on a screen as on a terminal, brings one back, or shows
\* nothing: one case per action that writes on screens.
LEMMA AllStepsAct ==
    ASSUME screen \in [Handle -> Good], CallType, CpuRight, PlaceOfCall, Next PROVE AllAct
<1>1. ASSUME NEW h \in Handle, NEW g, screen' = [screen EXCEPT ![h] = g],
             Acts(screen[h], g) \/ OutsideLine(screen[h], g)
      PROVE AllAct
  <2>1. \A k \in Handle : screen'[k] = IF k = h THEN g ELSE screen[k]
    BY <1>1
  <2> QED
    BY <1>1, <2>1, Stands DEF AllAct
<1>2. ASSUME NEW h \in Handle, NEW g, ~OutsideLine(screen[h], g) PROVE screen[h] \in InLine
  <2>1. screen[h] \in Good /\ screen[h].xpos \in Nat
    BY ScreenFields DEF Good
  <2> QED
    BY <1>2, <2>1, Sizes DEF OutsideLine, InLine
<1>3. ASSUME UNCHANGED screen PROVE AllAct
  BY <1>3, Stands DEF AllAct
<1>4. CASE PrintChar
  <2>1. cpu \in Handle
    BY <1>4, OutputHasCpu DEF PrintChar
  <2>2. CASE WritesBehind(screen[cpu], Head(out))
    BY <1>3, <1>4, <2>2 DEF PrintChar
  <2>3. CASE ~WritesBehind(screen[cpu], Head(out))
    <3> DEFINE g == Printed(screen[cpu], Head(out))
    <3>1. screen' = [screen EXCEPT ![cpu] = g]
      BY <1>4, <2>3 DEF PrintChar
    <3>2. ASSUME ~OutsideLine(screen[cpu], g) PROVE Acts(screen[cpu], g)
      <4>1. screen[cpu] \in InLine
        BY <1>2, <2>1, <3>2
      <4>2. screen[cpu] \in Good /\ g \in Good
        BY <2>1, <2>3, PrintedGood
      <4>3. g.xpos \in Nat
        BY <4>2, ScreenFields DEF Good
      <4>4. g.xpos < LineLen
        BY <3>2, <4>3, Sizes DEF OutsideLine
      <4> QED
        BY <4>1, <4>4, PrintedActs
    <3> HIDE DEF g
    <3> QED
      BY <1>1, <2>1, <3>1, <3>2
  <2> QED
    BY <2>2, <2>3
<1>5. CASE SetCur
  <2>1. self \in Handle
    BY <1>5, InsideHasCpu DEF SetCur, Answers
  <2>2. PICK x \in Numbers, y \in Numbers : screen' = [screen EXCEPT ![self] = CursorSet(screen[self], x, y)]
    BY <1>5 DEF SetCur
  <2> DEFINE g == CursorSet(screen[self], x, y)
  <2>3. ~OutsideLine(screen[self], g) => IsMove(screen[self], g)
    BY <1>2, <2>1, CursorStep, NumbersAreIntegers
  <2> HIDE DEF g
  <2>4. Acts(screen[self], g) \/ OutsideLine(screen[self], g)
    BY <2>3, Zenon DEF Acts, IsTerminal
  <2> QED
    BY <1>1, <2>1, <2>2, <2>4 DEF g
<1>6. CASE ClrScr
  <2>1. self \in Handle
    BY <1>6, InsideHasCpu DEF ClrScr, Answers
  <2> QED
    BY <1>1, <1>6, <2>1, ClearedActs DEF ClrScr
<1>7. CASE ClrLine
  <2>1. self \in Handle
    BY <1>7, InsideHasCpu DEF ClrLine, Answers
  <2>2. PICK y \in Numbers : screen' = [screen EXCEPT ![self] = LineCleared(screen[self], y)]
    BY <1>7 DEF ClrLine
  <2> DEFINE g == LineCleared(screen[self], y)
  <2>3. ~OutsideLine(screen[self], g) => IsEraseRow(screen[self], g)
    BY <1>2, <2>1, LineClearedStep, NumbersAreIntegers
  <2> HIDE DEF g
  <2>4. Acts(screen[self], g) \/ OutsideLine(screen[self], g)
    BY <2>3, Zenon DEF Acts, IsTerminal
  <2> QED
    BY <1>1, <2>1, <2>2, <2>4 DEF g
<1>8. ASSUME NEW h \in Handle, Create(h) PROVE AllAct
  BY <1>1, <1>8, ClearedActs DEF Create
<1>9. ASSUME NEW h \in Handle, ClearScreen(h) PROVE AllAct
  BY <1>1, <1>9, ClearedActs DEF ClearScreen
<1>10. ASSUME NEW h \in Handle, GetScreenBuffer(h) PROVE AllAct
  <2>1. PICK s \in Good : s = screen[h]
    BY <1>10
  <2> DEFINE t == [s EXCEPT !.buf = WithLineEnds(@)]
  <2>2. Shown(t) = Shown(s)
    BY EndedShown
  <2>3. t.xpos = s.xpos /\ t.ypos = s.ypos
    OBVIOUS
  <2>4. screen' = [screen EXCEPT ![h] = t]
    BY <1>10, <2>1 DEF GetScreenBuffer
  <2> HIDE DEF t
  <2>5. Acts(screen[h], t)
    BY <2>1, <2>2, <2>3 DEF Acts, IsSame
  <2> QED
    BY <1>1, <2>4, <2>5
<1>11. ASSUME NEW h \in Handle, UnpackVm(h) PROVE AllAct
  <2>1. packed # Null /\ screen' = [screen EXCEPT ![h] = packed.screen]
    BY <1>11 DEF UnpackVm
  <2>2. \A k \in Handle : screen'[k] = IF k = h THEN packed.screen ELSE screen[k]
    BY <2>1
  <2> QED
    BY <2>1, <2>2, Stands DEF AllAct, Restored
<1>12. ASSUME NEW t \in Texts, CompileError(t) \/ ProgramPrints(t) \/ Listed(t) PROVE AllAct
  BY <1>3, <1>12 DEF CompileError, ProgramPrints, Listed
<1>13. ASSUME \/ Compiled \/ LuaPrinted \/ Enter \/ MachineBusy \/ PushAnswer \/ ToLua
              \/ LoopEnds \/ RunReturned \/ ListingReturned \/ AddFunction
              \/ \E r \in Results : MachineReturns(r)
       PROVE AllAct
  BY <1>3, <1>13 DEF Compiled, LuaPrinted, Enter, MachineBusy, PushAnswer, ToLua, LoopEnds, RunReturned,
                     ListingReturned, AddFunction, MachineReturns
<1>14. ASSUME NEW h \in Handle,
              \/ \E t \in Texts : LuaPrint(h, t)
              \/ \E n \in Budgets : Run(h, n)
              \/ SymbolTable(h) \/ UseMachine(h) \/ Destroy(h) \/ UseDestroyed(h) \/ PackVm(h)
       PROVE AllAct
  BY <1>3, <1>14 DEF LuaPrint, Run, SymbolTable, UseMachine, Destroy, UseDestroyed, PackVm
<1>15. CASE Step
  BY <1>4, <1>5, <1>6, <1>7, <1>12, <1>13, <1>15, Zenon DEF Step
<1>16. CASE Lua
  BY <1>8, <1>9, <1>10, <1>11, <1>14, <1>16, Zenon DEF Lua
<1> QED
  BY <1>13, <1>15, <1>16, Zenon DEF Next

\* A new screen is a new terminal.
LEMMA StartsBlank == ASSUME Init PROVE \A h \in Handle : Term(h)!TInit
<1> SUFFICES ASSUME NEW h \in Handle PROVE Term(h)!TInit
  OBVIOUS
<1>1. screen[h] = FreshScreen
  BY DEF Init
<1>2. 0 .. Lines - 1 = Line /\ 0 .. LineLen - 1 - 1 = Column
  BY Sizes DEF Line, Column
<1>3. FreshScreen.xpos = 0 /\ FreshScreen.ypos = 0
  BY DEF FreshScreen
<1> QED
  BY <1>1, <1>2, <1>3, FreshShown DEF Blank, Term!TInit, Term!BlankRow, Term!Row, Term!Column

\* What screens do is what terminals do.
LEMMA TerminalsAct ==
    ASSUME AllAct
    PROVE \A h \in Handle : \/ Term(h)!TNext \/ UNCHANGED Term(h)!tvars \/ Restored(h) \/ OutOfLine(h)
<1> SUFFICES ASSUME NEW h \in Handle
             PROVE Term(h)!TNext \/ UNCHANGED Term(h)!tvars \/ Restored(h) \/ OutOfLine(h)
  OBVIOUS
<1>1. CASE IsTerminal(screen[h], screen'[h])
  BY <1>1, TerminalStep
<1>2. CASE IsSame(screen[h], screen'[h])
  BY <1>2 DEF IsSame, Term!tvars
<1> QED
  BY <1>1, <1>2, Zenon DEF AllAct, Acts, OutsideLine, OutOfLine

\* The screen of every handle is a terminal to the program, whatever is printed,
\* read, cleared, packed and unpacked in between: the array with line ends, the
\* scrolling and the external functions of run (nb_lua.c:130, 141, 238).  Steps
\* from or to a cursor that a tabulator took out of its line are excepted.
THEOREM ScreensAreTerminals == Spec => ImplementsTerminal
<1> DEFINE Moves == \A h \in Handle : \/ Term(h)!TNext \/ UNCHANGED Term(h)!tvars
                                      \/ Restored(h) \/ OutOfLine(h)
           Starts == \A h \in Handle : Term(h)!TInit
<1>1. Init => Starts
  BY StartsBlank
<1>2. HInv /\ [Next]_vars => [Moves]_screen
  <2>1. ASSUME HInv, Next PROVE Moves
    <3>1. Sound
      BY <2>1, NotAstray, Zenon DEF HInv
    <3>2. AllAct
      BY <2>1, <3>1, AllStepsAct DEF Sound
    <3> QED
      BY <3>2, TerminalsAct
  <2>2. ASSUME UNCHANGED vars PROVE UNCHANGED screen
    BY <2>2 DEF vars
  <2> HIDE DEF Moves
  <2> QED
    BY <2>1, <2>2
<1>3. ImplementsTerminal <=> Starts /\ [][Moves]_screen
  BY DEF ImplementsTerminal
<1> HIDE DEF Moves, Starts
<1> QED
  BY <1>1, <1>2, <1>3, HInvHolds, PTL DEF Spec
=============================================================================
