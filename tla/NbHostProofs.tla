----------------------------- MODULE NbHostProofs -----------------------------
(***************************************************************************)
(* Theorems about the Lua binding, for every screen, every number of       *)
(* handles and machines, and whatever Lua and the programs do.             *)
(***************************************************************************)
EXTENDS NbHost, TLAPS

-----------------------------------------------------------------------------
\* The operators on screens make screens of screens; the cursor leaves its line only
\* by the tabulator.

\* The size of the screen as numbers, small enough for the bytes of the cursor.
LEMMA Sizes == /\ Lines \in Nat /\ Lines >= 1 /\ Lines < 256
               /\ LineLen \in Nat /\ LineLen >= 2 /\ LineLen < 256
               /\ TabStop \in Nat /\ TabStop >= 1
  BY ScreenAssumption

\* What is written on a screen may stand on one.
LEMMA ContentFacts == /\ Space \in Content /\ NewLine \in Content /\ EndOfText \in Content
                      /\ Printable \subseteq Content
  BY ScreenAssumption DEF Content

\* A screen is its three fields.
LEMMA ScreenFields == ASSUME NEW s \in Screen
                      PROVE /\ s.buf \in [Cell -> Content]
                            /\ s.xpos \in Nat /\ s.xpos < 256
                            /\ s.ypos \in Nat /\ s.ypos < Lines
                            /\ s = [buf |-> s.buf, xpos |-> s.xpos, ypos |-> s.ypos]
  BY Sizes DEF Screen

\* Screens of which some fields are replaced.
LEMMA CursorReplaced ==
    ASSUME NEW s \in Screen, NEW x, NEW y, NEW r, r = [s EXCEPT !.xpos = x, !.ypos = y]
    PROVE r = [buf |-> s.buf, xpos |-> x, ypos |-> y]
  BY DEF Screen

\* A screen whose text is replaced.
LEMMA TextReplaced ==
    ASSUME NEW s \in Screen, NEW b, NEW x, NEW r, r = [s EXCEPT !.buf = b, !.xpos = x]
    PROVE r = [buf |-> b, xpos |-> x, ypos |-> s.ypos]
  BY DEF Screen

\* A screen from its parts.
LEMMA GoodScreen == ASSUME NEW b \in [Cell -> Content], NEW x \in Nat, x < LineLen,
                           NEW y \in Nat, y < Lines
                    PROVE [buf |-> b, xpos |-> x, ypos |-> y] \in Good
  BY Sizes DEF Good, Screen

\* A screen whose cursor a tabulator took behind its line.
LEMMA GoodAtStop == ASSUME NEW b \in [Cell -> Content], NEW x \in Nat, x < 256, x % TabStop = 0,
                           NEW y \in Nat, y < Lines
                    PROVE [buf |-> b, xpos |-> x, ypos |-> y] \in Good
<1> DEFINE s == [buf |-> b, xpos |-> x, ypos |-> y]
<1>1. s \in Screen
  BY Sizes DEF Screen
<1>2. s.xpos % TabStop = 0
  OBVIOUS
<1> QED
  BY <1>1, <1>2, Zenon DEF Good

\* Line ends are written inside the array (create, get_screen_buffer).
LEMMA LineEndsType == ASSUME NEW buf \in [Cell -> Content]
                      PROVE WithLineEnds(buf) \in [Cell -> Content]
  BY ContentFacts DEF WithLineEnds

\* The memset of clear_screen.
LEMMA BlanksType == Blanks \in [Cell -> Content]
  BY ContentFacts DEF Blanks

\* The memset of the tabulator and of CLRLINE.
LEMMA FilledType == ASSUME NEW buf \in [Cell -> Content], NEW a, NEW n
                    PROVE Filled(buf, a, n) \in [Cell -> Content]
  BY ContentFacts DEF Filled

\* Above the last line there is a line below.
LEMMA LineBelow == ASSUME NEW k \in Cell, k < LastLine PROVE k + LineLen \in Cell
<1> DEFINE size == Lines * LineLen
<1>1. size \in Int /\ LastLine = size - LineLen
  BY Sizes DEF LastLine
<1>2. k \in 0 .. size - 1
  BY DEF Cell
<1> HIDE DEF size
<1>3. k + LineLen \in 0 .. size - 1
  BY <1>1, <1>2, Sizes
<1> QED
  BY <1>3 DEF Cell, size

\* The memmove of new_line makes an array of characters of one.
LEMMA ScrolledType == ASSUME NEW buf \in [Cell -> Content]
                      PROVE Scrolled(buf) \in [Cell -> Content]
<1>1. \A k \in Cell : k < LastLine => buf[k + LineLen] \in Content
  BY LineBelow
<1> QED
  BY <1>1, ContentFacts DEF Scrolled

\* The screen of create has its cursor in its line.
LEMMA FreshGood == FreshScreen \in Good
<1>1. WithLineEnds(Blanks) \in [Cell -> Content]
  BY BlanksType, LineEndsType
<1> QED
  BY <1>1, Sizes, GoodScreen DEF FreshScreen

\* So has a screen that was cleared,
LEMMA ClearedGood == Cleared \in Good
<1>1. [Blanks EXCEPT ![Lines * LineLen - 1] = EndOfText] \in [Cell -> Content]
  BY BlanksType, ContentFacts
<1> QED
  BY <1>1, Sizes, GoodScreen DEF Cleared

\* one after new_line, wherever the cursor was before,
LEMMA LineFeedGood == ASSUME NEW s \in Screen PROVE LineFeed(s) \in Good
<1>1. CASE s.ypos + 1 < Lines
  <2>1. LineFeed(s) = [buf |-> s.buf, xpos |-> 0, ypos |-> s.ypos + 1]
    BY <1>1, ScreenFields DEF LineFeed, Screen
  <2> QED
    BY <2>1, <1>1, ScreenFields, GoodScreen, Sizes
<1>2. CASE ~(s.ypos + 1 < Lines)
  <2>1. LineFeed(s) = [buf |-> Scrolled(s.buf), xpos |-> 0, ypos |-> s.ypos]
    BY <1>2, ScreenFields DEF LineFeed, Screen
  <2>2. Scrolled(s.buf) \in [Cell -> Content]
    BY ScreenFields, ScrolledType
  <2> QED
    BY <2>1, <2>2, ScreenFields, GoodScreen, Sizes
<1> QED
  BY <1>1, <1>2

\* one after a character, which ends the line at its end,
LEMMA PutGood == ASSUME NEW s \in Good, NEW c \in Printable PROVE Put(s, c) \in Good
<1> DEFINE p == s.ypos * LineLen + s.xpos
           b == [s.buf EXCEPT ![p] = c]
           w == [buf |-> b, xpos |-> (s.xpos + 1) % 256, ypos |-> s.ypos]
<1>1. s \in Screen
  BY DEF Good
<1>2. [s EXCEPT !.buf[p] = c, !.xpos = (@ + 1) % 256] = w
  <2> DEFINE r == [s EXCEPT !.buf[p] = c, !.xpos = (@ + 1) % 256]
             x == (s.xpos + 1) % 256
  <2>1. r = [s EXCEPT !.buf = b, !.xpos = x]
    OBVIOUS
  <2> HIDE DEF r, b, x
  <2>2. r = [buf |-> b, xpos |-> x, ypos |-> s.ypos]
    BY <1>1, <2>1, TextReplaced
  <2> QED
    BY <2>2 DEF r, x
<1>3. Put(s, c) = IF w.xpos >= LineLen THEN LineFeed(w) ELSE w
  BY <1>2 DEF Put
<1> HIDE DEF p
<1>4. b \in [Cell -> Content]
  BY <1>1, ScreenFields, ContentFacts
<1> HIDE DEF b
<1>5. w \in Screen
  BY <1>1, <1>4, ScreenFields, Sizes DEF Screen
<1>6. CASE w.xpos >= LineLen
  BY <1>3, <1>5, <1>6, LineFeedGood
<1>7. CASE ~(w.xpos >= LineLen)
  BY <1>1, <1>3, <1>5, <1>7, ScreenFields, Sizes DEF Good
<1> QED
  BY <1>6, <1>7

\* A line begins where the lines above it end.
LEMMA LineOrder == ASSUME NEW len \in Nat, NEW r \in Int, NEW q \in Int, r + 1 <= q
                   PROVE r * len + len <= q * len
<1>1. (q - r - 1) * len >= 0
  OBVIOUS
<1> QED
  BY <1>1

\* Division with remainder.
LEMMA Divided == ASSUME NEW d \in Nat, d >= 1, NEW a \in Nat
                 PROVE a \div d \in Nat /\ a % d \in 0 .. d - 1 /\ a = (a \div d) * d + (a % d)
  OBVIOUS

\* The remainder is the only one.
LEMMA Remainder == ASSUME NEW d \in Nat, d >= 1, NEW r \in Nat, NEW m \in 0 .. d - 1
                   PROVE (r * d + m) % d = m
<1> DEFINE a == r * d + m
           q == a \div d
           n == a % d
<1>1. a \in Nat
  OBVIOUS
<1>2. q \in Nat /\ n \in 0 .. d - 1 /\ r * d + m = q * d + n
  BY <1>1, Divided
<1> HIDE DEF q, n, a
<1>3. ~(r + 1 <= q)
  <2> SUFFICES ASSUME r + 1 <= q PROVE FALSE
    OBVIOUS
  <2>1. r * d + d <= q * d
    BY <1>2, LineOrder
  <2> QED
    BY <1>2, <2>1
<1>4. ~(q + 1 <= r)
  <2> SUFFICES ASSUME q + 1 <= r PROVE FALSE
    OBVIOUS
  <2>1. q * d + d <= r * d
    BY <1>2, LineOrder
  <2> QED
    BY <1>2, <2>1
<1>5. q = r
  BY <1>2, <1>3, <1>4
<1>6. m = n
  BY <1>2, <1>5
<1> QED
  BY <1>6 DEF n, a

\* A multiple leaves nothing.
LEMMA MultipleLeavesNothing == ASSUME NEW d \in Nat, d >= 1, NEW r \in Nat PROVE (r * d) % d = 0
<1>1. PICK m \in 0 .. d - 1 : m = 0
  OBVIOUS
<1>2. (r * d + m) % d = m
  BY Remainder
<1>3. r * d + m = r * d
  BY <1>1
<1> QED
  BY <1>1, <1>2, <1>3

\* The tabulator stops are the multiples of TabStop.
LEMMA StopAfter == ASSUME NEW x \in Nat
                   PROVE /\ NextStop(x) \in Nat /\ NextStop(x) % TabStop = 0
                         /\ x + 1 <= NextStop(x) /\ NextStop(x) - x <= TabStop
<1>1. TabStop \in Nat /\ TabStop >= 1
  BY Sizes
<1>2. PICK a \in Nat : a = x + TabStop
  BY <1>1
<1> DEFINE q == a \div TabStop
           n == a % TabStop
<1>3. q \in Nat /\ n \in 0 .. TabStop - 1 /\ a = q * TabStop + n
  BY <1>1, Divided
<1>4. NextStop(x) = q * TabStop
  BY <1>2 DEF NextStop
<1> HIDE DEF q, n
<1>5. q * TabStop \in Nat
  BY <1>1, <1>3
<1>6. NextStop(x) % TabStop = 0
  BY <1>1, <1>3, <1>4, MultipleLeavesNothing
<1> DEFINE stop == q * TabStop
<1> HIDE DEF stop
<1>7. stop \in Nat /\ NextStop(x) = stop /\ x + TabStop = stop + n
  BY <1>2, <1>3, <1>4, <1>5 DEF stop
<1> QED
  BY <1>1, <1>3, <1>6, <1>7

\* and one after a tabulator, which may be behind its line then.
LEMMA TabGood == ASSUME NEW s \in Good, ~WritesBehind(s, Tabulator) PROVE Tab(s) \in Good
<1> DEFINE b == Filled(s.buf, s.ypos * LineLen + s.xpos, NextStop(s.xpos) - s.xpos)
<1>1. s \in Screen
  BY DEF Good
<1>2. NextStop(s.xpos) \in Nat /\ NextStop(s.xpos) % TabStop = 0
  BY <1>1, ScreenFields, StopAfter
<1>3. NextStop(s.xpos) < 256
  BY <1>2 DEF WritesBehind
<1>4. b \in [Cell -> Content]
  BY <1>1, ScreenFields, FilledType
<1>5. Tab(s) = [buf |-> b, xpos |-> NextStop(s.xpos), ypos |-> s.ypos]
  <2> DEFINE r == Tab(s)
             x == NextStop(s.xpos)
  <2>0. x % 256 = x
    BY <1>2, <1>3
  <2>1. r = [s EXCEPT !.buf = b, !.xpos = x]
    BY <2>0 DEF Tab
  <2> HIDE DEF r, b, x
  <2>2. r = [buf |-> b, xpos |-> x, ypos |-> s.ypos]
    BY <1>1, <2>1, TextReplaced
  <2> QED
    BY <2>2 DEF r, x
<1> HIDE DEF b
<1> QED
  BY <1>1, <1>2, <1>3, <1>4, <1>5, ScreenFields, GoodAtStop

\* nb_print, one character that writes inside the array.
LEMMA PrintedGood ==
    ASSUME NEW s \in Good, NEW c, ~WritesBehind(s, c) PROVE Printed(s, c) \in Good
<1>1. s \in Screen
  BY DEF Good
<1>2. /\ c \in Printable => Put(s, c) \in Good
      /\ LineFeed(s) \in Good
      /\ c = Tabulator => Tab(s) \in Good
  BY <1>1, PutGood, LineFeedGood, TabGood
<1> QED
  BY <1>2 DEF Printed

\* MAX(1, MIN(n, limit)) - 1 of run is less than the limit, also for a number that was cut to a byte.
LEMMA ClampedRange == ASSUME NEW n \in Int, NEW limit \in Nat, limit >= 1
                      PROVE Clamped(n, limit) \in Nat /\ Clamped(n, limit) < limit
<1>1. n % 256 \in Int
  OBVIOUS
<1> QED
  BY <1>1 DEF Clamped

\* SETCUR sets the cursor inside the screen.
LEMMA CursorGood == ASSUME NEW s \in Good, NEW x \in Int, NEW y \in Int
                    PROVE CursorSet(s, x, y) \in Good
<1>1. s \in Screen
  BY DEF Good
<1>2. CursorSet(s, x, y) = [buf |-> s.buf, xpos |-> Clamped(x, LineLen), ypos |-> Clamped(y, Lines)]
  BY <1>1, CursorReplaced, Zenon DEF CursorSet
<1>3. /\ Clamped(x, LineLen) \in Nat /\ Clamped(x, LineLen) < LineLen
      /\ Clamped(y, Lines) \in Nat /\ Clamped(y, Lines) < Lines
  BY ClampedRange, Sizes
<1> QED
  BY <1>1, <1>2, <1>3, ScreenFields, GoodScreen

\* CLRLINE clears a line of the screen.
LEMMA LineClearedGood == ASSUME NEW s \in Good, NEW y \in Int PROVE LineCleared(s, y) \in Good
<1> DEFINE line == IF y % 256 > 0 THEN Clamped(y, Lines) ELSE s.ypos
           column == IF y % 256 > 0 THEN s.xpos ELSE 0
           b == Filled(s.buf, line * LineLen, LineLen)
<1>1. s \in Screen /\ (s.xpos < LineLen \/ s.xpos % TabStop = 0)
  BY DEF Good
<1>2. LineCleared(s, y) = [buf |-> b, xpos |-> column, ypos |-> line]
  <2> DEFINE r == LineCleared(s, y)
  <2>1. r = [s EXCEPT !.ypos = line, !.xpos = column, !.buf = b]
    BY DEF LineCleared
  <2> HIDE DEF r, b, line, column
  <2>2. r = [buf |-> b, xpos |-> column, ypos |-> line]
    BY <1>1, <2>1 DEF Screen
  <2> QED
    BY <2>2 DEF r
<1>3. line \in Nat /\ line < Lines
  BY <1>1, ScreenFields, ClampedRange, Sizes
<1>4. column \in Nat /\ column < 256 /\ (column < LineLen \/ column % TabStop = 0)
  BY <1>1, ScreenFields, Sizes
<1>5. b \in [Cell -> Content]
  BY <1>1, ScreenFields, FilledType
<1> HIDE DEF b, line, column
<1> QED
  BY <1>2, <1>3, <1>4, <1>5, GoodScreen, GoodAtStop

\* get_screen_buffer leaves the cursor where it was.
LEMMA ShownGood == ASSUME NEW s \in Good PROVE [s EXCEPT !.buf = WithLineEnds(@)] \in Good
<1>1. s \in Screen /\ (s.xpos < LineLen \/ s.xpos % TabStop = 0)
  BY DEF Good
<1>2. [s EXCEPT !.buf = WithLineEnds(@)] = [buf |-> WithLineEnds(s.buf), xpos |-> s.xpos, ypos |-> s.ypos]
  BY <1>1 DEF Screen
<1>3. WithLineEnds(s.buf) \in [Cell -> Content]
  BY <1>1, ScreenFields, LineEndsType
<1> QED
  BY <1>1, <1>2, <1>3, ScreenFields, GoodScreen, GoodAtStop

-----------------------------------------------------------------------------
\* What a text is cut to fits a line.
LEMMA CutFits == ASSUME NEW t \in Seq(Char)
                 PROVE Cut(t) \in Seq(Char) /\ Len(Cut(t)) <= LineLen
<1>1. CASE Len(t) > LineLen
  <2>1. Cut(t) = SubSeq(t, 1, LineLen)
    BY <1>1 DEF Cut
  <2> QED
    BY <1>1, <2>1, Sizes
<1>2. CASE ~(Len(t) > LineLen)
  BY <1>2, Sizes DEF Cut
<1> QED
  BY <1>1, <1>2

\* Only output_symbol_table and add_function are listing.
Lists == {"output_symbol_table", "add_function"}
PlaceOfCall == at = "listing" <=> call \in Lists

\* The inductive invariant: as long as no memory was used that is nobody's,
Apart == \A g, h \in Handle : vm[h] # Null => /\ mem[vm[h]] # Null
                                              /\ vm[g] = vm[h] => g = h
CpuRight == IF call \in Prints THEN self \in Handle /\ cpu = self ELSE cpu = Null /\ out = <<>>
Sound == /\ screen \in [Handle -> Good] /\ OutType /\ PackedType /\ MachineType /\ CallType
         /\ BudgetType /\ Apart /\ CpuRight /\ PlaceOfCall
HInv == ~astray => Sound

\* NULL is neither a handle nor a machine nor a memory.
LEMMA NullIsNone == Null \notin Handle /\ Null \notin Machine /\ Null \notin Memory
  BY HostAssumption

\* What a program gives to SETCUR and CLRLINE are integers.
LEMMA NumbersAreIntegers == \A n \in Numbers : n \in Int
  BY HostAssumption

\* The library is loaded with the invariant true.
LEMMA InitHolds == Init => HInv
<1> SUFFICES ASSUME Init PROVE HInv
  OBVIOUS
<1>1. screen \in [Handle -> Good]
  BY FreshGood DEF Init
<1>2. OutType
  BY Sizes DEF Init, OutType
<1>3. PackedType
  BY DEF Init, PackedType
<1>4. MachineType
  BY DEF Init, MachineType
<1>5. CallType
  BY DEF Init, CallType
<1>6. BudgetType
  BY DEF Init, BudgetType, Results, MaxCycles
<1>7. CpuRight /\ Apart /\ PlaceOfCall
  BY DEF Init, CpuRight, Apart, PlaceOfCall, Prints, Lists
<1> QED
  BY <1>1, <1>2, <1>3, <1>4, <1>5, <1>6, <1>7, Zenon DEF HInv, Sound

\* No step is taken behind one that went astray.
LEMMA NotAstray == ASSUME Next PROVE ~astray
<1>1. ASSUME \/ PrintChar \/ Compiled \/ LuaPrinted \/ ListingReturned \/ Enter \/ MachineBusy
             \/ SetCur \/ ClrScr \/ ClrLine \/ PushAnswer \/ ToLua \/ LoopEnds \/ RunReturned
             \/ AddFunction
      PROVE ~astray
  BY <1>1, Zenon DEF PrintChar, Compiled, LuaPrinted, ListingReturned, Enter, MachineBusy, SetCur, ClrScr,
                     ClrLine, PushAnswer, Answers, ToLua, LoopEnds, RunReturned, AddFunction, Inside
<1>2. ASSUME NEW t \in Texts, CompileError(t) \/ ProgramPrints(t) \/ Listed(t) PROVE ~astray
  BY <1>2, Zenon DEF CompileError, ProgramPrints, Listed, Inside
<1>3. ASSUME NEW r \in Results, MachineReturns(r) PROVE ~astray
  BY <1>3, Zenon DEF MachineReturns, Inside
<1>4. ASSUME NEW h \in Handle,
             \/ Create(h) \/ SymbolTable(h) \/ GetScreenBuffer(h) \/ ClearScreen(h) \/ UseMachine(h)
             \/ Destroy(h) \/ UseDestroyed(h) \/ PackVm(h) \/ UnpackVm(h)
      PROVE ~astray
  BY <1>4, Zenon DEF Create, SymbolTable, GetScreenBuffer, ClearScreen, UseMachine, Destroy, UseDestroyed,
                     PackVm, UnpackVm, Quiet, Called
<1>5. ASSUME NEW h \in Handle, NEW t \in Texts, LuaPrint(h, t) PROVE ~astray
  BY <1>5, Zenon DEF LuaPrint
<1>6. ASSUME NEW h \in Handle, NEW n \in Budgets, Run(h, n) PROVE ~astray
  BY <1>6, Zenon DEF Run, Called
<1>7. CASE Step
  BY <1>1, <1>2, <1>3, <1>7, Zenon DEF Step
<1>8. CASE Lua
  BY <1>4, <1>5, <1>6, <1>8, Zenon DEF Lua
<1> QED
  BY <1>1, <1>7, <1>8, Zenon DEF Next

-----------------------------------------------------------------------------
\* The steps that write on screens.

\* A call between two prints is one that prints, with its handle in p_Cpu.
LEMMA InsideHasCpu ==
    ASSUME CallType, CpuRight, PlaceOfCall, NEW p, Inside(p), p \notin {"lua", "listing"}
    PROVE call \in Prints /\ self \in Handle /\ cpu = self
<1>1. ~astray /\ at = p
  BY Zenon DEF Inside
<1>2. call # "none" /\ call \notin Lists
  BY <1>1 DEF CallType, PlaceOfCall
<1>3. call \in Prints
  BY <1>2 DEF CallType, Lists
<1> QED
  BY <1>1, <1>3, Zenon DEF CpuRight

\* So has what is printed.
LEMMA OutputHasCpu == ASSUME CpuRight, out # <<>>
                      PROVE call \in Prints /\ self \in Handle /\ cpu = self
  BY Zenon DEF CpuRight

\* Every screen is written as one: one case per action that writes on screens.
LEMMA ScreensStep ==
    ASSUME screen \in [Handle -> Good], CallType, CpuRight, PlaceOfCall, PackedType, Next
    PROVE screen' \in [Handle -> Good]
<1>1. ASSUME NEW h \in Handle, NEW g \in Good, screen' = [screen EXCEPT ![h] = g]
      PROVE screen' \in [Handle -> Good]
  BY <1>1
<1>2. ASSUME NEW h \in Handle PROVE screen[h] \in Good
  BY <1>2
<1>3. CASE PrintChar
  <2>1. cpu \in Handle
    BY <1>3, OutputHasCpu DEF PrintChar
  <2>2. CASE WritesBehind(screen[cpu], Head(out))
    BY <1>3, <2>2 DEF PrintChar
  <2>3. CASE ~WritesBehind(screen[cpu], Head(out))
    <3>1. screen' = [screen EXCEPT ![cpu] = Printed(screen[cpu], Head(out))]
      BY <1>3, <2>3 DEF PrintChar
    <3>2. Printed(screen[cpu], Head(out)) \in Good
      BY <1>2, <2>1, <2>3, PrintedGood
    <3> QED
      BY <1>1, <2>1, <3>1, <3>2
  <2> QED
    BY <2>2, <2>3
<1>4. CASE SetCur
  <2>1. self \in Handle
    BY <1>4, InsideHasCpu DEF SetCur, Answers
  <2>2. PICK x \in Numbers, y \in Numbers : screen' = [screen EXCEPT ![self] = CursorSet(screen[self], x, y)]
    BY <1>4 DEF SetCur
  <2>3. CursorSet(screen[self], x, y) \in Good
    BY <1>2, <2>1, CursorGood, NumbersAreIntegers
  <2> QED
    BY <1>1, <2>1, <2>2, <2>3
<1>5. CASE ClrScr
  <2>1. self \in Handle
    BY <1>5, InsideHasCpu DEF ClrScr, Answers
  <2> QED
    BY <1>1, <1>5, <2>1, ClearedGood DEF ClrScr
<1>6. CASE ClrLine
  <2>1. self \in Handle
    BY <1>6, InsideHasCpu DEF ClrLine, Answers
  <2>2. PICK y \in Numbers : screen' = [screen EXCEPT ![self] = LineCleared(screen[self], y)]
    BY <1>6 DEF ClrLine
  <2>3. LineCleared(screen[self], y) \in Good
    BY <1>2, <2>1, LineClearedGood, NumbersAreIntegers
  <2> QED
    BY <1>1, <2>1, <2>2, <2>3
<1>7. ASSUME NEW h \in Handle, Create(h) PROVE screen' \in [Handle -> Good]
  BY <1>1, <1>7, FreshGood DEF Create
<1>8. ASSUME NEW h \in Handle, ClearScreen(h) PROVE screen' \in [Handle -> Good]
  BY <1>1, <1>8, ClearedGood DEF ClearScreen
<1>9. ASSUME NEW h \in Handle, GetScreenBuffer(h) PROVE screen' \in [Handle -> Good]
  <2>1. [screen[h] EXCEPT !.buf = WithLineEnds(@)] \in Good
    BY <1>2, <1>9, ShownGood
  <2>2. screen' = [screen EXCEPT ![h] = [screen[h] EXCEPT !.buf = WithLineEnds(@)]]
    BY <1>9 DEF GetScreenBuffer
  <2> QED
    BY <1>1, <2>1, <2>2
<1>10. ASSUME NEW h \in Handle, UnpackVm(h) PROVE screen' \in [Handle -> Good]
  <2>1. packed.screen \in Good
    BY <1>10 DEF UnpackVm, PackedType
  <2> QED
    BY <1>1, <1>10, <2>1 DEF UnpackVm
<1>11. ASSUME NEW t \in Texts, CompileError(t) \/ ProgramPrints(t) \/ Listed(t)
       PROVE screen' \in [Handle -> Good]
  BY <1>11 DEF CompileError, ProgramPrints, Listed
<1>12. ASSUME \/ Compiled \/ LuaPrinted \/ Enter \/ MachineBusy \/ PushAnswer \/ ToLua
              \/ LoopEnds \/ RunReturned \/ ListingReturned \/ AddFunction
              \/ \E r \in Results : MachineReturns(r)
       PROVE screen' \in [Handle -> Good]
  BY <1>12 DEF Compiled, LuaPrinted, Enter, MachineBusy, PushAnswer, ToLua, LoopEnds, RunReturned,
               ListingReturned, AddFunction, MachineReturns
<1>13. ASSUME NEW h \in Handle,
              \/ \E t \in Texts : LuaPrint(h, t)
              \/ \E n \in Budgets : Run(h, n)
              \/ SymbolTable(h) \/ UseMachine(h) \/ Destroy(h) \/ UseDestroyed(h) \/ PackVm(h)
       PROVE screen' \in [Handle -> Good]
  BY <1>13 DEF LuaPrint, Run, SymbolTable, UseMachine, Destroy, UseDestroyed, PackVm
<1>14. CASE Step
  BY <1>3, <1>4, <1>5, <1>6, <1>11, <1>12, <1>14, Zenon DEF Step
<1>15. CASE Lua
  BY <1>7, <1>8, <1>9, <1>10, <1>13, <1>15, Zenon DEF Lua
<1> QED
  BY <1>12, <1>14, <1>15, Zenon DEF Next

-----------------------------------------------------------------------------
\* The steps that print, pack, allocate, call and count.

\* Everything that run prints is made of characters.
LEMMA TextsAreChars == Ready \in Seq(Char) /\ \A t \in Texts : t \in Seq(Char)
  BY HostAssumption

\* What nb_print has to write is at most a line.
LEMMA PrintFits == ASSUME NEW t \in Seq(Char), nb_print(t) PROVE OutType'
<1>1. CASE cpu = Null
  <2>1. out' = <<>>
    BY <1>1 DEF nb_print
  <2> QED
    BY <2>1, Sizes DEF OutType
<1>2. CASE cpu # Null
  <2>1. out' = Cut(t)
    BY <1>2 DEF nb_print
  <2> QED
    BY <2>1, CutFits DEF OutType
<1> QED
  BY <1>1, <1>2

\* What is pending stays characters, and no more than a line.
LEMMA OutStep == ASSUME OutType, Next PROVE OutType'
<1>1. CASE PrintChar
  <2>1. out # <<>> /\ out' = Tail(out)
    BY <1>1 DEF PrintChar
  <2> QED
    BY <2>1, Sizes DEF OutType
<1>2. ASSUME NEW t \in Texts, CompileError(t) \/ ProgramPrints(t) \/ Listed(t) PROVE OutType'
  <2>1. nb_print(t)
    BY <1>2 DEF CompileError, ProgramPrints, Listed
  <2> QED
    BY <2>1, TextsAreChars, PrintFits
<1>3. ASSUME NEW h \in Handle, NEW t \in Texts, LuaPrint(h, t) PROVE OutType'
  <2>1. out' = Cut(t)
    BY <1>3 DEF LuaPrint
  <2> QED
    BY <2>1, CutFits, TextsAreChars DEF OutType
<1>4. CASE LoopEnds
  <2>1. nb_print(Ready) \/ UNCHANGED out
    BY <1>4 DEF LoopEnds
  <2> QED
    BY <2>1, TextsAreChars, PrintFits DEF OutType
<1>5. ASSUME \/ Compiled \/ LuaPrinted \/ Enter \/ MachineBusy
             \/ SetCur \/ ClrScr \/ ClrLine \/ PushAnswer \/ ToLua
             \/ RunReturned \/ ListingReturned \/ AddFunction \/ \E r \in Results : MachineReturns(r)
      PROVE OutType'
  BY <1>5 DEF OutType, Compiled, LuaPrinted, Enter, MachineBusy, SetCur, ClrScr, ClrLine, PushAnswer,
              Answers, ToLua, RunReturned, ListingReturned, AddFunction, MachineReturns
<1>6. ASSUME NEW h \in Handle,
             \/ Create(h) \/ \E n \in Budgets : Run(h, n)
             \/ SymbolTable(h) \/ GetScreenBuffer(h) \/ ClearScreen(h) \/ UseMachine(h)
             \/ Destroy(h) \/ UseDestroyed(h) \/ PackVm(h) \/ UnpackVm(h)
      PROVE OutType'
  BY <1>6 DEF OutType, Create, Run, SymbolTable, GetScreenBuffer, ClearScreen, UseMachine, Destroy, UseDestroyed,
              PackVm, UnpackVm, Quiet
<1>7. CASE Step
  BY <1>1, <1>2, <1>4, <1>5, <1>7, Zenon DEF Step
<1>8. CASE Lua
  BY <1>3, <1>6, <1>8, Zenon DEF Lua
<1> QED
  BY <1>5, <1>7, <1>8, Zenon DEF Next

\* What leaves the machines as they are.
LEMMA MachinesKept ==
    ASSUME Next
    PROVE \/ UNCHANGED <<vm, mem>>
          \/ \E h \in Handle : Create(h) \/ UseMachine(h) \/ Destroy(h) \/ UnpackVm(h)
          \/ MachineBusy
          \/ \E r \in Results : MachineReturns(r)
<1>1. ASSUME NEW h \in Handle,
             \/ \E t \in Texts : LuaPrint(h, t)
             \/ \E n \in Budgets : Run(h, n)
             \/ SymbolTable(h) \/ GetScreenBuffer(h) \/ ClearScreen(h) \/ UseDestroyed(h) \/ PackVm(h)
      PROVE UNCHANGED <<vm, mem>>
  BY <1>1 DEF LuaPrint, Run, SymbolTable, GetScreenBuffer, ClearScreen, UseDestroyed, PackVm
<1>2. ASSUME \/ PrintChar \/ \E t \in Texts : CompileError(t) \/ ProgramPrints(t) \/ Listed(t)
             \/ Compiled \/ LuaPrinted \/ ListingReturned \/ Enter
             \/ SetCur \/ ClrScr \/ ClrLine \/ PushAnswer \/ ToLua
             \/ LoopEnds \/ RunReturned \/ AddFunction
      PROVE UNCHANGED <<vm, mem>>
  BY <1>2 DEF PrintChar, CompileError, ProgramPrints, Listed, Compiled, LuaPrinted, ListingReturned, Enter,
              SetCur, ClrScr, ClrLine, PushAnswer, Answers, ToLua, LoopEnds, RunReturned, AddFunction
<1>3. CASE Step
  BY <1>2, <1>3, Zenon DEF Step
<1>4. CASE Lua
  BY <1>1, <1>4, Zenon DEF Lua
<1> QED
  BY <1>2, <1>3, <1>4, Zenon DEF Next

\* A machine that is given its memory anew stays what it is; a handle gets one
\* that no handle has; the one that is freed was one handle's.
LEMMA MachinesStep ==
    ASSUME MachineType, Apart, PackedType, Next
    PROVE MachineType' /\ Apart'
<1>1. CASE UNCHANGED <<vm, mem>>
  BY <1>1 DEF MachineType, Apart
<1>2. ASSUME NEW m, NEW x \in Memory, mem' = [mem EXCEPT ![m] = x], UNCHANGED vm
      PROVE MachineType' /\ Apart'
  <2>1. MachineType'
    BY <1>2 DEF MachineType
  <2>2. \A k \in Machine : mem[k] # Null => mem'[k] # Null
    BY <1>2, NullIsNone DEF MachineType
  <2> QED
    BY <1>2, <2>1, <2>2 DEF MachineType, Apart
<1>3. ASSUME NEW h \in Handle, NEW m \in FreeMachine, NEW x \in Memory,
             mem' = [mem EXCEPT ![m] = x], vm' = [vm EXCEPT ![h] = m]
      PROVE MachineType' /\ Apart'
  <2>1. m \in Machine /\ mem[m] = Null
    BY DEF FreeMachine
  <2>2. MachineType'
    BY <1>3, <2>1 DEF MachineType
  <2>3. \A g \in Handle : vm[g] # m
    BY <2>1, NullIsNone DEF Apart
  <2>4. \A k \in Machine : mem'[k] = IF k = m THEN x ELSE mem[k]
    BY <1>3 DEF MachineType
  <2>5. \A g \in Handle : vm'[g] = IF g = h THEN m ELSE vm[g]
    BY <1>3 DEF MachineType
  <2> QED
    BY <2>1, <2>2, <2>3, <2>4, <2>5, NullIsNone DEF MachineType, Apart
<1>4. ASSUME NEW h \in Handle, Create(h) PROVE MachineType' /\ Apart'
  BY <1>3, <1>4 DEF Create
<1>5. ASSUME NEW h \in Handle, UseMachine(h) PROVE MachineType' /\ Apart'
  BY <1>2, <1>5 DEF UseMachine
<1>6. ASSUME NEW h \in Handle, Destroy(h) PROVE MachineType' /\ Apart'
  <2>1. vm[h] \in Machine /\ vm[h] # Null
    BY <1>6 DEF Destroy, Called, MachineType
  <2>2. mem' = [mem EXCEPT ![vm[h]] = Null] /\ vm' = [vm EXCEPT ![h] = Null]
    BY <1>6 DEF Destroy
  <2>3. MachineType'
    BY <2>2 DEF MachineType
  <2>4. \A k \in Machine : mem'[k] = IF k = vm[h] THEN Null ELSE mem[k]
    BY <2>2 DEF MachineType
  <2>5. \A g \in Handle : vm'[g] = IF g = h THEN Null ELSE vm[g]
    BY <2>2 DEF MachineType
  <2> QED
    BY <2>1, <2>3, <2>4, <2>5 DEF MachineType, Apart
<1>7. ASSUME NEW h \in Handle, UnpackVm(h) PROVE MachineType' /\ Apart'
  <2>1. PICK m \in FreeMachine : mem' = [mem EXCEPT ![m] = packed.mem] /\ vm' = [vm EXCEPT ![h] = m]
    BY <1>7 DEF UnpackVm, Unpacked
  <2>2. packed.mem \in Memory
    BY <1>7 DEF UnpackVm, PackedType
  <2> QED
    BY <1>3, <2>1, <2>2
<1>8. ASSUME MachineBusy \/ \E r \in Results : MachineReturns(r) PROVE MachineType' /\ Apart'
  <2>1. PICK x \in Memory : mem' = [mem EXCEPT ![vm[self]] = x] /\ UNCHANGED vm
    BY <1>8 DEF MachineBusy, MachineReturns
  <2> QED
    BY <1>2, <2>1
<1> QED
  BY <1>1, <1>4, <1>5, <1>6, <1>7, <1>8, MachinesKept, Zenon

-----------------------------------------------------------------------------
\* A machine that a living handle packs is a machine with a memory.
LEMMA PackedStep ==
    ASSUME PackedType, MachineType, Apart, screen \in [Handle -> Good], Next
    PROVE PackedType'
<1>1. ASSUME NEW h \in Handle, PackVm(h) PROVE PackedType'
  <2>1. vm[h] \in Machine /\ mem[vm[h]] \in Memory
    BY <1>1 DEF PackVm, Called, MachineType, Apart
  <2>2. packed' = [vm |-> vm[h], screen |-> screen[h], mem |-> mem[vm[h]]]
    BY <1>1 DEF PackVm
  <2> QED
    BY <2>1, <2>2 DEF PackedType
<1>2. ASSUME NEW h \in Handle,
             \/ Create(h) \/ \E t \in Texts : LuaPrint(h, t)
             \/ \E n \in Budgets : Run(h, n)
             \/ SymbolTable(h) \/ GetScreenBuffer(h) \/ ClearScreen(h) \/ UseMachine(h)
             \/ Destroy(h) \/ UseDestroyed(h) \/ UnpackVm(h)
      PROVE UNCHANGED packed
  BY <1>2 DEF Create, LuaPrint, Run, SymbolTable, GetScreenBuffer, ClearScreen, UseMachine, Destroy,
              UseDestroyed, UnpackVm
<1>3. CASE Step \/ AddFunction
  <2>1. ASSUME \/ PrintChar \/ \E t \in Texts : CompileError(t) \/ ProgramPrints(t) \/ Listed(t)
               \/ Compiled \/ LuaPrinted \/ ListingReturned
               \/ Enter \/ \E r \in Results : MachineReturns(r)
               \/ MachineBusy \/ SetCur \/ ClrScr \/ ClrLine \/ PushAnswer \/ ToLua
               \/ LoopEnds \/ RunReturned \/ AddFunction
        PROVE UNCHANGED packed
    BY <2>1 DEF PrintChar, CompileError, ProgramPrints, Listed, Compiled, LuaPrinted, ListingReturned, Enter,
                MachineReturns, MachineBusy, SetCur, ClrScr, ClrLine, PushAnswer, Answers, ToLua, LoopEnds,
                RunReturned, AddFunction
  <2>2. UNCHANGED packed
    BY <1>3, <2>1, Zenon DEF Step
  <2> QED
    BY <2>2 DEF PackedType
<1>4. CASE Lua
  <2>1. (\E h \in Handle : PackVm(h)) \/ UNCHANGED packed
    BY <1>2, <1>4, Zenon DEF Lua
  <2> QED
    BY <1>1, <2>1 DEF PackedType
<1> QED
  BY <1>3, <1>4 DEF Next

-----------------------------------------------------------------------------
\* The steps of a call: it begins with its handle in p_Cpu, if it prints, and
\* resets it where it ends; a step between does neither.
Begins == /\ self' \in Handle /\ cpu' = self' /\ call' \in Prints
          /\ at' \in {"compile", "printing", "loop"} /\ made' \subseteq Handle
BeginsList == /\ call = "none" /\ self' \in Handle \cup {Null} /\ call' \in Lists /\ at' = "listing"
              /\ UNCHANGED <<made, cpu, out>>
Ends == /\ cpu' = Null /\ out' = <<>> /\ self' = Null /\ call' = "none" /\ at' = "lua"
        /\ UNCHANGED made
Executes == /\ call \in Prints
            /\ at' \in {"compile", "printing", "loop", "vm", "returning"} \cup Functions
            /\ UNCHANGED <<made, cpu, call, self>>
Stays == UNCHANGED <<made, cpu, call, self, at, out>>

\* No function that a program calls has the name of a place.
LEMMA PlacesAreApart == /\ "lua" \notin Functions /\ "listing" \notin Functions
                        /\ "lua" \notin Answered /\ "listing" \notin Answered
                        /\ Answered \subseteq Functions
  BY DEF Functions, Answered

\* Every step begins a call, ends one, executes in one, or leaves p_Cpu and the call alone.
LEMMA CallSteps ==
    ASSUME CallType, CpuRight, PlaceOfCall, Next
    PROVE Begins \/ BeginsList \/ Ends \/ Executes \/ Stays
<1>1. ASSUME NEW h \in Handle,
             \/ Create(h) \/ \E t \in Texts : LuaPrint(h, t)
             \/ \E n \in Budgets : Run(h, n)
      PROVE Begins
  BY <1>1 DEF Create, LuaPrint, Run, Called, Begin, Begins, CallType, Prints
<1>2. ASSUME NEW h \in Handle,
             \/ GetScreenBuffer(h) \/ ClearScreen(h) \/ UseMachine(h)
             \/ Destroy(h) \/ UseDestroyed(h) \/ PackVm(h) \/ UnpackVm(h)
      PROVE Stays
  BY <1>2 DEF GetScreenBuffer, ClearScreen, UseMachine, Destroy, UseDestroyed, PackVm, UnpackVm, Quiet,
              Stays
<1>3. ASSUME Compiled \/ LuaPrinted \/ ToLua \/ RunReturned PROVE Ends
  BY <1>3 DEF Compiled, LuaPrinted, ToLua, RunReturned, Inside, Return, End, Ends
<1>4. CASE PrintChar
  <2>1. out # <<>> /\ UNCHANGED <<made, cpu, call, self, at>>
    BY <1>4 DEF PrintChar
  <2>2. call \in Prints
    BY <2>1, OutputHasCpu
  <2>3. at # "lua" /\ at # "listing"
    BY <2>2 DEF CallType, PlaceOfCall, Prints, Lists
  <2> QED
    BY <2>1, <2>2, <2>3 DEF Executes, CallType
<1>5. ASSUME NEW t \in Texts, CompileError(t) \/ ProgramPrints(t) PROVE Executes
  <2>1. UNCHANGED <<made, cpu, call, self, at>> /\ at \in {"compile", "vm"} /\ Inside(at)
    BY <1>5 DEF CompileError, ProgramPrints, Inside
  <2>2. call \in Prints
    BY <2>1, InsideHasCpu
  <2> QED
    BY <2>1, <2>2 DEF Executes
<1>6. ASSUME Enter \/ MachineBusy \/ LoopEnds PROVE Executes
  <2>1. /\ UNCHANGED <<made, cpu, call, self>> /\ at' \in {"vm", "loop", "returning"}
        /\ at \in {"vm", "loop"} /\ Inside(at)
    BY <1>6 DEF Enter, MachineBusy, LoopEnds, Inside
  <2>2. call \in Prints
    BY <2>1, InsideHasCpu
  <2> QED
    BY <2>1, <2>2 DEF Executes
<1>7. ASSUME NEW r \in Results, MachineReturns(r) PROVE Executes
  <2>1. UNCHANGED <<made, cpu, call, self>> /\ at' \in {"loop"} \cup Functions /\ Inside("vm")
    BY <1>7 DEF MachineReturns
  <2>2. call \in Prints
    BY <2>1, InsideHasCpu
  <2> QED
    BY <2>1, <2>2 DEF Executes
<1>8. ASSUME SetCur \/ ClrScr \/ ClrLine \/ PushAnswer PROVE Executes
  <2>1. PICK f \in Answered : Answers(f)
    BY <1>8 DEF SetCur, ClrScr, ClrLine, PushAnswer, Answered
  <2>2. UNCHANGED <<made, cpu, call, self>> /\ at' = "loop" /\ Inside(f)
    BY <2>1 DEF Answers
  <2>3. call \in Prints
    BY <2>2, PlacesAreApart, InsideHasCpu
  <2> QED
    BY <2>2, <2>3 DEF Executes
<1>9. ASSUME NEW t \in Texts, Listed(t) PROVE Stays
  <2>1. out = <<>> /\ at = "listing" /\ nb_print(t) /\ UNCHANGED <<made, cpu, call, self, at>>
    BY <1>9 DEF Listed, Inside
  <2>2. cpu = Null
    BY <2>1 DEF PlaceOfCall, CpuRight, Prints, Lists
  <2> QED
    BY <2>1, <2>2 DEF nb_print, Stays
<1>10. CASE ListingReturned
  <2>1. /\ out = <<>> /\ at = "listing" /\ UNCHANGED <<made, cpu, out>>
        /\ self' = Null /\ call' = "none" /\ at' = "lua"
    BY <1>10 DEF ListingReturned, Inside, End
  <2>2. cpu = Null
    BY <2>1 DEF PlaceOfCall, CpuRight, Prints, Lists
  <2> QED
    BY <2>1, <2>2 DEF Ends
<1>11. ASSUME NEW h \in Handle, SymbolTable(h) PROVE BeginsList
  BY <1>11 DEF SymbolTable, Begin, BeginsList, Lists
<1>12. CASE AddFunction
  BY <1>12 DEF AddFunction, Begin, BeginsList, Lists
<1>13. CASE Step
  BY <1>3, <1>4, <1>5, <1>6, <1>7, <1>8, <1>9, <1>10, <1>13, Zenon DEF Step
<1>14. CASE Lua
  BY <1>1, <1>2, <1>11, <1>14, Zenon DEF Lua
<1> QED
  BY <1>12, <1>13, <1>14, Zenon DEF Next

\* p_Cpu stays with the call that executes.
LEMMA CallStep ==
    ASSUME CallType, CpuRight, PlaceOfCall, Next
    PROVE CallType' /\ CpuRight' /\ PlaceOfCall'
<1>1. CASE Begins
  BY <1>1 DEF Begins, CallType, CpuRight, PlaceOfCall, Prints, Lists
<1>2. CASE BeginsList
  <2>1. cpu = Null /\ out = <<>>
    BY <1>2 DEF BeginsList, CpuRight, Prints
  <2> QED
    BY <1>2, <2>1 DEF BeginsList, CallType, CpuRight, PlaceOfCall, Prints, Lists
<1>3. CASE Ends
  BY <1>3 DEF Ends, CallType, CpuRight, PlaceOfCall, Prints, Lists
<1>4. CASE Executes
  <2>1. at' # "lua" /\ at' # "listing"
    BY <1>4, PlacesAreApart DEF Executes
  <2>2. self \in Handle /\ cpu = self
    BY <1>4 DEF Executes, CpuRight
  <2> QED
    BY <1>4, <2>1, <2>2 DEF Executes, CallType, CpuRight, PlaceOfCall, Prints, Lists
<1>5. CASE Stays
  BY <1>5 DEF Stays, CallType, CpuRight, PlaceOfCall
<1> QED
  BY <1>1, <1>2, <1>3, <1>4, <1>5, CallSteps

-----------------------------------------------------------------------------
\* A budget is an uint16_t.
LEMMA BudgetFacts == MaxCycles \in Nat /\ \A n \in Budgets : n \in 0 .. MaxCycles
<1>1. MaxCycles \in Nat
  BY DEF MaxCycles
<1> QED
  BY <1>1, HostAssumption

\* The budget of a run is set by Lua and counted down by nb_run.
LEMMA BudgetStep == ASSUME BudgetType, Next PROVE BudgetType'
<1>1. ASSUME NEW h \in Handle, NEW n \in Budgets, Run(h, n) PROVE BudgetType'
  BY <1>1, BudgetFacts DEF Run, BudgetType, Results
<1>2. ASSUME NEW h \in Handle,
             \/ Create(h) \/ \E t \in Texts : LuaPrint(h, t)
             \/ SymbolTable(h) \/ GetScreenBuffer(h) \/ ClearScreen(h) \/ UseMachine(h)
             \/ Destroy(h) \/ UseDestroyed(h) \/ PackVm(h) \/ UnpackVm(h)
      PROVE BudgetType'
  BY <1>2 DEF BudgetType, Create, LuaPrint, SymbolTable, GetScreenBuffer, ClearScreen, UseMachine, Destroy,
              UseDestroyed, PackVm, UnpackVm, Quiet
<1>3. ASSUME NEW t \in Texts, ProgramPrints(t) PROVE BudgetType'
  <2>1. cycles > 1 /\ cycles' = cycles - 1 /\ UNCHANGED res
    BY <1>3 DEF ProgramPrints
  <2> QED
    BY <2>1, BudgetFacts DEF BudgetType
<1>4. ASSUME NEW r \in Results, MachineReturns(r) PROVE BudgetType'
  <2>1. cycles > 1 /\ cycles' \in 1 .. cycles - 1 /\ res' = r
    BY <1>4 DEF MachineReturns
  <2> QED
    BY <2>1, BudgetFacts DEF BudgetType
<1>5. CASE MachineBusy
  BY <1>5, BudgetFacts DEF MachineBusy, BudgetType, Results
<1>6. ASSUME \/ PrintChar \/ \E t \in Texts : CompileError(t) \/ Listed(t)
             \/ Compiled \/ LuaPrinted \/ ListingReturned \/ Enter
             \/ SetCur \/ ClrScr \/ ClrLine \/ PushAnswer \/ ToLua
             \/ LoopEnds \/ RunReturned \/ AddFunction
      PROVE BudgetType'
  BY <1>6 DEF BudgetType, PrintChar, CompileError, Listed, Compiled, LuaPrinted, ListingReturned, Enter,
              SetCur, ClrScr, ClrLine, PushAnswer, Answers, ToLua, LoopEnds, RunReturned, AddFunction
<1>7. CASE Step
  BY <1>3, <1>4, <1>5, <1>6, <1>7, Zenon DEF Step
<1>8. CASE Lua
  BY <1>1, <1>2, <1>8, Zenon DEF Lua
<1> QED
  BY <1>6, <1>7, <1>8, Zenon DEF Next

-----------------------------------------------------------------------------
\* Every step keeps the invariant: from the lemmas on screens, output, machines, calls and budgets.
LEMMA StepHolds == ASSUME HInv, [Next]_vars PROVE HInv'
<1>1. CASE Next
  <2>1. Sound
    BY <1>1, NotAstray, Zenon DEF HInv
  <2>2. screen' \in [Handle -> Good]
    BY <1>1, <2>1, ScreensStep DEF Sound
  <2>3. OutType' /\ PackedType'
    BY <1>1, <2>1, OutStep, PackedStep DEF Sound
  <2>4. MachineType' /\ Apart'
    BY <1>1, <2>1, MachinesStep DEF Sound
  <2>5. CallType' /\ CpuRight' /\ PlaceOfCall' /\ BudgetType'
    BY <1>1, <2>1, CallStep, BudgetStep DEF Sound
  <2> QED
    BY <2>2, <2>3, <2>4, <2>5, Zenon DEF HInv, Sound
<1>2. CASE UNCHANGED vars
  BY <1>2 DEF vars, HInv, Sound, OutType, PackedType, MachineType, CallType, BudgetType, CpuRight, Apart,
              PlaceOfCall
<1> QED
  BY <1>1, <1>2

\* The invariant holds throughout: types, cursors, machines and p_Cpu, of which the
\* theorems below are the parts.
THEOREM HInvHolds == Spec => []HInv
  BY InitHolds, StepHolds, PTL DEF Spec

\* Whatever is printed, set, packed and unpacked, as long as nothing is written
\* behind a screen: the cursor of every screen is in its line or, where a
\* tabulator took it (nb_lua.c:165), at a multiple of its stops behind it.
THEOREM TypeCorrect == Spec => []TypeOK
<1>1. HInv => TypeOK
  BY Zenon DEF HInv, Sound, TypeOK
<1> QED
  BY <1>1, HInvHolds, PTL

\* No machine serves two handles, and no handle has one that was freed, however
\* handles are created, destroyed, packed and unpacked (nb_lua.c:346, 391), as
\* long as no destroyed one is used.
THEOREM MachinesStayApart == Spec => []MachinesApart
<1>1. HInv => MachinesApart
  BY Zenon DEF HInv, Sound, Apart, MachinesApart
<1> QED
  BY <1>1, HInvHolds, PTL

\* p_Cpu is the handle that create, print and run were called with while they
\* execute, and no handle at any other time, whatever way they are left on
\* (nb_lua.c:58).
THEOREM CpuIsAlwaysCallers == Spec => []CpuIsCallers
<1>1. HInv => CpuIsCallers
  BY Zenon DEF HInv, Sound, CpuRight, CpuIsCallers
<1> QED
  BY <1>1, HInvHolds, PTL

\* What is on a screen changes within a call only if it prints and was made for
\* the handle of the screen.
LEMMA OwnScreen ==
    ASSUME HInv, Next, call # "none", NEW h \in Handle, screen'[h] # screen[h]
    PROVE h = self /\ call \in Prints
<1>1. /\ screen \in [Handle -> Good] /\ CallType /\ CpuRight /\ PlaceOfCall
  BY NotAstray, Zenon DEF HInv, Sound
<1>2. ASSUME NEW g \in Handle, NEW s, screen' = [screen EXCEPT ![g] = s] PROVE h = g
  BY <1>1, <1>2
<1>3. CASE PrintChar
  <2>1. call \in Prints /\ self \in Handle /\ cpu = self
    BY <1>1, <1>3, OutputHasCpu DEF PrintChar
  <2>2. screen' = [screen EXCEPT ![cpu] = Printed(@, Head(out))]
    BY <1>3 DEF PrintChar
  <2> QED
    BY <1>2, <2>1, <2>2
<1>4. CASE SetCur \/ ClrScr \/ ClrLine
  <2>1. PICK f \in Answered : Answers(f)
    BY <1>4 DEF SetCur, ClrScr, ClrLine, Answered
  <2>2. Inside(f)
    BY <2>1 DEF Answers
  <2>3. call \in Prints /\ self \in Handle
    BY <1>1, <2>2, PlacesAreApart, InsideHasCpu
  <2>4. PICK s : screen' = [screen EXCEPT ![self] = s]
    BY <1>4 DEF SetCur, ClrScr, ClrLine
  <2> QED
    BY <1>2, <2>3, <2>4
<1>5. ASSUME \/ \E t \in Texts : CompileError(t) \/ ProgramPrints(t) \/ Listed(t)
             \/ Compiled \/ LuaPrinted \/ ListingReturned \/ Enter
             \/ \E r \in Results : MachineReturns(r)
             \/ MachineBusy \/ PushAnswer \/ ToLua \/ LoopEnds \/ RunReturned \/ AddFunction
      PROVE UNCHANGED screen
  BY <1>5 DEF CompileError, ProgramPrints, Listed, Compiled, LuaPrinted, ListingReturned, Enter,
              MachineReturns, MachineBusy, PushAnswer, ToLua, LoopEnds, RunReturned, AddFunction
<1>6. ~Lua
  BY Zenon DEF Lua, Create, LuaPrint, Run, Called, SymbolTable, GetScreenBuffer, ClearScreen, UseMachine,
               Destroy, UseDestroyed, PackVm, UnpackVm, Quiet
<1>7. CASE Step
  BY <1>3, <1>4, <1>5, <1>7, Zenon DEF Step
<1> QED
  BY <1>5, <1>6, <1>7, Zenon DEF Next

\* What a call prints appears on the screen of its handle only, whatever other
\* handles do before it, and what output_symbol_table and add_function print
\* appears on none (nb_lua.c:186, 361).
THEOREM OutputIsAlwaysCallers == Spec => OutputIsCallers
<1> DEFINE Own == call # "none" /\ ~astray' =>
                     \A h \in Handle : screen'[h] # screen[h] => h = self /\ call \in Prints
<1>1. HInv /\ [Next]_vars => [Own]_vars
  BY OwnScreen
<1>2. OutputIsCallers <=> [][Own]_vars
  BY DEF OutputIsCallers
<1> HIDE DEF Own
<1> QED
  BY <1>1, <1>2, HInvHolds, PTL DEF Spec
=============================================================================
