--------------------------- MODULE NbCompilerProofs ---------------------------
(***************************************************************************)
(* Theorems about the compiler, for all texts: blocks and jumps lead where *)
(* the text says, labels keep their addresses, variables their places, and *)
(* what is accepted fits.                                                  *)
(***************************************************************************)
EXTENDS NbCompiler, SequenceTheorems, FiniteSetTheorems, WellFoundedInduction, TLAPS

-----------------------------------------------------------------------------
\* The types of what TypeOK leaves out.
Places == {"line", "start", "stmts", "check", "tail", "if", "goto", "ifret", "list",
           "morelist", "data", "moredata", "done"}
Words == UNION {{line[k] : k \in DOMAIN line} : line \in Lines}
CellOps == {"PRINT", "RETURN", "END", "LET", "ELEM", "DIM", "TEXT", "ON", "GOTO", "GOSUB",
            "FOR", "IF", "NEXT", "TAG"}
Cells == [op : CellOps, n : Names \cup {NoName}, to : Nat, parts : Seq(Nat)]
Frames == [fn : {"for", "while", "if", "else"}, pos : Nat, phase : {"first", "lines"}]
          \cup [fn : {"then", "elseif", "otherwise"}, pos : Nat, phase : {"none"}]
Forwards == [n : Names, pos : Nat]

TextType == /\ at \in Places
            /\ rest \in Seq(Words) /\ eof \in BOOLEAN /\ lines \in 0 .. MaxLines
            /\ calls \in Seq(Frames)
            /\ firstData \in BOOLEAN /\ result \in {"none", "ok", "failed"}
            /\ errors \in Nat
OutputType == code \in Seq(Cells) /\ fwd \in Seq(Forwards) /\ data \in Seq(Nat)
SymbolType == /\ table \in [Names -> [type : Types, value : Nat]]
              /\ varIdx \in Nat
              /\ where \in [Names -> Nat]
Typed == TextType /\ OutputType /\ SymbolType

-----------------------------------------------------------------------------
\* Tokens, frames and cells.

\* Every nonempty set of numbers has a smallest one.
LEMMA Smallest == ASSUME NEW T \in SUBSET Nat, T # {}
                  PROVE \E x \in T : \A y \in T : ~(y < x)
<1>1. PICK m \in T : TRUE
  OBVIOUS
<1>2. IsFiniteSet(1 .. m)
  BY <1>1, FS_Interval
<1> DEFINE R == StrictSubsetOrdering(1 .. m)
           Below == {1 .. x : x \in {y \in T : y <= m}}
<1>3. IsWellFoundedOn(R, FiniteSubsetsOf(1 .. m))
  BY FS_StrictSubsetOrderingWellFounded
<1>4. Below \subseteq FiniteSubsetsOf(1 .. m) /\ Below # {}
  <2>1. ASSUME NEW x \in T, x <= m PROVE 1 .. x \in FiniteSubsetsOf(1 .. m)
    BY <2>1, <1>2, FS_Interval DEF FiniteSubsetsOf
  <2>2. 1 .. m \in Below
    BY <1>1
  <2> QED
    BY <2>1, <2>2
<1>5. PICK least \in Below : \A b \in Below : <<b, least>> \notin R
  <2> HIDE DEF R, Below
  <2> QED
    BY <1>3, <1>4, WFMin
<1>6. PICK x \in T : x <= m /\ least = 1 .. x
  BY <1>5
<1>7. ASSUME NEW y \in T, y < x PROVE FALSE
  <2>1. 1 .. y \in Below /\ y \in Nat /\ x \in Nat
    BY <1>6, <1>7
  <2>2. 1 .. y \subseteq 1 .. x /\ x \in 1 .. x /\ x \notin 1 .. y
    BY <2>1, <1>7
  <2>3. <<1 .. y, 1 .. x>> \in R
    BY <2>1, <2>2, <1>4, <1>6 DEF StrictSubsetOrdering, FiniteSubsetsOf
  <2> QED
    BY <2>1, <2>3, <1>5, <1>6
<1> QED
  BY <1>7

\* What a line consists of are tokens.
LEMMA WordsAreTokens == Words \subseteq Token
<1> SUFFICES ASSUME NEW line \in Lines, NEW k \in DOMAIN line PROVE line[k] \in Token
  BY DEF Words
<1>1. line \in Seq(Token)
  BY LinesAssumption
<1> QED
  BY <1>1

\* A line begins behind its colons (get_line).
LEMMA Uncoloned == ASSUME NEW line \in Lines PROVE Uncolon(line) \in Seq(Words)
<1> DEFINE Skips(k) == /\ \A j \in 1 .. k : line[j].t = ":"
                       /\ k < Len(line) => line[k + 1].t # ":"
           Others == {j \in 1 .. Len(line) : line[j].t # ":"}
<1>1. line \in Seq(Token) /\ Len(line) \in Nat /\ DOMAIN line = 1 .. Len(line)
  BY LinesAssumption
<1>2. \E k \in 0 .. Len(line) : Skips(k)
  <2>1. CASE Others = {}
    <3>1. Skips(Len(line))
      BY <2>1, <1>1
    <3> QED
      BY <3>1, <1>1
  <2>2. CASE Others # {}
    <3>1. Others \in SUBSET Nat
      BY <1>1
    <3>2. PICK x \in Others : \A y \in Others : ~(y < x)
      <4> HIDE DEF Others
      <4> QED
        BY <2>2, <3>1, Smallest
    <3>3. x \in Nat /\ 1 <= x /\ x <= Len(line) /\ line[x].t # ":"
      BY <1>1
    <3>4. Skips(x - 1)
      <4>1. ASSUME NEW j \in 1 .. x - 1 PROVE line[j].t = ":"
        BY <3>2, <3>3, <1>1
      <4> QED
        BY <4>1, <3>3, <1>1
    <3>5. x - 1 \in 0 .. Len(line)
      BY <3>3, <1>1
    <3> QED
      <4> HIDE DEF Skips, Others
      <4> QED
        BY <3>4, <3>5
  <2> QED
    BY <2>1, <2>2
<1> DEFINE k == CHOOSE k \in 0 .. Len(line) : Skips(k)
<1>3. k \in 0 .. Len(line)
  <2> HIDE DEF Skips
  <2> QED
    BY <1>2
<1>4. Uncolon(line) = SubSeq(line, k + 1, Len(line))
  BY DEF Uncolon
<1> HIDE DEF k
<1>5. \A i \in k + 1 .. Len(line) : line[i] \in Words
  BY <1>1, <1>3 DEF Words
<1>6. SubSeq(line, k + 1, Len(line)) \in Seq(Words)
  BY <1>1, <1>3, <1>5, SubSeqProperties
<1> QED
  BY <1>4, <1>6

\* The token that is looked at, unless the line is at its end.
LEMMA TokenHere == ASSUME rest \in Seq(Words), tok.t # "end of line"
                   PROVE /\ rest # <<>> /\ tok \in Words /\ tok \in Token
                         /\ Tail(rest) \in Seq(Words)
<1>1. rest # <<>> /\ tok = Head(rest)
  BY DEF tok, EndOfLine
<1>2. Head(rest) \in Words /\ Tail(rest) \in Seq(Words)
  BY <1>1, HeadTailProperties
<1> QED
  BY <1>1, <1>2, WordsAreTokens

\* The name that comes with the token, if any.
LEMMA NameHere == ASSUME rest \in Seq(Words)
                  PROVE /\ tok.n \in Names \cup {NoName}
                        /\ tok.t \in Naming => tok.n \in Names
<1>1. CASE tok.t = "end of line"
  <2>1. CASE rest = <<>>
    BY <2>1 DEF tok, EndOfLine, Naming
  <2>2. CASE rest # <<>>
    <3>1. tok \in Token
      BY <2>2, HeadTailProperties, WordsAreTokens DEF tok
    <3> QED
      BY <3>1 DEF Token
  <2> QED
    BY <2>1, <2>2
<1>2. CASE tok.t # "end of line"
  BY <1>2, TokenHere DEF Token
<1> QED
  BY <1>1, <1>2

\* The function on top of the calls, and those below it.
LEMMA CallersHere ==
    ASSUME calls \in Seq(Frames), calls # <<>>
    PROVE /\ Len(calls) \in Nat /\ Len(calls) >= 1 /\ Len(calls) \in DOMAIN calls
          /\ top \in Frames /\ top.pos \in Nat
          /\ Callers \in Seq(Frames) /\ Len(Callers) = Len(calls) - 1
          /\ \A k \in 1 .. Len(calls) - 1 : Callers[k] = calls[k]
<1>1. Len(calls) \in Nat /\ DOMAIN calls = 1 .. Len(calls) /\ Len(calls) # 0
  BY EmptySeq, LenProperties
<1>2. Len(calls) >= 1 /\ Len(calls) \in DOMAIN calls
  BY <1>1
<1>3. top \in Frames
  BY <1>2, ElementOfSeq DEF top
<1>4. top.pos \in Nat
  BY <1>3 DEF Frames
<1>5. \A i \in 1 .. Len(calls) - 1 : calls[i] \in Frames
  BY <1>1, ElementOfSeq
<1>6. /\ Callers \in Seq(Frames) /\ Len(Callers) = Len(calls) - 1
      /\ \A k \in 1 .. Len(calls) - 1 : Callers[k] = calls[k]
  <2>1. /\ SubSeq(calls, 1, Len(calls) - 1) \in Seq(Frames)
        /\ Len(SubSeq(calls, 1, Len(calls) - 1)) =
             IF 1 <= Len(calls) - 1 THEN Len(calls) - 1 - 1 + 1 ELSE 0
        /\ \A i \in 1 .. Len(calls) - 1 - 1 + 1 :
             SubSeq(calls, 1, Len(calls) - 1)[i] = calls[1 + i - 1]
    BY <1>1, <1>5, SubSeqProperties
  <2> QED
    BY <2>1, <1>1 DEF Callers
<1> QED
  BY <1>1, <1>2, <1>3, <1>4, <1>6

\* Frames as they are made.
LEMMA FrameTypes ==
    ASSUME NEW pos \in Nat
    PROVE /\ \A fn \in {"for", "while", "if", "else"} : Block(fn, pos) \in Frames
          /\ \A fn \in {"then", "elseif", "otherwise"} : Statements(fn, pos) \in Frames
  BY DEF Block, Statements, Frame, Frames

\* A cell of code: the parts it belongs to are those of the waiting functions.
LEMMA CellType == ASSUME calls \in Seq(Frames),
                         NEW op \in CellOps, NEW n \in Names \cup {NoName}, NEW to \in Nat
                  PROVE /\ Cell(op, n, to) \in Cells
                        /\ Cell(op, n, to).op = op /\ Cell(op, n, to).n = n
                        /\ Cell(op, n, to).to = to /\ Cell(op, n, to).parts = Parts
<1>1. Parts \in Seq(Nat)
  <2>1. Len(calls) \in Nat /\ DOMAIN calls = 1 .. Len(calls)
    BY LenProperties
  <2>2. \A k \in 1 .. Len(calls) : calls[k].pos \in Nat
    BY <2>1, ElementOfSeq DEF Frames
  <2>3. Parts = [k \in 1 .. Len(calls) |-> calls[k].pos]
    BY <2>1 DEF Parts
  <2> QED
    BY <2>1, <2>2, <2>3, IsASeq
<1> QED
  BY <1>1 DEF Cell, Cells

\* What the symbol table gives for a name that the scanner meets (sym_add).
LEMMA KnownFacts ==
    ASSUME SymbolType, NEW n \in Names
    PROVE /\ Known(n) \in [type : Types \ {"none"}, value : Nat]
          /\ table[n].type = "none" => /\ Known(n) = [type |-> "ID", value |-> varIdx]
                                       /\ KnownIdx(n) = varIdx + 1
          /\ table[n].type # "none" => Known(n).type = table[n].type /\ KnownIdx(n) = varIdx
          /\ table[n].type # "none" /\ table[n] # [type |-> "LABEL", value |-> 0]
               => Known(n) = table[n]
<1>1. table[n] \in [type : Types, value : Nat] /\ varIdx \in Nat
  BY DEF SymbolType
<1>2. table[n].type = "none" => Known(n) = [type |-> "ID", value |-> varIdx]
  BY <1>1 DEF Known
<1>3. table[n] = [type |-> "LABEL", value |-> 0] => Known(n) = [type |-> "LABEL", value |-> varIdx]
  BY <1>1 DEF Known
<1>4. table[n].type # "none" /\ table[n] # [type |-> "LABEL", value |-> 0] => Known(n) = table[n]
  BY <1>1 DEF Known
<1>5. /\ table[n].type = "none" => KnownIdx(n) = varIdx + 1
      /\ table[n].type # "none" => KnownIdx(n) = varIdx
  BY <1>1 DEF KnownIdx
<1>6. Known(n) \in [type : Types \ {"none"}, value : Nat]
  BY <1>1, <1>2, <1>3, <1>4 DEF Types
<1>7. table[n].type # "none" => Known(n).type = table[n].type
  BY <1>3, <1>4
<1> QED
  BY <1>2, <1>4, <1>5, <1>6, <1>7

\* The address of the next cell.
LEMMA PcType == ASSUME code \in Seq(Cells)
                PROVE /\ pc \in Nat /\ pc >= 1 /\ Len(code) \in Nat
                      /\ DOMAIN code = 1 .. Len(code) /\ Len(code) = pc - 1
  BY LenProperties DEF pc

\* A patch changes one address and nothing else.
LEMMA Patched ==
    ASSUME code \in Seq(Cells), NEW pos \in DOMAIN code, NEW to \in Nat
    PROVE /\ Patch(pos, to) \in Seq(Cells)
          /\ Len(Patch(pos, to)) = Len(code) /\ DOMAIN Patch(pos, to) = DOMAIN code
          /\ \A a \in DOMAIN code :
               /\ Patch(pos, to)[a].op = code[a].op /\ Patch(pos, to)[a].n = code[a].n
               /\ Patch(pos, to)[a].parts = code[a].parts
               /\ Patch(pos, to)[a].to = IF a = pos THEN to ELSE code[a].to
<1> DEFINE c == [code[pos] EXCEPT !.to = to]
<1>1. code[pos] \in Cells /\ pos \in 1 .. Len(code)
  BY ElementOfSeq, LenProperties
<1>2. /\ c \in Cells /\ c.op = code[pos].op /\ c.n = code[pos].n
      /\ c.parts = code[pos].parts /\ c.to = to
  BY <1>1 DEF Cells
<1>3. Patch(pos, to) = [code EXCEPT ![pos] = c]
  BY DEF Patch
<1> HIDE DEF c
<1>4. /\ [code EXCEPT ![pos] = c] \in Seq(Cells)
      /\ Len([code EXCEPT ![pos] = c]) = Len(code)
      /\ \A i \in 1 .. Len(code) : [code EXCEPT ![pos] = c][i] = IF i = pos THEN c ELSE code[i]
  BY <1>1, <1>2, ExceptSeq
<1>5. DOMAIN code = 1 .. Len(code) /\ DOMAIN Patch(pos, to) = 1 .. Len(code)
  BY <1>3, <1>4, LenProperties
<1> QED
  BY <1>2, <1>3, <1>4, <1>5

-----------------------------------------------------------------------------
\* The kinds of steps, by what they do to code, forward declarations and calls.

\* No code: the running function goes on, or a block goes on with whole lines.
Quiet == /\ UNCHANGED <<output, errors, result>> /\ at # "done" /\ at' # "done"
         /\ \/ calls' = calls
            \/ /\ calls # <<>> /\ top.phase = "first" /\ top.fn \in {"for", "while", "if", "else"}
               /\ calls' = Append(Callers, [top EXCEPT !.phase = "lines"])

\* The code of a statement that no jump starts at.
Emits == /\ UNCHANGED <<fwd, calls, errors, result>> /\ at # "done" /\ at' # "done"
         /\ data' \in Seq(Nat)
         /\ \/ code' = code
            \/ \E op \in {"PRINT", "RETURN", "END", "LET", "ELEM", "DIM", "TEXT", "ON"},
                  n \in Names \cup {NoName} : code' = Append(code, Cell(op, n, 0))

\* A jump to a label.
Jumps1 == /\ UNCHANGED <<data, calls, errors, result>> /\ at # "done" /\ at' # "done"
          /\ \E op \in {"GOTO", "GOSUB"}, n \in Names, to \in Nat :
               /\ code' = Append(code, Cell(op, n, to))
               /\ fwd' = Append(fwd, [n |-> n, pos |-> pc])

\* The cell that begins a part of the program belongs to the function that waits for it.
Begins(fn) == CASE fn = "for" -> "FOR"
                [] fn \in {"while", "if", "then"} -> "IF"
                [] OTHER -> "GOTO"
Begin(frame, op, n) == /\ frame \in Frames /\ frame.pos = pc
                       /\ op = Begins(frame.fn) /\ n \in Names \cup {NoName}
                       /\ frame.fn # "for" => n = NoName

Opens == /\ UNCHANGED <<fwd, data, errors, result>> /\ at # "done" /\ at' # "done"
         /\ \E frame \in Frames, op \in CellOps, n \in Names \cup {NoName} :
              /\ Begin(frame, op, n)
              /\ code' = Append(code, Cell(op, n, 0))
              /\ calls' = Append(calls, frame)

\* ELSE and ELSEIF: one part ends, the next one begins with a jump.
Turns == /\ UNCHANGED <<fwd, data, errors, result>> /\ at # "done" /\ at' # "done"
         /\ calls # <<>> /\ top.fn \in {"if", "then"}
         /\ \E frame \in Frames :
              /\ Begin(frame, "GOTO", NoName)
              /\ code' = Append(Patch(top.pos, pc + 1), Hole)
              /\ calls' = Append(Callers, frame)

\* The end of an IF, ELSE or ELSEIF.
Ends == /\ UNCHANGED <<fwd, data, errors, result>> /\ at # "done" /\ at' # "done"
        /\ calls # <<>> /\ top.fn \in {"if", "then", "else", "otherwise", "elseif"}
        /\ code' = Patch(top.pos, pc)
        /\ calls' = Callers

\* The ends of loops.
EndsLoop == /\ UNCHANGED <<fwd, data, errors, result>> /\ at # "done" /\ at' # "done"
            /\ calls # <<>> /\ calls' = Callers
            /\ \/ /\ top.fn = "for"
                  /\ code' = Append(code, Cell("NEXT", code[top.pos].n, top.pos + 1))
               \/ /\ top.fn = "while"
                  /\ code' = Append(Patch(top.pos, pc + 1), Cell("GOTO", NoName, top.pos))

Gives == at # "done" /\ at' # "done" /\ Error
Finishes == Failed \/ Compiled
Kind == \/ Quiet \/ Emits \/ Jumps1 \/ Opens \/ Turns \/ Ends \/ EndsLoop \/ Gives \/ Finishes

\* What a statement leaves is a cell at the end of the code.
LEMMA OneCell == ASSUME OutputType, TextType,
                        NEW op \in CellOps, NEW n \in Names \cup {NoName}, NEW to \in Nat
                 PROVE code \o <<Cell(op, n, to)>> = Append(code, Cell(op, n, to))
<1>1. Cell(op, n, to) \in Cells
  BY CellType DEF TextType
<1> QED
  BY <1>1, AppendIsConcat DEF OutputType

\* An error is a step of its own kind, wherever it happens.
LEMMA ErrorGives == ASSUME Error, at # "done" PROVE Kind
  BY DEF Error, Kind, Gives

\* The steps of the lines.
LEMMA ReadingKind == ASSUME Typed, Reading PROVE Kind
<1>1. ASSUME at # "done", at' # "done", calls' = calls, UNCHANGED <<output, errors, result>>
      PROVE Kind
  BY <1>1 DEF Kind, Quiet
<1>2. CASE GetLine \/ EndOfFile \/ LineEndsBlock \/ DefineLabel \/ NoLabel \/ LineDone
           \/ StatementsDone \/ NextStmt
  <2>1. /\ at # "done" /\ at' # "done" /\ calls' = calls
        /\ UNCHANGED <<output, errors, result>>
    BY <1>2 DEF GetLine, EndOfFile, LineEndsBlock, DefineLabel, NoLabel, LineDone, StatementsDone,
                NextStmt, InLine, StmtsEnd, text
  <2> QED
    BY <2>1, <1>1
<1>3. CASE LineTooLong \/ CodeSizeExceeded \/ DataExpected
  <2>1. Error /\ at # "done"
    BY <1>3 DEF LineTooLong, CodeSizeExceeded, DataExpected
  <2> QED
    BY <2>1, ErrorGives
<1>4. CASE FirstLineDone
  <2>1. /\ at = "stmts" /\ at' # "done" /\ UNCHANGED <<output, errors, result>>
        /\ Phase = "first"
        /\ calls' = calls \/ calls' = Append(Callers, [top EXCEPT !.phase = "lines"])
    BY <1>4 DEF FirstLineDone, StmtsEnd
  <2>2. calls # <<>> /\ top.phase = "first"
    BY <2>1 DEF Phase
  <2>3. top \in Frames
    BY <2>2, CallersHere DEF Typed, TextType
  <2>4. top.fn \in {"for", "while", "if", "else"}
    BY <2>2, <2>3 DEF Frames
  <2> QED
    BY <2>1, <2>2, <2>4 DEF Kind, Quiet
<1> QED
  BY <1>2, <1>3, <1>4, Zenon DEF Reading

\* The steps of statements without blocks.
LEMMA JumpKind ==
    ASSUME Typed, NEW op \in {"GOTO", "GOSUB"}, NEW next \in Places \ {"done"}, at # "done",
           tok.t \in Naming, CompileGoto(op, next)
    PROVE Kind
<1>1. CASE Error
  BY <1>1, ErrorGives
<1>2. CASE ~Error
  <2>1. /\ fwd' = Append(fwd, [n |-> tok.n, pos |-> pc])
        /\ code' = Append(code, Cell(op, tok.n, Known(tok.n).value))
        /\ at' = next /\ UNCHANGED <<calls, data, errors, result>>
    BY <1>2 DEF CompileGoto, Emit
  <2>2. tok.n \in Names
    BY NameHere DEF Typed, TextType
  <2>3. Known(tok.n).value \in Nat
    <3>1. Known(tok.n) \in [type : Types \ {"none"}, value : Nat]
      BY <2>2, KnownFacts DEF Typed
    <3> QED
      BY <3>1
  <2>4. \E o \in {"GOTO", "GOSUB"}, n \in Names, to \in Nat :
           /\ code' = Append(code, Cell(o, n, to))
           /\ fwd' = Append(fwd, [n |-> n, pos |-> pc])
    BY <2>1, <2>2, <2>3
  <2> QED
    BY <2>1, <2>4 DEF Kind, Jumps1
<1> QED
  BY <1>1, <1>2

\* A statement on a name.
LEMMA NameKind ==
    ASSUME Typed, NEW t \in Naming, NEW types, NEW type,
           NEW op \in {"LET", "ELEM", "DIM"}, NEW cells, cells \in {<<>>, <<Cell(op, tok.n, 0)>>},
           OnName(t, types, type, cells)
    PROVE Kind
<1>1. CASE Error
  BY <1>1, ErrorGives DEF OnName, Stmt
<1>2. CASE ~Error
  <2>1. /\ at = "stmts" /\ tok.t = t /\ code' = code \o cells /\ at' = "check"
        /\ UNCHANGED <<fwd, calls, data, errors, result>>
    BY <1>2 DEF OnName, Stmt, Done, AtToken
  <2>2. tok.n \in Names \cup {NoName}
    BY NameHere DEF Typed, TextType
  <2>3. code' = code \/ code' = Append(code, Cell(op, tok.n, 0))
    <3>1. CASE cells = <<>>
      BY <3>1, <2>1, ConcatEmptySeq DEF Typed, OutputType
    <3>2. CASE cells = <<Cell(op, tok.n, 0)>>
      <4>1. op \in CellOps
        BY DEF CellOps
      <4> QED
        BY <3>2, <4>1, <2>1, <2>2, OneCell DEF Typed
    <3> QED
      BY <3>1, <3>2
  <2>4. data' \in Seq(Nat)
    BY <2>1 DEF Typed, OutputType
  <2>5. \/ code' = code
        \/ \E o \in {"PRINT", "RETURN", "END", "LET", "ELEM", "DIM", "TEXT", "ON"},
              n \in Names \cup {NoName} : code' = Append(code, Cell(o, n, 0))
    BY <2>2, <2>3
  <2> QED
    BY <2>1, <2>4, <2>5 DEF Kind, Emits
<1> QED
  BY <1>1, <1>2

\* The entries of DATA.
LEMMA DataKind == ASSUME Typed, DataNumber \/ DataText PROVE Kind
<1>1. at # "done" /\ at' # "done" /\ UNCHANGED <<fwd, calls, errors, result>>
  BY DEF DataNumber, DataText, DataEntry, InData
<1>2. data' \in Seq(Nat)
  <2>1. data \in Seq(Nat) /\ pc \in Nat
    BY PcType DEF Typed, OutputType
  <2>2. data' = Append(data, 0) \/ data' = Append(data, pc)
    BY DEF DataNumber, DataText, DataEntry
  <2>3. Append(data, 0) \in Seq(Nat) /\ Append(data, pc) \in Seq(Nat)
    BY <2>1, AppendProperties
  <2> QED
    BY <2>2, <2>3
<1>3. code' = code \o <<>> \/ code' = code \o <<Cell("TEXT", NoName, 0)>>
  BY DEF DataNumber, DataText, DataEntry
<1>4. code' = code \/ code' = Append(code, Cell("TEXT", NoName, 0))
  BY <1>3, OneCell, ConcatEmptySeq DEF Typed, OutputType, CellOps
<1>5. \/ code' = code
      \/ \E o \in {"PRINT", "RETURN", "END", "LET", "ELEM", "DIM", "TEXT", "ON"},
            n \in Names \cup {NoName} : code' = Append(code, Cell(o, n, 0))
  BY <1>4
<1> QED
  BY <1>1, <1>2, <1>5 DEF Kind, Emits

\* All statements without blocks.
LEMMA StatementKind == ASSUME Typed, Statement PROVE Kind
<1>1. CASE Colon \/ Remark \/ DataStmt \/ ListEnd
  <2>1. /\ at # "done" /\ at' # "done" /\ calls' = calls /\ UNCHANGED <<output, errors, result>>
    BY <1>1 DEF Colon, Remark, DataStmt, ListEnd, Stmt, Done, output
  <2> QED
    BY <2>1 DEF Kind, Quiet
<1>2. CASE SyntaxError \/ DataTextTooLong \/ ListMissing
  <2>1. Error /\ at # "done"
    BY <1>2 DEF SyntaxError, DataTextTooLong, ListMissing, InData, Stmt
  <2> QED
    BY <2>1, ErrorGives
<1>3. CASE Simple \/ On
  <2>1. /\ at # "done" /\ at' # "done" /\ UNCHANGED <<fwd, data, calls, errors, result>>
        /\ \E op \in {"PRINT", "RETURN", "END", "ON"} : code' = Append(code, Cell(op, NoName, 0))
    BY <1>3 DEF Simple, On, Stmt, Done, Emit, AtToken
  <2>2. data' \in Seq(Nat)
    BY <2>1 DEF Typed, OutputType
  <2> QED
    BY <2>1, <2>2 DEF Kind, Emits
<1>4. CASE Let
  BY <1>4, NameKind DEF Let, Naming
<1>5. CASE LetElement
  BY <1>5, NameKind DEF LetElement, Naming
<1>6. CASE Dim
  BY <1>6, NameKind DEF Dim, Naming
<1>7. CASE Const
  BY <1>7, NameKind DEF Const, Naming
<1>8. CASE Goto \/ Gosub
  <2>1. /\ at # "done" /\ tok.t \in Naming
        /\ CompileGoto("GOTO", "check") \/ CompileGoto("GOSUB", "check")
    BY <1>8 DEF Goto, Gosub, Stmt, AtToken, Naming
  <2> QED
    BY <2>1, JumpKind DEF Places
<1>9. CASE ListEntry
  <2>1. at # "done" /\ tok.t \in Naming /\ CompileGoto("GOTO", "morelist")
    BY <1>9 DEF ListEntry, AtToken, Naming
  <2> QED
    BY <2>1, JumpKind DEF Places
<1>10. CASE DataNumber \/ DataText
  BY <1>10, DataKind
<1> QED
  BY <1>1, <1>2, <1>3, <1>4, <1>5, <1>6, <1>7, <1>8, <1>9, <1>10, Zenon DEF Statement

\* What the tokens of the line and the waiting functions have to do with each other.
Position ==
    /\ at \in {"line", "start"} /\ calls # <<>> => top.phase = "lines"
    /\ at = "goto" => AtToken("GOTO")
    /\ (result # "none") <=> (at = "done")
    /\ result = "ok" => errors = 0

\* A block begins.
LEMMA OpensKind ==
    ASSUME Typed, For \/ While \/ IfThen \/ IfGoto
    PROVE Kind
<1>1. pc \in Nat
  BY PcType DEF Typed, OutputType
<1>2. ASSUME NEW frame, NEW op, NEW n \in Names \cup {NoName}, at # "done", at' # "done",
             frame \in Frames, frame.pos = pc, op = Begins(frame.fn), op \in CellOps,
             frame.fn # "for" => n = NoName,
             code' = Append(code, Cell(op, n, 0)), calls' = Append(calls, frame),
             UNCHANGED <<fwd, data, errors, result>>
      PROVE Kind
  BY <1>2 DEF Kind, Opens, Begin
<1>3. /\ Block("for", pc) \in Frames /\ Block("while", pc) \in Frames /\ Block("if", pc) \in Frames
      /\ Statements("then", pc) \in Frames
  BY <1>1, FrameTypes
<1>4. /\ Block("for", pc).pos = pc /\ Block("while", pc).pos = pc /\ Block("if", pc).pos = pc
      /\ Statements("then", pc).pos = pc
      /\ Block("for", pc).fn = "for" /\ Block("while", pc).fn = "while"
      /\ Block("if", pc).fn = "if" /\ Statements("then", pc).fn = "then"
  BY DEF Block, Statements, Frame
<1>5. /\ Begins("for") = "FOR" /\ Begins("while") = "IF" /\ Begins("if") = "IF"
      /\ Begins("then") = "IF" /\ {"FOR", "IF"} \subseteq CellOps
  BY DEF Begins, CellOps
<1>6. NoName \in Names \cup {NoName}
  OBVIOUS
<1>7. CASE For
  <2>1. CASE Error
    BY <2>1, <1>7, ErrorGives DEF For, Stmt
  <2>2. CASE ~Error
    <3>1. /\ at # "done" /\ at' # "done" /\ UNCHANGED <<fwd, data, errors, result>>
          /\ code' = Append(code, Cell("FOR", tok.n, 0))
          /\ calls' = Append(calls, Block("for", pc))
      BY <2>2, <1>7 DEF For, Stmt, Enter, Emit
    <3>2. tok.n \in Names \cup {NoName}
      BY NameHere DEF Typed, TextType
    <3> QED
      BY <3>1, <3>2, <1>2, <1>3, <1>4, <1>5
  <2> QED
    BY <2>1, <2>2
<1>8. CASE While
  <2>1. /\ at # "done" /\ at' # "done" /\ UNCHANGED <<fwd, data, errors, result>>
        /\ code' = Append(code, Cell("IF", NoName, 0))
        /\ calls' = Append(calls, Block("while", pc))
    BY <1>8 DEF While, Stmt, Enter, Emit
  <2> QED
    BY <2>1, <1>2, <1>3, <1>4, <1>5, <1>6
<1>9. CASE IfThen \/ IfGoto
  <2>1. /\ at # "done" /\ at' # "done" /\ UNCHANGED <<fwd, data, errors, result>>
        /\ code' = Append(code, Cell("IF", NoName, 0))
        /\ \/ calls' = Append(calls, Block("if", pc))
           \/ calls' = Append(calls, Statements("then", pc))
    BY <1>9 DEF IfThen, IfGoto, Enter, Emit
  <2> QED
    BY <2>1, <1>2, <1>3, <1>4, <1>5, <1>6
<1> QED
  BY <1>7, <1>8, <1>9

\* ELSE and ELSEIF.
LEMMA TurnsKind == ASSUME Typed, ElseIf \/ Else \/ ElseHere PROVE Kind
<1>1. pc \in Nat
  BY PcType DEF Typed, OutputType
<1>2. /\ at # "done" /\ at' # "done" /\ UNCHANGED <<fwd, data, errors, result>>
      /\ calls # <<>> /\ top.fn \in {"if", "then"}
      /\ code' = Append(Patch(top.pos, pc + 1), Hole)
      /\ \/ calls' = Append(Callers, Statements("elseif", pc))
         \/ calls' = Append(Callers, Block("else", pc))
         \/ calls' = Append(Callers, Statements("otherwise", pc))
  BY DEF ElseIf, Else, ElseHere, Turn, Waiting
<1>3. /\ Block("else", pc) \in Frames
      /\ Statements("elseif", pc) \in Frames /\ Statements("otherwise", pc) \in Frames
  BY <1>1, FrameTypes
<1>4. /\ Begin(Block("else", pc), "GOTO", NoName)
      /\ Begin(Statements("elseif", pc), "GOTO", NoName)
      /\ Begin(Statements("otherwise", pc), "GOTO", NoName)
  BY <1>3 DEF Begin, Begins, Block, Statements, Frame
<1>5. \E frame \in Frames : /\ Begin(frame, "GOTO", NoName)
                            /\ code' = Append(Patch(top.pos, pc + 1), Hole)
                            /\ calls' = Append(Callers, frame)
  BY <1>2, <1>3, <1>4
<1> QED
  BY <1>2, <1>5 DEF Kind, Turns

\* All steps of blocks.
LEMMA BlocksKind == ASSUME Typed, Position, Blocks PROVE Kind
<1>1. CASE For \/ While \/ IfThen \/ IfGoto
  BY <1>1, OpensKind
<1>2. CASE ElseIf \/ Else \/ ElseHere
  BY <1>2, TurnsKind
<1>3. CASE NextMismatched \/ IfBad \/ BlockNotClosed
  <2>1. Error /\ at # "done"
    BY <1>3 DEF NextMismatched, IfBad, BlockNotClosed, AtNext
  <2> QED
    BY <2>1, ErrorGives
<1>4. CASE If \/ IfReturns
  <2>1. /\ at # "done" /\ at' # "done" /\ calls' = calls /\ UNCHANGED <<output, errors, result>>
    BY <1>4 DEF If, IfReturns, Stmt
  <2> QED
    BY <2>1 DEF Kind, Quiet
<1>5. CASE NextTail
  <2>1. /\ at # "done" /\ at' # "done" /\ UNCHANGED <<fwd, data, errors, result>>
        /\ calls # <<>> /\ calls' = Callers /\ top.fn = "for"
        /\ code' = Append(code, Cell("NEXT", code[top.pos].n, top.pos + 1))
    BY <1>5 DEF NextTail, AtNext, Waiting, Leave, Emit
  <2> QED
    BY <2>1 DEF Kind, EndsLoop
<1>6. CASE LoopTail
  <2>1. /\ at # "done" /\ at' # "done" /\ UNCHANGED <<fwd, data, errors, result>>
        /\ calls # <<>> /\ calls' = Callers /\ top.fn = "while"
        /\ code' = Append(Patch(top.pos, pc + 1), Cell("GOTO", NoName, top.pos))
    BY <1>6 DEF LoopTail, Waiting, Leave
  <2> QED
    BY <2>1 DEF Kind, EndsLoop
<1>7. CASE EndIf \/ IfLineEnd \/ ElseIfReturns
  <2>1. /\ at # "done" /\ at' # "done" /\ UNCHANGED <<fwd, data, errors, result>>
        /\ calls # <<>> /\ top.fn \in {"if", "then", "else", "otherwise", "elseif"}
        /\ code' = Patch(top.pos, pc) /\ calls' = Callers
    BY <1>7 DEF EndIf, IfLineEnd, ElseIfReturns, Waiting, Leave
  <2> QED
    BY <2>1 DEF Kind, Ends
<1>8. CASE ThenGoto
  <2>1. at # "done" /\ tok.t \in Naming /\ CompileGoto("GOTO", "tail")
    BY <1>8 DEF ThenGoto, Position, AtToken, Naming
  <2> QED
    BY <2>1, JumpKind DEF Places
<1> QED
  BY <1>1, <1>2, <1>3, <1>4, <1>5, <1>6, <1>7, <1>8, Zenon DEF Blocks

\* All steps.
LEMMA NextKind == ASSUME Typed, Position, Next PROVE Kind
<1>1. NotResolved => Error /\ at # "done"
  BY DEF NotResolved, AtEnd
<1> QED
  BY <1>1, ReadingKind, StatementKind, BlocksKind, ErrorGives DEF Next, Kind, Finishes

-----------------------------------------------------------------------------
\* Code, forward declarations and calls keep their types, and name cells that there are.
Inside == /\ \A k \in DOMAIN fwd : fwd[k].pos \in DOMAIN code
          /\ \A k \in DOMAIN calls : calls[k].pos \in DOMAIN code

\* A sequence with one element more.
LEMMA Grown == ASSUME NEW S, NEW s \in Seq(S), NEW e \in S
               PROVE /\ Append(s, e) \in Seq(S) /\ Len(s) \in Nat
                     /\ DOMAIN s = 1 .. Len(s) /\ DOMAIN Append(s, e) = 1 .. Len(s) + 1
                     /\ Len(Append(s, e)) = Len(s) + 1
                     /\ \A i \in DOMAIN s : Append(s, e)[i] = s[i]
                     /\ Append(s, e)[Len(s) + 1] = e
<1>1. /\ Append(s, e) \in Seq(S) /\ Len(Append(s, e)) = Len(s) + 1
      /\ \A i \in 1 .. Len(s) : Append(s, e)[i] = s[i]
      /\ Append(s, e)[Len(s) + 1] = e
  BY AppendProperties
<1>2. Len(s) \in Nat /\ DOMAIN s = 1 .. Len(s)
  BY LenProperties
<1>3. DOMAIN Append(s, e) = 1 .. Len(Append(s, e))
  BY <1>1, LenProperties
<1> QED
  BY <1>1, <1>2, <1>3

\* The calls when the running function takes another frame.
LEMMA Turned ==
    ASSUME calls \in Seq(Frames), calls # <<>>, NEW frame \in Frames
    PROVE /\ Append(Callers, frame) \in Seq(Frames)
          /\ DOMAIN Append(Callers, frame) = DOMAIN calls
          /\ \A k \in DOMAIN calls :
               Append(Callers, frame)[k] = IF k = Len(calls) THEN frame ELSE calls[k]
<1>1. /\ Callers \in Seq(Frames) /\ Len(Callers) = Len(calls) - 1 /\ Len(calls) \in Nat
      /\ \A k \in 1 .. Len(calls) - 1 : Callers[k] = calls[k]
  BY CallersHere
<1>2. DOMAIN calls = 1 .. Len(calls) /\ DOMAIN Callers = 1 .. Len(calls) - 1
  BY <1>1, LenProperties
<1>3. /\ Append(Callers, frame) \in Seq(Frames)
      /\ DOMAIN Append(Callers, frame) = 1 .. Len(calls) - 1 + 1
      /\ \A i \in DOMAIN Callers : Append(Callers, frame)[i] = Callers[i]
      /\ Append(Callers, frame)[Len(calls) - 1 + 1] = frame
  BY <1>1, Grown
<1> QED
  BY <1>1, <1>2, <1>3

\* The calls when the running function has returned.
LEMMA Returned ==
    ASSUME calls \in Seq(Frames), calls # <<>>
    PROVE /\ Callers \in Seq(Frames) /\ DOMAIN Callers = DOMAIN calls \ {Len(calls)}
          /\ \A k \in DOMAIN Callers : Callers[k] = calls[k]
<1>1. /\ Callers \in Seq(Frames) /\ Len(Callers) = Len(calls) - 1 /\ Len(calls) \in Nat
      /\ \A k \in 1 .. Len(calls) - 1 : Callers[k] = calls[k]
  BY CallersHere
<1>2. DOMAIN calls = 1 .. Len(calls) /\ DOMAIN Callers = 1 .. Len(calls) - 1
  BY <1>1, LenProperties
<1> QED
  BY <1>1, <1>2

\* The code with END and the tag of the data behind it.
LEMMA FinalFacts ==
    ASSUME Typed
    PROVE /\ FinalCode \in Seq(Cells) /\ Len(FinalCode) = Len(code) + 2
          /\ DOMAIN FinalCode = 1 .. Len(code) + 2
          /\ \A a \in DOMAIN code : FinalCode[a] = code[a]
          /\ FinalCode[Len(code) + 1] = Cell("END", NoName, 0)
          /\ FinalCode[Len(code) + 2] = Cell("TAG", NoName, 0)
<1>1. Cell("END", NoName, 0) \in Cells /\ Cell("TAG", NoName, 0) \in Cells
  BY CellType DEF Typed, TextType, CellOps
<1>2. code \in Seq(Cells) /\ Len(code) \in Nat /\ DOMAIN code = 1 .. Len(code)
  BY PcType DEF Typed, OutputType
<1> DEFINE tail == <<Cell("END", NoName, 0), Cell("TAG", NoName, 0)>>
<1>3. tail \in Seq(Cells) /\ Len(tail) = 2 /\ tail[1] = Cell("END", NoName, 0)
      /\ tail[2] = Cell("TAG", NoName, 0)
  BY <1>1
<1> HIDE DEF tail
<1>4. /\ code \o tail \in Seq(Cells) /\ Len(code \o tail) = Len(code) + Len(tail)
      /\ \A i \in 1 .. Len(code) + Len(tail) :
           (code \o tail)[i] = IF i <= Len(code) THEN code[i] ELSE tail[i - Len(code)]
  BY <1>2, <1>3, ConcatProperties
<1>5. FinalCode = code \o tail
  BY DEF FinalCode, tail
<1>6. DOMAIN FinalCode = 1 .. Len(FinalCode)
  BY <1>4, <1>5, LenProperties
<1> QED
  BY <1>2, <1>3, <1>4, <1>5, <1>6

\* A jump of the finished code leads to an address.
LEMMA TargetType == ASSUME Typed, NEW a \in DOMAIN code PROVE Target(a) \in Nat
<1> DEFINE ks == {k \in DOMAIN fwd : fwd[k].pos = a}
           k0 == CHOOSE k \in ks : TRUE
<1>1. CASE ks = {}
  <2>1. Target(a) = code[a].to
    BY <1>1 DEF Target
  <2>2. code[a] \in Cells
    BY ElementOfSeq, LenProperties DEF Typed, OutputType
  <2> QED
    BY <2>1, <2>2 DEF Cells
<1>2. CASE ks # {}
  <2>1. k0 \in DOMAIN fwd
    BY <1>2
  <2>2. fwd[k0].n \in Names
    <3>1. fwd \in Seq(Forwards) /\ k0 \in 1 .. Len(fwd)
      BY <2>1, LenProperties DEF Typed, OutputType
    <3>2. fwd[k0] \in Forwards
      <4> HIDE DEF k0
      <4> QED
        BY <3>1, ElementOfSeq
    <3> QED
      BY <3>2 DEF Forwards
  <2>3. Address(fwd[k0].n) \in Nat
    BY <2>2 DEF Address, Typed, SymbolType
  <2>4. Target(a) = Address(fwd[k0].n)
    BY <1>2 DEF Target
  <2> QED
    BY <2>3, <2>4
<1> QED
  BY <1>1, <1>2

\* Sequences with the same domain have the same length.
LEMMA SameInterval == ASSUME NEW m \in Nat, NEW n \in Nat, 1 .. m = 1 .. n PROVE m = n
<1>1. m # 0 => m \in 1 .. n
  OBVIOUS
<1>2. n # 0 => n \in 1 .. m
  OBVIOUS
<1> QED
  BY <1>1, <1>2

\* The code that resolve_forward_declarations leaves.
LEMMA CompiledCode ==
    ASSUME Typed, Compiled
    PROVE /\ code' \in Seq(Cells) /\ Len(code') = Len(code) + 2
          /\ DOMAIN code' = 1 .. Len(code) + 2 /\ DOMAIN code = 1 .. Len(code)
          /\ Len(code) \in Nat
          /\ \A a \in DOMAIN code :
               /\ code'[a].op = code[a].op /\ code'[a].n = code[a].n
               /\ code'[a].parts = code[a].parts /\ code'[a].to = Target(a)
          /\ code'[Len(code) + 1] = Cell("END", NoName, 0)
          /\ code'[Len(code) + 2] = Cell("TAG", NoName, 0)
<1>1. /\ FinalCode \in Seq(Cells) /\ Len(FinalCode) = Len(code) + 2
      /\ DOMAIN FinalCode = 1 .. Len(code) + 2
      /\ FinalCode[Len(code) + 1] = Cell("END", NoName, 0)
      /\ FinalCode[Len(code) + 2] = Cell("TAG", NoName, 0)
  BY FinalFacts
<1>2. Len(code) \in Nat /\ DOMAIN code = 1 .. Len(code) /\ code \in Seq(Cells)
  BY PcType DEF Typed, OutputType
<1>3. code' = [a \in 1 .. Len(code) + 2 |->
                 IF a \in DOMAIN code THEN [code[a] EXCEPT !.to = Target(a)] ELSE FinalCode[a]]
  BY <1>1 DEF Compiled
<1>4. ASSUME NEW a \in DOMAIN code
      PROVE /\ [code[a] EXCEPT !.to = Target(a)] \in Cells
            /\ [code[a] EXCEPT !.to = Target(a)].op = code[a].op
            /\ [code[a] EXCEPT !.to = Target(a)].n = code[a].n
            /\ [code[a] EXCEPT !.to = Target(a)].parts = code[a].parts
            /\ [code[a] EXCEPT !.to = Target(a)].to = Target(a)
  <2>1. code[a] \in Cells /\ Target(a) \in Nat
    BY <1>2, ElementOfSeq, TargetType
  <2> QED
    BY <2>1 DEF Cells
<1>5. \A a \in 1 .. Len(code) + 2 : code'[a] \in Cells
  <2>1. \A a \in 1 .. Len(code) + 2 : FinalCode[a] \in Cells
    BY <1>1, ElementOfSeq
  <2> QED
    BY <2>1, <1>3, <1>4
<1>6. code' \in Seq(Cells)
  <2>1. code' = [a \in 1 .. Len(code) + 2 |-> code'[a]]
    BY <1>3
  <2>2. Len(code) + 2 \in Nat
    BY <1>2
  <2> QED
    BY <1>5, <2>1, <2>2, IsASeq
<1>7. Len(code') = Len(code) + 2
  <2>1. DOMAIN code' = 1 .. Len(code') /\ Len(code') \in Nat
    BY <1>6, LenProperties
  <2>2. DOMAIN code' = 1 .. Len(code) + 2
    BY <1>3
  <2>3. 1 .. Len(code') = 1 .. Len(code) + 2
    BY <2>1, <2>2, Zenon
  <2>4. Len(code) + 2 \in Nat
    BY <1>2
  <2> QED
    BY <2>1, <2>3, <2>4, SameInterval
<1>8. \A a \in DOMAIN code : code'[a] = [code[a] EXCEPT !.to = Target(a)]
  BY <1>2, <1>3
<1>9. code'[Len(code) + 1] = FinalCode[Len(code) + 1] /\ code'[Len(code) + 2] = FinalCode[Len(code) + 2]
  BY <1>2, <1>3
<1>10. DOMAIN code' = 1 .. Len(code) + 2
  BY <1>3
<1> HIDE DEF FinalCode
<1> QED
  BY <1>1, <1>2, <1>4, <1>6, <1>7, <1>8, <1>9, <1>10

\* One cell more at the end of the code: what was there stays there.
LEMMA GrownCode ==
    ASSUME Typed, NEW op \in CellOps, NEW n \in Names \cup {NoName}, NEW to \in Nat,
           code' = Append(code, Cell(op, n, to))
    PROVE /\ code' \in Seq(Cells) /\ Len(code) \in Nat
          /\ DOMAIN code = 1 .. Len(code) /\ DOMAIN code' = 1 .. Len(code) + 1
          /\ pc = Len(code) + 1 /\ pc' = pc + 1
          /\ \A a \in DOMAIN code : code'[a] = code[a]
          /\ code'[pc].op = op /\ code'[pc].n = n /\ code'[pc].to = to /\ code'[pc].parts = Parts
<1>1. /\ Cell(op, n, to) \in Cells
      /\ Cell(op, n, to).op = op /\ Cell(op, n, to).n = n
      /\ Cell(op, n, to).to = to /\ Cell(op, n, to).parts = Parts
  <2>1. calls \in Seq(Frames)
    BY DEF Typed, TextType
  <2> QED
    BY <2>1, CellType
<1>2. code \in Seq(Cells)
  BY DEF Typed, OutputType
<1>3. /\ Append(code, Cell(op, n, to)) \in Seq(Cells) /\ Len(code) \in Nat
      /\ DOMAIN code = 1 .. Len(code) /\ DOMAIN Append(code, Cell(op, n, to)) = 1 .. Len(code) + 1
      /\ Len(Append(code, Cell(op, n, to))) = Len(code) + 1
      /\ \A i \in DOMAIN code : Append(code, Cell(op, n, to))[i] = code[i]
      /\ Append(code, Cell(op, n, to))[Len(code) + 1] = Cell(op, n, to)
  BY <1>1, <1>2, Grown
<1>4. pc' = Len(code') + 1 /\ pc = Len(code) + 1
  BY DEF pc
<1> QED
  BY <1>1, <1>3, <1>4

\* A patch of the cell that the running function began with, and a cell more.
PatchAndCell(op, n, to, new) ==
    /\ code' \in Seq(Cells) /\ Len(code) \in Nat
    /\ DOMAIN code = 1 .. Len(code) /\ DOMAIN code' = 1 .. Len(code) + 1
    /\ pc = Len(code) + 1 /\ pc' = pc + 1 /\ top.pos \in DOMAIN code
    /\ \A a \in DOMAIN code :
         /\ code'[a].op = code[a].op /\ code'[a].n = code[a].n
         /\ code'[a].parts = code[a].parts
         /\ code'[a].to = IF a = top.pos THEN new ELSE code[a].to
    /\ code'[pc].op = op /\ code'[pc].n = n /\ code'[pc].to = to /\ code'[pc].parts = Parts

\* What that leaves of the code.
LEMMA PatchedCode ==
    ASSUME Typed, calls # <<>>, Inside, NEW op \in CellOps, NEW n \in Names \cup {NoName},
           NEW to \in Nat, NEW new \in Nat,
           code' = Append(Patch(top.pos, new), Cell(op, n, to))
    PROVE PatchAndCell(op, n, to, new)
<1>1. /\ Cell(op, n, to) \in Cells
      /\ Cell(op, n, to).op = op /\ Cell(op, n, to).n = n
      /\ Cell(op, n, to).to = to /\ Cell(op, n, to).parts = Parts
  <2>1. calls \in Seq(Frames)
    BY DEF Typed, TextType
  <2> QED
    BY <2>1, CellType
<1>2. top.pos \in DOMAIN code
  BY CallersHere DEF Inside, top, Typed, TextType
<1>3. code \in Seq(Cells) /\ Len(code) \in Nat /\ DOMAIN code = 1 .. Len(code)
  BY PcType DEF Typed, OutputType
<1> DEFINE p == Patch(top.pos, new)
<1>4. /\ p \in Seq(Cells) /\ Len(p) = Len(code) /\ DOMAIN p = DOMAIN code
      /\ \A a \in DOMAIN code :
           /\ p[a].op = code[a].op /\ p[a].n = code[a].n /\ p[a].parts = code[a].parts
           /\ p[a].to = IF a = top.pos THEN new ELSE code[a].to
  BY <1>2, <1>3, Patched
<1>5. code' = Append(p, Cell(op, n, to))
  OBVIOUS
<1> HIDE DEF p
<1>6. /\ code' \in Seq(Cells) /\ DOMAIN code' = 1 .. Len(p) + 1 /\ Len(code') = Len(p) + 1
      /\ \A i \in DOMAIN p : code'[i] = p[i]
      /\ code'[Len(p) + 1] = Cell(op, n, to)
  BY <1>1, <1>4, <1>5, Grown
<1>7. pc' = Len(code') + 1 /\ pc = Len(code) + 1
  BY DEF pc
<1> QED
  BY <1>1, <1>2, <1>3, <1>4, <1>6, <1>7 DEF PatchAndCell

\* Code and addresses, kind by kind.
LEMMA OutputStep == ASSUME Typed, Inside, Kind
                    PROVE OutputType' /\ Inside' /\ calls' \in Seq(Frames)
<1>1. /\ calls \in Seq(Frames) /\ code \in Seq(Cells) /\ fwd \in Seq(Forwards)
      /\ data \in Seq(Nat)
  BY DEF Typed, TextType, OutputType
<1>2. Len(code) \in Nat /\ DOMAIN code = 1 .. Len(code) /\ pc = Len(code) + 1 /\ pc \in Nat
  BY <1>1, PcType
<1>3. CASE Quiet
  <2>1. UNCHANGED <<code, fwd, data>>
    BY <1>3 DEF Quiet, output
  <2>2. CASE calls' = calls
    BY <1>1, <2>1, <2>2 DEF OutputType, Inside
  <2>3. CASE calls' # calls
    <3>1. calls # <<>> /\ calls' = Append(Callers, [top EXCEPT !.phase = "lines"])
          /\ top.fn \in {"for", "while", "if", "else"}
      BY <1>3, <2>3 DEF Quiet
    <3>2. [top EXCEPT !.phase = "lines"] \in Frames /\ [top EXCEPT !.phase = "lines"].pos = top.pos
      BY <1>1, <3>1, CallersHere DEF Frames
    <3>3. /\ calls' \in Seq(Frames) /\ DOMAIN calls' = DOMAIN calls
          /\ \A k \in DOMAIN calls :
               calls'[k] = IF k = Len(calls) THEN [top EXCEPT !.phase = "lines"] ELSE calls[k]
      BY <1>1, <3>1, <3>2, Turned
    <3>4. \A k \in DOMAIN calls : calls'[k].pos = calls[k].pos
      BY <3>2, <3>3 DEF top
    <3> QED
      BY <1>1, <2>1, <3>3, <3>4 DEF OutputType, Inside
  <2> QED
    BY <2>2, <2>3
<1>4. CASE Emits
  <2>1. UNCHANGED <<fwd, calls>> /\ data' \in Seq(Nat)
    BY <1>4 DEF Emits
  <2>2. code' \in Seq(Cells) /\ DOMAIN code \subseteq DOMAIN code'
    <3>1. CASE code' = code
      BY <3>1, <1>1
    <3>2. CASE code' # code
      <4>1. PICK op \in {"PRINT", "RETURN", "END", "LET", "ELEM", "DIM", "TEXT", "ON"},
                 n \in Names \cup {NoName} : code' = Append(code, Cell(op, n, 0))
        BY <1>4, <3>2 DEF Emits
      <4>2. op \in CellOps
        BY DEF CellOps
      <4> QED
        BY <4>1, <4>2, GrownCode
    <3> QED
      BY <3>1, <3>2
  <2> QED
    BY <1>1, <2>1, <2>2 DEF OutputType, Inside
<1>5. CASE Jumps1
  <2>1. PICK op \in {"GOTO", "GOSUB"}, n \in Names, to \in Nat :
          /\ code' = Append(code, Cell(op, n, to))
          /\ fwd' = Append(fwd, [n |-> n, pos |-> pc])
    BY <1>5 DEF Jumps1
  <2>2. UNCHANGED <<data, calls>>
    BY <1>5 DEF Jumps1
  <2>3. op \in CellOps
    BY DEF CellOps
  <2>4. code' \in Seq(Cells) /\ DOMAIN code' = 1 .. Len(code) + 1
    BY <2>1, <2>3, GrownCode
  <2>5. [n |-> n, pos |-> pc] \in Forwards
    BY <1>2 DEF Forwards
  <2>6. /\ fwd' \in Seq(Forwards) /\ DOMAIN fwd = 1 .. Len(fwd) /\ DOMAIN fwd' = 1 .. Len(fwd) + 1
        /\ Len(fwd) \in Nat
        /\ \A k \in DOMAIN fwd : fwd'[k] = fwd[k]
        /\ fwd'[Len(fwd) + 1] = [n |-> n, pos |-> pc]
    BY <1>1, <2>1, <2>5, Grown
  <2>7. \A k \in DOMAIN fwd' : k \in DOMAIN fwd \/ k = Len(fwd) + 1
    BY <2>6
  <2>8. \A k \in DOMAIN fwd' : fwd'[k].pos \in DOMAIN code'
    BY <1>2, <2>4, <2>6, <2>7 DEF Inside
  <2> QED
    BY <1>1, <1>2, <2>2, <2>4, <2>6, <2>8 DEF OutputType, Inside
<1>6. CASE Opens
  <2>1. PICK frame \in Frames, op \in CellOps, n \in Names \cup {NoName} :
          /\ Begin(frame, op, n)
          /\ code' = Append(code, Cell(op, n, 0))
          /\ calls' = Append(calls, frame)
    BY <1>6 DEF Opens
  <2>2. UNCHANGED <<fwd, data>> /\ frame.pos = pc
    BY <1>6, <2>1 DEF Opens, Begin
  <2>3. code' \in Seq(Cells) /\ DOMAIN code' = 1 .. Len(code) + 1
    BY <2>1, GrownCode
  <2>4. /\ calls' \in Seq(Frames) /\ DOMAIN calls = 1 .. Len(calls)
        /\ DOMAIN calls' = 1 .. Len(calls) + 1 /\ Len(calls) \in Nat
        /\ \A k \in DOMAIN calls : calls'[k] = calls[k]
        /\ calls'[Len(calls) + 1] = frame
    BY <1>1, <2>1, Grown
  <2>5. \A k \in DOMAIN calls' : k \in DOMAIN calls \/ k = Len(calls) + 1
    BY <2>4
  <2>6. \A k \in DOMAIN calls' : calls'[k].pos \in DOMAIN code'
    BY <1>2, <2>2, <2>3, <2>4, <2>5 DEF Inside
  <2> QED
    BY <1>1, <1>2, <2>2, <2>3, <2>4, <2>6 DEF OutputType, Inside
<1>7. CASE Turns
  <2>1. PICK frame \in Frames :
          /\ Begin(frame, "GOTO", NoName)
          /\ code' = Append(Patch(top.pos, pc + 1), Hole)
          /\ calls' = Append(Callers, frame)
    BY <1>7 DEF Turns
  <2>2. UNCHANGED <<fwd, data>> /\ frame.pos = pc /\ calls # <<>>
    BY <1>7, <2>1 DEF Turns, Begin
  <2>3. code' \in Seq(Cells) /\ DOMAIN code' = 1 .. Len(code) + 1
    <3>1. "GOTO" \in CellOps /\ pc + 1 \in Nat /\ NoName \in Names \cup {NoName}
      BY <1>2 DEF CellOps
    <3> QED
      BY <2>1, <2>2, <3>1, PatchedCode DEF Hole, PatchAndCell
  <2>4. /\ calls' \in Seq(Frames) /\ DOMAIN calls' = DOMAIN calls
        /\ \A k \in DOMAIN calls : calls'[k] = IF k = Len(calls) THEN frame ELSE calls[k]
    BY <1>1, <2>1, <2>2, Turned
  <2>5. \A k \in DOMAIN calls' : calls'[k].pos \in DOMAIN code'
    BY <1>2, <2>2, <2>3, <2>4 DEF Inside
  <2> QED
    BY <1>1, <1>2, <2>2, <2>3, <2>4, <2>5 DEF OutputType, Inside
<1>8. CASE Ends
  <2>1. /\ UNCHANGED <<fwd, data>> /\ calls # <<>>
        /\ code' = Patch(top.pos, pc) /\ calls' = Callers
    BY <1>8 DEF Ends
  <2>2. top.pos \in DOMAIN code
    BY <1>1, <2>1, CallersHere DEF Inside, top
  <2>3. code' \in Seq(Cells) /\ DOMAIN code' = DOMAIN code
    BY <1>1, <1>2, <2>1, <2>2, Patched
  <2>4. calls' \in Seq(Frames) /\ \A k \in DOMAIN calls' : k \in DOMAIN calls /\ calls'[k] = calls[k]
    BY <1>1, <2>1, Returned
  <2> QED
    BY <1>1, <2>1, <2>3, <2>4 DEF OutputType, Inside
<1>9. CASE EndsLoop
  <2>1. /\ UNCHANGED <<fwd, data>> /\ calls # <<>> /\ calls' = Callers
        /\ \/ code' = Append(code, Cell("NEXT", code[top.pos].n, top.pos + 1))
           \/ code' = Append(Patch(top.pos, pc + 1), Cell("GOTO", NoName, top.pos))
    BY <1>9 DEF EndsLoop
  <2>2. top.pos \in DOMAIN code /\ top.pos \in Nat
    BY <1>1, <2>1, CallersHere DEF Inside, top
  <2>3. code[top.pos].n \in Names \cup {NoName}
    <3>1. code[top.pos] \in Cells
      BY <1>1, <1>2, <2>2, ElementOfSeq
    <3> QED
      BY <3>1 DEF Cells
  <2>4. "NEXT" \in CellOps /\ "GOTO" \in CellOps /\ pc + 1 \in Nat /\ top.pos + 1 \in Nat
    BY <1>2, <2>2 DEF CellOps
  <2>5. code' \in Seq(Cells) /\ DOMAIN code' = 1 .. Len(code) + 1
    <3>1. CASE code' = Append(code, Cell("NEXT", code[top.pos].n, top.pos + 1))
      BY <3>1, <2>3, <2>4, GrownCode
    <3>2. CASE code' = Append(Patch(top.pos, pc + 1), Cell("GOTO", NoName, top.pos))
      BY <3>2, <2>1, <2>2, <2>4, PatchedCode DEF PatchAndCell
    <3> QED
      BY <2>1, <3>1, <3>2
  <2>6. calls' \in Seq(Frames) /\ \A k \in DOMAIN calls' : k \in DOMAIN calls /\ calls'[k] = calls[k]
    BY <1>1, <2>1, Returned
  <2> QED
    BY <1>1, <1>2, <2>1, <2>5, <2>6 DEF OutputType, Inside
<1>10. CASE Gives
  <2>1. UNCHANGED <<code, fwd, data>> /\ calls' = <<>>
    BY <1>10 DEF Gives, Error, output
  <2> QED
    BY <1>1, <2>1 DEF OutputType, Inside
<1>11. CASE Failed
  <2>1. UNCHANGED <<code, fwd, data, calls>>
    BY <1>11 DEF Failed, Finish, output
  <2> QED
    BY <1>1, <2>1 DEF OutputType, Inside
<1>12. CASE Compiled
  <2>1. fwd' = <<>> /\ UNCHANGED <<data, calls>>
    BY <1>12 DEF Compiled, Finish
  <2>2. code' \in Seq(Cells) /\ DOMAIN code' = 1 .. Len(code) + 2
    BY <1>12, CompiledCode
  <2> QED
    BY <1>1, <1>2, <2>1, <2>2 DEF OutputType, Inside
<1> QED
  BY <1>3, <1>4, <1>5, <1>6, <1>7, <1>8, <1>9, <1>10, <1>11, <1>12 DEF Kind, Finishes

-----------------------------------------------------------------------------
\* Blocks: the parts of the program that are open belong to the waiting functions, one
\* each, and the jumps of those that are closed go where JumpsSpanParts says.
In(b, a) == \E k \in DOMAIN code[b].parts : code[b].parts[k] = a
Open == {calls[k].pos : k \in DOMAIN calls}
PartTo(a, to) == \A b \in DOMAIN code : In(b, a) <=> a < b /\ b < to
Skips(a) == code[a].op = "IF" \/ (code[a].op = "GOTO" /\ code[a].n = NoName /\ code[a].to > a)
GoesBack(a) == code[a].op = "GOTO" /\ code[a].n = NoName /\ code[a].to <= a

SkipClosed(a) == Skips(a) => a < code[a].to /\ code[a].to <= pc /\ PartTo(a, code[a].to)
BackClosed(a) == GoesBack(a) => \E w \in DOMAIN code \ Open :
                                  code[a].to = w /\ code[w].op = "IF" /\ code[w].to = a + 1
NextClosed(a) == code[a].op = "NEXT" => \E f \in DOMAIN code \ Open :
                                          /\ code[f].op = "FOR" /\ code[f].n = code[a].n
                                          /\ code[a].to = f + 1 /\ PartTo(f, a + 1)
ForClosed(a) == code[a].op = "FOR" => \E b \in DOMAIN code :
                                        In(b, a) /\ code[b].op = "NEXT" /\ code[b].to = a + 1
Closed(a) == SkipClosed(a) /\ BackClosed(a) /\ NextClosed(a) /\ ForClosed(a)

OpenPart(a) == \A b \in DOMAIN code : In(b, a) <=> a < b

Separate == \A k, l \in DOMAIN calls : calls[k].pos = calls[l].pos => k = l
Begun == \A k \in DOMAIN calls : /\ code[calls[k].pos].op = Begins(calls[k].fn)
                                 /\ calls[k].fn # "for" => code[calls[k].pos].n = NoName
OpenParts == \A a \in Open : OpenPart(a)
ClosedParts == \A a \in DOMAIN code \ Open : Closed(a)
Behind == \A b \in DOMAIN code : \A a \in Nat : In(b, a) => a < b
Blocked == Separate /\ Begun /\ OpenParts /\ ClosedParts /\ Behind
Nested == errors = 0 /\ at # "done" => Blocked

\* A step adds at most one cell, which belongs to the open parts, and patches open ones.
Extended ==
    /\ DOMAIN code \subseteq DOMAIN code' /\ pc' >= pc
    /\ \A a \in DOMAIN code : /\ code'[a].op = code[a].op /\ code'[a].n = code[a].n
                              /\ code'[a].parts = code[a].parts
                              /\ a \notin Open => code'[a].to = code[a].to
    /\ \A b \in DOMAIN code' : b \notin DOMAIN code => b = pc /\ code'[b].parts = Parts
    /\ \A k \in DOMAIN calls' : calls'[k].pos \in Open \/ calls'[k].pos = pc

\* Old cells belong to the parts they did; the new one belongs to the open ones.
LEMMA InExtended ==
    ASSUME Extended
    PROVE /\ \A b \in DOMAIN code : \A a : In(b, a)' <=> In(b, a)
          /\ \A b \in DOMAIN code' : b \notin DOMAIN code => \A a : In(b, a)' <=> a \in Open
<1>1. ASSUME NEW b \in DOMAIN code, NEW a PROVE In(b, a)' <=> In(b, a)
  BY DEF In, Extended
<1>2. ASSUME NEW b \in DOMAIN code', b \notin DOMAIN code, NEW a PROVE In(b, a)' <=> a \in Open
  <2>1. code'[b].parts = [k \in DOMAIN calls |-> calls[k].pos]
    BY <1>2 DEF Extended, Parts
  <2>2. In(b, a)' <=> \E k \in DOMAIN code'[b].parts : code'[b].parts[k] = a
    BY DEF In
  <2>3. In(b, a)' <=> \E k \in DOMAIN calls : calls[k].pos = a
    BY <2>1, <2>2
  <2> QED
    BY <2>3 DEF Open
<1> QED
  BY <1>1, <1>2

\* The parts that are open and stay so have the new cell too.
LEMMA OpenExtended ==
    ASSUME Typed, Inside, Extended, OpenParts, Behind, DOMAIN code' \subseteq Nat
    PROVE /\ \A a \in Open : OpenPart(a)'
          /\ Behind'
<1>1. DOMAIN code = 1 .. Len(code) /\ Len(code) \in Nat /\ pc = Len(code) + 1
  BY PcType DEF Typed, OutputType, pc
<1>2. Open \subseteq DOMAIN code
  BY DEF Open, Inside
<1>3. \A b \in DOMAIN code' : b \notin DOMAIN code => b = pc
  BY DEF Extended
<1>4. ASSUME NEW a \in Open, NEW b \in DOMAIN code' PROVE In(b, a)' <=> a < b
  <2>1. CASE b \in DOMAIN code
    BY <2>1, InExtended DEF OpenParts, OpenPart
  <2>2. CASE b \notin DOMAIN code
    <3>1. In(b, a)'
      BY <2>2, InExtended
    <3>2. a < b
      BY <2>2, <1>1, <1>2, <1>3
    <3> QED
      BY <3>1, <3>2
  <2> QED
    BY <2>1, <2>2
<1>5. ASSUME NEW b \in DOMAIN code', NEW a \in Nat, In(b, a)' PROVE a < b
  <2>1. CASE b \in DOMAIN code
    BY <1>5, <2>1, InExtended DEF Behind
  <2>2. CASE b \notin DOMAIN code
    <3>1. a \in Open
      BY <1>5, <2>2, InExtended
    <3> QED
      BY <3>1, <2>2, <1>1, <1>2, <1>3
  <2> QED
    BY <2>1, <2>2
<1>6. \A a \in Open : OpenPart(a)'
  BY <1>4 DEF OpenPart
<1>7. Behind'
  BY <1>5 DEF Behind
<1> QED
  BY <1>6, <1>7

\* A part that was closed and ends at most here is not longer for it.
LEMMA PartExtended ==
    ASSUME Typed, Extended, NEW a \in DOMAIN code \ Open, NEW to \in Nat, to <= pc, PartTo(a, to)
    PROVE PartTo(a, to)'
<1>1. DOMAIN code = 1 .. Len(code) /\ Len(code) \in Nat /\ pc = Len(code) + 1
  BY PcType DEF Typed, OutputType, pc
<1>2. ASSUME NEW b \in DOMAIN code' PROVE In(b, a)' <=> a < b /\ b < to
  <2>1. CASE b \in DOMAIN code
    BY <2>1, InExtended DEF PartTo
  <2>2. CASE b \notin DOMAIN code
    <3>1. b = pc
      BY <2>2 DEF Extended
    <3>2. ~In(b, a)'
      BY <2>2, InExtended
    <3> QED
      BY <3>1, <3>2, <1>1
  <2> QED
    BY <2>1, <2>2
<1> QED
  BY <1>2 DEF PartTo

\* Parts that were closed stay closed.
LEMMA ClosedExtended ==
    ASSUME Typed, Inside, Begun, Extended, pc' \in Nat, NEW a \in DOMAIN code \ Open, Closed(a)
    PROVE Closed(a)'
<1>1. DOMAIN code = 1 .. Len(code) /\ Len(code) \in Nat /\ pc = Len(code) + 1
  BY PcType DEF Typed, OutputType, pc
<1>2. code'[a].op = code[a].op /\ code'[a].n = code[a].n /\ code'[a].to = code[a].to
  BY DEF Extended
<1>3. code[a].to \in Nat
  <2>1. code[a] \in Cells
    BY <1>1, ElementOfSeq DEF Typed, OutputType
  <2> QED
    BY <2>1 DEF Cells
<1>4. \A w \in DOMAIN code \ Open : w \in DOMAIN code' \ Open'
  <2>1. ASSUME NEW w \in DOMAIN code \ Open, w \in Open' PROVE FALSE
    <3>1. PICK k \in DOMAIN calls' : w = calls'[k].pos
      BY <2>1 DEF Open
    <3>2. w \in Open \/ w = pc
      BY <3>1 DEF Extended
    <3> QED
      BY <3>2, <1>1
  <2> QED
    BY <2>1 DEF Extended
<1>5. SkipClosed(a)'
  <2>1. Skips(a)' <=> Skips(a)
    BY <1>2 DEF Skips
  <2>2. ASSUME Skips(a) PROVE a < code'[a].to /\ code'[a].to <= pc' /\ PartTo(a, code[a].to)'
    <3>1. a < code[a].to /\ code[a].to <= pc /\ PartTo(a, code[a].to)
      BY <2>2 DEF Closed, SkipClosed
    <3>2. \A to \in Nat : to <= pc /\ PartTo(a, to) => PartTo(a, to)'
      BY PartExtended
    <3>3. PICK to \in Nat : to = code[a].to
      BY <1>3
    <3>4. PartTo(a, to)'
      BY <3>1, <3>2, <3>3
    <3>5. PartTo(a, code[a].to)'
      BY <3>3, <3>4, <1>2
    <3>6. pc' >= pc
      BY DEF Extended
    <3> QED
      BY <1>1, <1>2, <1>3, <3>1, <3>5, <3>6
  <2> QED
    BY <2>1, <2>2 DEF SkipClosed
<1>6. BackClosed(a)'
  <2>1. SUFFICES ASSUME GoesBack(a)
                 PROVE \E w \in DOMAIN code' \ Open' :
                         code'[a].to = w /\ code'[w].op = "IF" /\ code'[w].to = a + 1
    BY <1>2 DEF BackClosed, GoesBack
  <2>2. PICK w \in DOMAIN code \ Open : code[a].to = w /\ code[w].op = "IF" /\ code[w].to = a + 1
    BY <2>1 DEF Closed, BackClosed
  <2>3. code'[w].op = "IF" /\ code'[w].to = a + 1
    BY <2>2 DEF Extended
  <2> QED
    BY <2>2, <2>3, <1>2, <1>4
<1>7. NextClosed(a)'
  <2>1. SUFFICES ASSUME code[a].op = "NEXT"
                 PROVE \E f \in DOMAIN code' \ Open' :
                         /\ code'[f].op = "FOR" /\ code'[f].n = code'[a].n
                         /\ code'[a].to = f + 1 /\ PartTo(f, a + 1)'
    BY <1>2 DEF NextClosed
  <2>2. PICK f \in DOMAIN code \ Open : /\ code[f].op = "FOR" /\ code[f].n = code[a].n
                                         /\ code[a].to = f + 1 /\ PartTo(f, a + 1)
    BY <2>1 DEF Closed, NextClosed
  <2>3. code'[f].op = "FOR" /\ code'[f].n = code[a].n
    BY <2>2 DEF Extended
  <2>4. a + 1 \in Nat /\ a + 1 <= pc
    BY <1>1
  <2>5. PartTo(f, a + 1)'
    BY <2>2, <2>4, PartExtended
  <2> QED
    BY <2>2, <2>3, <2>5, <1>2, <1>4
<1>8. ForClosed(a)'
  <2>1. SUFFICES ASSUME code[a].op = "FOR"
                 PROVE \E b \in DOMAIN code' :
                         In(b, a)' /\ code'[b].op = "NEXT" /\ code'[b].to = a + 1
    BY <1>2 DEF ForClosed
  <2>2. PICK b \in DOMAIN code : In(b, a) /\ code[b].op = "NEXT" /\ code[b].to = a + 1
    BY <2>1 DEF Closed, ForClosed
  <2>3. In(b, a)' /\ code'[b].op = "NEXT" /\ b \in DOMAIN code'
    BY <2>2, InExtended DEF Extended
  <2>4. b \notin Open
    <3>1. \A fn : Begins(fn) # "NEXT"
      BY DEF Begins
    <3> QED
      BY <2>2, <3>1 DEF Begun, Open
  <2>5. code'[b].to = a + 1
    BY <2>2, <2>4 DEF Extended
  <2> QED
    BY <2>3, <2>5
<1> QED
  BY <1>5, <1>6, <1>7, <1>8 DEF Closed

\* A call that was there before, and one that has just begun its part.
Kept(k) == k \in DOMAIN calls /\ calls'[k].pos = calls[k].pos /\ calls'[k].fn = calls[k].fn
Fresh(k) == /\ calls'[k].pos = pc /\ pc \in DOMAIN code'
            /\ code'[pc].op = Begins(calls'[k].fn)
            /\ calls'[k].fn # "for" => code'[pc].n = NoName

\* What is left to show of a step: that the parts it ends are closed.
LEMMA BlockedAfter ==
    ASSUME Typed, OutputType', Inside, Blocked, Extended,
           \A k \in DOMAIN calls' : Kept(k) \/ Fresh(k),
           \A k, l \in DOMAIN calls' : Fresh(k) /\ Fresh(l) => k = l,
           \A a \in DOMAIN code' \ Open' : a \in DOMAIN code \ Open \/ Closed(a)'
    PROVE Blocked'
<1>1. /\ DOMAIN code = 1 .. Len(code) /\ Len(code) \in Nat /\ pc = Len(code) + 1
      /\ pc \in Nat /\ pc \notin DOMAIN code
  BY PcType DEF Typed, OutputType, pc
<1>2. DOMAIN code' \subseteq Nat /\ pc' \in Nat
  <2>1. DOMAIN code' = 1 .. Len(code') /\ Len(code') \in Nat /\ pc' = Len(code') + 1
    BY LenProperties DEF OutputType, pc
  <2> QED
    BY <2>1
<1>3. Open \subseteq DOMAIN code
  BY DEF Open, Inside
<1>4. \A k \in DOMAIN calls : calls[k].pos \in Open
  BY DEF Open
<1>5. Separate'
  <2>1. ASSUME NEW k \in DOMAIN calls', NEW l \in DOMAIN calls', calls'[k].pos = calls'[l].pos
        PROVE k = l
    <3>1. CASE Fresh(k) /\ Fresh(l)
      BY <3>1
    <3>2. CASE Kept(k) /\ Kept(l)
      BY <2>1, <3>2 DEF Kept, Blocked, Separate
    <3>3. CASE Kept(k) /\ Fresh(l)
      BY <2>1, <3>3, <1>1, <1>3, <1>4 DEF Kept, Fresh
    <3>4. CASE Fresh(k) /\ Kept(l)
      BY <2>1, <3>4, <1>1, <1>3, <1>4 DEF Kept, Fresh
    <3> QED
      BY <3>1, <3>2, <3>3, <3>4
  <2> QED
    BY <2>1 DEF Separate
<1>6. Begun'
  <2>1. ASSUME NEW k \in DOMAIN calls'
        PROVE /\ code'[calls'[k].pos].op = Begins(calls'[k].fn)
              /\ calls'[k].fn # "for" => code'[calls'[k].pos].n = NoName
    <3>1. CASE Fresh(k)
      BY <3>1 DEF Fresh
    <3>2. CASE Kept(k)
      <4>1. /\ code[calls[k].pos].op = Begins(calls[k].fn)
            /\ calls[k].fn # "for" => code[calls[k].pos].n = NoName
        BY <3>2 DEF Kept, Blocked, Begun
      <4>2. calls[k].pos \in DOMAIN code
        BY <3>2, <1>3, <1>4 DEF Kept
      <4>3. /\ code'[calls[k].pos].op = code[calls[k].pos].op
            /\ code'[calls[k].pos].n = code[calls[k].pos].n
        BY <4>2 DEF Extended
      <4> QED
        BY <3>2, <4>1, <4>3 DEF Kept
    <3> QED
      BY <3>1, <3>2
  <2> QED
    BY <2>1 DEF Begun, Begins
<1>7. (\A a \in Open : OpenPart(a)') /\ Behind'
  BY <1>2, OpenExtended DEF Blocked
<1>8. OpenParts'
  <2>1. ASSUME NEW a \in Open' PROVE OpenPart(a)'
    <3>1. CASE a \in Open
      BY <3>1, <1>7
    <3>2. CASE a \notin Open
      <4>1. a = pc
        BY <3>2, <2>1 DEF Open, Extended
      <4>2. ASSUME NEW b \in DOMAIN code' PROVE ~In(b, a)' /\ ~(a < b)
        <5>1. CASE b \in DOMAIN code
          BY <5>1, <4>1, <1>1, InExtended DEF Blocked, Behind
        <5>2. CASE b \notin DOMAIN code
          <6>1. ~In(b, a)'
            BY <5>2, <3>2, InExtended
          <6>2. b = pc
            BY <5>2 DEF Extended
          <6> QED
            BY <6>1, <6>2, <4>1, <1>1
        <5> QED
          BY <5>1, <5>2
      <4> QED
        BY <4>2 DEF OpenPart
    <3> QED
      BY <3>1, <3>2
  <2> QED
    BY <2>1 DEF OpenParts
<1>9. ClosedParts'
  <2>1. ASSUME NEW a \in DOMAIN code' \ Open' PROVE Closed(a)'
    <3>1. CASE a \in DOMAIN code \ Open
      <4>1. Closed(a)
        BY <3>1 DEF Blocked, ClosedParts
      <4> QED
        BY <3>1, <4>1, <1>2, ClosedExtended DEF Blocked
    <3>2. CASE a \notin DOMAIN code \ Open
      BY <2>1, <3>2
    <3> QED
      BY <3>1, <3>2
  <2> QED
    BY <2>1 DEF ClosedParts
<1> QED
  BY <1>5, <1>6, <1>7, <1>8, <1>9 DEF Blocked

\* What PatchedCode and GrownCode say is that the code is extended.
LEMMA IsExtended ==
    ASSUME Typed, Inside, pc' = pc + 1, DOMAIN code' = 1 .. Len(code) + 1,
           code'[pc].parts = Parts,
           \A a \in DOMAIN code : /\ code'[a].op = code[a].op /\ code'[a].n = code[a].n
                                  /\ code'[a].parts = code[a].parts
                                  /\ a \notin Open => code'[a].to = code[a].to,
           \A k \in DOMAIN calls' : Kept(k) \/ Fresh(k)
    PROVE Extended
<1>1. /\ DOMAIN code = 1 .. Len(code) /\ Len(code) \in Nat /\ pc = Len(code) + 1
  BY PcType DEF Typed, OutputType, pc
<1>2. \A k \in DOMAIN calls' : calls'[k].pos \in Open \/ calls'[k].pos = pc
  BY DEF Kept, Fresh, Open
<1>3. DOMAIN code \subseteq DOMAIN code' /\ pc' >= pc
  BY <1>1
<1>4. \A b \in DOMAIN code' : b \notin DOMAIN code => b = pc /\ code'[b].parts = Parts
  BY <1>1
<1> QED
  BY <1>2, <1>3, <1>4 DEF Extended

\* A cell that no block is made of.
LEMMA PlainBlocked ==
    ASSUME Typed, OutputType', Inside, Blocked, calls' = calls,
           NEW op \in CellOps \ {"IF", "FOR", "NEXT"}, NEW n \in Names \cup {NoName}, NEW to \in Nat,
           op = "GOTO" => n # NoName,
           code' = Append(code, Cell(op, n, to))
    PROVE Blocked'
<1>1. /\ Len(code) \in Nat /\ DOMAIN code = 1 .. Len(code) /\ DOMAIN code' = 1 .. Len(code) + 1
      /\ pc = Len(code) + 1 /\ pc' = pc + 1
      /\ \A a \in DOMAIN code : code'[a] = code[a]
      /\ code'[pc].op = op /\ code'[pc].n = n /\ code'[pc].to = to /\ code'[pc].parts = Parts
  BY GrownCode
<1>2. \A k \in DOMAIN calls' : Kept(k)
  BY DEF Kept
<1>3. Extended
  BY <1>1, <1>2, IsExtended
<1>4. \A k \in DOMAIN calls' : calls'[k].pos # pc
  BY <1>1 DEF Inside
<1>5. \A a \in DOMAIN code' \ Open' : a \in DOMAIN code \ Open \/ Closed(a)'
  <2>1. ASSUME NEW a \in DOMAIN code' \ Open', a \notin DOMAIN code PROVE Closed(a)'
    <3>1. a = pc
      BY <2>1, <1>1
    <3>2. code'[a].op = op /\ code'[a].n = n
      BY <3>1, <1>1
    <3> QED
      BY <3>2 DEF Closed, SkipClosed, Skips, BackClosed, GoesBack, NextClosed, ForClosed
  <2>2. Open' = Open
    BY DEF Open
  <2> QED
    BY <2>1, <2>2
<1> QED
  BY <1>2, <1>3, <1>4, <1>5, BlockedAfter DEF Fresh

\* No cell at all.
LEMMA QuietBlocked == ASSUME Typed, OutputType', Inside, Blocked, code' = code,
                             \A k \in DOMAIN calls' : Kept(k), DOMAIN calls' = DOMAIN calls
                      PROVE Blocked'
<1>1. Open' = Open
  BY DEF Open, Kept
<1>2. pc' = pc /\ pc \in Nat
  BY PcType DEF pc, Typed, OutputType
<1>3. \A k \in DOMAIN calls' : calls'[k].pos \in DOMAIN code
  BY DEF Kept, Inside
<1>4. Extended
  BY <1>1, <1>2 DEF Extended, Open, Kept
<1>5. \A k \in DOMAIN calls' : calls'[k].pos # pc
  BY <1>3, PcType DEF Typed, OutputType
<1> QED
  BY <1>1, <1>4, <1>5, BlockedAfter DEF Fresh

\* A part begins.
LEMMA OpensBlocked == ASSUME Typed, OutputType', Inside, Blocked, Opens PROVE Blocked'
<1>1. PICK frame \in Frames, op \in CellOps, n \in Names \cup {NoName} :
        /\ Begin(frame, op, n)
        /\ code' = Append(code, Cell(op, n, 0))
        /\ calls' = Append(calls, frame)
  BY DEF Opens
<1>2. /\ Len(code) \in Nat /\ DOMAIN code = 1 .. Len(code) /\ DOMAIN code' = 1 .. Len(code) + 1
      /\ pc = Len(code) + 1 /\ pc' = pc + 1
      /\ \A a \in DOMAIN code : code'[a] = code[a]
      /\ code'[pc].op = op /\ code'[pc].n = n /\ code'[pc].parts = Parts
  BY <1>1, GrownCode
<1>3. /\ DOMAIN calls = 1 .. Len(calls)
      /\ DOMAIN calls' = 1 .. Len(calls) + 1 /\ Len(calls) \in Nat
      /\ \A k \in DOMAIN calls : calls'[k] = calls[k]
      /\ calls'[Len(calls) + 1] = frame
  BY <1>1, Grown DEF Typed, TextType
<1>4. /\ frame.pos = pc /\ op = Begins(frame.fn) /\ (frame.fn # "for" => n = NoName)
  BY <1>1 DEF Begin
<1>5. \A k \in DOMAIN calls : Kept(k)
  BY <1>3 DEF Kept
<1>6. \A k \in DOMAIN calls : calls'[k].pos # pc
  BY <1>2, <1>3 DEF Inside
<1>7. ASSUME NEW k \in DOMAIN calls', k \notin DOMAIN calls PROVE Fresh(k) /\ k = Len(calls) + 1
  <2>1. k = Len(calls) + 1 /\ calls'[k] = frame
    BY <1>3, <1>7
  <2>2. pc \in DOMAIN code'
    BY <1>2
  <2> QED
    BY <2>1, <2>2, <1>2, <1>4 DEF Fresh, Begins
<1>8. Extended
  BY <1>2, <1>5, <1>7, IsExtended
<1>9. \A a \in DOMAIN code' \ Open' : a \in DOMAIN code \ Open
  <2>1. pc \in Open'
    <3>1. Len(calls) + 1 \in DOMAIN calls'
      BY <1>3
    <3> QED
      BY <3>1, <1>3, <1>4 DEF Open
  <2>2. Open \subseteq Open'
    <3>1. \A k \in DOMAIN calls : k \in DOMAIN calls' /\ calls'[k] = calls[k]
      BY <1>3
    <3> QED
      BY <3>1 DEF Open
  <2> QED
    BY <2>1, <2>2, <1>2
<1>10. \A k, l \in DOMAIN calls' : Fresh(k) /\ Fresh(l) => k = l
  BY <1>6, <1>7 DEF Fresh
<1> QED
  BY <1>5, <1>7, <1>8, <1>9, <1>10, BlockedAfter

\* Where the running function began, and what is open when it has returned.
LEMMA TopFacts ==
    ASSUME Typed, Inside, Blocked, calls # <<>>
    PROVE /\ top.pos \in Open /\ top.pos \in DOMAIN code /\ top.pos \in Nat /\ OpenPart(top.pos)
          /\ code[top.pos].op = Begins(top.fn) /\ (top.fn # "for" => code[top.pos].n = NoName)
          /\ \A k \in DOMAIN calls : k # Len(calls) => calls[k].pos # top.pos
          /\ Len(calls) \in DOMAIN calls
<1>1. Len(calls) \in DOMAIN calls
  BY CallersHere DEF Typed, TextType
<1>2. top.pos \in Open /\ top.pos \in DOMAIN code
  BY <1>1 DEF Open, top, Inside
<1>3. top.pos \in Nat
  BY <1>2, PcType DEF Typed, OutputType
<1>4. OpenPart(top.pos)
  BY <1>2 DEF Blocked, OpenParts
<1>5. code[top.pos].op = Begins(top.fn) /\ (top.fn # "for" => code[top.pos].n = NoName)
  BY <1>1 DEF Blocked, Begun, top
<1>6. \A k \in DOMAIN calls : k # Len(calls) => calls[k].pos # top.pos
  BY <1>1 DEF Blocked, Separate, top
<1> QED
  BY <1>1, <1>2, <1>3, <1>4, <1>5, <1>6

\* When the running function has returned, its part is not open any more.
LEMMA ReturnedOpen ==
    ASSUME Typed, Inside, Blocked, calls # <<>>, calls' = Callers, NEW p, p = top.pos
    PROVE /\ \A k \in DOMAIN calls' : Kept(k)
          /\ Open' = Open \ {p}
<1>1. /\ DOMAIN Callers = DOMAIN calls \ {Len(calls)}
      /\ \A k \in DOMAIN Callers : Callers[k] = calls[k]
  BY Returned DEF Typed, TextType
<1>2. \A k \in DOMAIN calls' : k \in DOMAIN calls /\ k # Len(calls) /\ calls'[k] = calls[k]
  BY <1>1
<1>3. \A k \in DOMAIN calls' : calls'[k].pos # p
  BY <1>2, TopFacts
<1>4. \A k \in DOMAIN calls : calls[k].pos # p => k \in DOMAIN calls' /\ calls'[k] = calls[k]
  BY <1>1 DEF top
<1>5. Open' = Open \ {p}
  <2>1. \A a \in Open' : a \in Open \ {p}
    BY <1>2, <1>3 DEF Open
  <2>2. \A a \in Open \ {p} : a \in Open'
    <3>1. ASSUME NEW k \in DOMAIN calls, calls[k].pos # p PROVE calls[k].pos \in Open'
      BY <3>1, <1>4 DEF Open
    <3> QED
      BY <3>1 DEF Open
  <2> QED
    BY <2>1, <2>2
<1> QED
  BY <1>2, <1>5 DEF Kept

\* ELSE or ELSEIF: the part of IF ends behind the jump that the next part begins with.
LEMMA TurnsBlocked == ASSUME Typed, OutputType', Inside, Blocked, Turns PROVE Blocked'
<1>1. PICK frame \in Frames :
        /\ Begin(frame, "GOTO", NoName)
        /\ code' = Append(Patch(top.pos, pc + 1), Cell("GOTO", NoName, 0))
        /\ calls' = Append(Callers, frame)
  BY DEF Turns, Hole
<1>2. PICK p : p = top.pos
  OBVIOUS
<1>3. calls # <<>> /\ top.fn \in {"if", "then"}
  BY DEF Turns
<1>4. /\ p \in Open /\ p \in DOMAIN code /\ p \in Nat /\ OpenPart(p) /\ code[p].op = "IF"
      /\ \A k \in DOMAIN calls : k # Len(calls) => calls[k].pos # p
  BY <1>2, <1>3, TopFacts DEF Begins
<1>5. /\ Len(code) \in Nat /\ DOMAIN code = 1 .. Len(code) /\ DOMAIN code' = 1 .. Len(code) + 1
      /\ pc = Len(code) + 1 /\ pc' = pc + 1
      /\ \A a \in DOMAIN code :
           /\ code'[a].op = code[a].op /\ code'[a].n = code[a].n
           /\ code'[a].parts = code[a].parts
           /\ code'[a].to = IF a = p THEN pc + 1 ELSE code[a].to
      /\ code'[pc].op = "GOTO" /\ code'[pc].n = NoName /\ code'[pc].parts = Parts
  <2>1. "GOTO" \in CellOps /\ pc + 1 \in Nat /\ NoName \in Names \cup {NoName} /\ 0 \in Nat
    BY PcType DEF CellOps, Typed, OutputType
  <2>2. PatchAndCell("GOTO", NoName, 0, pc + 1)
    BY <1>1, <1>3, <2>1, PatchedCode
  <2> QED
    BY <1>2, <2>2 DEF PatchAndCell
<1>6. /\ DOMAIN calls' = DOMAIN calls
      /\ \A k \in DOMAIN calls : calls'[k] = IF k = Len(calls) THEN frame ELSE calls[k]
  BY <1>1, <1>3, Turned DEF Typed, TextType
<1>7. frame.pos = pc /\ Begins(frame.fn) = "GOTO"
  BY <1>1 DEF Begin
<1>8. \A k \in DOMAIN calls' : k # Len(calls) => Kept(k) /\ ~Fresh(k)
  <2>1. \A k \in DOMAIN calls : calls[k].pos # pc
    BY <1>5 DEF Inside
  <2> QED
    BY <1>6, <2>1 DEF Kept, Fresh
<1>9. \A k \in DOMAIN calls' : k = Len(calls) => Fresh(k)
  <2>1. pc \in DOMAIN code'
    BY <1>5
  <2> QED
    BY <2>1, <1>5, <1>6, <1>7 DEF Fresh
<1>10. Extended
  <2>1. \A k \in DOMAIN calls' : Kept(k) \/ Fresh(k)
    BY <1>8, <1>9
  <2>2. \A a \in DOMAIN code : a \notin Open => code'[a].to = code[a].to
    BY <1>4, <1>5
  <2> QED
    BY <1>5, <2>1, <2>2, IsExtended
<1>11. Closed(p)'
  <2>1. code'[p].op = "IF" /\ code'[p].to = pc + 1
    BY <1>4, <1>5
  <2>2. ASSUME NEW b \in DOMAIN code' PROVE In(b, p)' <=> p < b /\ b < pc + 1
    <3>1. CASE b \in DOMAIN code
      BY <3>1, <1>4, <1>5, <1>10, InExtended DEF OpenPart
    <3>2. CASE b \notin DOMAIN code
      <4>1. In(b, p)'
        BY <3>2, <1>4, <1>10, InExtended
      <4> QED
        BY <3>2, <4>1, <1>4, <1>5
    <3> QED
      BY <3>1, <3>2
  <2>3. SkipClosed(p)'
    <3>1. PartTo(p, code[p].to)'
      BY <2>1, <2>2 DEF PartTo
    <3> QED
      BY <2>1, <3>1, <1>4, <1>5 DEF SkipClosed
  <2> QED
    BY <2>1, <2>3 DEF Closed, BackClosed, GoesBack, NextClosed, ForClosed
<1>12. \A a \in DOMAIN code' \ Open' : a \in DOMAIN code \ Open \/ Closed(a)'
  <2>1. pc \in Open'
    <3>1. Len(calls) \in DOMAIN calls'
      BY <1>3, <1>6, TopFacts
    <3> QED
      BY <3>1, <1>6, <1>7 DEF Open
  <2>2. \A a \in Open : a # p => a \in Open'
    <3>1. ASSUME NEW k \in DOMAIN calls, calls[k].pos # p
          PROVE k \in DOMAIN calls' /\ calls'[k].pos = calls[k].pos
      BY <3>1, <1>2, <1>6 DEF top
    <3> QED
      BY <3>1 DEF Open
  <2> QED
    BY <2>1, <2>2, <1>5, <1>11
<1>13. \A k, l \in DOMAIN calls' : Fresh(k) /\ Fresh(l) => k = l
  BY <1>8
<1> QED
  BY <1>8, <1>9, <1>10, <1>12, <1>13, BlockedAfter

\* ENDIF or the end of the line: the last part ends here.
LEMMA EndsBlocked == ASSUME Typed, OutputType', Inside, Blocked, Ends PROVE Blocked'
<1>1. PICK p : p = top.pos
  OBVIOUS
<1>2. /\ calls # <<>> /\ top.fn \in {"if", "then", "else", "otherwise", "elseif"}
      /\ code' = Patch(top.pos, pc) /\ calls' = Callers
  BY DEF Ends
<1>3. /\ p \in Open /\ p \in DOMAIN code /\ p \in Nat /\ OpenPart(p)
      /\ code[p].op \in {"IF", "GOTO"}
  <2>1. Begins(top.fn) \in {"IF", "GOTO"}
    BY <1>2 DEF Begins
  <2> QED
    BY <1>1, <1>2, <2>1, TopFacts
<1>4. /\ Len(code) \in Nat /\ DOMAIN code = 1 .. Len(code) /\ pc = Len(code) + 1 /\ pc \in Nat
  BY PcType DEF Typed, OutputType
<1>5. /\ Len(code') = Len(code) /\ DOMAIN code' = DOMAIN code
      /\ \A a \in DOMAIN code :
           /\ code'[a].op = code[a].op /\ code'[a].n = code[a].n
           /\ code'[a].parts = code[a].parts
           /\ code'[a].to = IF a = p THEN pc ELSE code[a].to
  BY <1>1, <1>2, <1>3, <1>4, Patched DEF Typed, OutputType
<1>6. (\A k \in DOMAIN calls' : Kept(k)) /\ Open' = Open \ {p}
  BY <1>1, <1>2, ReturnedOpen
<1>7. \A k \in DOMAIN calls' : calls'[k].pos \in Open
  BY <1>6 DEF Kept, Open
<1>8. Extended
  <2>1. pc' = pc
    BY <1>5 DEF pc
  <2>2. \A a \in DOMAIN code : a \notin Open => code'[a].to = code[a].to
    BY <1>3, <1>5
  <2> QED
    BY <2>1, <2>2, <1>4, <1>5, <1>7 DEF Extended
<1>9. Closed(p)'
  <2>1. code'[p].op \in {"IF", "GOTO"} /\ code'[p].to = pc /\ pc' = pc /\ p < pc
    BY <1>3, <1>4, <1>5 DEF pc
  <2>2. ASSUME NEW b \in DOMAIN code' PROVE In(b, p)' <=> p < b /\ b < pc
    <3>1. b \in DOMAIN code
      BY <1>5
    <3>2. In(b, p)' <=> p < b
      BY <3>1, <1>3, <1>8, InExtended DEF OpenPart
    <3> QED
      BY <3>1, <3>2, <1>4
  <2>3. PartTo(p, code[p].to)'
    BY <2>1, <2>2 DEF PartTo
  <2>4. SkipClosed(p)'
    BY <2>1, <2>3, <1>4 DEF SkipClosed
  <2>5. ~GoesBack(p)'
    BY <2>1, <1>3, <1>4 DEF GoesBack
  <2>6. BackClosed(p)'
    BY <2>5 DEF BackClosed
  <2> QED
    BY <2>1, <2>4, <2>6 DEF Closed, NextClosed, ForClosed
<1>10. \A a \in DOMAIN code' \ Open' : a \in DOMAIN code \ Open \/ Closed(a)'
  BY <1>5, <1>6, <1>9
<1>11. \A k \in DOMAIN calls' : ~Fresh(k)
  <2>1. Open \subseteq DOMAIN code /\ pc \notin DOMAIN code
    BY <1>4 DEF Open, Inside
  <2> QED
    BY <2>1, <1>7 DEF Fresh
<1> QED
  BY <1>6, <1>8, <1>10, <1>11, BlockedAfter

\* NEXT: the part of the loop ends with it, and FOR has its NEXT.
LEMMA NextBlocked ==
    ASSUME Typed, OutputType', Inside, Blocked, calls # <<>>, calls' = Callers, top.fn = "for",
           code' = Append(code, Cell("NEXT", code[top.pos].n, top.pos + 1))
    PROVE Blocked'
<1>1. PICK p : p = top.pos
  OBVIOUS
<1>2. /\ p \in Open /\ p \in DOMAIN code /\ p \in Nat /\ OpenPart(p) /\ code[p].op = "FOR"
  BY <1>1, TopFacts DEF Begins
<1>3. code[p].n \in Names \cup {NoName}
  <2>1. code[p] \in Cells
    BY <1>2, ElementOfSeq, LenProperties DEF Typed, OutputType
  <2> QED
    BY <2>1 DEF Cells
<1>4. /\ Len(code) \in Nat /\ DOMAIN code = 1 .. Len(code) /\ DOMAIN code' = 1 .. Len(code) + 1
      /\ pc = Len(code) + 1 /\ pc' = pc + 1
      /\ \A a \in DOMAIN code : code'[a] = code[a]
      /\ code'[pc].op = "NEXT" /\ code'[pc].n = code[p].n /\ code'[pc].to = p + 1
      /\ code'[pc].parts = Parts
  <2>1. "NEXT" \in CellOps /\ p + 1 \in Nat
    BY <1>2 DEF CellOps
  <2>2. PICK n \in Names \cup {NoName}, to \in Nat : n = code[p].n /\ to = p + 1
    BY <1>3, <2>1
  <2>3. code' = Append(code, Cell("NEXT", n, to))
    BY <1>1, <2>2
  <2>4. /\ Len(code) \in Nat /\ DOMAIN code = 1 .. Len(code) /\ DOMAIN code' = 1 .. Len(code) + 1
        /\ pc = Len(code) + 1 /\ pc' = pc + 1
        /\ \A a \in DOMAIN code : code'[a] = code[a]
        /\ code'[pc].op = "NEXT" /\ code'[pc].n = n /\ code'[pc].to = to
        /\ code'[pc].parts = Parts
    BY <2>1, <2>3, GrownCode
  <2> QED
    BY <2>2, <2>4
<1>5. (\A k \in DOMAIN calls' : Kept(k)) /\ Open' = Open \ {p}
  BY <1>1, ReturnedOpen
<1>6. Extended
  BY <1>4, <1>5, IsExtended
<1>7. Open \subseteq DOMAIN code
  BY DEF Open, Inside
<1>8. PICK q : q = pc
  OBVIOUS
<1>9. In(q, p)' /\ q \in DOMAIN code' /\ q \notin DOMAIN code
  BY <1>2, <1>4, <1>6, <1>8, InExtended
<1>10. Closed(p)'
  <2>1. code'[p].op = "FOR"
    BY <1>2, <1>4
  <2>2. code'[q].op = "NEXT" /\ code'[q].to = p + 1
    BY <1>4, <1>8
  <2>3. ForClosed(p)'
    BY <2>2, <1>9 DEF ForClosed
  <2> QED
    BY <2>1, <2>3 DEF Closed, SkipClosed, Skips, BackClosed, GoesBack, NextClosed
<1>11. Closed(q)'
  <2>1. code'[q].op = "NEXT" /\ code'[q].n = code[p].n /\ code'[q].to = p + 1
    BY <1>4, <1>8
  <2>2. ASSUME NEW b \in DOMAIN code' PROVE In(b, p)' <=> p < b /\ b < q + 1
    <3>1. CASE b \in DOMAIN code
      BY <3>1, <1>2, <1>4, <1>6, <1>8, InExtended DEF OpenPart
    <3>2. CASE b \notin DOMAIN code
      <4>1. b = q
        BY <3>2, <1>4, <1>8
      <4> QED
        BY <4>1, <1>2, <1>4, <1>8, <1>9
    <3> QED
      BY <3>1, <3>2
  <2>3. PartTo(p, q + 1)'
    BY <2>2 DEF PartTo
  <2>4. p \in DOMAIN code' \ Open' /\ code'[p].op = "FOR" /\ code'[p].n = code[p].n
    BY <1>2, <1>4, <1>5
  <2>5. NextClosed(q)'
    BY <2>1, <2>3, <2>4 DEF NextClosed
  <2> QED
    BY <2>1, <2>5 DEF Closed, SkipClosed, Skips, BackClosed, GoesBack, ForClosed
<1>12. \A a \in DOMAIN code' \ Open' : a \in DOMAIN code \ Open \/ Closed(a)'
  <2>1. \A a \in DOMAIN code' : a \in DOMAIN code \/ a = q
    BY <1>4, <1>8
  <2> QED
    BY <2>1, <1>5, <1>10, <1>11
<1>13. \A k \in DOMAIN calls' : ~Fresh(k)
  <2>1. \A k \in DOMAIN calls' : calls'[k].pos \in DOMAIN code
    BY <1>5 DEF Kept, Inside
  <2> QED
    BY <2>1, <1>4 DEF Fresh
<1> QED
  BY <1>5, <1>6, <1>12, <1>13, BlockedAfter

\* LOOP: the part of WHILE ends behind the jump back to it.
LEMMA LoopBlocked ==
    ASSUME Typed, OutputType', Inside, Blocked, calls # <<>>, calls' = Callers, top.fn = "while",
           code' = Append(Patch(top.pos, pc + 1), Cell("GOTO", NoName, top.pos))
    PROVE Blocked'
<1>1. PICK p : p = top.pos
  OBVIOUS
<1>2. /\ p \in Open /\ p \in DOMAIN code /\ p \in Nat /\ OpenPart(p) /\ code[p].op = "IF"
  BY <1>1, TopFacts DEF Begins
<1>3. /\ Len(code) \in Nat /\ DOMAIN code = 1 .. Len(code) /\ DOMAIN code' = 1 .. Len(code) + 1
      /\ pc = Len(code) + 1 /\ pc' = pc + 1
      /\ \A a \in DOMAIN code :
           /\ code'[a].op = code[a].op /\ code'[a].n = code[a].n
           /\ code'[a].parts = code[a].parts
           /\ code'[a].to = IF a = p THEN pc + 1 ELSE code[a].to
      /\ code'[pc].op = "GOTO" /\ code'[pc].n = NoName /\ code'[pc].to = p
      /\ code'[pc].parts = Parts
  <2>1. "GOTO" \in CellOps /\ pc + 1 \in Nat /\ NoName \in Names \cup {NoName} /\ top.pos \in Nat
    BY PcType, <1>1, <1>2 DEF CellOps, Typed, OutputType
  <2>2. PatchAndCell("GOTO", NoName, top.pos, pc + 1)
    BY <2>1, PatchedCode
  <2> QED
    BY <1>1, <2>2 DEF PatchAndCell
<1>4. (\A k \in DOMAIN calls' : Kept(k)) /\ Open' = Open \ {p}
  BY <1>1, ReturnedOpen
<1>5. Extended
  <2>1. \A a \in DOMAIN code : a \notin Open => code'[a].to = code[a].to
    BY <1>2, <1>3
  <2> QED
    BY <2>1, <1>3, <1>4, IsExtended
<1>6. PICK q : q = pc
  OBVIOUS
<1>7. q \in DOMAIN code' /\ q \notin DOMAIN code /\ In(q, p)' /\ p < q /\ pc' = q + 1 /\ q \in Nat
  BY <1>2, <1>3, <1>5, <1>6, InExtended
<1>8. Closed(p)'
  <2>1. code'[p].op = "IF" /\ code'[p].to = q + 1
    BY <1>2, <1>3, <1>6
  <2>2. ASSUME NEW b \in DOMAIN code' PROVE In(b, p)' <=> p < b /\ b < q + 1
    <3>1. CASE b \in DOMAIN code
      BY <3>1, <1>2, <1>3, <1>5, <1>6, InExtended DEF OpenPart
    <3>2. CASE b \notin DOMAIN code
      <4>1. b = q
        BY <3>2, <1>3, <1>6
      <4> QED
        BY <4>1, <1>2, <1>3, <1>7
    <3> QED
      BY <3>1, <3>2
  <2>3. PartTo(p, code[p].to)'
    BY <2>1, <2>2 DEF PartTo
  <2>4. p < q + 1 /\ q + 1 <= pc'
    BY <1>2, <1>7
  <2>5. SkipClosed(p)'
    <3>1. p < code'[p].to /\ code'[p].to <= pc'
      BY <2>1, <2>4
    <3> QED
      BY <2>3, <3>1, Zenon DEF SkipClosed
  <2> QED
    BY <2>1, <2>5 DEF Closed, BackClosed, GoesBack, NextClosed, ForClosed
<1>9. Closed(q)'
  <2>1. code'[q].op = "GOTO" /\ code'[q].to = p
    BY <1>3, <1>6
  <2>2. p \in DOMAIN code' \ Open' /\ code'[p].op = "IF" /\ code'[p].to = q + 1
    BY <1>2, <1>3, <1>4, <1>6
  <2>3. BackClosed(q)'
    BY <2>1, <2>2 DEF BackClosed
  <2>4. ~Skips(q)'
    BY <2>1, <1>2, <1>7 DEF Skips
  <2>5. SkipClosed(q)'
    BY <2>4 DEF SkipClosed
  <2> QED
    BY <2>1, <2>3, <2>5 DEF Closed, NextClosed, ForClosed
<1>10. \A a \in DOMAIN code' \ Open' : a \in DOMAIN code \ Open \/ Closed(a)'
  <2>1. \A a \in DOMAIN code' : a \in DOMAIN code \/ a = q
    BY <1>3, <1>6
  <2> QED
    BY <2>1, <1>4, <1>8, <1>9
<1>11. \A k \in DOMAIN calls' : ~Fresh(k)
  <2>1. \A k \in DOMAIN calls' : calls'[k].pos \in DOMAIN code
    BY <1>4 DEF Kept, Inside
  <2> QED
    BY <2>1, <1>3 DEF Fresh
<1> QED
  BY <1>4, <1>5, <1>10, <1>11, BlockedAfter

\* Every step before the end keeps the blocks as long as there is no error.
LEMMA NestedStep ==
    ASSUME Typed, OutputType', Inside, Nested, Kind, at # "done", errors' = 0, at' # "done"
    PROVE Blocked'
<1>1. ~Gives
  <2>1. errors \in Nat
    BY DEF Typed, TextType
  <2> QED
    BY <2>1 DEF Gives, Error
<1>2. ~Finishes
  BY DEF Finishes, Failed, Compiled, Finish
<1>3. Blocked
  <2>1. errors = 0
    BY <1>1, <1>2 DEF Kind, Quiet, Emits, Jumps1, Opens, Turns, Ends, EndsLoop
  <2> QED
    BY <2>1 DEF Nested
<1>4. CASE Quiet
  <2>1. code' = code
    BY <1>4 DEF Quiet, output
  <2>2. (\A k \in DOMAIN calls' : Kept(k)) /\ DOMAIN calls' = DOMAIN calls
    <3>1. CASE calls' = calls
      BY <3>1 DEF Kept
    <3>2. CASE calls' # calls
      <4>1. /\ calls # <<>> /\ top.fn \in {"for", "while", "if", "else"}
            /\ calls' = Append(Callers, [top EXCEPT !.phase = "lines"])
        BY <1>4, <3>2 DEF Quiet
      <4>2. calls \in Seq(Frames)
        BY DEF Typed, TextType
      <4>3. /\ [top EXCEPT !.phase = "lines"] \in Frames
            /\ [top EXCEPT !.phase = "lines"].pos = top.pos
            /\ [top EXCEPT !.phase = "lines"].fn = top.fn
        BY <4>1, <4>2, CallersHere DEF Frames
      <4>4. /\ DOMAIN calls' = DOMAIN calls
            /\ \A k \in DOMAIN calls :
                 calls'[k] = IF k = Len(calls) THEN [top EXCEPT !.phase = "lines"] ELSE calls[k]
        BY <4>1, <4>2, <4>3, Turned
      <4> QED
        BY <4>3, <4>4 DEF Kept, top
    <3> QED
      BY <3>1, <3>2
  <2> QED
    BY <1>3, <2>1, <2>2, QuietBlocked
<1>5. CASE Emits
  <2>1. calls' = calls
    BY <1>5 DEF Emits
  <2>2. CASE code' = code
    <3>1. (\A k \in DOMAIN calls' : Kept(k)) /\ DOMAIN calls' = DOMAIN calls
      BY <2>1 DEF Kept
    <3> QED
      BY <1>3, <2>2, <3>1, QuietBlocked
  <2>3. CASE code' # code
    <3>1. PICK op \in {"PRINT", "RETURN", "END", "LET", "ELEM", "DIM", "TEXT", "ON"},
               n \in Names \cup {NoName} : code' = Append(code, Cell(op, n, 0))
      BY <1>5, <2>3 DEF Emits
    <3>2. op \in CellOps \ {"IF", "FOR", "NEXT"} /\ op # "GOTO" /\ 0 \in Nat
      BY DEF CellOps
    <3> QED
      BY <1>3, <2>1, <3>1, <3>2, PlainBlocked
  <2> QED
    BY <2>2, <2>3
<1>6. CASE Jumps1
  <2>1. PICK op \in {"GOTO", "GOSUB"}, n \in Names, to \in Nat :
          code' = Append(code, Cell(op, n, to))
    BY <1>6 DEF Jumps1
  <2>2. calls' = calls
    BY <1>6 DEF Jumps1
  <2>3. op \in CellOps \ {"IF", "FOR", "NEXT"}
    BY DEF CellOps
  <2>4. n # NoName /\ n \in Names \cup {NoName}
    BY NoNameAssumption
  <2> QED
    BY <1>3, <2>1, <2>2, <2>3, <2>4, PlainBlocked
<1>7. CASE Opens
  BY <1>3, <1>7, OpensBlocked
<1>8. CASE Turns
  BY <1>3, <1>8, TurnsBlocked
<1>9. CASE Ends
  BY <1>3, <1>9, EndsBlocked
<1>10. CASE EndsLoop
  BY <1>3, <1>10, NextBlocked, LoopBlocked DEF EndsLoop
<1> QED
  BY <1>1, <1>2, <1>4, <1>5, <1>6, <1>7, <1>8, <1>9, <1>10 DEF Kind

-----------------------------------------------------------------------------
\* Jumps to labels: each has its forward declaration, and nothing else has.
JumpOps == {"GOTO", "GOSUB"}
JumpsDeclared == \A a \in DOMAIN code : code[a].n \in Names /\ code[a].op \in JumpOps
                                          => \E k \in DOMAIN fwd : fwd[k].pos = a
DeclaredJumps == \A k \in DOMAIN fwd : /\ code[fwd[k].pos].n = fwd[k].n
                                       /\ code[fwd[k].pos].op \in JumpOps
Declared == at # "done" => JumpsDeclared /\ DeclaredJumps

\* A cell that is no jump to a label needs no forward declaration.
LEMMA DeclaredAfter ==
    ASSUME Typed, Inside, JumpsDeclared, DeclaredJumps, fwd' = fwd,
           DOMAIN code \subseteq DOMAIN code',
           \A a \in DOMAIN code : code'[a].op = code[a].op /\ code'[a].n = code[a].n,
           \A a \in DOMAIN code' : a \notin DOMAIN code
                                     => code'[a].op \notin JumpOps \/ code'[a].n = NoName
    PROVE JumpsDeclared' /\ DeclaredJumps'
<1>1. JumpsDeclared'
  <2>1. ASSUME NEW a \in DOMAIN code', code'[a].n \in Names, code'[a].op \in JumpOps
        PROVE \E k \in DOMAIN fwd' : fwd'[k].pos = a
    <3>1. a \in DOMAIN code
      BY <2>1, NoNameAssumption
    <3> QED
      BY <2>1, <3>1 DEF JumpsDeclared
  <2> QED
    BY <2>1 DEF JumpsDeclared, JumpOps
<1>2. DeclaredJumps'
  <2>1. ASSUME NEW k \in DOMAIN fwd
        PROVE code'[fwd[k].pos].n = fwd[k].n /\ code'[fwd[k].pos].op \in JumpOps
    <3>1. fwd[k].pos \in DOMAIN code
      BY DEF Inside
    <3> QED
      BY <3>1 DEF DeclaredJumps
  <2> QED
    BY <2>1 DEF DeclaredJumps, JumpOps
<1> QED
  BY <1>1, <1>2

\* Every step before the end.
LEMMA DeclaredStep ==
    ASSUME Typed, Inside, Declared, Kind, at # "done", at' # "done"
    PROVE JumpsDeclared' /\ DeclaredJumps'
<1>1. JumpsDeclared /\ DeclaredJumps
  BY DEF Declared
<1>2. /\ calls \in Seq(Frames) /\ code \in Seq(Cells) /\ fwd \in Seq(Forwards)
      /\ DOMAIN code = 1 .. Len(code) /\ Len(code) \in Nat /\ pc = Len(code) + 1 /\ pc \in Nat
  BY PcType DEF Typed, TextType, OutputType
<1>3. ~Finishes
  BY DEF Finishes, Failed, Compiled, Finish
<1>4. CASE Quiet \/ Gives
  <2>1. UNCHANGED <<code, fwd>>
    BY <1>4 DEF Quiet, Gives, Error, output
  <2> QED
    BY <1>1, <2>1, DeclaredAfter
<1>5. CASE Emits
  <2>1. fwd' = fwd
    BY <1>5 DEF Emits
  <2>2. CASE code' = code
    BY <1>1, <2>1, <2>2, DeclaredAfter
  <2>3. CASE code' # code
    <3>1. PICK op \in {"PRINT", "RETURN", "END", "LET", "ELEM", "DIM", "TEXT", "ON"},
               n \in Names \cup {NoName} : code' = Append(code, Cell(op, n, 0))
      BY <1>5, <2>3 DEF Emits
    <3>2. op \in CellOps /\ op \notin JumpOps
      BY DEF CellOps, JumpOps
    <3>3. /\ DOMAIN code' = 1 .. Len(code) + 1 /\ \A a \in DOMAIN code : code'[a] = code[a]
          /\ code'[pc].op = op
      BY <3>1, <3>2, GrownCode
    <3>4. \A a \in DOMAIN code' : a \notin DOMAIN code => code'[a].op \notin JumpOps
      BY <1>2, <3>2, <3>3
    <3>5. DOMAIN code \subseteq DOMAIN code'
      BY <1>2, <3>3
    <3> QED
      BY <1>1, <2>1, <3>3, <3>4, <3>5, DeclaredAfter
  <2> QED
    BY <2>2, <2>3
<1>6. CASE Jumps1
  <2>1. PICK op \in {"GOTO", "GOSUB"}, n \in Names, to \in Nat :
          /\ code' = Append(code, Cell(op, n, to))
          /\ fwd' = Append(fwd, [n |-> n, pos |-> pc])
    BY <1>6 DEF Jumps1
  <2>2. op \in CellOps /\ op \in JumpOps
    BY DEF CellOps, JumpOps
  <2>3. /\ DOMAIN code' = 1 .. Len(code) + 1 /\ \A a \in DOMAIN code : code'[a] = code[a]
        /\ code'[pc].op = op /\ code'[pc].n = n
    BY <2>1, <2>2, GrownCode
  <2>4. [n |-> n, pos |-> pc] \in Forwards
    BY <1>2 DEF Forwards
  <2>5. /\ DOMAIN fwd = 1 .. Len(fwd) /\ DOMAIN fwd' = 1 .. Len(fwd) + 1 /\ Len(fwd) \in Nat
        /\ \A k \in DOMAIN fwd : fwd'[k] = fwd[k]
        /\ fwd'[Len(fwd) + 1] = [n |-> n, pos |-> pc]
    BY <1>2, <2>1, <2>4, Grown
  <2>6. JumpsDeclared'
    <3>1. ASSUME NEW a \in DOMAIN code', code'[a].n \in Names, code'[a].op \in JumpOps
          PROVE \E k \in DOMAIN fwd' : fwd'[k].pos = a
      <4>1. CASE a \in DOMAIN code
        <5>1. PICK k \in DOMAIN fwd : fwd[k].pos = a
          BY <1>1, <2>3, <3>1, <4>1 DEF JumpsDeclared
        <5>2. k \in DOMAIN fwd' /\ fwd'[k] = fwd[k]
          BY <2>5
        <5> QED
          BY <5>1, <5>2
      <4>2. CASE a \notin DOMAIN code
        <5>1. a = pc
          BY <1>2, <2>3, <4>2
        <5>2. Len(fwd) + 1 \in DOMAIN fwd'
          BY <2>5
        <5> QED
          BY <2>5, <5>1, <5>2
      <4> QED
        BY <4>1, <4>2
    <3> QED
      BY <3>1 DEF JumpsDeclared, JumpOps
  <2>7. DeclaredJumps'
    <3>1. ASSUME NEW k \in DOMAIN fwd'
          PROVE code'[fwd'[k].pos].n = fwd'[k].n /\ code'[fwd'[k].pos].op \in JumpOps
      <4>1. CASE k \in DOMAIN fwd
        <5>1. fwd[k].pos \in DOMAIN code /\ fwd'[k] = fwd[k]
          BY <2>5, <4>1 DEF Inside
        <5> QED
          BY <1>1, <2>3, <4>1, <5>1 DEF DeclaredJumps
      <4>2. CASE k \notin DOMAIN fwd
        <5>1. fwd'[k].n = n /\ fwd'[k].pos = pc
          BY <2>5, <4>2
        <5> QED
          BY <2>2, <2>3, <5>1
      <4> QED
        BY <4>1, <4>2
    <3> QED
      BY <3>1 DEF DeclaredJumps, JumpOps
  <2> QED
    BY <2>6, <2>7
<1>7. CASE Opens
  <2>1. PICK frame \in Frames, op \in CellOps, n \in Names \cup {NoName} :
          /\ Begin(frame, op, n) /\ code' = Append(code, Cell(op, n, 0))
    BY <1>7 DEF Opens
  <2>2. fwd' = fwd /\ (op \notin JumpOps \/ n = NoName)
    BY <1>7, <2>1 DEF Opens, Begin, Begins, JumpOps
  <2>3. /\ DOMAIN code' = 1 .. Len(code) + 1 /\ \A a \in DOMAIN code : code'[a] = code[a]
        /\ code'[pc].op = op /\ code'[pc].n = n
    BY <2>1, GrownCode
  <2>4. \A a \in DOMAIN code' : a \notin DOMAIN code
                                  => code'[a].op \notin JumpOps \/ code'[a].n = NoName
    BY <1>2, <2>2, <2>3
  <2>5. DOMAIN code \subseteq DOMAIN code'
    BY <1>2, <2>3
  <2> QED
    BY <1>1, <2>2, <2>3, <2>4, <2>5, DeclaredAfter
<1>8. CASE Turns \/ (EndsLoop /\ top.fn = "while")
  <2>1. /\ calls # <<>> /\ fwd' = fwd
        /\ \/ code' = Append(Patch(top.pos, pc + 1), Cell("GOTO", NoName, 0))
           \/ code' = Append(Patch(top.pos, pc + 1), Cell("GOTO", NoName, top.pos))
    BY <1>8 DEF Turns, EndsLoop, Hole
  <2>2. /\ "GOTO" \in CellOps /\ pc + 1 \in Nat /\ NoName \in Names \cup {NoName} /\ 0 \in Nat
        /\ top.pos \in Nat
    BY <1>2, <2>1, CallersHere DEF CellOps
  <2>3. PatchAndCell("GOTO", NoName, 0, pc + 1) \/ PatchAndCell("GOTO", NoName, top.pos, pc + 1)
    BY <2>1, <2>2, PatchedCode
  <2>4. /\ DOMAIN code' = 1 .. Len(code) + 1
        /\ \A a \in DOMAIN code : code'[a].op = code[a].op /\ code'[a].n = code[a].n
        /\ code'[pc].n = NoName
    BY <2>3 DEF PatchAndCell
  <2>5. \A a \in DOMAIN code' : a \notin DOMAIN code => code'[a].n = NoName
    BY <1>2, <2>4
  <2>6. DOMAIN code \subseteq DOMAIN code'
    BY <1>2, <2>4
  <2> QED
    BY <1>1, <2>1, <2>4, <2>5, <2>6, DeclaredAfter
<1>9. CASE Ends
  <2>1. calls # <<>> /\ fwd' = fwd /\ code' = Patch(top.pos, pc)
    BY <1>9 DEF Ends
  <2>2. top.pos \in DOMAIN code
    BY <1>2, <2>1, CallersHere DEF Inside, top
  <2>3. /\ DOMAIN code' = DOMAIN code
        /\ \A a \in DOMAIN code : code'[a].op = code[a].op /\ code'[a].n = code[a].n
    BY <1>2, <2>1, <2>2, Patched
  <2> QED
    BY <1>1, <2>1, <2>3, DeclaredAfter
<1>10. CASE EndsLoop /\ top.fn = "for"
  <2>1. /\ calls # <<>> /\ fwd' = fwd
        /\ code' = Append(code, Cell("NEXT", code[top.pos].n, top.pos + 1))
    BY <1>10 DEF EndsLoop
  <2>2. top.pos \in DOMAIN code /\ top.pos + 1 \in Nat
    BY <1>2, <2>1, CallersHere DEF Inside, top
  <2>3. code[top.pos].n \in Names \cup {NoName}
    <3>1. code[top.pos] \in Cells
      BY <1>2, <2>2, ElementOfSeq
    <3> QED
      BY <3>1 DEF Cells
  <2>4. "NEXT" \in CellOps /\ "NEXT" \notin JumpOps
    BY DEF CellOps, JumpOps
  <2>5. /\ DOMAIN code' = 1 .. Len(code) + 1 /\ \A a \in DOMAIN code : code'[a] = code[a]
        /\ code'[pc].op = "NEXT"
    BY <2>1, <2>2, <2>3, <2>4, GrownCode
  <2>6. \A a \in DOMAIN code' : a \notin DOMAIN code => code'[a].op \notin JumpOps
    BY <1>2, <2>4, <2>5
  <2>7. DOMAIN code \subseteq DOMAIN code'
    BY <1>2, <2>5
  <2> QED
    BY <1>1, <2>1, <2>5, <2>6, <2>7, DeclaredAfter
<1> QED
  BY <1>3, <1>4, <1>5, <1>6, <1>7, <1>8, <1>9, <1>10 DEF Kind, EndsLoop

-----------------------------------------------------------------------------
\* The finished code.
LabelsSet == \A n \in Names : where[n] # 0 => \/ table[n].type = "CONST"
                                              \/ table[n] = [type |-> "LABEL", value |-> where[n]]

\* Cells that are no jumps to labels lead where they led before.
LEMMA TargetKept ==
    ASSUME DeclaredJumps, Typed, NEW a \in DOMAIN code, code[a].op \notin JumpOps \/ code[a].n = NoName
    PROVE Target(a) = code[a].to
<1>1. ASSUME NEW k \in DOMAIN fwd, fwd[k].pos = a PROVE FALSE
  <2>1. fwd[k] \in Forwards
    BY ElementOfSeq, LenProperties DEF Typed, OutputType
  <2>2. fwd[k].n \in Names
    BY <2>1 DEF Forwards
  <2> QED
    BY <1>1, <2>2, NoNameAssumption DEF DeclaredJumps
<1>2. {k \in DOMAIN fwd : fwd[k].pos = a} = {}
  BY <1>1
<1> QED
  BY <1>2 DEF Target

\* A jump to a name leads where the name is set as a label, if it is.
LEMMA TargetLabel ==
    ASSUME DeclaredJumps, JumpsDeclared, LabelsSet, Resolved, Typed,
           NEW a \in DOMAIN code, code[a].n \in Names, code[a].op \in JumpOps,
           where[code[a].n] # 0
    PROVE Target(a) = where[code[a].n]
<1> DEFINE ks == {k \in DOMAIN fwd : fwd[k].pos = a}
           k0 == CHOOSE k \in ks : TRUE
<1>1. ks # {}
  BY DEF JumpsDeclared
<1>2. k0 \in DOMAIN fwd /\ fwd[k0].pos = a
  BY <1>1
<1>3. Target(a) = Address(fwd[k0].n)
  BY <1>1 DEF Target
<1> HIDE DEF k0
<1>4. fwd[k0].n = code[a].n
  BY <1>2 DEF DeclaredJumps
<1>5. Address(code[a].n) > 0
  BY <1>2, <1>4 DEF Resolved
<1>6. table[code[a].n].type = "LABEL"
  BY <1>5 DEF Address
<1>7. table[code[a].n] = [type |-> "LABEL", value |-> where[code[a].n]]
  BY <1>6 DEF LabelsSet
<1> QED
  BY <1>3, <1>4, <1>7 DEF Address

\* The jumps of what the compiler accepts go where the labels are.
LEMMA FinishedLabels ==
    ASSUME Typed, Declared, LabelsSet, Compiled
    PROVE JumpsReachLabels'
<1>1. /\ errors = 0 /\ Resolved /\ DataFits /\ at # "done" /\ UNCHANGED <<data, where>>
  BY DEF Compiled, AtEnd, Finish
<1>2. JumpsDeclared /\ DeclaredJumps
  BY <1>1 DEF Declared
<1>3. /\ Len(code') = Len(code) + 2 /\ Len(code) \in Nat
      /\ DOMAIN code' = 1 .. Len(code) + 2 /\ DOMAIN code = 1 .. Len(code)
      /\ \A a \in DOMAIN code :
           code'[a].op = code[a].op /\ code'[a].n = code[a].n /\ code'[a].to = Target(a)
      /\ code'[Len(code) + 1] = Cell("END", NoName, 0)
      /\ code'[Len(code) + 2] = Cell("TAG", NoName, 0)
  BY CompiledCode
<1>4. ASSUME NEW a \in DOMAIN code', code'[a].n \in Names, code'[a].op \in JumpOps,
             where[code'[a].n] # 0
      PROVE code'[a].to = where[code'[a].n]
  <2>1. a \in DOMAIN code
    <3>1. Cell("END", NoName, 0).n = NoName /\ Cell("TAG", NoName, 0).n = NoName
      BY DEF Cell
    <3>2. a = Len(code) + 1 \/ a = Len(code) + 2 \/ a \in DOMAIN code
      BY <1>3
    <3> QED
      BY <1>3, <1>4, <3>1, <3>2, NoNameAssumption
  <2> QED
    BY <1>1, <1>2, <1>3, <1>4, <2>1, TargetLabel
<1>5. JumpsReachLabels'
  BY <1>1, <1>4 DEF JumpsReachLabels, Jumps, JumpOps
<1> QED
  BY <1>5

\* In the finished code the parts are those of the code before.
LEMMA FinishedParts ==
    ASSUME Typed, Compiled, calls = <<>>
    PROVE \A b \in DOMAIN code' : \A a : In(b, a)' <=> b \in DOMAIN code /\ In(b, a)
<1>1. /\ DOMAIN code' = 1 .. Len(code) + 2 /\ DOMAIN code = 1 .. Len(code) /\ Len(code) \in Nat
      /\ \A a \in DOMAIN code : code'[a].parts = code[a].parts
      /\ code'[Len(code) + 1] = Cell("END", NoName, 0)
      /\ code'[Len(code) + 2] = Cell("TAG", NoName, 0)
  BY CompiledCode
<1>2. Cell("END", NoName, 0).parts = <<>> /\ Cell("TAG", NoName, 0).parts = <<>>
  BY DEF Cell, Parts
<1>3. ASSUME NEW b \in DOMAIN code', NEW a PROVE In(b, a)' <=> b \in DOMAIN code /\ In(b, a)
  <2>1. CASE b \in DOMAIN code
    BY <2>1, <1>1 DEF In
  <2>2. CASE b \notin DOMAIN code
    <3>1. code'[b].parts = <<>>
      BY <1>1, <1>2, <2>2
    <3>2. ~In(b, a)'
      BY <3>1 DEF In
    <3> QED
      BY <2>2, <3>2
  <2> QED
    BY <2>1, <2>2
<1> QED
  BY <1>3

\* The blocks of the finished code.
LEMMA FinishedBlocks ==
    ASSUME Typed, Declared, Nested, Compiled, calls = <<>>
    PROVE JumpsSpanParts'
<1>1. errors = 0 /\ at # "done"
  BY DEF Compiled, AtEnd
<1>2. DeclaredJumps /\ ClosedParts /\ Open = {} /\ Behind
  BY <1>1 DEF Declared, Nested, Blocked, Open
<1>3. /\ DOMAIN code' = 1 .. Len(code) + 2 /\ DOMAIN code = 1 .. Len(code) /\ Len(code) \in Nat
      /\ \A a \in DOMAIN code :
           code'[a].op = code[a].op /\ code'[a].n = code[a].n /\ code'[a].to = Target(a)
      /\ code'[Len(code) + 1] = Cell("END", NoName, 0)
      /\ code'[Len(code) + 2] = Cell("TAG", NoName, 0)
  BY CompiledCode
<1>4. /\ Cell("END", NoName, 0).op = "END" /\ Cell("TAG", NoName, 0).op = "TAG"
  BY DEF Cell
<1>5. \A a \in DOMAIN code : /\ Closed(a) /\ a \in Nat /\ code[a].to \in Nat
                             /\ code[a].op \notin JumpOps \/ code[a].n = NoName
                                  => code'[a].to = code[a].to
  <2>1. ASSUME NEW a \in DOMAIN code PROVE code[a].to \in Nat
    <3>1. code[a] \in Cells
      BY <1>3, ElementOfSeq DEF Typed, OutputType
    <3> QED
      BY <3>1 DEF Cells
  <2> QED
    BY <2>1, <1>2, <1>3, TargetKept DEF ClosedParts
<1>6. pc = Len(code) + 1
  BY DEF pc
<1>7. ASSUME NEW a \in DOMAIN code, NEW to \in Nat, to <= pc, PartTo(a, to)
      PROVE Part(a)' = a + 1 .. to - 1
  <2>1. \A b \in DOMAIN code' : In(b, a)' <=> b \in DOMAIN code /\ a < b /\ b < to
    BY <1>7, FinishedParts DEF PartTo
  <2>2. Part(a)' = {b \in DOMAIN code' : In(b, a)'}
    BY DEF Part, In
  <2>3. \A b : b \in Part(a)' <=> b \in DOMAIN code /\ a < b /\ b < to
    BY <1>3, <2>1, <2>2
  <2>4. \A b : b \in a + 1 .. to - 1 <=> b \in DOMAIN code /\ a < b /\ b < to
    BY <1>3, <1>6, <1>7
  <2> QED
    BY <2>3, <2>4
<1>8. ASSUME NEW a \in DOMAIN code'
      PROVE /\ (code'[a].op = "IF" \/ (code'[a].op = "GOTO" /\ code'[a].n = NoName /\ code'[a].to > a))
                 => code'[a].to \in DOMAIN code' /\ Part(a)' = a + 1 .. code'[a].to - 1
            /\ (code'[a].op = "GOTO" /\ code'[a].n = NoName /\ code'[a].to <= a)
                 => /\ code'[a].to \in DOMAIN code'
                    /\ code'[code'[a].to].op = "IF" /\ code'[code'[a].to].to = a + 1
            /\ code'[a].op = "NEXT"
                 => \E f \in DOMAIN code' : /\ code'[f].op = "FOR" /\ code'[f].n = code'[a].n
                                            /\ code'[a].to = f + 1 /\ Part(f)' = f + 1 .. a
            /\ code'[a].op = "FOR" => \E b \in Part(a)' : code'[b].op = "NEXT" /\ code'[b].to = a + 1
  <2>1. CASE a \notin DOMAIN code
    <3>1. code'[a].op = "END" \/ code'[a].op = "TAG"
      BY <1>3, <1>4, <2>1
    <3> QED
      BY <3>1
  <2>2. CASE a \in DOMAIN code
    <3>1. Closed(a) /\ code'[a].op = code[a].op /\ code'[a].n = code[a].n
      BY <1>3, <1>5, <2>2
    <3>2. ASSUME code'[a].op = "IF" \/ (code'[a].op = "GOTO" /\ code'[a].n = NoName /\ code'[a].to > a)
          PROVE code'[a].to \in DOMAIN code' /\ Part(a)' = a + 1 .. code'[a].to - 1
      <4>1. code'[a].to = code[a].to /\ Skips(a)
        BY <2>2, <3>1, <3>2, <1>5 DEF Skips, JumpOps
      <4>2. a < code[a].to /\ code[a].to <= pc /\ PartTo(a, code[a].to)
        BY <3>1, <4>1 DEF Closed, SkipClosed
      <4>3. code[a].to \in Nat /\ a \in Nat /\ a >= 1
        BY <1>3, <1>5, <2>2
      <4>4. Part(a)' = a + 1 .. code[a].to - 1
        <5>1. PICK to \in Nat : to = code[a].to
          BY <4>3
        <5>2. Part(a)' = a + 1 .. to - 1
          BY <2>2, <4>2, <5>1, <1>7
        <5> QED
          BY <5>1, <5>2
      <4> QED
        BY <1>3, <1>6, <4>1, <4>2, <4>3, <4>4
    <3>3. ASSUME code'[a].op = "GOTO" /\ code'[a].n = NoName /\ code'[a].to <= a
          PROVE /\ code'[a].to \in DOMAIN code'
                /\ code'[code'[a].to].op = "IF" /\ code'[code'[a].to].to = a + 1
      <4>1. code'[a].to = code[a].to /\ GoesBack(a)
        BY <2>2, <3>1, <3>3, <1>5 DEF GoesBack
      <4>2. PICK w \in DOMAIN code : code[a].to = w /\ code[w].op = "IF" /\ code[w].to = a + 1
        BY <3>1, <4>1 DEF Closed, BackClosed
      <4>3. code'[w].op = "IF" /\ code'[w].to = a + 1 /\ w \in DOMAIN code'
        BY <4>2, <1>3, <1>5 DEF JumpOps
      <4> QED
        BY <4>1, <4>2, <4>3
    <3>4. ASSUME code'[a].op = "NEXT"
          PROVE \E f \in DOMAIN code' : /\ code'[f].op = "FOR" /\ code'[f].n = code'[a].n
                                        /\ code'[a].to = f + 1 /\ Part(f)' = f + 1 .. a
      <4>1. code'[a].to = code[a].to
        BY <2>2, <3>1, <3>4, <1>5 DEF JumpOps
      <4>2. PICK f \in DOMAIN code : /\ code[f].op = "FOR" /\ code[f].n = code[a].n
                                      /\ code[a].to = f + 1 /\ PartTo(f, a + 1)
        BY <3>1, <3>4 DEF Closed, NextClosed
      <4>3. code'[f].op = "FOR" /\ code'[f].n = code[a].n /\ f \in DOMAIN code'
        BY <4>2, <1>3
      <4>4. a \in Nat /\ a + 1 \in Nat /\ a + 1 <= pc /\ a + 1 - 1 = a
        BY <2>2, <1>3, <1>6
      <4>5. Part(f)' = f + 1 .. a + 1 - 1
        BY <4>2, <4>4, <1>7
      <4> QED
        BY <3>1, <4>1, <4>2, <4>3, <4>4, <4>5
    <3>5. ASSUME code'[a].op = "FOR"
          PROVE \E b \in Part(a)' : code'[b].op = "NEXT" /\ code'[b].to = a + 1
      <4>1. PICK b \in DOMAIN code : In(b, a) /\ code[b].op = "NEXT" /\ code[b].to = a + 1
        BY <3>1, <3>5 DEF Closed, ForClosed
      <4>2. code'[b].op = "NEXT" /\ code'[b].to = a + 1 /\ b \in DOMAIN code'
        BY <4>1, <1>3, <1>5 DEF JumpOps
      <4>3. In(b, a)'
        BY <4>1, <4>2, FinishedParts
      <4>4. b \in Part(a)'
        BY <4>2, <4>3 DEF Part, In
      <4> QED
        BY <4>2, <4>4
    <3> QED
      BY <3>2, <3>3, <3>4, <3>5
  <2> QED
    BY <2>1, <2>2
<1> QED
  BY <1>8 DEF JumpsSpanParts

-----------------------------------------------------------------------------
\* Lines, places and errors.

\* A text with the last error it may have is read no further.
ErrorsCounted == /\ errors <= MaxErrors \/ (eof /\ errors = 1)
                 /\ at \notin {"line", "done"} \/ calls # <<>> => errors < MaxErrors

Moved == TextType' /\ Position' /\ ErrorsCounted'

\* A step within the line.
LEMMA Onwards ==
    ASSUME Typed, Position, ErrorsCounted, calls' \in Seq(Frames),
           at \notin {"line", "done"}, at' \in Places \ {"line", "start", "done", "goto"},
           rest' \in Seq(Words), firstData' \in BOOLEAN, UNCHANGED <<eof, lines, errors, result>>
    PROVE Moved
<1>1. TextType'
  BY DEF Typed, TextType
<1>2. Position'
  BY DEF Position
<1>3. ErrorsCounted'
  BY DEF ErrorsCounted
<1> QED
  BY <1>1, <1>2, <1>3 DEF Moved

\* A step that leaves the tokens alone, uses one up or skips the rest.
LEMMA TokensUsed ==
    ASSUME Typed, Position, ErrorsCounted, calls' \in Seq(Frames),
           at \notin {"line", "done"}, at' \in Places \ {"line", "start", "done", "goto"},
           \/ rest' \in {rest, <<>>}
           \/ rest' = Tail(rest) /\ tok.t # "end of line",
           firstData' = firstData \/ firstData' = FALSE, UNCHANGED <<eof, lines, errors, result>>
    PROVE Moved
<1>1. rest' \in Seq(Words)
  <2>1. rest \in Seq(Words)
    BY DEF Typed, TextType
  <2>2. <<>> \in Seq(Words)
    BY EmptySeq
  <2> QED
    BY <2>1, <2>2, TokenHere
<1>2. firstData' \in BOOLEAN
  BY DEF Typed, TextType
<1> QED
  BY <1>1, <1>2, Onwards

\* An error gives up the line.
LEMMA ErrorMoves ==
    ASSUME Typed, Position, ErrorsCounted, Error, calls' \in Seq(Frames), at # "done",
           errors < MaxErrors \/ (eof /\ errors = 0)
    PROVE Moved
<1>1. /\ errors' = errors + 1 /\ at' = "line" /\ rest' = <<>> /\ calls' = <<>>
      /\ UNCHANGED <<lines, eof, firstData, result>>
  BY DEF Error
<1>2. errors \in Nat /\ MaxErrors \in Nat
  BY BoundsAssumption DEF Typed, TextType
<1>3. TextType'
  <2>1. rest' \in Seq(Words)
    BY <1>1, EmptySeq
  <2> QED
    BY <1>1, <1>2, <2>1 DEF Typed, TextType, Places
<1>4. Position'
  <2>1. result = "none"
    BY DEF Position, Typed, TextType
  <2> QED
    BY <1>1, <2>1 DEF Position
<1>5. ErrorsCounted'
  BY <1>1, <1>2 DEF ErrorsCounted
<1> QED
  BY <1>3, <1>4, <1>5 DEF Moved

\* An error where a line is compiled.
LEMMA LineError ==
    ASSUME Typed, Position, ErrorsCounted, Error, calls' \in Seq(Frames),
           at \notin {"line", "done"}
    PROVE Moved
<1>1. errors < MaxErrors
  BY DEF ErrorsCounted
<1> QED
  BY <1>1, ErrorMoves

\* The steps of the lines.
LEMMA ReadingMoves ==
    ASSUME Typed, Position, ErrorsCounted, Reading, calls' \in Seq(Frames)
    PROVE Moved
<1> USE BoundsAssumption
<1>1. CASE GetLine
  <2>1. PICK line \in Lines : rest' = Uncolon(line)
    BY <1>1 DEF GetLine
  <2>2. rest' \in Seq(Words)
    BY <2>1, Uncoloned
  <2>3. /\ at = "line" /\ ~eof /\ lines < MaxLines /\ errors < MaxErrors
        /\ lines' = lines + 1 /\ at' = "start"
        /\ UNCHANGED <<eof, calls, firstData, errors, result>>
    BY <1>1 DEF GetLine
  <2>4. lines' \in 0 .. MaxLines
    BY <2>3 DEF Typed, TextType
  <2>5. TextType'
    BY <2>2, <2>3, <2>4 DEF Typed, TextType, Places
  <2>6. Position'
    BY <2>3 DEF Position, top
  <2>7. ErrorsCounted'
    BY <2>3 DEF ErrorsCounted
  <2> QED
    BY <2>5, <2>6, <2>7 DEF Moved
<1>2. CASE LineTooLong
  BY <1>2, ErrorMoves DEF LineTooLong
<1>3. CASE EndOfFile
  <2>1. /\ at = "line" /\ eof' = TRUE
        /\ at' = IF calls = <<>> THEN "line" ELSE "tail"
        /\ UNCHANGED <<rest, lines, calls, firstData, errors, result>>
    BY <1>3 DEF EndOfFile
  <2>2. TextType'
    BY <2>1 DEF Typed, TextType, Places
  <2>3. Position'
    BY <2>1 DEF Position, top
  <2>4. ErrorsCounted'
    BY <2>1 DEF ErrorsCounted
  <2> QED
    BY <2>2, <2>3, <2>4 DEF Moved
<1>4. CASE DefineLabel
  <2>1. /\ at = "start" /\ at' = "stmts" /\ rest' = Tail(rest) /\ tok.t = "LABEL"
        /\ UNCHANGED <<eof, lines, firstData, errors, result>>
    BY <1>4 DEF DefineLabel, InLine, LabelHere, AtToken
  <2> QED
    BY <2>1, TokensUsed DEF Places
<1>5. CASE LineEndsBlock \/ NoLabel \/ StatementsDone \/ NextStmt
  <2>1. /\ at \in {"start", "stmts", "check"} /\ at' \in {"tail", "stmts"} /\ rest' = rest
        /\ UNCHANGED <<eof, lines, firstData, errors, result>>
    BY <1>5 DEF LineEndsBlock, NoLabel, StatementsDone, NextStmt, InLine, StmtsEnd, text
  <2> QED
    BY <2>1, TokensUsed DEF Places
<1>6. CASE LineDone
  <2>1. /\ at = "stmts" /\ at' = "line" /\ Phase = "lines"
        /\ UNCHANGED <<rest, eof, lines, calls, firstData, errors, result>>
    BY <1>6 DEF LineDone, StmtsEnd, text
  <2>2. calls # <<>> => top.phase = "lines"
    BY <2>1 DEF Phase
  <2>3. TextType'
    BY <2>1 DEF Typed, TextType, Places
  <2>4. Position'
    BY <2>1, <2>2 DEF Position, top
  <2>5. ErrorsCounted'
    BY <2>1 DEF ErrorsCounted
  <2> QED
    BY <2>3, <2>4, <2>5 DEF Moved
<1>7. CASE FirstLineDone
  <2>1. at = "stmts" /\ Phase = "first" /\ UNCHANGED <<rest, lines, eof, firstData, errors, result>>
    BY <1>7 DEF FirstLineDone, StmtsEnd, text
  <2>2. CASE rest # <<>>
    <3>1. at' = "tail"
      BY <1>7, <2>2 DEF FirstLineDone
    <3> QED
      BY <2>1, <3>1, TokensUsed DEF Places
  <2>3. CASE rest = <<>>
    <3>1. at' = "line" /\ calls' = Append(Callers, [top EXCEPT !.phase = "lines"]) /\ calls # <<>>
      BY <1>7, <2>1, <2>3 DEF FirstLineDone, Phase
    <3>2. top \in Frames /\ top.phase = "first"
      BY <2>1, <3>1, CallersHere DEF Phase, Typed, TextType
    <3>3. [top EXCEPT !.phase = "lines"] \in Frames /\ [top EXCEPT !.phase = "lines"].phase = "lines"
      BY <3>2 DEF Frames
    <3>4. top'.phase = "lines"
      <4>1. Callers \in Seq(Frames)
        BY <3>1, CallersHere DEF Typed, TextType
      <4>2. PICK frame \in Frames : frame = [top EXCEPT !.phase = "lines"] /\ frame.phase = "lines"
        BY <3>3
      <4>3. calls' = Append(Callers, frame)
        BY <3>1, <4>2
      <4>4. Len(calls') = Len(Callers) + 1 /\ calls'[Len(Callers) + 1] = frame
        BY <4>1, <4>3, Grown
      <4>5. top' = calls'[Len(calls')]
        BY DEF top
      <4> QED
        BY <4>2, <4>4, <4>5
    <3>5. TextType'
      BY <2>1, <3>1 DEF Typed, TextType, Places
    <3>6. Position'
      BY <2>1, <2>3, <3>1, <3>4 DEF Position
    <3>7. ErrorsCounted'
      BY <2>1 DEF ErrorsCounted
    <3> QED
      BY <3>5, <3>6, <3>7 DEF Moved
  <2> QED
    BY <2>2, <2>3
<1>8. CASE CodeSizeExceeded \/ DataExpected
  <2>1. Error /\ at \notin {"line", "done"}
    BY <1>8 DEF CodeSizeExceeded, DataExpected
  <2> QED
    BY <2>1, LineError
<1> QED
  BY <1>1, <1>2, <1>3, <1>4, <1>5, <1>6, <1>7, <1>8, Zenon DEF Reading

\* A jump to a label.
LEMMA JumpMoves ==
    ASSUME Typed, Position, ErrorsCounted, calls' \in Seq(Frames),
           NEW op, NEW next \in Places \ {"line", "start", "done", "goto"},
           at \notin {"line", "done"}, tok.t \in Naming, CompileGoto(op, next)
    PROVE Moved
<1>1. CASE Error
  BY <1>1, LineError
<1>2. CASE ~Error
  <2>1. /\ rest' = Tail(rest) /\ at' = next /\ UNCHANGED <<eof, lines, firstData, errors, result>>
    BY <1>2 DEF CompileGoto
  <2>2. tok.t # "end of line"
    BY DEF Naming
  <2> QED
    BY <2>1, <2>2, TokensUsed
<1> QED
  BY <1>1, <1>2

\* The steps of statements without blocks.
LEMMA StatementMoves ==
    ASSUME Typed, Position, ErrorsCounted, Statement, calls' \in Seq(Frames)
    PROVE Moved
<1>1. CASE SyntaxError \/ DataTextTooLong \/ ListMissing
  <2>1. Error /\ at \notin {"line", "done"}
    BY <1>1 DEF SyntaxError, DataTextTooLong, ListMissing, InData, Stmt
  <2> QED
    BY <2>1, LineError
<1>2. CASE Simple \/ Colon \/ Remark \/ DataStmt \/ DataNumber \/ DataText \/ On \/ ListEnd
  <2>1. /\ at \in {"stmts", "data", "moredata", "list", "morelist"}
        /\ at' \in {"check", "data", "moredata", "list"}
        /\ \/ rest' \in {rest, <<>>}
           \/ rest' = Tail(rest) /\ tok.t # "end of line"
        /\ firstData' = firstData \/ firstData' = FALSE
        /\ UNCHANGED <<eof, lines, errors, result>>
    BY <1>2 DEF Simple, Colon, Remark, DataStmt, DataNumber, DataText, On, ListEnd, DataEntry,
                InData, Stmt, AtToken, Done, text
  <2> QED
    BY <2>1, TokensUsed DEF Places
<1>3. CASE Let \/ LetElement \/ Dim \/ Const
  <2>1. CASE Error
    BY <1>3, <2>1, LineError DEF Let, LetElement, Dim, Const, OnName, Stmt
  <2>2. CASE ~Error
    <3>1. /\ at = "stmts" /\ at' = "check" /\ rest' = Tail(rest) /\ tok.t # "end of line"
          /\ UNCHANGED <<eof, lines, firstData, errors, result>>
      BY <1>3, <2>2 DEF Let, LetElement, Dim, Const, OnName, Stmt, AtToken, Done
    <3> QED
      BY <3>1, TokensUsed DEF Places
  <2> QED
    BY <2>1, <2>2
<1>4. CASE Goto \/ Gosub \/ ListEntry
  <2>1. /\ at \in {"stmts", "list", "morelist"} /\ tok.t \in Naming
        /\ \/ CompileGoto("GOTO", "check") \/ CompileGoto("GOSUB", "check")
           \/ CompileGoto("GOTO", "morelist")
    BY <1>4 DEF Goto, Gosub, ListEntry, Stmt, AtToken, Naming
  <2>2. at \notin {"line", "done"}
    BY <2>1
  <2> QED
    BY <2>1, <2>2, JumpMoves DEF Places
<1> QED
  BY <1>1, <1>2, <1>3, <1>4, Zenon DEF Statement

\* The steps of blocks.
LEMMA BlocksMove ==
    ASSUME Typed, Position, ErrorsCounted, Blocks, calls' \in Seq(Frames)
    PROVE Moved
<1>1. CASE NextMismatched \/ IfBad \/ BlockNotClosed
  <2>1. Error /\ at \notin {"line", "done"}
    BY <1>1 DEF NextMismatched, IfBad, BlockNotClosed, AtNext
  <2> QED
    BY <2>1, LineError
<1>2. CASE For
  <2>1. CASE Error
    BY <1>2, <2>1, LineError DEF For, Stmt
  <2>2. CASE ~Error
    <3>1. /\ at = "stmts" /\ at' = "stmts" /\ rest' = Tail(rest) /\ tok.t # "end of line"
          /\ UNCHANGED <<eof, lines, firstData, errors, result>>
      BY <1>2, <2>2 DEF For, Stmt, AtToken, Enter
    <3> QED
      BY <3>1, TokensUsed DEF Places
  <2> QED
    BY <2>1, <2>2
<1>3. CASE While \/ If \/ IfThen \/ ElseIfReturns \/ IfReturns
  <2>1. /\ at \in {"stmts", "if", "ifret"} /\ at' \in {"stmts", "if", "ifret", "check"}
        /\ rest' = rest \/ (rest' = Tail(rest) /\ tok.t # "end of line")
        /\ UNCHANGED <<eof, lines, firstData, errors, result>>
    BY <1>3 DEF While, If, IfThen, ElseIfReturns, IfReturns, Stmt, AtToken, Enter, Leave, text
  <2> QED
    BY <2>1, TokensUsed DEF Places
<1>4. CASE IfGoto
  <2>1. /\ at = "if" /\ at' = "goto" /\ AtToken("GOTO")
        /\ UNCHANGED <<rest, eof, lines, firstData, errors, result>>
    BY <1>4 DEF IfGoto, text
  <2>2. TextType'
    BY <2>1 DEF Typed, TextType, Places
  <2>3. AtToken("GOTO")'
    BY <2>1 DEF AtToken, tok
  <2>4. Position'
    BY <2>1, <2>3 DEF Position
  <2>5. ErrorsCounted'
    BY <2>1 DEF ErrorsCounted
  <2> QED
    BY <2>2, <2>4, <2>5 DEF Moved
<1>5. CASE ThenGoto
  <2>1. at = "goto" /\ tok.t \in Naming /\ CompileGoto("GOTO", "tail")
    BY <1>5 DEF ThenGoto, Position, AtToken, Naming
  <2> QED
    BY <2>1, JumpMoves DEF Places
<1>6. CASE NextTail \/ LoopTail \/ ElseIf \/ Else \/ EndIf \/ ElseHere \/ IfLineEnd
  <2>1. /\ at = "tail" /\ calls # <<>>
        /\ tok.t # "end of line" \/ top.fn \in {"then", "otherwise"}
        /\ at' \in {"check", "if", "stmts", "ifret"}
        /\ rest' = rest \/ (rest' = Tail(rest) /\ tok.t # "end of line")
        /\ UNCHANGED <<eof, lines, firstData, errors, result>>
    BY <1>6 DEF NextTail, LoopTail, ElseIf, Else, EndIf, ElseHere, IfLineEnd, AtNext, AtToken,
                Waiting, Leave, Turn
  <2> QED
    BY <2>1, TokensUsed DEF Places
<1> QED
  BY <1>1, <1>2, <1>3, <1>4, <1>5, <1>6, Zenon DEF Blocks

\* All steps.
LEMMA NextMoves ==
    ASSUME Typed, Position, ErrorsCounted, Next, calls' \in Seq(Frames)
    PROVE Moved
<1>1. CASE Failed \/ Compiled
  <2>1. /\ at = "line" /\ at' = "done" /\ eof
        /\ result' = "failed" \/ (result' = "ok" /\ errors = 0)
        /\ UNCHANGED <<rest, eof, lines, calls, firstData, errors>>
    BY <1>1 DEF Failed, Compiled, AtEnd, Finish, text
  <2>2. calls = <<>>
    BY <1>1 DEF Failed, Compiled, AtEnd
  <2>3. TextType'
    BY <2>1 DEF Typed, TextType, Places
  <2>4. Position'
    BY <2>1, <2>2 DEF Position
  <2>5. ErrorsCounted'
    BY <2>1, <2>2 DEF ErrorsCounted
  <2> QED
    BY <2>3, <2>4, <2>5 DEF Moved
<1>2. CASE NotResolved
  <2>1. at = "line" /\ eof /\ errors = 0 /\ Error
    BY <1>2 DEF NotResolved, AtEnd
  <2> QED
    BY <2>1, ErrorMoves
<1> QED
  BY <1>1, <1>2, ReadingMoves, StatementMoves, BlocksMove DEF Next

-----------------------------------------------------------------------------
\* The symbol table, by what a step does to it.
VariableNames == {w.n : w \in {v \in Words : v.t \in {"LET", "ELEM", "DIM", "FOR"}}}
LabelNames == {w.n : w \in {v \in Words : v.t \in {"LABEL", "REF", "GOTO", "GOSUB"}}}

\* The scanner meets a name.
Notes(n) == /\ table' = [table EXCEPT ![n] = Known(n)]
            /\ varIdx' = KnownIdx(n) /\ where' = where
            /\ errors' = errors => n \in VariableNames

\* DIM and CONST.
Makes(n) == /\ \/ /\ table' = [table EXCEPT ![n] = [Known(n) EXCEPT !.type = "ARR"]]
                  /\ Known(n).type \in {"ID", "ARR"} /\ n \in VariableNames
               \/ table' = [table EXCEPT ![n] = [Known(n) EXCEPT !.type = "CONST"]]
            /\ varIdx' = KnownIdx(n) /\ where' = where

\* A label is used, or set at the next cell.
Labels(n) == /\ MayBeLabel(n) /\ n \in LabelNames
             /\ varIdx' = AsLabel(n)
             /\ \/ /\ table' = [table EXCEPT ![n] = LabelSymbol(n)]
                   /\ where' = where
                \/ /\ table' = [table EXCEPT ![n] = [type |-> "LABEL", value |-> pc]]
                   /\ where' = [where EXCEPT ![n] = pc]

Renames == \/ UNCHANGED <<symbols, where>>
           \/ \E n \in Names : Notes(n) \/ Makes(n) \/ Labels(n)

\* The name of a token is one of a variable, or one of a label.
LEMMA NamesOfTokens ==
    ASSUME rest \in Seq(Words), tok.t \in Naming
    PROVE /\ tok.n \in Names
          /\ tok.t \in {"LET", "ELEM", "DIM", "FOR"} => tok.n \in VariableNames
          /\ tok.t \in {"LABEL", "REF", "GOTO", "GOSUB"} => tok.n \in LabelNames
<1>1. tok.t # "end of line"
  BY DEF Naming
<1> QED
  BY <1>1, NameHere, TokenHere DEF VariableNames, LabelNames

\* A name that is met in an error.
LEMMA ErrorNotes ==
    ASSUME Typed, SymAdd(tok.n), Error, tok.t \in Naming \/ tok.n \in Names
    PROVE Renames
<1>1. tok.n \in Names
  BY NameHere DEF Typed, TextType
<1>2. errors' # errors
  BY DEF Error, Typed, TextType
<1>3. Notes(tok.n)
  BY <1>2 DEF Notes, SymAdd, Error
<1> QED
  BY <1>1, <1>3 DEF Renames

\* A jump to a label.
LEMMA JumpRenames ==
    ASSUME Typed, NEW op, NEW next, tok.t \in {"LABEL", "REF", "GOTO", "GOSUB"},
           CompileGoto(op, next)
    PROVE Renames
<1>1. tok.n \in Names /\ tok.n \in LabelNames
  BY NamesOfTokens DEF Typed, TextType, Naming
<1>2. where' = where
  BY DEF CompileGoto, Error
<1>3. CASE MayBeLabel(tok.n)
  <2>1. Labels(tok.n)
    BY <1>1, <1>2, <1>3 DEF Labels, CompileGoto
  <2> QED
    BY <1>1, <2>1 DEF Renames
<1>4. CASE ~MayBeLabel(tok.n)
  <2>1. errors' # errors
    BY <1>4 DEF CompileGoto, Error, Typed, TextType
  <2>2. Notes(tok.n)
    BY <1>2, <1>4, <2>1 DEF Notes, CompileGoto
  <2> QED
    BY <1>1, <2>2 DEF Renames
<1> QED
  BY <1>3, <1>4

\* A statement on a name.
LEMMA NameRenames ==
    ASSUME Typed, Let \/ LetElement \/ Dim \/ Const
    PROVE Renames
<1>1. tok.t \in {"LET", "ELEM", "DIM", "CONST"}
  BY DEF Let, LetElement, Dim, Const, OnName, Stmt, AtToken
<1>2. tok.n \in Names /\ (tok.t # "CONST" => tok.n \in VariableNames)
  BY <1>1, NamesOfTokens DEF Typed, TextType, Naming
<1>3. Known(tok.n) \in [type : Types \ {"none"}, value : Nat]
  BY <1>2, KnownFacts DEF Typed
<1>4. varIdx' = KnownIdx(tok.n)
  BY DEF Let, LetElement, Dim, Const, OnName
<1>5. CASE Error /\ table' = [table EXCEPT ![tok.n] = Known(tok.n)]
  <2>1. errors' # errors /\ where' = where
    BY <1>5 DEF Error, Typed, TextType
  <2>2. Notes(tok.n)
    BY <1>4, <1>5, <2>1 DEF Notes
  <2> QED
    BY <1>2, <2>2 DEF Renames
<1>6. CASE ~(Error /\ table' = [table EXCEPT ![tok.n] = Known(tok.n)])
  <2>1. where' = where
    BY <1>6 DEF Let, LetElement, Dim, Const, OnName, Done
  <2>2. CASE Let \/ LetElement
    <3>1. \/ Known(tok.n).type = "ID" /\ table' = [table EXCEPT ![tok.n] = [Known(tok.n) EXCEPT !.type = "ID"]]
          \/ Known(tok.n).type = "ARR" /\ table' = [table EXCEPT ![tok.n] = [Known(tok.n) EXCEPT !.type = "ARR"]]
      BY <1>6, <2>2 DEF Let, LetElement, OnName
    <3>2. [Known(tok.n) EXCEPT !.type = Known(tok.n).type] = Known(tok.n)
      BY <1>3
    <3>3. table' = [table EXCEPT ![tok.n] = Known(tok.n)]
      BY <3>1, <3>2
    <3>4. tok.n \in VariableNames
      BY <1>2, <2>2 DEF Let, LetElement, OnName, Stmt, AtToken
    <3> QED
      BY <1>2, <1>4, <2>1, <3>3, <3>4 DEF Notes, Renames
  <2>3. CASE Dim
    <3>1. /\ Known(tok.n).type \in {"ID", "ARR"}
          /\ table' = [table EXCEPT ![tok.n] = [Known(tok.n) EXCEPT !.type = "ARR"]]
      BY <1>6, <2>3 DEF Dim, OnName
    <3>2. tok.n \in VariableNames
      BY <1>2, <2>3 DEF Dim, OnName, Stmt, AtToken
    <3> QED
      BY <1>2, <1>4, <2>1, <3>1, <3>2 DEF Makes, Renames
  <2>4. CASE Const
    <3>1. table' = [table EXCEPT ![tok.n] = [Known(tok.n) EXCEPT !.type = "CONST"]]
      BY <1>6, <2>4 DEF Const, OnName
    <3> QED
      BY <1>2, <1>4, <2>1, <3>1 DEF Makes, Renames
  <2> QED
    BY <2>2, <2>3, <2>4
<1> QED
  BY <1>5, <1>6

\* All steps.
LEMMA NextRenames == ASSUME Typed, Position, Next PROVE Renames
<1>1. CASE \/ GetLine \/ LineTooLong \/ EndOfFile \/ LineEndsBlock \/ NoLabel
           \/ LineDone \/ FirstLineDone \/ StatementsDone \/ NextStmt \/ CodeSizeExceeded
  BY <1>1 DEF GetLine, LineTooLong, EndOfFile, LineEndsBlock, NoLabel, LineDone, FirstLineDone,
              StatementsDone, NextStmt, CodeSizeExceeded, Error, Renames, symbols
<1>2. CASE \/ Simple \/ Colon \/ Remark \/ DataStmt \/ DataNumber \/ DataText
           \/ DataTextTooLong \/ On \/ ListMissing \/ ListEnd
  BY <1>2 DEF Simple, Colon, Remark, DataStmt, DataNumber, DataText, DataTextTooLong, On,
              ListMissing, ListEnd, DataEntry, Done, Error, Renames, symbols
<1>3. CASE \/ NextTail \/ While \/ LoopTail \/ If \/ IfThen \/ IfGoto \/ IfBad \/ ElseIf \/ Else
           \/ EndIf \/ ElseHere \/ IfLineEnd \/ ElseIfReturns \/ IfReturns \/ BlockNotClosed
  BY <1>3 DEF NextTail, While, LoopTail, If, IfThen, IfGoto, IfBad, ElseIf, Else, EndIf, ElseHere,
              IfLineEnd, ElseIfReturns, IfReturns, BlockNotClosed, Enter, Leave, Turn, Error,
              Renames, symbols
<1>4. CASE Failed \/ Compiled \/ NotResolved
  BY <1>4 DEF Failed, Compiled, NotResolved, Finish, Error, Renames, symbols
<1>5. CASE DefineLabel
  <2>1. /\ MayBeLabel(tok.n) /\ tok.t = "LABEL" /\ varIdx' = AsLabel(tok.n)
        /\ table' = [table EXCEPT ![tok.n] = [type |-> "LABEL", value |-> pc]]
        /\ where' = [where EXCEPT ![tok.n] = pc]
    BY <1>5 DEF DefineLabel, LabelHere, AtToken
  <2>2. tok.n \in Names /\ tok.n \in LabelNames
    BY <2>1, NamesOfTokens DEF Typed, TextType, Naming
  <2> QED
    BY <2>1, <2>2 DEF Labels, Renames
<1>6. CASE SyntaxError \/ DataExpected
  <2>1. Error /\ IF tok.t \in NameFirst THEN SymAdd(tok.n) ELSE UNCHANGED symbols
    BY <1>6 DEF SyntaxError, DataExpected
  <2>2. CASE tok.t \in NameFirst
    BY <2>1, <2>2, ErrorNotes DEF NameFirst, Naming
  <2>3. CASE tok.t \notin NameFirst
    BY <2>1, <2>3 DEF Error, Renames
  <2> QED
    BY <2>2, <2>3
<1>7. CASE Let \/ LetElement \/ Dim \/ Const
  BY <1>7, NameRenames
<1>8. CASE Goto \/ Gosub \/ ListEntry \/ ThenGoto
  <2>1. tok.t \in {"LABEL", "REF", "GOTO", "GOSUB"}
    BY <1>8 DEF Goto, Gosub, ListEntry, ThenGoto, Stmt, Position, AtToken
  <2>2. \E op, next : CompileGoto(op, next)
    BY <1>8 DEF Goto, Gosub, ListEntry, ThenGoto
  <2> QED
    BY <2>1, <2>2, JumpRenames
<1>9. CASE For
  <2>1. SymAdd(tok.n) /\ tok.t = "FOR"
    BY <1>9 DEF For, Stmt, AtToken
  <2>2. CASE Error
    BY <2>1, <2>2, ErrorNotes DEF Naming
  <2>3. CASE ~Error
    <3>1. where' = where
      BY <1>9, <2>3 DEF For, Enter
    <3>2. tok.n \in Names /\ tok.n \in VariableNames
      BY <2>1, NamesOfTokens DEF Typed, TextType, Naming
    <3> QED
      BY <2>1, <3>1, <3>2 DEF Notes, SymAdd, Renames
  <2> QED
    BY <2>2, <2>3
<1>10. CASE NextMismatched
  <2>1. Error /\ SymAdd(tok.n) /\ tok.n # NoName
    BY <1>10 DEF NextMismatched, NextOfLoop
  <2>2. tok.n \in Names
    BY <2>1, NameHere DEF Typed, TextType
  <2> QED
    BY <2>1, <2>2, ErrorNotes
<1> QED
  <2> USE DEF Next, Reading, Statement, Blocks
  <2>1. Reading => Renames
    BY <1>1, <1>5, <1>6, Zenon
  <2>2. Statement => Renames
    BY <1>2, <1>6, <1>7, <1>8, Zenon
  <2>3. Blocks => Renames
    BY <1>3, <1>8, <1>9, <1>10, Zenon
  <2> QED
    BY <1>4, <2>1, <2>2, <2>3, Zenon

\* How many names there are of some types: variables, and all that were ever met.
Of(types) == {n \in Names : table[n].type \in types}
Variables == Of({"ID", "ARR"})
Met == Of(Types \ {"none"})

\* The counter lies between the variables and the names: a label gives its number back.
Counted == Cardinality(Variables) <= varIdx /\ varIdx <= Cardinality(Met)

\* What a name becomes, and what the counter makes of it.
Becomes(n, old, s) ==
    /\ table' = [table EXCEPT ![n] = s]
    /\ \/ old = "none" /\ s.type \in {"ID", "ARR", "CONST"} /\ varIdx' = varIdx + 1
       \/ old = "none" /\ s.type = "LABEL" /\ varIdx' = varIdx
       \/ old = "ID" /\ s.type = "LABEL" /\ varIdx' = varIdx - 1
       \/ old # "none" /\ varIdx' = varIdx /\ (s.type \in {"ID", "ARR"} => old \in {"ID", "ARR"})

\* Every renaming is of that form.
LEMMA RenamesBecome ==
    ASSUME Typed, NEW n \in Names, Notes(n) \/ Makes(n) \/ Labels(n)
    PROVE \E s \in [type : Types \ {"none"}, value : Nat] : Becomes(n, table[n].type, s)
<1>1. /\ Known(n) \in [type : Types \ {"none"}, value : Nat]
      /\ table[n].type = "none" => Known(n).type = "ID" /\ KnownIdx(n) = varIdx + 1
      /\ table[n].type # "none" => Known(n).type = table[n].type /\ KnownIdx(n) = varIdx
  BY KnownFacts DEF Typed
<1>2. varIdx \in Nat /\ pc \in Nat
  BY PcType DEF Typed, SymbolType, OutputType
<1>3. CASE Notes(n)
  <2>1. table' = [table EXCEPT ![n] = Known(n)] /\ varIdx' = KnownIdx(n)
    BY <1>3 DEF Notes
  <2>2. Becomes(n, table[n].type, Known(n))
    BY <1>1, <2>1 DEF Becomes
  <2> QED
    BY <1>1, <2>2
<1>4. CASE Makes(n)
  <2>1. PICK type \in {"ARR", "CONST"} :
               /\ table' = [table EXCEPT ![n] = [Known(n) EXCEPT !.type = type]]
               /\ type = "ARR" => Known(n).type \in {"ID", "ARR"}
               /\ varIdx' = KnownIdx(n)
    BY <1>4 DEF Makes
  <2>2. PICK s \in [type : Types \ {"none"}, value : Nat] :
               s = [Known(n) EXCEPT !.type = type] /\ s.type = type
    <3>1. PICK k \in [type : Types \ {"none"}, value : Nat] : k = Known(n)
      BY <1>1
    <3>2. /\ [k EXCEPT !.type = type] \in [type : Types \ {"none"}, value : Nat]
          /\ [k EXCEPT !.type = type].type = type
      BY <2>1 DEF Types
    <3> QED
      BY <3>1, <3>2
  <2>3. Becomes(n, table[n].type, s)
    BY <1>1, <2>1, <2>2 DEF Becomes
  <2> QED
    BY <2>3
<1>5. CASE Labels(n)
  <2>1. Known(n).type \in {"ID", "LABEL"} /\ varIdx' = AsLabel(n)
    BY <1>5 DEF Labels, MayBeLabel
  <2>2. PICK s \in [type : Types \ {"none"}, value : Nat] :
               table' = [table EXCEPT ![n] = s] /\ s.type = "LABEL"
    <3>1. LabelSymbol(n) \in [type : Types \ {"none"}, value : Nat] /\ LabelSymbol(n).type = "LABEL"
      BY <1>1 DEF LabelSymbol, Types
    <3>2. [type |-> "LABEL", value |-> pc] \in [type : Types \ {"none"}, value : Nat]
      BY <1>2 DEF Types
    <3>3. \/ table' = [table EXCEPT ![n] = LabelSymbol(n)]
          \/ table' = [table EXCEPT ![n] = [type |-> "LABEL", value |-> pc]]
      BY <1>5 DEF Labels
    <3> QED
      BY <3>1, <3>2, <3>3
  <2>3. CASE table[n].type = "none"
    <3>1. varIdx' = varIdx
      BY <1>1, <1>2, <2>1, <2>3 DEF AsLabel
    <3> QED
      BY <2>2, <2>3, <3>1 DEF Becomes
  <2>4. CASE table[n].type # "none" /\ Known(n).type = "ID"
    <3>1. varIdx' = varIdx - 1 /\ table[n].type = "ID"
      BY <1>1, <1>2, <2>1, <2>4 DEF AsLabel
    <3> QED
      BY <2>2, <3>1 DEF Becomes
  <2>5. CASE table[n].type # "none" /\ Known(n).type = "LABEL"
    <3>1. varIdx' = varIdx
      BY <1>1, <1>2, <2>1, <2>5 DEF AsLabel
    <3> QED
      BY <2>2, <2>5, <3>1 DEF Becomes
  <2> QED
    BY <2>1, <2>3, <2>4, <2>5
<1> QED
  BY <1>3, <1>4, <1>5

\* The sets of names, when one becomes something else.
LEMMA BecomesCounts ==
    ASSUME Typed, Counted, NEW n \in Names, NEW s \in [type : Types \ {"none"}, value : Nat],
           Becomes(n, table[n].type, s)
    PROVE varIdx' \in Nat /\ Counted'
<1>1. /\ table' = [table EXCEPT ![n] = s] /\ table \in [Names -> [type : Types, value : Nat]]
      /\ table[n].type \in Types /\ varIdx \in Nat
  BY DEF Becomes, Typed, SymbolType
<1>2. IsFiniteSet(Variables) /\ IsFiniteSet(Met)
  BY LinesAssumption, FS_Subset DEF Variables, Met, Of
<1>3. /\ n \in Variables <=> table[n].type \in {"ID", "ARR"}
      /\ n \in Met <=> table[n].type # "none"
  BY <1>1 DEF Variables, Met, Of
<1>4. Met' = Met \cup {n}
  BY <1>1 DEF Met, Of
<1>5. Variables' = IF s.type \in {"ID", "ARR"} THEN Variables \cup {n} ELSE Variables \ {n}
  BY <1>1 DEF Variables, Of
<1>6. PICK v \in Nat, m \in Nat : v = Cardinality(Variables) /\ m = Cardinality(Met)
  BY <1>2, FS_CardinalityType
<1>7. /\ Cardinality(Met \cup {n}) = IF n \in Met THEN m ELSE m + 1
      /\ Cardinality(Variables \cup {n}) = IF n \in Variables THEN v ELSE v + 1
      /\ Cardinality(Variables \ {n}) = IF n \in Variables THEN v - 1 ELSE v
  BY <1>2, <1>6, FS_AddElement, FS_RemoveElement
<1>8. n \in Variables => v >= 1
  BY <1>2, <1>6, FS_EmptySet
<1>9. v <= varIdx /\ varIdx <= m
  BY <1>6 DEF Counted
<1>10. PICK v1 \in Nat, m1 \in Nat : v1 = Cardinality(Variables)' /\ m1 = Cardinality(Met)'
  BY <1>2, <1>4, <1>5, <1>6, <1>7, <1>8
<1>11. /\ m1 = IF n \in Met THEN m ELSE m + 1
       /\ v1 = IF s.type \in {"ID", "ARR"} THEN IF n \in Variables THEN v ELSE v + 1
                                           ELSE IF n \in Variables THEN v - 1 ELSE v
  BY <1>4, <1>5, <1>7, <1>10
<1>12. varIdx' \in Nat /\ v1 <= varIdx' /\ varIdx' <= m1
  BY <1>1, <1>3, <1>8, <1>9, <1>11 DEF Becomes
<1> QED
  BY <1>10, <1>12 DEF Counted

\* A name that is set as a label stays one, at its address, or becomes a constant.
LEMMA LabelsStay ==
    ASSUME Typed, LabelsSet, NEW n \in Names, Notes(n) \/ Makes(n) \/ Labels(n)
    PROVE where' \in [Names -> Nat] /\ LabelsSet'
<1>1. /\ Known(n) \in [type : Types \ {"none"}, value : Nat]
      /\ table[n].type = "none" => Known(n).type = "ID"
      /\ table[n].type # "none" => Known(n).type = table[n].type
      /\ table[n].type # "none" /\ table[n] # [type |-> "LABEL", value |-> 0] => Known(n) = table[n]
  BY KnownFacts DEF Typed
<1>2. /\ table \in [Names -> [type : Types, value : Nat]] /\ where \in [Names -> Nat] /\ pc \in Nat
  BY PcType DEF Typed, SymbolType, OutputType
<1>3. where[n] # 0 => Known(n) = table[n]
  <2>1. ASSUME where[n] # 0 PROVE table[n].type # "none" /\ table[n] # [type |-> "LABEL", value |-> 0]
    <3>1. table[n].type = "CONST" \/ table[n] = [type |-> "LABEL", value |-> where[n]]
      BY <2>1 DEF LabelsSet
    <3>2. CASE table[n].type = "CONST"
      BY <3>2
    <3>3. CASE table[n] = [type |-> "LABEL", value |-> where[n]]
      <4>1. table[n].type = "LABEL" /\ table[n].value = where[n]
        BY <3>3
      <4>2. table[n] # [type |-> "LABEL", value |-> 0]
        BY <2>1, <4>1
      <4> QED
        BY <4>1, <4>2
    <3> QED
      BY <3>1, <3>2, <3>3
  <2> QED
    BY <1>1, <2>1
<1>4. ASSUME NEW s, table' = [table EXCEPT ![n] = s],
             \/ /\ where' = where
                /\ where[n] # 0 => \/ s.type = "CONST"
                                   \/ s = [type |-> "LABEL", value |-> where[n]]
             \/ where' = [where EXCEPT ![n] = pc] /\ s = [type |-> "LABEL", value |-> pc]
      PROVE where' \in [Names -> Nat] /\ LabelsSet'
  <2>1. table'[n] = s /\ \A m \in Names \ {n} : table'[m] = table[m]
    BY <1>2, <1>4
  <2>2. CASE where' = where
    <3>1. where' \in [Names -> Nat]
      BY <1>2, <2>2
    <3>2. ASSUME NEW m \in Names, where'[m] # 0
          PROVE table'[m].type = "CONST" \/ table'[m] = [type |-> "LABEL", value |-> where'[m]]
      <4>1. CASE m # n
        BY <2>1, <2>2, <3>2, <4>1 DEF LabelsSet
      <4>2. CASE m = n
        BY <1>2, <1>4, <2>1, <2>2, <3>2, <4>2
      <4> QED
        BY <4>1, <4>2
    <3> QED
      BY <3>1, <3>2 DEF LabelsSet
  <2>3. CASE where' = [where EXCEPT ![n] = pc] /\ s = [type |-> "LABEL", value |-> pc]
    <3>1. where' \in [Names -> Nat] /\ where'[n] = pc /\ \A m \in Names \ {n} : where'[m] = where[m]
      BY <1>2, <2>3
    <3> QED
      BY <2>1, <2>3, <3>1 DEF LabelsSet
  <2> QED
    BY <1>4, <2>2, <2>3
<1>5. where[n] # 0 => \/ Known(n).type = "CONST"
                      \/ Known(n) = [type |-> "LABEL", value |-> where[n]]
  BY <1>3 DEF LabelsSet
<1>6. CASE Notes(n)
  <2>1. table' = [table EXCEPT ![n] = Known(n)] /\ where' = where
    BY <1>6 DEF Notes
  <2> QED
    BY <1>4, <1>5, <2>1
<1>7. CASE Makes(n)
  <2>1. PICK type \in {"ARR", "CONST"} :
               /\ table' = [table EXCEPT ![n] = [Known(n) EXCEPT !.type = type]]
               /\ type = "ARR" => Known(n).type \in {"ID", "ARR"}
               /\ where' = where
    BY <1>7 DEF Makes
  <2>2. [Known(n) EXCEPT !.type = type].type = type
    BY <1>1
  <2>3. where[n] # 0 => type = "CONST"
    BY <1>5, <2>1
  <2> QED
    BY <1>4, <2>1, <2>2, <2>3
<1>8. CASE Labels(n)
  <2>1. CASE table' = [table EXCEPT ![n] = LabelSymbol(n)] /\ where' = where
    <3>1. where[n] # 0 => LabelSymbol(n) = [type |-> "LABEL", value |-> where[n]]
      <4>1. Known(n).type # "CONST"
        BY <1>8 DEF Labels, MayBeLabel
      <4>2. ASSUME Known(n) = [type |-> "LABEL", value |-> where[n]]
            PROVE LabelSymbol(n) = [type |-> "LABEL", value |-> where[n]]
        BY <4>2 DEF LabelSymbol
      <4> QED
        BY <1>5, <4>1, <4>2
    <3> QED
      BY <1>4, <2>1, <3>1
  <2>2. CASE /\ table' = [table EXCEPT ![n] = [type |-> "LABEL", value |-> pc]]
             /\ where' = [where EXCEPT ![n] = pc]
    BY <1>4, <2>2
  <2> QED
    BY <1>8, <2>1, <2>2 DEF Labels
<1> QED
  BY <1>6, <1>7, <1>8

\* The symbols after a step.
LEMMA SymbolStep ==
    ASSUME Typed, Counted, LabelsSet, Renames
    PROVE SymbolType' /\ Counted' /\ LabelsSet'
<1>1. CASE UNCHANGED <<symbols, where>>
  BY <1>1 DEF symbols, Typed, SymbolType, Counted, Variables, Met, Of, LabelsSet
<1>2. CASE \E n \in Names : Notes(n) \/ Makes(n) \/ Labels(n)
  <2>1. PICK n \in Names : Notes(n) \/ Makes(n) \/ Labels(n)
    BY <1>2
  <2>2. PICK s \in [type : Types \ {"none"}, value : Nat] : Becomes(n, table[n].type, s)
    BY <2>1, RenamesBecome
  <2>3. varIdx' \in Nat /\ Counted'
    BY <2>2, BecomesCounts
  <2>4. where' \in [Names -> Nat] /\ LabelsSet'
    BY <2>1, LabelsStay
  <2>5. table' \in [Names -> [type : Types, value : Nat]]
    BY <2>2 DEF Becomes, Typed, SymbolType, Types
  <2> QED
    BY <2>3, <2>4, <2>5 DEF SymbolType
<1> QED
  BY <1>1, <1>2 DEF Renames

\* No name of a variable is that of a label.
LabelsAreNoVariables == VariableNames \cap LabelNames = {}

\* Variables have numbers below the counter, each its own, as long as there was no error.
Numbered == errors = 0 => /\ VariablesApart
                          /\ \A n \in Variables : n \in VariableNames /\ table[n].value < varIdx

\* One name more, or one that keeps its number.
LEMMA OneNumbered ==
    ASSUME Typed, Numbered, SymbolType', errors = 0, NEW n \in Names, NEW s,
           table' = [table EXCEPT ![n] = s], varIdx' >= varIdx,
           s.type \in {"ID", "ARR"} =>
             /\ n \in VariableNames
             /\ \/ n \in Variables /\ s.value = table[n].value
                \/ s.value = varIdx /\ varIdx' = varIdx + 1
    PROVE Numbered'
<1>1. /\ table \in [Names -> [type : Types, value : Nat]] /\ varIdx \in Nat /\ varIdx' \in Nat
  BY DEF Typed, SymbolType
<1>2. table'[n] = s /\ \A m \in Names \ {n} : table'[m] = table[m]
  BY <1>1
<1>3. /\ VariablesApart
      /\ \A m \in Variables : m \in VariableNames /\ table[m].value < varIdx /\ table[m].value \in Nat
  BY <1>1 DEF Numbered, Variables, Of
<1>4. \A m \in Names \ {n} : m \in Variables' <=> m \in Variables
  BY <1>2 DEF Variables, Of
<1>5. n \in Variables' <=> s.type \in {"ID", "ARR"}
  BY <1>2 DEF Variables, Of
<1>6. \A m \in Variables' : m \in VariableNames /\ table'[m].value < varIdx'
  <2>1. ASSUME NEW m \in Variables', m # n
        PROVE m \in VariableNames /\ table'[m].value < varIdx'
    <3>1. m \in Names /\ m \in Variables /\ table'[m] = table[m]
      BY <1>2, <1>4, <2>1 DEF Variables, Of
    <3> QED
      BY <1>1, <1>3, <3>1
  <2>2. ASSUME n \in Variables' PROVE n \in VariableNames /\ table'[n].value < varIdx'
    BY <1>1, <1>2, <1>3, <1>5, <2>2
  <2> QED
    BY <2>1, <2>2
<1>7. ASSUME NEW m \in Variables', m # n, n \in Variables' PROVE table'[m].value # table'[n].value
  <2>1. m \in Variables /\ table'[m] = table[m] /\ m \in Names
    BY <1>2, <1>4, <1>7 DEF Variables, Of
  <2>2. CASE n \in Variables /\ s.value = table[n].value
    <3>1. table[m].value # table[n].value
      BY <1>3, <1>7, <2>1, <2>2 DEF VariablesApart, Variables, Of
    <3> QED
      BY <1>2, <2>1, <2>2, <3>1
  <2>3. CASE s.value = varIdx
    BY <1>1, <1>2, <1>3, <2>1, <2>3
  <2> QED
    BY <1>5, <1>7, <2>2, <2>3
<1>8. VariablesApart'
  <2>1. ASSUME NEW k \in Names, NEW m \in Names, k # m,
               {table'[k].type, table'[m].type} \subseteq {"ID", "ARR"}
        PROVE table'[k].value # table'[m].value
    <3>1. k \in Variables' /\ m \in Variables'
      BY <2>1 DEF Variables, Of
    <3>2. CASE k = n \/ m = n
      BY <1>7, <2>1, <3>1, <3>2
    <3>3. CASE k # n /\ m # n
      <4>1. table'[k] = table[k] /\ table'[m] = table[m]
        BY <1>2, <3>3
      <4> QED
        BY <1>3, <2>1, <4>1 DEF VariablesApart
    <3> QED
      BY <3>2, <3>3
  <2> QED
    BY <2>1 DEF VariablesApart
<1> QED
  BY <1>6, <1>8 DEF Numbered

\* The numbers after a step.
LEMMA NumberedStep ==
    ASSUME LabelsAreNoVariables, Typed, Numbered, SymbolType', Renames,
           errors' = 0 => errors = 0
    PROVE Numbered'
<1>1. CASE errors' # 0
  BY <1>1 DEF Numbered
<1>2. CASE UNCHANGED <<symbols, where>>
  BY <1>2 DEF symbols, Numbered, VariablesApart, Variables, Of
<1>3. CASE errors' = 0 /\ \E n \in Names : Notes(n) \/ Makes(n) \/ Labels(n)
  <2>1. PICK n \in Names : Notes(n) \/ Makes(n) \/ Labels(n)
    BY <1>3
  <2>2. errors = 0 /\ errors' = errors
    BY <1>3
  <2>3. /\ Known(n) \in [type : Types \ {"none"}, value : Nat] /\ varIdx \in Nat
        /\ table[n].type = "none" => /\ Known(n) = [type |-> "ID", value |-> varIdx]
                                     /\ KnownIdx(n) = varIdx + 1
        /\ table[n].type # "none" => Known(n).type = table[n].type /\ KnownIdx(n) = varIdx
        /\ table[n].type # "none" /\ table[n] # [type |-> "LABEL", value |-> 0]
             => Known(n) = table[n]
    BY KnownFacts DEF Typed, SymbolType
  <2>4. KnownIdx(n) >= varIdx
    BY <2>3
  <2>5. Known(n).type \in {"ID", "ARR"} =>
          \/ n \in Variables /\ Known(n).value = table[n].value
          \/ Known(n).value = varIdx /\ KnownIdx(n) = varIdx + 1
    <3>1. CASE table[n].type = "none"
      BY <2>3, <3>1
    <3>2. CASE table[n].type # "none"
      <4>1. SUFFICES ASSUME Known(n).type \in {"ID", "ARR"} PROVE n \in Variables /\ Known(n) = table[n]
        OBVIOUS
      <4>2. table[n].type \in {"ID", "ARR"} /\ table[n] # [type |-> "LABEL", value |-> 0]
        BY <2>3, <3>2, <4>1
      <4> QED
        BY <2>3, <3>2, <4>2 DEF Variables, Of
    <3> QED
      BY <3>1, <3>2
  <2>6. CASE Notes(n)
    <3>1. table' = [table EXCEPT ![n] = Known(n)] /\ varIdx' = KnownIdx(n) /\ n \in VariableNames
      BY <2>2, <2>6 DEF Notes
    <3> QED
      BY <2>2, <2>4, <2>5, <3>1, OneNumbered
  <2>7. CASE Makes(n)
    <3>1. varIdx' = KnownIdx(n)
      BY <2>7 DEF Makes
    <3>2. CASE /\ table' = [table EXCEPT ![n] = [Known(n) EXCEPT !.type = "ARR"]]
               /\ Known(n).type \in {"ID", "ARR"} /\ n \in VariableNames
      <4>1. [Known(n) EXCEPT !.type = "ARR"].value = Known(n).value
        BY <2>3
      <4> QED
        BY <2>2, <2>4, <2>5, <3>1, <3>2, <4>1, OneNumbered
    <3>3. CASE table' = [table EXCEPT ![n] = [Known(n) EXCEPT !.type = "CONST"]]
      <4>1. [Known(n) EXCEPT !.type = "CONST"].type = "CONST"
        BY <2>3
      <4> QED
        BY <2>2, <2>4, <3>1, <3>3, <4>1, OneNumbered
    <3> QED
      BY <2>7, <3>2, <3>3 DEF Makes
  <2>8. CASE Labels(n)
    <3>1. n \notin Variables
      BY <2>2, <2>8 DEF Labels, Numbered, LabelsAreNoVariables
    <3>2. table[n].type \notin {"ID", "ARR"}
      BY <3>1 DEF Variables, Of
    <3>3. varIdx' = varIdx
      BY <2>3, <2>8, <3>2 DEF Labels, AsLabel
    <3>4. LabelSymbol(n).type = "LABEL"
      BY <2>3 DEF LabelSymbol
    <3>5. PICK s : table' = [table EXCEPT ![n] = s] /\ s.type = "LABEL"
      BY <2>8, <3>4 DEF Labels
    <3>6. s.type \notin {"ID", "ARR"} /\ varIdx' >= varIdx
      BY <2>3, <3>3, <3>5
    <3> QED
      BY <2>2, <3>5, <3>6, OneNumbered
  <2> QED
    BY <2>1, <2>6, <2>7, <2>8
<1> QED
  BY <1>1, <1>2, <1>3 DEF Renames

-----------------------------------------------------------------------------
\* The inductive invariant.
Compiling == Typed /\ Inside /\ Position /\ ErrorsCounted /\ Nested /\ Declared
             /\ LabelsSet /\ Counted
Accepted == JumpsSpanParts /\ JumpsReachLabels
CInv == Compiling /\ Accepted

\* At the beginning nothing is met, written or waiting.
LEMMA InitCompiling == ASSUME Init PROVE CInv
<1>1. /\ at = "line" /\ rest = <<>> /\ lines = 0 /\ eof = FALSE /\ calls = <<>> /\ code = <<>>
      /\ fwd = <<>> /\ data = <<>> /\ table = [n \in Names |-> [type |-> "none", value |-> 0]]
      /\ varIdx = 0 /\ firstData = TRUE /\ errors = 0 /\ result = "none"
      /\ where = [n \in Names |-> 0]
  BY DEF Init
<1>2. MaxLines \in Nat /\ MaxErrors \in Nat
  BY BoundsAssumption
<1>3. /\ <<>> \in Seq(Words) /\ <<>> \in Seq(Frames) /\ <<>> \in Seq(Cells)
      /\ <<>> \in Seq(Forwards) /\ <<>> \in Seq(Nat)
      /\ DOMAIN code = {} /\ DOMAIN calls = {} /\ DOMAIN fwd = {}
  BY <1>1, EmptySeq
<1>4. Typed
  <2>1. TextType
    <3>1. rest \in Seq(Words) /\ calls \in Seq(Frames)
      BY <1>1, <1>3
    <3>2. lines \in 0 .. MaxLines /\ errors \in Nat
      BY <1>1, <1>2
    <3>3. /\ at \in Places /\ eof \in BOOLEAN /\ firstData \in BOOLEAN
          /\ result \in {"none", "ok", "failed"}
      BY <1>1 DEF Places
    <3> QED
      BY <3>1, <3>2, <3>3 DEF TextType
  <2>2. OutputType /\ SymbolType
    BY <1>1, <1>3 DEF OutputType, SymbolType, Types
  <2> QED
    BY <2>1, <2>2 DEF Typed
<1>5. Inside
  BY <1>3 DEF Inside
<1>6. Position /\ ErrorsCounted
  BY <1>1, <1>2 DEF Position, ErrorsCounted
<1>7. Nested
  BY <1>3 DEF Nested, Blocked, Separate, Begun, OpenParts, ClosedParts, Behind, Open
<1>8. Declared
  BY <1>3 DEF Declared, JumpsDeclared, DeclaredJumps
<1>9. LabelsSet
  BY <1>1 DEF LabelsSet
<1>10. Counted
  <2>1. Variables = {} /\ Met = {}
    BY <1>1 DEF Variables, Met, Of, Types
  <2> QED
    BY <1>1, <2>1, FS_EmptySet DEF Counted
<1>11. Accepted
  BY <1>1 DEF Accepted, JumpsSpanParts, JumpsReachLabels, OK
<1> QED
  BY <1>4, <1>5, <1>6, <1>7, <1>8, <1>9, <1>10, <1>11 DEF Compiling, CInv

\* The end of a text is the end of the compiler.
LEMMA DoneStays == ASSUME at = "done" PROVE ~Next
<1>1. ~Reading
  BY DEF Reading, GetLine, LineTooLong, EndOfFile, LineEndsBlock, DefineLabel, NoLabel, LineDone,
         FirstLineDone, StatementsDone, NextStmt, CodeSizeExceeded, DataExpected, InLine, StmtsEnd
<1>2. ~Statement
  BY DEF Statement, Simple, Colon, Remark, SyntaxError, Let, LetElement, Dim, Const, OnName,
         DataStmt, DataNumber, DataText, DataTextTooLong, InData, Goto, Gosub, On, ListEntry,
         ListMissing, ListEnd, Stmt
<1>3. ~Blocks
  BY DEF Blocks, For, NextTail, NextMismatched, AtNext, While, LoopTail, If, IfThen, IfGoto,
         ThenGoto, IfBad, ElseIf, Else, EndIf, ElseHere, IfLineEnd, ElseIfReturns, IfReturns,
         BlockNotClosed, Stmt
<1> QED
  BY <1>1, <1>2, <1>3 DEF Next, Failed, Compiled, NotResolved, AtEnd

\* A step of the compiler keeps the invariant.
LEMMA NextCompiling == ASSUME CInv, Next PROVE CInv' /\ Renames
<1>1. /\ Typed /\ Inside /\ Position /\ ErrorsCounted /\ Nested /\ Declared
      /\ LabelsSet /\ Counted
  BY DEF CInv, Compiling
<1>2. Kind /\ Renames /\ at # "done"
  BY <1>1, NextKind, NextRenames, DoneStays
<1>3. OutputType' /\ Inside' /\ calls' \in Seq(Frames)
  BY <1>1, <1>2, OutputStep
<1>4. TextType' /\ Position' /\ ErrorsCounted'
  BY <1>1, <1>3, NextMoves DEF Moved
<1>5. SymbolType' /\ Counted' /\ LabelsSet'
  BY <1>1, <1>2, SymbolStep
<1>6. Typed'
  BY <1>3, <1>4, <1>5 DEF Typed
<1>7. Nested'
  BY <1>1, <1>2, <1>3, NestedStep DEF Nested
<1>8. Declared'
  BY <1>1, <1>2, DeclaredStep DEF Declared
<1>9. Accepted'
  <2>1. CASE Compiled
    <3>1. calls = <<>>
      BY <2>1 DEF Compiled, AtEnd
    <3> QED
      BY <1>1, <2>1, <3>1, FinishedLabels, FinishedBlocks DEF Accepted
  <2>2. CASE ~Compiled
    <3>1. result' # "ok"
      <4>1. result = "none"
        BY <1>1, <1>2 DEF Position
      <4>2. result' = result \/ result' = "failed"
        BY <1>2, <2>2 DEF Kind, Quiet, Emits, Jumps1, Opens, Turns, Ends, EndsLoop, Gives, Error,
                          Finishes, Failed, Finish
      <4> QED
        BY <4>1, <4>2
    <3> QED
      BY <3>1 DEF Accepted, JumpsSpanParts, JumpsReachLabels, OK
  <2> QED
    BY <2>1, <2>2
<1> QED
  BY <1>2, <1>3, <1>4, <1>5, <1>6, <1>7, <1>8, <1>9 DEF CInv, Compiling

\* A step that changes nothing.
LEMMA StutterCompiling == ASSUME CInv, UNCHANGED vars PROVE CInv'
<1>1. UNCHANGED <<at, rest, lines, eof, calls, code, fwd, table, varIdx, data, firstData,
                  errors, result, where>>
  BY DEF vars
<1>2. Typed' /\ Inside' /\ Position' /\ ErrorsCounted'
  BY <1>1 DEF CInv, Compiling, Typed, TextType, OutputType, SymbolType, Inside, Position,
              ErrorsCounted, AtToken, tok, top
<1>3. Nested'
  <2> USE <1>1 DEF In, Open, pc
  <2>1. \A a, to : PartTo(a, to)' <=> PartTo(a, to)
    BY DEF PartTo
  <2>2. \A a : /\ SkipClosed(a)' <=> SkipClosed(a)
               /\ BackClosed(a)' <=> BackClosed(a)
               /\ NextClosed(a)' <=> NextClosed(a)
               /\ ForClosed(a)' <=> ForClosed(a)
    BY <2>1 DEF SkipClosed, BackClosed, NextClosed, ForClosed, Skips, GoesBack
  <2>3. \A a : Closed(a)' <=> Closed(a)
    BY <2>2 DEF Closed, Skips, GoesBack
  <2>4. ClosedParts' <=> ClosedParts
    BY <2>3 DEF ClosedParts
  <2>5. /\ Separate' <=> Separate
        /\ Begun' <=> Begun
        /\ OpenParts' <=> OpenParts
        /\ Behind' <=> Behind
    BY DEF Separate, Begun, OpenParts, OpenPart, Behind
  <2> QED
    BY <2>4, <2>5 DEF CInv, Compiling, Nested, Blocked
<1>4. Declared' /\ LabelsSet' /\ Counted'
  BY <1>1 DEF CInv, Compiling, Declared, JumpsDeclared, DeclaredJumps, LabelsSet, Counted,
              Variables, Met, Of
<1>5. Accepted'
  <2>1. \A a : Part(a)' = Part(a)
    BY <1>1 DEF Part
  <2>2. JumpsSpanParts' <=> JumpsSpanParts
    BY <1>1, <2>1 DEF JumpsSpanParts, OK
  <2>3. JumpsReachLabels' <=> JumpsReachLabels
    BY <1>1 DEF JumpsReachLabels, OK, Jumps
  <2> QED
    BY <2>2, <2>3 DEF CInv, Accepted
<1> QED
  BY <1>2, <1>3, <1>4, <1>5 DEF CInv, Compiling

\* The inductive invariant of the compiler, for all texts.
THEOREM Invariance == Spec => []CInv
<1>1. Init => CInv
  BY InitCompiling
<1>2. CInv /\ [Next]_vars => CInv'
  BY NextCompiling, StutterCompiling
<1> QED
  BY <1>1, <1>2, PTL DEF Spec

\* Type correctness: forward declarations and waiting functions name cells that
\* there are, the counter of the variables never passes the number of names and
\* no text has more errors than it may have.
THEOREM TypeCorrect == Spec => []TypeOK
<1>1. CInv => TypeOK
  <2> SUFFICES ASSUME CInv PROVE TypeOK
    OBVIOUS
  <2>1. Typed /\ Inside /\ ErrorsCounted /\ Counted
    BY DEF CInv, Compiling
  <2>2. varIdx \in 0 .. Cardinality(Names)
    <3>1. /\ Cardinality(Names) \in Nat
          /\ Cardinality(Met) <= Cardinality(Names) /\ Cardinality(Met) \in Nat
      BY LinesAssumption, FS_CardinalityType, FS_Subset DEF Met, Of
    <3>2. varIdx \in Nat /\ varIdx <= Cardinality(Met)
      BY <2>1 DEF Typed, SymbolType, Counted
    <3> QED
      BY <3>1, <3>2
  <2>3. errors \in 0 .. MaxErrors + 1
    <3>1. errors \in Nat /\ MaxErrors \in Nat
      BY <2>1, BoundsAssumption DEF Typed, TextType
    <3> QED
      BY <2>1, <3>1 DEF ErrorsCounted
  <2>4. \A k \in DOMAIN fwd : fwd[k].n \in Names
    <3>1. \A k \in DOMAIN fwd : fwd[k] \in Forwards
      BY <2>1, ElementOfSeq, LenProperties DEF Typed, OutputType
    <3> QED
      BY <3>1 DEF Forwards
  <2> QED
    BY <2>1, <2>2, <2>3, <2>4 DEF TypeOK, Typed, TextType, SymbolType, Inside
<1> QED
  BY <1>1, Invariance, PTL

\* In an accepted program the jumps that blocks are made of skip their part of
\* the program and nothing else, and loops go back to their own beginning,
\* however deep the blocks are nested and whatever lies between them.
THEOREM BlocksSpanned == Spec => []JumpsSpanParts
<1>1. CInv => JumpsSpanParts
  BY DEF CInv, Accepted
<1> QED
  BY <1>1, Invariance, PTL

\* In an accepted program every jump to a label leads to where the label was
\* set last, whether the jump or the label comes first.
THEOREM LabelsReached == Spec => []JumpsReachLabels
<1>1. CInv => JumpsReachLabels
  BY DEF CInv, Accepted
<1> QED
  BY <1>1, Invariance, PTL

\* Two variables have two places as long as the text has no error in it, if no
\* name of a variable is also used as a label: label() counts the variables
\* down for such a name too, and the next variable takes a number in use.
THEOREM VariablesStayApart ==
  ASSUME LabelsAreNoVariables
  PROVE Spec => [](errors = 0 => VariablesApart)
<1>1. Init => Numbered
  <2> SUFFICES ASSUME Init PROVE Numbered
    OBVIOUS
  <2>1. \A n \in Names : table[n].type = "none"
    BY DEF Init
  <2> QED
    BY <2>1 DEF Numbered, VariablesApart, Variables, Of
<1>2. CInv /\ CInv' /\ Numbered /\ [Next]_vars => Numbered'
  <2> SUFFICES ASSUME CInv, CInv', Numbered, [Next]_vars PROVE Numbered'
    OBVIOUS
  <2>1. Typed /\ SymbolType' /\ Position
    BY DEF CInv, Compiling, Typed
  <2>2. CASE Next
    <3>1. Renames /\ Kind
      BY <2>1, <2>2, NextRenames, NextKind
    <3>2. errors' = errors \/ errors' = errors + 1
      BY <3>1 DEF Kind, Quiet, Emits, Jumps1, Opens, Turns, Ends, EndsLoop, Gives, Error,
                  Finishes, Failed, Compiled, Finish
    <3>3. errors' = 0 => errors = 0
      BY <2>1, <3>2 DEF Typed, TextType
    <3> QED
      BY <2>1, <3>1, <3>3, NumberedStep
  <2>3. CASE UNCHANGED vars
    <3>1. Renames /\ errors' = errors
      BY <2>3 DEF vars, symbols, Renames
    <3> QED
      BY <2>1, <3>1, NumberedStep
  <2> QED
    BY <2>2, <2>3
<1>3. Numbered => (errors = 0 => VariablesApart)
  BY DEF Numbered
<1> QED
  BY <1>1, <1>2, <1>3, Invariance, PTL DEF Spec
=============================================================================
