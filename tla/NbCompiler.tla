----------------------------- MODULE NbCompiler -----------------------------
(***************************************************************************)
(* The compiler (src/src/nb_compiler.c): lines, statements, blocks, labels *)
(* and forward declarations, built with labels instead of line numbers.    *)
(*                                                                         *)
(* A token is a keyword with the expressions that go with it, and the name *)
(* that follows, if any: [t |-> "FOR", n |-> "i"] stands for               *)
(* FOR i = 1 TO 9 STEP 2.  Code is a sequence of cells: a cell is the code *)
(* of a statement, or of the part of it up to a jump, and an address is    *)
(* the number of a cell (byte 0 of the code is reserved).  What a          *)
(* statement emits before its error is left out, no such code is run.      *)
(*                                                                         *)
(* The functions of the compiler call each other recursively; calls holds  *)
(* those that wait for a block or a list of statements to end.  error()    *)
(* drops them all (longjmp) and goes on with the next line.                *)
(***************************************************************************)
EXTENDS Integers, Sequences, FiniteSets

CONSTANTS Names,       \* of variables and labels
          NoName,      \* what a token without a name has in its place
          Lines,       \* the lines that source texts consist of
          MaxLines,    \* lines of a text
          MaxErrors,   \* errors in a text, which ends after the last one
          MaxCode,     \* cfg_MAX_CODE_SIZE
          MaxPerLine,  \* MAX_CODE_PER_LINE
          MaxFwDecl    \* cfg_MAX_FW_DECL

\* The tokens that come with a name, and what the scanner makes of a line.
Naming == {"LET", "ELEM", "DIM", "CONST", "FOR", "LABEL", "REF", "GOTO", "GOSUB"}
Token == {w \in [t : STRING, n : Names \cup {NoName}] : w.t \in Naming => w.n \in Names}

ASSUME NoNameAssumption == NoName \notin Names
ASSUME LinesAssumption == IsFiniteSet(Names) /\ Lines \subseteq Seq(Token)
ASSUME BoundsAssumption == {MaxLines, MaxErrors, MaxCode, MaxPerLine, MaxFwDecl} \subseteq Nat

VARIABLES
    at,         \* where the compiler is: "line" get_line, "start" of a line,
                \* "stmts" in compile_stmts, "check" behind a statement, "tail"
                \* behind the call on top of calls, "if" and "goto" in
                \* compile_if, "ifret" at its end, "list" and "morelist" in
                \* list_of_numbers, "data" and "moredata" in compile_data,
                \* "done"
    rest,       \* the tokens of the line from p_pos on
    lines,      \* linenum
    eof,        \* get_line has returned false
    calls,      \* the waiting functions, the running one last
    code,       \* p_code[1 .. pc - 1]
    fwd,        \* a_forward_decl[0 .. num_fw_decls - 1]
    table,      \* a_Symbol[StartOfVars ..]
    varIdx,     \* CurrVarIdx
    data,       \* a_data[0 .. data_idx - 1]
    firstData,  \* first_data_declaration
    errors,     \* err_count
    result,     \* "ok" or "failed", what nb_compile has found
    \* History, which no code reads.
    where       \* the address of each name that was set as a label, or 0

text == <<rest, lines, eof>>
output == <<code, fwd, data>>
symbols == <<table, varIdx>>
vars == <<at, rest, lines, eof, calls, code, fwd, table, varIdx, data, firstData,
          errors, result, where>>

-----------------------------------------------------------------------------
EndOfLine == [t |-> "end of line", n |-> NoName]
tok == IF rest = <<>> THEN EndOfLine ELSE Head(rest)
BlockEnd(t) == t.t \in {"ELSE", "ELSEIF", "NEXT", "ENDIF", "LOOP"}
AtToken(t) == tok.t = t

top == calls[Len(calls)]
Waiting(fn) == calls # <<>> /\ top.fn = fn
Phase == IF calls = <<>> THEN "lines" ELSE top.phase   \* as nb_compile does
Callers == SubSeq(calls, 1, Len(calls) - 1)

\* A function that waits for its block: the rest of its line comes first, then
\* whole lines.  One that waits for compile_stmts has no block.
Frame(fn, pos, phase) == [fn |-> fn, pos |-> pos, phase |-> phase]
Block(fn, pos) == Frame(fn, pos, "first")
Statements(fn, pos) == Frame(fn, pos, "none")

pc == Len(code) + 1

\* Which parts of the program a cell belongs to (history, no code reads it).
Parts == [k \in DOMAIN calls |-> calls[k].pos]

Cell(op, n, to) == [op |-> op, n |-> n, to |-> to, parts |-> Parts]
Emit(cell) == code' = Append(code, cell)
Patch(pos, to) == [code EXCEPT ![pos].to = to]
Hole == Cell("GOTO", NoName, 0)

\* error(): the rest of the line and all callers are given up.
Error == /\ errors' = errors + 1
         /\ at' = "line" /\ rest' = <<>> /\ calls' = <<>>
         /\ UNCHANGED <<lines, eof, output, firstData, result, where>>

-----------------------------------------------------------------------------
\* sym_add for a name that the scanner meets.  A label whose address is not
\* known takes the number of the next variable for it.
Known(n) ==
    CASE table[n].type = "none" -> [type |-> "ID", value |-> varIdx]
      [] table[n] = [type |-> "LABEL", value |-> 0]
                                -> [type |-> "LABEL", value |-> varIdx]
      [] OTHER                  -> table[n]
\* Faulty variants of some definitions (their names end in _m and a letter)
\* stand in front of them: they show that the properties notice such faults.
KnownIdx_mA(n) == varIdx + 1                         \* counted each time
KnownIdx(n) == varIdx + IF table[n].type = "none" THEN 1 ELSE 0

SymAdd(n) == /\ table' = [table EXCEPT ![n] = Known(n)]
             /\ varIdx' = KnownIdx(n)

\* label(): what looked like a variable becomes a label.
MayBeLabel(n) == Known(n).type \in {"ID", "LABEL"}
LabelSymbol(n) == [Known(n) EXCEPT !.type = "LABEL"]

AsLabel_mA(n) == KnownIdx(n) - 1                     \* labels counted off twice

AsLabel(n) == KnownIdx(n) - IF Known(n).type = "ID" THEN 1 ELSE 0

Init == /\ at = "line" /\ rest = <<>> /\ lines = 0 /\ eof = FALSE
        /\ calls = <<>> /\ code = <<>> /\ fwd = <<>> /\ data = <<>>
        /\ table = [n \in Names |-> [type |-> "none", value |-> 0]]
        /\ varIdx = 0 /\ firstData = TRUE /\ errors = 0 /\ result = "none"
        /\ where = [n \in Names |-> 0]

-----------------------------------------------------------------------------
\* get_line, called by nb_compile or by compile_block.  It skips leading
\* colons.
Uncolon(line) ==
    LET k == CHOOSE k \in 0 .. Len(line) :
               /\ \A j \in 1 .. k : line[j].t = ":"
               /\ k < Len(line) => line[k + 1].t # ":"
    IN SubSeq(line, k + 1, Len(line))

GetLine == /\ at = "line" /\ ~eof
           /\ lines < MaxLines /\ errors < MaxErrors
           /\ \E line \in Lines : rest' = Uncolon(line)
           /\ lines' = lines + 1
           /\ at' = "start"
           /\ UNCHANGED <<eof, calls, output, symbols, firstData, errors, result,
                          where>>

\* A line that does not fit the buffer is refused; what is left of it is the
\* next line.
LineTooLong == /\ at = "line" /\ ~eof
               /\ lines < MaxLines /\ errors < MaxErrors
               /\ Error /\ UNCHANGED symbols

\* There is no line left, now and whenever a block asks again: p_pos stays
\* where it is, and the waiting function meets what is left of the last line.
EndOfFile == /\ at = "line" /\ (calls = <<>> => ~eof)
             /\ eof' = TRUE
             /\ at' = IF calls = <<>> THEN "line" ELSE "tail"
             /\ UNCHANGED <<rest, lines, calls, output, symbols, firstData, errors,
                            result, where>>

\* compile_block has met the end of the block.
LineEndsBlock == /\ at = "start"
                 /\ calls # <<>> /\ BlockEnd(tok)
                 /\ at' = "tail"
                 /\ UNCHANGED <<text, calls, output, symbols, firstData, errors,
                                result, where>>

InLine == at = "start" /\ (calls = <<>> \/ ~BlockEnd(tok))
LabelHere == AtToken("LABEL") /\ MayBeLabel(tok.n)

\* compile_line.  A name with a colon behind it is a label at this place.
DefineLabel_m(value) ==
    /\ InLine /\ LabelHere
    /\ table' = [table EXCEPT ![tok.n] = [LabelSymbol(tok.n) EXCEPT !.value = value]]
    /\ varIdx' = AsLabel(tok.n) /\ where' = [where EXCEPT ![tok.n] = pc]
    /\ rest' = Tail(rest) /\ at' = "stmts"
    /\ UNCHANGED <<lines, eof, calls, output, firstData, errors, result>>
\* A label that was used before keeps what it had as a variable.
DefineLabel_mA == DefineLabel_m(IF table[tok.n].value = 0 THEN pc ELSE table[tok.n].value)

DefineLabel ==
    /\ InLine /\ LabelHere
    /\ table' = [table EXCEPT ![tok.n] = [type |-> "LABEL", value |-> pc]]
    /\ varIdx' = AsLabel(tok.n)
    /\ where' = [where EXCEPT ![tok.n] = pc]
    /\ rest' = Tail(rest)
    /\ at' = "stmts"
    /\ UNCHANGED <<lines, eof, calls, output, firstData, errors, result>>

NoLabel == /\ InLine /\ ~LabelHere
           /\ at' = "stmts"
           /\ UNCHANGED <<text, calls, output, symbols, firstData, errors, result,
                          where>>

-----------------------------------------------------------------------------
\* compile_stmts returns.  A block that began in this line goes on with the
\* next one; in a line that compile_line works on, the tokens from an end of a
\* block on are lost when get_line reads another one.
StmtsEnd == at = "stmts" /\ (rest = <<>> \/ BlockEnd(tok))

LineDone == /\ StmtsEnd
            /\ Phase = "lines"
            /\ at' = "line"
            /\ UNCHANGED <<text, calls, output, symbols, firstData, errors, result,
                           where>>

FirstLineDone == /\ StmtsEnd
                 /\ Phase = "first"
                 /\ IF rest = <<>>
                    THEN /\ at' = "line"
                         /\ calls' = Append(Callers, [top EXCEPT !.phase = "lines"])
                    ELSE at' = "tail" /\ UNCHANGED calls
                 /\ UNCHANGED <<text, output, symbols, firstData, errors, result,
                                where>>

StatementsDone == /\ StmtsEnd
                  /\ Phase = "none"
                  /\ at' = "tail"
                  /\ UNCHANGED <<text, calls, output, symbols, firstData, errors,
                                 result, where>>

\* The size of the code is looked at behind each statement.
CodeFull == pc >= MaxCode - MaxPerLine

NextStmt == /\ at = "check" /\ ~CodeFull
            /\ at' = "stmts"
            /\ UNCHANGED <<text, calls, output, symbols, firstData, errors, result,
                           where>>

CodeSizeExceeded == at = "check" /\ CodeFull /\ Error /\ UNCHANGED symbols

\* compile_stmt: behind the first DATA only DATA is accepted.
Stmt(t) == /\ at = "stmts" /\ AtToken(t)
           /\ firstData \/ t = "DATA"
Done == /\ at' = "check" /\ rest' = Tail(rest)
        /\ UNCHANGED <<lines, eof, errors, result, where>>

\* These begin with their name: the scanner has met it when they are refused.
NameFirst == {"LET", "ELEM", "LABEL", "REF"}

DataExpected == /\ at = "stmts" /\ rest # <<>> /\ ~BlockEnd(tok)
                /\ ~firstData /\ tok.t # "DATA"
                /\ Error
                /\ IF tok.t \in NameFirst THEN SymAdd(tok.n) ELSE UNCHANGED symbols

\* PRINT, READ, RETURN and the other statements without jumps and names.
Simple == /\ \E t \in {"PRINT", "RETURN", "END"} : Stmt(t)
          /\ Emit(Cell(tok.t, NoName, 0))
          /\ Done /\ UNCHANGED <<calls, fwd, data, symbols, firstData>>

Colon == Stmt(":") /\ Done /\ UNCHANGED <<calls, output, symbols, firstData>>

Remark == /\ Stmt("REM")
          /\ at' = "check" /\ rest' = <<>>
          /\ UNCHANGED <<lines, eof, calls, output, symbols, firstData, errors,
                         result, where>>

\* A label in the middle of a line, THEN without IF, what no statement begins
\* with, and a statement with an error in it.
SyntaxError == /\ \E t \in {"LABEL", "THEN", "REF", "NUM", "STR", "BAD"} : Stmt(t)
               /\ Error
               /\ IF tok.t \in NameFirst THEN SymAdd(tok.n) ELSE UNCHANGED symbols

\* A statement on a name of one of these types; it makes it a name of the given
\* type and leaves these cells.
OnName(t, types, type, cells) ==
    /\ Stmt(t)
    /\ varIdx' = KnownIdx(tok.n)
    /\ IF Known(tok.n).type \in types
       THEN /\ table' = [table EXCEPT ![tok.n] = [Known(tok.n) EXCEPT !.type = type]]
            /\ code' = code \o cells
            /\ Done /\ UNCHANGED <<calls, fwd, data, firstData>>
       ELSE table' = [table EXCEPT ![tok.n] = Known(tok.n)] /\ Error

Let == OnName("LET", {"ID"}, "ID", <<Cell("LET", tok.n, 0)>>)
LetElement == OnName("ELEM", {"ARR"}, "ARR", <<Cell("ELEM", tok.n, 0)>>)
Dim == OnName("DIM", {"ID", "ARR"}, "ARR", <<Cell("DIM", tok.n, 0)>>)
Const == OnName("CONST", {"ID", "ARR", "LABEL", "CONST"}, "CONST", <<>>)

\* A DATA statement: numbers and strings, whose text goes into the code.  The
\* code size is looked at for strings, as the entries come.
DataStmt == /\ Stmt("DATA")
            /\ firstData' = FALSE
            /\ at' = "data" /\ rest' = Tail(rest)
            /\ UNCHANGED <<lines, eof, calls, output, symbols, errors, result, where>>

InData == at \in {"data", "moredata"}
DataEntry(value, cells) ==
    /\ data' = Append(data, value)
    /\ code' = code \o cells
    /\ at' = "moredata" /\ rest' = Tail(rest)
    /\ UNCHANGED <<lines, eof, calls, fwd, symbols, firstData, errors, result, where>>

DataNumber == InData /\ AtToken("NUM") /\ DataEntry(0, <<>>)
DataText == /\ InData /\ AtToken("STR") /\ pc + 1 < MaxCode
            /\ DataEntry(pc, <<Cell("TEXT", NoName, 0)>>)
DataTextTooLong == /\ InData /\ AtToken("STR") /\ pc + 1 >= MaxCode
                   /\ Error /\ UNCHANGED symbols

\* Lists of entries, of DATA and of ON: there is one at least.
ListMissing == /\ \/ at = "data" /\ ~AtToken("NUM") /\ ~AtToken("STR")
                  \/ at = "list" /\ ~AtToken("REF")
               /\ Error /\ UNCHANGED symbols
ListEnd == /\ \/ at = "moredata" /\ ~AtToken("NUM") /\ ~AtToken("STR")
              \/ at = "morelist" /\ ~AtToken("REF")
           /\ at' = "check"
           /\ UNCHANGED <<text, calls, output, symbols, firstData, errors, result,
                          where>>

-----------------------------------------------------------------------------
\* compile_goto, for GOTO, for GOSUB and for each entry of an ON list: the
\* address is filled in by resolve_forward_declarations.
CompileGoto(op, next) ==
    /\ varIdx' = IF MayBeLabel(tok.n) THEN AsLabel(tok.n) ELSE KnownIdx(tok.n)
    /\ table' = [table EXCEPT ![tok.n] =
                   IF MayBeLabel(tok.n) THEN LabelSymbol(tok.n) ELSE Known(tok.n)]
    /\ IF MayBeLabel(tok.n) /\ Len(fwd) < MaxFwDecl
       THEN /\ fwd' = Append(fwd, [n |-> tok.n, pos |-> pc])
            /\ Emit(Cell(op, tok.n, Known(tok.n).value))
            /\ rest' = Tail(rest) /\ at' = next
            /\ UNCHANGED <<lines, eof, calls, data, firstData, errors, result,
                           where>>
       ELSE Error

Goto == Stmt("GOTO") /\ CompileGoto("GOTO", "check")
Gosub == Stmt("GOSUB") /\ CompileGoto("GOSUB", "check")

\* ON ... GOTO and ON ... GOSUB with their lists of labels.
On == /\ Stmt("ON")
      /\ Emit(Cell("ON", NoName, 0))
      /\ at' = "list" /\ rest' = Tail(rest)
      /\ UNCHANGED <<lines, eof, calls, fwd, data, symbols, firstData, errors, result,
                     where>>

ListEntry == /\ at \in {"list", "morelist"} /\ AtToken("REF")
             /\ CompileGoto("GOTO", "morelist")

-----------------------------------------------------------------------------
\* Blocks.  A call is made by pushing a frame, and taken up again at "tail".
Enter(frame, next) ==
    /\ calls' = Append(calls, frame)
    /\ at' = next /\ rest' = Tail(rest)
    /\ UNCHANGED <<lines, eof, fwd, data, firstData, errors, result, where>>

\* The same with a token of which the running function makes use.
Turn(frame, next) ==
    /\ calls' = Append(Callers, frame)
    /\ at' = next /\ rest' = Tail(rest)
    /\ UNCHANGED <<lines, eof, fwd, data, symbols, firstData, errors, result, where>>

Leave_mA(next, left) ==                              \* stays in the block
    /\ at' = next /\ rest' = left
    /\ UNCHANGED <<lines, eof, calls, fwd, data, firstData, errors, result, where>>

Leave(next, left) ==
    /\ calls' = Callers
    /\ at' = next /\ rest' = left
    /\ UNCHANGED <<lines, eof, fwd, data, firstData, errors, result, where>>

For == /\ Stmt("FOR")
       /\ SymAdd(tok.n)
       /\ \/ /\ Known(tok.n).type = "ID"
             /\ Emit(Cell("FOR", tok.n, 0))
             /\ Enter(Block("for", pc), "stmts")
          \/ Known(tok.n).type # "ID" /\ Error

AtNext == at = "tail" /\ Waiting("for") /\ AtToken("NEXT")

\* NEXT alone, or with the name of the loop if that is still a variable.
NextOfLoop == tok.n = NoName \/ (tok.n = code[top.pos].n /\ table[tok.n].type = "ID")

NextTail == /\ AtNext /\ NextOfLoop
            /\ Emit(Cell("NEXT", code[top.pos].n, top.pos + 1))
            /\ Leave("check", Tail(rest)) /\ UNCHANGED symbols

NextMismatched == /\ AtNext /\ ~NextOfLoop
                  /\ Error /\ SymAdd(tok.n)

While == /\ Stmt("WHILE")
         /\ Emit(Cell("IF", NoName, 0))
         /\ Enter(Block("while", pc), "stmts") /\ UNCHANGED symbols

LoopTail == /\ at = "tail" /\ Waiting("while") /\ AtToken("LOOP")
            /\ code' = Append(Patch(top.pos, pc + 1), Cell("GOTO", NoName, top.pos))
            /\ Leave("check", Tail(rest)) /\ UNCHANGED symbols

\* compile_if: the condition, then a block, the statements of the line, or a
\* GOTO.
If == Stmt("IF")
      /\ at' = "if" /\ rest' = Tail(rest)
      /\ UNCHANGED <<lines, eof, calls, output, symbols, firstData, errors, result,
                     where>>

IfThen == /\ at = "if" /\ AtToken("THEN")
          /\ Emit(Cell("IF", NoName, 0))
          /\ Enter(IF Tail(rest) = <<>> THEN Block("if", pc) ELSE Statements("then", pc),
                   "stmts")
          /\ UNCHANGED symbols

IfGoto == /\ at = "if" /\ AtToken("GOTO")
          /\ Emit(Cell("IF", NoName, 0))
          /\ calls' = Append(calls, Statements("then", pc))
          /\ at' = "goto"
          /\ UNCHANGED <<text, fwd, data, symbols, firstData, errors, result, where>>

ThenGoto == at = "goto" /\ CompileGoto("GOTO", "tail")

IfBad == /\ at = "if" /\ ~AtToken("THEN") /\ ~AtToken("GOTO")
         /\ Error /\ UNCHANGED symbols

\* compile_if_V2 behind the block of IF.
Else_m(to) == /\ at = "tail" /\ Waiting("if") /\ AtToken("ELSE")
              /\ code' = Append(Patch(top.pos, to), Hole)
              /\ Turn(Block("else", pc), "stmts")
Else_mA == Else_m(pc)                                  \* onto the jump

ElseIf == /\ at = "tail" /\ Waiting("if") /\ AtToken("ELSEIF")
          /\ code' = Append(Patch(top.pos, pc + 1), Hole)
          /\ Turn(Statements("elseif", pc), "if")

Else == /\ at = "tail" /\ Waiting("if") /\ AtToken("ELSE")
        /\ code' = Append(Patch(top.pos, pc + 1), Hole)
        /\ Turn(Block("else", pc), "stmts")

EndIf == /\ at = "tail" /\ (Waiting("if") \/ Waiting("else")) /\ AtToken("ENDIF")
         /\ code' = Patch(top.pos, pc)
         /\ Leave("ifret", Tail(rest)) /\ UNCHANGED symbols

\* compile_if behind the statements of its line.
ElseHere == /\ at = "tail" /\ Waiting("then") /\ AtToken("ELSE")
            /\ code' = Append(Patch(top.pos, pc + 1), Hole)
            /\ Turn(Statements("otherwise", pc), "stmts")

IfLineEnd == /\ at = "tail"
             /\ \/ Waiting("then") /\ ~AtToken("ELSE")
                \/ Waiting("otherwise")
             /\ code' = Patch(top.pos, pc)
             /\ Leave("ifret", rest) /\ UNCHANGED symbols

\* compile_if returns, to compile_if_V2 or to compile_stmt.
ElseIfReturns == /\ at = "ifret" /\ Waiting("elseif")
                 /\ code' = Patch(top.pos, pc)
                 /\ Leave("ifret", rest) /\ UNCHANGED symbols

IfReturns == /\ at = "ifret" /\ ~Waiting("elseif")
             /\ at' = "check"
             /\ UNCHANGED <<text, calls, output, symbols, firstData, errors, result,
                            where>>

\* The block ends with the wrong token or with the file.
Closes == CASE top.fn = "for"   -> AtToken("NEXT")
            [] top.fn = "while" -> AtToken("LOOP")
            [] top.fn = "if"    -> AtToken("ELSEIF") \/ AtToken("ELSE") \/ AtToken("ENDIF")
            [] top.fn = "else"  -> AtToken("ENDIF")

BlockNotClosed == /\ at = "tail" /\ Phase # "none" /\ ~Closes
                  /\ Error /\ UNCHANGED symbols

-----------------------------------------------------------------------------
\* nb_compile behind the last line.
AtEnd == at = "line" /\ eof /\ calls = <<>>

Finish(r) == /\ at' = "done" /\ result' = r
             /\ UNCHANGED <<text, calls, symbols, firstData, errors, where>>

Failed == AtEnd /\ errors > 0 /\ Finish("failed") /\ UNCHANGED output

\* compile_end and append_data_to_code: END and the tag of the data section
\* come behind the code, then the data.
FinalCode == code \o <<Cell("END", NoName, 0), Cell("TAG", NoName, 0)>>
DataFits == Len(FinalCode) + 1 + Len(data) < MaxCode

Address(n) == IF table[n].type = "LABEL" THEN table[n].value ELSE 0
Resolved == \A k \in DOMAIN fwd : Address(fwd[k].n) > 0

Target(a) ==
    LET ks == {k \in DOMAIN fwd : fwd[k].pos = a}
    IN IF ks = {} THEN code[a].to ELSE Address(fwd[CHOOSE k \in ks : TRUE].n)

\* resolve_forward_declarations
Compiled == /\ AtEnd /\ errors = 0 /\ DataFits /\ Resolved
            /\ code' = [a \in DOMAIN FinalCode |->
                          IF a \in DOMAIN code THEN [code[a] EXCEPT !.to = Target(a)]
                                               ELSE FinalCode[a]]
            /\ fwd' = <<>>
            /\ Finish("ok") /\ UNCHANGED data

NotResolved == /\ AtEnd /\ errors = 0 /\ ~(DataFits /\ Resolved)
               /\ Error /\ UNCHANGED symbols

-----------------------------------------------------------------------------
Reading == \/ GetLine \/ LineTooLong \/ EndOfFile
           \/ LineEndsBlock \/ DefineLabel \/ NoLabel
           \/ LineDone \/ FirstLineDone \/ StatementsDone
           \/ NextStmt \/ CodeSizeExceeded \/ DataExpected

Statement == \/ Simple \/ Colon \/ Remark \/ SyntaxError
             \/ Let \/ LetElement \/ Dim \/ Const
             \/ DataStmt \/ DataNumber \/ DataText \/ DataTextTooLong
             \/ Goto \/ Gosub \/ On \/ ListEntry \/ ListMissing \/ ListEnd

Blocks == \/ For \/ NextTail \/ NextMismatched \/ While \/ LoopTail
          \/ If \/ IfThen \/ IfGoto \/ ThenGoto \/ IfBad
          \/ ElseIf \/ Else \/ EndIf \/ ElseHere \/ IfLineEnd
          \/ ElseIfReturns \/ IfReturns \/ BlockNotClosed

Next == Reading \/ Statement \/ Blocks \/ Failed \/ Compiled \/ NotResolved

\* The compiler does not wait for anything: a text is a file.
Spec == Init /\ [][Next]_vars /\ WF_vars(Next)

-----------------------------------------------------------------------------
Types == {"none", "ID", "ARR", "CONST", "LABEL"}

(* The type invariant.                                                     *)
TypeOK == /\ table \in [Names -> [type : Types, value : Nat]]
          /\ varIdx \in 0 .. Cardinality(Names)
          /\ where \in [Names -> Nat]
          /\ \A k \in DOMAIN fwd : fwd[k].n \in Names /\ fwd[k].pos \in DOMAIN code
          /\ \A k \in DOMAIN calls : calls[k].pos \in DOMAIN code
          /\ lines \in 0 .. MaxLines /\ errors \in 0 .. MaxErrors + 1
          /\ result \in {"none", "ok", "failed"}

OK == result = "ok"
Jumps(n) == {a \in DOMAIN code : code[a].n = n /\ code[a].op \in {"GOTO", "GOSUB"}}

(* In a program that the compiler accepts every jump to a name that is a   *)
(* label somewhere leads to that place, the last one if there are several, *)
(* wherever the jumps, the label and the variables come in the text.       *)
JumpsReachLabels ==
    OK => \A n \in Names : \A a \in Jumps(n) : where[n] # 0 => code[a].to = where[n]

Part(a) == {b \in DOMAIN code : \E k \in DOMAIN code[b].parts : code[b].parts[k] = a}

(* The jumps that blocks are made of go where the text says: one that      *)
(* skips a part of the program skips all of that part and nothing else,    *)
(* however blocks, single-line IFs and ELSEIF chains are nested; LOOP goes *)
(* to the condition of its own WHILE, and NEXT behind its own FOR.         *)
JumpsSpanParts ==
    OK => \A a \in DOMAIN code :
            LET c == code[a] IN
            /\ (c.op = "IF" \/ (c.op = "GOTO" /\ c.n = NoName /\ c.to > a))
                 => c.to \in DOMAIN code /\ Part(a) = a + 1 .. c.to - 1
            /\ (c.op = "GOTO" /\ c.n = NoName /\ c.to <= a)
                 => c.to \in DOMAIN code /\ code[c.to].op = "IF" /\ code[c.to].to = a + 1
            /\ c.op = "NEXT"
                 => \E f \in DOMAIN code : /\ code[f].op = "FOR" /\ code[f].n = c.n
                                           /\ c.to = f + 1 /\ Part(f) = f + 1 .. a
            /\ c.op = "FOR" => \E b \in Part(a) : code[b].op = "NEXT" /\ code[b].to = a + 1

(* Two variables have two places in the machine, although labels are taken *)
(* for variables first and give the number back.                           *)
VariablesApart ==
    \A m, n \in Names :
       m # n /\ {table[m].type, table[n].type} \subseteq {"ID", "ARR"}
         => table[m].value # table[n].value

(* A file comes to its end, with or without errors.                        *)
CompileEnds == <>(at = "done")

=============================================================================
