------------------------------ MODULE NbScanner ------------------------------
(***************************************************************************)
(* The scanner (src/src/nb_scanner.c) and what next_token of the compiler  *)
(* makes of its buffer.  A character is a string of length one, a line a   *)
(* sequence of them.                                                       *)
(***************************************************************************)
EXTENDS Integers, Sequences, SequencesExt

CONSTANTS Letters, Digits,
          Number,     \* what atoi makes of digits
          Symbols     \* name -> the type of its symbol (keywords, arrays ...)

Blanks == {" ", "\t", "\r"}
Comps == {"<", "=", ">"}
Ariths == {"!", "%", "&", "*", "+", "-", "/"}
Quote == "\""

From(s, i) == SubSeq(s, i, Len(s))

\* The characters in front of the first one that is not in Class.
Run(s, Class) == LET i == SelectInSeq(s, LAMBDA c : c \notin Class)
                 IN IF i = 0 THEN s ELSE SubSeq(s, 1, i - 1)

Name(s) == LET word == Run(s, Letters \cup Digits)
               next == From(s, Len(word) + 1)
           IN IF next # <<>> /\ next[1] = "$" THEN Append(word, "$") ELSE word

\* A text in quotes; without a second one the scanner leaves the line.
Quoted(s) == LET i == SelectInSeq(Tail(s), LAMBDA c : c = Quote)
             IN IF i = 0 THEN <<"astray">> ELSE SubSeq(s, 1, i + 1)

\* nb_scanner: the next piece of a line, and the rest of the line.
Piece(s) == IF s = <<>> \/ s[1] = "'" THEN <<>>
            ELSE CASE s[1] \in Letters -> Name(s)
                   [] s[1] \in Digits  -> Run(s, Digits)
                   [] s[1] \in Comps   -> Run(s, Comps)
                   [] s[1] \in Ariths  -> Run(s, Ariths)
                   [] s[1] = Quote     -> Quoted(s)
                   [] OTHER            -> <<s[1]>>

nb_scanner(line) == LET s == From(line, Len(Run(line, Blanks)) + 1)
                        piece == Piece(s)
                    IN [buff |-> piece,
                        next |-> IF piece = <<>> THEN <<>> ELSE From(s, Len(piece) + 1)]

Token(k, v) == [kind |-> k, value |-> v]
EndOfLine == Token("end", 0)

\* Two characters of a comparison; for ">" the first one is compared twice.
Comparison(buff) ==
    LET second == IF Len(buff) > 1 THEN buff[2] ELSE ""
    IN CASE buff[1] = "=" -> "EQ"
         [] buff[1] = "<" -> (CASE second = "=" -> "LQ" [] second = ">" -> "NQ" [] OTHER -> "LE")
         [] buff[1] = ">" -> IF buff[1] = "=" THEN "GQ" ELSE "GR"

\* next_token
TokenOf(buff) ==
    IF buff = <<>> THEN EndOfLine
    ELSE CASE buff = <<"astray">> -> Token("astray", 0)
           [] buff[1] = Quote -> Token("STR", SubSeq(buff, 2, Len(buff) - 1))
           [] buff[1] \in Digits -> Token("NUM", Number[buff])
           [] buff[1] \in Letters ->
                 Token(IF buff \in DOMAIN Symbols THEN Symbols[buff]
                       ELSE IF Last(buff) = "$" THEN "SID" ELSE "ID", buff)
           [] buff[1] \in Comps -> Token(Comparison(buff), 0)
           [] OTHER -> Token(IF Len(buff) = 1 THEN buff[1] ELSE "unknown", 0)

\* The tokens of a line, as lookahead and next give them to the compiler.
Tokenized[line \in Seq(STRING)] ==
    LET scanned == nb_scanner(line)
    IN IF scanned.buff = <<>> THEN <<>>
       ELSE <<TokenOf(scanned.buff)>> \o Tokenized[scanned.next]
=============================================================================
