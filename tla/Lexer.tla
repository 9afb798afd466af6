-------------------------------- MODULE Lexer --------------------------------
(***************************************************************************)
(* The lexer (crates/sneklsp_lexer/src/lexer.rs) as operators on its       *)
(* state.  A text is a sequence of characters and an offset the number of  *)
(* characters before it.  Characters are strings: blanks and newlines are  *)
(* "sp", "tab", "cr" and "nl", punctuation and digits stand for            *)
(* themselves, and any other string is a piece of a name or a keyword, one *)
(* byte long.                                                              *)
(***************************************************************************)
EXTENDS Integers, Sequences, SequencesExt, FiniteSets, TLC

Blank  == {"sp", "tab", "cr"}
Digit  == {"0", "1"}
Quote  == {"'", "\""}
Opener == {"(", "[", "{"}
Closer == {")", "]", "}"}

Keyword ==
  {"and", "as", "assert", "async", "await", "break", "class", "continue",
   "def", "del", "elif", "else", "except", "False", "finally", "for", "from",
   "global", "if", "import", "in", "is", "lambda", "None", "nonlocal", "not",
   "or", "pass", "raise", "return", "True", "try", "while", "with", "yield"}

\* Operators of one byte, and of two, with their tokens.
OneByte == {":", ",", ";", "@", "~", ".", "+", "-", "*", "/", "%", "&", "|",
            "^", "<", ">", "="}

TwoBytes ==
  {<<":", "=", ":=">>, <<"+", "=", "+=">>, <<"-", ">", "->">>, <<"-", "=", "-=">>,
   <<"*", "*", "**">>, <<"*", "=", "*=">>, <<"/", "/", "//">>, <<"/", "=", "/=">>,
   <<"%", "=", "%=">>, <<"&", "=", "&=">>, <<"|", "=", "|=">>, <<"^", "=", "^=">>,
   <<"<", "<", "<<">>, <<"<", "=", "<=">>, <<">", ">", ">>">>, <<">", "=", ">=">>,
   <<"=", "=", "==">>, <<"!", "=", "!=">>}

Punctuation ==
  OneByte \cup Opener \cup Closer \cup Quote \cup Blank
          \cup {"nl", "#", "\\", "!", "end"}

InName(c) == c \notin Punctuation

\* peek, o bytes into t.
At(t, o) == IF o < Len(t) THEN t[o + 1] ELSE "end"

\* The offset at which a scan from o ends that passes certain bytes.
Pass(t, o, bytes) ==
  CHOOSE e \in o .. Len(t) : /\ \A i \in o .. e - 1 : At(t, i) \in bytes
                             /\ e = Len(t) \/ At(t, e) \notin bytes

Thrice(t, o, q) == \A i \in o .. o + 2 : At(t, i) = q

Least(a, b) == IF a < b THEN a ELSE b

Token(k, a, b) == [kind |-> k, start |-> a, end |-> b]

\* Lexer::new
NewLexer ==
  [pos |-> 0, indents |-> <<0>>, pending |-> <<>>, fresh |-> TRUE,
   done |-> FALSE, depth |-> 0, fstrings |-> <<>>]

\* Fault: the stack pending_tokens is cleared when one token is taken.
PoppedAll(s) == [lexer |-> [s EXCEPT !.pending = <<>>],
                 token |-> Last(s.pending)]

\* pending_tokens.pop()
Popped(s) == [lexer |-> [s EXCEPT !.pending = Front(@)],
              token |-> Last(s.pending)]

Lower(n) == IF n = 0 THEN 0 ELSE n - 1

\* Fault: the depth goes below zero at a bracket that closes nothing.
WrapBracketDepth(s) == [s EXCEPT !.depth = @ - 1]

\* Fault: any closing bracket closes all.
ResetBracketDepth(s) == [s EXCEPT !.depth = 0]

\* decrement_bracket_depth
DecrementBracketDepth(s) == [s EXCEPT !.depth = Lower(@)]

\* Emit the bytes up to e as one token.
Upto(s, k, e) == [lexer |-> [s EXCEPT !.pos = e], token |-> Token(k, s.pos, e)]
-------------------------------------------------------------------------------
(***************************************************************************)
(* Scans.  A loop over the text is a function next on its offsets: it goes *)
(* from o to next[o] until it stays where it is.                           *)
(***************************************************************************)
\* Where the loop ends, as a function of where it starts.
Follow(next) ==
  LET f[o \in DOMAIN next] == IF next[o] = o THEN o ELSE f[next[o]]
  IN  f

\* What it collects on the way, found[o] being what it finds at o.
Gather(next, found) ==
  LET f[o \in DOMAIN next] == IF next[o] = o THEN found[o]
                              ELSE found[o] \o f[next[o]]
  IN  f

\* skip_whitespace; inside brackets next_token passes newlines as well.
PassWhitespace(t, depth) ==
  [o \in 0 .. Len(t) |->
     IF At(t, o) \in Blank \/ (At(t, o) = "nl" /\ depth > 0) THEN o + 1
     ELSE IF At(t, o) = "\\" /\ At(t, o + 1) = "nl" THEN o + 2
     ELSE o]

SkipWhitespace(t, depth) == Follow(PassWhitespace(t, depth))

\* scan_string, behind the opening quotes.
StopsString(t, o, q, triple) ==
  \/ o = Len(t)
  \/ At(t, o) = "nl" /\ ~ triple
  \/ At(t, o) = q /\ (~ triple \/ Thrice(t, o, q))

PassString(t, q, triple) ==
  [o \in 0 .. Len(t) |->
     IF StopsString(t, o, q, triple) THEN o
     ELSE IF At(t, o) = "\\" THEN Least(o + 2, Len(t))
     ELSE o + 1]

ScanString(t, o, q, triple) ==
  LET e == Follow(PassString(t, q, triple))[o]
  IN  IF At(t, e) = q
      THEN [kind |-> "string", end |-> IF triple THEN e + 3 ELSE e + 1]
      ELSE [kind |-> "error", end |-> e]

Closes(t, o, f) == IF f.triple THEN Thrice(t, o, f.quote)
                   ELSE At(t, o) = f.quote

Doubled(t, o) == At(t, o) \in {"{", "}"} /\ At(t, o + 1) = At(t, o)

\* Fault: a newline ends the literal of a triple-quoted f-string as well.
StopsAtLine(t, o, f) == At(t, o) \in {"{", "nl"} \/ Closes(t, o, f)

StopsLiteral(t, o, f) ==
  At(t, o) = "{" \/ Closes(t, o, f) \/ (At(t, o) = "nl" /\ ~ f.triple)

\* scan_fstring_literal: where it stops, in f-string f.
PassLiteral(t, f) ==
  [o \in 0 .. Len(t) |->
     IF o = Len(t) THEN o
     ELSE IF Doubled(t, o) THEN o + 2
     ELSE IF StopsLiteral(t, o, f) THEN o
     ELSE IF At(t, o) = "\\" THEN Least(o + 2, Len(t))
     ELSE o + 1]

ScanFStringLiteral(t, f) == Follow(PassLiteral(t, f))

CommentEnd(t, o) == Pass(t, o, Range(t) \ {"nl"})

\* The column an indentation reaches: tabs go to multiples of 8.
Column(t, a, b) ==
  LET column[o \in 0 .. b - a] ==
        IF o = 0 THEN 0
        ELSE LET n == column[o - 1]
             IN  IF At(t, a + o - 1) = "sp" THEN n + 1 ELSE n + 8 - (n % 8)
  IN  column[b - a]

\* The loop of handle_indentation over lines that are blank or a comment:
\* the comments passed, and where the indentation that counts lies.
IndentEnd(t, o) == Pass(t, o, {"sp", "tab"})

PassLine(t) ==
  [o \in 0 .. Len(t) |->
     LET b == IndentEnd(t, o)
         e == CommentEnd(t, b)
     IN  IF At(t, b) = "nl" THEN b + 1
         ELSE IF At(t, b) = "#" /\ e < Len(t) THEN e + 1
         ELSE o]

CommentOfLine(t) ==
  [o \in 0 .. Len(t) |->
     LET b == IndentEnd(t, o)
     IN  IF At(t, b) = "#" THEN <<Token("comment", b, CommentEnd(t, b))>>
         ELSE <<>>]

PassBlankLines(t, o) ==
  LET a == Follow(PassLine(t))[o]
      b == IndentEnd(t, a)
  IN  [start |-> a, end |-> IF At(t, b) = "#" THEN CommentEnd(t, b) ELSE b,
       comments |-> Gather(PassLine(t), CommentOfLine(t))[o]]
-------------------------------------------------------------------------------
(***************************************************************************)
(* Tokens: each operator returns the state after and the token.            *)
(***************************************************************************)
\* f"..." is read by parts: s is inside one, and not inside a hole of it.
InFString(s) == s.fstrings # <<>> /\ Last(s.fstrings).braces = 0

LiteralEnd(t, s) == ScanFStringLiteral(t, Last(s.fstrings))[s.pos]

EntersHole(t, o) == At(t, o) = "{" /\ ~ Doubled(t, o)

\* scan_fstring_content calls scan_fstring_literal, which calls it back when
\* it consumed nothing: where neither of them does, they never return.
NeverReturns(t, s) ==
  /\ s.pending = <<>> /\ InFString(s) /\ s.pos < Len(t)
  /\ ~ Closes(t, s.pos, Last(s.fstrings)) /\ ~ EntersHole(t, s.pos)
  /\ LiteralEnd(t, s) = s.pos

ScanFStringContent(t, s) ==
  LET f    == Last(s.fstrings)
      left == [s EXCEPT !.fstrings = Front(@)]
      hole == [s EXCEPT !.fstrings[Len(s.fstrings)].braces = 1,
                        !.depth = @ + 1]
  IN  IF s.pos = Len(t) THEN Upto(left, "error", s.pos)
      ELSE IF Closes(t, s.pos, f)
        THEN Upto(left, "fend", s.pos + (IF f.triple THEN 3 ELSE 1))
      ELSE IF EntersHole(t, s.pos) THEN Upto(hole, "{", s.pos + 1)
      ELSE Upto(s, "flit", LiteralEnd(t, s))

\* handle_indentation, behind the blank lines: the line whose indentation
\* counts.  The token is None, "none" here, when the line is as indented as
\* the one before, or at the end of the text.
IndentLine(t, s, line) ==
  LET width == Column(t, line.start, line.end)
      at    == [s EXCEPT !.pos = line.end, !.pending = line.comments]
      deeper == {i \in DOMAIN s.indents : s.indents[i] > width}
      dedent == Token("dedent", line.start, line.end)
  IN  IF line.comments # <<>> /\ Last(line.comments).end = Len(t) THEN Popped(at)
      ELSE IF line.end = Len(t) \/ (width <= Last(s.indents) /\ deeper = {})
        THEN [lexer |-> at, token |-> Token("none", 0, 0)]
      ELSE IF width > Last(s.indents)
        THEN [lexer |-> [at EXCEPT !.indents = Append(@, width)],
              token |-> Token("indent", line.start, line.end)]
      ELSE Popped([at EXCEPT
             !.indents = SubSeq(@, 1, Len(@) - Cardinality(deeper)),
             !.pending = @ \o [i \in 1 .. Cardinality(deeper) |-> dedent]])

HandleIndentation(t, s) == IndentLine(t, s, PassBlankLines(t, s.pos))

\* Fault: the blocks still open at the end of the text stay open.
EndOfTextOpen(s) == [lexer |-> [s EXCEPT !.done = TRUE],
                     token |-> Token("eof", s.pos, s.pos)]

\* At the end of the text: the blocks still open are closed, once.
EndOfText(s) ==
  LET open   == Len(s.indents) - 1
      dedent == Token("dedent", s.pos, s.pos)
      closed == [s EXCEPT !.done = TRUE, !.indents = <<0>>,
                   !.pending = @ \o [i \in 1 .. open |-> dedent]]
  IN  IF ~ s.done /\ closed.pending # <<>> THEN Popped(closed)
      ELSE [lexer |-> [s EXCEPT !.done = TRUE],
            token |-> Token("eof", s.pos, s.pos)]

\* enter_fstring, the opening quote being the byte before o.
EnterFString(t, s, o) ==
  LET q == At(t, o - 1)
      triple == Thrice(t, o - 1, q)
      inside == [s EXCEPT !.fstrings =
                   Append(@, [quote |-> q, triple |-> triple, braces |-> 0])]
  IN  Upto(inside, "fstart", IF triple THEN o + 2 ELSE o)

ReadString(t, s, o) ==
  LET q == At(t, o - 1)
      triple == Thrice(t, o - 1, q)
      r == ScanString(t, IF triple THEN o + 2 ELSE o, q, triple)
  IN  Upto(s, r.kind, r.end)

FPrefixes == {<<"f">>, <<"f", "r">>, <<"r", "f">>}

StringPrefixes ==
  {<<"r">>, <<"b">>, <<"u">>, <<"b", "r">>, <<"r", "b">>}

\* scan_identifier: a prefix of a string, a keyword or a name.
ScanIdentifier(t, s) ==
  LET e    == Pass(t, s.pos, Range(t) \ Punctuation)
      text == SubSeq(t, s.pos + 1, e)
  IN  IF At(t, e) \in Quote /\ text \in FPrefixes THEN EnterFString(t, s, e + 1)
      ELSE IF At(t, e) \in Quote /\ text \in StringPrefixes
        THEN ReadString(t, s, e + 1)
      ELSE Upto(s, IF Len(text) = 1 /\ text[1] \in Keyword
                   THEN text[1] ELSE "name", e)

\* scan_number, from the first digit or the dot before it.
ScanNumber(t, s) ==
  LET int   == Pass(t, s.pos + 1, Digit)
      point == At(t, int) = "." /\ At(t, int + 1) \in Digit
      frac  == IF point THEN Pass(t, int + 1, Digit) ELSE int
      sign  == IF At(t, frac + 1) \in {"+", "-"} THEN 2 ELSE 1
      exp   == At(t, frac) = "e"
  IN  Upto(s, IF point \/ exp THEN "float" ELSE "int",
           IF exp THEN Pass(t, frac + sign, Digit) ELSE frac)

\* "}" ends a hole of an f-string or lowers the depth of braces in it.
LeaveBrace(s) ==
  IF s.fstrings # <<>> /\ Last(s.fstrings).braces > 0
  THEN [s EXCEPT !.fstrings[Len(s.fstrings)].braces = @ - 1] ELSE s

EnterBrace(s) ==
  IF s.fstrings # <<>> THEN [s EXCEPT !.fstrings[Len(s.fstrings)].braces = @ + 1]
  ELSE s

ScanBracket(t, s) ==
  LET c == At(t, s.pos)
      o == IF c = "{" THEN EnterBrace(s) ELSE s
      l == IF c = "}" THEN LeaveBrace(s) ELSE s
  IN  Upto(IF c \in Opener THEN [o EXCEPT !.depth = @ + 1]
           ELSE DecrementBracketDepth(l), c, s.pos + 1)

ScanOperator(t, s) ==
  LET c    == At(t, s.pos)
      long == {w \in TwoBytes : w[1] = c /\ w[2] = At(t, s.pos + 1)}
  IN  IF long # {} THEN Upto(s, (CHOOSE w \in long : TRUE)[3], s.pos + 2)
      ELSE IF Thrice(t, s.pos, ".") THEN Upto(s, "...", s.pos + 3)
      ELSE Upto(s, IF c \in OneByte THEN c ELSE "error", s.pos + 1)

\* next_token, at the first byte of a token.
ReadNext(t, s) ==
  LET c == At(t, s.pos)
  IN  IF s.pos = Len(t) THEN EndOfText(s)
      ELSE IF c = "#" THEN Upto(s, "comment", CommentEnd(t, s.pos))
      ELSE IF c \in Opener \cup Closer THEN ScanBracket(t, s)
      ELSE IF c = "nl" THEN Upto([s EXCEPT !.fresh = TRUE], "newline", s.pos + 1)
      ELSE IF c \in Quote THEN ReadString(t, s, s.pos + 1)
      ELSE IF c \in Digit \/ (c = "." /\ At(t, s.pos + 1) \in Digit)
        THEN ScanNumber(t, s)
      ELSE IF InName(c) THEN ScanIdentifier(t, s)
      ELSE ScanOperator(t, s)

\* next_token, once indentation has been dealt with.
NextInLine(t, s) ==
  ReadNext(t, [s EXCEPT !.pos = SkipWhitespace(t, s.depth)[s.pos]])

\* n is what handle_indentation returned: with no token the line is read.
NextBehind(t, n) ==
  IF n.token.kind = "none" THEN NextInLine(t, n.lexer) ELSE n

\* next_token, without the tokens that wait.
NextInText(t, s) ==
  IF InFString(s) THEN ScanFStringContent(t, s)
  ELSE IF s.fresh /\ s.pos < Len(t)
    THEN LET stale == [s EXCEPT !.fresh = FALSE]
         IN  IF s.depth > 0 THEN NextInLine(t, stale)
             ELSE NextBehind(t, HandleIndentation(t, stale))
  ELSE NextInLine(t, s)

\* next_token
NextToken(t, s) == IF s.pending # <<>> THEN Popped(s) ELSE NextInText(t, s)

\* tokenize: the tokens of t before Eof.  There are twice as many tokens as
\* bytes at most: the bound on the calls loses nothing.
NothingRead == [lexer |-> NewLexer, tokens |-> <<>>, over |-> FALSE]

ReadOne(t, r) ==
  LET n == NextToken(t, r.lexer)
  IN  IF r.over \/ NeverReturns(t, r.lexer) THEN r
      ELSE IF n.token.kind = "eof" THEN [r EXCEPT !.over = TRUE]
      ELSE [r EXCEPT !.lexer = n.lexer, !.tokens = Append(@, n.token)]

Tokenize(t) ==
  LET read[i \in 0 .. 3 * Len(t) + 3] ==
        IF i = 0 THEN NothingRead ELSE ReadOne(t, read[i - 1])
  IN  read[3 * Len(t) + 3]
===============================================================================
