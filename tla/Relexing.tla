------------------------------- MODULE Relexing -------------------------------
(***************************************************************************)
(* Reading a text token by token (crates/sneklsp_lexer/src/lib.rs), and    *)
(* then again in part after an edit (incremental.rs).                      *)
(***************************************************************************)
EXTENDS Lexer

CONSTANTS
  Texts,          \* the texts read
  Edited,         \* those of them that are edited then
  Insertions,     \* what edits insert
  MaxDeleted,     \* bound on the bytes an edit deletes
  MinIncremental  \* relex: 1000, the length below which all is read again

ASSUME RelexingAssumption ==
  /\ Texts \subseteq Seq(STRING) /\ Insertions \subseteq Seq(STRING)
  /\ MaxDeleted \in Nat /\ MinIncremental \in Nat

VARIABLES
  text,   \* the text the tokens are of
  lexer,  \* the Lexer reading it
  tokens, \* the tokens returned so far
  phase,  \* "reading", "read", "relexed"
  before, \* history: the text before the edit
  slice   \* history: the bounds of the region relex read

vars == <<text, lexer, tokens, phase, before, slice>>

Init == /\ text \in Texts
        /\ lexer = NewLexer /\ tokens = <<>>
        /\ phase = "reading" /\ before = text /\ slice = <<0, 0>>

\* Lexer::next, called by tokenize until it returns None.
ReadToken ==
  /\ phase = "reading" /\ ~ NeverReturns(text, lexer)
  /\ \E n \in {NextToken(text, lexer)} :
       /\ lexer' = n.lexer
       /\ IF n.token.kind = "eof"
          THEN phase' = "read" /\ UNCHANGED tokens
          ELSE tokens' = Append(tokens, n.token) /\ UNCHANGED phase
  /\ UNCHANGED <<text, before, slice>>

\* scan_fstring_content calls scan_fstring_literal and so on.
Recurse == /\ phase = "reading" /\ NeverReturns(text, lexer)
           /\ UNCHANGED vars
-------------------------------------------------------------------------------
\* edit_is_large; the edit replaces [a, b) by n bytes.
EditIsLarge(a, b, n, len) == b - a > len \div 4 \/ n > len \div 4

\* find_first_affected: partition_point, a binary search that takes for
\* granted that the tokens that end at or before a come first.  It halves the
\* part of the tokens that is left, from base on, until one token is.
Halve(toks, a, s) ==
  LET half == s.size \div 2
      mid  == s.base + half
  IN  IF s.size <= 1 THEN s
      ELSE [size |-> s.size - half,
            base |-> IF toks[mid + 1].end <= a THEN mid ELSE s.base]

FirstAffected(toks, a) ==
  LET search[n \in 0 .. Len(toks)] ==
        IF n = 0 THEN [size |-> Len(toks), base |-> 0]
        ELSE Halve(toks, a, search[n - 1])
      base == search[Len(toks)].base
  IN  IF toks = <<>> THEN 0
      ELSE IF toks[base + 1].end <= a THEN base + 1 ELSE base

\* is_inside_fstring; an end without a start does not count.
InsideFString(toks) ==
  FoldLeft(LAMBDA n, k : CASE k.kind = "fstart" -> n + 1
                           [] k.kind = "fend" -> Lower(n)
                           [] OTHER -> n, 0, toks) > 0

IsSafe(toks, i) == /\ toks[i].kind \in {"newline", "dedent"}
                   /\ ~ InsideFString(SubSeq(toks, 1, i))

\* Fault: the token the edit falls in may be kept as well.
LateRelexStart(toks, first) ==
  LET safe == {i \in 1 .. Least(first + 1, Len(toks)) : IsSafe(toks, i)}
  IN  IF safe = {} THEN 0 ELSE Max(safe)

\* find_safe_relex_start: the number of tokens kept.
SafeRelexStart(toks, first) ==
  LET safe == {i \in 1 .. first : IsSafe(toks, i)}
  IN  IF safe = {} THEN 0 ELSE Max(safe)

\* Fault: the end stays where it was.
ShiftedStart(k, by) == [k EXCEPT !.start = @ + by]

\* adjust_token
Shifted(k, by) == [k EXCEPT !.start = @ + by, !.end = @ + by]

ShiftAll(toks, by) == [i \in DOMAIN toks |-> Shifted(toks[i], by)]

\* find_resume_point: the first old Newline behind the edit, 0 for None.
ResumePoint(toks, b, len, by) ==
  LET after == {i \in DOMAIN toks : toks[i].start > b}
      stop  == {i \in after : \/ toks[i].kind = "newline"
                              \/ toks[i].start + by >= len}
  IN  IF stop = {} \/ toks[Min(stop)].start + by >= len THEN 0 ELSE Min(stop)

\* lex_region, at offset by.
LexRegion(region, by) == ShiftAll(Tokenize(region).tokens, by)

\* relex, with n bytes in place of [a, b) and first tokens unaffected.
Relex(toks, old, new, a, b, n, first) ==
  LET by     == n - (b - a)
      keep   == IF first > 0 THEN SafeRelexStart(toks, first) ELSE 0
      resume == ResumePoint(toks, b, Len(new), by)
      from   == IF keep > 0 THEN toks[keep].end ELSE 0
      to     == IF resume > 0 THEN toks[resume].start + by ELSE Len(new)
  IN  IF Len(old) < MinIncremental \/ EditIsLarge(a, b, n, Len(old))
      THEN [tokens |-> Tokenize(new).tokens, slice |-> <<0, Len(new)>>]
      ELSE [tokens |->
              SubSeq(toks, 1, keep)
              \o (IF from <= to
                  THEN LexRegion(SubSeq(new, from + 1, to), from) ELSE <<>>)
              \o (IF resume = 0 THEN <<>>
                  ELSE ShiftAll(SubSeq(toks, resume, Len(toks)), by)),
            slice |-> <<from, to>>]

Edit ==
  /\ phase = "read" /\ text \in Edited
  /\ \E a \in 0 .. Len(text), d \in 0 .. MaxDeleted, ins \in Insertions :
       LET b   == a + d
           new == SubSeq(text, 1, a) \o ins \o SubSeq(text, b + 1, Len(text))
       IN  /\ b <= Len(text) /\ new # text
           /\ Tokenize(new).over
           /\ \E r \in {Relex(tokens, text, new, a, b, Len(ins),
                              FirstAffected(tokens, a))} :
                tokens' = r.tokens /\ slice' = r.slice
           /\ text' = new /\ before' = text
  /\ phase' = "relexed"
  /\ UNCHANGED lexer

Next == ReadToken \/ Recurse \/ Edit

Spec == Init /\ [][Next]_vars
-------------------------------------------------------------------------------
(***************************************************************************)
(* Properties.                                                             *)
(***************************************************************************)
TypeOK ==
  /\ phase \in {"reading", "read", "relexed"}
  /\ lexer.pos \in 0 .. Len(before) /\ lexer.depth \in Nat
  /\ lexer.fresh \in BOOLEAN /\ lexer.done \in BOOLEAN
  /\ lexer.indents[1] = 0
  /\ \A i \in 1 .. Len(lexer.indents) - 1 :
       lexer.indents[i] < lexer.indents[i + 1]
  /\ \A i \in DOMAIN lexer.fstrings : lexer.fstrings[i].braces \in Nat

\* What a reader of the text sees: no blanks, no newlines.
Visible(o) == At(text, o) \notin Blank \cup {"nl", "\\"}

Covers(k, o) == k.start <= o /\ o < k.end

\* No byte is lost or read twice: by the time the lexer is past it, a visible
\* byte lies in one token, which was returned or is pending.
BytesOnce ==
  phase # "relexed" =>
    LET known == tokens \o lexer.pending
    IN  \A o \in 0 .. lexer.pos - 1 :
          Visible(o) => Cardinality({i \in DOMAIN known :
                                       Covers(known[i], o)}) = 1

\* Tokens are returned in the order of the text, but for the dedents of one
\* line, which all lie on its indentation, and for comments that stand alone:
\* they wait on the stack pending_tokens, below the dedents that follow them,
\* while the token behind the indentation is returned first.  Relexing keeps
\* the order if the old text has no comments.
Precedes(k, l) == k.end <= l.start \/ (k.kind = "dedent" /\ l = k)

InOrder ==
  (phase = "relexed" => \A i \in DOMAIN before : before[i] # "#")
    => \A i, j \in DOMAIN tokens :
         (i < j /\ tokens[i].kind # "comment" /\ tokens[j].kind # "comment")
           => Precedes(tokens[i], tokens[j])

Count(kinds, n) ==
  Cardinality({i \in 1 .. n : tokens[i].kind \in kinds})

\* No block is closed that was not opened, and every block is closed in the
\* end, however the indentation goes up and down.
BlocksBalance ==
  phase # "relexed" =>
    /\ \A n \in DOMAIN tokens : Count({"dedent"}, n) <= Count({"indent"}, n)
    /\ phase = "read" =>
         Count({"dedent"}, Len(tokens)) = Count({"indent"}, Len(tokens))

\* Inside brackets, as the tokens returned have them, lines go on: no
\* newline, no block begins or ends.  At the end of the text blocks close.
Opened(toks) ==
  LET open[n \in 0 .. Len(toks)] ==
        IF n = 0 THEN 0
        ELSE CASE toks[n].kind \in Opener -> open[n - 1] + 1
               [] toks[n].kind \in Closer -> Lower(open[n - 1])
               [] OTHER -> open[n - 1]
  IN  open

LogicalLines ==
  (phase = "reading" /\ tokens # <<>>) =>
    LET n == Len(tokens)
    IN  Opened(tokens)[n - 1] > 0 =>
          \/ tokens[n].kind \notin {"newline", "indent", "dedent"}
          \/ lexer.done

\* Texts whose lines can be read one at a time.
LineByLine(t) ==
  \A i \in DOMAIN t :
    /\ t[i] \notin {"#", "\\"} \cup Opener \cup Closer
    /\ t[i] \in Quote => ~ Thrice(t, i - 1, t[i])
    /\ t[i] \in Blank => i > 1 /\ t[i - 1] # "nl"

\* Relexing yields the tokens of the new text when both texts can be read
\* line by line: prefix, region and suffix meet at newlines.
RelexAgrees ==
  (phase = "relexed" /\ LineByLine(before) /\ LineByLine(text))
    => tokens = Tokenize(text).tokens

\* The region to lex is a slice of the new text, or indexing it panics; so it
\* is, if the old text has no comments, which spoil the binary search.
RegionIsSlice ==
  (phase = "relexed" /\ \A i \in DOMAIN before : before[i] # "#")
    => slice[1] <= slice[2] /\ slice[2] <= Len(text)

\* By the look of it an f-string opens with the quote behind byte i; with
\* LooksOpen, one in single quotes.
Prefixed(t, i) == t[i] = "f" \/ (t[i] = "r" /\ i > 1 /\ t[i - 1] = "f")

LooksOpen(t, i) == /\ At(t, i) \in Quote /\ ~ Thrice(t, i, At(t, i))
                   /\ Prefixed(t, i)

\* The string whose first quote is behind o ends here.
StringEnd(t, o) ==
  LET triple == Thrice(t, o, At(t, o))
  IN  ScanString(t, IF triple THEN o + 3 ELSE o + 1, At(t, o), triple).end

\* An f-string in quotes q read on from offset p[1], where p[2] braces are
\* open: up to its quote or a newline, or what may hide those in a hole, a
\* comment, a backslash or an f-string within.
PassFString(t, q) ==
  [p \in (0 .. Len(t)) \X Nat |->
     LET o == p[1]
         c == At(t, o)
     IN  IF o = Len(t) THEN p
         ELSE IF p[2] = 0
           THEN IF Doubled(t, o) THEN <<o + 2, 0>>
                ELSE IF c \in {q, "nl"} THEN p
                ELSE IF c = "{" THEN <<o + 1, 1>>
                ELSE <<IF c = "\\" THEN Least(o + 2, Len(t)) ELSE o + 1, 0>>
         ELSE IF c \in {"nl", "#", "\\"} \/ (c \in Quote /\ Prefixed(t, o)) THEN p
         ELSE IF c \in Quote THEN <<StringEnd(t, o), p[2]>>
         ELSE <<o + 1, CASE c = "{" -> p[2] + 1
                         [] c = "}" -> p[2] - 1
                         [] OTHER -> p[2]>>]

\* It ends with its quote, or with the text.
Ends(t, q, o, braces) ==
  LET e == Follow(PassFString(t, q))[<<o, braces>>]
  IN  e[1] = Len(t) \/ (e[2] = 0 /\ At(t, e[1]) = q)

\* No f-string in single quotes meets a newline: by the look of it.
FStringsClose(t) ==
  \A i \in DOMAIN t :
    LooksOpen(t, i) => \/ Ends(t, At(t, i), i + 1, 0)
                       \/ \A j \in i .. Len(t) : t[j] # "nl"

\* Every text is read to its end, but for f-strings that a newline breaks, or
\* may break behind a comment, a backslash or an f-string in one of their
\* holes: no call runs for ever, and there are twice as many tokens as bytes at
\* most.
EveryTextIsRead ==
  (phase = "reading" /\ FStringsClose(text))
    => ~ NeverReturns(text, lexer) /\ Len(tokens) <= 2 * Len(text)
===============================================================================
