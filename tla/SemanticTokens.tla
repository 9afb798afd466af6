--------------------------- MODULE SemanticTokens ---------------------------
(***************************************************************************)
(* The colours an editor gives a file: what semantic_tokens.rs makes of    *)
(* the lexer's tokens and the index, and how it packs it into differences. *)
(*                                                                         *)
(* The text is that of ScopeIndex, without literals, operators, comments.  *)
(* A keyword that begins a statement begins a line, all other words go on  *)
(* with theirs. Names are not told apart by their letters, so that no token has *)
(* the modifier `readonly'.                                                *)
(***************************************************************************)
EXTENDS ScopeIndex

CONSTANTS
  Builtins,  \* the names builtins::lookup knows
  Selves     \* those that stand for `self' and `cls'

TOKEN_TYPES == <<"namespace", "type", "class", "function", "method", "property",
                 "variable", "parameter", "decorator", "keyword", "string", "number",
                 "comment", "builtin", "selfKeyword">>

\* The numbers TT_..., of those the model has.
TT == [namespace |-> 0, class |-> 2, function |-> 3, method |-> 4, variable |-> 6,
       parameter |-> 7, keyword |-> 9, builtin |-> 14, selfKeyword |-> 15]

\* What a client reads a number as.
Read(type) == IF type + 1 \in DOMAIN TOKEN_TYPES THEN TOKEN_TYPES[type + 1] ELSE "none"
-------------------------------------------------------------------------------
Beginnings == {"pass", "import", "def", "class", "if", "for", "with", "try", "except"}
Keywords == Beginnings \union {"as"}
Places == [i \in 1 .. Here |-> i - 1]

\* LineIndex::position, of an offset; there are two to a word.
Position(o) == LET starts == {s \in 1 .. o \div 2 : text[s + 1] \in Beginnings} \union {0}
               IN  [line |-> Cardinality(starts) - 1, col |-> o - 2 * Max(starts)]

RawToken(range, type, definition) ==
  [line |-> Position(range.start).line, col |-> Position(range.start).col,
   len |-> range.end - range.start, type |-> TT[type], definition |-> definition]

\* collect_lexer_tokens: the tokens of names have no type of their own.
LexerTokens ==
  LET typed == SelectSeq(Places, LAMBDA w : text[w + 1] \in Keywords)
  IN  [k \in DOMAIN typed |->
         RawToken(Exact(Span(typed[k], typed[k] + 1), 0), "keyword", FALSE)]

\* symbol_token_info.
SymbolTokenInfo(i) ==
  CASE index.symbols[i].kind = "Function" -> "function"
    [] index.symbols[i].kind = "Method" -> "method"
    [] index.symbols[i].kind = "Class" -> "class"
    [] index.symbols[i].kind = "Variable" -> "variable"
    [] index.symbols[i].kind = "Parameter" ->
         IF SymbolName(i) \in Selves THEN "selfKeyword" ELSE "parameter"
    [] index.symbols[i].kind \in {"Import", "ImportedSymbol"} -> "namespace"

\* collect_semantic_tokens, of symbols,
SymbolTokens ==
  [i \in Symbols(index) |-> RawToken(Selections[i], SymbolTokenInfo(i), TRUE)]

\* and of references.
ReferenceTokenInfo(ref) ==
  IF ref.resolved # 0 THEN SymbolTokenInfo(ref.resolved)
  ELSE IF ref.name \in Builtins THEN "builtin" ELSE "variable"
ReferenceTokens ==
  [r \in DOMAIN index.references |->
     RawToken(References[r], ReferenceTokenInfo(index.references[r]), FALSE)]

Before(a, b) == a.line < b.line \/ (a.line = b.line /\ a.col < b.col)

\* The sort of collect_raw_tokens; tokens of one place in either order.
SortTokens(raw, turned) ==
  LET Earlier(i, j) == \/ Before(raw[i], raw[j])
                       \/ ~ Before(raw[j], raw[i]) /\ (IF turned THEN i > j ELSE i < j)
      order == SortSeq([i \in DOMAIN raw |-> i], Earlier)
  IN  [k \in DOMAIN raw |-> raw[order[k]]]

\* dedup_overlapping: of those the last is left.
DedupOverlapping(raw) ==
  LET Push(kept, t) ==
        IF kept # <<>> /\ ~ Before(Last(kept), t) THEN Append(Front(kept), t)
        ELSE Append(kept, t)
  IN  FoldLeft(Push, <<>>, raw)

\* collect_raw_tokens of some lines.
CollectRawTokens(lines, turned) ==
  LET InLines(t) == t.line \in lines
      all == LexerTokens \o SymbolTokens \o ReferenceTokens
  IN  DedupOverlapping(SortTokens(SelectSeq(all, InLines), turned))

\* Fault: columns are counted from the token before, on any line.
EncodeColumns(raw) ==
  [k \in DOMAIN raw |->
     LET before == IF k = 1 THEN [line |-> 0, col |-> 0] ELSE raw[k - 1]
     IN  [line |-> raw[k].line - before.line, start |-> raw[k].col - before.col,
          len |-> raw[k].len, type |-> raw[k].type, definition |-> raw[k].definition]]
\* encode.
Encode(raw) ==
  [k \in DOMAIN raw |->
     LET before == IF k = 1 THEN [line |-> 0, col |-> 0] ELSE raw[k - 1]
         down == raw[k].line - before.line
     IN  [line |-> down, start |-> IF down = 0 THEN raw[k].col - before.col ELSE raw[k].col,
          len |-> raw[k].len, type |-> raw[k].type, definition |-> raw[k].definition]]

\* compute_semantic_tokens and compute_semantic_tokens_range.
Lines == 0 .. Position(2 * Here - 1).line
ComputeSemanticTokens(turned) == Encode(CollectRawTokens(Lines, turned))
ComputeSemanticTokensRange(first, last, turned) ==
  Encode(CollectRawTokens(first .. last, turned))
-------------------------------------------------------------------------------
\* How a client reads the answer: the differences added up.
Decode(data) ==
  LET Add(shown, d) ==
        LET before == IF shown = <<>> THEN [line |-> 0, col |-> 0] ELSE Last(shown)
        IN  Append(shown, [line |-> before.line + d.line,
                           col |-> IF d.line = 0 THEN before.col + d.start ELSE d.start,
                           len |-> d.len, type |-> d.type])
  IN  FoldLeft(Add, <<>>, data)

At(o, t) == t.line = Position(o).line /\ t.col = Position(o).col
Handlers == {i \in Symbols(index) : text[index.symbols[i].selection.start + 1] = "except"}
\* name_range finds the name in the middle of another word.
Misplaced == {i \in Symbols(index) : index.symbols[i].selection.half = 2}
UsesAt(o) == {r \in DOMAIN index.references : References[r].start = o}

(***************************************************************************)
(* What a client decodes are the colours of what was indexed: differences  *)
(* are not negative, tokens follow and do not reach into each other,       *)
(* except below a handler, whose symbol is all of it, and where a name is  *)
(* found within another word, as the a of `class a': dedup_overlapping     *)
(* drops tokens of one place only. Every use of a name is shown, and as    *)
(* the symbol it was resolved to, where no symbol has the same place;      *)
(* types from `builtin' on are read as another or as none, since the list  *)
(* of types has no `operator'. A range of lines is answered by the part of *)
(* the whole answer on them.                                               *)
(***************************************************************************)
ColoursAreOfIndex ==
  Indexed => \A turned \in BOOLEAN :
    LET data == ComputeSemanticTokens(turned)
        shown == Decode(data)
    IN  /\ \A k \in DOMAIN data : data[k].line >= 0 /\ data[k].start >= 0
        /\ \A k \in 1 .. Len(shown) - 1 :
             \/ Before([shown[k] EXCEPT !.col = @ + shown[k].len - 1], shown[k + 1])
             \/ \E i \in Handlers : At(Selections[i].start, shown[k])
             \/ \E i \in Misplaced : At(Selections[i].start, shown[k + 1])
        /\ \A o \in 0 .. 2 * Here - 1 : UsesAt(o) # {} =>
             \E k \in DOMAIN shown :
               /\ At(o, shown[k])
               /\ \/ \E i \in Symbols(index) : Selections[i].start = o
                  \/ \E r \in UsesAt(o) :
                       LET info == ReferenceTokenInfo(index.references[r])
                       IN  Read(shown[k].type) = info \/ info \in {"builtin", "selfKeyword"}
        /\ \A first, last \in Lines :
             Decode(ComputeSemanticTokensRange(first, last, turned))
               = SelectSeq(shown, LAMBDA t : t.line \in first .. last)
===============================================================================
