------------------------------ MODULE MCParser ------------------------------
(***************************************************************************)
(* Instances of Parser for TLC: for every construct a sample, and samples  *)
(* with a word dropped or replaced, before a line that is without error.   *)
(***************************************************************************)
EXTENDS Parser

Simple ==
  {<<"x", "=", "x", "=", "0", "nl">>, <<"x", ":", "x", "=", "0", "nl">>,
   <<"x", "+", "=", "-", "x", "nl">>, <<"pass", "nl">>,
   <<"del", "x", ",", "x", "nl">>, <<"global", "x", ",", "x", "nl">>,
   <<"return", "nl">>, <<"return", "x", "nl">>,
   <<"raise", "x", "from", "x", "nl">>, <<"assert", "x", ",", "x", "nl">>,
   <<"import", "x", ".", "x", "as", "x", ",", "x", "nl">>,
   <<"from", ".", "x", "import", "(", "x", ",", "nl", "x", ",", ")", "nl">>,
   <<"from", ".", "import", "x", "#", "x", "nl">>}

Exprs ==
  {<<"x", "or", "x", "and", "not", "x", "or", "x", "nl">>,
   <<"x", "is", "not", "x", "nl">>, <<"x", "not", "in", "x", "nl">>, <<"x", "<", "x", "nl">>,
   <<"x", "+", "x", "*", "x", "-", "x", "|", "x", "nl">>,
   <<"x", "*", "*", "-", "x", "*", "*", "await", "x", "nl">>,
   <<"(", "x", "if", "x", "else", "x", ")", "nl">>,
   <<"(", "x", ":", "=", "x", ",", "x", ",", ")", "nl">>,
   <<"x", "(", "x", ",", "x", "=", "x", ",", "*", "x", ",", "*", "*", "x", ")",
     "nl">>,
   <<"x", "[", "x", ":", ":", "x", "]", ".", "x", "[", "0", "]", "nl">>,
   <<"[", "x", ",", "x", "]", "nl">>, <<"[", "]", "(", ")", "nl">>,
   <<"{", "x", ":", "x", ",", "*", "*", "x", "}", "nl">>,
   <<"{", "x", ",", "x", "}", "nl">>, <<"{", "*", "*", "x", "}", "nl">>,
   <<"lambda", "x", "=", "x", ",", "*", "x", ",", "*", "*", "x", ":", "x", "nl">>,
   <<"lambda", "*", ",", "x", ":", ".", ".", ".", "nl">>,
   <<"yield", "from", "x", "nl">>, <<"(", "yield", ")", "nl">>,
   <<"f", "'", "x", "{", "x", ":", "{", "x", "}", "}", "x", "'", "nl">>}

Blocks ==
  {<<"if", "x", ":", "nl", "sp", "x", "nl", "elif", "x", ":", "nl", "sp", "x",
     "nl", "else", ":", "nl", "sp", "x", "nl">>,
   <<"while", "x", ":", "nl", "sp", "if", "x", ":", "nl", "sp", "sp", "break",
     "nl">>,
   <<"try", ":", "nl", "sp", "x", "nl", "except", "x", "as", "x", ":", "nl",
     "sp", "x", "nl", "finally", ":", "nl", "sp", "x", "nl">>,
   <<"with", "x", "as", "x", ",", "x", ":", "nl", "sp", "pass", "nl">>,
   <<"@", "x", "nl", "async", "def", "x", "(", "x", ",", "/", ",", "x", ":",
     "x", "=", "x", ",", "*", ",", "x", ")", "-", ">", "x", ":", "nl", "sp",
     "pass", "nl">>,
   <<"def", "x", "(", "*", "x", ",", "*", "*", "x", ")", ":", "nl", "sp",
     "return", "nl">>,
   <<"class", "x", "(", "x", ".", "x", ",", "x", "=", "x", ")", ":", "nl",
     "sp", "x", "nl", "nl", "sp", "x", "nl">>}

\* Statements and expressions with a for in them.
Loops ==
  {<<"for", "x", "in", "x", ":", "nl", "sp", "x", "nl">>,
   <<"async", "for", "x", "in", "x", ":", "nl", "sp", "x", "nl">>,
   <<"[", "x", "for", "x", "in", "x", "if", "x", "]", "nl">>,
   <<"{", "x", ":", "x", "async", "for", "x", "in", "x", "}", "nl">>}

MCLastLine == <<"y", "=", "0", "nl">>

\* Words that would run together are written apart.
Spaced(words) ==
  FoldLeft(LAMBDA t, c : IF t # <<>> /\ InName(Last(t)) /\ InName(c)
                           THEN t \o <<"sp", c>> ELSE Append(t, c),
           <<>>, words)

Dropped(words) ==
  {Spaced(SubSeq(words, 1, i - 1) \o SubSeq(words, i + 1, Len(words)))
     : i \in DOMAIN words}

Replaced(words, others) ==
  {Spaced([words EXCEPT ![i] = c]) : i \in DOMAIN words, c \in others}

MCPrograms == {Spaced(w) \o MCLastLine : w \in Simple \cup Exprs \cup Blocks}

MCLoops == {Spaced(w) : w \in Loops}

Samples == Simple \cup Exprs \cup Blocks \cup Loops

Broken ==
  UNION {Dropped(w) \cup Replaced(w, {")", ":", "nl", "(", "="}) : w \in Samples}

MCSources ==
  MCPrograms \cup
    {t \o MCLastLine : t \in {t \in Broken : "f" \in Range(t) => Tokenize(t).over}}
=============================================================================
