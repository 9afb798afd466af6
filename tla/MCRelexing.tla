----------------------------- MODULE MCRelexing -----------------------------
(***************************************************************************)
(* Instances of Relexing for TLC: all short texts over a few characters,   *)
(* and some longer ones.                                                   *)
(***************************************************************************)
EXTENDS Relexing

Words(S, n) == UNION {[1 .. k -> S] : k \in 0 .. n}

\* Indentation, comments, brackets, strings, f-strings.
Lines    == Words({"x", "sp", "nl", "#", "("}, 5)
Brackets == Words({"(", "]", "nl", "sp", "x"}, 4)
Strings  == Words({"\"", "nl", "\\", "x"}, 5)
FStrings == {<<"f", "\"">> \o w : w \in Words({"{", "}", "\"", "nl", "\\", "x"}, 4)}

Triple(q) == <<q, q, q>>

Longer ==
  {<<"if", ":", "nl", "tab", "x", "nl", "sp", "x", "nl", "x", "nl">>,
   <<"if", ":", "nl", "sp", "x", "nl", "sp", "x", "nl", "#", "nl", "x">>,
   <<"x", "nl", "sp", "x", "nl", "sp", "sp", "x", "nl", "x", "nl">>,
   <<"x", "nl", "sp", "x", "nl", "tab", "x", "nl", "tab", "sp", "x", "nl", "#",
     "nl", "sp", "sp", "x">>,
   <<"x", "=", "0", ".", "1", "e", "-", "1", ";", ".", "1", "nl">>,
   <<"x", "cr", "nl", "sp", "x", "cr", "nl", "cr", "nl", "sp", "x">>,
   <<"x", "*", "*", "=", ".", ".", ".", "!", "=", "!", "~">>,
   <<"r", "\"", "x", "\"", ",", "\\", "nl", "b", "'", "x", "'">>,
   Triple("\"") \o <<"nl", "x">> \o Triple("\"") \o <<"nl", "x", "nl">>,
   <<"f">> \o Triple("'") \o <<"nl", "{", "x", "}", "'">> \o Triple("'"),
   <<"f", "'", "{", "{", "{", "{", "x", "}", ",", "}", "}", "}", "'">>,
   <<"f", "r", "\"", "x", "nl", "\"">>, <<"f", "r", "\"", "x", "\"", "nl", "x">>,
   <<"f", "'", "{", "f", "\"", "{", "x", "}", "\"", "}", "\\", "nl", "'">>,
   <<"f", "'", "x", "{", "x", "[", "\"", "{", "\"", "]", ":", "{", "x", "}", "}",
     "'", "nl", "x">>,
   <<"f", "r", "\"", "{", "{", "\\", "\"", "}", "}", "{", "{", "x", "}", "}", "\"",
     "nl">>}

MCTexts == Lines \cup Brackets \cup Strings \cup FStrings \cup Longer

MCEdited == Words({"x", "sp", "nl", "\""}, 5) \cup Longer

MCInsertions == {<<>>, <<"x">>, <<"nl">>, <<"(">>}
=============================================================================
