-------------------------------- MODULE Parser --------------------------------
(***************************************************************************)
(* The parser (crates/sneklsp_parser/src/parser.rs) as a machine that      *)
(* carries out the rules of Grammar.  The stack holds what is left to do   *)
(* in the statement being parsed, the call stack of the parse functions.   *)
(* The lexer is read one token at a time, and parser and lexer talk both   *)
(* ways: a bracket taken as closed lowers the lexer's bracket_depth.       *)
(***************************************************************************)
EXTENDS Grammar

CONSTANTS
  Sources,  \* the texts parsed
  Programs, \* those of them that are without an error
  LastLine, \* a line some texts end with
  MaxErrors, \* bound on the number of errors told apart
  Modes     \* "strict" is parse, "recovering" is parse_recovering

ASSUME ParserAssumption ==
  /\ Sources \subseteq Seq(STRING) /\ MaxErrors \in Nat
  /\ Modes \subseteq {"strict", "recovering"}

VARIABLES
  source,
  mode,
  lexer,
  reading,  \* advance has asked the lexer for a token
  current,
  previous,
  phase,    \* "start", "module", "statement", "sync", "dedented", "parsed",
            \* "failed"
  stack,    \* what is left to do, the next instruction first
  value,    \* the expression parsed last
  nodes,    \* the nodes allocated that are part of the tree, inner ones first
  errors,   \* the number of errors reported, up to MaxErrors
  before,   \* where the statement began, and the nodes there were
  origin    \* where the module began

input  == <<source, mode>>
tokens == <<lexer, reading, current, previous>>
vars   == <<source, mode, lexer, reading, current, previous, phase, stack,
            value, nodes, errors, before, origin>>

\* A node, and the number of nodes there were before the first inside it.
TheNode(k, a, b, n) == [kind |-> k, start |-> a, end |-> b, first |-> n]

NoToken == Token("none", 0, 0)

Init ==
  /\ source \in Sources /\ mode \in Modes
  /\ lexer = NewLexer /\ reading = TRUE
  /\ current = NoToken /\ previous = NoToken
  /\ phase = "start" /\ stack = <<>>
  /\ value = TheNode("other", 0, 0, 0)
  /\ nodes = <<>> /\ errors = 0
  /\ before = [start |-> 0, nodes |-> 0] /\ origin = 0

\* self.errors.push
Report == errors' = Least(errors + 1, MaxErrors)

Recovering == mode = "recovering"

SyncPoint ==
  {"def", "async", "class", "if", "for", "while", "try", "with", "return",
   "raise", "assert", "import", "from", "global", "nonlocal", "del", "pass",
   "break", "continue", "@"}

IsStmtStart(c) ==
  c \in SyncPoint \cup {"name", "int", "float", "string", "(", "[", "{", "*",
                        "lambda", "yield"}

AtEnd == current.kind = "eof"
-------------------------------------------------------------------------------
(***************************************************************************)
(* Tokens.                                                                 *)
(***************************************************************************)
\* Lexer::next_token for advance and Parser::new, which pass comments.
Read ==
  /\ reading /\ ~ NeverReturns(source, lexer)
  /\ \E n \in {NextToken(source, lexer)} :
       /\ lexer' = n.lexer /\ current' = n.token
       /\ reading' = (n.token.kind = "comment")
  /\ UNCHANGED <<input, previous, phase, stack, value, nodes, errors, before,
                 origin>>

\* advance, up to the call of the lexer.
Advances == previous' = current /\ reading' = TRUE /\ UNCHANGED <<lexer, current>>

\* Parser::new has its first token.
Start ==
  /\ phase = "start" /\ ~ reading
  /\ previous' = current /\ origin' = current.start /\ phase' = "module"
  /\ UNCHANGED <<input, lexer, reading, current, stack, value, nodes, errors,
                 before>>
-------------------------------------------------------------------------------
(***************************************************************************)
(* parse_module.                                                           *)
(***************************************************************************)
\* The head of the loop: skip_newline, or the next statement.
NextStatement ==
  /\ phase = "module" /\ ~ reading /\ ~ AtEnd
  /\ IF current.kind = "newline"
     THEN Advances /\ UNCHANGED <<phase, stack, before>>
     ELSE /\ phase' = "statement" /\ stack' = <<Parse("stmt")>>
          /\ before' = [start |-> current.start, nodes |-> Len(nodes)]
          /\ UNCHANGED tokens
  /\ UNCHANGED <<input, value, nodes, errors, origin>>

\* Fault: the module loop does not force a token to be passed.
StayThere == UNCHANGED tokens

\* if current.start == before && !at_end { advance }
PassStuckToken == IF current.start = before.start /\ ~ AtEnd THEN Advances
                  ELSE UNCHANGED tokens

StatementDone ==
  /\ phase = "statement" /\ ~ reading /\ stack = <<>>
  /\ PassStuckToken /\ phase' = "module"
  /\ UNCHANGED <<input, stack, value, nodes, errors, before, origin>>

ModuleDone ==
  /\ phase = "module" /\ ~ reading /\ AtEnd
  /\ phase' = "parsed"
  /\ nodes' = Append(nodes, TheNode("module", origin, previous.end, 0))
  /\ UNCHANGED <<input, tokens, stack, value, errors, before, origin>>

\* Fault: recovery looks for keywords only.
InStepAtKeyword == AtEnd \/ current.kind \in SyncPoint

\* Whether synchronize returns: behind a newline, or at a keyword.
InStep ==
  \/ AtEnd
  \/ previous.kind = "newline" /\ (IsStmtStart(current.kind)
                                   \/ current.kind = "dedent")
  \/ current.kind \in SyncPoint

\* synchronize
Synchronize ==
  /\ phase = "sync" /\ ~ reading
  /\ IF InStep THEN phase' = "statement" /\ UNCHANGED tokens
     ELSE /\ phase' = (IF current.kind = "dedent" THEN "dedented" ELSE "sync")
          /\ Advances
  /\ UNCHANGED <<input, stack, value, nodes, errors, before, origin>>

\* synchronize, behind a Dedent it passed.
SyncAfterDedent ==
  /\ phase = "dedented" /\ ~ reading
  /\ phase' = IF IsStmtStart(current.kind) \/ AtEnd THEN "statement" ELSE "sync"
  /\ UNCHANGED <<input, tokens, stack, value, nodes, errors, before, origin>>
-------------------------------------------------------------------------------
(***************************************************************************)
(* Instructions.                                                           *)
(***************************************************************************)
Top == Head(stack)

Executing(op) == phase = "statement" /\ ~ reading /\ stack # <<>> /\ Top.op = op

\* Enter a rule whose nodes start at an offset, with the nodes inside from n.
Filled(rule, start, n) ==
  [i \in DOMAIN rule |->
     CASE rule[i].op \in {"node", "join", "within", "keyword"} ->
            [rule[i] EXCEPT !.at = start, !.first = n]
       [] rule[i].op = "missing" -> [rule[i] EXCEPT !.first = Len(nodes)]
       [] OTHER -> rule[i]]

\* The rule an instruction stands for, and where its nodes start.
Expansion(i, c) ==
  CASE i.op \in {"parse", "within", "rest"} -> Rules[c][i.arg]
    [] i.op = "opt"  -> When(c = i.arg, <<Advance, Parse(i.then)>>)
    [] i.op = "list" -> When(c # i.arg, <<Parse(i.then), More(i.arg, i.then)>>)
    [] i.op = "more" -> When(c = Comma, <<Advance, List(i.arg, i.then)>>)
    [] i.op = "binop" -> <<Parse("unary"), RestBinop(i.at)>>
    [] i.op = "restBinop" -> Operators(c, i.at)
    [] i.op = "spec" -> FormatSpec(c, i.at)
    [] i.op = "keyword" -> When(value.kind = "name" /\ c = "=",
                                <<Advance, Parse("expr"), Node("other")>>)

\* The node starts with the operand that was read before.
GoesOn(i) == i.op \in {"rest", "restBinop"}

Enter ==
  /\ phase = "statement" /\ ~ reading /\ stack # <<>>
  /\ Top.op \in {"parse", "within", "rest", "opt", "list", "more", "binop",
                 "restBinop", "spec", "keyword"}
  /\ LET rule   == Expansion(Top, current.kind)
         filled == CASE Top.op \in {"within", "keyword"} ->
                          Filled(rule, Top.at, Top.first)
                     [] GoesOn(Top) ->
                          Filled(rule, value.start, value.first)
                     [] OTHER -> Filled(rule, current.start, Len(nodes))
     IN  stack' = filled \o Tail(stack)
  /\ UNCHANGED <<input, tokens, phase, value, nodes, errors, before, origin>>

\* An instruction that needs no token, or finds it.
Consume ==
  /\ \/ Executing("advance")
     \/ /\ Executing("expect") \/ Executing("recover") \/ Executing("close")
        /\ current.kind = Top.arg
     \/ Executing("newline") /\ current.kind = "newline"
  /\ Advances /\ stack' = Tail(stack)
  /\ UNCHANGED <<input, phase, value, nodes, errors, before, origin>>

\* Fault: an operator's node ends where its right operand starts.
EndAtOperand(i) == IF i.op = "join" THEN value.start ELSE previous.end

\* A node ends with the right operand, or else with the token before.
EndOf(i) == IF i.op = "join" THEN value.end ELSE previous.end

Allocate ==
  /\ Executing("node") \/ Executing("join")
  /\ LET n == TheNode(IF Top.op = "join" THEN "other" ELSE Top.arg, Top.at,
                      EndOf(Top), Top.first)
     IN  nodes' = Append(nodes, n) /\ value' = n
  /\ stack' = Tail(stack)
  /\ UNCHANGED <<input, tokens, phase, errors, before, origin>>

\* expect_newline at the end of a block or of the text, or, when recovering,
\* at the start of a statement: no error is reported.
NewlineImplied ==
  /\ Executing("newline") /\ current.kind # "newline"
  /\ \/ current.kind \in {"eof", "dedent"}
     \/ Recovering /\ IsStmtStart(current.kind)
  /\ stack' = Tail(stack)
  /\ UNCHANGED <<input, tokens, phase, value, nodes, errors, before, origin>>

\* expect_recover: in strict mode the missing token goes unnoticed.
RecoverMissing ==
  /\ Executing("recover") /\ current.kind # Top.arg
  /\ IF Recovering THEN Report ELSE UNCHANGED errors
  /\ stack' = Tail(stack)
  /\ UNCHANGED <<input, tokens, phase, value, nodes, before, origin>>

\* expect_close takes a bracket as closed.
CloseMissing ==
  /\ Executing("close") /\ current.kind # Top.arg /\ Recovering
  /\ Report
  /\ lexer' = DecrementBracketDepth(lexer)
  /\ stack' = Tail(stack)
  /\ UNCHANGED <<input, reading, current, previous, phase, value, nodes, before,
                 origin>>

\* parse_fstring reports what does not belong there.
ComplainAndGoOn ==
  /\ Executing("complain") /\ Recovering
  /\ Report /\ stack' = Tail(stack)
  /\ UNCHANGED <<input, tokens, phase, value, nodes, before, origin>>

\* parse_expr_or_missing has its expression.
NotMissing ==
  /\ Executing("missing") /\ stack' = Tail(stack)
  /\ UNCHANGED <<input, tokens, phase, value, nodes, errors, before, origin>>
-------------------------------------------------------------------------------
(***************************************************************************)
(* Errors: a parse function returns Err and so do its callers, up to       *)
(* parse_expr_or_missing or parse_module.                                  *)
(***************************************************************************)
Failing ==
  \/ Executing("fail")
  \/ Executing("expect") /\ current.kind # Top.arg
  \/ Executing("close") /\ current.kind # Top.arg /\ ~ Recovering
  \/ Executing("complain") /\ ~ Recovering
  \/ /\ Executing("newline") /\ current.kind \notin {"newline", "eof", "dedent"}
     /\ ~ (Recovering /\ IsStmtStart(current.kind))

\* The nearest call of parse_expr_or_missing.
Handlers == {i \in DOMAIN stack : stack[i].op = "missing"}

\* parse_expr_or_missing puts a name of no width where the expression is not.
PutMissing ==
  /\ Failing /\ Recovering /\ Handlers # {}
  /\ LET h == Min(Handlers)
         n == TheNode("name", current.start, current.start, stack[h].first)
     IN  /\ nodes' = Append(SubSeq(nodes, 1, stack[h].first), n) /\ value' = n
         /\ stack' = SubSeq(stack, h + 1, Len(stack))
  /\ Report
  /\ UNCHANGED <<input, tokens, phase, before, origin>>

\* Fault: what is left of the statement is parsed on.
DropNodes ==
  /\ Failing /\ Recovering /\ Handlers = {}
  /\ nodes' = SubSeq(nodes, 1, before.nodes) /\ stack' = Tail(stack)
  /\ Report /\ phase' = "sync"
  /\ UNCHANGED <<input, tokens, value, before, origin>>

\* parse_module drops the statement and looks for the next one.
DropStatement ==
  /\ Failing /\ Recovering /\ Handlers = {}
  /\ nodes' = SubSeq(nodes, 1, before.nodes) /\ stack' = <<>>
  /\ Report /\ phase' = "sync"
  /\ UNCHANGED <<input, tokens, value, before, origin>>

GiveUp ==
  /\ Failing /\ ~ Recovering
  /\ phase' = "failed"
  /\ UNCHANGED <<input, tokens, stack, value, nodes, errors, before, origin>>

\* What the parser does between two tokens.
Step ==
  \/ Start \/ NextStatement \/ StatementDone \/ ModuleDone
  \/ Synchronize \/ SyncAfterDedent
  \/ Enter \/ Consume \/ Allocate \/ NewlineImplied \/ RecoverMissing
  \/ CloseMissing \/ ComplainAndGoOn \/ NotMissing
  \/ PutMissing \/ DropStatement \/ GiveUp

\* Behind the end of the text the lexer has nothing to read.
ReadBehindEnd == AtEnd /\ Read

Next == Step \/ Read

\* One thread runs the parser.  Of the lexer no more is taken for granted
\* than that it goes on returning Eof.
Spec == Init /\ [][Next]_vars /\ WF_vars(Step) /\ WF_vars(ReadBehindEnd)
-------------------------------------------------------------------------------
(***************************************************************************)
(* Properties.                                                             *)
(***************************************************************************)
TypeOK ==
  /\ phase \in {"start", "module", "statement", "sync", "dedented", "parsed",
                "failed"}
  /\ reading \in BOOLEAN /\ errors \in Nat
  /\ current.kind \in Kinds \cup {"none"}
  /\ phase = "statement" => before.nodes <= Len(nodes)
  /\ \A i \in DOMAIN stack :
       stack[i].op \in {"node", "join", "within", "keyword", "missing"}
         => stack[i].first \in before.nodes .. Len(nodes)

\* The ranges of the tree: a node lies within its parent and behind the
\* siblings before it, however operands, brackets and blocks nest.  The If
\* that stands for an elif starts at the first if of the chain, and counts the
\* conditions and blocks from there on as inside it.
RangesNest ==
  phase = "parsed" =>
    \A j \in DOMAIN nodes :
      /\ nodes[j].start <= nodes[j].end
      /\ \A i \in 1 .. j - 1 :
           \/ i > nodes[j].first /\ nodes[j].start <= nodes[i].start
                                /\ nodes[i].end <= nodes[j].end
           \/ i <= nodes[j].first /\ nodes[i].end <= nodes[j].start

\* The parser moves on: it never runs for ever without asking for a token
\* that it has not seen, whatever it recovers from.
MovesOn == []<>(phase \in {"parsed", "failed"} \/ (reading /\ ~ AtEnd))

\* Programs are accepted in either mode without an error.
AcceptsPrograms ==
  (phase \in {"parsed", "failed"} /\ source \in Programs)
    => phase = "parsed" /\ errors = 0

Ends(t, s) == Len(t) <= Len(s) /\ SubSeq(s, Len(s) - Len(t) + 1, Len(s)) = t

\* A text, read as r, ends with a line, outside brackets and strings, and n
\* blocks are open there.
EndsLine(r, n) ==
  LET k == Len(r.tokens) - n
  IN  /\ r.lexer.depth = 0 /\ r.lexer.fstrings = <<>>
      /\ k > 0 /\ r.tokens[k].kind = "newline"
      /\ \A j \in k + 1 .. Len(r.tokens) : r.tokens[j].kind = "dedent"

LastLineFound ==
  \E i \in DOMAIN nodes : /\ nodes[i].kind = "stmt"
                          /\ nodes[i].start = Len(source) - Len(LastLine)
                          /\ nodes[i].end = Len(source) - 1

BeforeLastLine == SubSeq(source, 1, Len(source) - Len(LastLine))

\* Errors are contained: when what comes before it ends with a line, the
\* statement of the last line is found, whatever the errors before it are.
\* So it is where one block ends before that line, or none; behind two the
\* module loop takes the second Dedent, which starts where the first did, for
\* a token it did not pass, and passes it and the first word of the line.
LastLineSurvives ==
  (/\ phase = "parsed" /\ Ends(LastLine, source)
   /\ \E n \in 0 .. 1 : EndsLine(Tokenize(BeforeLastLine), n)) => LastLineFound
===============================================================================
