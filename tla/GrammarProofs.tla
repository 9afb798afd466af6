---------------------------- MODULE GrammarProofs ----------------------------
(***************************************************************************)
(* What the rules of Grammar have in common, whatever the current token is *)
(* and whichever instruction calls them.                                   *)
(***************************************************************************)
EXTENDS Parser, SequenceTheorems, TLAPS

(***************************************************************************)
(* Instructions, by what the proofs need to know of them.                  *)
(***************************************************************************)
RuleNames ==
  {"stmt", "block", "stmts", "else_block", "decorated", "async_stmt",
   "async_rest", "func_def", "params", "param_items", "star_param",
   "more_params", "comma", "param", "class_def", "bases", "class_arg",
   "class_name", "attributes", "expr_or_missing", "if_stmt", "if_inner",
   "if_rest", "for_stmt", "while_stmt", "try_stmt", "handlers", "finally",
   "except", "except_type", "with_stmt", "with_item", "return_stmt",
   "returned", "raise_stmt", "raised", "assert_stmt", "simple_stmt",
   "import_stmt", "from_stmt", "dots", "module", "imported", "alias",
   "dotted_name", "dotted_rest", "dotted_part", "global_stmt", "del_stmt",
   "identifier", "expr_stmt", "expr_stmt_rest", "targets", "expr", "named",
   "named_rest", "ternary", "ternary_rest", "or_test", "or_rest", "and_test",
   "and_rest", "not_test", "comparison", "cmp_rest", "opt_not", "unary",
   "postfix", "trailers", "atom", "fstring", "fstring_parts",
   "fstring_value", "conversion", "opt_name", "format_spec", "paren",
   "paren_rest", "paren_more", "list", "list_rest", "list_more", "braces",
   "braces_rest", "braces_more", "dict_more", "dict_item", "clauses",
   "clause", "ifs", "call_arg", "slice", "slice_rest", "slice_bounds",
   "upper", "step", "yield_expr", "yielded", "lambda", "lambda_params",
   "lambda_items", "lambda_star", "lambda_name", "lambda_param",
   "more_lambda"}

\* Rules for the rest of something, whose nodes start before them:
\* at an operand,
Joining == {"named_rest", "ternary_rest", "or_rest", "and_rest", "cmp_rest"}

\* or at a token; these may allocate a node at once.
Direct == {"class_name", "expr_stmt_rest", "targets", "yielded", "paren_more",
           "list_more", "braces_rest", "braces_more", "dict_more"}

\* The items of lists and options.
Items == {"expr", "identifier", "alias", "class_arg", "call_arg", "with_item",
          "named", "dict_item", "step"}

\* The kinds of tokens asked for and of nodes, and "".
Words ==
  {"", "stmt", "other", "if", "name", "newline", "indent", "async", "class",
   "def", "else", "except", "for", "from", "import", "in", "lambda", "try",
   "while", "with", "yield", "as", "(", ")", "]", Comma, "->", ":", "=", RBrace}

Ops ==
  {"parse", "within", "rest", "opt", "list", "more", "binop", "restBinop",
   "spec", "keyword", "advance", "expect", "recover", "close", "newline",
   "complain", "fail", "missing", "node", "join"}

\* What an instruction may call.
MayCall(op, arg, then) ==
  /\ op = "parse" => arg \in RuleNames \ (Direct \cup Joining)
  /\ op = "within" => arg \in RuleNames \ (Joining \cup {"expr_or_missing"})
  /\ op = "rest" => arg \in Joining \cup {"trailers"}
  /\ op \in {"opt", "list", "more"} => then \in Items
  /\ op \notin {"parse", "within", "rest"} => arg \in Words

Instr ==
  {i \in [op : Ops, arg : RuleNames \cup Words, then : Items \cup {""},
          at : Nat, first : Nat] : MayCall(i.op, i.arg, i.then)}

\* Those that are filled in with a number of nodes.
NodeLike(i) == i.op \in {"node", "join", "within", "keyword", "missing"}

Calls(i, rules) == i.op \in {"parse", "within"} /\ i.arg \in rules

\* These leave a node behind, or fail.
Yielding ==
  {"named", "ternary", "or_test", "and_test", "not_test", "comparison",
   "unary", "postfix", "atom", "lambda", "fstring", "paren", "paren_rest",
   "yield_expr", "yielded", "list", "list_rest", "braces", "braces_rest"}

Yields(i) == i.op \in {"node", "join", "binop", "fail"} \/ Calls(i, Yielding)

\* These pass a token, or fail.
Consuming ==
  {"block", "func_def", "if_inner", "for_stmt", "with_stmt", "identifier",
   "dotted_name", "param", "lambda_param", "lambda_name",
   "expr", "named", "ternary", "or_test", "and_test", "not_test",
   "comparison", "unary", "postfix", "atom", "lambda", "fstring", "paren",
   "list", "braces", "yield_expr"}

Consumes(i) == \/ i.op \in {"advance", "expect", "fail", "binop"}
               \/ Calls(i, Consuming)

\* So do these, before other tokens than the one that ends the list.
ConsumesAt(i, c) == \/ Consumes(i)
                    \/ Calls(i, {"param_items"}) /\ c # ")"
                    \/ Calls(i, {"lambda_items"}) /\ c # ":"

\* These allocate a node that may start before what they read.
Settles(i) == i.op = "node" \/ Calls(i, Direct)

\* Statements, and what is left to do behind one in the statements around it.
Statements ==
  {"stmt", "func_def", "class_def", "decorated", "async_stmt", "async_rest",
   "if_stmt", "if_inner", "for_stmt", "while_stmt", "try_stmt", "handlers",
   "except", "finally", "with_stmt", "else_block", "if_rest", "stmts",
   "block"}

Trails(i) == \/ i.op = "node"
             \/ Calls(i, {"handlers", "else_block", "finally", "stmts", "if_rest"})

\* Rules that are only called when the token they pass is there.
Guarded ==
  {"return_stmt", "raise_stmt", "assert_stmt", "simple_stmt", "import_stmt",
   "from_stmt", "global_stmt", "del_stmt", "fstring", "fstring_value",
   "paren", "list", "braces"}

\* The loops that pass any token.
Loops(i) == i.op = "spec" \/ Calls(i, {"fstring_parts"})

\* From a statement to the atom it begins with.
Chain == {"stmt", "expr_stmt", "expr", "or_test", "and_test", "not_test",
          "comparison", "unary", "postfix", "atom"}

\* What finds no expression fails at a Dedent.
FailsAtDedent(i) == i.op \in {"binop", "fail"} \/ Calls(i, Chain)
-------------------------------------------------------------------------------
(***************************************************************************)
(* What the rules have in common, i being the call of one.                 *)
(***************************************************************************)
\* What goes on from an operand comes behind what leaves one.
GoesOnRight(i, s) ==
  /\ \A n \in DOMAIN s :
       GoesOn(s[n]) => \E k \in 1 .. n - 1 : Yields(s[k])
  /\ Yields(i) => \E k \in DOMAIN s : Yields(s[k])
  /\ (\E n \in DOMAIN s : s[n].op = "join") => GoesOn(i)

\* A node follows a token, unless the call stands for one.
SettlesRight(c, i, s) ==
  /\ ConsumesAt(i, c) => \E k \in DOMAIN s : Consumes(s[k])
  /\ ~ Settles(i) =>
       \A n \in DOMAIN s : Settles(s[n]) =>
         \/ \E k \in 1 .. n - 1 : Consumes(s[k])
         \/ n > 1 /\ ConsumesAt(s[1], c)

\* What may be missing is followed by a token.
MissingRight(i, s) ==
  /\ \A n \in DOMAIN s : Calls(s[n], {"expr_or_missing"}) =>
       \E k \in n + 1 .. Len(s) : /\ Consumes(s[k])
                                  /\ \A j \in n + 1 .. k - 1 : ~ Settles(s[j])
  /\ \A n \in DOMAIN s : s[n].op = "missing" =>
       /\ n = Len(s) /\ \A k \in 1 .. n - 1 : ~ NodeLike(s[k])
       /\ Calls(i, {"expr_or_missing"})

\* Behind a statement or a block there are only the ends of those around.
TrailsRight(i, s) ==
  /\ ~ Calls(i, Statements) => \A n \in DOMAIN s : ~ Calls(s[n], Statements)
  /\ \A n \in DOMAIN s :
       Calls(s[n], Statements) => \A k \in n + 1 .. Len(s) : Trails(s[k])

\* What passes any token is a loop, or ends a block.
AdvancesRight(c, i, s) ==
  /\ \A n \in DOMAIN s :
       Calls(s[n], Guarded) => n = 1 /\ s[1].op = "parse" /\ c # "dedent"
  /\ \A n \in DOMAIN s : s[n].op = "advance" =>
       IF n = 1
       THEN \/ c # "dedent" \/ Calls(i, Guarded)
            \/ Calls(i, {"stmts"}) /\ Len(s) = 1
            \/ Len(s) > 1 /\ Loops(s[2])
       ELSE s[n - 1].op = "complain" /\ n < Len(s) /\ Loops(s[n + 1])

\* At a Dedent, blocks end, loops go on, and an expression fails.
DedentRight(i, s) ==
  /\ Calls(i, Chain) \/ i.op = "binop" =>
       Len(s) > 0 /\ FailsAtDedent(s[1]) /\ \A n \in DOMAIN s : s[n].op # "missing"
  /\ Loops(i) =>
       /\ Len(s) > 1 /\ \A n \in DOMAIN s : ~ NodeLike(s[n])
       /\ \/ s[1].op = "advance"
          \/ s[1].op = "complain" /\ Len(s) > 2 /\ s[2].op = "advance"
  /\ Trails(i) =>
       \A n \in DOMAIN s : /\ ~ NodeLike(s[n])
                           /\ Trails(s[n]) \/ (s[n].op = "advance" /\ Len(s) = 1)

Rightly(c, i, s) ==
  /\ GoesOnRight(i, s) /\ SettlesRight(c, i, s) /\ MissingRight(i, s)
  /\ TrailsRight(i, s) /\ AdvancesRight(c, i, s)
  /\ c = "dedent" => DedentRight(i, s)

Right(c, i, s) == s \in Seq(Instr) /\ Rightly(c, i, s)
-------------------------------------------------------------------------------
LEMMA ParseIs ==
  ASSUME NEW f \in RuleNames \ (Direct \cup Joining)
  PROVE  LET i == Parse(f)
         IN  /\ i \in Instr /\ i.op = "parse" /\ i.arg = f
             /\ i.then = "" /\ i.at = 0
<1> DEFINE i == Parse(f)
<1>1. /\ i \in [op : Ops, arg : RuleNames \cup Words, then : Items \cup {""},
               at : Nat, first : Nat]
      /\ i.op = "parse" /\ i.arg = f /\ i.then = "" /\ i.at = 0
  BY DEF Parse, Do, Ops
<1> HIDE DEF i
<1>2. MayCall(i.op, i.arg, i.then)
  BY <1>1 DEF MayCall
<1> QED BY <1>1, <1>2 DEF Instr, i

LEMMA WithinIs ==
  ASSUME NEW f \in RuleNames \ (Joining \cup {"expr_or_missing"})
  PROVE  LET i == Within(f)
         IN  /\ i \in Instr /\ i.op = "within" /\ i.arg = f
             /\ i.then = "" /\ i.at = 0
<1> DEFINE i == Within(f)
<1>1. /\ i \in [op : Ops, arg : RuleNames \cup Words, then : Items \cup {""},
               at : Nat, first : Nat]
      /\ i.op = "within" /\ i.arg = f /\ i.then = "" /\ i.at = 0
  BY DEF Within, Do, Ops
<1> HIDE DEF i
<1>2. MayCall(i.op, i.arg, i.then)
  BY <1>1 DEF MayCall
<1> QED BY <1>1, <1>2 DEF Instr, i

LEMMA RestIs ==
  ASSUME NEW f \in Joining \cup {"trailers"}
  PROVE  LET i == Rest(f)
         IN  /\ i \in Instr /\ i.op = "rest" /\ i.arg = f
             /\ i.then = "" /\ i.at = 0
<1> DEFINE i == Rest(f)
<1>1. /\ i \in [op : Ops, arg : RuleNames \cup Words, then : Items \cup {""},
               at : Nat, first : Nat]
      /\ i.op = "rest" /\ i.arg = f /\ i.then = "" /\ i.at = 0
  BY DEF Rest, Do, Ops, RuleNames, Joining
<1> HIDE DEF i
<1>2. MayCall(i.op, i.arg, i.then)
  BY <1>1 DEF MayCall
<1> QED BY <1>1, <1>2 DEF Instr, i

LEMMA OptIs ==
  ASSUME NEW k \in Words, NEW f \in Items
  PROVE  LET i == Opt(k, f)
         IN  /\ i \in Instr /\ i.op = "opt" /\ i.arg = k
             /\ i.then = f /\ i.at = 0
<1> DEFINE i == Opt(k, f)
<1>1. /\ i \in [op : Ops, arg : RuleNames \cup Words, then : Items \cup {""},
               at : Nat, first : Nat]
      /\ i.op = "opt" /\ i.arg = k /\ i.then = f /\ i.at = 0
  BY DEF Opt, Do, Ops
<1> HIDE DEF i
<1>2. MayCall(i.op, i.arg, i.then)
  BY <1>1 DEF MayCall
<1> QED BY <1>1, <1>2 DEF Instr, i

LEMMA ListIs ==
  ASSUME NEW k \in Words, NEW f \in Items
  PROVE  LET i == List(k, f)
         IN  /\ i \in Instr /\ i.op = "list" /\ i.arg = k
             /\ i.then = f /\ i.at = 0
<1> DEFINE i == List(k, f)
<1>1. /\ i \in [op : Ops, arg : RuleNames \cup Words, then : Items \cup {""},
               at : Nat, first : Nat]
      /\ i.op = "list" /\ i.arg = k /\ i.then = f /\ i.at = 0
  BY DEF List, Do, Ops
<1> HIDE DEF i
<1>2. MayCall(i.op, i.arg, i.then)
  BY <1>1 DEF MayCall
<1> QED BY <1>1, <1>2 DEF Instr, i

LEMMA MoreIs ==
  ASSUME NEW k \in Words, NEW f \in Items
  PROVE  LET i == More(k, f)
         IN  /\ i \in Instr /\ i.op = "more" /\ i.arg = k
             /\ i.then = f /\ i.at = 0
<1> DEFINE i == More(k, f)
<1>1. /\ i \in [op : Ops, arg : RuleNames \cup Words, then : Items \cup {""},
               at : Nat, first : Nat]
      /\ i.op = "more" /\ i.arg = k /\ i.then = f /\ i.at = 0
  BY DEF More, Do, Ops
<1> HIDE DEF i
<1>2. MayCall(i.op, i.arg, i.then)
  BY <1>1 DEF MayCall
<1> QED BY <1>1, <1>2 DEF Instr, i

LEMMA ExpectIs ==
  ASSUME NEW k \in Words
  PROVE  LET i == Expect(k)
         IN  /\ i \in Instr /\ i.op = "expect" /\ i.arg = k
             /\ i.then = "" /\ i.at = 0
<1> DEFINE i == Expect(k)
<1>1. /\ i \in [op : Ops, arg : RuleNames \cup Words, then : Items \cup {""},
               at : Nat, first : Nat]
      /\ i.op = "expect" /\ i.arg = k /\ i.then = "" /\ i.at = 0
  BY DEF Expect, Do, Ops
<1> HIDE DEF i
<1>2. MayCall(i.op, i.arg, i.then)
  BY <1>1 DEF MayCall
<1> QED BY <1>1, <1>2 DEF Instr, i

LEMMA RecoverIs ==
  ASSUME NEW k \in Words
  PROVE  LET i == Recover(k)
         IN  /\ i \in Instr /\ i.op = "recover" /\ i.arg = k
             /\ i.then = "" /\ i.at = 0
<1> DEFINE i == Recover(k)
<1>1. /\ i \in [op : Ops, arg : RuleNames \cup Words, then : Items \cup {""},
               at : Nat, first : Nat]
      /\ i.op = "recover" /\ i.arg = k /\ i.then = "" /\ i.at = 0
  BY DEF Recover, Do, Ops
<1> HIDE DEF i
<1>2. MayCall(i.op, i.arg, i.then)
  BY <1>1 DEF MayCall
<1> QED BY <1>1, <1>2 DEF Instr, i

LEMMA CloseIs ==
  ASSUME NEW k \in Words
  PROVE  LET i == Close(k)
         IN  /\ i \in Instr /\ i.op = "close" /\ i.arg = k
             /\ i.then = "" /\ i.at = 0
<1> DEFINE i == Close(k)
<1>1. /\ i \in [op : Ops, arg : RuleNames \cup Words, then : Items \cup {""},
               at : Nat, first : Nat]
      /\ i.op = "close" /\ i.arg = k /\ i.then = "" /\ i.at = 0
  BY DEF Close, Do, Ops
<1> HIDE DEF i
<1>2. MayCall(i.op, i.arg, i.then)
  BY <1>1 DEF MayCall
<1> QED BY <1>1, <1>2 DEF Instr, i

LEMMA NodeIs ==
  ASSUME NEW k \in Words
  PROVE  LET i == Node(k)
         IN  /\ i \in Instr /\ i.op = "node" /\ i.arg = k
             /\ i.then = "" /\ i.at = 0
<1> DEFINE i == Node(k)
<1>1. /\ i \in [op : Ops, arg : RuleNames \cup Words, then : Items \cup {""},
               at : Nat, first : Nat]
      /\ i.op = "node" /\ i.arg = k /\ i.then = "" /\ i.at = 0
  BY DEF Node, Do, Ops
<1> HIDE DEF i
<1>2. MayCall(i.op, i.arg, i.then)
  BY <1>1 DEF MayCall
<1> QED BY <1>1, <1>2 DEF Instr, i

LEMMA BinopIs ==
  ASSUME NEW p \in Nat
  PROVE  LET i == Binop(p)
         IN  /\ i \in Instr /\ i.op = "binop" /\ i.arg = ""
             /\ i.then = "" /\ i.at = p
<1> DEFINE i == Binop(p)
<1>1. /\ i \in [op : Ops, arg : RuleNames \cup Words, then : Items \cup {""},
               at : Nat, first : Nat]
      /\ i.op = "binop" /\ i.arg = "" /\ i.then = "" /\ i.at = p
  BY DEF Binop, Do, Ops, Words
<1> HIDE DEF i
<1>2. MayCall(i.op, i.arg, i.then)
  BY <1>1 DEF MayCall, Words
<1> QED BY <1>1, <1>2 DEF Instr, i

LEMMA RestBinopIs ==
  ASSUME NEW p \in Nat
  PROVE  LET i == RestBinop(p)
         IN  /\ i \in Instr /\ i.op = "restBinop" /\ i.arg = ""
             /\ i.then = "" /\ i.at = p
<1> DEFINE i == RestBinop(p)
<1>1. /\ i \in [op : Ops, arg : RuleNames \cup Words, then : Items \cup {""},
               at : Nat, first : Nat]
      /\ i.op = "restBinop" /\ i.arg = "" /\ i.then = "" /\ i.at = p
  BY DEF RestBinop, Do, Ops, Words
<1> HIDE DEF i
<1>2. MayCall(i.op, i.arg, i.then)
  BY <1>1 DEF MayCall, Words
<1> QED BY <1>1, <1>2 DEF Instr, i

LEMMA FormatTokensIs ==
  ASSUME NEW p \in Nat
  PROVE  LET i == FormatTokens(p)
         IN  /\ i \in Instr /\ i.op = "spec" /\ i.arg = ""
             /\ i.then = "" /\ i.at = p
<1> DEFINE i == FormatTokens(p)
<1>1. /\ i \in [op : Ops, arg : RuleNames \cup Words, then : Items \cup {""},
               at : Nat, first : Nat]
      /\ i.op = "spec" /\ i.arg = "" /\ i.then = "" /\ i.at = p
  BY DEF FormatTokens, Do, Ops, Words
<1> HIDE DEF i
<1>2. MayCall(i.op, i.arg, i.then)
  BY <1>1 DEF MayCall, Words
<1> QED BY <1>1, <1>2 DEF Instr, i

LEMMA KeywordValueIs ==
  KeywordValue \in Instr /\ KeywordValue.op = "keyword"
<1>1. /\ KeywordValue \in [op : Ops, arg : RuleNames \cup Words, then : Items \cup {""},
                 at : Nat, first : Nat]
      /\ KeywordValue.op = "keyword" /\ KeywordValue.arg = ""
  BY DEF KeywordValue, Do, Ops, Words
<1> QED BY <1>1 DEF Instr, MayCall, Words

LEMMA AdvanceIs ==
  Advance \in Instr /\ Advance.op = "advance"
<1>1. /\ Advance \in [op : Ops, arg : RuleNames \cup Words, then : Items \cup {""},
                 at : Nat, first : Nat]
      /\ Advance.op = "advance" /\ Advance.arg = ""
  BY DEF Advance, Do, Ops, Words
<1> QED BY <1>1 DEF Instr, MayCall, Words

LEMMA NewlineIs ==
  Newline \in Instr /\ Newline.op = "newline"
<1>1. /\ Newline \in [op : Ops, arg : RuleNames \cup Words, then : Items \cup {""},
                 at : Nat, first : Nat]
      /\ Newline.op = "newline" /\ Newline.arg = ""
  BY DEF Newline, Do, Ops, Words
<1> QED BY <1>1 DEF Instr, MayCall, Words

LEMMA ComplainIs ==
  Complain \in Instr /\ Complain.op = "complain"
<1>1. /\ Complain \in [op : Ops, arg : RuleNames \cup Words, then : Items \cup {""},
                 at : Nat, first : Nat]
      /\ Complain.op = "complain" /\ Complain.arg = ""
  BY DEF Complain, Do, Ops, Words
<1> QED BY <1>1 DEF Instr, MayCall, Words

LEMMA FailIs ==
  Fail \in Instr /\ Fail.op = "fail"
<1>1. /\ Fail \in [op : Ops, arg : RuleNames \cup Words, then : Items \cup {""},
                 at : Nat, first : Nat]
      /\ Fail.op = "fail" /\ Fail.arg = ""
  BY DEF Fail, Do, Ops, Words
<1> QED BY <1>1 DEF Instr, MayCall, Words

LEMMA MissingIs ==
  Missing \in Instr /\ Missing.op = "missing"
<1>1. /\ Missing \in [op : Ops, arg : RuleNames \cup Words, then : Items \cup {""},
                 at : Nat, first : Nat]
      /\ Missing.op = "missing" /\ Missing.arg = ""
  BY DEF Missing, Do, Ops, Words
<1> QED BY <1>1 DEF Instr, MayCall, Words

LEMMA JoinIs ==
  Join \in Instr /\ Join.op = "join"
<1>1. /\ Join \in [op : Ops, arg : RuleNames \cup Words, then : Items \cup {""},
                 at : Nat, first : Nat]
      /\ Join.op = "join" /\ Join.arg = ""
  BY DEF Join, Do, Ops, Words
<1> QED BY <1>1 DEF Instr, MayCall, Words

LEMMA Tuple1 ==
  \A a :
       LET s == <<a>>
       IN  Len(s) = 1 /\ DOMAIN s = 1 .. 1 /\ s[1] = a
OBVIOUS
LEMMA Tuple2 ==
  \A a, b :
       LET s == <<a, b>>
       IN  Len(s) = 2 /\ DOMAIN s = 1 .. 2 /\ s[1] = a /\ s[2] = b
OBVIOUS
LEMMA Tuple3 ==
  \A a, b, d :
       LET s == <<a, b, d>>
       IN  Len(s) = 3 /\ DOMAIN s = 1 .. 3 /\ s[1] = a /\ s[2] = b /\ s[3] = d
OBVIOUS
LEMMA Tuple4 ==
  \A a, b, d, e :
       LET s == <<a, b, d, e>>
       IN  Len(s) = 4 /\ DOMAIN s = 1 .. 4 /\ s[1] = a /\ s[2] = b /\ s[3] = d /\ s[4] = e
OBVIOUS
LEMMA Tuple5 ==
  \A a, b, d, e, f :
       LET s == <<a, b, d, e, f>>
       IN  Len(s) = 5 /\ DOMAIN s = 1 .. 5 /\ s[1] = a /\ s[2] = b /\ s[3] = d /\ s[4] = e /\ s[5] = f
OBVIOUS
LEMMA Tuple6 ==
  \A a, b, d, e, f, g :
       LET s == <<a, b, d, e, f, g>>
       IN  Len(s) = 6 /\ DOMAIN s = 1 .. 6 /\ s[1] = a /\ s[2] = b /\ s[3] = d /\ s[4] = e /\ s[5] = f /\ s[6] = g
OBVIOUS
LEMMA Tuple7 ==
  \A a, b, d, e, f, g, h :
       LET s == <<a, b, d, e, f, g, h>>
       IN  Len(s) = 7 /\ DOMAIN s = 1 .. 7 /\ s[1] = a /\ s[2] = b /\ s[3] = d /\ s[4] = e /\ s[5] = f /\ s[6] = g /\ s[7] = h
OBVIOUS
LEMMA Tuple8 ==
  \A a, b, d, e, f, g, h, k :
       LET s == <<a, b, d, e, f, g, h, k>>
       IN  Len(s) = 8 /\ DOMAIN s = 1 .. 8 /\ s[1] = a /\ s[2] = b /\ s[3] = d /\ s[4] = e /\ s[5] = f /\ s[6] = g /\ s[7] = h /\ s[8] = k
OBVIOUS
LEMMA Tuple9 ==
  \A a, b, d, e, f, g, h, k, l :
       LET s == <<a, b, d, e, f, g, h, k, l>>
       IN  Len(s) = 9 /\ DOMAIN s = 1 .. 9 /\ s[1] = a /\ s[2] = b /\ s[3] = d /\ s[4] = e /\ s[5] = f /\ s[6] = g /\ s[7] = h /\ s[8] = k /\ s[9] = l
OBVIOUS
LEMMA OpsAre ==
  /\ \A f : /\ Parse(f).op = "parse" /\ Parse(f).arg = f
            /\ Within(f).op = "within" /\ Within(f).arg = f
            /\ Rest(f).op = "rest"
            /\ Expect(f).op = "expect" /\ Recover(f).op = "recover"
            /\ Close(f).op = "close" /\ Node(f).op = "node"
            /\ Binop(f).op = "binop" /\ RestBinop(f).op = "restBinop"
            /\ FormatTokens(f).op = "spec"
  /\ \A k, f : /\ Opt(k, f).op = "opt" /\ List(k, f).op = "list"
               /\ More(k, f).op = "more"
  /\ KeywordValue.op = "keyword" /\ Advance.op = "advance"
  /\ Newline.op = "newline" /\ Complain.op = "complain" /\ Fail.op = "fail"
  /\ Missing.op = "missing" /\ Join.op = "join"
BY DEF Parse, Within, Rest, Expect, Recover, Close, Node, Binop, RestBinop,
       FormatTokens, Opt, List, More, KeywordValue, Advance, Newline, Complain,
       Fail, Missing, Join, Do


LEMMA Tuple0 == Len(<<>>) = 0 /\ DOMAIN <<>> = {}
OBVIOUS

LEMMA CallsAre ==
  ASSUME NEW i \in Instr, i.op \in {"parse", "within", "rest"}
  PROVE  /\ i.arg \in Joining => i.op = "rest"
         /\ i.arg \notin Joining \cup {"trailers"} => i.op \in {"parse", "within"}
<1>1. MayCall(i.op, i.arg, i.then)
  BY DEF Instr
<1> QED BY <1>1 DEF MayCall

LEMMA SignsDiffer ==
  /\ LBrace \notin {"dedent", "**"}
  /\ RBrace \notin {"dedent", "**", LBrace}
  /\ Comma \notin {"dedent", "for", "async", "from", "**"}
BY Zenon DEF LBrace, RBrace, Comma

LEMMA BlockRulesAreRight ==
  ASSUME NEW c \in Kinds, NEW i \in Instr,
         i.op \in {"parse", "within", "rest"},
         i.arg \in DOMAIN BlockRules(c)
  PROVE  Right(c, i, BlockRules(c)[i.arg])
<1> DEFINE s == BlockRules(c)[i.arg]
<1> SUFFICES Right(c, i, s)
  OBVIOUS
<1>1. i.arg \in {"block", "stmts", "else_block", "decorated", "async_stmt",
                "async_rest"}
  BY DEF BlockRules
<1>2. i.arg = "block" =>
        s = <<Expect("newline"), Expect("indent"), Parse("stmts")>>
  BY DEF BlockRules, When
<1>3. i.arg = "stmts" =>
        \/ c = "dedent" /\ s = <<Advance>>
        \/ c = "eof" /\ s = <<>>
        \/ c = "newline" /\ s = <<Advance, Parse("stmts")>>
        \/ c \notin {"dedent", "eof", "newline"}
           /\ s = <<Parse("stmt"), Parse("stmts")>>
  BY DEF BlockRules, When
<1>4. i.arg = "else_block" =>
        \/ c = "else" /\ s = <<Advance, Recover(":"), Parse("block")>>
        \/ ~ (c = "else") /\ s = <<>>
  BY DEF BlockRules, When
<1>5. i.arg = "decorated" =>
        \/ c = "@"
           /\ s = <<Advance, Parse("expr"), Newline, Within("decorated")>>
        \/ c = "def" /\ s = <<Within("func_def")>>
        \/ c = "async" /\ s = <<Advance, Within("func_def")>>
        \/ c = "class" /\ s = <<Parse("class_def")>>
        \/ s = <<Fail>>
  BY DEF BlockRules, When
<1>6. i.arg = "async_stmt" =>
        s = <<Expect("async"), Within("async_rest")>>
  BY DEF BlockRules, When
<1>7. i.arg = "async_rest" =>
        \/ c = "def" /\ s = <<Within("func_def")>>
        \/ c = "for" /\ s = <<Within("for_stmt")>>
        \/ c = "with" /\ s = <<Within("with_stmt")>>
        \/ s = <<Fail>>
  BY DEF BlockRules, When
<1> HIDE DEF s
<1>8. {"block", "class_def", "expr", "stmt", "stmts"}
          \subseteq RuleNames \ (Direct \cup Joining)
  BY DEF RuleNames, Direct, Joining
<1>9. \A f \in {"block", "class_def", "expr", "stmt", "stmts"} :
        Parse(f) \in Instr
  BY <1>8, ParseIs
<1>10. {"async_rest", "decorated", "for_stmt", "func_def", "with_stmt"}
          \subseteq RuleNames \ (Joining \cup {"expr_or_missing"})
  BY DEF RuleNames, Joining
<1>11. \A f \in {"async_rest", "decorated", "for_stmt", "func_def",
                "with_stmt"} :
        Within(f) \in Instr
  BY <1>10, WithinIs
<1>12. {":", "async", "indent", "newline"} \subseteq Words
  BY DEF Words
<1>13. \A k \in {"async", "indent", "newline"} : Expect(k) \in Instr
  BY <1>12, ExpectIs
<1>14. \A k \in {":"} : Recover(k) \in Instr
  BY <1>12, RecoverIs
<1>15. /\ <<Expect("newline"), Expect("indent"), Parse("stmts")>> \in Seq(Instr)
       /\ <<Advance>> \in Seq(Instr)
       /\ <<>> \in Seq(Instr)
       /\ <<Advance, Parse("stmts")>> \in Seq(Instr)
       /\ <<Parse("stmt"), Parse("stmts")>> \in Seq(Instr)
       /\ <<Advance, Recover(":"), Parse("block")>> \in Seq(Instr)
       /\ <<Advance, Parse("expr"), Newline, Within("decorated")>> \in Seq(Instr)
       /\ <<Within("func_def")>> \in Seq(Instr)
       /\ <<Advance, Within("func_def")>> \in Seq(Instr)
       /\ <<Parse("class_def")>> \in Seq(Instr)
       /\ <<Fail>> \in Seq(Instr)
       /\ <<Expect("async"), Within("async_rest")>> \in Seq(Instr)
       /\ <<Within("for_stmt")>> \in Seq(Instr)
       /\ <<Within("with_stmt")>> \in Seq(Instr)
  BY <1>9, <1>11, <1>13, <1>14, AdvanceIs, NewlineIs, FailIs
<1>16. s \in Seq(Instr)
  BY <1>1, <1>2, <1>3, <1>4, <1>5, <1>6, <1>7, <1>15
<1>17. i.op \in {"parse", "within"}
  BY <1>1, CallsAre DEF Joining
<1>18. Rightly(c, i, s)
  <2> USE OpsAre
        DEF Rightly, GoesOnRight, SettlesRight, MissingRight, TrailsRight,
                AdvancesRight, DedentRight, GoesOn, Calls, Yields, Yielding,
                Consumes, ConsumesAt, Consuming, Settles, Direct, NodeLike,
                Statements, Trails, Guarded, Loops, Chain, FailsAtDedent
  <2>1. ASSUME i.arg = "block",
              s = <<Expect("newline"), Expect("indent"), Parse("stmts")>>
        PROVE  Rightly(c, i, s)
    BY <2>1, <1>17, Tuple3
  <2>2. ASSUME i.arg = "stmts", c = "dedent",
              s = <<Advance>>
        PROVE  Rightly(c, i, s)
    BY <2>2, <1>17, Tuple1
  <2>3. ASSUME i.arg = "stmts", c = "eof",
              s = <<>>
        PROVE  Rightly(c, i, s)
    BY <2>3, <1>17, Tuple0
  <2>4. ASSUME i.arg = "stmts", c = "newline",
              s = <<Advance, Parse("stmts")>>
        PROVE  Rightly(c, i, s)
    BY <2>4, <1>17, Tuple2
  <2>5. ASSUME i.arg = "stmts", c \notin {"dedent", "eof", "newline"},
              s = <<Parse("stmt"), Parse("stmts")>>
        PROVE  Rightly(c, i, s)
    BY <2>5, <1>17, Tuple2
  <2>6. ASSUME i.arg = "else_block", c = "else",
              s = <<Advance, Recover(":"), Parse("block")>>
        PROVE  Rightly(c, i, s)
    BY <2>6, <1>17, Tuple3
  <2>7. ASSUME i.arg = "else_block", ~ (c = "else"),
              s = <<>>
        PROVE  Rightly(c, i, s)
    BY <2>7, <1>17, Tuple0
  <2>8. ASSUME i.arg = "decorated", c = "@",
              s = <<Advance, Parse("expr"), Newline, Within("decorated")>>
        PROVE  Rightly(c, i, s)
    BY <2>8, <1>17, Tuple4
  <2>9. ASSUME i.arg = "decorated", c = "def",
              s = <<Within("func_def")>>
        PROVE  Rightly(c, i, s)
    BY <2>9, <1>17, Tuple1
  <2>10. ASSUME i.arg = "decorated", c = "async",
              s = <<Advance, Within("func_def")>>
        PROVE  Rightly(c, i, s)
    BY <2>10, <1>17, Tuple2
  <2>11. ASSUME i.arg = "decorated", c = "class",
              s = <<Parse("class_def")>>
        PROVE  Rightly(c, i, s)
    BY <2>11, <1>17, Tuple1
  <2>12. ASSUME i.arg = "decorated",
              s = <<Fail>>
        PROVE  Rightly(c, i, s)
    BY <2>12, <1>17, Tuple1
  <2>13. ASSUME i.arg = "async_stmt",
              s = <<Expect("async"), Within("async_rest")>>
        PROVE  Rightly(c, i, s)
    BY <2>13, <1>17, Tuple2
  <2>14. ASSUME i.arg = "async_rest", c = "def",
              s = <<Within("func_def")>>
        PROVE  Rightly(c, i, s)
    BY <2>14, <1>17, Tuple1
  <2>15. ASSUME i.arg = "async_rest", c = "for",
              s = <<Within("for_stmt")>>
        PROVE  Rightly(c, i, s)
    BY <2>15, <1>17, Tuple1
  <2>16. ASSUME i.arg = "async_rest", c = "with",
              s = <<Within("with_stmt")>>
        PROVE  Rightly(c, i, s)
    BY <2>16, <1>17, Tuple1
  <2>17. ASSUME i.arg = "async_rest",
              s = <<Fail>>
        PROVE  Rightly(c, i, s)
    BY <2>17, <1>17, Tuple1
  <2> HIDE OpsAre
        DEF Rightly, GoesOnRight, SettlesRight, MissingRight, TrailsRight,
                AdvancesRight, DedentRight, GoesOn, Calls, Yields, Yielding,
                Consumes, ConsumesAt, Consuming, Settles, Direct, NodeLike,
                Statements, Trails, Guarded, Loops, Chain, FailsAtDedent
  <2> QED BY <1>1, <1>2, <1>3, <1>4, <1>5, <1>6, <1>7, <2>1, <2>2, <2>3, <2>4,
         <2>5, <2>6, <2>7, <2>8, <2>9, <2>10, <2>11, <2>12, <2>13, <2>14,
         <2>15, <2>16, <2>17
<1> QED BY <1>16, <1>18 DEF Right

LEMMA FunctionRulesAreRight ==
  ASSUME NEW c \in Kinds, NEW i \in Instr,
         i.op \in {"parse", "within", "rest"},
         i.arg \in DOMAIN FunctionRules(c)
  PROVE  Right(c, i, FunctionRules(c)[i.arg])
<1> DEFINE s == FunctionRules(c)[i.arg]
<1> SUFFICES Right(c, i, s)
  OBVIOUS
<1>1. i.arg \in {"func_def", "params", "param_items", "star_param",
                "more_params", "comma", "param"}
  BY DEF FunctionRules
<1>2. i.arg = "func_def" =>
        s = <<Expect("def"), Expect("name"), Expect("("), Parse("params"),
              Close(")"), Opt("->", "expr"), Recover(":"), Parse("block"),
              Node("stmt")>>
  BY DEF FunctionRules, When
<1>3. i.arg = "params" =>
        \/ c # ")" /\ s = <<Within("param_items"), Node("other")>>
        \/ ~ (c # ")") /\ s = <<>>
  BY DEF FunctionRules, When
<1>4. i.arg = "param_items" =>
        \/ c = ")" /\ s = <<>>
        \/ c = "/" /\ s = <<Advance, Parse("more_params")>>
        \/ c = "*" /\ s = <<Advance, Parse("star_param")>>
        \/ c = "**" /\ s = <<Advance, Parse("param"), Parse("comma")>>
        \/ s = <<Parse("param"), Parse("more_params")>>
  BY DEF FunctionRules, When
<1>5. i.arg = "star_param" =>
        \/ s = <<Parse("more_params")>>
        \/ s = <<Parse("param"), Parse("more_params")>>
  BY SignsDiffer DEF FunctionRules, When
<1>6. i.arg = "more_params" =>
        \/ c = Comma /\ s = <<Advance, Parse("param_items")>>
        \/ ~ (c = Comma) /\ s = <<>>
  BY SignsDiffer DEF FunctionRules, When
<1>7. i.arg = "comma" =>
        \/ c = Comma /\ s = <<Advance>>
        \/ ~ (c = Comma) /\ s = <<>>
  BY SignsDiffer DEF FunctionRules, When
<1>8. i.arg = "param" =>
        s = <<Expect("name"), Opt(":", "expr"), Opt("=", "expr"),
              Node("other")>>
  BY DEF FunctionRules, When
<1> HIDE DEF s
<1>9. {"block", "comma", "more_params", "param", "param_items", "params",
       "star_param"}
          \subseteq RuleNames \ (Direct \cup Joining)
  BY DEF RuleNames, Direct, Joining
<1>10. \A f \in {"block", "comma", "more_params", "param", "param_items",
                "params", "star_param"} :
        Parse(f) \in Instr
  BY <1>9, ParseIs
<1>11. {"param_items"}
          \subseteq RuleNames \ (Joining \cup {"expr_or_missing"})
  BY DEF RuleNames, Joining
<1>12. \A f \in {"param_items"} :
        Within(f) \in Instr
  BY <1>11, WithinIs
<1>13. {"(", ")", "->", ":", "=", "def", "name", "other",
        "stmt"} \subseteq Words
  BY DEF Words
<1>14. \A k \in {"(", "def", "name"} : Expect(k) \in Instr
  BY <1>13, ExpectIs
<1>15. \A k \in {":"} : Recover(k) \in Instr
  BY <1>13, RecoverIs
<1>16. \A k \in {")"} : Close(k) \in Instr
  BY <1>13, CloseIs
<1>17. \A k \in {"other", "stmt"} : Node(k) \in Instr
  BY <1>13, NodeIs
<1>18. {"expr"} \subseteq Items
  BY DEF Items
<1>19. /\ Opt("->", "expr") \in Instr
       /\ Opt(":", "expr") \in Instr
       /\ Opt("=", "expr") \in Instr
  BY <1>13, <1>18, OptIs
<1>20. /\ <<Expect("def"), Expect("name"), Expect("("), Parse("params"), Close(")"),
            Opt("->", "expr"), Recover(":"), Parse("block"),
            Node("stmt")>> \in Seq(Instr)
       /\ <<Within("param_items"), Node("other")>> \in Seq(Instr)
       /\ <<>> \in Seq(Instr)
       /\ <<Advance, Parse("more_params")>> \in Seq(Instr)
       /\ <<Advance, Parse("star_param")>> \in Seq(Instr)
       /\ <<Advance, Parse("param"), Parse("comma")>> \in Seq(Instr)
       /\ <<Parse("param"), Parse("more_params")>> \in Seq(Instr)
       /\ <<Parse("more_params")>> \in Seq(Instr)
       /\ <<Advance, Parse("param_items")>> \in Seq(Instr)
       /\ <<Advance>> \in Seq(Instr)
       /\ <<Expect("name"), Opt(":", "expr"), Opt("=", "expr"),
            Node("other")>> \in Seq(Instr)
  BY <1>10, <1>12, <1>14, <1>15, <1>16, <1>17, <1>19, AdvanceIs
<1>21. s \in Seq(Instr)
  BY <1>1, <1>2, <1>3, <1>4, <1>5, <1>6, <1>7, <1>8, <1>20
<1>22. i.op \in {"parse", "within"}
  BY <1>1, CallsAre DEF Joining
<1>23. Rightly(c, i, s)
  <2> USE OpsAre
        DEF Rightly, GoesOnRight, SettlesRight, MissingRight, TrailsRight,
                AdvancesRight, DedentRight, GoesOn, Calls, Yields, Yielding,
                Consumes, ConsumesAt, Consuming, Settles, Direct, NodeLike,
                Statements, Trails, Guarded, Loops, Chain, FailsAtDedent
  <2>1. ASSUME i.arg = "func_def",
              s = <<Expect("def"), Expect("name"), Expect("("),
                    Parse("params"), Close(")"), Opt("->", "expr"),
                    Recover(":"), Parse("block"), Node("stmt")>>
        PROVE  Rightly(c, i, s)
    BY <2>1, <1>22, Tuple9
  <2>2. ASSUME i.arg = "params", c # ")",
              s = <<Within("param_items"), Node("other")>>
        PROVE  Rightly(c, i, s)
    BY <2>2, <1>22, Tuple2
  <2>3. ASSUME i.arg = "params", ~ (c # ")"),
              s = <<>>
        PROVE  Rightly(c, i, s)
    BY <2>3, <1>22, Tuple0
  <2>4. ASSUME i.arg = "param_items", c = ")",
              s = <<>>
        PROVE  Rightly(c, i, s)
    BY <2>4, <1>22, Tuple0
  <2>5. ASSUME i.arg = "param_items", c = "/",
              s = <<Advance, Parse("more_params")>>
        PROVE  Rightly(c, i, s)
    BY <2>5, <1>22, Tuple2
  <2>6. ASSUME i.arg = "param_items", c = "*",
              s = <<Advance, Parse("star_param")>>
        PROVE  Rightly(c, i, s)
    BY <2>6, <1>22, Tuple2
  <2>7. ASSUME i.arg = "param_items", c = "**",
              s = <<Advance, Parse("param"), Parse("comma")>>
        PROVE  Rightly(c, i, s)
    BY <2>7, <1>22, Tuple3
  <2>8. ASSUME i.arg = "param_items",
              s = <<Parse("param"), Parse("more_params")>>
        PROVE  Rightly(c, i, s)
    BY <2>8, <1>22, Tuple2
  <2>9. ASSUME i.arg = "star_param",
              s = <<Parse("more_params")>>
        PROVE  Rightly(c, i, s)
    BY <2>9, <1>22, Tuple1
  <2>10. ASSUME i.arg = "star_param",
              s = <<Parse("param"), Parse("more_params")>>
        PROVE  Rightly(c, i, s)
    BY <2>10, <1>22, Tuple2
  <2>11. ASSUME i.arg = "more_params", c = Comma,
              s = <<Advance, Parse("param_items")>>
        PROVE  Rightly(c, i, s)
    BY <2>11, <1>22, Tuple2, SignsDiffer
  <2>12. ASSUME i.arg = "more_params", ~ (c = Comma),
              s = <<>>
        PROVE  Rightly(c, i, s)
    BY <2>12, <1>22, Tuple0, SignsDiffer
  <2>13. ASSUME i.arg = "comma", c = Comma,
              s = <<Advance>>
        PROVE  Rightly(c, i, s)
    BY <2>13, <1>22, Tuple1, SignsDiffer
  <2>14. ASSUME i.arg = "comma", ~ (c = Comma),
              s = <<>>
        PROVE  Rightly(c, i, s)
    BY <2>14, <1>22, Tuple0, SignsDiffer
  <2>15. ASSUME i.arg = "param",
              s = <<Expect("name"), Opt(":", "expr"), Opt("=", "expr"),
                    Node("other")>>
        PROVE  Rightly(c, i, s)
    BY <2>15, <1>22, Tuple4
  <2> HIDE OpsAre
        DEF Rightly, GoesOnRight, SettlesRight, MissingRight, TrailsRight,
                AdvancesRight, DedentRight, GoesOn, Calls, Yields, Yielding,
                Consumes, ConsumesAt, Consuming, Settles, Direct, NodeLike,
                Statements, Trails, Guarded, Loops, Chain, FailsAtDedent
  <2> QED BY <1>1, <1>2, <1>3, <1>4, <1>5, <1>6, <1>7, <1>8, <2>1, <2>2, <2>3,
         <2>4, <2>5, <2>6, <2>7, <2>8, <2>9, <2>10, <2>11, <2>12, <2>13, <2>14,
         <2>15
<1> QED BY <1>21, <1>23 DEF Right

LEMMA ClassRulesAreRight ==
  ASSUME NEW c \in Kinds, NEW i \in Instr,
         i.op \in {"parse", "within", "rest"},
         i.arg \in DOMAIN ClassRules(c)
  PROVE  Right(c, i, ClassRules(c)[i.arg])
<1> DEFINE s == ClassRules(c)[i.arg]
<1> SUFFICES Right(c, i, s)
  OBVIOUS
<1>1. i.arg \in {"class_def", "bases", "class_arg", "class_name", "attributes"}
  BY DEF ClassRules
<1>2. i.arg = "class_def" =>
        s = <<Expect("class"), Expect("name"), Parse("bases"), Recover(":"),
              Parse("block"), Node("stmt")>>
  BY DEF ClassRules, When
<1>3. i.arg = "bases" =>
        \/ c = "(" /\ s = <<Advance, List(")", "class_arg"), Close(")")>>
        \/ ~ (c = "(") /\ s = <<>>
  BY DEF ClassRules, When
<1>4. i.arg = "class_arg" =>
        \/ c = "**" /\ s = <<Advance, Parse("expr"), Node("other")>>
        \/ c = "name" /\ s = <<Advance, Within("class_name")>>
        \/ s = <<Parse("expr")>>
  BY DEF ClassRules, When
<1>5. i.arg = "class_name" =>
        \/ c = "=" /\ s = <<Advance, Parse("expr"), Node("other")>>
        \/ s = <<Node("other"), Within("attributes")>>
  BY DEF ClassRules, When
<1>6. i.arg = "attributes" =>
        \/ c = "."
           /\ s = <<Advance, Expect("name"), Node("other"),
                    Within("attributes")>>
        \/ ~ (c = ".") /\ s = <<>>
  BY DEF ClassRules, When
<1> HIDE DEF s
<1>7. {"bases", "block", "expr"}
          \subseteq RuleNames \ (Direct \cup Joining)
  BY DEF RuleNames, Direct, Joining
<1>8. \A f \in {"bases", "block", "expr"} :
        Parse(f) \in Instr
  BY <1>7, ParseIs
<1>9. {"attributes", "class_name"}
          \subseteq RuleNames \ (Joining \cup {"expr_or_missing"})
  BY DEF RuleNames, Joining
<1>10. \A f \in {"attributes", "class_name"} :
        Within(f) \in Instr
  BY <1>9, WithinIs
<1>11. {")", ":", "class", "name", "other", "stmt"} \subseteq Words
  BY DEF Words
<1>12. \A k \in {"class", "name"} : Expect(k) \in Instr
  BY <1>11, ExpectIs
<1>13. \A k \in {":"} : Recover(k) \in Instr
  BY <1>11, RecoverIs
<1>14. \A k \in {")"} : Close(k) \in Instr
  BY <1>11, CloseIs
<1>15. \A k \in {"other", "stmt"} : Node(k) \in Instr
  BY <1>11, NodeIs
<1>16. {"class_arg"} \subseteq Items
  BY DEF Items
<1>17. List(")", "class_arg") \in Instr
  BY <1>11, <1>16, ListIs
<1>18. /\ <<Expect("class"), Expect("name"), Parse("bases"), Recover(":"),
            Parse("block"), Node("stmt")>> \in Seq(Instr)
       /\ <<Advance, List(")", "class_arg"), Close(")")>> \in Seq(Instr)
       /\ <<>> \in Seq(Instr)
       /\ <<Advance, Parse("expr"), Node("other")>> \in Seq(Instr)
       /\ <<Advance, Within("class_name")>> \in Seq(Instr)
       /\ <<Parse("expr")>> \in Seq(Instr)
       /\ <<Node("other"), Within("attributes")>> \in Seq(Instr)
       /\ <<Advance, Expect("name"), Node("other"),
            Within("attributes")>> \in Seq(Instr)
  BY <1>8, <1>10, <1>12, <1>13, <1>14, <1>15, <1>17, AdvanceIs
<1>19. s \in Seq(Instr)
  BY <1>1, <1>2, <1>3, <1>4, <1>5, <1>6, <1>18
<1>20. i.op \in {"parse", "within"}
  BY <1>1, CallsAre DEF Joining
<1>21. Rightly(c, i, s)
  <2> USE OpsAre
        DEF Rightly, GoesOnRight, SettlesRight, MissingRight, TrailsRight,
                AdvancesRight, DedentRight, GoesOn, Calls, Yields, Yielding,
                Consumes, ConsumesAt, Consuming, Settles, Direct, NodeLike,
                Statements, Trails, Guarded, Loops, Chain, FailsAtDedent
  <2>1. ASSUME i.arg = "class_def",
              s = <<Expect("class"), Expect("name"), Parse("bases"),
                    Recover(":"), Parse("block"), Node("stmt")>>
        PROVE  Rightly(c, i, s)
    BY <2>1, <1>20, Tuple6
  <2>2. ASSUME i.arg = "bases", c = "(",
              s = <<Advance, List(")", "class_arg"), Close(")")>>
        PROVE  Rightly(c, i, s)
    BY <2>2, <1>20, Tuple3
  <2>3. ASSUME i.arg = "bases", ~ (c = "("),
              s = <<>>
        PROVE  Rightly(c, i, s)
    BY <2>3, <1>20, Tuple0
  <2>4. ASSUME i.arg = "class_arg", c = "**",
              s = <<Advance, Parse("expr"), Node("other")>>
        PROVE  Rightly(c, i, s)
    BY <2>4, <1>20, Tuple3
  <2>5. ASSUME i.arg = "class_arg", c = "name",
              s = <<Advance, Within("class_name")>>
        PROVE  Rightly(c, i, s)
    BY <2>5, <1>20, Tuple2
  <2>6. ASSUME i.arg = "class_arg",
              s = <<Parse("expr")>>
        PROVE  Rightly(c, i, s)
    BY <2>6, <1>20, Tuple1
  <2>7. ASSUME i.arg = "class_name", c = "=",
              s = <<Advance, Parse("expr"), Node("other")>>
        PROVE  Rightly(c, i, s)
    BY <2>7, <1>20, Tuple3
  <2>8. ASSUME i.arg = "class_name",
              s = <<Node("other"), Within("attributes")>>
        PROVE  Rightly(c, i, s)
    BY <2>8, <1>20, Tuple2
  <2>9. ASSUME i.arg = "attributes", c = ".",
              s = <<Advance, Expect("name"), Node("other"),
                    Within("attributes")>>
        PROVE  Rightly(c, i, s)
    BY <2>9, <1>20, Tuple4
  <2>10. ASSUME i.arg = "attributes", ~ (c = "."),
              s = <<>>
        PROVE  Rightly(c, i, s)
    BY <2>10, <1>20, Tuple0
  <2> HIDE OpsAre
        DEF Rightly, GoesOnRight, SettlesRight, MissingRight, TrailsRight,
                AdvancesRight, DedentRight, GoesOn, Calls, Yields, Yielding,
                Consumes, ConsumesAt, Consuming, Settles, Direct, NodeLike,
                Statements, Trails, Guarded, Loops, Chain, FailsAtDedent
  <2> QED BY <1>1, <1>2, <1>3, <1>4, <1>5, <1>6, <2>1, <2>2, <2>3, <2>4, <2>5,
         <2>6, <2>7, <2>8, <2>9, <2>10
<1> QED BY <1>19, <1>21 DEF Right

LEMMA BranchRulesAreRight ==
  ASSUME NEW c \in Kinds, NEW i \in Instr,
         i.op \in {"parse", "within", "rest"},
         i.arg \in DOMAIN BranchRules(c)
  PROVE  Right(c, i, BranchRules(c)[i.arg])
<1> DEFINE s == BranchRules(c)[i.arg]
<1> SUFFICES Right(c, i, s)
  OBVIOUS
<1>1. i.arg \in {"expr_or_missing", "if_stmt", "if_inner", "if_rest",
                "for_stmt", "while_stmt"}
  BY DEF BranchRules
<1>2. i.arg = "expr_or_missing" =>
        s = <<Parse("expr"), Missing>>
  BY DEF BranchRules, When
<1>3. i.arg = "if_stmt" =>
        s = <<Expect("if"), Within("if_inner")>>
  BY DEF BranchRules, When
<1>4. i.arg = "if_inner" =>
        s = <<Parse("expr_or_missing"), Recover(":"), Parse("block"),
              Within("if_rest"), Node("if")>>
  BY DEF BranchRules, When
<1>5. i.arg = "if_rest" =>
        \/ c = "elif" /\ s = <<Advance, Within("if_inner")>>
        \/ s = <<Parse("else_block")>>
  BY DEF BranchRules, When
<1>6. i.arg = "for_stmt" =>
        s = <<Expect("for"), Parse("expr_or_missing"), Expect("in"),
              Parse("expr_or_missing"), Recover(":"), Parse("block"),
              Parse("else_block"), Node("stmt")>>
  BY DEF BranchRules, When
<1>7. i.arg = "while_stmt" =>
        s = <<Expect("while"), Parse("expr_or_missing"), Recover(":"),
              Parse("block"), Parse("else_block"), Node("stmt")>>
  BY DEF BranchRules, When
<1> HIDE DEF s
<1>8. {"block", "else_block", "expr", "expr_or_missing"}
          \subseteq RuleNames \ (Direct \cup Joining)
  BY DEF RuleNames, Direct, Joining
<1>9. \A f \in {"block", "else_block", "expr", "expr_or_missing"} :
        Parse(f) \in Instr
  BY <1>8, ParseIs
<1>10. {"if_inner", "if_rest"}
          \subseteq RuleNames \ (Joining \cup {"expr_or_missing"})
  BY DEF RuleNames, Joining
<1>11. \A f \in {"if_inner", "if_rest"} :
        Within(f) \in Instr
  BY <1>10, WithinIs
<1>12. {":", "for", "if", "in", "stmt", "while"} \subseteq Words
  BY DEF Words
<1>13. \A k \in {"for", "if", "in", "while"} : Expect(k) \in Instr
  BY <1>12, ExpectIs
<1>14. \A k \in {":"} : Recover(k) \in Instr
  BY <1>12, RecoverIs
<1>15. \A k \in {"if", "stmt"} : Node(k) \in Instr
  BY <1>12, NodeIs
<1>16. /\ <<Parse("expr"), Missing>> \in Seq(Instr)
       /\ <<Expect("if"), Within("if_inner")>> \in Seq(Instr)
       /\ <<Parse("expr_or_missing"), Recover(":"), Parse("block"), Within("if_rest"),
            Node("if")>> \in Seq(Instr)
       /\ <<Advance, Within("if_inner")>> \in Seq(Instr)
       /\ <<Parse("else_block")>> \in Seq(Instr)
       /\ <<Expect("for"), Parse("expr_or_missing"), Expect("in"),
            Parse("expr_or_missing"), Recover(":"), Parse("block"),
            Parse("else_block"), Node("stmt")>> \in Seq(Instr)
       /\ <<Expect("while"), Parse("expr_or_missing"), Recover(":"), Parse("block"),
            Parse("else_block"), Node("stmt")>> \in Seq(Instr)
  BY <1>9, <1>11, <1>13, <1>14, <1>15, AdvanceIs, MissingIs
<1>17. s \in Seq(Instr)
  BY <1>1, <1>2, <1>3, <1>4, <1>5, <1>6, <1>7, <1>16
<1>18. i.op \in {"parse", "within"}
  BY <1>1, CallsAre DEF Joining
<1>19. Rightly(c, i, s)
  <2> USE OpsAre
        DEF Rightly, GoesOnRight, SettlesRight, MissingRight, TrailsRight,
                AdvancesRight, DedentRight, GoesOn, Calls, Yields, Yielding,
                Consumes, ConsumesAt, Consuming, Settles, Direct, NodeLike,
                Statements, Trails, Guarded, Loops, Chain, FailsAtDedent
  <2>1. ASSUME i.arg = "expr_or_missing",
              s = <<Parse("expr"), Missing>>
        PROVE  Rightly(c, i, s)
    BY <2>1, <1>18, Tuple2
  <2>2. ASSUME i.arg = "if_stmt",
              s = <<Expect("if"), Within("if_inner")>>
        PROVE  Rightly(c, i, s)
    BY <2>2, <1>18, Tuple2
  <2>3. ASSUME i.arg = "if_inner",
              s = <<Parse("expr_or_missing"), Recover(":"), Parse("block"),
                    Within("if_rest"), Node("if")>>
        PROVE  Rightly(c, i, s)
    BY <2>3, <1>18, Tuple5
  <2>4. ASSUME i.arg = "if_rest", c = "elif",
              s = <<Advance, Within("if_inner")>>
        PROVE  Rightly(c, i, s)
    BY <2>4, <1>18, Tuple2
  <2>5. ASSUME i.arg = "if_rest",
              s = <<Parse("else_block")>>
        PROVE  Rightly(c, i, s)
    BY <2>5, <1>18, Tuple1
  <2>6. ASSUME i.arg = "for_stmt",
              s = <<Expect("for"), Parse("expr_or_missing"), Expect("in"),
                    Parse("expr_or_missing"), Recover(":"), Parse("block"),
                    Parse("else_block"), Node("stmt")>>
        PROVE  Rightly(c, i, s)
    BY <2>6, <1>18, Tuple8
  <2>7. ASSUME i.arg = "while_stmt",
              s = <<Expect("while"), Parse("expr_or_missing"), Recover(":"),
                    Parse("block"), Parse("else_block"), Node("stmt")>>
        PROVE  Rightly(c, i, s)
    BY <2>7, <1>18, Tuple6
  <2> HIDE OpsAre
        DEF Rightly, GoesOnRight, SettlesRight, MissingRight, TrailsRight,
                AdvancesRight, DedentRight, GoesOn, Calls, Yields, Yielding,
                Consumes, ConsumesAt, Consuming, Settles, Direct, NodeLike,
                Statements, Trails, Guarded, Loops, Chain, FailsAtDedent
  <2> QED BY <1>1, <1>2, <1>3, <1>4, <1>5, <1>6, <1>7, <2>1, <2>2, <2>3, <2>4,
         <2>5, <2>6, <2>7
<1> QED BY <1>17, <1>19 DEF Right

LEMMA TryRulesAreRight ==
  ASSUME NEW c \in Kinds, NEW i \in Instr,
         i.op \in {"parse", "within", "rest"},
         i.arg \in DOMAIN TryRules(c)
  PROVE  Right(c, i, TryRules(c)[i.arg])
<1> DEFINE s == TryRules(c)[i.arg]
<1> SUFFICES Right(c, i, s)
  OBVIOUS
<1>1. i.arg \in {"try_stmt", "handlers", "finally", "except", "except_type",
                "with_stmt", "with_item"}
  BY DEF TryRules
<1>2. i.arg = "try_stmt" =>
        s = <<Expect("try"), Recover(":"), Parse("block"), Parse("handlers"),
              Parse("else_block"), Parse("finally"), Node("stmt")>>
  BY DEF TryRules, When
<1>3. i.arg = "handlers" =>
        \/ c = "except" /\ s = <<Parse("except"), Parse("handlers")>>
        \/ ~ (c = "except") /\ s = <<>>
  BY DEF TryRules, When
<1>4. i.arg = "finally" =>
        \/ c = "finally" /\ s = <<Advance, Recover(":"), Parse("block")>>
        \/ ~ (c = "finally") /\ s = <<>>
  BY DEF TryRules, When
<1>5. i.arg = "except" =>
        s = <<Expect("except"), Parse("except_type"), Recover(":"),
              Parse("block"), Node("other")>>
  BY DEF TryRules, When
<1>6. i.arg = "except_type" =>
        \/ c # ":" /\ s = <<Parse("expr"), Opt("as", "identifier")>>
        \/ ~ (c # ":") /\ s = <<>>
  BY DEF TryRules, When
<1>7. i.arg = "with_stmt" =>
        s = <<Expect("with"), List(":", "with_item"), Recover(":"),
              Parse("block"), Node("stmt")>>
  BY DEF TryRules, When
<1>8. i.arg = "with_item" =>
        s = <<Parse("expr"), Opt("as", "expr"), Node("other")>>
  BY DEF TryRules, When
<1> HIDE DEF s
<1>9. {"block", "else_block", "except", "except_type", "expr", "finally",
       "handlers"}
          \subseteq RuleNames \ (Direct \cup Joining)
  BY DEF RuleNames, Direct, Joining
<1>10. \A f \in {"block", "else_block", "except", "except_type", "expr",
                "finally", "handlers"} :
        Parse(f) \in Instr
  BY <1>9, ParseIs
<1>11. {":", "as", "except", "other", "stmt", "try", "with"} \subseteq Words
  BY DEF Words
<1>12. \A k \in {"except", "try", "with"} : Expect(k) \in Instr
  BY <1>11, ExpectIs
<1>13. \A k \in {":"} : Recover(k) \in Instr
  BY <1>11, RecoverIs
<1>14. \A k \in {"other", "stmt"} : Node(k) \in Instr
  BY <1>11, NodeIs
<1>15. {"expr", "identifier", "with_item"} \subseteq Items
  BY DEF Items
<1>16. /\ Opt("as", "expr") \in Instr
       /\ Opt("as", "identifier") \in Instr
  BY <1>11, <1>15, OptIs
<1>17. List(":", "with_item") \in Instr
  BY <1>11, <1>15, ListIs
<1>18. /\ <<Expect("try"), Recover(":"), Parse("block"), Parse("handlers"),
            Parse("else_block"), Parse("finally"),
            Node("stmt")>> \in Seq(Instr)
       /\ <<Parse("except"), Parse("handlers")>> \in Seq(Instr)
       /\ <<>> \in Seq(Instr)
       /\ <<Advance, Recover(":"), Parse("block")>> \in Seq(Instr)
       /\ <<Expect("except"), Parse("except_type"), Recover(":"), Parse("block"),
            Node("other")>> \in Seq(Instr)
       /\ <<Parse("expr"), Opt("as", "identifier")>> \in Seq(Instr)
       /\ <<Expect("with"), List(":", "with_item"), Recover(":"), Parse("block"),
            Node("stmt")>> \in Seq(Instr)
       /\ <<Parse("expr"), Opt("as", "expr"), Node("other")>> \in Seq(Instr)
  BY <1>10, <1>12, <1>13, <1>14, <1>16, <1>17, AdvanceIs
<1>19. s \in Seq(Instr)
  BY <1>1, <1>2, <1>3, <1>4, <1>5, <1>6, <1>7, <1>8, <1>18
<1>20. i.op \in {"parse", "within"}
  BY <1>1, CallsAre DEF Joining
<1>21. Rightly(c, i, s)
  <2> USE OpsAre
        DEF Rightly, GoesOnRight, SettlesRight, MissingRight, TrailsRight,
                AdvancesRight, DedentRight, GoesOn, Calls, Yields, Yielding,
                Consumes, ConsumesAt, Consuming, Settles, Direct, NodeLike,
                Statements, Trails, Guarded, Loops, Chain, FailsAtDedent
  <2>1. ASSUME i.arg = "try_stmt",
              s = <<Expect("try"), Recover(":"), Parse("block"),
                    Parse("handlers"), Parse("else_block"), Parse("finally"),
                    Node("stmt")>>
        PROVE  Rightly(c, i, s)
    BY <2>1, <1>20, Tuple7
  <2>2. ASSUME i.arg = "handlers", c = "except",
              s = <<Parse("except"), Parse("handlers")>>
        PROVE  Rightly(c, i, s)
    BY <2>2, <1>20, Tuple2
  <2>3. ASSUME i.arg = "handlers", ~ (c = "except"),
              s = <<>>
        PROVE  Rightly(c, i, s)
    BY <2>3, <1>20, Tuple0
  <2>4. ASSUME i.arg = "finally", c = "finally",
              s = <<Advance, Recover(":"), Parse("block")>>
        PROVE  Rightly(c, i, s)
    BY <2>4, <1>20, Tuple3
  <2>5. ASSUME i.arg = "finally", ~ (c = "finally"),
              s = <<>>
        PROVE  Rightly(c, i, s)
    BY <2>5, <1>20, Tuple0
  <2>6. ASSUME i.arg = "except",
              s = <<Expect("except"), Parse("except_type"), Recover(":"),
                    Parse("block"), Node("other")>>
        PROVE  Rightly(c, i, s)
    BY <2>6, <1>20, Tuple5
  <2>7. ASSUME i.arg = "except_type", c # ":",
              s = <<Parse("expr"), Opt("as", "identifier")>>
        PROVE  Rightly(c, i, s)
    BY <2>7, <1>20, Tuple2
  <2>8. ASSUME i.arg = "except_type", ~ (c # ":"),
              s = <<>>
        PROVE  Rightly(c, i, s)
    BY <2>8, <1>20, Tuple0
  <2>9. ASSUME i.arg = "with_stmt",
              s = <<Expect("with"), List(":", "with_item"), Recover(":"),
                    Parse("block"), Node("stmt")>>
        PROVE  Rightly(c, i, s)
    BY <2>9, <1>20, Tuple5
  <2>10. ASSUME i.arg = "with_item",
              s = <<Parse("expr"), Opt("as", "expr"), Node("other")>>
        PROVE  Rightly(c, i, s)
    BY <2>10, <1>20, Tuple3
  <2> HIDE OpsAre
        DEF Rightly, GoesOnRight, SettlesRight, MissingRight, TrailsRight,
                AdvancesRight, DedentRight, GoesOn, Calls, Yields, Yielding,
                Consumes, ConsumesAt, Consuming, Settles, Direct, NodeLike,
                Statements, Trails, Guarded, Loops, Chain, FailsAtDedent
  <2> QED BY <1>1, <1>2, <1>3, <1>4, <1>5, <1>6, <1>7, <1>8, <2>1, <2>2, <2>3,
         <2>4, <2>5, <2>6, <2>7, <2>8, <2>9, <2>10
<1> QED BY <1>19, <1>21 DEF Right

LEMMA SimpleRulesAreRight ==
  ASSUME NEW c \in Kinds, NEW i \in Instr,
         i.op \in {"parse", "within", "rest"},
         i.arg \in DOMAIN SimpleRules(c)
  PROVE  Right(c, i, SimpleRules(c)[i.arg])
<1> DEFINE s == SimpleRules(c)[i.arg]
<1> SUFFICES Right(c, i, s)
  OBVIOUS
<1>1. i.arg \in {"return_stmt", "returned", "raise_stmt", "raised",
                "assert_stmt", "simple_stmt"}
  BY DEF SimpleRules
<1>2. i.arg = "return_stmt" =>
        s = <<Advance, Parse("returned"), Node("stmt"), Newline>>
  BY DEF SimpleRules, When
<1>3. i.arg = "returned" =>
        \/ s = <<Parse("expr")>>
        \/ s = <<>>
  BY DEF SimpleRules, When
<1>4. i.arg = "raise_stmt" =>
        s = <<Advance, Parse("raised"), Node("stmt"), Newline>>
  BY DEF SimpleRules, When
<1>5. i.arg = "raised" =>
        \/ s = <<Parse("expr"), Opt("from", "expr")>>
        \/ s = <<>>
  BY DEF SimpleRules, When
<1>6. i.arg = "assert_stmt" =>
        s = <<Advance, Parse("expr"), Opt(Comma, "expr"), Node("stmt"),
              Newline>>
  BY DEF SimpleRules, When
<1>7. i.arg = "simple_stmt" =>
        s = <<Advance, Node("stmt"), Newline>>
  BY DEF SimpleRules, When
<1> HIDE DEF s
<1>8. {"expr", "raised", "returned"}
          \subseteq RuleNames \ (Direct \cup Joining)
  BY DEF RuleNames, Direct, Joining
<1>9. \A f \in {"expr", "raised", "returned"} :
        Parse(f) \in Instr
  BY <1>8, ParseIs
<1>10. {"from", "stmt", Comma} \subseteq Words
  BY DEF Words
<1>11. \A k \in {"stmt"} : Node(k) \in Instr
  BY <1>10, NodeIs
<1>12. {"expr"} \subseteq Items
  BY DEF Items
<1>13. /\ Opt("from", "expr") \in Instr
       /\ Opt(Comma, "expr") \in Instr
  BY <1>10, <1>12, OptIs
<1>14. /\ <<Advance, Parse("returned"), Node("stmt"), Newline>> \in Seq(Instr)
       /\ <<Parse("expr")>> \in Seq(Instr)
       /\ <<>> \in Seq(Instr)
       /\ <<Advance, Parse("raised"), Node("stmt"), Newline>> \in Seq(Instr)
       /\ <<Parse("expr"), Opt("from", "expr")>> \in Seq(Instr)
       /\ <<Advance, Parse("expr"), Opt(Comma, "expr"), Node("stmt"),
            Newline>> \in Seq(Instr)
       /\ <<Advance, Node("stmt"), Newline>> \in Seq(Instr)
  BY <1>9, <1>11, <1>13, AdvanceIs, NewlineIs
<1>15. s \in Seq(Instr)
  BY <1>1, <1>2, <1>3, <1>4, <1>5, <1>6, <1>7, <1>14
<1>16. i.op \in {"parse", "within"}
  BY <1>1, CallsAre DEF Joining
<1>17. Rightly(c, i, s)
  <2> USE OpsAre
        DEF Rightly, GoesOnRight, SettlesRight, MissingRight, TrailsRight,
                AdvancesRight, DedentRight, GoesOn, Calls, Yields, Yielding,
                Consumes, ConsumesAt, Consuming, Settles, Direct, NodeLike,
                Statements, Trails, Guarded, Loops, Chain, FailsAtDedent
  <2>1. ASSUME i.arg = "return_stmt",
              s = <<Advance, Parse("returned"), Node("stmt"), Newline>>
        PROVE  Rightly(c, i, s)
    BY <2>1, <1>16, Tuple4
  <2>2. ASSUME i.arg = "returned",
              s = <<Parse("expr")>>
        PROVE  Rightly(c, i, s)
    BY <2>2, <1>16, Tuple1
  <2>3. ASSUME i.arg = "returned",
              s = <<>>
        PROVE  Rightly(c, i, s)
    BY <2>3, <1>16, Tuple0
  <2>4. ASSUME i.arg = "raise_stmt",
              s = <<Advance, Parse("raised"), Node("stmt"), Newline>>
        PROVE  Rightly(c, i, s)
    BY <2>4, <1>16, Tuple4
  <2>5. ASSUME i.arg = "raised",
              s = <<Parse("expr"), Opt("from", "expr")>>
        PROVE  Rightly(c, i, s)
    BY <2>5, <1>16, Tuple2
  <2>6. ASSUME i.arg = "raised",
              s = <<>>
        PROVE  Rightly(c, i, s)
    BY <2>6, <1>16, Tuple0
  <2>7. ASSUME i.arg = "assert_stmt",
              s = <<Advance, Parse("expr"), Opt(Comma, "expr"), Node("stmt"),
                    Newline>>
        PROVE  Rightly(c, i, s)
    BY <2>7, <1>16, Tuple5
  <2>8. ASSUME i.arg = "simple_stmt",
              s = <<Advance, Node("stmt"), Newline>>
        PROVE  Rightly(c, i, s)
    BY <2>8, <1>16, Tuple3
  <2> HIDE OpsAre
        DEF Rightly, GoesOnRight, SettlesRight, MissingRight, TrailsRight,
                AdvancesRight, DedentRight, GoesOn, Calls, Yields, Yielding,
                Consumes, ConsumesAt, Consuming, Settles, Direct, NodeLike,
                Statements, Trails, Guarded, Loops, Chain, FailsAtDedent
  <2> QED BY <1>1, <1>2, <1>3, <1>4, <1>5, <1>6, <1>7, <2>1, <2>2, <2>3, <2>4,
         <2>5, <2>6, <2>7, <2>8
<1> QED BY <1>15, <1>17 DEF Right

LEMMA ImportRulesAreRight ==
  ASSUME NEW c \in Kinds, NEW i \in Instr,
         i.op \in {"parse", "within", "rest"},
         i.arg \in DOMAIN ImportRules(c)
  PROVE  Right(c, i, ImportRules(c)[i.arg])
<1> DEFINE s == ImportRules(c)[i.arg]
<1> SUFFICES Right(c, i, s)
  OBVIOUS
<1>1. i.arg \in {"import_stmt", "from_stmt", "dots", "module", "imported",
                "alias", "dotted_name", "dotted_rest", "dotted_part"}
  BY DEF ImportRules
<1>2. i.arg = "import_stmt" =>
        s = <<Advance, List("newline", "alias"), Node("stmt"), Newline>>
  BY DEF ImportRules, When
<1>3. i.arg = "from_stmt" =>
        s = <<Advance, Parse("dots"), Parse("module"), Expect("import"),
              Parse("imported"), Node("stmt"), Newline>>
  BY DEF ImportRules, When
<1>4. i.arg = "dots" =>
        \/ c = "." /\ s = <<Advance, Parse("dots")>>
        \/ ~ (c = ".") /\ s = <<>>
  BY DEF ImportRules, When
<1>5. i.arg = "module" =>
        \/ c = "name" /\ s = <<Parse("dotted_name")>>
        \/ ~ (c = "name") /\ s = <<>>
  BY DEF ImportRules, When
<1>6. i.arg = "imported" =>
        \/ c = "(" /\ s = <<Advance, List(")", "alias"), Close(")")>>
        \/ s = <<List("newline", "alias")>>
  BY DEF ImportRules, When
<1>7. i.arg = "alias" =>
        s = <<Parse("dotted_name"), Opt("as", "identifier"), Node("other")>>
  BY DEF ImportRules, When
<1>8. i.arg = "dotted_name" =>
        s = <<Expect("name"), Parse("dotted_rest")>>
  BY DEF ImportRules, When
<1>9. i.arg = "dotted_rest" =>
        \/ c = "." /\ s = <<Advance, Parse("dotted_part")>>
        \/ ~ (c = ".") /\ s = <<>>
  BY DEF ImportRules, When
<1>10. i.arg = "dotted_part" =>
        \/ c = "name" /\ s = <<Advance, Parse("dotted_rest")>>
        \/ ~ (c = "name") /\ s = <<>>
  BY DEF ImportRules, When
<1> HIDE DEF s
<1>11. {"dots", "dotted_name", "dotted_part", "dotted_rest", "imported",
        "module"}
          \subseteq RuleNames \ (Direct \cup Joining)
  BY DEF RuleNames, Direct, Joining
<1>12. \A f \in {"dots", "dotted_name", "dotted_part", "dotted_rest",
                "imported", "module"} :
        Parse(f) \in Instr
  BY <1>11, ParseIs
<1>13. {")", "as", "import", "name", "newline", "other",
        "stmt"} \subseteq Words
  BY DEF Words
<1>14. \A k \in {"import", "name"} : Expect(k) \in Instr
  BY <1>13, ExpectIs
<1>15. \A k \in {")"} : Close(k) \in Instr
  BY <1>13, CloseIs
<1>16. \A k \in {"other", "stmt"} : Node(k) \in Instr
  BY <1>13, NodeIs
<1>17. {"alias", "identifier"} \subseteq Items
  BY DEF Items
<1>18. Opt("as", "identifier") \in Instr
  BY <1>13, <1>17, OptIs
<1>19. /\ List(")", "alias") \in Instr
       /\ List("newline", "alias") \in Instr
  BY <1>13, <1>17, ListIs
<1>20. /\ <<Advance, List("newline", "alias"), Node("stmt"), Newline>> \in Seq(Instr)
       /\ <<Advance, Parse("dots"), Parse("module"), Expect("import"),
            Parse("imported"), Node("stmt"), Newline>> \in Seq(Instr)
       /\ <<Advance, Parse("dots")>> \in Seq(Instr)
       /\ <<>> \in Seq(Instr)
       /\ <<Parse("dotted_name")>> \in Seq(Instr)
       /\ <<Advance, List(")", "alias"), Close(")")>> \in Seq(Instr)
       /\ <<List("newline", "alias")>> \in Seq(Instr)
       /\ <<Parse("dotted_name"), Opt("as", "identifier"),
            Node("other")>> \in Seq(Instr)
       /\ <<Expect("name"), Parse("dotted_rest")>> \in Seq(Instr)
       /\ <<Advance, Parse("dotted_part")>> \in Seq(Instr)
       /\ <<Advance, Parse("dotted_rest")>> \in Seq(Instr)
  BY <1>12, <1>14, <1>15, <1>16, <1>18, <1>19, AdvanceIs, NewlineIs
<1>21. s \in Seq(Instr)
  BY <1>1, <1>2, <1>3, <1>4, <1>5, <1>6, <1>7, <1>8, <1>9, <1>10, <1>20
<1>22. i.op \in {"parse", "within"}
  BY <1>1, CallsAre DEF Joining
<1>23. Rightly(c, i, s)
  <2> USE OpsAre
        DEF Rightly, GoesOnRight, SettlesRight, MissingRight, TrailsRight,
                AdvancesRight, DedentRight, GoesOn, Calls, Yields, Yielding,
                Consumes, ConsumesAt, Consuming, Settles, Direct, NodeLike,
                Statements, Trails, Guarded, Loops, Chain, FailsAtDedent
  <2>1. ASSUME i.arg = "import_stmt",
              s = <<Advance, List("newline", "alias"), Node("stmt"), Newline>>
        PROVE  Rightly(c, i, s)
    BY <2>1, <1>22, Tuple4
  <2>2. ASSUME i.arg = "from_stmt",
              s = <<Advance, Parse("dots"), Parse("module"), Expect("import"),
                    Parse("imported"), Node("stmt"), Newline>>
        PROVE  Rightly(c, i, s)
    BY <2>2, <1>22, Tuple7
  <2>3. ASSUME i.arg = "dots", c = ".",
              s = <<Advance, Parse("dots")>>
        PROVE  Rightly(c, i, s)
    BY <2>3, <1>22, Tuple2
  <2>4. ASSUME i.arg = "dots", ~ (c = "."),
              s = <<>>
        PROVE  Rightly(c, i, s)
    BY <2>4, <1>22, Tuple0
  <2>5. ASSUME i.arg = "module", c = "name",
              s = <<Parse("dotted_name")>>
        PROVE  Rightly(c, i, s)
    BY <2>5, <1>22, Tuple1
  <2>6. ASSUME i.arg = "module", ~ (c = "name"),
              s = <<>>
        PROVE  Rightly(c, i, s)
    BY <2>6, <1>22, Tuple0
  <2>7. ASSUME i.arg = "imported", c = "(",
              s = <<Advance, List(")", "alias"), Close(")")>>
        PROVE  Rightly(c, i, s)
    BY <2>7, <1>22, Tuple3
  <2>8. ASSUME i.arg = "imported",
              s = <<List("newline", "alias")>>
        PROVE  Rightly(c, i, s)
    BY <2>8, <1>22, Tuple1
  <2>9. ASSUME i.arg = "alias",
              s = <<Parse("dotted_name"), Opt("as", "identifier"),
                    Node("other")>>
        PROVE  Rightly(c, i, s)
    BY <2>9, <1>22, Tuple3
  <2>10. ASSUME i.arg = "dotted_name",
              s = <<Expect("name"), Parse("dotted_rest")>>
        PROVE  Rightly(c, i, s)
    BY <2>10, <1>22, Tuple2
  <2>11. ASSUME i.arg = "dotted_rest", c = ".",
              s = <<Advance, Parse("dotted_part")>>
        PROVE  Rightly(c, i, s)
    BY <2>11, <1>22, Tuple2
  <2>12. ASSUME i.arg = "dotted_rest", ~ (c = "."),
              s = <<>>
        PROVE  Rightly(c, i, s)
    BY <2>12, <1>22, Tuple0
  <2>13. ASSUME i.arg = "dotted_part", c = "name",
              s = <<Advance, Parse("dotted_rest")>>
        PROVE  Rightly(c, i, s)
    BY <2>13, <1>22, Tuple2
  <2>14. ASSUME i.arg = "dotted_part", ~ (c = "name"),
              s = <<>>
        PROVE  Rightly(c, i, s)
    BY <2>14, <1>22, Tuple0
  <2> HIDE OpsAre
        DEF Rightly, GoesOnRight, SettlesRight, MissingRight, TrailsRight,
                AdvancesRight, DedentRight, GoesOn, Calls, Yields, Yielding,
                Consumes, ConsumesAt, Consuming, Settles, Direct, NodeLike,
                Statements, Trails, Guarded, Loops, Chain, FailsAtDedent
  <2> QED BY <1>1, <1>2, <1>3, <1>4, <1>5, <1>6, <1>7, <1>8, <1>9, <1>10, <2>1,
         <2>2, <2>3, <2>4, <2>5, <2>6, <2>7, <2>8, <2>9, <2>10, <2>11, <2>12,
         <2>13, <2>14
<1> QED BY <1>21, <1>23 DEF Right

LEMMA ExprStmtRulesAreRight ==
  ASSUME NEW c \in Kinds, NEW i \in Instr,
         i.op \in {"parse", "within", "rest"},
         i.arg \in DOMAIN ExprStmtRules(c)
  PROVE  Right(c, i, ExprStmtRules(c)[i.arg])
<1> DEFINE s == ExprStmtRules(c)[i.arg]
<1> SUFFICES Right(c, i, s)
  OBVIOUS
<1>1. i.arg \in {"global_stmt", "del_stmt", "identifier", "expr_stmt",
                "expr_stmt_rest", "targets"}
  BY DEF ExprStmtRules
<1>2. i.arg = "global_stmt" =>
        s = <<Advance, List("newline", "identifier"), Node("stmt"), Newline>>
  BY DEF ExprStmtRules, When
<1>3. i.arg = "del_stmt" =>
        s = <<Advance, List("newline", "expr"), Node("stmt"), Newline>>
  BY DEF ExprStmtRules, When
<1>4. i.arg = "identifier" =>
        s = <<Expect("name")>>
  BY DEF ExprStmtRules, When
<1>5. i.arg = "expr_stmt" =>
        s = <<Parse("expr"), Within("expr_stmt_rest")>>
  BY DEF ExprStmtRules, When
<1>6. i.arg = "expr_stmt_rest" =>
        \/ c = ":"
           /\ s = <<Advance, Parse("expr"), Opt("=", "expr"), Node("stmt"),
                    Newline>>
        \/ c = "=" /\ s = <<Within("targets")>>
        \/ c # "dedent"
           /\ s = <<Advance, Parse("expr"), Node("stmt"), Newline>>
        \/ s = <<Node("stmt"), Newline>>
  BY DEF ExprStmtRules, When
<1>7. i.arg = "targets" =>
        \/ c = "=" /\ s = <<Advance, Parse("expr"), Within("targets")>>
        \/ s = <<Node("stmt"), Newline>>
  BY DEF ExprStmtRules, When
<1> HIDE DEF s
<1>8. {"expr"}
          \subseteq RuleNames \ (Direct \cup Joining)
  BY DEF RuleNames, Direct, Joining
<1>9. \A f \in {"expr"} :
        Parse(f) \in Instr
  BY <1>8, ParseIs
<1>10. {"expr_stmt_rest", "targets"}
          \subseteq RuleNames \ (Joining \cup {"expr_or_missing"})
  BY DEF RuleNames, Joining
<1>11. \A f \in {"expr_stmt_rest", "targets"} :
        Within(f) \in Instr
  BY <1>10, WithinIs
<1>12. {"=", "name", "newline", "stmt"} \subseteq Words
  BY DEF Words
<1>13. \A k \in {"name"} : Expect(k) \in Instr
  BY <1>12, ExpectIs
<1>14. \A k \in {"stmt"} : Node(k) \in Instr
  BY <1>12, NodeIs
<1>15. {"expr", "identifier"} \subseteq Items
  BY DEF Items
<1>16. Opt("=", "expr") \in Instr
  BY <1>12, <1>15, OptIs
<1>17. /\ List("newline", "expr") \in Instr
       /\ List("newline", "identifier") \in Instr
  BY <1>12, <1>15, ListIs
<1>18. /\ <<Advance, List("newline", "identifier"), Node("stmt"),
            Newline>> \in Seq(Instr)
       /\ <<Advance, List("newline", "expr"), Node("stmt"), Newline>> \in Seq(Instr)
       /\ <<Expect("name")>> \in Seq(Instr)
       /\ <<Parse("expr"), Within("expr_stmt_rest")>> \in Seq(Instr)
       /\ <<Advance, Parse("expr"), Opt("=", "expr"), Node("stmt"),
            Newline>> \in Seq(Instr)
       /\ <<Within("targets")>> \in Seq(Instr)
       /\ <<Advance, Parse("expr"), Node("stmt"), Newline>> \in Seq(Instr)
       /\ <<Node("stmt"), Newline>> \in Seq(Instr)
       /\ <<Advance, Parse("expr"), Within("targets")>> \in Seq(Instr)
  BY <1>9, <1>11, <1>13, <1>14, <1>16, <1>17, AdvanceIs, NewlineIs
<1>19. s \in Seq(Instr)
  BY <1>1, <1>2, <1>3, <1>4, <1>5, <1>6, <1>7, <1>18
<1>20. i.op \in {"parse", "within"}
  BY <1>1, CallsAre DEF Joining
<1>21. Rightly(c, i, s)
  <2> USE OpsAre
        DEF Rightly, GoesOnRight, SettlesRight, MissingRight, TrailsRight,
                AdvancesRight, DedentRight, GoesOn, Calls, Yields, Yielding,
                Consumes, ConsumesAt, Consuming, Settles, Direct, NodeLike,
                Statements, Trails, Guarded, Loops, Chain, FailsAtDedent
  <2>1. ASSUME i.arg = "global_stmt",
              s = <<Advance, List("newline", "identifier"), Node("stmt"),
                    Newline>>
        PROVE  Rightly(c, i, s)
    BY <2>1, <1>20, Tuple4
  <2>2. ASSUME i.arg = "del_stmt",
              s = <<Advance, List("newline", "expr"), Node("stmt"), Newline>>
        PROVE  Rightly(c, i, s)
    BY <2>2, <1>20, Tuple4
  <2>3. ASSUME i.arg = "identifier",
              s = <<Expect("name")>>
        PROVE  Rightly(c, i, s)
    BY <2>3, <1>20, Tuple1
  <2>4. ASSUME i.arg = "expr_stmt",
              s = <<Parse("expr"), Within("expr_stmt_rest")>>
        PROVE  Rightly(c, i, s)
    BY <2>4, <1>20, Tuple2
  <2>5. ASSUME i.arg = "expr_stmt_rest", c = ":",
              s = <<Advance, Parse("expr"), Opt("=", "expr"), Node("stmt"),
                    Newline>>
        PROVE  Rightly(c, i, s)
    BY <2>5, <1>20, Tuple5
  <2>6. ASSUME i.arg = "expr_stmt_rest", c = "=",
              s = <<Within("targets")>>
        PROVE  Rightly(c, i, s)
    BY <2>6, <1>20, Tuple1
  <2>7. ASSUME i.arg = "expr_stmt_rest", c # "dedent",
              s = <<Advance, Parse("expr"), Node("stmt"), Newline>>
        PROVE  Rightly(c, i, s)
    BY <2>7, <1>20, Tuple4
  <2>8. ASSUME i.arg = "expr_stmt_rest",
              s = <<Node("stmt"), Newline>>
        PROVE  Rightly(c, i, s)
    BY <2>8, <1>20, Tuple2
  <2>9. ASSUME i.arg = "targets", c = "=",
              s = <<Advance, Parse("expr"), Within("targets")>>
        PROVE  Rightly(c, i, s)
    BY <2>9, <1>20, Tuple3
  <2>10. ASSUME i.arg = "targets",
              s = <<Node("stmt"), Newline>>
        PROVE  Rightly(c, i, s)
    BY <2>10, <1>20, Tuple2
  <2> HIDE OpsAre
        DEF Rightly, GoesOnRight, SettlesRight, MissingRight, TrailsRight,
                AdvancesRight, DedentRight, GoesOn, Calls, Yields, Yielding,
                Consumes, ConsumesAt, Consuming, Settles, Direct, NodeLike,
                Statements, Trails, Guarded, Loops, Chain, FailsAtDedent
  <2> QED BY <1>1, <1>2, <1>3, <1>4, <1>5, <1>6, <1>7, <2>1, <2>2, <2>3, <2>4,
         <2>5, <2>6, <2>7, <2>8, <2>9, <2>10
<1> QED BY <1>19, <1>21 DEF Right

LEMMA LogicRulesAreRight ==
  ASSUME NEW c \in Kinds, NEW i \in Instr,
         i.op \in {"parse", "within", "rest"},
         i.arg \in DOMAIN LogicRules(c)
  PROVE  Right(c, i, LogicRules(c)[i.arg])
<1> DEFINE s == LogicRules(c)[i.arg]
<1> SUFFICES Right(c, i, s)
  OBVIOUS
<1>1. i.arg \in {"expr", "named", "named_rest", "ternary", "ternary_rest",
                "or_test", "or_rest", "and_test", "and_rest", "not_test"}
  BY DEF LogicRules
<1>2. i.arg = "expr" =>
        \/ c = "yield" /\ s = <<Parse("yield_expr")>>
        \/ s = <<Parse("or_test")>>
  BY DEF LogicRules, When
<1>3. i.arg = "named" =>
        s = <<Parse("ternary"), Rest("named_rest")>>
  BY DEF LogicRules, When
<1>4. i.arg = "named_rest" =>
        \/ c = ":=" /\ s = <<Advance, Parse("named"), Join>>
        \/ ~ (c = ":=") /\ s = <<>>
  BY DEF LogicRules, When
<1>5. i.arg = "ternary" =>
        s = <<Parse("or_test"), Rest("ternary_rest")>>
  BY DEF LogicRules, When
<1>6. i.arg = "ternary_rest" =>
        \/ c = "if"
           /\ s = <<Advance, Parse("or_test"), Expect("else"),
                    Parse("ternary"), Join>>
        \/ ~ (c = "if") /\ s = <<>>
  BY DEF LogicRules, When
<1>7. i.arg = "or_test" =>
        s = <<Parse("and_test"), Rest("or_rest")>>
  BY DEF LogicRules, When
<1>8. i.arg = "or_rest" =>
        \/ c = "or"
           /\ s = <<Advance, Parse("and_test"), Join, Rest("or_rest")>>
        \/ ~ (c = "or") /\ s = <<>>
  BY DEF LogicRules, When
<1>9. i.arg = "and_test" =>
        s = <<Parse("not_test"), Rest("and_rest")>>
  BY DEF LogicRules, When
<1>10. i.arg = "and_rest" =>
        \/ c = "and"
           /\ s = <<Advance, Parse("not_test"), Join, Rest("and_rest")>>
        \/ ~ (c = "and") /\ s = <<>>
  BY DEF LogicRules, When
<1>11. i.arg = "not_test" =>
        \/ c = "not" /\ s = <<Advance, Parse("not_test"), Node("other")>>
        \/ s = <<Parse("comparison")>>
  BY DEF LogicRules, When
<1> HIDE DEF s
<1>12. {"and_test", "comparison", "named", "not_test", "or_test", "ternary",
        "yield_expr"}
          \subseteq RuleNames \ (Direct \cup Joining)
  BY DEF RuleNames, Direct, Joining
<1>13. \A f \in {"and_test", "comparison", "named", "not_test", "or_test",
                "ternary", "yield_expr"} :
        Parse(f) \in Instr
  BY <1>12, ParseIs
<1>14. {"and_rest", "named_rest", "or_rest", "ternary_rest"}
          \subseteq Joining \cup {"trailers"}
  BY DEF Joining
<1>15. \A f \in {"and_rest", "named_rest", "or_rest", "ternary_rest"} :
        Rest(f) \in Instr
  BY <1>14, RestIs
<1>16. {"else", "other"} \subseteq Words
  BY DEF Words
<1>17. \A k \in {"else"} : Expect(k) \in Instr
  BY <1>16, ExpectIs
<1>18. \A k \in {"other"} : Node(k) \in Instr
  BY <1>16, NodeIs
<1>19. /\ <<Parse("yield_expr")>> \in Seq(Instr)
       /\ <<Parse("or_test")>> \in Seq(Instr)
       /\ <<Parse("ternary"), Rest("named_rest")>> \in Seq(Instr)
       /\ <<Advance, Parse("named"), Join>> \in Seq(Instr)
       /\ <<>> \in Seq(Instr)
       /\ <<Parse("or_test"), Rest("ternary_rest")>> \in Seq(Instr)
       /\ <<Advance, Parse("or_test"), Expect("else"), Parse("ternary"),
            Join>> \in Seq(Instr)
       /\ <<Parse("and_test"), Rest("or_rest")>> \in Seq(Instr)
       /\ <<Advance, Parse("and_test"), Join, Rest("or_rest")>> \in Seq(Instr)
       /\ <<Parse("not_test"), Rest("and_rest")>> \in Seq(Instr)
       /\ <<Advance, Parse("not_test"), Join, Rest("and_rest")>> \in Seq(Instr)
       /\ <<Advance, Parse("not_test"), Node("other")>> \in Seq(Instr)
       /\ <<Parse("comparison")>> \in Seq(Instr)
  BY <1>13, <1>15, <1>17, <1>18, AdvanceIs, JoinIs
<1>20. s \in Seq(Instr)
  BY <1>1, <1>2, <1>3, <1>4, <1>5, <1>6, <1>7, <1>8, <1>9, <1>10, <1>11, <1>19
<1>21. /\ i.arg = "named_rest" => i.op = "rest"
       /\ i.arg = "ternary_rest" => i.op = "rest"
       /\ i.arg = "or_rest" => i.op = "rest"
       /\ i.arg = "and_rest" => i.op = "rest"
       /\ i.arg \notin {"named_rest", "ternary_rest", "or_rest", "and_rest"} =>
         i.op \in {"parse", "within"}
  BY <1>1, CallsAre DEF Joining
<1>22. Rightly(c, i, s)
  <2> USE OpsAre
        DEF Rightly, GoesOnRight, SettlesRight, MissingRight, TrailsRight,
                AdvancesRight, DedentRight, GoesOn, Calls, Yields, Yielding,
                Consumes, ConsumesAt, Consuming, Settles, Direct, NodeLike,
                Statements, Trails, Guarded, Loops, Chain, FailsAtDedent
  <2>1. ASSUME i.arg = "expr", c = "yield",
              s = <<Parse("yield_expr")>>
        PROVE  Rightly(c, i, s)
    BY <2>1, <1>21, Tuple1
  <2>2. ASSUME i.arg = "expr",
              s = <<Parse("or_test")>>
        PROVE  Rightly(c, i, s)
    BY <2>2, <1>21, Tuple1
  <2>3. ASSUME i.arg = "named",
              s = <<Parse("ternary"), Rest("named_rest")>>
        PROVE  Rightly(c, i, s)
    BY <2>3, <1>21, Tuple2
  <2>4. ASSUME i.arg = "named_rest", c = ":=",
              s = <<Advance, Parse("named"), Join>>
        PROVE  Rightly(c, i, s)
    BY <2>4, <1>21, Tuple3
  <2>5. ASSUME i.arg = "named_rest", ~ (c = ":="),
              s = <<>>
        PROVE  Rightly(c, i, s)
    BY <2>5, <1>21, Tuple0
  <2>6. ASSUME i.arg = "ternary",
              s = <<Parse("or_test"), Rest("ternary_rest")>>
        PROVE  Rightly(c, i, s)
    BY <2>6, <1>21, Tuple2
  <2>7. ASSUME i.arg = "ternary_rest", c = "if",
              s = <<Advance, Parse("or_test"), Expect("else"),
                    Parse("ternary"), Join>>
        PROVE  Rightly(c, i, s)
    BY <2>7, <1>21, Tuple5
  <2>8. ASSUME i.arg = "ternary_rest", ~ (c = "if"),
              s = <<>>
        PROVE  Rightly(c, i, s)
    BY <2>8, <1>21, Tuple0
  <2>9. ASSUME i.arg = "or_test",
              s = <<Parse("and_test"), Rest("or_rest")>>
        PROVE  Rightly(c, i, s)
    BY <2>9, <1>21, Tuple2
  <2>10. ASSUME i.arg = "or_rest", c = "or",
              s = <<Advance, Parse("and_test"), Join, Rest("or_rest")>>
        PROVE  Rightly(c, i, s)
    BY <2>10, <1>21, Tuple4
  <2>11. ASSUME i.arg = "or_rest", ~ (c = "or"),
              s = <<>>
        PROVE  Rightly(c, i, s)
    BY <2>11, <1>21, Tuple0
  <2>12. ASSUME i.arg = "and_test",
              s = <<Parse("not_test"), Rest("and_rest")>>
        PROVE  Rightly(c, i, s)
    BY <2>12, <1>21, Tuple2
  <2>13. ASSUME i.arg = "and_rest", c = "and",
              s = <<Advance, Parse("not_test"), Join, Rest("and_rest")>>
        PROVE  Rightly(c, i, s)
    BY <2>13, <1>21, Tuple4
  <2>14. ASSUME i.arg = "and_rest", ~ (c = "and"),
              s = <<>>
        PROVE  Rightly(c, i, s)
    BY <2>14, <1>21, Tuple0
  <2>15. ASSUME i.arg = "not_test", c = "not",
              s = <<Advance, Parse("not_test"), Node("other")>>
        PROVE  Rightly(c, i, s)
    BY <2>15, <1>21, Tuple3
  <2>16. ASSUME i.arg = "not_test",
              s = <<Parse("comparison")>>
        PROVE  Rightly(c, i, s)
    BY <2>16, <1>21, Tuple1
  <2> HIDE OpsAre
        DEF Rightly, GoesOnRight, SettlesRight, MissingRight, TrailsRight,
                AdvancesRight, DedentRight, GoesOn, Calls, Yields, Yielding,
                Consumes, ConsumesAt, Consuming, Settles, Direct, NodeLike,
                Statements, Trails, Guarded, Loops, Chain, FailsAtDedent
  <2> QED BY <1>1, <1>2, <1>3, <1>4, <1>5, <1>6, <1>7, <1>8, <1>9, <1>10,
         <1>11, <2>1, <2>2, <2>3, <2>4, <2>5, <2>6, <2>7, <2>8, <2>9, <2>10,
         <2>11, <2>12, <2>13, <2>14, <2>15, <2>16
<1> QED BY <1>20, <1>22 DEF Right

LEMMA OperatorRulesAreRight ==
  ASSUME NEW c \in Kinds, NEW i \in Instr,
         i.op \in {"parse", "within", "rest"},
         i.arg \in DOMAIN OperatorRules(c)
  PROVE  Right(c, i, OperatorRules(c)[i.arg])
<1> DEFINE s == OperatorRules(c)[i.arg]
<1> SUFFICES Right(c, i, s)
  OBVIOUS
<1>1. i.arg \in {"comparison", "cmp_rest", "opt_not", "unary"}
  BY DEF OperatorRules
<1>2. i.arg = "comparison" =>
        s = <<Binop(PREC_BITOR), Rest("cmp_rest")>>
  BY DEF OperatorRules, When
<1>3. i.arg = "cmp_rest" =>
        \/ c = "is"
           /\ s = <<Advance, Parse("opt_not"), Binop(PREC_BITOR), Join>>
        \/ c = "not" /\ s = <<Advance, Expect("in"), Binop(PREC_BITOR), Join>>
        \/ c # "dedent" /\ s = <<Advance, Binop(PREC_BITOR), Join>>
        \/ s = <<>>
  BY DEF OperatorRules, When
<1>4. i.arg = "opt_not" =>
        \/ c = "not" /\ s = <<Advance>>
        \/ ~ (c = "not") /\ s = <<>>
  BY DEF OperatorRules, When
<1>5. i.arg = "unary" =>
        \/ c # "dedent" /\ s = <<Advance, Parse("unary"), Node("other")>>
        \/ s = <<Parse("postfix")>>
  BY DEF OperatorRules, When
<1> HIDE DEF s
<1>6. {"opt_not", "postfix", "unary"}
          \subseteq RuleNames \ (Direct \cup Joining)
  BY DEF RuleNames, Direct, Joining
<1>7. \A f \in {"opt_not", "postfix", "unary"} :
        Parse(f) \in Instr
  BY <1>6, ParseIs
<1>8. {"cmp_rest"}
          \subseteq Joining \cup {"trailers"}
  BY DEF Joining
<1>9. \A f \in {"cmp_rest"} :
        Rest(f) \in Instr
  BY <1>8, RestIs
<1>10. {"in", "other"} \subseteq Words
  BY DEF Words
<1>11. \A k \in {"in"} : Expect(k) \in Instr
  BY <1>10, ExpectIs
<1>12. \A k \in {"other"} : Node(k) \in Instr
  BY <1>10, NodeIs
<1>13. PREC_BITOR \in Nat
  BY DEF PREC_BITOR
<1>14. Binop(PREC_BITOR) \in Instr
  BY <1>13, BinopIs
<1>15. /\ <<Binop(PREC_BITOR), Rest("cmp_rest")>> \in Seq(Instr)
       /\ <<Advance, Parse("opt_not"), Binop(PREC_BITOR), Join>> \in Seq(Instr)
       /\ <<Advance, Expect("in"), Binop(PREC_BITOR), Join>> \in Seq(Instr)
       /\ <<Advance, Binop(PREC_BITOR), Join>> \in Seq(Instr)
       /\ <<>> \in Seq(Instr)
       /\ <<Advance>> \in Seq(Instr)
       /\ <<Advance, Parse("unary"), Node("other")>> \in Seq(Instr)
       /\ <<Parse("postfix")>> \in Seq(Instr)
  BY <1>7, <1>9, <1>11, <1>12, <1>14, AdvanceIs, JoinIs
<1>16. s \in Seq(Instr)
  BY <1>1, <1>2, <1>3, <1>4, <1>5, <1>15
<1>17. /\ i.arg = "cmp_rest" => i.op = "rest"
       /\ i.arg \notin {"cmp_rest"} =>
         i.op \in {"parse", "within"}
  BY <1>1, CallsAre DEF Joining
<1>18. Rightly(c, i, s)
  <2> USE OpsAre
        DEF Rightly, GoesOnRight, SettlesRight, MissingRight, TrailsRight,
                AdvancesRight, DedentRight, GoesOn, Calls, Yields, Yielding,
                Consumes, ConsumesAt, Consuming, Settles, Direct, NodeLike,
                Statements, Trails, Guarded, Loops, Chain, FailsAtDedent
  <2>1. ASSUME i.arg = "comparison",
              s = <<Binop(PREC_BITOR), Rest("cmp_rest")>>
        PROVE  Rightly(c, i, s)
    BY <2>1, <1>17, Tuple2
  <2>2. ASSUME i.arg = "cmp_rest", c = "is",
              s = <<Advance, Parse("opt_not"), Binop(PREC_BITOR), Join>>
        PROVE  Rightly(c, i, s)
    BY <2>2, <1>17, Tuple4
  <2>3. ASSUME i.arg = "cmp_rest", c = "not",
              s = <<Advance, Expect("in"), Binop(PREC_BITOR), Join>>
        PROVE  Rightly(c, i, s)
    BY <2>3, <1>17, Tuple4
  <2>4. ASSUME i.arg = "cmp_rest", c # "dedent",
              s = <<Advance, Binop(PREC_BITOR), Join>>
        PROVE  Rightly(c, i, s)
    BY <2>4, <1>17, Tuple3
  <2>5. ASSUME i.arg = "cmp_rest",
              s = <<>>
        PROVE  Rightly(c, i, s)
    BY <2>5, <1>17, Tuple0
  <2>6. ASSUME i.arg = "opt_not", c = "not",
              s = <<Advance>>
        PROVE  Rightly(c, i, s)
    BY <2>6, <1>17, Tuple1
  <2>7. ASSUME i.arg = "opt_not", ~ (c = "not"),
              s = <<>>
        PROVE  Rightly(c, i, s)
    BY <2>7, <1>17, Tuple0
  <2>8. ASSUME i.arg = "unary", c # "dedent",
              s = <<Advance, Parse("unary"), Node("other")>>
        PROVE  Rightly(c, i, s)
    BY <2>8, <1>17, Tuple3
  <2>9. ASSUME i.arg = "unary",
              s = <<Parse("postfix")>>
        PROVE  Rightly(c, i, s)
    BY <2>9, <1>17, Tuple1
  <2> HIDE OpsAre
        DEF Rightly, GoesOnRight, SettlesRight, MissingRight, TrailsRight,
                AdvancesRight, DedentRight, GoesOn, Calls, Yields, Yielding,
                Consumes, ConsumesAt, Consuming, Settles, Direct, NodeLike,
                Statements, Trails, Guarded, Loops, Chain, FailsAtDedent
  <2> QED BY <1>1, <1>2, <1>3, <1>4, <1>5, <2>1, <2>2, <2>3, <2>4, <2>5, <2>6,
         <2>7, <2>8, <2>9
<1> QED BY <1>16, <1>18 DEF Right

LEMMA TrailerRulesAreRight ==
  ASSUME NEW c \in Kinds, NEW i \in Instr,
         i.op \in {"parse", "within", "rest"},
         i.arg \in DOMAIN TrailerRules(c)
  PROVE  Right(c, i, TrailerRules(c)[i.arg])
<1> DEFINE s == TrailerRules(c)[i.arg]
<1> SUFFICES Right(c, i, s)
  OBVIOUS
<1>1. i.arg \in {"postfix", "trailers"}
  BY DEF TrailerRules
<1>2. i.arg = "postfix" =>
        s = <<Parse("atom"), Rest("trailers")>>
  BY DEF TrailerRules, When
<1>3. i.arg = "trailers" =>
        \/ c = "("
           /\ s = <<Advance, List(")", "call_arg"), Close(")"), Node("other"),
                    Rest("trailers")>>
        \/ c = "."
           /\ s = <<Advance, Expect("name"), Node("other"), Rest("trailers")>>
        \/ c = "["
           /\ s = <<Advance, Parse("slice"), Close("]"), Node("other"),
                    Rest("trailers")>>
        \/ s = <<>>
  BY DEF TrailerRules, When
<1> HIDE DEF s
<1>4. {"atom", "slice"}
          \subseteq RuleNames \ (Direct \cup Joining)
  BY DEF RuleNames, Direct, Joining
<1>5. \A f \in {"atom", "slice"} :
        Parse(f) \in Instr
  BY <1>4, ParseIs
<1>6. {"trailers"}
          \subseteq Joining \cup {"trailers"}
  BY DEF Joining
<1>7. \A f \in {"trailers"} :
        Rest(f) \in Instr
  BY <1>6, RestIs
<1>8. {")", "]", "name", "other"} \subseteq Words
  BY DEF Words
<1>9. \A k \in {"name"} : Expect(k) \in Instr
  BY <1>8, ExpectIs
<1>10. \A k \in {")", "]"} : Close(k) \in Instr
  BY <1>8, CloseIs
<1>11. \A k \in {"other"} : Node(k) \in Instr
  BY <1>8, NodeIs
<1>12. {"call_arg"} \subseteq Items
  BY DEF Items
<1>13. List(")", "call_arg") \in Instr
  BY <1>8, <1>12, ListIs
<1>14. /\ <<Parse("atom"), Rest("trailers")>> \in Seq(Instr)
       /\ <<Advance, List(")", "call_arg"), Close(")"), Node("other"),
            Rest("trailers")>> \in Seq(Instr)
       /\ <<Advance, Expect("name"), Node("other"), Rest("trailers")>> \in Seq(Instr)
       /\ <<Advance, Parse("slice"), Close("]"), Node("other"),
            Rest("trailers")>> \in Seq(Instr)
       /\ <<>> \in Seq(Instr)
  BY <1>5, <1>7, <1>9, <1>10, <1>11, <1>13, AdvanceIs
<1>15. s \in Seq(Instr)
  BY <1>1, <1>2, <1>3, <1>14
<1>16. i.arg \notin {"trailers"} =>
         i.op \in {"parse", "within"}
  BY <1>1, CallsAre DEF Joining
<1>17. Rightly(c, i, s)
  <2> USE OpsAre
        DEF Rightly, GoesOnRight, SettlesRight, MissingRight, TrailsRight,
                AdvancesRight, DedentRight, GoesOn, Calls, Yields, Yielding,
                Consumes, ConsumesAt, Consuming, Settles, Direct, NodeLike,
                Statements, Trails, Guarded, Loops, Chain, FailsAtDedent
  <2>1. ASSUME i.arg = "postfix",
              s = <<Parse("atom"), Rest("trailers")>>
        PROVE  Rightly(c, i, s)
    BY <2>1, <1>16, Tuple2
  <2>2. ASSUME i.arg = "trailers", c = "(",
              s = <<Advance, List(")", "call_arg"), Close(")"), Node("other"),
                    Rest("trailers")>>
        PROVE  Rightly(c, i, s)
    BY <2>2, <1>16, Tuple5
  <2>3. ASSUME i.arg = "trailers", c = ".",
              s = <<Advance, Expect("name"), Node("other"), Rest("trailers")>>
        PROVE  Rightly(c, i, s)
    BY <2>3, <1>16, Tuple4
  <2>4. ASSUME i.arg = "trailers", c = "[",
              s = <<Advance, Parse("slice"), Close("]"), Node("other"),
                    Rest("trailers")>>
        PROVE  Rightly(c, i, s)
    BY <2>4, <1>16, Tuple5
  <2>5. ASSUME i.arg = "trailers",
              s = <<>>
        PROVE  Rightly(c, i, s)
    BY <2>5, <1>16, Tuple0
  <2> HIDE OpsAre
        DEF Rightly, GoesOnRight, SettlesRight, MissingRight, TrailsRight,
                AdvancesRight, DedentRight, GoesOn, Calls, Yields, Yielding,
                Consumes, ConsumesAt, Consuming, Settles, Direct, NodeLike,
                Statements, Trails, Guarded, Loops, Chain, FailsAtDedent
  <2> QED BY <1>1, <1>2, <1>3, <2>1, <2>2, <2>3, <2>4, <2>5
<1> QED BY <1>15, <1>17 DEF Right

LEMMA AtomRulesAreRight ==
  ASSUME NEW c \in Kinds, NEW i \in Instr,
         i.op \in {"parse", "within", "rest"},
         i.arg \in DOMAIN AtomRules(c)
  PROVE  Right(c, i, AtomRules(c)[i.arg])
<1> DEFINE s == AtomRules(c)[i.arg]
<1> SUFFICES Right(c, i, s)
  OBVIOUS
<1>1. i.arg \in {"atom"}
  BY DEF AtomRules
<1>2. i.arg = "atom" =>
        \/ c = "lambda" /\ s = <<Parse("lambda")>>
        \/ c = "*" /\ s = <<Advance, Parse("expr"), Node("other")>>
        \/ c # "dedent" /\ s = <<Advance, Node("other")>>
        \/ c = "name" /\ s = <<Advance, Node("name")>>
        \/ c = "fstart" /\ s = <<Parse("fstring")>>
        \/ c = "(" /\ s = <<Parse("paren")>>
        \/ c = "[" /\ s = <<Parse("list")>>
        \/ c = LBrace /\ s = <<Parse("braces")>>
        \/ s = <<Fail>>
  BY SignsDiffer DEF AtomRules, When
<1> HIDE DEF s
<1>3. {"braces", "expr", "fstring", "lambda", "list", "paren"}
          \subseteq RuleNames \ (Direct \cup Joining)
  BY DEF RuleNames, Direct, Joining
<1>4. \A f \in {"braces", "expr", "fstring", "lambda", "list", "paren"} :
        Parse(f) \in Instr
  BY <1>3, ParseIs
<1>5. {"name", "other"} \subseteq Words
  BY DEF Words
<1>6. \A k \in {"name", "other"} : Node(k) \in Instr
  BY <1>5, NodeIs
<1>7. /\ <<Parse("lambda")>> \in Seq(Instr)
      /\ <<Advance, Parse("expr"), Node("other")>> \in Seq(Instr)
      /\ <<Advance, Node("other")>> \in Seq(Instr)
      /\ <<Advance, Node("name")>> \in Seq(Instr)
      /\ <<Parse("fstring")>> \in Seq(Instr)
      /\ <<Parse("paren")>> \in Seq(Instr)
      /\ <<Parse("list")>> \in Seq(Instr)
      /\ <<Parse("braces")>> \in Seq(Instr)
      /\ <<Fail>> \in Seq(Instr)
  BY <1>4, <1>6, AdvanceIs, FailIs
<1>8. s \in Seq(Instr)
  BY <1>1, <1>2, <1>7
<1>9. i.op \in {"parse", "within"}
  BY <1>1, CallsAre DEF Joining
<1>10. Rightly(c, i, s)
  <2> USE OpsAre
        DEF Rightly, GoesOnRight, SettlesRight, MissingRight, TrailsRight,
                AdvancesRight, DedentRight, GoesOn, Calls, Yields, Yielding,
                Consumes, ConsumesAt, Consuming, Settles, Direct, NodeLike,
                Statements, Trails, Guarded, Loops, Chain, FailsAtDedent
  <2>1. ASSUME i.arg = "atom", c = "lambda",
              s = <<Parse("lambda")>>
        PROVE  Rightly(c, i, s)
    BY <2>1, <1>9, Tuple1
  <2>2. ASSUME i.arg = "atom", c = "*",
              s = <<Advance, Parse("expr"), Node("other")>>
        PROVE  Rightly(c, i, s)
    BY <2>2, <1>9, Tuple3
  <2>3. ASSUME i.arg = "atom", c # "dedent",
              s = <<Advance, Node("other")>>
        PROVE  Rightly(c, i, s)
    BY <2>3, <1>9, Tuple2
  <2>4. ASSUME i.arg = "atom", c = "name",
              s = <<Advance, Node("name")>>
        PROVE  Rightly(c, i, s)
    BY <2>4, <1>9, Tuple2
  <2>5. ASSUME i.arg = "atom", c = "fstart",
              s = <<Parse("fstring")>>
        PROVE  Rightly(c, i, s)
    BY <2>5, <1>9, Tuple1
  <2>6. ASSUME i.arg = "atom", c = "(",
              s = <<Parse("paren")>>
        PROVE  Rightly(c, i, s)
    BY <2>6, <1>9, Tuple1
  <2>7. ASSUME i.arg = "atom", c = "[",
              s = <<Parse("list")>>
        PROVE  Rightly(c, i, s)
    BY <2>7, <1>9, Tuple1
  <2>8. ASSUME i.arg = "atom", c = LBrace,
              s = <<Parse("braces")>>
        PROVE  Rightly(c, i, s)
    BY <2>8, <1>9, Tuple1, SignsDiffer
  <2>9. ASSUME i.arg = "atom",
              s = <<Fail>>
        PROVE  Rightly(c, i, s)
    BY <2>9, <1>9, Tuple1
  <2> HIDE OpsAre
        DEF Rightly, GoesOnRight, SettlesRight, MissingRight, TrailsRight,
                AdvancesRight, DedentRight, GoesOn, Calls, Yields, Yielding,
                Consumes, ConsumesAt, Consuming, Settles, Direct, NodeLike,
                Statements, Trails, Guarded, Loops, Chain, FailsAtDedent
  <2> QED BY <1>1, <1>2, <2>1, <2>2, <2>3, <2>4, <2>5, <2>6, <2>7, <2>8, <2>9
<1> QED BY <1>8, <1>10 DEF Right

LEMMA FStringRulesAreRight ==
  ASSUME NEW c \in Kinds, NEW i \in Instr,
         i.op \in {"parse", "within", "rest"},
         i.arg \in DOMAIN FStringRules(c)
  PROVE  Right(c, i, FStringRules(c)[i.arg])
<1> DEFINE s == FStringRules(c)[i.arg]
<1> SUFFICES Right(c, i, s)
  OBVIOUS
<1>1. i.arg \in {"fstring", "fstring_parts", "fstring_value", "conversion",
                "opt_name", "format_spec"}
  BY DEF FStringRules
<1>2. i.arg = "fstring" =>
        s = <<Advance, Parse("fstring_parts"), Node("other")>>
  BY DEF FStringRules, When
<1>3. i.arg = "fstring_parts" =>
        \/ c = "fend" /\ s = <<Advance>>
        \/ c = "flit" /\ s = <<Advance, Parse("fstring_parts")>>
        \/ c = LBrace /\ s = <<Parse("fstring_value"), Parse("fstring_parts")>>
        \/ c = "eof" /\ s = <<Complain>>
        \/ s = <<Complain, Advance, Parse("fstring_parts")>>
  BY SignsDiffer DEF FStringRules, When
<1>4. i.arg = "fstring_value" =>
        s = <<Advance, Parse("expr"), Parse("conversion"),
              Parse("format_spec"), Close(RBrace), Node("other")>>
  BY DEF FStringRules, When
<1>5. i.arg = "conversion" =>
        \/ c = "not" /\ s = <<Advance, Parse("opt_name")>>
        \/ ~ (c = "not") /\ s = <<>>
  BY DEF FStringRules, When
<1>6. i.arg = "opt_name" =>
        \/ c = "name" /\ s = <<Advance>>
        \/ ~ (c = "name") /\ s = <<>>
  BY DEF FStringRules, When
<1>7. i.arg = "format_spec" =>
        \/ c = ":" /\ s = <<Advance, FormatTokens(0)>>
        \/ ~ (c = ":") /\ s = <<>>
  BY DEF FStringRules, When
<1> HIDE DEF s
<1>8. {"conversion", "expr", "format_spec", "fstring_parts", "fstring_value",
       "opt_name"}
          \subseteq RuleNames \ (Direct \cup Joining)
  BY DEF RuleNames, Direct, Joining
<1>9. \A f \in {"conversion", "expr", "format_spec", "fstring_parts",
                "fstring_value", "opt_name"} :
        Parse(f) \in Instr
  BY <1>8, ParseIs
<1>10. {"other", RBrace} \subseteq Words
  BY DEF Words
<1>11. \A k \in {RBrace} : Close(k) \in Instr
  BY <1>10, CloseIs
<1>12. \A k \in {"other"} : Node(k) \in Instr
  BY <1>10, NodeIs
<1>13. FormatTokens(0) \in Instr
  BY FormatTokensIs
<1>14. /\ <<Advance, Parse("fstring_parts"), Node("other")>> \in Seq(Instr)
       /\ <<Advance>> \in Seq(Instr)
       /\ <<Advance, Parse("fstring_parts")>> \in Seq(Instr)
       /\ <<Parse("fstring_value"), Parse("fstring_parts")>> \in Seq(Instr)
       /\ <<Complain>> \in Seq(Instr)
       /\ <<Complain, Advance, Parse("fstring_parts")>> \in Seq(Instr)
       /\ <<Advance, Parse("expr"), Parse("conversion"), Parse("format_spec"),
            Close(RBrace), Node("other")>> \in Seq(Instr)
       /\ <<Advance, Parse("opt_name")>> \in Seq(Instr)
       /\ <<>> \in Seq(Instr)
       /\ <<Advance, FormatTokens(0)>> \in Seq(Instr)
  BY <1>9, <1>11, <1>12, <1>13, AdvanceIs, ComplainIs
<1>15. s \in Seq(Instr)
  BY <1>1, <1>2, <1>3, <1>4, <1>5, <1>6, <1>7, <1>14
<1>16. i.op \in {"parse", "within"}
  BY <1>1, CallsAre DEF Joining
<1>17. Rightly(c, i, s)
  <2> USE OpsAre
        DEF Rightly, GoesOnRight, SettlesRight, MissingRight, TrailsRight,
                AdvancesRight, DedentRight, GoesOn, Calls, Yields, Yielding,
                Consumes, ConsumesAt, Consuming, Settles, Direct, NodeLike,
                Statements, Trails, Guarded, Loops, Chain, FailsAtDedent
  <2>1. ASSUME i.arg = "fstring",
              s = <<Advance, Parse("fstring_parts"), Node("other")>>
        PROVE  Rightly(c, i, s)
    BY <2>1, <1>16, Tuple3
  <2>2. ASSUME i.arg = "fstring_parts", c = "fend",
              s = <<Advance>>
        PROVE  Rightly(c, i, s)
    BY <2>2, <1>16, Tuple1
  <2>3. ASSUME i.arg = "fstring_parts", c = "flit",
              s = <<Advance, Parse("fstring_parts")>>
        PROVE  Rightly(c, i, s)
    BY <2>3, <1>16, Tuple2
  <2>4. ASSUME i.arg = "fstring_parts", c = LBrace,
              s = <<Parse("fstring_value"), Parse("fstring_parts")>>
        PROVE  Rightly(c, i, s)
    BY <2>4, <1>16, Tuple2, SignsDiffer
  <2>5. ASSUME i.arg = "fstring_parts", c = "eof",
              s = <<Complain>>
        PROVE  Rightly(c, i, s)
    BY <2>5, <1>16, Tuple1
  <2>6. ASSUME i.arg = "fstring_parts",
              s = <<Complain, Advance, Parse("fstring_parts")>>
        PROVE  Rightly(c, i, s)
    BY <2>6, <1>16, Tuple3
  <2>7. ASSUME i.arg = "fstring_value",
              s = <<Advance, Parse("expr"), Parse("conversion"),
                    Parse("format_spec"), Close(RBrace), Node("other")>>
        PROVE  Rightly(c, i, s)
    BY <2>7, <1>16, Tuple6
  <2>8. ASSUME i.arg = "conversion", c = "not",
              s = <<Advance, Parse("opt_name")>>
        PROVE  Rightly(c, i, s)
    BY <2>8, <1>16, Tuple2
  <2>9. ASSUME i.arg = "conversion", ~ (c = "not"),
              s = <<>>
        PROVE  Rightly(c, i, s)
    BY <2>9, <1>16, Tuple0
  <2>10. ASSUME i.arg = "opt_name", c = "name",
              s = <<Advance>>
        PROVE  Rightly(c, i, s)
    BY <2>10, <1>16, Tuple1
  <2>11. ASSUME i.arg = "opt_name", ~ (c = "name"),
              s = <<>>
        PROVE  Rightly(c, i, s)
    BY <2>11, <1>16, Tuple0
  <2>12. ASSUME i.arg = "format_spec", c = ":",
              s = <<Advance, FormatTokens(0)>>
        PROVE  Rightly(c, i, s)
    BY <2>12, <1>16, Tuple2
  <2>13. ASSUME i.arg = "format_spec", ~ (c = ":"),
              s = <<>>
        PROVE  Rightly(c, i, s)
    BY <2>13, <1>16, Tuple0
  <2> HIDE OpsAre
        DEF Rightly, GoesOnRight, SettlesRight, MissingRight, TrailsRight,
                AdvancesRight, DedentRight, GoesOn, Calls, Yields, Yielding,
                Consumes, ConsumesAt, Consuming, Settles, Direct, NodeLike,
                Statements, Trails, Guarded, Loops, Chain, FailsAtDedent
  <2> QED BY <1>1, <1>2, <1>3, <1>4, <1>5, <1>6, <1>7, <2>1, <2>2, <2>3, <2>4,
         <2>5, <2>6, <2>7, <2>8, <2>9, <2>10, <2>11, <2>12, <2>13
<1> QED BY <1>15, <1>17 DEF Right

LEMMA DisplayRulesAreRight ==
  ASSUME NEW c \in Kinds, NEW i \in Instr,
         i.op \in {"parse", "within", "rest"},
         i.arg \in DOMAIN DisplayRules(c)
  PROVE  Right(c, i, DisplayRules(c)[i.arg])
<1> DEFINE s == DisplayRules(c)[i.arg]
<1> SUFFICES Right(c, i, s)
  OBVIOUS
<1>1. i.arg \in {"paren", "paren_rest", "paren_more", "list", "list_rest",
                "list_more"}
  BY DEF DisplayRules
<1>2. i.arg = "paren" =>
        s = <<Advance, Within("paren_rest")>>
  BY DEF DisplayRules, When
<1>3. i.arg = "paren_rest" =>
        \/ c = ")" /\ s = <<Advance, Node("other")>>
        \/ c = "yield" /\ s = <<Parse("yield_expr"), Close(")")>>
        \/ s = <<Parse("named"), Within("paren_more")>>
  BY DEF DisplayRules, When
<1>4. i.arg = "paren_more" =>
        \/ Comprehends(c)
           /\ s = <<Parse("clauses"), Close(")"), Node("other")>>
        \/ c = Comma
           /\ s = <<Advance, List(")", "expr"), Close(")"), Node("other")>>
        \/ s = <<Expect(")")>>
  BY SignsDiffer DEF DisplayRules, When
<1>5. i.arg = "list" =>
        s = <<Advance, Within("list_rest")>>
  BY DEF DisplayRules, When
<1>6. i.arg = "list_rest" =>
        \/ c = "]" /\ s = <<Advance, Node("other")>>
        \/ s = <<Parse("named"), Within("list_more")>>
  BY DEF DisplayRules, When
<1>7. i.arg = "list_more" =>
        \/ Comprehends(c)
           /\ s = <<Parse("clauses"), Close("]"), Node("other")>>
        \/ s = <<More("]", "named"), Close("]"), Node("other")>>
  BY DEF DisplayRules, When
<1> HIDE DEF s
<1>8. {"clauses", "named", "yield_expr"}
          \subseteq RuleNames \ (Direct \cup Joining)
  BY DEF RuleNames, Direct, Joining
<1>9. \A f \in {"clauses", "named", "yield_expr"} :
        Parse(f) \in Instr
  BY <1>8, ParseIs
<1>10. {"list_more", "list_rest", "paren_more", "paren_rest"}
          \subseteq RuleNames \ (Joining \cup {"expr_or_missing"})
  BY DEF RuleNames, Joining
<1>11. \A f \in {"list_more", "list_rest", "paren_more", "paren_rest"} :
        Within(f) \in Instr
  BY <1>10, WithinIs
<1>12. {")", "]", "other"} \subseteq Words
  BY DEF Words
<1>13. \A k \in {")"} : Expect(k) \in Instr
  BY <1>12, ExpectIs
<1>14. \A k \in {")", "]"} : Close(k) \in Instr
  BY <1>12, CloseIs
<1>15. \A k \in {"other"} : Node(k) \in Instr
  BY <1>12, NodeIs
<1>16. {"expr", "named"} \subseteq Items
  BY DEF Items
<1>17. List(")", "expr") \in Instr
  BY <1>12, <1>16, ListIs
<1>18. More("]", "named") \in Instr
  BY <1>12, <1>16, MoreIs
<1>19. /\ <<Advance, Within("paren_rest")>> \in Seq(Instr)
       /\ <<Advance, Node("other")>> \in Seq(Instr)
       /\ <<Parse("yield_expr"), Close(")")>> \in Seq(Instr)
       /\ <<Parse("named"), Within("paren_more")>> \in Seq(Instr)
       /\ <<Parse("clauses"), Close(")"), Node("other")>> \in Seq(Instr)
       /\ <<Advance, List(")", "expr"), Close(")"), Node("other")>> \in Seq(Instr)
       /\ <<Expect(")")>> \in Seq(Instr)
       /\ <<Advance, Within("list_rest")>> \in Seq(Instr)
       /\ <<Parse("named"), Within("list_more")>> \in Seq(Instr)
       /\ <<Parse("clauses"), Close("]"), Node("other")>> \in Seq(Instr)
       /\ <<More("]", "named"), Close("]"), Node("other")>> \in Seq(Instr)
  BY <1>9, <1>11, <1>13, <1>14, <1>15, <1>17, <1>18, AdvanceIs
<1>20. s \in Seq(Instr)
  BY <1>1, <1>2, <1>3, <1>4, <1>5, <1>6, <1>7, <1>19
<1>21. i.op \in {"parse", "within"}
  BY <1>1, CallsAre DEF Joining
<1>22. Rightly(c, i, s)
  <2> USE OpsAre
        DEF Rightly, GoesOnRight, SettlesRight, MissingRight, TrailsRight,
                AdvancesRight, DedentRight, GoesOn, Calls, Yields, Yielding,
                Consumes, ConsumesAt, Consuming, Settles, Direct, NodeLike,
                Statements, Trails, Guarded, Loops, Chain, FailsAtDedent
  <2>1. ASSUME i.arg = "paren",
              s = <<Advance, Within("paren_rest")>>
        PROVE  Rightly(c, i, s)
    BY <2>1, <1>21, Tuple2
  <2>2. ASSUME i.arg = "paren_rest", c = ")",
              s = <<Advance, Node("other")>>
        PROVE  Rightly(c, i, s)
    BY <2>2, <1>21, Tuple2
  <2>3. ASSUME i.arg = "paren_rest", c = "yield",
              s = <<Parse("yield_expr"), Close(")")>>
        PROVE  Rightly(c, i, s)
    BY <2>3, <1>21, Tuple2
  <2>4. ASSUME i.arg = "paren_rest",
              s = <<Parse("named"), Within("paren_more")>>
        PROVE  Rightly(c, i, s)
    BY <2>4, <1>21, Tuple2
  <2>5. ASSUME i.arg = "paren_more", Comprehends(c),
              s = <<Parse("clauses"), Close(")"), Node("other")>>
        PROVE  Rightly(c, i, s)
    BY <2>5, <1>21, Tuple3
  <2>6. ASSUME i.arg = "paren_more", c = Comma,
              s = <<Advance, List(")", "expr"), Close(")"), Node("other")>>
        PROVE  Rightly(c, i, s)
    BY <2>6, <1>21, Tuple4, SignsDiffer
  <2>7. ASSUME i.arg = "paren_more",
              s = <<Expect(")")>>
        PROVE  Rightly(c, i, s)
    BY <2>7, <1>21, Tuple1
  <2>8. ASSUME i.arg = "list",
              s = <<Advance, Within("list_rest")>>
        PROVE  Rightly(c, i, s)
    BY <2>8, <1>21, Tuple2
  <2>9. ASSUME i.arg = "list_rest", c = "]",
              s = <<Advance, Node("other")>>
        PROVE  Rightly(c, i, s)
    BY <2>9, <1>21, Tuple2
  <2>10. ASSUME i.arg = "list_rest",
              s = <<Parse("named"), Within("list_more")>>
        PROVE  Rightly(c, i, s)
    BY <2>10, <1>21, Tuple2
  <2>11. ASSUME i.arg = "list_more", Comprehends(c),
              s = <<Parse("clauses"), Close("]"), Node("other")>>
        PROVE  Rightly(c, i, s)
    BY <2>11, <1>21, Tuple3
  <2>12. ASSUME i.arg = "list_more",
              s = <<More("]", "named"), Close("]"), Node("other")>>
        PROVE  Rightly(c, i, s)
    BY <2>12, <1>21, Tuple3
  <2> HIDE OpsAre
        DEF Rightly, GoesOnRight, SettlesRight, MissingRight, TrailsRight,
                AdvancesRight, DedentRight, GoesOn, Calls, Yields, Yielding,
                Consumes, ConsumesAt, Consuming, Settles, Direct, NodeLike,
                Statements, Trails, Guarded, Loops, Chain, FailsAtDedent
  <2> QED BY <1>1, <1>2, <1>3, <1>4, <1>5, <1>6, <1>7, <2>1, <2>2, <2>3, <2>4,
         <2>5, <2>6, <2>7, <2>8, <2>9, <2>10, <2>11, <2>12
<1> QED BY <1>20, <1>22 DEF Right

LEMMA BraceRulesAreRight ==
  ASSUME NEW c \in Kinds, NEW i \in Instr,
         i.op \in {"parse", "within", "rest"},
         i.arg \in DOMAIN BraceRules(c)
  PROVE  Right(c, i, BraceRules(c)[i.arg])
<1> DEFINE s == BraceRules(c)[i.arg]
<1> SUFFICES Right(c, i, s)
  OBVIOUS
<1>1. i.arg \in {"braces", "braces_rest", "braces_more", "dict_more",
                "dict_item", "clauses", "clause", "ifs"}
  BY DEF BraceRules
<1>2. i.arg = "braces" =>
        s = <<Advance, Within("braces_rest")>>
  BY DEF BraceRules, When
<1>3. i.arg = "braces_rest" =>
        \/ c = RBrace /\ s = <<Advance, Node("other")>>
        \/ c = "**"
           /\ s = <<List(RBrace, "dict_item"), Close(RBrace), Node("other")>>
        \/ s = <<Parse("named"), Within("braces_more")>>
  BY SignsDiffer DEF BraceRules, When
<1>4. i.arg = "braces_more" =>
        \/ c = ":" /\ s = <<Advance, Parse("named"), Within("dict_more")>>
        \/ Comprehends(c)
           /\ s = <<Parse("clauses"), Close(RBrace), Node("other")>>
        \/ s = <<More(RBrace, "named"), Close(RBrace), Node("other")>>
  BY DEF BraceRules, When
<1>5. i.arg = "dict_more" =>
        \/ Comprehends(c)
           /\ s = <<Parse("clauses"), Close(RBrace), Node("other")>>
        \/ s = <<More(RBrace, "dict_item"), Close(RBrace), Node("other")>>
  BY DEF BraceRules, When
<1>6. i.arg = "dict_item" =>
        \/ c = "**" /\ s = <<Advance, Parse("named")>>
        \/ s = <<Parse("named"), Expect(":"), Parse("named")>>
  BY DEF BraceRules, When
<1>7. i.arg = "clauses" =>
        \/ c = "async" /\ s = <<Advance, Within("clause")>>
        \/ c = "for" /\ s = <<Within("clause")>>
        \/ s = <<>>
  BY DEF BraceRules, When
<1>8. i.arg = "clause" =>
        \/ c = "for"
           /\ s = <<Advance, Parse("expr"), Expect("in"), Parse("or_test"),
                    Parse("ifs"), Node("other"), Parse("clauses")>>
        \/ s = <<Fail>>
  BY DEF BraceRules, When
<1>9. i.arg = "ifs" =>
        \/ c = "if" /\ s = <<Advance, Parse("or_test"), Parse("ifs")>>
        \/ ~ (c = "if") /\ s = <<>>
  BY DEF BraceRules, When
<1> HIDE DEF s
<1>10. {"clauses", "expr", "ifs", "named", "or_test"}
          \subseteq RuleNames \ (Direct \cup Joining)
  BY DEF RuleNames, Direct, Joining
<1>11. \A f \in {"clauses", "expr", "ifs", "named", "or_test"} :
        Parse(f) \in Instr
  BY <1>10, ParseIs
<1>12. {"braces_more", "braces_rest", "clause", "dict_more"}
          \subseteq RuleNames \ (Joining \cup {"expr_or_missing"})
  BY DEF RuleNames, Joining
<1>13. \A f \in {"braces_more", "braces_rest", "clause", "dict_more"} :
        Within(f) \in Instr
  BY <1>12, WithinIs
<1>14. {":", "in", "other", RBrace} \subseteq Words
  BY DEF Words
<1>15. \A k \in {":", "in"} : Expect(k) \in Instr
  BY <1>14, ExpectIs
<1>16. \A k \in {RBrace} : Close(k) \in Instr
  BY <1>14, CloseIs
<1>17. \A k \in {"other"} : Node(k) \in Instr
  BY <1>14, NodeIs
<1>18. {"dict_item", "named"} \subseteq Items
  BY DEF Items
<1>19. List(RBrace, "dict_item") \in Instr
  BY <1>14, <1>18, ListIs
<1>20. /\ More(RBrace, "dict_item") \in Instr
       /\ More(RBrace, "named") \in Instr
  BY <1>14, <1>18, MoreIs
<1>21. /\ <<Advance, Within("braces_rest")>> \in Seq(Instr)
       /\ <<Advance, Node("other")>> \in Seq(Instr)
       /\ <<List(RBrace, "dict_item"), Close(RBrace), Node("other")>> \in Seq(Instr)
       /\ <<Parse("named"), Within("braces_more")>> \in Seq(Instr)
       /\ <<Advance, Parse("named"), Within("dict_more")>> \in Seq(Instr)
       /\ <<Parse("clauses"), Close(RBrace), Node("other")>> \in Seq(Instr)
       /\ <<More(RBrace, "named"), Close(RBrace), Node("other")>> \in Seq(Instr)
       /\ <<More(RBrace, "dict_item"), Close(RBrace), Node("other")>> \in Seq(Instr)
       /\ <<Advance, Parse("named")>> \in Seq(Instr)
       /\ <<Parse("named"), Expect(":"), Parse("named")>> \in Seq(Instr)
       /\ <<Advance, Within("clause")>> \in Seq(Instr)
       /\ <<Within("clause")>> \in Seq(Instr)
       /\ <<>> \in Seq(Instr)
       /\ <<Advance, Parse("expr"), Expect("in"), Parse("or_test"), Parse("ifs"),
            Node("other"), Parse("clauses")>> \in Seq(Instr)
       /\ <<Fail>> \in Seq(Instr)
       /\ <<Advance, Parse("or_test"), Parse("ifs")>> \in Seq(Instr)
  BY <1>11, <1>13, <1>15, <1>16, <1>17, <1>19, <1>20, AdvanceIs, FailIs
<1>22. s \in Seq(Instr)
  BY <1>1, <1>2, <1>3, <1>4, <1>5, <1>6, <1>7, <1>8, <1>9, <1>21
<1>23. i.op \in {"parse", "within"}
  BY <1>1, CallsAre DEF Joining
<1>24. Rightly(c, i, s)
  <2> USE OpsAre
        DEF Rightly, GoesOnRight, SettlesRight, MissingRight, TrailsRight,
                AdvancesRight, DedentRight, GoesOn, Calls, Yields, Yielding,
                Consumes, ConsumesAt, Consuming, Settles, Direct, NodeLike,
                Statements, Trails, Guarded, Loops, Chain, FailsAtDedent
  <2>1. ASSUME i.arg = "braces",
              s = <<Advance, Within("braces_rest")>>
        PROVE  Rightly(c, i, s)
    BY <2>1, <1>23, Tuple2
  <2>2. ASSUME i.arg = "braces_rest", c = RBrace,
              s = <<Advance, Node("other")>>
        PROVE  Rightly(c, i, s)
    BY <2>2, <1>23, Tuple2, SignsDiffer
  <2>3. ASSUME i.arg = "braces_rest", c = "**",
              s = <<List(RBrace, "dict_item"), Close(RBrace), Node("other")>>
        PROVE  Rightly(c, i, s)
    BY <2>3, <1>23, Tuple3
  <2>4. ASSUME i.arg = "braces_rest",
              s = <<Parse("named"), Within("braces_more")>>
        PROVE  Rightly(c, i, s)
    BY <2>4, <1>23, Tuple2
  <2>5. ASSUME i.arg = "braces_more", c = ":",
              s = <<Advance, Parse("named"), Within("dict_more")>>
        PROVE  Rightly(c, i, s)
    BY <2>5, <1>23, Tuple3
  <2>6. ASSUME i.arg = "braces_more", Comprehends(c),
              s = <<Parse("clauses"), Close(RBrace), Node("other")>>
        PROVE  Rightly(c, i, s)
    BY <2>6, <1>23, Tuple3
  <2>7. ASSUME i.arg = "braces_more",
              s = <<More(RBrace, "named"), Close(RBrace), Node("other")>>
        PROVE  Rightly(c, i, s)
    BY <2>7, <1>23, Tuple3
  <2>8. ASSUME i.arg = "dict_more", Comprehends(c),
              s = <<Parse("clauses"), Close(RBrace), Node("other")>>
        PROVE  Rightly(c, i, s)
    BY <2>8, <1>23, Tuple3
  <2>9. ASSUME i.arg = "dict_more",
              s = <<More(RBrace, "dict_item"), Close(RBrace), Node("other")>>
        PROVE  Rightly(c, i, s)
    BY <2>9, <1>23, Tuple3
  <2>10. ASSUME i.arg = "dict_item", c = "**",
              s = <<Advance, Parse("named")>>
        PROVE  Rightly(c, i, s)
    BY <2>10, <1>23, Tuple2
  <2>11. ASSUME i.arg = "dict_item",
              s = <<Parse("named"), Expect(":"), Parse("named")>>
        PROVE  Rightly(c, i, s)
    BY <2>11, <1>23, Tuple3
  <2>12. ASSUME i.arg = "clauses", c = "async",
              s = <<Advance, Within("clause")>>
        PROVE  Rightly(c, i, s)
    BY <2>12, <1>23, Tuple2
  <2>13. ASSUME i.arg = "clauses", c = "for",
              s = <<Within("clause")>>
        PROVE  Rightly(c, i, s)
    BY <2>13, <1>23, Tuple1
  <2>14. ASSUME i.arg = "clauses",
              s = <<>>
        PROVE  Rightly(c, i, s)
    BY <2>14, <1>23, Tuple0
  <2>15. ASSUME i.arg = "clause", c = "for",
              s = <<Advance, Parse("expr"), Expect("in"), Parse("or_test"),
                    Parse("ifs"), Node("other"), Parse("clauses")>>
        PROVE  Rightly(c, i, s)
    BY <2>15, <1>23, Tuple7
  <2>16. ASSUME i.arg = "clause",
              s = <<Fail>>
        PROVE  Rightly(c, i, s)
    BY <2>16, <1>23, Tuple1
  <2>17. ASSUME i.arg = "ifs", c = "if",
              s = <<Advance, Parse("or_test"), Parse("ifs")>>
        PROVE  Rightly(c, i, s)
    BY <2>17, <1>23, Tuple3
  <2>18. ASSUME i.arg = "ifs", ~ (c = "if"),
              s = <<>>
        PROVE  Rightly(c, i, s)
    BY <2>18, <1>23, Tuple0
  <2> HIDE OpsAre
        DEF Rightly, GoesOnRight, SettlesRight, MissingRight, TrailsRight,
                AdvancesRight, DedentRight, GoesOn, Calls, Yields, Yielding,
                Consumes, ConsumesAt, Consuming, Settles, Direct, NodeLike,
                Statements, Trails, Guarded, Loops, Chain, FailsAtDedent
  <2> QED BY <1>1, <1>2, <1>3, <1>4, <1>5, <1>6, <1>7, <1>8, <1>9, <2>1, <2>2,
         <2>3, <2>4, <2>5, <2>6, <2>7, <2>8, <2>9, <2>10, <2>11, <2>12, <2>13,
         <2>14, <2>15, <2>16, <2>17, <2>18
<1> QED BY <1>22, <1>24 DEF Right

LEMMA ArgumentRulesAreRight ==
  ASSUME NEW c \in Kinds, NEW i \in Instr,
         i.op \in {"parse", "within", "rest"},
         i.arg \in DOMAIN ArgumentRules(c)
  PROVE  Right(c, i, ArgumentRules(c)[i.arg])
<1> DEFINE s == ArgumentRules(c)[i.arg]
<1> SUFFICES Right(c, i, s)
  OBVIOUS
<1>1. i.arg \in {"call_arg", "slice", "slice_rest", "slice_bounds", "upper",
                "step", "yield_expr", "yielded"}
  BY DEF ArgumentRules
<1>2. i.arg = "call_arg" =>
        \/ c # "dedent" /\ s = <<Advance, Parse("expr"), Node("other")>>
        \/ s = <<Parse("expr"), KeywordValue>>
  BY DEF ArgumentRules, When
<1>3. i.arg = "slice" =>
        \/ c = ":" /\ s = <<Within("slice_bounds")>>
        \/ s = <<Parse("expr"), Within("slice_rest")>>
  BY DEF ArgumentRules, When
<1>4. i.arg = "slice_rest" =>
        \/ c = ":" /\ s = <<Within("slice_bounds")>>
        \/ ~ (c = ":") /\ s = <<>>
  BY DEF ArgumentRules, When
<1>5. i.arg = "slice_bounds" =>
        s = <<Expect(":"), Parse("upper"), Opt(":", "step"), Node("other")>>
  BY DEF ArgumentRules, When
<1>6. i.arg = "upper" =>
        \/ s = <<Parse("expr")>>
        \/ s = <<>>
  BY SignsDiffer DEF ArgumentRules, When
<1>7. i.arg = "step" =>
        \/ s = <<Parse("expr")>>
        \/ s = <<>>
  BY SignsDiffer DEF ArgumentRules, When
<1>8. i.arg = "yield_expr" =>
        s = <<Expect("yield"), Within("yielded")>>
  BY DEF ArgumentRules, When
<1>9. i.arg = "yielded" =>
        \/ c = "from" /\ s = <<Advance, Parse("expr"), Node("other")>>
        \/ c # "dedent" /\ s = <<Node("other")>>
        \/ s = <<Parse("expr"), Node("other")>>
  BY SignsDiffer DEF ArgumentRules, When
<1> HIDE DEF s
<1>10. {"expr", "upper"}
          \subseteq RuleNames \ (Direct \cup Joining)
  BY DEF RuleNames, Direct, Joining
<1>11. \A f \in {"expr", "upper"} :
        Parse(f) \in Instr
  BY <1>10, ParseIs
<1>12. {"slice_bounds", "slice_rest", "yielded"}
          \subseteq RuleNames \ (Joining \cup {"expr_or_missing"})
  BY DEF RuleNames, Joining
<1>13. \A f \in {"slice_bounds", "slice_rest", "yielded"} :
        Within(f) \in Instr
  BY <1>12, WithinIs
<1>14. {":", "other", "yield"} \subseteq Words
  BY DEF Words
<1>15. \A k \in {":", "yield"} : Expect(k) \in Instr
  BY <1>14, ExpectIs
<1>16. \A k \in {"other"} : Node(k) \in Instr
  BY <1>14, NodeIs
<1>17. {"step"} \subseteq Items
  BY DEF Items
<1>18. Opt(":", "step") \in Instr
  BY <1>14, <1>17, OptIs
<1>19. /\ <<Advance, Parse("expr"), Node("other")>> \in Seq(Instr)
       /\ <<Parse("expr"), KeywordValue>> \in Seq(Instr)
       /\ <<Within("slice_bounds")>> \in Seq(Instr)
       /\ <<Parse("expr"), Within("slice_rest")>> \in Seq(Instr)
       /\ <<>> \in Seq(Instr)
       /\ <<Expect(":"), Parse("upper"), Opt(":", "step"),
            Node("other")>> \in Seq(Instr)
       /\ <<Parse("expr")>> \in Seq(Instr)
       /\ <<Expect("yield"), Within("yielded")>> \in Seq(Instr)
       /\ <<Node("other")>> \in Seq(Instr)
       /\ <<Parse("expr"), Node("other")>> \in Seq(Instr)
  BY <1>11, <1>13, <1>15, <1>16, <1>18, AdvanceIs, KeywordValueIs
<1>20. s \in Seq(Instr)
  BY <1>1, <1>2, <1>3, <1>4, <1>5, <1>6, <1>7, <1>8, <1>9, <1>19
<1>21. i.op \in {"parse", "within"}
  BY <1>1, CallsAre DEF Joining
<1>22. Rightly(c, i, s)
  <2> USE OpsAre
        DEF Rightly, GoesOnRight, SettlesRight, MissingRight, TrailsRight,
                AdvancesRight, DedentRight, GoesOn, Calls, Yields, Yielding,
                Consumes, ConsumesAt, Consuming, Settles, Direct, NodeLike,
                Statements, Trails, Guarded, Loops, Chain, FailsAtDedent
  <2>1. ASSUME i.arg = "call_arg", c # "dedent",
              s = <<Advance, Parse("expr"), Node("other")>>
        PROVE  Rightly(c, i, s)
    BY <2>1, <1>21, Tuple3
  <2>2. ASSUME i.arg = "call_arg",
              s = <<Parse("expr"), KeywordValue>>
        PROVE  Rightly(c, i, s)
    BY <2>2, <1>21, Tuple2
  <2>3. ASSUME i.arg = "slice", c = ":",
              s = <<Within("slice_bounds")>>
        PROVE  Rightly(c, i, s)
    BY <2>3, <1>21, Tuple1
  <2>4. ASSUME i.arg = "slice",
              s = <<Parse("expr"), Within("slice_rest")>>
        PROVE  Rightly(c, i, s)
    BY <2>4, <1>21, Tuple2
  <2>5. ASSUME i.arg = "slice_rest", c = ":",
              s = <<Within("slice_bounds")>>
        PROVE  Rightly(c, i, s)
    BY <2>5, <1>21, Tuple1
  <2>6. ASSUME i.arg = "slice_rest", ~ (c = ":"),
              s = <<>>
        PROVE  Rightly(c, i, s)
    BY <2>6, <1>21, Tuple0
  <2>7. ASSUME i.arg = "slice_bounds",
              s = <<Expect(":"), Parse("upper"), Opt(":", "step"),
                    Node("other")>>
        PROVE  Rightly(c, i, s)
    BY <2>7, <1>21, Tuple4
  <2>8. ASSUME i.arg = "upper",
              s = <<Parse("expr")>>
        PROVE  Rightly(c, i, s)
    BY <2>8, <1>21, Tuple1
  <2>9. ASSUME i.arg = "upper",
              s = <<>>
        PROVE  Rightly(c, i, s)
    BY <2>9, <1>21, Tuple0
  <2>10. ASSUME i.arg = "step",
              s = <<Parse("expr")>>
        PROVE  Rightly(c, i, s)
    BY <2>10, <1>21, Tuple1
  <2>11. ASSUME i.arg = "step",
              s = <<>>
        PROVE  Rightly(c, i, s)
    BY <2>11, <1>21, Tuple0
  <2>12. ASSUME i.arg = "yield_expr",
              s = <<Expect("yield"), Within("yielded")>>
        PROVE  Rightly(c, i, s)
    BY <2>12, <1>21, Tuple2
  <2>13. ASSUME i.arg = "yielded", c = "from",
              s = <<Advance, Parse("expr"), Node("other")>>
        PROVE  Rightly(c, i, s)
    BY <2>13, <1>21, Tuple3
  <2>14. ASSUME i.arg = "yielded", c # "dedent",
              s = <<Node("other")>>
        PROVE  Rightly(c, i, s)
    BY <2>14, <1>21, Tuple1
  <2>15. ASSUME i.arg = "yielded",
              s = <<Parse("expr"), Node("other")>>
        PROVE  Rightly(c, i, s)
    BY <2>15, <1>21, Tuple2
  <2> HIDE OpsAre
        DEF Rightly, GoesOnRight, SettlesRight, MissingRight, TrailsRight,
                AdvancesRight, DedentRight, GoesOn, Calls, Yields, Yielding,
                Consumes, ConsumesAt, Consuming, Settles, Direct, NodeLike,
                Statements, Trails, Guarded, Loops, Chain, FailsAtDedent
  <2> QED BY <1>1, <1>2, <1>3, <1>4, <1>5, <1>6, <1>7, <1>8, <1>9, <2>1, <2>2,
         <2>3, <2>4, <2>5, <2>6, <2>7, <2>8, <2>9, <2>10, <2>11, <2>12, <2>13,
         <2>14, <2>15
<1> QED BY <1>20, <1>22 DEF Right

LEMMA LambdaRulesAreRight ==
  ASSUME NEW c \in Kinds, NEW i \in Instr,
         i.op \in {"parse", "within", "rest"},
         i.arg \in DOMAIN LambdaRules(c)
  PROVE  Right(c, i, LambdaRules(c)[i.arg])
<1> DEFINE s == LambdaRules(c)[i.arg]
<1> SUFFICES Right(c, i, s)
  OBVIOUS
<1>1. i.arg \in {"lambda", "lambda_params", "lambda_items", "lambda_star",
                "lambda_name", "lambda_param", "more_lambda"}
  BY DEF LambdaRules
<1>2. i.arg = "lambda" =>
        s = <<Expect("lambda"), Parse("lambda_params"), Expect(":"),
              Parse("ternary"), Node("other")>>
  BY DEF LambdaRules, When
<1>3. i.arg = "lambda_params" =>
        \/ c # ":" /\ s = <<Within("lambda_items"), Node("other")>>
        \/ ~ (c # ":") /\ s = <<>>
  BY DEF LambdaRules, When
<1>4. i.arg = "lambda_items" =>
        \/ c = ":" /\ s = <<>>
        \/ c = "*" /\ s = <<Advance, Parse("lambda_star")>>
        \/ c = "**" /\ s = <<Advance, Parse("lambda_name"), Parse("comma")>>
        \/ s = <<Parse("lambda_param"), Parse("more_lambda")>>
  BY DEF LambdaRules, When
<1>5. i.arg = "lambda_star" =>
        \/ s = <<Parse("comma"), Parse("lambda_items")>>
        \/ s = <<Parse("lambda_name"), Parse("more_lambda")>>
  BY DEF LambdaRules, When
<1>6. i.arg = "lambda_name" =>
        s = <<Expect("name"), Node("other")>>
  BY DEF LambdaRules, When
<1>7. i.arg = "lambda_param" =>
        s = <<Expect("name"), Opt("=", "expr"), Node("other")>>
  BY DEF LambdaRules, When
<1>8. i.arg = "more_lambda" =>
        \/ c = Comma /\ s = <<Advance, Parse("lambda_items")>>
        \/ ~ (c = Comma) /\ s = <<>>
  BY SignsDiffer DEF LambdaRules, When
<1> HIDE DEF s
<1>9. {"comma", "lambda_items", "lambda_name", "lambda_param", "lambda_params",
       "lambda_star", "more_lambda", "ternary"}
          \subseteq RuleNames \ (Direct \cup Joining)
  BY DEF RuleNames, Direct, Joining
<1>10. \A f \in {"comma", "lambda_items", "lambda_name", "lambda_param",
                "lambda_params", "lambda_star", "more_lambda", "ternary"} :
        Parse(f) \in Instr
  BY <1>9, ParseIs
<1>11. {"lambda_items"}
          \subseteq RuleNames \ (Joining \cup {"expr_or_missing"})
  BY DEF RuleNames, Joining
<1>12. \A f \in {"lambda_items"} :
        Within(f) \in Instr
  BY <1>11, WithinIs
<1>13. {":", "=", "lambda", "name", "other"} \subseteq Words
  BY DEF Words
<1>14. \A k \in {":", "lambda", "name"} : Expect(k) \in Instr
  BY <1>13, ExpectIs
<1>15. \A k \in {"other"} : Node(k) \in Instr
  BY <1>13, NodeIs
<1>16. {"expr"} \subseteq Items
  BY DEF Items
<1>17. Opt("=", "expr") \in Instr
  BY <1>13, <1>16, OptIs
<1>18. /\ <<Expect("lambda"), Parse("lambda_params"), Expect(":"), Parse("ternary"),
            Node("other")>> \in Seq(Instr)
       /\ <<Within("lambda_items"), Node("other")>> \in Seq(Instr)
       /\ <<>> \in Seq(Instr)
       /\ <<Advance, Parse("lambda_star")>> \in Seq(Instr)
       /\ <<Advance, Parse("lambda_name"), Parse("comma")>> \in Seq(Instr)
       /\ <<Parse("lambda_param"), Parse("more_lambda")>> \in Seq(Instr)
       /\ <<Parse("comma"), Parse("lambda_items")>> \in Seq(Instr)
       /\ <<Parse("lambda_name"), Parse("more_lambda")>> \in Seq(Instr)
       /\ <<Expect("name"), Node("other")>> \in Seq(Instr)
       /\ <<Expect("name"), Opt("=", "expr"), Node("other")>> \in Seq(Instr)
       /\ <<Advance, Parse("lambda_items")>> \in Seq(Instr)
  BY <1>10, <1>12, <1>14, <1>15, <1>17, AdvanceIs
<1>19. s \in Seq(Instr)
  BY <1>1, <1>2, <1>3, <1>4, <1>5, <1>6, <1>7, <1>8, <1>18
<1>20. i.op \in {"parse", "within"}
  BY <1>1, CallsAre DEF Joining
<1>21. Rightly(c, i, s)
  <2> USE OpsAre
        DEF Rightly, GoesOnRight, SettlesRight, MissingRight, TrailsRight,
                AdvancesRight, DedentRight, GoesOn, Calls, Yields, Yielding,
                Consumes, ConsumesAt, Consuming, Settles, Direct, NodeLike,
                Statements, Trails, Guarded, Loops, Chain, FailsAtDedent
  <2>1. ASSUME i.arg = "lambda",
              s = <<Expect("lambda"), Parse("lambda_params"), Expect(":"),
                    Parse("ternary"), Node("other")>>
        PROVE  Rightly(c, i, s)
    BY <2>1, <1>20, Tuple5
  <2>2. ASSUME i.arg = "lambda_params", c # ":",
              s = <<Within("lambda_items"), Node("other")>>
        PROVE  Rightly(c, i, s)
    BY <2>2, <1>20, Tuple2
  <2>3. ASSUME i.arg = "lambda_params", ~ (c # ":"),
              s = <<>>
        PROVE  Rightly(c, i, s)
    BY <2>3, <1>20, Tuple0
  <2>4. ASSUME i.arg = "lambda_items", c = ":",
              s = <<>>
        PROVE  Rightly(c, i, s)
    BY <2>4, <1>20, Tuple0
  <2>5. ASSUME i.arg = "lambda_items", c = "*",
              s = <<Advance, Parse("lambda_star")>>
        PROVE  Rightly(c, i, s)
    BY <2>5, <1>20, Tuple2
  <2>6. ASSUME i.arg = "lambda_items", c = "**",
              s = <<Advance, Parse("lambda_name"), Parse("comma")>>
        PROVE  Rightly(c, i, s)
    BY <2>6, <1>20, Tuple3
  <2>7. ASSUME i.arg = "lambda_items",
              s = <<Parse("lambda_param"), Parse("more_lambda")>>
        PROVE  Rightly(c, i, s)
    BY <2>7, <1>20, Tuple2
  <2>8. ASSUME i.arg = "lambda_star",
              s = <<Parse("comma"), Parse("lambda_items")>>
        PROVE  Rightly(c, i, s)
    BY <2>8, <1>20, Tuple2
  <2>9. ASSUME i.arg = "lambda_star",
              s = <<Parse("lambda_name"), Parse("more_lambda")>>
        PROVE  Rightly(c, i, s)
    BY <2>9, <1>20, Tuple2
  <2>10. ASSUME i.arg = "lambda_name",
              s = <<Expect("name"), Node("other")>>
        PROVE  Rightly(c, i, s)
    BY <2>10, <1>20, Tuple2
  <2>11. ASSUME i.arg = "lambda_param",
              s = <<Expect("name"), Opt("=", "expr"), Node("other")>>
        PROVE  Rightly(c, i, s)
    BY <2>11, <1>20, Tuple3
  <2>12. ASSUME i.arg = "more_lambda", c = Comma,
              s = <<Advance, Parse("lambda_items")>>
        PROVE  Rightly(c, i, s)
    BY <2>12, <1>20, Tuple2, SignsDiffer
  <2>13. ASSUME i.arg = "more_lambda", ~ (c = Comma),
              s = <<>>
        PROVE  Rightly(c, i, s)
    BY <2>13, <1>20, Tuple0, SignsDiffer
  <2> HIDE OpsAre
        DEF Rightly, GoesOnRight, SettlesRight, MissingRight, TrailsRight,
                AdvancesRight, DedentRight, GoesOn, Calls, Yields, Yielding,
                Consumes, ConsumesAt, Consuming, Settles, Direct, NodeLike,
                Statements, Trails, Guarded, Loops, Chain, FailsAtDedent
  <2> QED BY <1>1, <1>2, <1>3, <1>4, <1>5, <1>6, <1>7, <1>8, <2>1, <2>2, <2>3,
         <2>4, <2>5, <2>6, <2>7, <2>8, <2>9, <2>10, <2>11, <2>12, <2>13
<1> QED BY <1>19, <1>21 DEF Right

LEMMA StatementIs ==
  ASSUME NEW c \in Kinds
  PROVE  /\ Statement(c) \in
              {"decorated", "func_def", "async_stmt", "class_def", "if_stmt",
               "for_stmt", "while_stmt", "try_stmt", "with_stmt",
               "return_stmt", "raise_stmt", "assert_stmt", "import_stmt",
               "from_stmt", "global_stmt", "del_stmt", "simple_stmt",
               "expr_stmt"}
         /\ c = "dedent" => Statement(c) = "expr_stmt"
BY DEF Statement

LEMMA StatementIsRight ==
  ASSUME NEW c \in Kinds, NEW i \in Instr, i.op \in {"parse", "within", "rest"},
         i.arg = "stmt"
  PROVE  Right(c, i, <<Parse(Statement(c))>>)
<1> DEFINE f == Statement(c)
           s == <<Parse(f)>>
<1> SUFFICES Right(c, i, s)
  OBVIOUS
<1>1. f \in {"decorated", "func_def", "async_stmt", "class_def", "if_stmt",
             "for_stmt", "while_stmt", "try_stmt", "with_stmt", "return_stmt",
             "raise_stmt", "assert_stmt", "import_stmt", "from_stmt",
             "global_stmt", "del_stmt", "simple_stmt", "expr_stmt"}
  BY StatementIs
<1>2. c = "dedent" => f = "expr_stmt"
  BY StatementIs
<1> HIDE DEF f
<1>3. f \in RuleNames \ (Direct \cup Joining)
  BY <1>1 DEF RuleNames, Direct, Joining
<1>4. Parse(f) \in Instr
  BY <1>3, ParseIs
<1>5. s \in Seq(Instr)
  BY <1>4
<1>6. i.op \in {"parse", "within"}
  BY CallsAre DEF Joining
<1>7. Len(s) = 1 /\ DOMAIN s = 1 .. 1 /\ s[1] = Parse(f)
  BY Tuple1
<1> HIDE DEF s
<1>8. s[1].op = "parse" /\ s[1].arg = f
  BY <1>7, OpsAre
<1>9. f \in Guarded => c # "dedent"
  BY <1>2 DEF Guarded
<1>10. f \notin Yielding /\ f \notin Direct /\ f # "expr_or_missing"
  BY <1>1 DEF Yielding, Direct
<1>11. c = "dedent" => f \in Chain
  BY <1>2 DEF Chain
<1>12. GoesOnRight(i, s) /\ SettlesRight(c, i, s)
  BY <1>6, <1>7, <1>8, <1>10
     DEF GoesOnRight, SettlesRight, GoesOn, Yields, Yielding, Calls, Settles,
         ConsumesAt, Consumes, Consuming
<1>13. MissingRight(i, s) /\ TrailsRight(i, s)
  BY <1>6, <1>7, <1>8, <1>10
     DEF MissingRight, TrailsRight, Calls, NodeLike, Statements
<1>14. AdvancesRight(c, i, s) /\ (c = "dedent" => DedentRight(i, s))
  BY <1>6, <1>7, <1>8, <1>9, <1>11
     DEF AdvancesRight, DedentRight, Calls, FailsAtDedent, Loops, Trails, Chain
<1>15. Rightly(c, i, s)
  BY <1>12, <1>13, <1>14 DEF Rightly
<1> QED BY <1>5, <1>15 DEF Right
-------------------------------------------------------------------------------
\* The rules f are right, as far as they go.
AllRight(c, f) ==
  \A i \in Instr : i.op \in {"parse", "within", "rest"} /\ i.arg \in DOMAIN f =>
    Right(c, i, f[i.arg])

LEMMA RightTogether ==
  ASSUME NEW c, NEW f, NEW g, AllRight(c, f), AllRight(c, g)
  PROVE  AllRight(c, With(f, g))
<1> SUFFICES ASSUME NEW i \in Instr, i.op \in {"parse", "within", "rest"},
                    i.arg \in DOMAIN With(f, g)
             PROVE  Right(c, i, With(f, g)[i.arg])
  BY DEF AllRight
<1>1. i.arg \in DOMAIN f \cup DOMAIN g
  BY DEF With
<1>2. With(f, g)[i.arg] = IF i.arg \in DOMAIN f THEN f[i.arg] ELSE g[i.arg]
  BY <1>1 DEF With
<1> QED BY <1>1, <1>2 DEF AllRight

LEMMA DomainTogether ==
  ASSUME NEW f, NEW g
  PROVE  DOMAIN With(f, g) = DOMAIN f \cup DOMAIN g
BY DEF With


\* Every rule is right for every call of it.
LEMMA RulesAreRight ==
  ASSUME NEW c \in Kinds
  PROVE  AllRight(c, Rules[c])
<1>1. /\ AllRight(c, BlockRules(c)) /\ AllRight(c, FunctionRules(c))
      /\ AllRight(c, ClassRules(c)) /\ AllRight(c, BranchRules(c))
      /\ AllRight(c, TryRules(c)) /\ AllRight(c, SimpleRules(c))
      /\ AllRight(c, ImportRules(c)) /\ AllRight(c, ExprStmtRules(c))
  BY BlockRulesAreRight, FunctionRulesAreRight, ClassRulesAreRight,
     BranchRulesAreRight, TryRulesAreRight, SimpleRulesAreRight,
     ImportRulesAreRight, ExprStmtRulesAreRight DEF AllRight
<1>2. /\ AllRight(c, LogicRules(c)) /\ AllRight(c, OperatorRules(c))
      /\ AllRight(c, TrailerRules(c)) /\ AllRight(c, AtomRules(c))
      /\ AllRight(c, FStringRules(c)) /\ AllRight(c, DisplayRules(c))
      /\ AllRight(c, BraceRules(c)) /\ AllRight(c, ArgumentRules(c))
      /\ AllRight(c, LambdaRules(c))
  BY LogicRulesAreRight, OperatorRulesAreRight, TrailerRulesAreRight,
     AtomRulesAreRight, FStringRulesAreRight, DisplayRulesAreRight,
     BraceRulesAreRight, ArgumentRulesAreRight, LambdaRulesAreRight
     DEF AllRight
<1>3. AllRight(c, [stmt |-> <<Parse(Statement(c))>>])
  <2> SUFFICES ASSUME NEW i \in Instr, i.op \in {"parse", "within", "rest"},
                      i.arg = "stmt"
               PROVE  Right(c, i, [stmt |-> <<Parse(Statement(c))>>][i.arg])
    BY DEF AllRight
  <2> QED BY StatementIsRight
<1>4. AllRight(c, ExpressionRules(c))
  BY <1>2, RightTogether DEF ExpressionRules
<1>5. AllRight(c, StatementRules(c))
  BY <1>1, <1>3, RightTogether DEF StatementRules
<1> QED BY <1>4, <1>5, RightTogether DEF Rules

LEMMA RulesAreNamed ==
  ASSUME NEW c \in Kinds
  PROVE  RuleNames \subseteq DOMAIN Rules[c]
<1> DEFINE e == ExpressionRules(c)
           s == StatementRules(c)
<1>1. DOMAIN e = DOMAIN LogicRules(c) \cup DOMAIN OperatorRules(c)
        \cup DOMAIN TrailerRules(c) \cup DOMAIN AtomRules(c)
        \cup DOMAIN FStringRules(c) \cup DOMAIN DisplayRules(c)
        \cup DOMAIN BraceRules(c) \cup DOMAIN ArgumentRules(c)
        \cup DOMAIN LambdaRules(c)
  BY DEF ExpressionRules, With
<1>2. DOMAIN s = {"stmt"} \cup DOMAIN BlockRules(c)
        \cup DOMAIN FunctionRules(c) \cup DOMAIN ClassRules(c)
        \cup DOMAIN BranchRules(c) \cup DOMAIN TryRules(c)
        \cup DOMAIN SimpleRules(c) \cup DOMAIN ImportRules(c)
        \cup DOMAIN ExprStmtRules(c)
  BY DEF StatementRules, With
<1>3. DOMAIN Rules[c] = DOMAIN s \cup DOMAIN e
  BY DomainTogether DEF Rules
<1> HIDE DEF s, e
<1>4. /\ {"block", "stmts", "else_block", "decorated", "async_stmt",
          "async_rest"} \subseteq DOMAIN BlockRules(c)
      /\ {"func_def", "params", "param_items", "star_param", "more_params",
          "comma", "param"} \subseteq DOMAIN FunctionRules(c)
      /\ {"class_def", "bases", "class_arg", "class_name", "attributes"}
           \subseteq DOMAIN ClassRules(c)
      /\ {"expr_or_missing", "if_stmt", "if_inner", "if_rest", "for_stmt",
          "while_stmt"} \subseteq DOMAIN BranchRules(c)
      /\ {"try_stmt", "handlers", "finally", "except", "except_type",
          "with_stmt", "with_item"} \subseteq DOMAIN TryRules(c)
      /\ {"return_stmt", "returned", "raise_stmt", "raised", "assert_stmt",
          "simple_stmt"} \subseteq DOMAIN SimpleRules(c)
      /\ {"import_stmt", "from_stmt", "dots", "module", "imported", "alias",
          "dotted_name", "dotted_rest", "dotted_part"}
           \subseteq DOMAIN ImportRules(c)
      /\ {"global_stmt", "del_stmt", "identifier", "expr_stmt",
          "expr_stmt_rest", "targets"} \subseteq DOMAIN ExprStmtRules(c)
  BY DEF BlockRules, FunctionRules, ClassRules, BranchRules, TryRules,
         SimpleRules, ImportRules, ExprStmtRules
<1>5. /\ {"expr", "named", "named_rest", "ternary", "ternary_rest", "or_test",
          "or_rest", "and_test", "and_rest", "not_test"}
           \subseteq DOMAIN LogicRules(c)
      /\ {"comparison", "cmp_rest", "opt_not", "unary"}
           \subseteq DOMAIN OperatorRules(c)
      /\ {"postfix", "trailers"} \subseteq DOMAIN TrailerRules(c)
      /\ {"atom"} \subseteq DOMAIN AtomRules(c)
      /\ {"fstring", "fstring_parts", "fstring_value", "conversion", "opt_name",
          "format_spec"} \subseteq DOMAIN FStringRules(c)
      /\ {"paren", "paren_rest", "paren_more", "list", "list_rest",
          "list_more"} \subseteq DOMAIN DisplayRules(c)
      /\ {"braces", "braces_rest", "braces_more", "dict_more", "dict_item",
          "clauses", "clause", "ifs"} \subseteq DOMAIN BraceRules(c)
      /\ {"call_arg", "slice", "slice_rest", "slice_bounds", "upper", "step",
          "yield_expr", "yielded"} \subseteq DOMAIN ArgumentRules(c)
      /\ {"lambda", "lambda_params", "lambda_items", "lambda_star",
          "lambda_name", "lambda_param", "more_lambda"}
           \subseteq DOMAIN LambdaRules(c)
  BY DEF LogicRules, OperatorRules, TrailerRules, AtomRules, FStringRules,
         DisplayRules, BraceRules, ArgumentRules, LambdaRules
<1> QED BY <1>1, <1>2, <1>3, <1>4, <1>5 DEF RuleNames
-------------------------------------------------------------------------------
(***************************************************************************)
(* The instructions that are no calls.                                     *)
(***************************************************************************)
LEMMA ItemsAre ==
  /\ Items \subseteq RuleNames \ (Direct \cup Joining)
  /\ \A f \in Items : /\ f \notin Guarded /\ f \notin Statements
                      /\ f \notin Direct /\ f # "expr_or_missing"
  /\ "dedent" \notin Words
<1>1. Items \subseteq RuleNames \ (Direct \cup Joining)
  BY DEF Items, RuleNames, Direct, Joining
<1>2. \A f \in Items : f \notin Guarded /\ f \notin Statements
  BY DEF Items, Guarded, Statements
<1>3. \A f \in Items : f \notin Direct /\ f # "expr_or_missing"
  BY DEF Items, Direct
<1>4. "dedent" \notin Words
  BY SignsDiffer DEF Words
<1> QED BY <1>1, <1>2, <1>3, <1>4

LEMMA NothingIsRight ==
  ASSUME NEW c, NEW i \in Instr, i.op \notin {"parse", "within", "rest"},
         i.op \notin {"advance", "expect", "fail", "binop", "node", "join",
                      "spec"}
  PROVE  Right(c, i, <<>>)
<1> DEFINE s == <<>>
<1>1. s \in Seq(Instr) /\ DOMAIN s = {} /\ Len(s) = 0
  OBVIOUS
<1> HIDE DEF s
<1> SUFFICES Right(c, i, s)
  BY DEF s
<1>2. GoesOnRight(i, s) /\ SettlesRight(c, i, s)
  BY <1>1 DEF GoesOnRight, SettlesRight, Yields, Calls, ConsumesAt, Consumes
<1>3. MissingRight(i, s) /\ TrailsRight(i, s) /\ AdvancesRight(c, i, s)
  BY <1>1 DEF MissingRight, TrailsRight, AdvancesRight
<1>4. c = "dedent" => DedentRight(i, s)
  BY <1>1 DEF DedentRight, Calls, Loops, Trails
<1>5. Rightly(c, i, s)
  BY <1>2, <1>3, <1>4 DEF Rightly
<1> QED BY <1>1, <1>5 DEF Right

LEMMA OptIsRight ==
  ASSUME NEW c \in Kinds, NEW i \in Instr, i.op \in {"opt", "list", "more"},
         i.op # "list" => c # "dedent", NEW s,
         \/ s = <<Advance, Parse(i.then)>> /\ i.op # "list"
         \/ s = <<Advance, List(i.arg, i.then)>> /\ i.op # "list"
         \/ s = <<Parse(i.then), More(i.arg, i.then)>> /\ i.op = "list"
  PROVE  Right(c, i, s)
<1>1. i.then \in Items /\ i.arg \in Words
  BY DEF Instr, MayCall
<1>2. /\ Parse(i.then) \in Instr /\ List(i.arg, i.then) \in Instr
      /\ More(i.arg, i.then) \in Instr
  BY <1>1, ItemsAre, ParseIs, ListIs, MoreIs
<1>3. s \in Seq(Instr)
  <2>1. /\ <<Advance, Parse(i.then)>> \in Seq(Instr)
        /\ <<Advance, List(i.arg, i.then)>> \in Seq(Instr)
        /\ <<Parse(i.then), More(i.arg, i.then)>> \in Seq(Instr)
    BY <1>2, AdvanceIs
  <2> QED BY <2>1
<1>4. Len(s) = 2 /\ DOMAIN s = 1 .. 2
  BY Tuple2
<1>5. \/ s[1] = Advance /\ s[2] \in {Parse(i.then), List(i.arg, i.then)}
         /\ i.op # "list"
      \/ s[1] = Parse(i.then) /\ s[2] = More(i.arg, i.then) /\ i.op = "list"
  BY Tuple2
<1>6. \/ s[1].op = "advance" /\ i.op # "list"
      \/ s[1].op = "parse" /\ s[1].arg = i.then /\ i.op = "list"
  BY <1>5, OpsAre
<1>7. \/ s[2].op = "parse" /\ s[2].arg = i.then
      \/ s[2].op \in {"list", "more"}
  BY <1>5, OpsAre
<1>8. i.then \notin Direct /\ i.then \notin Guarded /\ i.then \notin Statements
      /\ i.then # "expr_or_missing"
  BY <1>1, ItemsAre
<1>9. GoesOnRight(i, s)
  BY <1>4, <1>6, <1>7 DEF GoesOnRight, GoesOn, Yields, Calls
<1>10. SettlesRight(c, i, s)
  BY <1>4, <1>6, <1>7, <1>8
     DEF SettlesRight, ConsumesAt, Consumes, Calls, Settles
<1>11. MissingRight(i, s)
  BY <1>4, <1>6, <1>7, <1>8 DEF MissingRight, Calls
<1>12. TrailsRight(i, s)
  BY <1>4, <1>6, <1>7, <1>8 DEF TrailsRight, Calls
<1>13. AdvancesRight(c, i, s)
  BY <1>4, <1>6, <1>7, <1>8 DEF AdvancesRight, Calls
<1>14. DedentRight(i, s)
  BY <1>4, <1>6, <1>7 DEF DedentRight, Calls, Loops, Trails
<1>15. Rightly(c, i, s)
  BY <1>9, <1>10, <1>11, <1>12, <1>13, <1>14 DEF Rightly
<1> QED BY <1>3, <1>15 DEF Right

LEMMA LevelIs ==
  /\ \A c : Level(c) \in Nat
  /\ Level("dedent") = 0
BY DEF Level

\* The rule of every instruction that is entered.
LEMMA ExpansionIsRight ==
  ASSUME NEW c \in Kinds, NEW i \in Instr,
         i.op \in {"parse", "within", "rest", "opt", "list", "more", "binop",
                   "restBinop", "spec", "keyword"}
  PROVE  Right(c, i, Expansion(i, c))
<1> DEFINE s == Expansion(i, c)
<1> SUFFICES Right(c, i, s)
  OBVIOUS
<1>0. i.at \in Nat /\ i.arg \in RuleNames \cup Words /\ MayCall(i.op, i.arg, i.then)
  BY DEF Instr
<1>1. CASE i.op \in {"parse", "within", "rest"}
  <2>1. s = Rules[c][i.arg]
    BY <1>1 DEF Expansion
  <2>2. i.arg \in DOMAIN Rules[c]
    <3>1. i.arg \in RuleNames
      BY <1>0, <1>1 DEF MayCall, Joining, RuleNames
    <3> QED BY <3>1, RulesAreNamed
  <2> QED BY <1>1, <2>1, <2>2, RulesAreRight DEF AllRight
<1>2. CASE i.op = "opt"
  <2>1. s = When(c = i.arg, <<Advance, Parse(i.then)>>)
    BY <1>2 DEF Expansion
  <2> HIDE DEF s
  <2>2. c = i.arg => c # "dedent"
    <3>1. i.arg \in Words
      BY <1>0, <1>2 DEF MayCall
    <3> QED BY <3>1, ItemsAre
  <2>3. CASE c = i.arg
    <3>1. s = <<Advance, Parse(i.then)>>
      BY <2>1, <2>3 DEF When
    <3> QED BY <1>2, <2>2, <2>3, <3>1, OptIsRight
  <2>4. CASE c # i.arg
    BY <1>2, <2>1, <2>4, NothingIsRight DEF When
  <2> QED BY <2>3, <2>4
<1>3. CASE i.op = "list"
  <2>1. s = When(c # i.arg, <<Parse(i.then), More(i.arg, i.then)>>)
    BY <1>3 DEF Expansion
  <2> HIDE DEF s
  <2>2. CASE c # i.arg
    BY <1>3, <2>1, <2>2, OptIsRight DEF When
  <2>3. CASE c = i.arg
    BY <1>3, <2>1, <2>3, NothingIsRight DEF When
  <2> QED BY <2>2, <2>3
<1>4. CASE i.op = "more"
  <2>1. s = When(c = Comma, <<Advance, List(i.arg, i.then)>>)
    BY <1>4 DEF Expansion
  <2> HIDE DEF s
  <2>2. CASE c = Comma
    <3>1. s = <<Advance, List(i.arg, i.then)>>
      BY <2>1, <2>2 DEF When
    <3> QED BY <1>4, <2>2, <3>1, SignsDiffer, OptIsRight
  <2>3. CASE c # Comma
    BY <1>4, <2>1, <2>3, NothingIsRight DEF When
  <2> QED BY <2>2, <2>3
<1>5. CASE i.op = "binop"
  <2>1. s = <<Parse("unary"), RestBinop(i.at)>>
    BY <1>5 DEF Expansion
  <2> HIDE DEF s
  <2>2. s \in Seq(Instr)
    <3>1. "unary" \in RuleNames \ (Direct \cup Joining)
      BY DEF RuleNames, Direct, Joining
    <3>2. Parse("unary") \in Instr /\ RestBinop(i.at) \in Instr
      BY <1>0, <3>1, ParseIs, RestBinopIs
    <3> QED BY <2>1, <3>2
  <2>3. /\ Len(s) = 2 /\ DOMAIN s = 1 .. 2
        /\ s[1].op = "parse" /\ s[1].arg = "unary" /\ s[2].op = "restBinop"
    BY <2>1, Tuple2, OpsAre
  <2>4. GoesOnRight(i, s) /\ SettlesRight(c, i, s)
    BY <1>5, <2>3
       DEF GoesOnRight, SettlesRight, GoesOn, Yields, Calls, Yielding,
           ConsumesAt, Consumes, Consuming, Settles, Direct
  <2>5. MissingRight(i, s) /\ TrailsRight(i, s) /\ AdvancesRight(c, i, s)
    BY <1>5, <2>3
       DEF MissingRight, TrailsRight, AdvancesRight, Calls, Statements, Guarded
  <2>6. DedentRight(i, s)
    BY <1>5, <2>3 DEF DedentRight, Calls, Chain, FailsAtDedent, Loops, Trails
  <2>7. Rightly(c, i, s)
    BY <2>4, <2>5, <2>6 DEF Rightly
  <2> QED BY <2>2, <2>7 DEF Right
<1>6. CASE i.op = "restBinop"
  <2> DEFINE p == IF c = "**" THEN Level(c) ELSE Level(c) + 1
  <2>1. s = When(Binds(c, i.at), <<Advance, Binop(p), Join, RestBinop(i.at)>>)
    BY <1>6 DEF Expansion, Operators
  <2>2. p \in Nat /\ (Binds(c, i.at) => c # "dedent")
    BY LevelIs DEF Binds
  <2> HIDE DEF s, p
  <2>3. CASE ~ Binds(c, i.at)
    BY <1>6, <2>1, <2>3, NothingIsRight DEF When
  <2>4. CASE Binds(c, i.at)
    <3>1. s = <<Advance, Binop(p), Join, RestBinop(i.at)>>
      BY <2>1, <2>4 DEF When
    <3>2. s \in Seq(Instr)
      <4>1. Binop(p) \in Instr /\ RestBinop(i.at) \in Instr
        BY <1>0, <2>2, BinopIs, RestBinopIs
      <4>2. <<Advance, Binop(p), Join, RestBinop(i.at)>> \in Seq(Instr)
        BY <4>1, AdvanceIs, JoinIs
      <4> QED BY <3>1, <4>2
    <3>3. /\ Len(s) = 4 /\ DOMAIN s = 1 .. 4
          /\ s[1].op = "advance" /\ s[2].op = "binop" /\ s[3].op = "join"
          /\ s[4].op = "restBinop"
      BY <3>1, Tuple4, OpsAre
    <3>4. GoesOnRight(i, s) /\ SettlesRight(c, i, s)
      BY <1>6, <3>3
         DEF GoesOnRight, SettlesRight, GoesOn, Yields, Calls, ConsumesAt,
             Consumes, Settles
    <3>5. MissingRight(i, s) /\ TrailsRight(i, s)
      BY <1>6, <3>3 DEF MissingRight, TrailsRight, Calls
    <3>6. AdvancesRight(c, i, s) /\ (c = "dedent" => DedentRight(i, s))
      BY <1>6, <2>2, <2>4, <3>3 DEF AdvancesRight, Calls
    <3>7. Rightly(c, i, s)
      BY <3>4, <3>5, <3>6 DEF Rightly
    <3> QED BY <3>2, <3>7 DEF Right
  <2> QED BY <2>3, <2>4
<1>7. CASE i.op = "spec"
  <2>1. s = FormatSpec(c, i.at)
    BY <1>7 DEF Expansion
  <2> HIDE DEF s
  <2>2. \/ s = <<>> /\ c # "dedent"
        \/ \E d \in Nat : s = <<Advance, FormatTokens(d)>>
    BY <1>0, <2>1, SignsDiffer DEF FormatSpec
  <2>3. CASE s = <<>> /\ c # "dedent"
    <3>1. s \in Seq(Instr) /\ DOMAIN s = {} /\ Len(s) = 0
      BY <2>3
    <3>2. GoesOnRight(i, s) /\ SettlesRight(c, i, s)
      BY <1>7, <3>1
         DEF GoesOnRight, SettlesRight, Yields, Calls, ConsumesAt, Consumes
    <3>3. MissingRight(i, s) /\ TrailsRight(i, s) /\ AdvancesRight(c, i, s)
      BY <3>1 DEF MissingRight, TrailsRight, AdvancesRight
    <3>4. Rightly(c, i, s)
      BY <2>3, <3>2, <3>3 DEF Rightly
    <3> QED BY <3>1, <3>4 DEF Right
  <2>4. CASE \E d \in Nat : s = <<Advance, FormatTokens(d)>>
    <3>1. PICK d \in Nat : s = <<Advance, FormatTokens(d)>>
      BY <2>4
    <3>2. s \in Seq(Instr)
      <4>1. FormatTokens(d) \in Instr
        BY FormatTokensIs
      <4>2. <<Advance, FormatTokens(d)>> \in Seq(Instr)
        BY <4>1, AdvanceIs
      <4> QED BY <3>1, <4>2
    <3>3. /\ Len(s) = 2 /\ DOMAIN s = 1 .. 2
          /\ s[1].op = "advance" /\ s[2].op = "spec"
      BY <3>1, Tuple2, OpsAre
    <3>4. GoesOnRight(i, s) /\ SettlesRight(c, i, s)
      BY <1>7, <3>3
         DEF GoesOnRight, SettlesRight, GoesOn, Yields, Calls, ConsumesAt,
             Consumes, Settles
    <3>5. MissingRight(i, s) /\ TrailsRight(i, s) /\ AdvancesRight(c, i, s)
      BY <1>7, <3>3 DEF MissingRight, TrailsRight, AdvancesRight, Calls, Loops
    <3>6. DedentRight(i, s)
      BY <1>7, <3>3 DEF DedentRight, Calls, Loops, Trails, NodeLike
    <3>7. Rightly(c, i, s)
      BY <3>4, <3>5, <3>6 DEF Rightly
    <3> QED BY <3>2, <3>7 DEF Right
  <2> QED BY <2>2, <2>3, <2>4
<1>8. CASE i.op = "keyword"
  <2>1. s = When(value.kind = "name" /\ c = "=",
                 <<Advance, Parse("expr"), Node("other")>>)
    BY <1>8 DEF Expansion
  <2> HIDE DEF s
  <2>2. CASE ~ (value.kind = "name" /\ c = "=")
    BY <1>8, <2>1, <2>2, NothingIsRight DEF When
  <2>3. CASE value.kind = "name" /\ c = "="
    <3>1. s = <<Advance, Parse("expr"), Node("other")>>
      BY <2>1, <2>3 DEF When
    <3>2. s \in Seq(Instr)
      <4>1. "expr" \in RuleNames \ (Direct \cup Joining)
        BY DEF RuleNames, Direct, Joining
      <4>2. "other" \in Words
        BY DEF Words
      <4>3. Parse("expr") \in Instr /\ Node("other") \in Instr
        BY <4>1, <4>2, ParseIs, NodeIs
      <4>4. <<Advance, Parse("expr"), Node("other")>> \in Seq(Instr)
        BY <4>3, AdvanceIs
      <4> QED BY <3>1, <4>4
    <3>3. /\ Len(s) = 3 /\ DOMAIN s = 1 .. 3
          /\ s[1].op = "advance" /\ s[2].op = "parse" /\ s[2].arg = "expr"
          /\ s[3].op = "node"
      BY <3>1, Tuple3, OpsAre
    <3>4. GoesOnRight(i, s) /\ SettlesRight(c, i, s)
      BY <1>8, <3>3
         DEF GoesOnRight, SettlesRight, GoesOn, Yields, Calls, ConsumesAt,
             Consumes, Settles, Direct
    <3>5. MissingRight(i, s) /\ TrailsRight(i, s)
      BY <1>8, <3>3 DEF MissingRight, TrailsRight, Calls, Statements
    <3>6. AdvancesRight(c, i, s) /\ (c = "dedent" => DedentRight(i, s))
      BY <1>8, <2>3, <3>3 DEF AdvancesRight, Calls, Guarded
    <3>7. Rightly(c, i, s)
      BY <3>4, <3>5, <3>6 DEF Rightly
    <3> QED BY <3>2, <3>7 DEF Right
  <2> QED BY <2>2, <2>3
<1> HIDE DEF s
<1> QED BY <1>1, <1>2, <1>3, <1>4, <1>5, <1>6, <1>7, <1>8
===============================================================================
