------------------------------- MODULE Grammar -------------------------------
(***************************************************************************)
(* What the parse functions of crates/sneklsp_parser/src/parser.rs do, as  *)
(* rules: for the kind c of the current token, the instructions a function *)
(* carries out.  A call of a function is itself an instruction, so that a  *)
(* loop is a rule that calls itself last.                                  *)
(***************************************************************************)
EXTENDS Lexer

Kinds ==
  Keyword \cup OneByte \cup Opener \cup Closer
    \cup {w[3] : w \in TwoBytes} \cup {"...", "name", "int",
          "float", "string", "fstart", "flit", "fend", "newline", "indent",
          "dedent", "comment", "eof", "error"}

(***************************************************************************)
(* Instructions.  When a rule is entered, "at" is filled in with the       *)
(* offset the node under construction starts at, and "first" with the      *)
(* number of nodes there were.                                             *)
(***************************************************************************)
Do(op, arg, f, at) ==
  [op |-> op, arg |-> arg, then |-> f, at |-> at, first |-> 0]

Parse(f)   == Do("parse", f, "", 0)    \* call f; its nodes start here
Within(f)  == Do("within", f, "", 0)   \* go on in f with the same start
Rest(f)    == Do("rest", f, "", 0)     \* f goes on from the operand just read
Opt(k, f)  == Do("opt", k, f, 0)       \* opt
List(k, f) == Do("list", k, f, 0)      \* comma_list, closed by k
More(k, f) == Do("more", k, f, 0)      \* the same after an item
Binop(p)     == Do("binop", "", "", p)
RestBinop(p) == Do("restBinop", "", "", p)
FormatTokens(depth)  == Do("spec", "", "", depth)
KeywordValue == Do("keyword", "", "", 0)
Advance    == Do("advance", "", "", 0)
Expect(k)  == Do("expect", k, "", 0)
Recover(k) == Do("recover", k, "", 0)  \* expect_recover
Close(k)   == Do("close", k, "", 0)    \* expect_close
Newline    == Do("newline", "", "", 0) \* expect_newline
Complain   == Do("complain", "", "", 0)
Fail       == Do("fail", "", "", 0)
Missing    == Do("missing", "", "", 0) \* the end of parse_expr_or_missing
Node(k)    == Do("node", k, "", 0)     \* from the start to the last token
Join       == Do("join", "", "", 0)    \* from the start to the last operand

When(b, is) == IF b THEN is ELSE <<>>

Comprehends(c) == c \in {"for", "async"}

Comma  == ","
LBrace == "{"
RBrace == "}"

\* The rules of f and those of g.
With(f, g) ==
  [r \in DOMAIN f \cup DOMAIN g |-> IF r \in DOMAIN f THEN f[r] ELSE g[r]]
-------------------------------------------------------------------------------
\* parse_block, parse_else, parse_decorated, parse_async_stmt
BlockRules(c) == [
  block |-> <<Expect("newline"), Expect("indent"), Parse("stmts")>>,
  stmts |-> CASE c = "dedent"  -> <<Advance>>
              [] c = "eof"     -> <<>>
              [] c = "newline" -> <<Advance, Parse("stmts")>>
              [] OTHER         -> <<Parse("stmt"), Parse("stmts")>>,
  else_block |-> When(c = "else", <<Advance, Recover(":"), Parse("block")>>),
  decorated |->
    CASE c = "@"     -> <<Advance, Parse("expr"), Newline, Within("decorated")>>
      [] c = "def"   -> <<Within("func_def")>>
      [] c = "async" -> <<Advance, Within("func_def")>>
      [] c = "class" -> <<Parse("class_def")>>
      [] OTHER       -> <<Fail>>,
  async_stmt |-> <<Expect("async"), Within("async_rest")>>,
  async_rest |-> CASE c = "def"  -> <<Within("func_def")>>
                   [] c = "for"  -> <<Within("for_stmt")>>
                   [] c = "with" -> <<Within("with_stmt")>>
                   [] OTHER      -> <<Fail>>]

\* parse_func_def, func_sig_and_body, parse_params, parse_param
FunctionRules(c) == [
  func_def |->
    <<Expect("def"), Expect("name"), Expect("("), Parse("params"), Close(")"),
      Opt("->", "expr"), Recover(":"), Parse("block"), Node("stmt")>>,
  params |-> When(c # ")", <<Within("param_items"), Node("other")>>),
  param_items |->
    CASE c = ")"  -> <<>>
      [] c = "/"  -> <<Advance, Parse("more_params")>>
      [] c = "*"  -> <<Advance, Parse("star_param")>>
      [] c = "**" -> <<Advance, Parse("param"), Parse("comma")>>
      [] OTHER    -> <<Parse("param"), Parse("more_params")>>,
  star_param |-> IF c \in {Comma, ")"} THEN <<Parse("more_params")>>
                 ELSE <<Parse("param"), Parse("more_params")>>,
  more_params |-> When(c = Comma, <<Advance, Parse("param_items")>>),
  comma |-> When(c = Comma, <<Advance>>),
  param |-> <<Expect("name"), Opt(":", "expr"), Opt("=", "expr"),
              Node("other")>>]

\* parse_class_def, parse_class_args
ClassRules(c) == [
  class_def |-> <<Expect("class"), Expect("name"), Parse("bases"), Recover(":"),
                  Parse("block"), Node("stmt")>>,
  bases |-> When(c = "(", <<Advance, List(")", "class_arg"), Close(")")>>),
  class_arg |-> CASE c = "**"   -> <<Advance, Parse("expr"), Node("other")>>
                  [] c = "name" -> <<Advance, Within("class_name")>>
                  [] OTHER      -> <<Parse("expr")>>,
  class_name |-> IF c = "=" THEN <<Advance, Parse("expr"), Node("other")>>
                 ELSE <<Node("other"), Within("attributes")>>,
  attributes |-> When(c = ".", <<Advance, Expect("name"), Node("other"),
                                 Within("attributes")>>)]

\* parse_if, parse_if_inner, parse_for, parse_while, parse_expr_or_missing
BranchRules(c) == [
  expr_or_missing |-> <<Parse("expr"), Missing>>,
  if_stmt  |-> <<Expect("if"), Within("if_inner")>>,
  if_inner |-> <<Parse("expr_or_missing"), Recover(":"), Parse("block"),
                 Within("if_rest"), Node("if")>>,
  if_rest  |-> IF c = "elif" THEN <<Advance, Within("if_inner")>>
               ELSE <<Parse("else_block")>>,
  for_stmt |-> <<Expect("for"), Parse("expr_or_missing"), Expect("in"),
                 Parse("expr_or_missing"), Recover(":"), Parse("block"),
                 Parse("else_block"), Node("stmt")>>,
  while_stmt |-> <<Expect("while"), Parse("expr_or_missing"), Recover(":"),
                   Parse("block"), Parse("else_block"), Node("stmt")>>]

\* parse_try, parse_except, parse_with
TryRules(c) == [
  try_stmt |-> <<Expect("try"), Recover(":"), Parse("block"), Parse("handlers"),
                 Parse("else_block"), Parse("finally"), Node("stmt")>>,
  handlers |-> When(c = "except", <<Parse("except"), Parse("handlers")>>),
  finally  |-> When(c = "finally", <<Advance, Recover(":"), Parse("block")>>),
  except   |-> <<Expect("except"), Parse("except_type"), Recover(":"),
                 Parse("block"), Node("other")>>,
  except_type |-> When(c # ":", <<Parse("expr"), Opt("as", "identifier")>>),
  with_stmt |-> <<Expect("with"), List(":", "with_item"), Recover(":"),
                  Parse("block"), Node("stmt")>>,
  with_item |-> <<Parse("expr"), Opt("as", "expr"), Node("other")>>]

\* parse_return, parse_raise, parse_assert; simple_stmt
SimpleRules(c) == [
  return_stmt |-> <<Advance, Parse("returned"), Node("stmt"), Newline>>,
  returned    |-> When(c \notin {"newline", "eof"}, <<Parse("expr")>>),
  raise_stmt  |-> <<Advance, Parse("raised"), Node("stmt"), Newline>>,
  raised      |-> When(c \notin {"newline", "eof"},
                       <<Parse("expr"), Opt("from", "expr")>>),
  assert_stmt |-> <<Advance, Parse("expr"), Opt(Comma, "expr"), Node("stmt"),
                    Newline>>,
  simple_stmt |-> <<Advance, Node("stmt"), Newline>>]

\* parse_import, parse_import_from, parse_aliases, parse_dotted_name
ImportRules(c) == [
  import_stmt |-> <<Advance, List("newline", "alias"), Node("stmt"), Newline>>,
  from_stmt   |-> <<Advance, Parse("dots"), Parse("module"), Expect("import"),
                    Parse("imported"), Node("stmt"), Newline>>,
  dots     |-> When(c = ".", <<Advance, Parse("dots")>>),
  module   |-> When(c = "name", <<Parse("dotted_name")>>),
  imported |-> IF c = "(" THEN <<Advance, List(")", "alias"), Close(")")>>
               ELSE <<List("newline", "alias")>>,
  alias    |-> <<Parse("dotted_name"), Opt("as", "identifier"), Node("other")>>,
  dotted_name |-> <<Expect("name"), Parse("dotted_rest")>>,
  dotted_rest |-> When(c = ".", <<Advance, Parse("dotted_part")>>),
  dotted_part |-> When(c = "name", <<Advance, Parse("dotted_rest")>>)]

\* parse_global_nonlocal, parse_del, parse_expr_stmt, aug_op, parse_identifier
ExprStmtRules(c) == [
  global_stmt |-> <<Advance, List("newline", "identifier"), Node("stmt"),
                    Newline>>,
  del_stmt   |-> <<Advance, List("newline", "expr"), Node("stmt"), Newline>>,
  identifier |-> <<Expect("name")>>,
  expr_stmt |-> <<Parse("expr"), Within("expr_stmt_rest")>>,
  expr_stmt_rest |->
    CASE c = ":" -> <<Advance, Parse("expr"), Opt("=", "expr"), Node("stmt"),
                      Newline>>
      [] c = "=" -> <<Within("targets")>>
      [] c \in {"+=", "-=", "*=", "/=", "%="} ->
           <<Advance, Parse("expr"), Node("stmt"), Newline>>
      [] OTHER -> <<Node("stmt"), Newline>>,
  targets |-> IF c = "=" THEN <<Advance, Parse("expr"), Within("targets")>>
              ELSE <<Node("stmt"), Newline>>]

\* parse_stmt
Statement(c) ==
  CASE c = "@" -> "decorated"    [] c = "def" -> "func_def"
    [] c = "async" -> "async_stmt" [] c = "class" -> "class_def"
    [] c = "if" -> "if_stmt"     [] c = "for" -> "for_stmt"
    [] c = "while" -> "while_stmt" [] c = "try" -> "try_stmt"
    [] c = "with" -> "with_stmt" [] c = "return" -> "return_stmt"
    [] c = "raise" -> "raise_stmt" [] c = "assert" -> "assert_stmt"
    [] c = "import" -> "import_stmt" [] c = "from" -> "from_stmt"
    [] c \in {"global", "nonlocal"} -> "global_stmt"
    [] c = "del" -> "del_stmt"
    [] c \in {"pass", "break", "continue"} -> "simple_stmt"
    [] OTHER -> "expr_stmt"
-------------------------------------------------------------------------------
\* parse_expr, parse_named, parse_ternary, parse_or, parse_and, parse_not
LogicRules(c) == [
  expr  |-> IF c = "yield" THEN <<Parse("yield_expr")>>
            ELSE <<Parse("or_test")>>,
  named |-> <<Parse("ternary"), Rest("named_rest")>>,
  named_rest   |-> When(c = ":=", <<Advance, Parse("named"), Join>>),
  ternary      |-> <<Parse("or_test"), Rest("ternary_rest")>>,
  ternary_rest |-> When(c = "if", <<Advance, Parse("or_test"), Expect("else"),
                                    Parse("ternary"), Join>>),
  or_test  |-> <<Parse("and_test"), Rest("or_rest")>>,
  or_rest  |-> When(c = "or", <<Advance, Parse("and_test"), Join,
                                Rest("or_rest")>>),
  and_test |-> <<Parse("not_test"), Rest("and_rest")>>,
  and_rest |-> When(c = "and", <<Advance, Parse("not_test"), Join,
                                 Rest("and_rest")>>),
  not_test |-> IF c = "not" THEN <<Advance, Parse("not_test"), Node("other")>>
               ELSE <<Parse("comparison")>>]

PREC_BITOR == 4

\* binop_prec: the level of a binary operator, 0 for None.
Level(c) ==
  CASE c = "|" -> 4 [] c = "^" -> 5 [] c = "&" -> 6 [] c \in {"<<", ">>"} -> 7
    [] c \in {"+", "-"} -> 8 [] c \in {"*", "/", "//", "%"} -> 9
    [] c = "**" -> 11 [] OTHER -> 0

\* Fault: only operators above the level asked for are taken.
BindsAbove(c, p) == Level(c) > p

Binds(c, p) == Level(c) # 0 /\ Level(c) >= p

\* parse_binop: operators of level p and above; ** associates to the right.
Operators(c, p) ==
  When(Binds(c, p),
       <<Advance, Binop(IF c = "**" THEN Level(c) ELSE Level(c) + 1), Join,
         RestBinop(p)>>)

\* parse_cmp, cmp_op, parse_unary, parse_await
OperatorRules(c) == [
  comparison |-> <<Binop(PREC_BITOR), Rest("cmp_rest")>>,
  cmp_rest |->
    CASE c = "is"  -> <<Advance, Parse("opt_not"), Binop(PREC_BITOR), Join>>
      [] c = "not" -> <<Advance, Expect("in"), Binop(PREC_BITOR), Join>>
      [] c \in {"==", "!=", "<", "<=", ">", ">=", "in"} ->
           <<Advance, Binop(PREC_BITOR), Join>>
      [] OTHER -> <<>>,
  opt_not |-> When(c = "not", <<Advance>>),
  unary |-> IF c \in {"await", "-", "+", "~"}
            THEN <<Advance, Parse("unary"), Node("other")>>
            ELSE <<Parse("postfix")>>]

\* parse_postfix
TrailerRules(c) == [
  postfix  |-> <<Parse("atom"), Rest("trailers")>>,
  trailers |->
    CASE c = "(" -> <<Advance, List(")", "call_arg"), Close(")"),
                      Node("other"), Rest("trailers")>>
      [] c = "." -> <<Advance, Expect("name"), Node("other"), Rest("trailers")>>
      [] c = "[" -> <<Advance, Parse("slice"), Close("]"), Node("other"),
                      Rest("trailers")>>
      [] OTHER -> <<>>]

\* parse_atom
AtomRules(c) == [
  atom |->
    CASE c = "lambda" -> <<Parse("lambda")>>
      [] c = "*"      -> <<Advance, Parse("expr"), Node("other")>>
      [] c \in {"...", "int", "float", "string", "True", "False", "None"} ->
           <<Advance, Node("other")>>
      [] c = "name"   -> <<Advance, Node("name")>>
      [] c = "fstart" -> <<Parse("fstring")>>
      [] c = "("      -> <<Parse("paren")>>
      [] c = "["      -> <<Parse("list")>>
      [] c = LBrace   -> <<Parse("braces")>>
      [] OTHER        -> <<Fail>>]

\* parse_fstring, parse_fstring_value
FStringRules(c) == [
  fstring |-> <<Advance, Parse("fstring_parts"), Node("other")>>,
  fstring_parts |->
    CASE c = "fend" -> <<Advance>>
      [] c = "flit" -> <<Advance, Parse("fstring_parts")>>
      [] c = LBrace -> <<Parse("fstring_value"), Parse("fstring_parts")>>
      [] c = "eof"  -> <<Complain>>
      [] OTHER      -> <<Complain, Advance, Parse("fstring_parts")>>,
  fstring_value |-> <<Advance, Parse("expr"), Parse("conversion"),
                      Parse("format_spec"), Close(RBrace), Node("other")>>,
  conversion  |-> When(c = "not", <<Advance, Parse("opt_name")>>),
  opt_name    |-> When(c = "name", <<Advance>>),
  format_spec |-> When(c = ":", <<Advance, FormatTokens(0)>>)]

\* The loop of parse_fstring_value over a format specification.
FormatSpec(c, depth) ==
  CASE c = "eof" \/ (c = RBrace /\ depth = 0) -> <<>>
    [] c = LBrace -> <<Advance, FormatTokens(depth + 1)>>
    [] c = RBrace /\ depth > 0 -> <<Advance, FormatTokens(depth - 1)>>
    [] OTHER -> <<Advance, FormatTokens(depth)>>

\* parse_paren, parse_list
DisplayRules(c) == [
  paren |-> <<Advance, Within("paren_rest")>>,
  paren_rest |-> CASE c = ")"     -> <<Advance, Node("other")>>
                   [] c = "yield" -> <<Parse("yield_expr"), Close(")")>>
                   [] OTHER       -> <<Parse("named"), Within("paren_more")>>,
  paren_more |->
    CASE Comprehends(c) -> <<Parse("clauses"), Close(")"), Node("other")>>
      [] c = Comma -> <<Advance, List(")", "expr"), Close(")"), Node("other")>>
      [] OTHER   -> <<Expect(")")>>,
  list |-> <<Advance, Within("list_rest")>>,
  list_rest |-> IF c = "]" THEN <<Advance, Node("other")>>
                ELSE <<Parse("named"), Within("list_more")>>,
  list_more |->
    IF Comprehends(c) THEN <<Parse("clauses"), Close("]"), Node("other")>>
    ELSE <<More("]", "named"), Close("]"), Node("other")>>]

\* parse_dict_or_set, parse_dict_unpack, parse_comp_clauses
BraceRules(c) == [
  braces |-> <<Advance, Within("braces_rest")>>,
  braces_rest |->
    CASE c = RBrace -> <<Advance, Node("other")>>
      [] c = "**" -> <<List(RBrace, "dict_item"), Close(RBrace), Node("other")>>
      [] OTHER    -> <<Parse("named"), Within("braces_more")>>,
  braces_more |->
    CASE c = ":" -> <<Advance, Parse("named"), Within("dict_more")>>
      [] Comprehends(c) -> <<Parse("clauses"), Close(RBrace), Node("other")>>
      [] OTHER -> <<More(RBrace, "named"), Close(RBrace), Node("other")>>,
  dict_more |->
    IF Comprehends(c) THEN <<Parse("clauses"), Close(RBrace), Node("other")>>
    ELSE <<More(RBrace, "dict_item"), Close(RBrace), Node("other")>>,
  dict_item |-> IF c = "**" THEN <<Advance, Parse("named")>>
                ELSE <<Parse("named"), Expect(":"), Parse("named")>>,
  clauses |-> CASE c = "async" -> <<Advance, Within("clause")>>
                [] c = "for"   -> <<Within("clause")>>
                [] OTHER       -> <<>>,
  clause |-> IF c = "for"
             THEN <<Advance, Parse("expr"), Expect("in"), Parse("or_test"),
                    Parse("ifs"), Node("other"), Parse("clauses")>>
             ELSE <<Fail>>,
  ifs |-> When(c = "if", <<Advance, Parse("or_test"), Parse("ifs")>>)]

\* parse_call_args, parse_slice, parse_yield
ArgumentRules(c) == [
  call_arg |-> IF c \in {"*", "**"}
               THEN <<Advance, Parse("expr"), Node("other")>>
               ELSE <<Parse("expr"), KeywordValue>>,
  slice |-> IF c = ":" THEN <<Within("slice_bounds")>>
            ELSE <<Parse("expr"), Within("slice_rest")>>,
  slice_rest   |-> When(c = ":", <<Within("slice_bounds")>>),
  slice_bounds |-> <<Expect(":"), Parse("upper"), Opt(":", "step"),
                     Node("other")>>,
  upper |-> When(c \notin {":", "]", Comma}, <<Parse("expr")>>),
  step  |-> When(c \notin {"]", Comma}, <<Parse("expr")>>),
  yield_expr |-> <<Expect("yield"), Within("yielded")>>,
  yielded |-> CASE c = "from" -> <<Advance, Parse("expr"), Node("other")>>
                [] c \in {"newline", ")", "]", Comma, "eof"} ->
                     <<Node("other")>>
                [] OTHER -> <<Parse("expr"), Node("other")>>]

\* parse_lambda, parse_lambda_params
LambdaRules(c) == [
  lambda |-> <<Expect("lambda"), Parse("lambda_params"), Expect(":"),
               Parse("ternary"), Node("other")>>,
  lambda_params |-> When(c # ":", <<Within("lambda_items"), Node("other")>>),
  lambda_items |->
    CASE c = ":"  -> <<>>
      [] c = "*"  -> <<Advance, Parse("lambda_star")>>
      [] c = "**" -> <<Advance, Parse("lambda_name"), Parse("comma")>>
      [] OTHER    -> <<Parse("lambda_param"), Parse("more_lambda")>>,
  lambda_star |-> IF c \in {Comma, ":"}
                  THEN <<Parse("comma"), Parse("lambda_items")>>
                  ELSE <<Parse("lambda_name"), Parse("more_lambda")>>,
  lambda_name |-> <<Expect("name"), Node("other")>>,
  lambda_param |-> <<Expect("name"), Opt("=", "expr"), Node("other")>>,
  more_lambda |-> When(c = Comma, <<Advance, Parse("lambda_items")>>)]

\* The rules of all functions, by the kind of the current token.
ExpressionRules(c) ==
  With(LogicRules(c), With(OperatorRules(c), With(TrailerRules(c),
  With(AtomRules(c), With(FStringRules(c), With(DisplayRules(c),
  With(BraceRules(c), With(ArgumentRules(c), LambdaRules(c)))))))))

StatementRules(c) ==
  With([stmt |-> <<Parse(Statement(c))>>], With(BlockRules(c),
  With(FunctionRules(c), With(ClassRules(c), With(BranchRules(c),
  With(TryRules(c), With(SimpleRules(c), With(ImportRules(c),
  ExprStmtRules(c)))))))))

Rules == [c \in Kinds |-> With(StatementRules(c), ExpressionRules(c))]
===============================================================================
