----------------------------- MODULE ScopeIndex -----------------------------
(***************************************************************************)
(* The scopes, symbols and references of a module: how the Indexer         *)
(* collects them (crates/sneklsp_index/src/indexer.rs), and how OwnedIndex *)
(* (owned.rs) and DocumentQuery (handlers/common.rs) answer from them.     *)
(*                                                                         *)
(* A text is a sequence of words, and a place in it the number of words    *)
(* before it; what the index never points at, punctuation, layout and      *)
(* keywords within expressions, is left out. Within a word only a name     *)
(* that is found there has a place. The module is chosen a statement at a  *)
(* time, as it is visited.                                                 *)
(***************************************************************************)
EXTENDS PositionalIndex, SequencesExt, FiniteSetsExt

CONSTANTS
  Names,        \* identifiers
  Within,       \* words and the names within them, in which half of the word
  Exprs,        \* the expressions statements are made of
  Targets,      \* those of them that are assigned to
  Signatures,   \* the decorators, parameters and results of functions
  Headers,      \* the decorators and bases of classes
  MaxStatements,\* bound on the statements of a module
  MaxWords      \* bound on its words

VARIABLES
  text,   \* the words of the source
  index,  \* the ModuleIndex, and the Indexer's current_scope
  blocks, \* the statements the visit is inside of
  visited,\* history: the statements so far
  query   \* what is asked: "visiting", "none", "symbol", "reference", "scope"

vars == <<text, index, blocks, visited, query, entries, offset, cursor, best, search>>

Missing == ""  \* the name of an expression the parser did not find

\* An expression is [form, names], its names in the order of the source:
\* "name"; "uses", all of whose parts are visited in that order, the last of
\* which may be missing; "choice", a conditional whose test is visited first;
\* "tuple"; "walrus"; "lambda" p = d : e; "comprehension" e for t in i if c.
Arity == [name |-> 1, choice |-> 3, walrus |-> 2, lambda |-> 3, comprehension |-> 4]
Expression ==
  {e \in [form : DOMAIN Arity \union {"uses", "tuple"}, names : Seq(Names \union {Missing})] :
     /\ e.form \in DOMAIN Arity => Len(e.names) = Arity[e.form]
     /\ \A i \in DOMAIN e.names :
          e.names[i] = Missing => e.form = "uses" /\ i = Len(e.names)}
Absent == [form |-> "uses", names |-> <<>>]
Parameters == [name : Names, annotation : Expression, default : Expression,
               keyword : BOOLEAN]
Signature == [decorators : Seq(Expression), params : Seq(Parameters),
              returns : Expression]
Header == [decorators : Seq(Expression), bases : Seq(Expression)]

\* Keywords are no names: `def' and `class' tell where the decorators end.
ASSUME ScopeIndexAssumption ==
  /\ Missing \notin Names /\ {"def", "class"} \intersect Names = {}
  /\ Exprs \subseteq Expression /\ Targets \subseteq Expression
  /\ Signatures \subseteq Signature /\ Headers \subseteq Header
  /\ MaxStatements \in Nat /\ MaxWords \in Nat

ROOT == 1      \* ScopeId::ROOT
Span(first, last) == [start |-> first, end |-> last]
\* The range of a name: words, or one half of a word.
Whole(first, last) == [start |-> first, end |-> last, half |-> 0]
Open == 0      \* the end of a statement whose body is still being visited
-------------------------------------------------------------------------------
\* ModuleIndex. Ids count from 1; 0 is None. What Scope lists as symbols and
\* children are those that name it, by id.
Symbols(ix) == DOMAIN ix.symbols
Parent(ix, s) == ix.scopes[s].parent
SymbolsOf(ix, s) == {i \in Symbols(ix) : ix.symbols[i].scope = s}

AddSymbol(ix, name, kind, range, selection) ==
  [ix EXCEPT !.symbols = Append(@, [name |-> name, kind |-> kind, range |-> range,
                                    selection |-> selection, scope |-> ix.current])]

\* add_scope, below the current scope, and with_scope, which enters it;
AddScope(ix, kind, range) ==
  [ix EXCEPT !.scopes = Append(@, [kind |-> kind, parent |-> ix.current, range |-> range]),
             !.current = Len(ix.scopes) + 1]
\* Fault: with_scope leaves to the scope around the one before,
LeaveTwice(ix) == [ix EXCEPT !.current = Parent(ix, Parent(ix, @))]
\* Fault: with_scope leaves to the module,
LeaveToRoot(ix) == [ix EXCEPT !.current = ROOT]
\* and with_scope's restoring of the scope before.
Leave(ix) == [ix EXCEPT !.current = Parent(ix, @)]

\* The first of the symbols found in a scope, or else in the ones around it.
Climb(ix, from, found) ==
  LET at[s \in DOMAIN found] ==
        IF found[s] # {} THEN Min(found[s])
        ELSE IF s = ROOT THEN 0 ELSE at[Parent(ix, s)]
  IN  at[from]

Named(ix, name, s) == {i \in SymbolsOf(ix, s) : ix.symbols[i].name = name}

\* Fault: the names of a class are seen from its methods.
ResolveThroughClasses(ix, name, from) ==
  Climb(ix, from, [s \in DOMAIN ix.scopes |-> Named(ix, name, s)])
\* ModuleIndex::resolve_name; the names of a class are seen from it alone.
ResolveName(ix, name, from) ==
  Climb(ix, from, [s \in DOMAIN ix.scopes |->
                     IF ix.scopes[s].kind = "Class" /\ s # from THEN {}
                     ELSE Named(ix, name, s)])

\* add_reference by visit_name. History: where it was resolved, and with
\* which symbols and scopes.
AddReference(ix, name, at) ==
  IF name = Missing THEN ix
  ELSE [ix EXCEPT !.references =
          Append(@, [name |-> name, range |-> Span(at, at + 1),
                     resolved |-> ResolveName(ix, name, ix.current),
                     scope |-> ix.current, seen |-> Len(ix.symbols),
                     entered |-> Len(ix.scopes)])]

\* visit_assign_target of a name: what the scope has already is assigned anew.
AssignName(ix, name, at) ==
  LET existing == ResolveName(ix, name, ix.current)
  IN  IF name = Missing \/ (existing # 0 /\ ix.symbols[existing].scope = ix.current)
      THEN ix
      ELSE AddSymbol(ix, name, "Variable", Span(at, at + 1), Whole(at, at + 1))

\* The symbol of visit_parameter, whose range starts with its name.
AddParameter(ix, name, at, end) ==
  AddSymbol(ix, name, "Parameter", Span(at, end), Whole(at, at + 1))
-------------------------------------------------------------------------------
\* Indexer: the steps a visit makes within a scope, in its order.
Ref(name, at) == [op |-> "reference", name |-> name, at |-> at]
Bind(name, at) == [op |-> "target", name |-> name, at |-> at]
Param(name, at) == [op |-> "parameter", name |-> name, at |-> at]

\* A step; a parameter is that of a lambda, with a default.
Do(ix, step) ==
  CASE step.op = "reference" -> AddReference(ix, step.name, step.at)
    [] step.op = "target" -> AssignName(ix, step.name, step.at)
    [] step.op = "parameter" -> AddParameter(ix, step.name, step.at, step.at + 2)
Visit(ix, steps) ==
  LET after[k \in 0 .. Len(steps)] ==
        IF k = 0 THEN ix ELSE Do(after[k - 1], steps[k])
  IN  after[Len(steps)]

Words(e) == IF e.names # <<>> /\ Last(e.names) = Missing THEN Front(e.names) ELSE e.names

\* visit_expr, of an expression at an offset.
VisitExpr(ix, e, at) ==
  LET n == e.names
      R(i, place) == Ref(n[i], at + place)
  IN  CASE e.form = "choice" -> Visit(ix, <<R(2, 1), R(1, 0), R(3, 2)>>)
        [] e.form = "walrus" -> Visit(ix, <<R(2, 1), Bind(n[1], at)>>)
        \* visit_parameters comes back to the default.
        [] e.form = "lambda" ->
             Leave(Visit(AddScope(ix, "Lambda", Span(at, at + 3)),
                         <<Param(n[1], at), R(2, 1), R(2, 1), R(3, 2)>>))
        [] e.form = "comprehension" ->
             Leave(Visit(AddScope(ix, "Comprehension", Span(at, at + 4)),
                         <<R(3, 2), Bind(n[2], at + 1), R(4, 3), R(1, 0)>>))
        [] OTHER -> Visit(ix, [i \in DOMAIN n |-> R(i, i - 1)])

VisitTarget(ix, e, at) ==
  IF e.form \in {"name", "tuple"}
  THEN Visit(ix, [i \in DOMAIN e.names |-> Bind(e.names[i], at + i - 1)])
  ELSE VisitExpr(ix, e, at)

\* Expressions one behind the other: their words as far as each, and
\* visit_exprs.
ExprsWords(es) ==
  LET upto[k \in 0 .. Len(es)] == IF k = 0 THEN <<>> ELSE upto[k - 1] \o Words(es[k])
  IN  upto
VisitExprs(ix, es, at) ==
  LET after[k \in 0 .. Len(es)] ==
        IF k = 0 THEN ix
        ELSE VisitExpr(after[k - 1], es[k], at + Len(ExprsWords(es)[k - 1]))
  IN  after[Len(es)]
AllWords(es) == ExprsWords(es)[Len(es)]

\* Fault: the whole of the range is taken.
WholeRange(words, name, first, last) == Whole(first, last)
\* name_range: the first place in a range whose text contains the name.
NameRange(words, name, first, last) ==
  LET Found(i, half) == <<words[i + 1], name, half>> \in Within
      holds == {i \in first .. last - 1 :
                  words[i + 1] = name \/ Found(i, 1) \/ Found(i, 2)}
      at == IF holds = {} THEN first ELSE Min(holds)
  IN  [start |-> at, end |-> at + 1,
       half |-> CASE words[at + 1] = name -> 0
                  [] words[at + 1] # name /\ Found(at, 1) -> 1
                  [] OTHER -> 2]
-------------------------------------------------------------------------------
\* visit_parameter, of a parameter [name, annotation, default, keyword], which
\* is keyword if it follows a star.
ParamWords(p) == <<p.name>> \o Words(p.annotation) \o Words(p.default)
VisitParameter(ix, p, at) ==
  LET end   == at + Len(ParamWords(p))
      typed == VisitExpr(AddParameter(ix, p.name, at, end), p.annotation, at + 1)
  IN  IF p.keyword THEN typed
      ELSE VisitExpr(typed, p.default, end - Len(Words(p.default)))

\* The words of the parameters as far as each.
ParamsWords(params) ==
  LET upto[k \in 0 .. Len(params)] ==
        IF k = 0 THEN <<>> ELSE upto[k - 1] \o ParamWords(params[k])
  IN  upto

\* visit_parameters comes back to the default of a positional parameter after
\* all parameters, and to that of a keyword-only one only then.
VisitParameters(ix, params, at) ==
  LET n == Len(params)
      End(k) == at + Len(ParamsWords(params)[k])
      Again(jx, k) == VisitExpr(jx, params[k].default, End(k) - Len(Words(params[k].default)))
      after[k \in 0 .. 2 * n] ==
        IF k = 0 THEN ix
        ELSE IF k <= n THEN VisitParameter(after[k - 1], params[k], End(k - 1))
        ELSE Again(after[k - 1], k - n)
  IN  after[2 * n]
-------------------------------------------------------------------------------
Init ==
  /\ text = <<>> /\ blocks = <<>> /\ visited = 0 /\ query = "visiting"
  /\ index = [scopes |-> <<[kind |-> "Module", parent |-> 0, range |-> Span(0, Open)]>>,
              symbols |-> <<>>, references |-> <<>>, current |-> ROOT]
  /\ SearchInit

Here == Len(text)

\* visit_stmt of a statement of these words, and of what it visits before its
\* body; history: the body has no statement yet.
Statement(words) ==
  /\ query = "visiting" /\ visited < MaxStatements /\ Here + Len(words) <= MaxWords
  /\ visited' = visited + 1
  /\ text' = text \o words
  /\ UNCHANGED <<query, searchVars>>

\* Not the last statement of a body that has to have one.
Filled == IF blocks = <<>> THEN blocks
          ELSE [blocks EXCEPT ![Len(blocks)].empty = FALSE]
Block(kind, symbol, scope) ==
  [kind |-> kind, symbol |-> symbol, scope |-> scope, empty |-> TRUE]

\* A statement without a body.
Simple(words, ix) == Statement(words) /\ index' = ix /\ blocks' = Filled
\* One whose body belongs to the scope around.
Plain(kind, words, ix) == /\ Statement(words) /\ index' = ix
                          /\ blocks' = Append(Filled, Block(kind, 0, 0))

VisitAssign ==
  \E t \in Targets, e \in Exprs :
    Simple(Words(t) \o Words(e),
           VisitTarget(VisitExpr(index, e, Here + Len(Words(t))), t, Here))

VisitAnnAssign ==
  \E t \in Targets, annotation \in Names, e \in Exprs :
    LET at == Here + Len(Words(t))
        value == VisitExpr(AddReference(index, annotation, at), e, at + 1)
    IN  Simple(Words(t) \o <<annotation>> \o Words(e), VisitTarget(value, t, Here))

VisitAugAssign ==
  \E t \in Targets, e \in Exprs :
    Simple(Words(t) \o Words(e),
           VisitExpr(VisitExpr(index, t, Here), e, Here + Len(Words(t))))

\* visit_return, visit_raise, visit_assert, visit_delete, visit_expr_stmt.
VisitUse == \E e \in Exprs : Simple(Words(e), VisitExpr(index, e, Here))

\* visit_global, visit_nonlocal; pass, break and continue.
VisitInert == Simple(<<"pass">>, index)

\* add_import_symbol, of `os' or of `os as name'.
VisitImport ==
  \E name \in Names, kind \in {"Import", "ImportedSymbol"},
     alias \in {<<>>, <<"os", "as">>} :
    LET words == <<"import">> \o alias \o <<name>>
        range == Span(Here + 1, Here + Len(words))
    IN  /\ Statement(words)
        /\ index' = AddSymbol(index, name, kind, range,
                              NameRange(text', name, range.start, range.end))
        /\ blocks' = Filled

\* visit_function_common. The decorators are part of the function's range.
VisitFunction ==
  \E name \in Names, sig \in Signatures :
    LET head == AllWords(sig.decorators) \o <<"def", name>>
        params == ParamsWords(sig.params)[Len(sig.params)]
        words == head \o params \o Words(sig.returns)
        decorated == VisitExprs(index, sig.decorators, Here)
        kind == IF index.scopes[index.current].kind = "Class" THEN "Method" ELSE "Function"
        range == Span(Here, Open)
        named == AddSymbol(decorated, name, kind, range,
                           NameRange(text', name, Here, Len(text')))
    IN  /\ Statement(words)
        /\ index' = VisitExpr(VisitParameters(AddScope(named, "Function", range),
                                              sig.params, Here + Len(head)),
                              sig.returns, Here + Len(head) + Len(params))
        /\ blocks' = Append(Filled, Block("def", Len(named.symbols), index'.current))

\* visit_class_def; bases and keywords are visited before its scope is entered.
VisitClass ==
  \E name \in Names, header \in Headers :
    LET head == AllWords(header.decorators) \o <<"class", name>>
        decorated == VisitExprs(index, header.decorators, Here)
        range == Span(Here, Open)
        named == AddSymbol(decorated, name, "Class", range,
                           NameRange(text', name, Here, Len(text')))
    IN  /\ Statement(head \o AllWords(header.bases))
        /\ index' = AddScope(VisitExprs(named, header.bases, Here + Len(head)), "Class", range)
        /\ blocks' = Append(Filled, Block("class", Len(named.symbols), index'.current))

\* visit_if, visit_while.
VisitBranch == \E e \in Exprs : Plain("branch", <<"if">> \o Words(e), VisitExpr(index, e, Here + 1))

\* visit_for_common.
VisitFor ==
  \E t \in Targets, e \in Exprs :
    Plain("for", <<"for">> \o Words(t) \o Words(e),
          VisitTarget(VisitExpr(index, e, Here + 1 + Len(Words(t))), t, Here + 1))

\* visit_with_common.
VisitWith ==
  \E t \in Targets, e \in Exprs :
    Plain("with", <<"with">> \o Words(e) \o Words(t),
          VisitTarget(VisitExpr(index, e, Here + 1), t, Here + 1 + Len(Words(e))))

\* visit_try, as far as its first handler,
VisitTry == Plain("try", <<"try">>, index)

InBody(kinds) == blocks # <<>> /\ Last(blocks).kind \in kinds /\ ~ Last(blocks).empty

\* The ends of what the innermost statement with a body has made.
EndSymbol(symbol) == [symbol EXCEPT !.range.end = Here,
                                    !.selection.end = IF @ = Open THEN Here ELSE @]
EndScope(scope) == [scope EXCEPT !.range.end = Here]
Ended(ix, block) ==
  [ix EXCEPT
     !.symbols = [i \in DOMAIN @ |-> IF i = block.symbol THEN EndSymbol(@[i]) ELSE @[i]],
     !.scopes = [s \in DOMAIN @ |-> IF s = block.scope THEN EndScope(@[s]) ELSE @[s]]]

\* and a handler: its name's selection is the whole of the handler.
VisitHandler ==
  /\ InBody({"try", "except"})
  /\ \E type \in Names, name \in Names \union {Missing} :
       LET before == AddReference(Ended(index, Last(blocks)), type, Here + 1)
           named == AddSymbol(before, name, "Variable", Span(Here, Open), Whole(Here, Open))
       IN  /\ Statement(<<"except", type>> \o IF name = Missing THEN <<>> ELSE <<name>>)
           /\ index' = IF name = Missing THEN before ELSE named
           /\ blocks' = Append(Front(blocks),
                               Block("except", IF name = Missing THEN 0
                                               ELSE Len(named.symbols), 0))

\* A body ends, and with that of a function or class the closure of with_scope.
EndBody ==
  /\ query = "visiting" /\ InBody({"def", "class", "branch", "for", "with", "except"})
  /\ index' = IF Last(blocks).scope = 0 THEN Ended(index, Last(blocks))
              ELSE Leave(Ended(index, Last(blocks)))
  /\ blocks' = Front(blocks)
  /\ UNCHANGED <<text, visited, query, searchVars>>

\* Indexer::index returns, and OwnedIndex::new copies what it has collected.
FinishModule ==
  /\ query = "visiting" /\ blocks = <<>> /\ text # <<>>
  /\ index' = Ended(index, Block("module", 0, ROOT))
  /\ query' = "none"
  /\ UNCHANGED <<text, blocks, visited, searchVars>>
-------------------------------------------------------------------------------
\* OwnedIndex reads a symbol's name from the source, as many bytes as it has
\* from the start of its selection; after `except' these are others.
OtherName == "exc"
SymbolName(i) ==
  IF text[index.symbols[i].selection.start + 1] = "except" THEN OtherName
  ELSE index.symbols[i].name

\* OwnedIndex::resolve_name.
OwnedResolveName(name, from) ==
  Climb(index, from, [s \in DOMAIN index.scopes |->
                        {i \in SymbolsOf(index, s) :
                           /\ SymbolName(i) = name
                           /\ ~ (index.scopes[s].kind = "Class" /\ s # from)}])

\* PositionalIndex::build; entries with the same start in either order.
Sorted(table, turned) ==
  LET Before(i, j) == \/ table[i].start < table[j].start
                      \/ table[i].start = table[j].start /\ IF turned THEN i > j ELSE i < j
      Place(i) == Cardinality({j \in DOMAIN table : Before(j, i)}) + 1
      Entered(i) == [start |-> table[i].start, end |-> table[i].end, index |-> i]
  IN  [k \in DOMAIN table |-> Entered(CHOOSE i \in DOMAIN table : Place(i) = k)]
\* What the tables hold are offsets, two to a word.
Exact(range, half) == Span(2 * range.start + (IF half = 2 THEN 1 ELSE 0),
                           2 * range.end - (IF half = 1 THEN 1 ELSE 0))
Selections == [i \in Symbols(index) |-> LET range == index.symbols[i].selection
                                        IN  Exact(range, range.half)]
References == [i \in DOMAIN index.references |-> Exact(index.references[i].range, 0)]
Scopes == [s \in DOMAIN index.scopes |-> Exact(index.scopes[s].range, 0)]

Lookup(kind, table, o) == /\ \E turned \in BOOLEAN : Begin(Sorted(table, turned), o)
                          /\ query' = kind
                          /\ UNCHANGED <<text, index, blocks, visited>>

\* DocumentQuery::find_symbol_at looks for a symbol, OwnedIndex::scope_at for
\* a scope;
Ask == /\ query = "none"
       /\ \E o \in 0 .. 2 * Here - 1 : Lookup("symbol", Selections, o) \/ Lookup("scope", Scopes, o)
\* where find_symbol_at finds none, it looks for a reference.
AskReference == /\ query = "symbol" /\ search = "done" /\ best = None
                /\ Lookup("reference", References, offset)

ScanTable == Scan /\ UNCHANGED <<text, index, blocks, visited, query>>

\* What find_symbol_at returns, when it does.
FoundSymbol == IF query = "symbol" THEN Answer
               ELSE IF best = None THEN 0 ELSE index.references[Answer].resolved
SymbolIsFound == search = "done" /\ (query = "reference" \/ (query = "symbol" /\ best # None))

VisitStmt == \/ VisitUse \/ VisitAssign \/ VisitAnnAssign \/ VisitAugAssign \/ VisitInert
             \/ VisitImport \/ VisitFunction \/ VisitClass \/ VisitBranch \/ VisitFor
             \/ VisitWith \/ VisitTry \/ VisitHandler

Next == VisitStmt \/ EndBody \/ FinishModule \/ Ask \/ AskReference \/ ScanTable

Spec == Init /\ [][Next]_vars
-------------------------------------------------------------------------------
\* The index is complete; the lookups that follow leave it as it is.
Indexed == query = "none"
Inside(inner, outer) == outer.start <= inner.start /\ inner.end <= outer.end

(***************************************************************************)
(* Ids name what exists, and a scope's parent was there before it, so that *)
(* resolve_name, which follows parents without a bound, ends.              *)
(***************************************************************************)
TypeOK ==
  /\ index.current \in DOMAIN index.scopes
  /\ \A s \in DOMAIN index.scopes : Parent(index, s) < s /\ (Parent(index, s) = 0 <=> s = ROOT)
  /\ \A i \in Symbols(index) : index.symbols[i].scope \in DOMAIN index.scopes
  /\ \A r \in DOMAIN index.references :
       index.references[r].resolved \in Symbols(index) \union {0}
  /\ cursor \in 0 .. Len(entries) /\ search \in {"idle", "scanning", "done"}

(***************************************************************************)
(* What the Indexer resolved while it was still collecting stands: asked   *)
(* again from the same scope of the finished index, OwnedIndex, which has  *)
(* a resolve_name of its own, answers alike, unless a symbol was collected *)
(* later, or one of the two answers is a symbol whose name it misreads     *)
(* (see NamesSurvive).                                                     *)
(***************************************************************************)
ResolutionStands ==
  Indexed =>
    \A r \in DOMAIN index.references :
      LET ref == index.references[r]
          again == OwnedResolveName(ref.name, ref.scope)
      IN  \/ again = ref.resolved
          \/ again > ref.seen
          \/ \E i \in {again, ref.resolved} \ {0} : SymbolName(i) # index.symbols[i].name

Below(s) == {t \in DOMAIN index.scopes : Parent(index, t) = s}

IsExpression(s) == index.scopes[s].kind \in {"Lambda", "Comprehension"}
IsDefinition(s) == index.scopes[s].kind \in {"Function", "Class"}

(***************************************************************************)
(* The scopes are a tree of ranges: each is within its parent, two of one  *)
(* parent are apart, but for the one scope a default has for each of its   *)
(* visits, and those in the decorators and bases, which were there before  *)
(* the scope of the function or class around them. What was collected in a *)
(* scope lies in it, and in none below it, so that scope_at leads back to  *)
(* the scope it was resolved in, but in the decorators and bases again,    *)
(* which are visited before that scope is entered.                         *)
(***************************************************************************)
ScopesNest ==
  Indexed =>
    /\ \A s \in DOMAIN index.scopes :
         /\ s # ROOT => Inside(Scopes[s], Scopes[Parent(index, s)])
         /\ \A t, u \in Below(s) : t < u =>
              \/ Scopes[t].end <= Scopes[u].start \/ Scopes[u].end <= Scopes[t].start
              \/ IsExpression(t) /\ IsExpression(u) /\ Scopes[t] = Scopes[u]
              \/ IsExpression(t) /\ IsDefinition(u) /\ Inside(Scopes[t], Scopes[u])
    /\ \A i \in Symbols(index) : Inside(Selections[i], Scopes[index.symbols[i].scope])
    /\ \A r \in DOMAIN index.references :
         LET ref == index.references[r]
         IN  /\ Inside(References[r], Scopes[ref.scope])
             /\ \A t \in Below(ref.scope) :
                  Inside(References[r], Scopes[t]) => IsDefinition(t) /\ ref.entered < t

\* The name of a function or class is found in its decorators.
InDecorators(symbol) ==
  /\ symbol.kind \in {"Function", "Method", "Class"}
  /\ \A w \in symbol.range.start .. symbol.selection.start :
       text[w + 1] \notin {"def", "class"}

(***************************************************************************)
(* Asked at a use, find_symbol_at returns what the use was resolved to,    *)
(* though it looks among the symbols' names first: only a handler's name,  *)
(* whose selection is the whole handler, and that of a decorated function  *)
(* or class, which name_range may find in the decorators, are in the way.  *)
(***************************************************************************)
UseFindsItsSymbol ==
  SymbolIsFound =>
    LET uses == {r \in DOMAIN index.references :
                   References[r].start <= offset /\ offset < References[r].end}
    IN  \/ uses = {}
        \/ \E r \in uses : FoundSymbol = index.references[r].resolved
        \/ /\ FoundSymbol # 0
           /\ LET found == index.symbols[FoundSymbol]
              IN  text[found.selection.start + 1] = "except" \/ InDecorators(found)

(***************************************************************************)
(* The names OwnedIndex reads from the source are those the Indexer saw    *)
(* (test roundtrip_symbol_names). The name of a handler is not.            *)
(***************************************************************************)
NamesSurvive ==
  Indexed => \A i \in Symbols(index) : SymbolName(i) = index.symbols[i].name
===============================================================================
