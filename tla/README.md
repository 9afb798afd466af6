# sneklsp: a verification project

TLA+ models of the language server in this repository (`crates/`), the TLC
runs that check them on small instances, and theorems proved with TLAPS. The
models follow the code at the lines that `PROJECT.json` ("map") gives for
every definition. Paths below are relative to `crates/`.

## The system

One process, started by the editor, speaks LSP over stdio. Its main thread
(`Server::run`) waits with `select!` for a client message or for a 50 ms
ticker, and runs the handler to the end. A second kind of thread, one per
workspace folder, reads files at start-up and sends them over a bounded
channel.

| Component | State | Operations | Talks to |
|---|---|---|---|
| Main loop `sneklsp_server/src/server.rs` | open documents, receiver of the loader | notifications, requests, the tick | everything below |
| Debouncer `debouncer.rs` | one version and time per URI | `schedule`, `cancel`, `take_ready` | called by handlers and the tick |
| Document `document.rs` | content, line index, tokens and dirty mark, last edit range, index, version | `apply_changes`, `set_tokens`, `set_index_from_analysis` | lexer, text positions |
| AnalysisHost, salsa `analysis.rs`, `sneklsp_db` | file contents, queued modules, module entries, memos | `set_file_content`, `queue_module`, `flush_modules`, queries | parser, index |
| Vfs `sneklsp_vfs` | interned paths, overlays | `intern_path`, `set_overlay`, `remove_overlay`, `read` | disk |
| Workspace `sneklsp_workspace` | module names of files and back, roots | `add_root`, `resolve_module`, `resolve_module_name` | Vfs, discovery |
| Loading threads `server.rs:148` | files still to read | read, send | bounded channel to the main loop |
| Lexer, relex `sneklsp_lexer` | position, indentation stack, brackets, f-string stack, pending tokens | `next_token`, `relex` | pure; the parser lowers its `bracket_depth` |
| Parser `sneklsp_parser` | current and previous token, mode, errors, arena of nodes | `parse_module`, a function per construct, `synchronize` | lexer, a token at a time |
| Index `sneklsp_index` | scopes, symbols, references; sorted tables of `OwnedIndex` | `Indexer::index`, `resolve_name`, lookups by position | called by salsa and the handlers |
| Handlers `handlers/` | none | requests | documents, AnalysisHost, Workspace |
| Diagnostics, semantic tokens | none | build LSP lists | index, exports of all files |

What makes each correct:

- main loop, debouncer: no edit is lost or analysed twice out of date, a
  published list is complete and of the text the document has, nothing shows
  for a closed document, every version is diagnosed in the end;
- document: the editor's buffer, with line index, tokens and index of one text;
- database: an index, its names and the errors beside it are of one text; an
  open document's content is its own;
- loading: every readable file arrives, no thread blocks, loading ends, a
  module name means one file;
- lexer: every byte in one token, tokens in order, balanced indentation, an end
  to every call, relex equal to tokenize;
- parser: progress on any input, an error spoils no more than its statement,
  ranges nest, programs are accepted;
- index: scopes nest, lookups by position give the innermost range, and what
  the editor is told at a use is what the use was resolved to.

What is hard: a tick runs between any two messages and interleaves with the
loading threads; documents close and reopen while work is pending; text
lives in five places (document, overlay, database, memo, disk) that are
updated by different events; salsa keeps old results that compare equal.
The text pipeline (lexer, parser, indexer) is sequential, and hard for another
reason: its parts share state that must stay in step over any input, well
formed or not. Parser and lexer share a bracket count, the lexer a stack for
two kinds of waiting tokens; the indexer resolves names before all of them are
known; and the tables that answer an editor are searched with a short cut.
`PROJECT.json` ("hazards") lists these at their lines.

## The modules

| Module | Models | State and actions |
|---|---|---|
| `Debouncer` | `debouncer.rs` | operators on a map from URIs to work; time in ticks |
| `SnekServer` | the main loop with documents, debouncer, overlays, database, memos, loader, client's view | one action per notification handler; the tick in steps |
| `DiagnosticsService` | nothing in the code: what an editor is promised | `Edit`, `Close`, `Publish` |
| `WorkspaceLoader` | start-up over several roots, threads, channel, drain, module tables | each call on the channel is a step |
| `LineIndex` | `line_index.rs` | operators |
| `DocumentEdits` | `document.rs` with real texts | `OnDidChange` of one or two changes, `Analyse` |
| `Lexer` | `lexer.rs`, `token.rs` | `NextToken(text, lexer)` returns a token and the lexer's next state |
| `Relexing` | `Lexer::next`, `incremental.rs` | `ReadToken` is one call, `Recurse` one that never returns, `Edit` is `relex` |
| `Grammar` | the parse functions of `parser.rs` | a rule per function and kind of the current token: a sequence of instructions |
| `Parser` | the parser's state, `parse_module`, `synchronize`, the error paths | `Read` a token, and one action per instruction |
| `PositionalIndex` | `PositionalIndex::find_innermost` of `owned.rs` | one step per turn of its loop |
| `ScopeIndex` | `indexer.rs`, `OwnedIndex`, `DocumentQuery::find_symbol_at` | one action per kind of statement visited; then lookups |
| `SemanticTokens` | `semantic_tokens.rs`, `handlers/tokens.rs` | operators: the tokens of a finished index, their order, encoding and decoding |
| `SnekServerProofs`, `WorkspaceLoaderProofs`, `DocumentEditsProofs`, `LexerProofs`, `RelexingProofs`, `GrammarProofs`, `ParserProofs`, `ScopeIndexProofs` | theorems about these | |
| `MC...` | instances for TLC | |

`SnekServer` uses `Debouncer` through INSTANCE, and implements
`DiagnosticsService`. It looks at the same code as the two other state
machines from further away: for it a change turns one text into another
(`DocumentEdits` says how), and the loader delivers files through a channel
that has room (`WorkspaceLoader` checks that it has).

`Relexing`, `Grammar` and `Parser` extend `Lexer`: the parser is modelled with
the lexer it drives, not with a list of tokens. `ScopeIndex` extends
`PositionalIndex` and searches its own tables with it, and `SemanticTokens`
extends `ScopeIndex`, whose run evaluates it on every finished index. Parser
and indexer are not composed: the indexer's model visits statements chosen one
at a time.

In every module a definition whose comment begins with "Fault" is a wrong
version of the definition after it. Replacing the one by the other makes a
property fail ("mutants" in `PROJECT.json` says which), which shows that the
property can tell the code from a broken version of it.

### Choices in SnekServer

A handler is one step, because it runs to completion on the one thread that
owns its state. A tick is several steps, because the loading threads and
other programs go on meanwhile; `pc` says where the main thread is, and
notifications are handled at `"select"` only. The 50 ms delay equals the
ticker's period. So an entry of the debouncer may be ready at the first tick
after it was scheduled, and must be at the second (`waited`).

Texts are opaque. `ParseClass` groups those with equal parse results:
`OwnedIndex` compares by a hash of positions and kinds without the names, so
`file_parsed_full` is backdated when a rename of equal length is all that
changed, and `file_index` keeps its old value. `memo` is the text that value
was computed from. A text in `Broken` yields no index. `published` remembers
what a list of diagnostics was computed from: the text for the errors, the
text of the index for the semantic ones, and whether it is complete.
`EditRange` is what `can_update_incrementally` would say of the last edit.
Files a drain receives are written at once, and not queued until the flush at
its end: nothing on the main thread looks at the database in between.

### Choices in the text pipeline

A text is a sequence of characters, of which only those are told apart that
the lexer tells apart. Keywords and pieces of names are one character each, and
two of them next to each other make one name. A loop of the lexer is a function
from offsets to offsets (`PassString`, `PassLine`, ...), one turn of it, and
`Follow` goes round until it stays. `tokenize` and the binary search of `relex`
are recursive functions of the number of calls and of halvings. `NeverReturns`
marks the one place where the code's functions call each other without end.
`InOrder` says that a token ends before the next begins, unless the two are
dedents of one line, which all lie on its indentation.

A parse function becomes a rule, and the call stack the variable `stack`: an
instruction calls another rule, takes a token, or allocates a node from where
the rule began. A loop is a rule that calls itself last. `Result` is modelled
by what `?` does: an error drops the stack down to the nearest
`parse_expr_or_missing`, or to `parse_module`. `Modes` are `parse`, which
returns the first error, and `parse_recovering`. Nodes keep kind and range.

In `ScopeIndex` a place in a text counts words, and words the index never
points at are left out. `name_range` searches the text of a definition for a
name and so may find it inside another word, as the `a` in `class`: `Within`
says in which half of which words a name is found, and the tables that are
looked up hold offsets two to a word (`Exact`). An expression is a form, which
fixes the order in which the indexer visits its parts, and the names in it, so
that expressions are not nested in each other; only the last part of a `"uses"`
can be missing, as after an error. Decorators, annotations, defaults, results
and bases are any expressions, with the scopes that lambdas and comprehensions
add; a default is visited twice, as the code does. `def` and `class` are no
names (`ScopeIndexAssumption`). The loops over parts, expressions and parameters
are functions of the number of turns. Comprehensions and `for`
statements reach the indexer as trees, though the parser at present yields
none (see `accepts` below). `blocks` holds the statements whose bodies are
being visited. `OwnedIndex` reads a name from the source text, and so does the
model. The sort of its tables is unstable: entries with one start are taken in
both orders (`Sorted` gives an entry the place that its rank is), and so are
semantic tokens at one place. Those need lines: every
keyword that begins a statement begins one, which puts simple statements behind
each other on the line of a keyword.

## The runs

| Run | Bounds | Shows |
|---|---|---|
| `server` | one URI and file, three texts (two of one parse class, one broken), versions 1 and 2 | types, the safety of what is published, the implementation of the service, and that every version is published in the end |
| `server_shared` | two URIs for one path, two texts, two versions | no order of opening, changing and closing leaves an overlay behind that a later file event would read |
| `loader` | two roots, one inside the other, of three and two files; names are those relative to a root; one text | threads never block, loading ends and ends only when everything was taken, files are lost in two ways only, and in which cases both module tables agree |
| `edits` | buffers up to 3 characters over a visible one, one that binds lines to each other, and a newline; one or two changes; `MinIncremental` 2 instead of 1000, edits large above a half instead of a quarter | the document is the buffer after single changes; line index and index are of its content, and tokens where relexing agrees |
| `lexer` | all texts of up to 5 characters over five that make lines and comments, of up to 4 that make brackets, strings and f-strings, and longer ones; edits of up to one character; `MinIncremental` 4 instead of 1000 | every byte is in one token, in order but for comments; blocks balance; every text is read unless a newline breaks an f-string; where relexing is tokenizing |
| `parser` | a sample of every construct, and each with a word dropped or replaced, before one good line; both modes; errors counted up to 3 | progress, containment of errors, nesting of ranges, acceptance |
| `index` | two names, one of them found within `class`, `as` and the other, up to 4 statements and 6 words, every form of expression, signature and header, with lambdas as default, decorator and base | scopes, resolution, the search, and what an editor finds and shows at a use |
| `names`, `peek`, `batch`, `accepts`, `index_names` | as above | disagreements between code and comments or tests, below |

The bounds are small, but each has what the hazards need: a version can come
back after a close; an index can be kept wrongly, rightly, or be missing; one
URI is enough because documents share nothing but a path, which `server_shared`
gives them: what can then go wrong is what one document's close leaves behind
for the other; a root whose receiver is replaced needs two roots, an overtaken
module name two files, and a file of several names two roots that are nested;
two changes are the fewest that meet a stale line index, and three characters
hold two lines with text on both. Five characters are a line with a block and
its end, an f-string with a hole and a nested quote, or two lines of which an
edit joins or splits one. One word wrong in a construct is an error at each of
its places, twice with what follows from it; the good line behind it tells
whether recovery took too much. Four statements hold a use between two scopes
of one name, a class around a function, or a handler with a body; six words a
default that is a lambda. `MaxVersion`, `MaxLength`, `MaxBatch`, `MaxDeleted`,
`MaxErrors`, `MaxStatements` and `MaxWords` are the only bounds on counters.
`MinIncremental` and `Part` are constants of the code, given small values so
that relexing in part happens within these lengths. Deadlock is checked except
for `lexer`, `parser`, `accepts`, `index` and `index_names`: a text comes to
its end, a parse too, and a module whose last statement is broken off by
`MaxWords` is not gone on with.

### Fairness

`SnekServer`: weak fairness of the tick's steps, since crossbeam's ticker
holds a tick until it is received and `select!` chooses at random among ready
channels, so that a flood of messages cannot keep the tick out for ever; and
of the loading thread, which the operating system schedules. Nothing is
assumed of the client or the disk. `WorkspaceLoader`: the same, where the
tick's first step needs strong fairness, because the steps of a file event
disable it for a moment. `Parser`: weak fairness of its steps, because one
thread runs it, and of reading at the end of the text, where the lexer returns
Eof again and again. Nothing is assumed of the lexer elsewhere: `MovesOn` says
that the parser always comes back to ask for a token it has not seen, or ends.

### What the violations show

Each is a finding in `PROJECT.json`, with its lines.

- `names`: after a rename that keeps positions, a document holds the index of
  its earlier text, so that hover, completion and references show old names.
- `peek`: the `try_recv` that "peeks" for the end of loading drops the file it
  receives.
- `batch`: two changes in one notification, where the first shifts a line of
  the second, leave the document different from the editor's buffer.
- `accepts`: the parser accepts no `for` statement and no comprehension: the
  target is parsed as an expression, which takes the `in` for an operator.
- `index_names`: the symbol of `except T as name` has the whole handler for its
  name, so that `OwnedIndex` reads letters of `except` as its name.

Other weaknesses contradict no statement of the repository, and are built into
properties that hold: with several folders only the last one's files are loaded
in full (`ReadIsAccountedFor` names the lost ones); a file in two nested
folders has a name from each, of which `module_map` resolves both, but the
module graph only the one from the folder added last, and a nested folder's
`__init__.py`, which has no name there, keeps the one from outside
(`ResolutionAgrees`); and a loader's message may overwrite the content of a
document opened meanwhile (`OpenContentIsOwned` begins when the file has been
delivered). Scoped diagnostics for local edits never happen: the index they
need was thrown away by the edit itself; the list published is complete, and
the client would lose the rest of it if they did. Text deleted and typed again
within one tick has no tokens after its analysis.

The text pipeline has more of them, each an exception that a property names:

- a newline in a single-quoted f-string makes the lexer's functions call each
  other without end (`EveryTextIsRead`, `FStringsClose`);
- comments are returned behind the token that follows them (`InOrder`), which
  breaks the binary search of `relex`: it may slice backwards and panic
  (`RegionIsSlice`);
- relexing differs from tokenizing in blocks, brackets and triple quotes
  (`RelexAgrees` is about texts that can be read line by line), and what it
  leaves in a document stays until tokens are made of the whole text
  (`TokensAreOfContent`);
- behind two blocks that end together, the module loop passes the first word of
  the next statement (`LastLineSurvives`);
- the node of an `elif` starts at the first `if`, so that its range holds the
  conditions and blocks before it (`RangesNest` counts them as inside it);
- a default value is visited twice, so that a lambda in it has two scopes of one
  range, and lambdas in decorators and bases have scopes inside that of the
  function or class, which is their sibling (`ScopesNest`);
- a handler's name hides the uses below it, and so does the name of a function
  or class that is found in its decorators (`UseFindsItsSymbol`);
- a name found within another word, as `class a`, has a semantic token inside
  that of the word; a handler's covers all others in the handler; and the numbers
  of token types go past the announced list, so that builtins are read as self
  and self as nothing (`ColoursAreOfIndex`).

The samples of `MCParser` leave out what the parser rejects throughout:
`f"{x!r}"`, `from m import *` and `from ... import x` with three dots, chained
comparisons, a conditional expression elsewhere than in parentheses, lists and
braces, unparenthesised tuples, and `x[a, b]`. In strict mode a missing colon goes
unnoticed, and when recovering `x y` is two statements without an error.

## The proofs

`SnekServerProofs` proves for any finite or infinite sets of URIs, files and
texts, any number of versions and any parse classes:

| Theorem | Property |
|---|---|
| `TypeCorrect` | `TypeOK` |
| `WorkIsCurrent` | `DueWorkIsCurrent` |
| `DiagnosticsAreCurrent` | `PublishedIsCurrent` |
| `NothingAfterClose` | `ClosedIsCleared` |
| `DiagnosticsAreCoherent` | `PublishedIsCoherent` |
| `IndexesAreOfText` | `IndexIsOfText` |
| `ContentIsOwned` | `OpenContentIsOwned` |
| `FileEventsReadDisk` | `EventsReadDisk` |
| `ServiceIsImplemented` | `ImplementsService` |

They assume `ConstantsAssumption` (the types of the constants; texts of one
parse class are all broken or none is) and `SentinelsAssumption` (the marks
for "none" are not values of the kind they stand for). TLC evaluates both.

The argument has three layers. `TypeOK` is inductive by itself.
`DueWorkIsCurrent` is not: after a tick has taken an entry, the invariant
alone would allow an edit, or a second entry for the same document, before
it is processed. `Due` adds `WorkIsTicked`: the tick's list is empty outside
`"process"`, where no notification is handled, and a document on the list is
not in the debouncer. With it, `ProcessOutcome` follows: an entry is never
out of date and its document has no index, so neither `continue` of
`process_debounced` is taken and the list published is complete. The third
layer, `Published`, is inductive given the first two, since every change of a
text schedules work in the same step. The refinement maps `documents` to the
service's `buffer` and `published` to `shown`; opening and changing a document
are `Edit`, closing is `Close`, processing an entry is `Publish`, and all
else stutters. `ContentIsOwned` is an action property that follows from
`TypeOK` case by case. `FileEventsReadDisk` needs `OverlayHasDocument`: an
overlay has an open document of its path, since closing any document of the
path removes it.

`WorkspaceLoaderProofs` proves for any number of roots, nested in each other or
not, any files in them and any names that files have in each of them:

| Theorem | Property |
|---|---|
| `TypeCorrect` | `TypeOK` |
| `SendIsFree` | `SendNeverBlocks` |
| `FinishesLast` | `FinishedIsExhausted` |
| `NothingElseLost` | `ReadIsAccountedFor` |
| `NamesResolveAlike` | `ResolutionAgrees` |

from `LoaderAssumption` (files of a root are distinct, marks are not values)
and `NoMsgAssumption`. None of the five is inductive. `TypeOK` needs
`Draining`, that whoever looks at a channel has a receiver. For
`SendNeverBlocks`, `Room` counts what a thread may still send, messages in the
channel, the one it holds and the files to read, which never grows beyond the
capacity. `FinishedIsExhausted` depends on what the flag `done` meant when it
was set, while the threads go on during the flush: `Ended` says that a thread
that was gone with its channel empty stays so until the receiver is dropped,
and `Latest` and `NoThread` that later roots have no thread. `Accounted` is
`ReadIsAccountedFor` with its places apart, and needs `Ended` as well, for the
step that drops the receiver. `ResolutionAgrees` rests on the order of the
messages. `Ordered` says of the file that the workspace has for a name that no
file that goes by this name is behind it on its way: not in what the thread has
still to read, on the channel, or in the queue (`ReadLast`, `SentLast`,
`QueuedLast`), so that once it is in the database none comes after it
(`FlushedLast`). What a file goes by is what the last root that names it made of
it, and this may be another name than the one the workspace resolves: hence the
conditions of `Untouched`, those of the property. Within a root add_root takes
the last file with a name, and the thread sends in the same order
(`RenamedLast`). That a name has a last file in a root (`LastIndex`) follows
from the order of the numbers being well-founded.

`DocumentEditsProofs` proves for buffers of any length, any inserted texts and
notifications of one or two changes:

| Theorem | Property |
|---|---|
| `DocumentTyped` | `TypeOK` |
| `SingleChangesFollowed` | `ContentIsBuffer` |
| `PositionsResolved` | `PositionsResolve` |
| `TokensFollowContent` | `TokensAreOfContent` |
| `AnalysisFollowsContent` | `DirtyIsUnanalysed` |

from `EditsAssumption` and `NoValueAssumption`. It begins with the line index:
lines are numbered by counting newlines, and `LineHasStart` shows that the
lines of a text all have a start, from the least offset with that many newlines
before it. `RoundTrip` follows: an offset turned into a position and back is
the offset. The invariant `Followed` adds to the properties that the line index
is of the content. Without that the next change would be looked up elsewhere,
and `ContentIsBuffer` would not be inductive. `Coherent` has the tokens of the
content, unless the document has strayed: `RelexAllCoherent` is about making
them of the whole text, which is what happens below `MinIncremental`, and
`RelexPartCoherent` about relexing in part. There the model takes from
`RelexAgrees` that between two texts read line by line the tokens become those
of the new text, and lets any tokens follow otherwise (`strayed`), until they are
made of the whole text once more. Within a notification `Followed` fails,
so that only `Coherent` is carried from one change to the next, which is why
nothing follows about the content after two changes.

`LexerProofs` and `RelexingProofs` prove for every text, well formed or not,
and for every edit of it, with `MinIncremental` and the other bounds arbitrary:

| Theorem | Property |
|---|---|
| `TypeCorrect` | `TypeOK` |
| `BytesReadOnce` | `BytesOnce` |
| `TokensOrdered` | `InOrder` |
| `BlocksBalanced` | `BlocksBalance` |
| `LinesAreLogical` | `LogicalLines` |
| `TextsAreRead` | `EveryTextIsRead` |
| `RelexingAgrees` | `RelexAgrees` |
| `RegionIsInText` | `RegionIsSlice` |

from `RelexingAssumption`, that texts are sequences of strings. `LexerProofs`
goes from the loops to a call of `next_token`. A loop that never goes back ends
where it stays, and keeps what each of its turns keeps (`FollowEnds`,
`FollowKeeps`, by well-founded induction on numbers). `NextTook` says of every
way to scan a token that it reaches from the position before to the position
after; `IndentationStep` and `EndOfTextStep` say what goes on the stacks of
indentations and of waiting tokens; and `TextStep` sums up a call: the bytes it
passes are in the tokens it returns or leaves waiting, and those are comments
with dedents of one line on top (`Stack`).

The invariant of `RelexingProofs` is `ReadOK`: every byte passed is in one
token (`KnownOnce`); the tokens returned are in order and behind the position,
and before the dedents that wait (`Placed`); blocks opened are closed, open, or
closed by a dedent that waits (`BlocksCounted`); and the lexer's bracket depth
is that of the tokens (`DepthCounted`). The properties alone are not inductive,
since they say nothing of what waits: `BlocksBalance` needs the number of
dedents on the stack, `InOrder` their place, `LogicalLines` that dedents only
wait while no bracket is open or the text is over. `ReadStep` shows that a call
keeps it, and `TokenizeReads` that it holds of all that `tokenize` returns.
That a text is read to its end (`TokenizeEnds`, `TextsAreRead`) needs a measure
that every call lowers. `Paid` says that two for each byte a call passes cover
the token it returns and what it adds to the tokens that wait and to the
indentations and f-strings that are open: a call that passes no byte takes from
these. `FStringsOpen` carries the condition of the property, `FStringsClose`,
along with the lexer: of the f-strings that are open, one in single quotes is the
last and ends with its quote when it is read on from here with as many braces
open as it has, or no newline is left to break it. `FStringsClose` looks at the
text only, at every byte that looks like the start of such an f-string, and reads
over its literals, braces, nested holes, and the strings in them (`PassFString`).
It gives up where a comment, a backslash or another f-string in a hole might hide
the quote, so `f'{x}'`, `f'{d["k"]:>{w}}'` and `f'{{'` are among the texts
proved to be read, and `f'{f"x"}'` is not if a newline follows.
`EndsBehind` and `EndsText` show that the lexer's tokens keep to this reading, so
that no scan of a literal stays where it is (`ClosedReturns`).
For `relex`, `FirstAffectedBehind` shows that the binary search only passes
tokens that end at or before the edit, given that ends are in order, which
`TokensInOrder` has from `ReadOK` for a text without comments. So the tokens kept
end before the edit and those taken over start behind it, which makes the
region a slice, and the three parts follow one another (`RelexOrdered`).

`RelexingAgrees` compares runs of `tokenize`, for texts that are read line by
line. A `Slice` is a part of a text from the start of a line up to a newline or
the end. `Together` relates a lexer in the part to one in the text at the place
it stands for, and `NextAlike` shows that a call keeps it and returns the same
token, moved; the readers stop before the newline, so that none sees what
follows the part. `PartAlike` carries this to the end of the part, by induction
on what calls spend (`Spent`: each passes a byte, or pays for one that opened an
f-string). `SplitAtNewline` then says that the tokens of such a text are those
up to a newline, the newline, and those behind it, read apart, and
`CutAtNewline` finds that cut among tokens that were kept: order leaves one
newline at an offset. So what `relex` keeps is what the new text yields there
(`KeptAgree`), and so are the region and what it takes over (`RegionAgrees`),
which gives `RelexYields`. The invariant, `AgreesOK`, adds that the tokens held
are those of `tokenize`, and that a text read in steps is read as `tokenize`
does (`LineRead`).

`GrammarProofs` and `ParserProofs` prove for every text, in either mode:

| Theorem | Property |
|---|---|
| `TypeCorrect` | `TypeOK` |
| `RangesAreNested` | `RangesNest` |

from `ParserAssumption`, that texts are sequences of strings. `GrammarProofs`
reads the rules. `Right` says what every rule, for every kind of token, has in
common, and `RulesAreRight` and `ExpansionIsRight` that all of them have it: what
goes on from an operand comes behind what leaves one (`GoesOnRight`); what
allocates a node passes a token before it, or is called where one was passed
(`SettlesRight`); behind an expression that may be missing comes a token
(`MissingRight`); behind a statement or block there are only the ends of those
around it (`TrailsRight`); and what passes any token at all is a loop or ends a
block (`AdvancesRight`), where expressions fail (`DedentRight`).

`ParserProofs` carries this over to the stack, and the nodes. `TokensOK` has the
token read last behind the one before, from `TextStep` of `LexerProofs`, with one
exception: the dedents of one line are the same token, over its indentation, more
than once. `TypeOK` needs `StackOK`: the numbers
of nodes filled in fall towards the end of the stack, and whatever goes on from an
operand has one, allocated since the statement began. `RangesNest` is about a
finished tree, and needs three things while it is built (`RangesOK`). The nodes so
far nest and end before the current token (`TreeNests`). Those that are begun can
start where they do: behind all nodes before them and before all inside them, and
no later than those begun after them (`StartsFit`). And their end, that of the
token passed last, is behind all nodes inside them, or there is a token to be
passed first (`NodesSettle`). The last is at stake where a name of no width takes
the place of a missing expression, because that name lies at the current token,
behind the last one passed; `TokenBehind` says that a token is awaited behind it.
At two dedents in a row the current token lies where the one before does, so
that nodes might come to start behind their end; `AtDedent` shows that there
either the statement fails without a handler, or only blocks end, or a loop goes
on (`LeftOK`).

`ScopeIndexProofs` proves for any names found within any words, any expressions
and targets of the forms modelled, with these in any number of decorators,
annotations, defaults, results and bases, and for modules of any length:

| Theorem | Property |
|---|---|
| `TypeCorrect` | `TypeOK` |
| `ResolutionHolds` | `ResolutionStands` |
| `ScopesAreNested` | `ScopesNest` |
| `UsesFound` | `UseFindsItsSymbol` |
| `LookupsFindInnermost`, `SearchFindsInnermost` | `FindsInnermost` |

from `ScopeIndexAssumption`, of which only `UsesFound` needs that `def` and
`class` are no names. `ResolutionStands` and `ScopesNest` are about the
finished index only, so the invariant `IInv` says what holds while it is
collected. `IndexOK`: the parents of scopes come before them, and every
reference has been resolved to what climbing from its scope over the symbols it
could see then (`Seen`) gives, which `ReferenceKept` shows to be independent of
all symbols and scopes added later. `Nested`: what is closed lies in its scope,
and what is still open is behind everything closed; an end that is not yet known
is not compared. Two scopes of one parent are apart, unless both are of
expressions and have one range, as those of a default visited again, or the
earlier is of an expression and lies in the function or class entered later
(`Beside`); and the only scopes around a use, below its own, are of functions
and classes entered after it. `Visiting` ties the index to the statements around
the visit: there is a path of scopes, from the module to the current one, one
per block, whose members are the open scopes, and an open selection belongs to a
block of the scope above. Without that path `Leave`, which goes to the parent of
the current scope, could leave a scope that is not the one that ends. `EndsBy`
puts the text not yet visited behind all that is collected, so that every
statement gets a stretch of its own (`Room`).

A visit within such a stretch is summed up by `Visits`: it only adds, what it
adds lies in the stretch, and the index stays good. An expression visited a
second time finds its stretch taken, by what it added itself: `Free` allows
scopes of its very range, and asks that nothing in it is used in the scope
around, which is so because all that a lambda or comprehension uses is used in
its own scope (`Own`). `VisitVisited` shows `Visits` of a list of steps,
`ScopeVisited` of the scopes of lambdas and comprehensions, and `ExprVisited`,
`TargetVisited`, `ExprsVisited` and `ParametersVisited` of what statements are
made of, the last of parameters one after the other and then of all defaults
again. `HeadVisited` adds that the scopes of decorators and bases are local ones
(`Locals`), which is what lets `BodyEntered` put the scope of the function or
class around them; `BodyEnded` closes it. `InvResolution` then compares the two
climbs scope by scope from the module downwards: where their answers part, one
of them is a symbol collected later, or one whose name is misread. `ExactEnds`
takes all this from words to the offsets of the tables.

`SearchFindsInnermost` is about `PositionalIndex` alone: any table that is sorted
by start, and every offset. The invariant `SearchInv` says that the best entry
covers the offset, and that what the scan has passed either does not or is no
narrower (`Passed`). At the early exit everything still ahead starts no later
than the entry looked at, so that one that covers the offset is at least as wide
as the distance that ended the search. `LookupsFindInnermost` states the same of
the tables of the index, which `SortedIs` shows to be sorted and to hold every
range once: the place of a range is the number of those before it.

`UsesFound` adds to `IInv` where names stand (`Distinct`). `Placed`: the
selection of a symbol is within one word, unless it begins at an `except`.
`Clear`: no use stands at the word where a selection begins, unless the
property excepts the symbol (`Excused`). A visit is summed up a second time, by
`MarksApart`: it adds uses at some places of its stretch and selections at
others. For an expression these are the places it binds (`Bound`) and all
others (`ExprApart`); expressions in a row keep to stretches of their own
(`StretchesApart`, `ExprsApart`), and so do parameters, of which the name is
bound, and what their annotations and defaults bind, however often they are
visited (`ParamBound`, `ParametersApart`). The exceptions come in where
`name_range` looks for the name from the start of a statement:
`NameRangeAtMost` shows that it finds the name at its place or before. The
decorators hold no `def` and no `class` (`HeadWords`), so that what is found
before the place is in the decorators, where the symbol is excused, or in the
keyword, where there are no uses (`DefinitionApart`). Then `find_symbol_at` can
be followed. A symbol that covers the place of a use begins at its word or at
an `except`, so that it is excepted; and a reference that covers the place
begins there, and all that do, which are the visits of one default, are
answered for.

Left to TLC: `EventuallyPublished`, `LoadingFinishes` and `MovesOn` (liveness);
of `SemanticTokens`, `ColoursAreOfIndex`, which encodes and decodes with sorts
and folds; and of `Parser`, `AcceptsPrograms`, which is about the samples, and
`LastLineSurvives`, which would need to know what every rule does of every text
that comes before the line.

## Not modelled

Requests but for the lookup they begin with (they read the state modelled
here, and change none but salsa's memos), the LSP handshake and shutdown, the
rules of single diagnostics, tables (`builtins.rs`, types),
the AST's data types, `IntervalTree` (only `ModuleIndex` uses it, which the
server does not ask), `sneklsp_syntax` and `ImportResolver` (unused by the
server), the command line and the editor plugin. Directory traversal and
path-to-name conversion, of a file relative to each root, are constants of
`WorkspaceLoader`. Texts are ASCII. `DocumentEdits` does not relex itself: of
relexing in part it takes what `RelexAgrees` says of texts read line by line, and
nothing of others. Expressions in `ScopeIndex` are not nested in each other.
Docstrings and the visibility of symbols are not in `ScopeIndex`; literals,
operators, comments and tokens of several lines not in `SemanticTokens`.

## Plan

Done: the server (`Debouncer`, `SnekServer` with `DiagnosticsService`,
`WorkspaceLoader`), the document (`LineIndex`, `DocumentEdits`), the text
pipeline (`Lexer`, `Relexing`, `Grammar`, `Parser`), the index
(`PositionalIndex`, `ScopeIndex`, `SemanticTokens`), and the theorems above.
What is left, in this order:

1. `CrossFile`: rename and references over documents with pending edits, memos
   and the module graph; diagnostics that depend on other files' exports.
2. The Vfs' interning table: ids as a bijection.
3. Characters of several bytes in `LineIndex` and `DocumentEdits`.
