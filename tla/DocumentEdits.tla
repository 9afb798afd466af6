---------------------------- MODULE DocumentEdits ----------------------------
(***************************************************************************)
(* One open document (crates/sneklsp_server/src/document.rs): how it       *)
(* follows the buffer of the editor through incremental changes, and what  *)
(* becomes of its line index, its tokens and its analysis.                 *)
(*                                                                         *)
(* A notification carries a sequence of changes, each relative to the text *)
(* the earlier ones leave, as LSP has it.  Texts are words over a newline, *)
(* a visible character, and one that keeps a text from being read line by  *)
(* line, as a bracket, a comment or indentation does.                      *)
(***************************************************************************)
EXTENDS LineIndex

CONSTANTS
  Visible,   \* a character that begins a token
  Binding,   \* one that does as well, and binds its line to others
  Inserts,   \* the texts that changes insert
  MaxLength, \* bound on the editor's buffer
  MaxBatch,  \* bound on the changes in a notification
  MinIncremental, \* relex: 1000, the length below which all is read again
  Part,      \* edit_is_large: 4, an edit of more than 1/Part is large
  Mixed,     \* tokens that are those of no text
  NoIndex, NoRange

Char == {Visible, Binding, Newline}

Buffer == UNION {[1 .. n -> Char] : n \in 0 .. MaxLength}

ASSUME EditsAssumption ==
  /\ Cardinality(Char) = 3
  /\ Inserts \subseteq Buffer
  /\ MaxLength \in Nat /\ MaxBatch \in {1, 2}
  /\ MinIncremental \in Nat /\ Part \in Nat \ {0}

ASSUME NoValueAssumption ==
  /\ NoIndex \notin Buffer /\ Mixed \notin Buffer
  /\ NoRange \notin Position \X Position /\ NoRange \notin Nat \X Nat

VARIABLES
  doc,     \* the Document
  editor,  \* external: the editor's buffer
  batch    \* history: the number of changes in the last notification

vars == <<doc, editor, batch>>

\* tokenize: a text of newlines only has no tokens.  The tokens of another
\* are represented by the text they were made from.
Tokenize(t) == IF \E i \in DOMAIN t : t[i] # Newline THEN t ELSE <<>>

\* Document::new.  Field lined is the text that line_index is of; strayed is
\* history: relexing may have left the tokens of no text.
NewDocument(t) ==
  [content |-> t, lined |-> t, index |-> NoIndex, tokens |-> <<>>,
   edit |-> NoRange, dirty |-> FALSE, strayed |-> FALSE]

Init == /\ editor \in Buffer
        /\ doc = NewDocument(editor)
        /\ batch = 0
-------------------------------------------------------------------------------
Splice(t, a, b, ins) == SubSeq(t, 1, a) \o ins \o SubSeq(t, b + 1, Len(t))

\* Fault: the tokens of the old text stay.
FullReplaceText(d, t) ==
  [d EXCEPT !.content = t, !.index = NoIndex, !.edit = NoRange,
            !.dirty = FALSE, !.strayed = FALSE]

\* full_replace; the line index is left for apply_changes to renew.
FullReplace(d, t) ==
  [d EXCEPT !.content = t, !.tokens = <<>>, !.index = NoIndex,
            !.edit = NoRange, !.dirty = FALSE, !.strayed = FALSE]

\* edit_is_large; the edit replaces [a, b) by n bytes.
EditIsLarge(a, b, n, len) == b - a > len \div Part \/ n > len \div Part

\* Relexing's LineByLine, which no text with a binding character is.
LineByLine(t) == \A i \in DOMAIN t : t[i] # Binding

\* relex in part: between texts read line by line it yields the tokens of the
\* new one (RelexAgrees of Relexing), of others the model says nothing.
RelexPart(d, old) ==
  IF ~ d.strayed /\ LineByLine(old) /\ LineByLine(d.content)
  THEN {[d EXCEPT !.tokens = Tokenize(d.content)]}
  ELSE {[d EXCEPT !.tokens = k, !.strayed = TRUE] :
          k \in {Tokenize(d.content), <<>>, Mixed}}

RelexAll(d) == [d EXCEPT !.tokens = Tokenize(d.content), !.strayed = FALSE]

\* try_incremental_relex, with d's content edited already.
Relex(d, old, a, b, n) ==
  IF d.tokens = <<>> THEN {d}
  ELSE {[e EXCEPT !.dirty = TRUE] :
          e \in IF Len(old) < MinIncremental \/ EditIsLarge(a, b, n, Len(old))
                THEN {RelexAll(d)} ELSE RelexPart(d, old)}

\* Fault: the end of the range is taken to be inclusive.
ReplaceRangeInclusive(d, a, b, ins) ==
  Relex([d EXCEPT !.edit = <<a, b>>,
                  !.content = Splice(d.content, a, b + 1, ins)],
        d.content, a, b, Len(ins))

\* apply_change, the valid range [a, b) of the content: the documents it may
\* result in.
ReplaceRange(d, a, b, ins) ==
  Relex([d EXCEPT !.edit = <<a, b>>,
                  !.content = Splice(d.content, a, b, ins)],
        d.content, a, b, Len(ins))

\* Fault: the order of the two ends is taken for granted.
InvalidIfBeyond(d, p, q) ==
  \/ ~ HasOffset(d.lined, p) \/ ~ HasOffset(d.lined, q)
  \/ Offset(d.lined, q) > Len(d.content)

\* What "using full replacement" is logged for.
Invalid(d, p, q) ==
  \/ ~ HasOffset(d.lined, p) \/ ~ HasOffset(d.lined, q)
  \/ Offset(d.lined, p) > Offset(d.lined, q)
  \/ Offset(d.lined, q) > Len(d.content)

\* apply_change: positions are looked up in the line index there is.
ApplyChange(d, c) ==
  IF c.range = NoRange \/ Invalid(d, c.range[1], c.range[2])
  THEN {FullReplace(d, c.text)}
  ELSE ReplaceRange(d, Offset(d.lined, c.range[1]),
                       Offset(d.lined, c.range[2]), c.text)

\* apply_changes' loop, for a notification of one or two changes.
Applied(d, cs) ==
  IF Len(cs) = 1 THEN ApplyChange(d, cs[1])
  ELSE UNION {ApplyChange(e, cs[2]) : e \in ApplyChange(d, cs[1])}

\* Fault: the line index is the one of the text before the changes.
ApplyChangesOldLines(d, cs) ==
  {[e EXCEPT !.index = NoIndex] : e \in Applied(d, cs)}

\* apply_changes: the line index is renewed once, after the last change.
ApplyChanges(d, cs) ==
  {[e EXCEPT !.lined = e.content, !.index = NoIndex] : e \in Applied(d, cs)}
-------------------------------------------------------------------------------
(***************************************************************************)
(* The editor: replaces a range of its buffer, or sends it whole.          *)
(***************************************************************************)
Ranges(t) == {r \in (0 .. Len(t)) \X (0 .. Len(t)) : r[1] <= r[2]}

Edits(t) ==
  {e \in [range : Ranges(t) \cup {NoRange}, text : Inserts] :
     IF e.range = NoRange THEN TRUE
     ELSE Len(Splice(t, e.range[1], e.range[2], e.text)) <= MaxLength}

Edited(t, e) == IF e.range = NoRange THEN e.text
                ELSE Splice(t, e.range[1], e.range[2], e.text)

\* TextDocumentContentChangeEvent: with positions in the text it applies to.
Change(t, e) ==
  [range |-> IF e.range = NoRange THEN NoRange
             ELSE <<PositionOf(t, e.range[1]), PositionOf(t, e.range[2])>>,
   text |-> e.text]

\* didChange.  A document that has come to differ from the buffer is not
\* followed further.
OnDidChange ==
  /\ doc.content = editor
  /\ \E e \in Edits(editor) :
       LET t == Edited(editor, e)
           c == Change(editor, e)
       IN  \/ /\ doc' \in ApplyChanges(doc, <<c>>)
              /\ editor' = t
              /\ batch' = 1
           \/ /\ MaxBatch > 1
              /\ \E f \in Edits(t) :
                   /\ doc' \in ApplyChanges(doc, <<c, Change(t, f)>>)
                   /\ editor' = Edited(t, f)
                   /\ batch' = 2

\* Fault: the relexed tokens stay marked for the next time.
SettledDirty(d) == IF d.dirty THEN d ELSE RelexAll(d)

\* The tokens after an analysis: relexed ones are taken to be in place.
Settled(d) == IF d.dirty THEN [d EXCEPT !.dirty = FALSE] ELSE RelexAll(d)

\* process_debounced, as far as the document is concerned; a text that does
\* not parse leaves the index there is.
Analyse ==
  /\ \E parses \in BOOLEAN :
       doc' = IF parses THEN [Settled(doc) EXCEPT !.edit = NoRange,
                                !.index = doc.content, !.lined = doc.content]
              ELSE [Settled(doc) EXCEPT !.edit = NoRange]
  /\ UNCHANGED <<editor, batch>>

Next == OnDidChange \/ Analyse

Spec == Init /\ [][Next]_vars
-------------------------------------------------------------------------------
(***************************************************************************)
(* Properties.                                                             *)
(***************************************************************************)
TypeOK ==
  /\ editor \in Buffer
  /\ doc.content \in Seq(Char) /\ doc.lined \in Seq(Char)
  /\ doc.index \in Seq(Char) \cup {NoIndex}
  /\ doc.tokens \in Seq(Char) \cup {Mixed}
  /\ doc.dirty \in BOOLEAN /\ doc.strayed \in BOOLEAN
  /\ doc.edit \in (Nat \X Nat) \cup {NoRange}
  /\ doc.edit # NoRange => doc.edit[1] <= doc.edit[2]
  /\ batch \in 0 .. MaxBatch

\* The document is the editor's buffer after every notification with a
\* single change: positions turned into offsets and back, across inserted
\* and deleted newlines.
ContentIsBuffer == batch < 2 => doc.content = editor

\* The same after any notification: an incremental change is what
\* server.rs:48 announces to the editor, and document.rs:83 keeps the full
\* replacement for invalid ranges.
BatchIsBuffer == doc.content = editor

\* A position the editor sends, in a request or with its next change, is
\* resolved to the offset it is the position of, whatever lines the changes
\* and analyses before it have inserted or removed.
PositionsResolve ==
  \A o \in 0 .. Len(doc.content) :
    LET p == PositionOf(doc.content, o)
    IN  HasOffset(doc.lined, p) /\ Offset(doc.lined, p) = o

\* Tokens are never those of an earlier text: relexing in part starts from
\* tokens of the text it edits, through any number of changes, replacements
\* and analyses.  Excepted are the tokens that relexing in part leaves of
\* texts whose lines are bound to one another: from them each next relexing
\* starts, until tokens are made of the whole text again.
TokensAreOfContent ==
  (doc.tokens # <<>> /\ ~ doc.strayed) => doc.tokens = doc.content

\* Relexed tokens are only kept for an analysis still to come, and a document
\* with an index has the index of its content.
DirtyIsUnanalysed ==
  /\ doc.dirty => doc.index = NoIndex
  /\ doc.index # NoIndex => doc.index = doc.content
===============================================================================
