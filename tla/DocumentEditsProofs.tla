------------------------- MODULE DocumentEditsProofs -------------------------
(***************************************************************************)
(* Theorems about the document, for buffers of any length and any inserted *)
(* texts.  First the line index: every line it counts has a start, and     *)
(* turning an offset into a position and back gives the offset.  Then an   *)
(* invariant, Followed, which says that between notifications the line     *)
(* index is of the content, so that the positions of the next one mean     *)
(* what the editor means.                                                  *)
(***************************************************************************)
EXTENDS DocumentEdits, FiniteSetTheorems, WellFoundedInduction, TLAPS

\* The newlines among the first o characters.
Newlines(t, o) == {i \in 1 .. o : t[i] = Newline}

LEMMA NewlinesFinite ==
  ASSUME NEW t, NEW o \in Nat
  PROVE  /\ IsFiniteSet(Newlines(t, o))
         /\ LineOf(t, o) = Cardinality(Newlines(t, o))
         /\ LineOf(t, o) \in Nat
<1>1. IsFiniteSet(1 .. o)
  BY FS_Interval
<1>2. Newlines(t, o) \in SUBSET (1 .. o)
  BY DEF Newlines
<1>3. IsFiniteSet(Newlines(t, o))
  BY <1>1, <1>2, FS_Subset
<1>4. LineOf(t, o) = Cardinality(Newlines(t, o))
  BY DEF LineOf, Newlines
<1> QED BY <1>3, <1>4, FS_CardinalityType

LEMMA FirstLine == ASSUME NEW t PROVE LineOf(t, 0) = 0
<1>1. {i \in 1 .. 0 : t[i] = Newline} = {}
  OBVIOUS
<1> QED BY <1>1, FS_EmptySet DEF LineOf

\* One character further a line ends or not.
LEMMA NextLine ==
  ASSUME NEW t, NEW o \in Nat
  PROVE  LineOf(t, o + 1) =
           IF t[o + 1] = Newline THEN LineOf(t, o) + 1 ELSE LineOf(t, o)
<1>1. CASE t[o + 1] = Newline
  <2>1. Newlines(t, o + 1) = Newlines(t, o) \cup {o + 1}
    BY <1>1 DEF Newlines
  <2>2. o + 1 \notin Newlines(t, o)
    BY DEF Newlines
  <2>3. Cardinality(Newlines(t, o) \cup {o + 1}) = Cardinality(Newlines(t, o)) + 1
    BY <2>2, NewlinesFinite, FS_AddElement
  <2>4. /\ LineOf(t, o) = Cardinality(Newlines(t, o))
        /\ LineOf(t, o + 1) = Cardinality(Newlines(t, o + 1))
    BY NewlinesFinite
  <2> QED BY <1>1, <2>1, <2>3, <2>4
<1>2. CASE t[o + 1] # Newline
  <2>1. Newlines(t, o + 1) = Newlines(t, o)
    BY <1>2 DEF Newlines
  <2> QED BY <1>2, <2>1, NewlinesFinite
<1> QED BY <1>1, <1>2

LEMMA LinesGrow ==
  ASSUME NEW t, NEW o \in Nat, NEW p \in Nat, o <= p
  PROVE  LineOf(t, o) <= LineOf(t, p)
<1>1. Newlines(t, o) \in SUBSET Newlines(t, p)
  BY DEF Newlines
<1> QED BY <1>1, NewlinesFinite, FS_Subset

LEMMA LineCountIsLast ==
  ASSUME NEW S, NEW t \in Seq(S)
  PROVE  LineCount(t) = 1 + LineOf(t, Len(t))
<1>1. {i \in DOMAIN t : t[i] = Newline} = {i \in 1 .. Len(t) : t[i] = Newline}
  OBVIOUS
<1> QED BY <1>1 DEF LineCount, LineOf

\* Every line but the first begins behind a newline that there is.
LEMMA LineHasStart ==
  ASSUME NEW S, NEW t \in Seq(S), NEW l \in Nat, l # 0, l <= LineOf(t, Len(t))
  PROVE  \E o \in DOMAIN t : t[o] = Newline /\ LineOf(t, o) = l
<1> DEFINE Reaches == {o \in Nat : o <= Len(t) /\ l <= LineOf(t, o)}
<1>1. Len(t) \in Reaches
  OBVIOUS
<1>2. PICK o \in Reaches : \A p \in Reaches : ~ (<<p, o>> \in OpToRel(<, Nat))
  <2>1. Reaches \subseteq Nat /\ Reaches # {}
    BY <1>1
  <2> HIDE DEF Reaches
  <2> QED BY <2>1, NatLessThanWellFounded, WFMin
<1>3. \A p \in Reaches : o <= p
  <2>1. \A p \in Nat : p < o => <<p, o>> \in OpToRel(<, Nat)
    BY DEF OpToRel
  <2>2. o \in Nat /\ \A p \in Reaches : p \in Nat
    OBVIOUS
  <2>3. \A p \in Reaches : ~ (p < o)
    <3> HIDE DEF Reaches
    <3> QED BY <1>2, <2>1, <2>2, Zenon
  <2> QED BY <2>2, <2>3
<1>4. o # 0
  BY FirstLine
<1>5. o - 1 \in Nat /\ o = (o - 1) + 1
  BY <1>4
<1>6. LineOf(t, o - 1) \in Nat /\ LineOf(t, o) \in Nat
  BY <1>5, NewlinesFinite
<1>7. LineOf(t, o - 1) < l
  BY <1>3, <1>5, <1>6
<1>8. t[o] = Newline /\ LineOf(t, o) = l
  <2>1. LineOf(t, o) = IF t[o] = Newline THEN LineOf(t, o - 1) + 1
                       ELSE LineOf(t, o - 1)
    BY <1>5, NextLine
  <2> QED BY <1>6, <1>7, <2>1
<1> QED BY <1>4, <1>8

\* LineIndex::offset finds the start of any line it has.
LEMMA LineStartType ==
  ASSUME NEW S, NEW t \in Seq(S), NEW l \in Nat, l <= LineOf(t, Len(t))
  PROVE  /\ LineStart(t, l) \in 0 .. Len(t)
         /\ LineOf(t, LineStart(t, l)) = l
         /\ l # 0 => LineStart(t, l) # 0 /\ t[LineStart(t, l)] = Newline
<1>1. CASE l = 0
  BY <1>1, FirstLine DEF LineStart
<1>2. CASE l # 0
  <2> DEFINE Starts(o) == t[o] = Newline /\ LineOf(t, o) = l
  <2>1. \E o \in DOMAIN t : Starts(o)
    BY <1>2, LineHasStart
  <2>2. LineStart(t, l) = CHOOSE o \in DOMAIN t : Starts(o)
    BY <1>2 DEF LineStart
  <2>3. LineStart(t, l) \in DOMAIN t /\ Starts(LineStart(t, l))
    <3> HIDE DEF Starts
    <3> QED BY <2>1, <2>2
  <2> QED BY <1>2, <2>3
<1> QED BY <1>1, <1>2

\* The line of an offset is one the index has, and starts no later.
LEMMA LineOfOffset ==
  ASSUME NEW S, NEW t \in Seq(S), NEW o \in 0 .. Len(t)
  PROVE  /\ LineOf(t, o) \in Nat /\ LineOf(t, o) < LineCount(t)
         /\ LineStart(t, LineOf(t, o)) \in 0 .. o
<1> DEFINE l == LineOf(t, o)
           s == LineStart(t, l)
<1>1. l \in Nat /\ l <= LineOf(t, Len(t)) /\ LineOf(t, Len(t)) \in Nat
  BY NewlinesFinite, LinesGrow
<1>2. l < LineCount(t)
  BY <1>1, LineCountIsLast
<1>3. /\ s \in 0 .. Len(t) /\ LineOf(t, s) = l
      /\ l # 0 => s # 0 /\ t[s] = Newline
  BY <1>1, LineStartType
<1>4. s <= o
  <2> SUFFICES ASSUME o < s PROVE FALSE
    BY <1>3
  <2>1. l # 0
    BY <1>3 DEF LineStart
  <2>2. s - 1 \in Nat /\ o <= s - 1 /\ s = (s - 1) + 1
    BY <1>3, <2>1
  <2>3. LineOf(t, s - 1) \in Nat /\ l <= LineOf(t, s - 1)
    BY <2>2, NewlinesFinite, LinesGrow
  <2>4. LineOf(t, s) = LineOf(t, s - 1) + 1
    BY <1>3, <2>1, <2>2, NextLine
  <2> QED BY <1>1, <1>3, <2>3, <2>4
<1> QED BY <1>1, <1>2, <1>3, <1>4

\* An offset is turned into a position and back.
LEMMA RoundTrip ==
  ASSUME NEW S, NEW t \in Seq(S), NEW o \in 0 .. Len(t)
  PROVE  /\ PositionOf(t, o) \in Position
         /\ HasOffset(t, PositionOf(t, o))
         /\ Offset(t, PositionOf(t, o)) = o
BY LineOfOffset DEF PositionOf, Position, HasOffset, Offset

\* A position the index accepts has an offset, whatever text it is of.
LEMMA OffsetType ==
  ASSUME NEW S, NEW t \in Seq(S), NEW p \in Position, HasOffset(t, p)
  PROVE  Offset(t, p) \in Nat
<1>1. p.line \in Nat /\ p.column \in Nat
  BY DEF Position
<1>2. LineOf(t, Len(t)) \in Nat
  BY NewlinesFinite
<1>3. p.line <= LineOf(t, Len(t))
  BY <1>1, <1>2, LineCountIsLast DEF HasOffset
<1> QED BY <1>1, <1>3, LineStartType DEF Offset
-------------------------------------------------------------------------------
Text == Seq(Char)

Document ==
  [content : Text, lined : Text, index : Text \cup {NoIndex},
   tokens : Text \cup {Mixed}, edit : (Nat \X Nat) \cup {NoRange},
   dirty : BOOLEAN, strayed : BOOLEAN]

\* What holds of the document after every single change, within a batch too.
Coherent(d) ==
  /\ d \in Document
  /\ (d.tokens # <<>> /\ ~ d.strayed) => d.tokens = d.content
  /\ d.edit # NoRange => d.edit[1] <= d.edit[2]

\* A change of a notification, of whatever text its positions are.
Changes == [range : (Position \X Position) \cup {NoRange}, text : Text]

LEMMA BufferIsText == \A t : t \in Buffer <=> t \in Text /\ Len(t) <= MaxLength
<1>1. ASSUME NEW t \in Buffer PROVE t \in Text /\ Len(t) <= MaxLength
  <2>1. PICK n \in 0 .. MaxLength : t \in [1 .. n -> Char]
    BY DEF Buffer
  <2> QED BY <2>1, EditsAssumption DEF Text
<1>2. ASSUME NEW t \in Text, Len(t) <= MaxLength PROVE t \in Buffer
  <2>1. t \in [1 .. Len(t) -> Char] /\ Len(t) \in 0 .. MaxLength
    BY <1>2, EditsAssumption DEF Text
  <2> QED BY <2>1 DEF Buffer
<1> QED BY <1>1, <1>2

LEMMA SpliceType ==
  ASSUME NEW t \in Text, NEW ins \in Text, NEW a \in Nat, NEW b \in Nat,
         a <= b, b <= Len(t)
  PROVE  Splice(t, a, b, ins) \in Text
<1>1. SubSeq(t, 1, a) \in Text /\ SubSeq(t, b + 1, Len(t)) \in Text
  BY DEF Text
<1> QED BY <1>1 DEF Splice, Text

LEMMA TokenizeType ==
  ASSUME NEW t \in Text
  PROVE  Tokenize(t) \in Text /\ (Tokenize(t) # <<>> => Tokenize(t) = t)
BY DEF Tokenize, Text

LEMMA RelexAllCoherent ==
  ASSUME NEW d \in Document, d.edit # NoRange => d.edit[1] <= d.edit[2]
  PROVE  /\ Coherent(RelexAll(d)) /\ RelexAll(d).content = d.content
         /\ RelexAll(d).edit = d.edit
<1>1. /\ Tokenize(d.content) \in Text
      /\ Tokenize(d.content) # <<>> => Tokenize(d.content) = d.content
  BY TokenizeType DEF Document
<1>2. /\ RelexAll(d) \in Document /\ RelexAll(d).content = d.content
      /\ RelexAll(d).tokens = Tokenize(d.content)
      /\ RelexAll(d).edit = d.edit
  BY <1>1 DEF RelexAll, Document
<1> QED BY <1>1, <1>2 DEF Coherent

\* Relexing in part: tokens of any kind, or those of the content.
LEMMA RelexPartCoherent ==
  ASSUME NEW d \in Document, d.edit # NoRange => d.edit[1] <= d.edit[2],
         NEW old, NEW e \in RelexPart(d, old)
  PROVE  /\ Coherent(e) /\ e.content = d.content /\ e.edit = d.edit
<1>1. /\ Tokenize(d.content) \in Text /\ <<>> \in Text
      /\ Tokenize(d.content) # <<>> => Tokenize(d.content) = d.content
  BY TokenizeType DEF Document, Text
<1>2. CASE ~ d.strayed /\ LineByLine(old) /\ LineByLine(d.content)
  <2>1. e = [d EXCEPT !.tokens = Tokenize(d.content)]
    BY <1>2 DEF RelexPart
  <2>2. /\ e \in Document /\ e.content = d.content /\ e.edit = d.edit
        /\ e.tokens = Tokenize(d.content)
    BY <1>1, <2>1 DEF Document
  <2> QED BY <1>1, <2>2 DEF Coherent
<1>3. CASE ~ (~ d.strayed /\ LineByLine(old) /\ LineByLine(d.content))
  <2>1. PICK k \in {Tokenize(d.content), <<>>, Mixed} :
          e = [d EXCEPT !.tokens = k, !.strayed = TRUE]
    BY <1>3 DEF RelexPart
  <2>2. k \in Text \cup {Mixed}
    BY <1>1
  <2>3. /\ e \in Document /\ e.content = d.content /\ e.edit = d.edit
        /\ e.strayed = TRUE
    BY <2>1, <2>2 DEF Document
  <2> QED BY <2>3 DEF Coherent
<1> QED BY <1>2, <1>3

\* A changed content leaves nothing of the tokens: they are none, or relexed.
LEMMA RelexCoherent ==
  ASSUME NEW d \in Document, d.edit # NoRange => d.edit[1] <= d.edit[2],
         NEW old, NEW a, NEW b, NEW n, NEW e \in Relex(d, old, a, b, n)
  PROVE  Coherent(e) /\ e.content = d.content
<1>1. CASE d.tokens = <<>>
  <2>1. e = d
    BY <1>1 DEF Relex
  <2> QED BY <1>1, <2>1 DEF Coherent
<1>2. CASE d.tokens # <<>>
  <2> DEFINE full == Len(old) < MinIncremental \/ EditIsLarge(a, b, n, Len(old))
  <2>1. PICK f \in IF full THEN {RelexAll(d)} ELSE RelexPart(d, old) :
          e = [f EXCEPT !.dirty = TRUE]
    BY <1>2 DEF Relex
  <2>2. Coherent(f) /\ f.content = d.content
    <3> HIDE DEF full
    <3>1. CASE full
      BY <2>1, <3>1, RelexAllCoherent
    <3>2. CASE ~ full
      BY <2>1, <3>2, RelexPartCoherent
    <3> QED BY <3>1, <3>2
  <2>3. /\ e \in Document /\ e.content = f.content /\ e.tokens = f.tokens
        /\ e.edit = f.edit /\ e.strayed = f.strayed
    BY <2>1, <2>2 DEF Coherent, Document
  <2> QED BY <2>2, <2>3 DEF Coherent
<1> QED BY <1>1, <1>2

LEMMA ReplaceRangeCoherent ==
  ASSUME NEW d, Coherent(d), NEW ins \in Text, NEW a \in Nat, NEW b \in Nat,
         a <= b, b <= Len(d.content), NEW r \in ReplaceRange(d, a, b, ins)
  PROVE  Coherent(r) /\ r.content = Splice(d.content, a, b, ins)
<1> DEFINE t == Splice(d.content, a, b, ins)
           e == [d EXCEPT !.edit = <<a, b>>, !.content = t]
<1>1. d.content \in Text /\ t \in Text
  BY SpliceType DEF Coherent, Document
<1>2. r \in Relex(e, d.content, a, b, Len(ins))
  BY DEF ReplaceRange
<1> HIDE DEF t
<1>3. e \in Document /\ e.content = t /\ e.edit = <<a, b>>
  BY <1>1 DEF Coherent, Document
<1> HIDE DEF e
<1> QED BY <1>2, <1>3, RelexCoherent DEF t

LEMMA FullReplaceCoherent ==
  ASSUME NEW d, Coherent(d), NEW t \in Text
  PROVE  Coherent(FullReplace(d, t)) /\ FullReplace(d, t).content = t
<1> DEFINE e == FullReplace(d, t)
<1>1. <<>> \in Text
  BY DEF Text
<1>2. e \in Document
  BY <1>1 DEF FullReplace, Coherent, Document
<1>3. e.content = t /\ e.tokens = <<>> /\ e.edit = NoRange
  BY DEF FullReplace, Coherent, Document
<1> HIDE DEF e
<1> QED BY <1>2, <1>3 DEF Coherent, e

\* apply_change, whatever text the change is for.
LEMMA ApplyChangeCoherent ==
  ASSUME NEW d, Coherent(d), NEW c \in Changes, NEW r \in ApplyChange(d, c)
  PROVE  Coherent(r)
<1>1. c.text \in Text
  BY DEF Changes
<1>2. CASE c.range = NoRange \/ Invalid(d, c.range[1], c.range[2])
  BY <1>1, <1>2, FullReplaceCoherent DEF ApplyChange
<1>3. CASE ~ (c.range = NoRange \/ Invalid(d, c.range[1], c.range[2]))
  <2> DEFINE a == Offset(d.lined, c.range[1])
             b == Offset(d.lined, c.range[2])
  <2>1. c.range[1] \in Position /\ c.range[2] \in Position
    BY <1>3 DEF Changes
  <2>2. /\ HasOffset(d.lined, c.range[1]) /\ HasOffset(d.lined, c.range[2])
        /\ ~ (a > b) /\ ~ (b > Len(d.content))
    BY <1>3 DEF Invalid
  <2>3. d.lined \in Seq(Char) /\ d.content \in Seq(Char)
    BY DEF Coherent, Document, Text
  <2>4. a \in Nat /\ b \in Nat
    BY <2>1, <2>2, <2>3, OffsetType
  <2>5. a <= b /\ b <= Len(d.content)
    BY <2>2, <2>3, <2>4
  <2>6. ApplyChange(d, c) = ReplaceRange(d, a, b, c.text)
    BY <1>3 DEF ApplyChange
  <2> HIDE DEF a, b
  <2> QED BY <1>1, <2>4, <2>5, <2>6, ReplaceRangeCoherent
<1> QED BY <1>2, <1>3
-------------------------------------------------------------------------------
\* What the editor can do to a buffer.
LEMMA EditType ==
  ASSUME NEW t \in Buffer, NEW e \in Edits(t)
  PROVE  /\ e.text \in Buffer
         /\ e.range = NoRange \/ /\ e.range \in Nat \X Nat
                                 /\ e.range[1] <= e.range[2]
                                 /\ e.range[2] <= Len(t)
         /\ Edited(t, e) \in Buffer
<1>1. e.text \in Buffer
  BY EditsAssumption DEF Edits
<1>2. t \in Text /\ e.text \in Text
  BY <1>1, BufferIsText
<1>3. CASE e.range = NoRange
  BY <1>1, <1>3 DEF Edited
<1>4. CASE e.range # NoRange
  <2>1. e.range \in Ranges(t)
    BY <1>4 DEF Edits
  <2>2. /\ e.range \in Nat \X Nat /\ e.range[1] \in Nat /\ e.range[2] \in Nat
        /\ e.range[1] <= e.range[2] /\ e.range[2] <= Len(t)
    BY <1>2, <2>1 DEF Ranges, Text
  <2>3. Edited(t, e) = Splice(t, e.range[1], e.range[2], e.text)
    BY <1>4 DEF Edited
  <2>4. Edited(t, e) \in Text
    BY <1>2, <2>2, <2>3, SpliceType
  <2>5. Len(Edited(t, e)) <= MaxLength
    BY <1>4, <2>3 DEF Edits
  <2> QED BY <1>1, <2>2, <2>4, <2>5, BufferIsText
<1> QED BY <1>3, <1>4

\* The change that is sent for an edit.
LEMMA ChangeType ==
  ASSUME NEW t \in Buffer, NEW e \in Edits(t)
  PROVE  /\ Change(t, e) \in Changes
         /\ Change(t, e).text = e.text
         /\ e.range = NoRange => Change(t, e).range = NoRange
         /\ e.range # NoRange =>
              /\ Change(t, e).range # NoRange
              /\ Change(t, e).range[1] = PositionOf(t, e.range[1])
              /\ Change(t, e).range[2] = PositionOf(t, e.range[2])
<1>1. t \in Seq(Char) /\ e.text \in Text
  BY EditType, BufferIsText DEF Text
<1>2. CASE e.range = NoRange
  BY <1>1, <1>2 DEF Change, Changes
<1>3. CASE e.range # NoRange
  <2> DEFINE p == PositionOf(t, e.range[1])
             q == PositionOf(t, e.range[2])
  <2>1. e.range[1] \in 0 .. Len(t) /\ e.range[2] \in 0 .. Len(t)
    BY <1>1, <1>3, EditType
  <2>2. p \in Position /\ q \in Position
    BY <1>1, <2>1, RoundTrip
  <2>3. Change(t, e) = [range |-> <<p, q>>, text |-> e.text]
    BY <1>3 DEF Change
  <2> HIDE DEF p, q
  <2>4. <<p, q>> # NoRange
    BY <2>2, NoValueAssumption
  <2> QED BY <1>1, <1>3, <2>2, <2>3, <2>4 DEF Changes, p, q
<1> QED BY <1>2, <1>3

\* A change of the text whose lines are indexed does what the edit does.
LEMMA ChangeIsEdit ==
  ASSUME NEW d, Coherent(d), NEW t \in Buffer, NEW e \in Edits(t),
         d.content = t, d.lined = t, NEW r \in ApplyChange(d, Change(t, e))
  PROVE  r.content = Edited(t, e)
<1> DEFINE c == Change(t, e)
<1>1. t \in Seq(Char) /\ e.text \in Text
  BY EditType, BufferIsText DEF Text
<1>2. CASE e.range = NoRange
  <2>1. c.range = NoRange /\ c.text = e.text
    BY <1>2, ChangeType
  <2>2. r = FullReplace(d, e.text)
    <3> HIDE DEF c
    <3> QED BY <2>1 DEF ApplyChange, c
  <2> QED BY <1>1, <1>2, <2>2, FullReplaceCoherent DEF Edited
<1>3. CASE e.range # NoRange
  <2> DEFINE a == e.range[1]
             b == e.range[2]
  <2>1. /\ a \in Nat /\ b \in Nat /\ a <= b /\ b <= Len(t)
        /\ a \in 0 .. Len(t) /\ b \in 0 .. Len(t)
    BY <1>1, <1>3, EditType
  <2>2. /\ c.range # NoRange /\ c.text = e.text
        /\ c.range[1] = PositionOf(t, a) /\ c.range[2] = PositionOf(t, b)
    BY <1>3, ChangeType
  <2> HIDE DEF a, b, c
  <2>3. /\ HasOffset(d.lined, c.range[1]) /\ HasOffset(d.lined, c.range[2])
        /\ Offset(d.lined, c.range[1]) = a /\ Offset(d.lined, c.range[2]) = b
    BY <1>1, <2>1, <2>2, RoundTrip
  <2>4. ~ Invalid(d, c.range[1], c.range[2])
    BY <1>1, <2>1, <2>3 DEF Invalid
  <2>5. ApplyChange(d, c) = ReplaceRange(d, a, b, e.text)
    BY <2>2, <2>3, <2>4 DEF ApplyChange
  <2>6. r.content = Splice(t, a, b, e.text)
    BY <1>1, <2>1, <2>5, ReplaceRangeCoherent DEF c
  <2> QED BY <1>3, <2>6 DEF Edited, a, b, c
<1> QED BY <1>2, <1>3
-------------------------------------------------------------------------------
\* Between notifications and analyses: the line index is of the content, and
\* after any but a batch the content is the buffer.
Followed ==
  /\ editor \in Buffer
  /\ batch \in 0 .. MaxBatch
  /\ Coherent(doc)
  /\ doc.lined = doc.content
  /\ ContentIsBuffer
  /\ DirtyIsUnanalysed

\* apply_changes: the index is of the content, and the analysis is gone.
LEMMA ApplyChangesFollowed ==
  ASSUME NEW d, Coherent(d), NEW cs,
         \/ cs[1] \in Changes /\ Len(cs) = 1
         \/ cs[1] \in Changes /\ cs[2] \in Changes /\ Len(cs) = 2,
         NEW r \in ApplyChanges(d, cs)
  PROVE  /\ Coherent(r) /\ r.lined = r.content /\ r.index = NoIndex
         /\ \E e \in Applied(d, cs) : r.content = e.content
<1>1. PICK e \in Applied(d, cs) :
        r = [e EXCEPT !.lined = e.content, !.index = NoIndex]
  BY DEF ApplyChanges
<1>2. Coherent(e)
  <2>1. CASE Len(cs) = 1
    <3>1. e \in ApplyChange(d, cs[1])
      BY <2>1 DEF Applied
    <3> QED BY <3>1, ApplyChangeCoherent
  <2>2. CASE Len(cs) = 2
    <3>1. PICK f \in ApplyChange(d, cs[1]) : e \in ApplyChange(f, cs[2])
      BY <2>2 DEF Applied
    <3>2. Coherent(f)
      BY ApplyChangeCoherent
    <3> QED BY <2>2, <3>1, <3>2, ApplyChangeCoherent
  <2> QED BY <2>1, <2>2
<1>3. /\ r \in Document /\ r.lined = r.content /\ r.index = NoIndex
      /\ r.content = e.content /\ r.tokens = e.tokens /\ r.edit = e.edit
      /\ r.strayed = e.strayed
  BY <1>1, <1>2 DEF Coherent, Document
<1>4. Coherent(r)
  BY <1>2, <1>3 DEF Coherent
<1> QED BY <1>3, <1>4

LEMMA InitFollowed == Init => Followed
<1> SUFFICES ASSUME Init PROVE Followed
  OBVIOUS
<1>1. editor \in Buffer /\ doc = NewDocument(editor) /\ batch = 0
  BY DEF Init
<1>2. editor \in Text /\ <<>> \in Text
  BY <1>1, BufferIsText DEF Text
<1>3. /\ doc \in Document /\ doc.content = editor /\ doc.lined = editor
      /\ doc.tokens = <<>> /\ doc.edit = NoRange /\ doc.dirty = FALSE
      /\ doc.index = NoIndex
  BY <1>1, <1>2 DEF NewDocument, Document
<1>4. batch \in 0 .. MaxBatch
  BY <1>1, EditsAssumption
<1> QED BY <1>1, <1>3, <1>4
        DEF Followed, Coherent, ContentIsBuffer, DirtyIsUnanalysed

LEMMA OnDidChangeFollowed ==
  ASSUME Followed, OnDidChange
  PROVE  Followed'
<1>1. /\ editor \in Buffer /\ Coherent(doc)
      /\ doc.content = editor /\ doc.lined = editor
  BY DEF Followed, OnDidChange
<1>2. PICK e \in Edits(editor) :
        \/ /\ doc' \in ApplyChanges(doc, <<Change(editor, e)>>)
           /\ editor' = Edited(editor, e)
           /\ batch' = 1
        \/ /\ MaxBatch > 1
           /\ \E f \in Edits(Edited(editor, e)) :
                /\ doc' \in ApplyChanges(doc, <<Change(editor, e),
                                              Change(Edited(editor, e), f)>>)
                /\ editor' = Edited(Edited(editor, e), f)
                /\ batch' = 2
  BY DEF OnDidChange
<1> DEFINE t == Edited(editor, e)
           c == Change(editor, e)
<1>3. t \in Buffer /\ c \in Changes
  BY <1>1, <1>2, EditType, ChangeType
<1>4. CASE /\ doc' \in ApplyChanges(doc, <<c>>)
           /\ editor' = t
           /\ batch' = 1
  <2>1. \A r \in Applied(doc, <<c>>) : r.content = t
    BY <1>1, ChangeIsEdit DEF Applied
  <2> HIDE DEF t, c
  <2> DEFINE cs == <<c>>
  <2>2. cs[1] \in Changes /\ Len(cs) = 1
    BY <1>3
  <2> HIDE DEF cs
  <2>3. /\ Coherent(doc') /\ doc'.lined = doc'.content /\ doc'.index = NoIndex
        /\ \E r \in Applied(doc, cs) : doc'.content = r.content
    BY <1>1, <1>4, <2>2, ApplyChangesFollowed DEF cs
  <2>4. doc'.content = editor' /\ editor' \in Buffer /\ batch' \in 0 .. MaxBatch
    BY <1>3, <1>4, <2>1, <2>3, EditsAssumption DEF cs
  <2> QED BY <2>3, <2>4 DEF Followed, ContentIsBuffer, DirtyIsUnanalysed
<1>5. CASE /\ MaxBatch > 1
           /\ \E f \in Edits(t) :
                /\ doc' \in ApplyChanges(doc, <<c, Change(t, f)>>)
                /\ editor' = Edited(t, f)
                /\ batch' = 2
  <2>1. PICK f \in Edits(t) : /\ doc' \in ApplyChanges(doc, <<c, Change(t, f)>>)
                              /\ editor' = Edited(t, f)
                              /\ batch' = 2
    BY <1>5
  <2> HIDE DEF t, c
  <2>2. Edited(t, f) \in Buffer /\ Change(t, f) \in Changes
    BY <1>3, EditType, ChangeType
  <2> DEFINE cs == <<c, Change(t, f)>>
  <2>3. cs[1] \in Changes /\ cs[2] \in Changes /\ Len(cs) = 2
    BY <1>3, <2>2
  <2> HIDE DEF cs
  <2>4. /\ Coherent(doc') /\ doc'.lined = doc'.content /\ doc'.index = NoIndex
    BY <1>1, <2>1, <2>3, ApplyChangesFollowed DEF cs
  <2>5. editor' \in Buffer /\ batch' \in 0 .. MaxBatch /\ ~ (batch' < 2)
    BY <1>5, <2>1, <2>2, EditsAssumption
  <2> QED BY <2>4, <2>5 DEF Followed, ContentIsBuffer, DirtyIsUnanalysed
<1> QED BY <1>2, <1>4, <1>5

LEMMA AnalyseFollowed ==
  ASSUME Followed, Analyse
  PROVE  Followed'
<1> DEFINE s == Settled(doc)
<1>1. /\ Coherent(doc) /\ doc.content \in Text /\ doc.lined = doc.content
      /\ editor' = editor /\ batch' = batch
  BY DEF Followed, Analyse, Coherent, Document
<1>2. PICK parses \in BOOLEAN :
        doc' = IF parses THEN [s EXCEPT !.edit = NoRange,
                                 !.index = doc.content, !.lined = doc.content]
               ELSE [s EXCEPT !.edit = NoRange]
  BY DEF Analyse
<1>3. /\ Coherent(s) /\ s.content = doc.content /\ s.lined = doc.content
      /\ s.index = doc.index /\ s.dirty = FALSE
  <2>1. CASE doc.dirty
    <3>1. s = [doc EXCEPT !.dirty = FALSE]
      BY <2>1 DEF Settled
    <3> QED BY <1>1, <3>1 DEF Coherent, Document
  <2>2. CASE ~ doc.dirty
    <3>1. s = RelexAll(doc)
      BY <2>2 DEF Settled
    <3>2. /\ s.lined = doc.lined /\ s.index = doc.index
          /\ s.dirty = doc.dirty
      BY <1>1, <3>1 DEF RelexAll, Coherent, Document
    <3>3. doc.dirty = FALSE
      BY <1>1, <2>2 DEF Coherent, Document
    <3>4. Coherent(s) /\ s.content = doc.content
      BY <1>1, <3>1, RelexAllCoherent DEF Coherent
    <3> QED BY <1>1, <3>2, <3>3, <3>4
  <2> QED BY <2>1, <2>2
<1> HIDE DEF s
<1>4. /\ doc' \in Document /\ doc'.content = doc.content
      /\ doc'.lined = doc.content /\ doc'.index \in {doc.content, doc.index}
      /\ doc'.edit = NoRange /\ doc'.dirty = FALSE /\ doc'.tokens = s.tokens
      /\ doc'.strayed = s.strayed
  BY <1>1, <1>2, <1>3 DEF Coherent, Document
<1>5. Coherent(doc')
  BY <1>3, <1>4 DEF Coherent
<1> QED BY <1>1, <1>4, <1>5 DEF Followed, ContentIsBuffer, DirtyIsUnanalysed

THEOREM AlwaysFollowed == Spec => []Followed
<1>1. Followed /\ [Next]_vars => Followed'
  <2> SUFFICES ASSUME Followed, [Next]_vars PROVE Followed'
    OBVIOUS
  <2>1. CASE UNCHANGED vars
    BY <2>1 DEF vars, Followed, Coherent, ContentIsBuffer, DirtyIsUnanalysed
  <2> QED BY <2>1, OnDidChangeFollowed, AnalyseFollowed DEF Next
<1> QED BY <1>1, InitFollowed, PTL DEF Spec
-------------------------------------------------------------------------------
(***************************************************************************)
(* The properties of DocumentEdits.                                        *)
(***************************************************************************)

\* The fields of a Document keep their types, and an edit range that is
\* remembered is in order: apply_change replaces the whole text when it is not.
THEOREM DocumentTyped == Spec => []TypeOK
<1>1. Followed => TypeOK
  <2> SUFFICES ASSUME Followed PROVE TypeOK
    OBVIOUS
  <2>1. doc \in Document /\ (doc.edit # NoRange => doc.edit[1] <= doc.edit[2])
    BY DEF Followed, Coherent
  <2> QED BY <2>1 DEF Followed, TypeOK, Document, Text
<1> QED BY <1>1, AlwaysFollowed, PTL

\* After a notification with one change, and through the analyses behind it,
\* the content of the document is the buffer of the editor: apply_change looks
\* the positions up in the line index of the very text they are of.
THEOREM SingleChangesFollowed == Spec => []ContentIsBuffer
<1>1. Followed => ContentIsBuffer
  BY DEF Followed
<1> QED BY <1>1, AlwaysFollowed, PTL

\* A position in the content is resolved by the line index of the document
\* to the offset it was made from, after any notifications: apply_changes and
\* the analysis renew the index with the content.
THEOREM PositionsResolved == Spec => []PositionsResolve
<1>1. Followed => PositionsResolve
  <2> SUFFICES ASSUME Followed PROVE PositionsResolve
    OBVIOUS
  <2>1. doc.content \in Seq(Char) /\ doc.lined = doc.content
    BY DEF Followed, Coherent, Document, Text
  <2> QED BY <2>1, RoundTrip DEF PositionsResolve
<1> QED BY <1>1, AlwaysFollowed, PTL

\* The tokens that are kept, relexed or those of an analysis, are those of the
\* content: full_replace drops them, and every other change relexes them, in
\* whole or in part.  Since texts not read line by line were relexed in part,
\* and until tokens are made of the whole text again, they may be any.
THEOREM TokensFollowContent == Spec => []TokensAreOfContent
<1>1. Followed => TokensAreOfContent
  BY DEF Followed, Coherent, TokensAreOfContent
<1> QED BY <1>1, AlwaysFollowed, PTL

\* Tokens marked as relexed wait for an analysis, and an index that is kept is
\* the one of the content: apply_changes drops the analysis with the old text.
THEOREM AnalysisFollowsContent == Spec => []DirtyIsUnanalysed
<1>1. Followed => DirtyIsUnanalysed
  BY DEF Followed
<1> QED BY <1>1, AlwaysFollowed, PTL
===============================================================================
