--------------------------- MODULE SnekServerProofs ---------------------------
(***************************************************************************)
(* Theorems about the main loop, for any documents, files, texts and       *)
(* versions.  The argument goes in layers: type correctness; that work is  *)
(* only due for an open document, at its version and without an index      *)
(* (Due, which is inductive once it also says that a document is never     *)
(* both in the debouncer and in the list of a tick); what is published;    *)
(* and, from these, that the loop implements DiagnosticsService.           *)
(***************************************************************************)
EXTENDS SnekServer, TLAPS

\* The steps that leave documents, their due work and their diagnostics
\* alone.
QuietStep ==
  \/ \E S \in SUBSET Uri : OnDidChangeWatchedFiles(S)
  \/ \E f \in File : QueryIndex(f)
  \/ ProcessedAll
  \/ \E f \in File : DrainReceive(f)
  \/ DrainEmpty
  \/ DrainEnd
  \/ Loader
  \/ \E f \in File, t \in Text \cup {NoText} : DiskWrite(f, t)

\* Every step is quiet, or one of six about documents.
LEMMA NextCases ==
  ASSUME Next
  PROVE  \/ \E u \in Uri, t \in Text, v \in Version :
              \/ OnDidOpen(u, t, v)
              \/ OnDidChangeUnopened(u, t, v)
              \/ \E e \in EditRange : OnDidChange(u, t, v, e)
         \/ \E u \in Uri : OnDidClose(u) \/ ProcessDebounced(u)
         \/ \E R \in D!ReadySets(pending) : Tick(R)
         \/ QuietStep
BY DEF Next, OnNotification, OnTick, QuietStep

\* A quiet step does what its name says.
LEMMA QuietStepIsQuiet ==
  ASSUME QuietStep
  PROVE  UNCHANGED <<documents, pending, work, published>>
BY DEF QuietStep, OnDidChangeWatchedFiles, QueryIndex, ProcessedAll,
       DrainReceive, DrainEmpty, DrainEnd, Loader, LoaderRead, LoaderSend,
       DiskWrite, server

\* A document is not the mark of a document that is not open.
LEMMA DocumentIsNotNoDoc ==
  ASSUME NEW d \in DocumentState
  PROVE  d # NoDoc
BY SentinelsAssumption

\* What Document::new and apply_changes make are documents.
LEMMA NewDocumentType ==
  ASSUME NEW t \in Text, NEW v \in Version
  PROVE  NewDocument(t, v) \in DocumentState
BY DEF NewDocument, DocumentState, EditRange

LEMMA ApplyChangesType ==
  ASSUME NEW d \in DocumentState, NEW t \in Text, NEW v \in Version,
         NEW e \in EditRange
  PROVE  ApplyChanges(d, t, v, e) \in DocumentState
BY DEF ApplyChanges, DocumentState

\* schedule, cancel and take_ready keep the debouncer a map of work.
LEMMA ScheduleType ==
  ASSUME NEW p \in D!Pending, NEW u \in Uri, NEW v \in Version
  PROVE  D!Schedule(p, u, v) \in D!Pending
BY DEF D!Schedule, D!Pending, D!Work

LEMMA CancelType ==
  ASSUME NEW p \in D!Pending, NEW u \in Uri
  PROVE  D!Cancel(p, u) \in D!Pending
BY DEF D!Cancel, D!Pending

LEMMA TakeReadyType ==
  ASSUME NEW p \in D!Pending, NEW R \in D!ReadySets(p)
  PROVE  /\ D!Taken(p, R) \in [Uri -> Version \cup {NoWork}]
         /\ D!Retained(p, R) \in D!Pending
BY DEF D!Taken, D!Retained, D!Pending, D!Work, D!ReadySets, D!Scheduled

\* Salsa's early cutoff keeps an index of an equal parse result.
LEMMA ReindexedIsOfText ==
  ASSUME NEW f \in File, NEW t \in Text,
         memo \in [File -> Text \cup {NoText}]
  PROVE  /\ Reindexed(f, t) \in Text
         /\ ParseClass[Reindexed(f, t)] = ParseClass[t]
BY DEF Reindexed
-------------------------------------------------------------------------------
(***************************************************************************)
(* Type correctness.                                                       *)
(***************************************************************************)
\* An analysis keeps the types of what it writes.
LEMMA AnalyseType ==
  ASSUME TypeOK, NEW u \in Uri, IsOpen(u), Analyse(u)
  PROVE  /\ documents' \in [Uri -> DocumentState \cup {NoDoc}]
         /\ content' \in [File -> Text \cup {NoText}]
         /\ memo' \in [File -> Text \cup {NoText}]
         /\ published' \in [Uri -> Diagnostics \cup {Cleared}]
<1> DEFINE doc == documents[u]
           f == FileOf[u]
           idx == IndexOf(f, doc.text)
<1>1. doc \in DocumentState
  BY DEF TypeOK, IsOpen
<1>2. /\ doc.text \in Text
      /\ doc.index \in Text \cup {NoIndex}
      /\ f \in File
  BY <1>1, ConstantsAssumption DEF DocumentState
<1>3. idx \in Text \cup {NoIndex}
  BY <1>2, ReindexedIsOfText DEF IndexOf, TypeOK
<1>4. documents' \in [Uri -> DocumentState \cup {NoDoc}]
  <2>1. [doc EXCEPT !.edit = "none",
                    !.index = IF idx # NoIndex THEN idx ELSE @]
          \in DocumentState
    BY <1>1, <1>3 DEF DocumentState, EditRange
  <2> QED BY <2>1 DEF Analyse, TypeOK
<1>5. content' \in [File -> Text \cup {NoText}]
  BY <1>2 DEF Analyse, TypeOK
<1>6. memo' \in [File -> Text \cup {NoText}]
  <2>1. \A g \in File :
          g = f \/ content[g] # NoText => content'[g] \in Text
    BY <1>2 DEF Analyse, TypeOK
  <2>2. \A g \in File :
          g = f \/ content[g] # NoText => Reindexed(g, content'[g]) \in Text
    BY <2>1, ReindexedIsOfText DEF TypeOK
  <2> QED BY <2>2 DEF Analyse, TypeOK
<1>7. published' \in [Uri -> Diagnostics \cup {Cleared}]
  BY <1>2, <1>3 DEF Analyse, TypeOK, Diagnostics
<1> QED BY <1>4, <1>5, <1>6, <1>7

\* TypeOK is an invariant: in particular take_ready hands versions to the
\* tick, the database never holds a text that was not read, and diagnostics
\* are complete records.
THEOREM TypeCorrect == Spec => []TypeOK
<1>1. Init => TypeOK
  BY ConstantsAssumption
  DEF Init, TypeOK, D!NothingPending, D!Pending
<1>2. TypeOK /\ [Next]_vars => TypeOK'
  <2> SUFFICES ASSUME TypeOK, [Next]_vars PROVE TypeOK'
    OBVIOUS
  <2> USE DEF TypeOK
  <2>1. ASSUME NEW u \in Uri, NEW t \in Text, NEW v \in Version,
               OnDidOpen(u, t, v)
        PROVE  TypeOK'
    BY <2>1, NewDocumentType, ScheduleType, ConstantsAssumption DEF OnDidOpen
  <2>2. ASSUME NEW u \in Uri, NEW t \in Text, NEW v \in Version,
               OnDidChangeUnopened(u, t, v)
        PROVE  TypeOK'
    BY <2>2, NewDocumentType, ScheduleType DEF OnDidChangeUnopened
  <2>3. ASSUME NEW u \in Uri, NEW t \in Text, NEW v \in Version,
               NEW e \in EditRange, OnDidChange(u, t, v, e)
        PROVE  TypeOK'
    <3>1. documents[u] \in DocumentState
      BY <2>3 DEF OnDidChange, IsOpen
    <3>2. documents' \in [Uri -> DocumentState \cup {NoDoc}]
      BY <2>3, <3>1, ApplyChangesType DEF OnDidChange
    <3> QED BY <2>3, <3>2, ScheduleType DEF OnDidChange
  <2>4. ASSUME NEW u \in Uri, OnDidClose(u) PROVE TypeOK'
    BY <2>4, CancelType DEF OnDidClose, DiagnosticsCleared, OverlayRemoved
  <2>5. ASSUME NEW S \in SUBSET Uri, OnDidChangeWatchedFiles(S) PROVE TypeOK'
    BY <2>5 DEF OnDidChangeWatchedFiles, VfsRead
  <2>6. ASSUME NEW f \in File, QueryIndex(f) PROVE TypeOK'
    BY <2>6, ReindexedIsOfText DEF QueryIndex
  <2>7. ASSUME NEW R \in D!ReadySets(pending), Tick(R) PROVE TypeOK'
    BY <2>7, TakeReadyType DEF Tick
  <2>8. ASSUME NEW u \in Uri, ProcessDebounced(u) PROVE TypeOK'
    <3>1. CASE IsCurrent(u)
      BY <2>8, <3>1, AnalyseType DEF ProcessDebounced, IsCurrent
    <3>2. CASE ~ IsCurrent(u)
      BY <2>8, <3>2 DEF ProcessDebounced
    <3> QED BY <3>1, <3>2
  <2>9. CASE ProcessedAll \/ DrainEmpty \/ DrainEnd
    BY <2>9 DEF ProcessedAll, DrainEmpty, DrainEnd
  <2>10. ASSUME NEW f \in File, DrainReceive(f) PROVE TypeOK'
    BY <2>10 DEF DrainReceive
  <2>11. ASSUME NEW f \in File, LoaderRead(f) \/ LoaderSend(f) PROVE TypeOK'
    BY <2>11 DEF LoaderRead, LoaderSend, server
  <2>12. ASSUME NEW f \in File, NEW t \in Text \cup {NoText}, DiskWrite(f, t)
         PROVE  TypeOK'
    BY <2>12 DEF DiskWrite, server
  <2>13. CASE UNCHANGED vars
    BY <2>13 DEF vars, server
  <2> QED
    BY <2>1, <2>2, <2>3, <2>4, <2>5, <2>6, <2>7, <2>8, <2>9, <2>10, <2>11,
       <2>12, <2>13
    DEF Next, OnNotification, OnTick, Loader
<1> QED BY <1>1, <1>2, PTL DEF Spec
-------------------------------------------------------------------------------
(***************************************************************************)
(* Work that is due.                                                       *)
(***************************************************************************)
\* What makes DueWorkIsCurrent inductive: the list of a tick is only used in
\* the tick, and a document in it is no longer in the debouncer.
WorkIsTicked ==
  \A u \in Uri : work[u] # NoWork => pc = "process" /\ pending[u] = NoWork

Due == WorkIsTicked /\ DueWorkIsCurrent

\* A document that is new, or was just changed, and its work fit together.
LEMMA ScheduledIsDue ==
  ASSUME TypeOK, Due, pc = "select", NEW u \in Uri, NEW v \in Version,
         NEW d \in DocumentState, d.version = v, d.index = NoIndex,
         documents' = [documents EXCEPT ![u] = d],
         pending' = D!Schedule(pending, u, v), UNCHANGED <<work, pc>>
  PROVE  Due'
<1>1. \A w \in Uri : work[w] = NoWork /\ work'[w] = NoWork
  BY DEF Due, WorkIsTicked
<1>2. \A w \in Uri : w # u => /\ pending'[w] = pending[w]
                              /\ documents'[w] = documents[w]
  BY DEF D!Schedule, TypeOK, D!Pending
<1>3. pending'[u].version = v /\ documents'[u] = d
  BY DEF D!Schedule, TypeOK, D!Pending
<1> QED
  BY <1>1, <1>2, <1>3, DocumentIsNotNoDoc
  DEF Due, WorkIsTicked, DueWorkIsCurrent, IsOpen

\* A tick moves work from the debouncer to its list as it is.
LEMMA TickKeepsDue ==
  ASSUME TypeOK, Due, NEW R \in D!ReadySets(pending), Tick(R)
  PROVE  Due'
<1>1. \A u \in Uri : work[u] = NoWork
  BY DEF Due, WorkIsTicked, Tick
<1>2. \A u \in R : u \in Uri /\ pending[u] # NoWork
  BY DEF D!ReadySets, D!Scheduled
<1>3. \A u \in Uri : work'[u] # NoWork =>
        pending[u] # NoWork /\ work'[u] = pending[u].version
                           /\ pending'[u] = NoWork
  BY <1>2 DEF Tick, D!Taken, D!Retained
<1>4. \A u \in Uri : pending'[u] # NoWork =>
        pending[u] # NoWork /\ pending'[u].version = pending[u].version
  BY DEF Tick, D!Retained, TypeOK, D!Pending, D!Work
<1> QED
  BY <1>3, <1>4
  DEF Tick, Due, WorkIsTicked, DueWorkIsCurrent, IsOpen

\* Processing one document takes it off the list; the others stay as they
\* are.
LEMMA ProcessKeepsDue ==
  ASSUME TypeOK, Due, NEW u \in Uri, ProcessDebounced(u)
  PROVE  Due'
<1>1. work'[u] = NoWork /\ pending'[u] = NoWork
  BY DEF ProcessDebounced, Due, WorkIsTicked, TypeOK
<1>2. \A w \in Uri : w # u => /\ documents'[w] = documents[w]
                              /\ work'[w] = work[w]
  BY DEF ProcessDebounced, Analyse, TypeOK
<1> QED
  BY <1>1, <1>2
  DEF ProcessDebounced, Due, WorkIsTicked, DueWorkIsCurrent, IsOpen

\* Due is inductive.
LEMMA DueIsInductive ==
  /\ Init => Due
  /\ TypeOK /\ Due /\ [Next]_vars => Due'
<1>1. Init => Due
  BY DEF Init, Due, WorkIsTicked, DueWorkIsCurrent, D!NothingPending
<1>2. ASSUME TypeOK, Due, [Next]_vars PROVE Due'
  <2>1. ASSUME NEW u \in Uri, NEW t \in Text, NEW v \in Version,
               OnDidOpen(u, t, v) \/ OnDidChangeUnopened(u, t, v)
        PROVE  Due'
    <3>1. NewDocument(t, v).version = v /\ NewDocument(t, v).index = NoIndex
      BY DEF NewDocument
    <3> QED
      BY <1>2, <2>1, <3>1, NewDocumentType, ScheduledIsDue
      DEF OnDidOpen, OnDidChangeUnopened
  <2>2. ASSUME NEW u \in Uri, NEW t \in Text, NEW v \in Version,
               NEW e \in EditRange, OnDidChange(u, t, v, e)
        PROVE  Due'
    <3> DEFINE d == ApplyChanges(documents[u], t, v, e)
    <3>1. documents[u] \in DocumentState
      BY <1>2, <2>2 DEF OnDidChange, IsOpen, TypeOK
    <3>2. d \in DocumentState /\ d.version = v /\ d.index = NoIndex
      BY <3>1, ApplyChangesType DEF ApplyChanges, DocumentState
    <3> QED
      BY <1>2, <2>2, <3>2, ScheduledIsDue DEF OnDidChange
  <2>3. ASSUME NEW u \in Uri, OnDidClose(u) PROVE Due'
    BY <1>2, <2>3
    DEF OnDidClose, D!Cancel, Due, WorkIsTicked, DueWorkIsCurrent, IsOpen,
        TypeOK, D!Pending
  <2>4. ASSUME NEW R \in D!ReadySets(pending), Tick(R) PROVE Due'
    BY <1>2, <2>4, TickKeepsDue
  <2>5. ASSUME NEW u \in Uri, ProcessDebounced(u) PROVE Due'
    BY <1>2, <2>5, ProcessKeepsDue
  <2>6. CASE QuietStep
    <3>1. pc = "process" => pc' = "process" \/ ProcessedAll
      BY <2>6
      DEF QuietStep, OnDidChangeWatchedFiles, QueryIndex, DrainReceive,
          DrainEmpty, DrainEnd, Loader, LoaderRead, LoaderSend, DiskWrite,
          server
    <3>2. ProcessedAll => \A u \in Uri : work[u] = NoWork
      BY DEF ProcessedAll, D!NothingPending
    <3> QED
      BY <1>2, <2>6, <3>1, <3>2, QuietStepIsQuiet
      DEF Due, WorkIsTicked, DueWorkIsCurrent, IsOpen
  <2>7. CASE UNCHANGED vars
    BY <1>2, <2>7
    DEF vars, server, Due, WorkIsTicked, DueWorkIsCurrent, IsOpen
  <2> QED
    BY <1>2, <2>1, <2>2, <2>3, <2>4, <2>5, <2>6, <2>7, NextCases
<1> QED BY <1>1, <1>2

\* No scheduled analysis is ever thrown away: when process_debounced comes
\* to an entry, the document is open at the entry's version, and has no
\* index.
THEOREM WorkIsCurrent == Spec => []DueWorkIsCurrent
<1>1. Spec => []Due
  BY TypeCorrect, DueIsInductive, PTL DEF Spec
<1>2. Due => DueWorkIsCurrent
  BY DEF Due
<1> QED BY <1>1, <1>2, PTL
-------------------------------------------------------------------------------
(***************************************************************************)
(* What is published.                                                      *)
(***************************************************************************)
\* What processing an entry of the list comes to, as work is never out of
\* date: the complete diagnostics of the text, and the index if there is one.
LEMMA ProcessOutcome ==
  ASSUME TypeOK, Due, NEW u \in Uri, ProcessDebounced(u)
  PROVE  LET d == documents[u]
             idx == IndexOf(FileOf[u], d.text)
         IN  /\ IsOpen(u)
             /\ Analyse(u)
             /\ documents' = [documents EXCEPT
                  ![u] = [d EXCEPT !.edit = "none", !.index = idx]]
             /\ published' = [published EXCEPT
                  ![u] = [errors |-> d.text, semantic |-> idx,
                          scope |-> "whole"]]
<1>1. IsCurrent(u) /\ documents[u].index = NoIndex
  BY DEF Due, DueWorkIsCurrent, ProcessDebounced, IsCurrent
<1>2. Analyse(u) /\ IsOpen(u)
  BY <1>1 DEF ProcessDebounced, IsCurrent
<1>3. documents[u] \in DocumentState
  BY <1>2 DEF IsOpen, TypeOK
<1>4. ~ IsLocalEdit(documents[u])
  BY <1>1 DEF IsLocalEdit
<1> QED
  BY <1>1, <1>2, <1>3, <1>4 DEF Analyse, DocumentState

\* What is published, and the index kept, are those of the text.
LEMMA IndexOfIsOfText ==
  ASSUME TypeOK, NEW f \in File, NEW t \in Text
  PROVE  IF t \in Broken THEN IndexOf(f, t) = NoIndex
                         ELSE SameParse(IndexOf(f, t), t)
BY ReindexedIsOfText DEF IndexOf, SameParse, TypeOK

Published ==
  PublishedIsCurrent /\ IndexIsOfText /\ PublishedIsCoherent /\ ClosedIsCleared

\* Opening or changing a document makes it due, and leaves what is published
\* and the other documents alone.
LEMMA ScheduledKeepsPublished ==
  ASSUME TypeOK, Published, NEW u \in Uri, NEW v \in Version,
         NEW d \in DocumentState, d.index = NoIndex,
         documents' = [documents EXCEPT ![u] = d],
         pending' = D!Schedule(pending, u, v), UNCHANGED <<work, published>>
  PROVE  Published'
<1>1. \A w \in Uri : w # u => /\ documents'[w] = documents[w]
                              /\ pending'[w] = pending[w]
  BY DEF D!Schedule, TypeOK, D!Pending
<1>2. documents'[u] = d /\ d # NoDoc
  BY DocumentIsNotNoDoc DEF TypeOK
<1>3. pending'[u] # NoWork
  <2>1. [version |-> v, waited |-> FALSE] \in D!Work
    BY DEF D!Work
  <2> QED BY <2>1, SentinelsAssumption DEF D!Schedule, TypeOK, D!Pending
<1>4. PublishedIsCurrent'
  BY <1>1, <1>3 DEF Published, PublishedIsCurrent, IsOpen, IsDue
<1>5. IndexIsOfText'
  BY <1>1, <1>2 DEF Published, IndexIsOfText, IsOpen
<1>6. PublishedIsCoherent'
  BY DEF Published, PublishedIsCoherent
<1>7. ClosedIsCleared'
  BY <1>1, <1>2 DEF Published, ClosedIsCleared, IsOpen
<1> QED BY <1>4, <1>5, <1>6, <1>7 DEF Published

\* Nor does processing a document harm what is published.
LEMMA ProcessKeepsPublished ==
  ASSUME TypeOK, Due, Published, NEW u \in Uri, ProcessDebounced(u)
  PROVE  Published'
<1> DEFINE d == documents[u]
           idx == IndexOf(FileOf[u], d.text)
           p == [errors |-> d.text, semantic |-> idx, scope |-> "whole"]
<1>1. d \in DocumentState /\ d.text \in Text /\ FileOf[u] \in File
  BY ProcessOutcome, ConstantsAssumption DEF IsOpen, TypeOK, DocumentState
<1>2. /\ documents'[u] = [d EXCEPT !.edit = "none", !.index = idx]
      /\ published'[u] = p
  BY ProcessOutcome DEF TypeOK
<1>3. /\ documents'[u].text = d.text
      /\ documents'[u].index = idx
  BY <1>1, <1>2 DEF DocumentState
<1>4. \A w \in Uri : w # u => /\ documents'[w] = documents[w]
                              /\ published'[w] = published[w]
                              /\ pending'[w] = pending[w]
                              /\ work'[w] = work[w]
  BY ProcessOutcome, ZenonT(30) DEF TypeOK, ProcessDebounced
<1>5. idx \in Text \cup {NoIndex}
  BY <1>1, IndexOfIsOfText DEF SameParse
<1>6. p # Cleared
  <2>1. p \in Diagnostics
    BY <1>1, <1>5 DEF Diagnostics
  <2> QED BY <2>1, SentinelsAssumption
<1>7. PublishedIsCurrent'
  <2>1. /\ published'[u] # Cleared
        /\ published'[u].errors = documents'[u].text
        /\ published'[u].scope = "whole"
    BY <1>2, <1>3, <1>6
  <2>2. \A w \in Uri : w # u => IsOpen(w)' = IsOpen(w) /\ IsDue(w)' = IsDue(w)
    BY <1>4 DEF IsOpen, IsDue
  <2> QED BY <1>4, <2>1, <2>2 DEF Published, PublishedIsCurrent
<1>8. IndexIsOfText'
  <2>1. idx # NoIndex => SameParse(idx, d.text)
    BY <1>1, IndexOfIsOfText
  <2> QED BY <1>3, <1>4, <2>1 DEF Published, IndexIsOfText, IsOpen
<1>9. PublishedIsCoherent'
  <2>1. IF d.text \in Broken THEN idx = NoIndex ELSE SameParse(idx, d.text)
    BY <1>1, IndexOfIsOfText
  <2> QED BY <1>2, <1>4, <2>1 DEF Published, PublishedIsCoherent
<1>10. ClosedIsCleared'
  BY <1>4, ProcessOutcome, <1>2, <1>1, DocumentIsNotNoDoc, <1>5
  DEF Published, ClosedIsCleared, IsOpen, DocumentState, EditRange
<1> QED BY <1>7, <1>8, <1>9, <1>10 DEF Published

\* Published is inductive, given Due.
LEMMA PublishedIsInductive ==
  /\ Init => Published
  /\ TypeOK /\ Due /\ Published /\ [Next]_vars => Published'
<1>1. Init => Published
  BY DEF Init, Published, PublishedIsCurrent, IndexIsOfText,
         PublishedIsCoherent, ClosedIsCleared, IsOpen
<1>2. ASSUME TypeOK, Due, Published, [Next]_vars PROVE Published'
  <2>1. ASSUME NEW u \in Uri, NEW t \in Text, NEW v \in Version,
               OnDidOpen(u, t, v) \/ OnDidChangeUnopened(u, t, v)
        PROVE  Published'
    <3>1. NewDocument(t, v).index = NoIndex
      BY DEF NewDocument
    <3> QED
      BY <1>2, <2>1, <3>1, NewDocumentType, ScheduledKeepsPublished
      DEF OnDidOpen, OnDidChangeUnopened
  <2>2. ASSUME NEW u \in Uri, NEW t \in Text, NEW v \in Version,
               NEW e \in EditRange, OnDidChange(u, t, v, e)
        PROVE  Published'
    <3> DEFINE d == ApplyChanges(documents[u], t, v, e)
    <3>1. documents[u] \in DocumentState
      BY <1>2, <2>2 DEF OnDidChange, IsOpen, TypeOK
    <3>2. d \in DocumentState /\ d.index = NoIndex
      BY <3>1, ApplyChangesType DEF ApplyChanges, DocumentState
    <3> QED
      BY <1>2, <2>2, <3>2, ScheduledKeepsPublished DEF OnDidChange
  <2>3. ASSUME NEW u \in Uri, OnDidClose(u) PROVE Published'
    BY <1>2, <2>3
    DEF OnDidClose, DiagnosticsCleared, D!Cancel, Published,
        PublishedIsCurrent, IndexIsOfText, PublishedIsCoherent,
        ClosedIsCleared, IsOpen, IsDue, TypeOK, D!Pending
  <2>4. ASSUME NEW R \in D!ReadySets(pending), Tick(R) PROVE Published'
    <3>1. \A u \in Uri : IsDue(u) => IsDue(u)'
      <4>1. \A u \in Uri : work[u] = NoWork
        BY <1>2, <2>4 DEF Due, WorkIsTicked, Tick
      <4>2. \A u \in Uri : pending[u] # NoWork =>
              pending[u].version \in Version /\ pending[u] \in D!Work
        BY <1>2 DEF TypeOK, D!Pending, D!Work
      <4>3. \A u \in Uri : pending[u] # NoWork =>
              [pending[u] EXCEPT !.waited = TRUE] \in D!Work
        BY <4>2 DEF D!Work
      <4> QED
        BY <2>4, <4>1, <4>2, <4>3, SentinelsAssumption
        DEF Tick, D!Taken, D!Retained, IsDue
    <3> QED
      BY <1>2, <2>4, <3>1
      DEF Tick, Published, PublishedIsCurrent, IndexIsOfText,
          PublishedIsCoherent, ClosedIsCleared, IsOpen
  <2>5. ASSUME NEW u \in Uri, ProcessDebounced(u) PROVE Published'
    BY <1>2, <2>5, ProcessKeepsPublished
  <2>6. CASE QuietStep \/ UNCHANGED vars
    <3>1. UNCHANGED <<documents, pending, work, published>>
      BY <2>6, QuietStepIsQuiet DEF vars, server
    <3> QED
      BY <1>2, <3>1
      DEF Published, PublishedIsCurrent, IndexIsOfText, PublishedIsCoherent,
          ClosedIsCleared, IsOpen, IsDue
  <2> QED
    BY <1>2, <2>1, <2>2, <2>3, <2>4, <2>5, <2>6, NextCases
<1> QED BY <1>1, <1>2

\* The three layers together.
LEMMA Layers == Spec => [](TypeOK /\ Due /\ Published)
BY TypeCorrect, DueIsInductive, PublishedIsInductive, PTL DEF Spec

\* No edit is lost: an open document with no analysis due shows the complete
\* errors of the text it has.
THEOREM DiagnosticsAreCurrent == Spec => []PublishedIsCurrent
<1>1. Published => PublishedIsCurrent
  BY DEF Published
<1> QED BY Layers, <1>1, PTL

\* A closed document shows nothing, whatever was still pending for it.
THEOREM NothingAfterClose == Spec => []ClosedIsCleared
<1>1. Published => ClosedIsCleared
  BY DEF Published
<1> QED BY Layers, <1>1, PTL

\* Whatever salsa's early cutoff keeps, the semantic diagnostics published
\* have the parse of the errors beside them ...
THEOREM DiagnosticsAreCoherent == Spec => []PublishedIsCoherent
<1>1. Published => PublishedIsCoherent
  BY DEF Published
<1> QED BY Layers, <1>1, PTL

\* ... and the index of a document has the parse of its text.
THEOREM IndexesAreOfText == Spec => []IndexIsOfText
<1>1. Published => IndexIsOfText
  BY DEF Published
<1> QED BY Layers, <1>1, PTL
-------------------------------------------------------------------------------
(***************************************************************************)
(* Whose the contents in the database are.                                 *)
(***************************************************************************)
\* A file event for other documents, the loader once it is done with the
\* file, a query: none writes the content of a document that is open.
THEOREM ContentIsOwned == Spec => OpenContentIsOwned
<1> DEFINE Owned(u) ==
      /\ IsOpen(u) /\ ~ Shared(u) /\ Delivered(FileOf[u])
      /\ content'[FileOf[u]] # content[FileOf[u]]
      => pc = "process" /\ content'[FileOf[u]] = documents[u].text
<1>1. ASSUME TypeOK, [Next]_vars, NEW u \in Uri PROVE Owned(u)
  <2> DEFINE f == FileOf[u]
  <2> SUFFICES ASSUME IsOpen(u), ~ Shared(u), Delivered(f),
                      content'[f] # content[f]
               PROVE  pc = "process" /\ content'[f] = documents[u].text
    OBVIOUS
  <2>1. f \in File /\ \A w \in Uri : FileOf[w] = f => w = u
    BY ConstantsAssumption DEF Shared
  <2>2. ASSUME NEW S \in SUBSET Uri, OnDidChangeWatchedFiles(S) PROVE FALSE
    <3>1. f \notin {FileOf[w] : w \in Rereadable(S)}
      BY <2>1 DEF Rereadable
    <3> QED BY <2>1, <2>2, <3>1 DEF OnDidChangeWatchedFiles
  <2>3. ASSUME NEW g \in File, DrainReceive(g) PROVE FALSE
    BY <1>1, <2>1, <2>3 DEF DrainReceive, Delivered, TypeOK
  <2>4. ASSUME NEW w \in Uri, ProcessDebounced(w)
        PROVE  pc = "process" /\ content'[f] = documents[u].text
    <3>1. Analyse(w)
      BY <2>4 DEF ProcessDebounced
    <3>2. FileOf[w] = f /\ content'[f] = documents[w].text
      BY <1>1, <2>1, <3>1 DEF Analyse, TypeOK
    <3> QED BY <2>1, <2>4, <3>2 DEF ProcessDebounced
  <2>5. ASSUME UNCHANGED content PROVE FALSE
    BY <2>5
  <2> QED
    BY <1>1, <2>2, <2>3, <2>4, <2>5
    DEF Next, OnNotification, OnTick, Loader, OnDidOpen, OnDidChange,
        OnDidChangeUnopened, OnDidClose, QueryIndex, Tick, ProcessedAll,
        DrainEmpty, DrainEnd, LoaderRead, LoaderSend, DiskWrite, vars, server
<1>2. TypeOK /\ [Next]_vars => [\A u \in Uri : Owned(u)]_vars
  BY <1>1
<1> QED BY <1>2, TypeCorrect, PTL DEF Spec, OpenContentIsOwned

\* Why no overlay is left behind: an overlay has an open document, which takes
\* it away when it closes.
OverlayHasDocument ==
  \A f \in File :
    overlay[f] # NoText => \E u \in Uri : IsOpen(u) /\ FileOf[u] = f

LEMMA OverlaysHaveDocuments == Spec => []OverlayHasDocument
<1>1. Init => OverlayHasDocument
  BY DEF Init, OverlayHasDocument
<1>2. ASSUME TypeOK, OverlayHasDocument, [Next]_vars
      PROVE  OverlayHasDocument'
  <2> SUFFICES ASSUME NEW f \in File, overlay'[f] # NoText
               PROVE  \E u \in Uri : IsOpen(u)' /\ FileOf[u] = f
    BY DEF OverlayHasDocument
  <2>1. ASSUME NEW w \in Uri, NEW d \in DocumentState,
               documents' = [documents EXCEPT ![w] = d],
               overlay' = overlay \/ FileOf[w] = f
        PROVE  \E u \in Uri : IsOpen(u)' /\ FileOf[u] = f
    <3>1. documents'[w] # NoDoc
      BY <1>2, <2>1, DocumentIsNotNoDoc DEF TypeOK
    <3> QED BY <1>2, <2>1, <3>1 DEF OverlayHasDocument, IsOpen, TypeOK
  <2>2. ASSUME NEW w \in Uri, NEW t \in Text, NEW v \in Version,
               OnDidOpen(w, t, v)
        PROVE  \E u \in Uri : IsOpen(u)' /\ FileOf[u] = f
    <3>1. CASE FileOf[w] = f
      BY <2>1, <2>2, <3>1, NewDocumentType DEF OnDidOpen
    <3>2. CASE FileOf[w] # f
      <4>1. overlay'[f] = overlay[f]
        BY <1>2, <2>2, <3>2, ConstantsAssumption DEF OnDidOpen, TypeOK
      <4> QED
        BY <1>2, <2>2, <3>2, <4>1
        DEF OnDidOpen, OverlayHasDocument, IsOpen, TypeOK
    <3> QED BY <3>1, <3>2
  <2>3. ASSUME NEW w \in Uri, NEW t \in Text, NEW v \in Version,
               \/ OnDidChangeUnopened(w, t, v)
               \/ \E e \in EditRange : OnDidChange(w, t, v, e)
        PROVE  \E u \in Uri : IsOpen(u)' /\ FileOf[u] = f
    <3>1. CASE OnDidChangeUnopened(w, t, v)
      BY <2>1, <3>1, NewDocumentType DEF OnDidChangeUnopened
    <3>2. ASSUME NEW e \in EditRange, OnDidChange(w, t, v, e)
          PROVE  \E u \in Uri : IsOpen(u)' /\ FileOf[u] = f
      <4>1. ApplyChanges(documents[w], t, v, e) \in DocumentState
        BY <1>2, <3>2, ApplyChangesType DEF OnDidChange, IsOpen, TypeOK
      <4>2. /\ documents' = [documents EXCEPT
                              ![w] = ApplyChanges(documents[w], t, v, e)]
            /\ overlay' = overlay
        BY <3>2 DEF OnDidChange
      <4> QED BY <2>1, <4>1, <4>2
    <3> QED BY <2>3, <3>1, <3>2
  <2>4. ASSUME NEW w \in Uri, OnDidClose(w)
        PROVE  \E u \in Uri : IsOpen(u)' /\ FileOf[u] = f
    <3>1. overlay[f] # NoText /\ (IsOpen(w) => FileOf[w] # f)
      BY <1>2, <2>4, ConstantsAssumption
      DEF OnDidClose, OverlayRemoved, TypeOK
    <3> QED
      BY <1>2, <2>4, <3>1 DEF OnDidClose, OverlayHasDocument, IsOpen, TypeOK
  <2>5. ASSUME NEW w \in Uri, ProcessDebounced(w)
        PROVE  \E u \in Uri : IsOpen(u)' /\ FileOf[u] = f
    <3>1. overlay' = overlay
      BY <2>5 DEF ProcessDebounced
    <3>2. CASE ~ IsCurrent(w)
      BY <1>2, <2>5, <3>1, <3>2
      DEF ProcessDebounced, OverlayHasDocument, IsOpen
    <3>3. CASE IsCurrent(w)
      <4>1. Analyse(w) /\ IsOpen(w)
        BY <2>5, <3>3 DEF ProcessDebounced, IsCurrent
      <4>2. \A u \in Uri : IsOpen(u) => IsOpen(u)'
        <5>1. documents' \in [Uri -> DocumentState \cup {NoDoc}]
          BY <1>2, <4>1, AnalyseType
        <5> DEFINE idx == IndexOf(FileOf[w], documents[w].text)
                   d == [documents[w] EXCEPT !.edit = "none",
                           !.index = IF idx # NoIndex THEN idx ELSE @]
        <5>2. documents' = [documents EXCEPT ![w] = d]
          BY <4>1 DEF Analyse
        <5>3. documents[w] \in DocumentState
          BY <1>2, <4>1 DEF IsOpen, TypeOK
        <5>4. documents[w].text \in Text /\ FileOf[w] \in File
          BY <5>3, ConstantsAssumption DEF DocumentState
        <5>5. d \in DocumentState
          BY <1>2, <5>3, <5>4, ReindexedIsOfText
          DEF IndexOf, DocumentState, EditRange, TypeOK
        <5> QED
          BY <1>2, <5>2, <5>5, DocumentIsNotNoDoc DEF IsOpen, TypeOK
      <4> QED BY <1>2, <3>1, <4>2 DEF OverlayHasDocument
    <3> QED BY <3>2, <3>3
  <2>6. CASE \/ QuietStep \/ UNCHANGED vars
             \/ \E R \in D!ReadySets(pending) : Tick(R)
    <3>1. documents' = documents /\ overlay' = overlay
      BY <2>6, QuietStepIsQuiet
      DEF vars, server, Tick, QuietStep, OnDidChangeWatchedFiles, QueryIndex,
          ProcessedAll, DrainReceive, DrainEmpty, DrainEnd, Loader,
          LoaderRead, LoaderSend, DiskWrite
    <3> QED BY <1>2, <3>1 DEF OverlayHasDocument, IsOpen
  <2> QED BY <1>2, <2>2, <2>3, <2>4, <2>5, <2>6, NextCases
<1> QED BY <1>1, <1>2, TypeCorrect, PTL DEF Spec

\* A file event brings what is on the disk into the database, unless a
\* document of another URI is open on the path.
THEOREM FileEventsReadDisk == Spec => EventsReadDisk
<1> DEFINE FromDisk(f) ==
      pc = "select" /\ content'[f] # content[f]
      => content'[f] = disk[f] \/ \E u \in Uri : IsOpen(u) /\ FileOf[u] = f
<1>1. ASSUME TypeOK, OverlayHasDocument, [Next]_vars, NEW f \in File
      PROVE  FromDisk(f)
  <2>1. ASSUME NEW S \in SUBSET Uri, OnDidChangeWatchedFiles(S)
        PROVE  FromDisk(f)
    <3>1. content'[f] = content[f] \/ content'[f] = VfsRead(f)
      BY <2>1 DEF OnDidChangeWatchedFiles
    <3> QED BY <1>1, <3>1 DEF VfsRead, OverlayHasDocument
  <2>2. ASSUME \/ \E g \in File : DrainReceive(g)
               \/ \E w \in Uri : ProcessDebounced(w)
        PROVE  FromDisk(f)
    BY <2>2 DEF DrainReceive, ProcessDebounced
  <2>3. ASSUME UNCHANGED content PROVE FromDisk(f)
    BY <2>3
  <2> QED
    BY <1>1, <2>1, <2>2, <2>3
    DEF Next, OnNotification, OnTick, Loader, OnDidOpen, OnDidChange,
        OnDidChangeUnopened, OnDidClose, QueryIndex, Tick, ProcessedAll,
        DrainEmpty, DrainEnd, LoaderRead, LoaderSend, DiskWrite, vars, server
<1>2. TypeOK /\ OverlayHasDocument /\ [Next]_vars
        => [\A f \in File : FromDisk(f)]_vars
  BY <1>1
<1> QED
  BY <1>2, TypeCorrect, OverlaysHaveDocuments, PTL DEF Spec, EventsReadDisk
-------------------------------------------------------------------------------
(***************************************************************************)
(* The diagnostics service.                                                *)
(***************************************************************************)
\* A document opened or changed is an edit of the service.
LEMMA EditStep ==
  ASSUME TypeOK, NEW u \in Uri, NEW d \in DocumentState,
         documents' = [documents EXCEPT ![u] = d], UNCHANGED published
  PROVE  Service!Edit(u, d.text)
<1>1. \A w \in Uri : Buffer(w)' = IF w = u THEN d.text ELSE Buffer(w)
  BY DocumentIsNotNoDoc DEF Buffer, IsOpen, TypeOK
<1>2. \A w \in Uri : Shown(w)' = Shown(w)
  BY DEF Shown
<1> QED BY <1>1, <1>2 DEF Service!Edit

LEMMA CloseStep ==
  ASSUME TypeOK, NEW u \in Uri, OnDidClose(u)
  PROVE  Service!Close(u)
<1>1. \A w \in Uri : Buffer(w)' = IF w = u THEN NoDoc ELSE Buffer(w)
  BY DEF OnDidClose, Buffer, IsOpen, TypeOK
<1>2. \A w \in Uri : Shown(w)' = IF w = u THEN "nothing" ELSE Shown(w)
  BY DEF OnDidClose, DiagnosticsCleared, Shown, TypeOK
<1> QED BY <1>1, <1>2 DEF Service!Close

\* An analysis publishes: everything, and of the text the document has.
LEMMA PublishStep ==
  ASSUME TypeOK, Due, NEW u \in Uri, ProcessDebounced(u)
  PROVE  Service!Publish(u)
<1> DEFINE d == documents[u]
           idx == IndexOf(FileOf[u], d.text)
           p == [errors |-> d.text, semantic |-> idx, scope |-> "whole"]
           e == [d EXCEPT !.edit = "none", !.index = idx]
<1>1. /\ IsOpen(u)
      /\ documents' = [documents EXCEPT ![u] = e]
      /\ published' = [published EXCEPT ![u] = p]
  BY ProcessOutcome
<1>2. d \in DocumentState /\ d.text \in Text /\ FileOf[u] \in File
  BY <1>1, ConstantsAssumption DEF IsOpen, TypeOK, DocumentState
<1>3. idx \in Text \cup {NoIndex}
  BY <1>2, IndexOfIsOfText DEF SameParse
<1>4. e \in DocumentState /\ e.text = d.text
  BY <1>2, <1>3 DEF DocumentState, EditRange
<1>5. p # Cleared
  <2>1. p \in Diagnostics
    BY <1>2, <1>3 DEF Diagnostics
  <2> QED BY <2>1, SentinelsAssumption
<1>6. \A w \in Uri : Buffer(w)' = Buffer(w)
  BY <1>1, <1>4, DocumentIsNotNoDoc DEF Buffer, IsOpen, TypeOK
<1>7. \A w \in Uri : Shown(w)' = IF w = u THEN d.text ELSE Shown(w)
  BY <1>1, <1>5 DEF Shown, TypeOK
<1>8. Buffer(u) = d.text /\ d.text # NoDoc
  BY <1>1, <1>2, SentinelsAssumption DEF Buffer
<1> QED BY <1>6, <1>7, <1>8 DEF Service!Publish

\* The main loop implements the diagnostics service: editing, closing and
\* publishing are the only steps the editor can tell from doing nothing.
THEOREM ServiceIsImplemented == Spec => ImplementsService
<1>1. Init => Service!Init
  BY DEF Init, Service!Init, Buffer, Shown, IsOpen
<1>2. ASSUME TypeOK, Due, [Next]_vars
      PROVE  Service!Next \/ UNCHANGED Service!vars
  <2>1. ASSUME NEW u \in Uri, NEW t \in Text, NEW v \in Version,
               OnDidOpen(u, t, v) \/ OnDidChangeUnopened(u, t, v)
        PROVE  Service!Next
    <3>1. NewDocument(t, v).text = t
      BY DEF NewDocument
    <3>2. Service!Edit(u, t)
      BY <1>2, <2>1, <3>1, NewDocumentType, EditStep
      DEF OnDidOpen, OnDidChangeUnopened
    <3> QED BY <3>2 DEF Service!Next
  <2>2. ASSUME NEW u \in Uri, NEW t \in Text, NEW v \in Version,
               NEW e \in EditRange, OnDidChange(u, t, v, e)
        PROVE  Service!Next
    <3> DEFINE d == ApplyChanges(documents[u], t, v, e)
    <3>1. documents[u] \in DocumentState
      BY <1>2, <2>2 DEF OnDidChange, IsOpen, TypeOK
    <3>2. d \in DocumentState /\ d.text = t
      BY <3>1, ApplyChangesType DEF ApplyChanges, DocumentState
    <3>3. Service!Edit(u, t)
      BY <1>2, <2>2, <3>2, EditStep DEF OnDidChange
    <3> QED BY <3>3 DEF Service!Next
  <2>3. ASSUME NEW u \in Uri, OnDidClose(u) PROVE Service!Next
    BY <1>2, <2>3, CloseStep DEF Service!Next
  <2>4. ASSUME NEW u \in Uri, ProcessDebounced(u) PROVE Service!Next
    BY <1>2, <2>4, PublishStep DEF Service!Next
  <2>5. CASE \/ QuietStep \/ UNCHANGED vars
             \/ \E R \in D!ReadySets(pending) : Tick(R)
    <3>1. UNCHANGED <<documents, published>>
      BY <2>5, QuietStepIsQuiet DEF vars, server, Tick
    <3>2. \A u \in Uri : Buffer(u)' = Buffer(u) /\ Shown(u)' = Shown(u)
      BY <3>1 DEF Buffer, Shown, IsOpen
    <3> QED BY <3>2 DEF Service!vars
  <2> QED BY <1>2, <2>1, <2>2, <2>3, <2>4, <2>5, NextCases
<1>3. TypeOK /\ Due /\ [Next]_vars => [Service!Next]_Service!vars
  BY <1>2
<1> QED
  BY <1>1, <1>3, Layers, PTL DEF Spec, ImplementsService, Service!Spec
===============================================================================
