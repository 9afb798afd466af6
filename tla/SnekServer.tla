------------------------------ MODULE SnekServer ------------------------------
(***************************************************************************)
(* The main loop of the language server (crates/sneklsp_server): one       *)
(* thread that multiplexes the client's messages and a 50 ms ticker, a     *)
(* background thread that reads the workspace's files, the documents the   *)
(* editor has open, the debouncer, the overlays of the VFS, the salsa      *)
(* database behind AnalysisHost, and the diagnostics published last.       *)
(*                                                                         *)
(* A message handler runs to completion on the main thread and is one      *)
(* step.  A tick is several: one per document analysed, one per file       *)
(* received from the loader; meanwhile the loader and other programs       *)
(* writing to the disk go on, while no message is handled.                 *)
(*                                                                         *)
(* Texts are opaque.  What the analysis of a text yields is its parse      *)
(* errors, and an index unless the text is Broken (queries.rs: no index    *)
(* when nothing parsed and there are errors).  Salsa keeps an old index    *)
(* when the new one compares equal, and OwnedIndex compares by a hash of   *)
(* positions and kinds that leaves the names out: texts of one ParseClass  *)
(* are those whose parse results compare equal.                            *)
(***************************************************************************)
EXTENDS Naturals, FiniteSets

CONSTANTS
  Uri,         \* document URIs the client uses
  File,        \* FileIds: interned paths
  FileOf,      \* Workspace::file_id_for_uri; two URIs may share a path
  Text,        \* contents
  ParseClass,  \* the equality of parse results, as a class per text
  Broken,      \* texts whose analysis yields no index
  MaxVersion,  \* bound: the client's versions are 1..MaxVersion
  WorkspaceFiles,  \* files the background thread was started with
  NoDoc, NoText, NoIndex, NoWork, Cleared

Version == 1 .. MaxVersion

D == INSTANCE Debouncer

\* Document::last_edit_range: none, or a range that lies within exactly one
\* function or class scope (can_update_incrementally is Some), or another.
EditRange == {"none", "within", "across"}

DocumentState == [text    : Text,
                  version : Version,
                  index   : Text \cup {NoIndex},
                  edit    : EditRange]

Diagnostics == [errors   : Text,
                semantic : Text \cup {NoIndex},
                scope    : {"whole", "edit"}]

ASSUME ConstantsAssumption ==
  /\ FileOf \in [Uri -> File]
  /\ DOMAIN ParseClass = Text
  /\ Broken \subseteq Text
  /\ \A s, t \in Text :
       ParseClass[s] = ParseClass[t] => (s \in Broken <=> t \in Broken)
  /\ MaxVersion \in Nat
  /\ WorkspaceFiles \subseteq File

ASSUME SentinelsAssumption ==
  /\ NoDoc \notin DocumentState \cup Text
  /\ NoText \notin Text
  /\ NoIndex \notin Text
  /\ NoWork \notin D!Work
  /\ NoWork \notin Version
  /\ Cleared \notin Diagnostics

VARIABLES
  documents,  \* Server::documents
  pending,    \* Server::debouncer
  work,       \* entries take_ready returned, not yet processed
  pc,         \* where the main thread is: select!, the tick's two calls
  overlay,    \* Vfs: FileEntry::overlay
  content,    \* salsa input File::content, NoText before File::new
  memo,       \* salsa: the text file_index was last computed from
  unread,     \* files the loader thread has still to read
  held,       \* the text it has read and not sent yet
  sent,       \* texts in the loader's channel
  disk,       \* external: the files, NoText if not readable
  published   \* external: the client's view of each document's diagnostics

server == <<documents, pending, work, pc, overlay, content, memo, published>>
vars == <<server, unread, held, sent, disk>>

IsOpen(u) == documents[u] # NoDoc
-------------------------------------------------------------------------------
Init ==
  /\ documents = [u \in Uri |-> NoDoc]
  /\ pending = D!NothingPending
  /\ work = D!NothingPending
  /\ pc = "select"
  /\ overlay = [f \in File |-> NoText]
  /\ content = [f \in File |-> NoText]
  /\ memo = [f \in File |-> NoText]
  /\ unread = WorkspaceFiles
  /\ held = [f \in File |-> NoText]
  /\ sent = [f \in File |-> NoText]
  /\ disk \in [File -> Text \cup {NoText}]
  /\ published = [u \in Uri |-> Cleared]
-------------------------------------------------------------------------------
(***************************************************************************)
(* Notifications.                                                          *)
(***************************************************************************)
\* Document::new
NewDocument(t, v) ==
  [text |-> t, version |-> v, index |-> NoIndex, edit |-> "none"]

\* Fault: the index survives the change.
ApplyChangesKeepingIndex(doc, t, v, e) ==
  [doc EXCEPT !.text = t, !.version = v, !.edit = e]

\* Document::apply_changes, for changes that turn the text into t and leave
\* e as last_edit_range.  How positions become a new text is DocumentEdits.
ApplyChanges(doc, t, v, e) ==
  [doc EXCEPT !.text = t, !.version = v, !.index = NoIndex, !.edit = e]

\* The client opens a document it does not have open; versions start anew.
OnDidOpen(u, t, v) ==
  /\ pc = "select"
  /\ ~ IsOpen(u)
  /\ overlay' = [overlay EXCEPT ![FileOf[u]] = t]
  /\ documents' = [documents EXCEPT ![u] = NewDocument(t, v)]
  /\ pending' = D!Schedule(pending, u, v)
  /\ UNCHANGED <<work, pc, content, memo, unread, held, sent, disk, published>>

\* A later version of an open document.  The overlay is not updated.
OnDidChange(u, t, v, e) ==
  /\ pc = "select"
  /\ IsOpen(u)
  /\ v > documents[u].version
  /\ e = "within" => published[u] # Cleared  \* a scope of an earlier index
  /\ documents' = [documents EXCEPT ![u] = ApplyChanges(@, t, v, e)]
  /\ pending' = D!Schedule(pending, u, v)
  /\ UNCHANGED <<work, pc, overlay, content, memo, unread, held, sent, disk,
                 published>>

\* A change to a document that was never opened: the else branch makes a
\* document of the last change's text, without an overlay.
OnDidChangeUnopened(u, t, v) ==
  /\ pc = "select"
  /\ ~ IsOpen(u)
  /\ documents' = [documents EXCEPT ![u] = NewDocument(t, v)]
  /\ pending' = D!Schedule(pending, u, v)
  /\ UNCHANGED <<work, pc, overlay, content, memo, unread, held, sent, disk,
                 published>>

\* Fault: closing leaves the diagnostics in the editor.
DiagnosticsKept(u) == published

DiagnosticsCleared(u) == [published EXCEPT ![u] = Cleared]

\* Fault: the overlay outlives its document.
OverlayKept(u) == overlay

\* Vfs::remove_overlay, if there is a document to take it from.
OverlayRemoved(u) ==
  IF IsOpen(u) THEN [overlay EXCEPT ![FileOf[u]] = NoText] ELSE overlay

OnDidClose(u) ==
  /\ pc = "select"
  /\ overlay' = OverlayRemoved(u)
  /\ pending' = D!Cancel(pending, u)
  /\ documents' = [documents EXCEPT ![u] = NoDoc]
  /\ published' = DiagnosticsCleared(u)
  /\ UNCHANGED <<work, pc, content, memo, unread, held, sent, disk>>

\* Vfs::read: the overlay, or else the disk.
VfsRead(f) == IF overlay[f] # NoText THEN overlay[f] ELSE disk[f]

\* Fault: open documents are re-read too.
RereadableAll(S) == S

\* Open documents are skipped.
Rereadable(S) == {u \in S : ~ IsOpen(u)}

\* CREATED or CHANGED events for the URIs of S, in one notification.  A
\* DELETED event is only logged.
OnDidChangeWatchedFiles(S) ==
  LET reread == {FileOf[u] : u \in Rereadable(S)}
  IN  /\ pc = "select"
      /\ content' = [f \in File |-> IF f \in reread /\ VfsRead(f) # NoText
                                    THEN VfsRead(f) ELSE content[f]]
      /\ UNCHANGED <<documents, pending, work, pc, overlay, memo, unread,
                     held, sent, disk, published>>
-------------------------------------------------------------------------------
(***************************************************************************)
(* Requests only read documents and the database, but a query through the  *)
(* database brings a file's memo up to date.                               *)
(***************************************************************************)
\* Fault: every index compares equal to every other.
ReindexedOnce(f, t) == IF memo[f] # NoText THEN memo[f] ELSE t

\* Salsa's early cutoff: the old index stays when the new one equals it.
Reindexed(f, t) ==
  IF memo[f] # NoText /\ ParseClass[memo[f]] = ParseClass[t]
  THEN memo[f] ELSE t

QueryIndex(f) ==
  /\ pc = "select"
  /\ content[f] # NoText
  /\ memo' = [memo EXCEPT ![f] = Reindexed(f, content[f])]
  /\ UNCHANGED <<documents, pending, work, pc, overlay, content, unread,
                 held, sent, disk, published>>
-------------------------------------------------------------------------------
(***************************************************************************)
(* The ticker: process_debounced, then drain_workspace_index.              *)
(***************************************************************************)
Tick(R) ==
  /\ pc = "select"
  /\ work' = D!Taken(pending, R)
  /\ pending' = D!Retained(pending, R)
  /\ pc' = "process"
  /\ UNCHANGED <<documents, overlay, content, memo, unread, held, sent, disk,
                 published>>

\* The two early `continue`s of process_debounced.
IsCurrent(u) == IsOpen(u) /\ documents[u].version = work[u]

\* Fault: the last index serves for a text that has none.
IndexOfLastText(f, t) == IF t \in Broken THEN memo[f] ELSE Reindexed(f, t)

\* AnalysisHost::file_index: none for a text that does not parse at all.
IndexOf(f, t) == IF t \in Broken THEN NoIndex ELSE Reindexed(f, t)

\* is_local_edit
IsLocalEdit(doc) == doc.index # NoIndex /\ doc.edit = "within"

\* The body of process_debounced's loop.  Semantic diagnostics look at the
\* names every file exports, so that they refresh all the memos.
Analyse(u) ==
  LET doc == documents[u]
      f == FileOf[u]
      idx == IndexOf(f, doc.text)
  IN  /\ content' = [content EXCEPT ![f] = doc.text]
      /\ memo' = [g \in File |->
                     IF g = f \/ (idx # NoIndex /\ content[g] # NoText)
                     THEN Reindexed(g, content'[g]) ELSE memo[g]]
      /\ documents' = [documents EXCEPT
           ![u] = [doc EXCEPT !.edit = "none",
                              !.index = IF idx # NoIndex THEN idx ELSE @]]
      /\ published' = [published EXCEPT
           ![u] = [errors |-> doc.text,
                   semantic |-> idx,
                   scope |-> IF IsLocalEdit(doc) THEN "edit" ELSE "whole"]]

\* One iteration of process_debounced's loop.
ProcessDebounced(u) ==
  /\ pc = "process"
  /\ work[u] # NoWork
  /\ work' = [work EXCEPT ![u] = NoWork]
  /\ IF IsCurrent(u) THEN Analyse(u)
                     ELSE UNCHANGED <<documents, content, memo, published>>
  /\ UNCHANGED <<pending, pc, overlay, unread, held, sent, disk>>

ProcessedAll ==
  /\ pc = "process"
  /\ work = D!NothingPending
  /\ pc' = "drain"
  /\ UNCHANGED <<documents, pending, work, overlay, content, memo, unread,
                 held, sent, disk, published>>

\* One message of the loader, written over whatever content the file has.
\* Messages are about different files, so that their order does not matter
\* here; modules are WorkspaceLoader's.
DrainReceive(f) ==
  /\ pc = "drain"
  /\ sent[f] # NoText
  /\ content' = [content EXCEPT ![f] = sent[f]]
  /\ sent' = [sent EXCEPT ![f] = NoText]
  /\ UNCHANGED <<documents, pending, work, pc, overlay, memo, unread,
                 held, disk, published>>

\* try_recv found the channel empty (or disconnected, or there is none).
DrainEmpty ==
  /\ pc = "drain"
  /\ \A f \in File : sent[f] = NoText
  /\ pc' = "drained"
  /\ UNCHANGED <<documents, pending, work, overlay, content, memo, unread,
                 held, sent, disk, published>>

\* The last try_recv asks whether the loader is gone, and throws away the
\* message it gets instead if one was sent since DrainEmpty (unless
\* is_empty already sees that one).
DrainEnd ==
  /\ pc = "drained"
  /\ pc' = "select"
  /\ \/ UNCHANGED sent
     \/ \E f \in File : /\ sent[f] # NoText
                        /\ sent' = [sent EXCEPT ![f] = NoText]
  /\ UNCHANGED <<documents, pending, work, overlay, content, memo, unread,
                 held, disk, published>>
-------------------------------------------------------------------------------
(***************************************************************************)
(* The loader thread, and other programs.                                  *)
(***************************************************************************)
\* The thread reads one file at a time; one it cannot read is skipped.
LoaderRead(f) ==
  /\ f \in unread
  /\ \A g \in File : held[g] = NoText
  /\ unread' = unread \ {f}
  /\ held' = [held EXCEPT ![f] = disk[f]]
  /\ UNCHANGED <<server, sent, disk>>

\* The channel has room for every file (WorkspaceLoader).
LoaderSend(f) ==
  /\ held[f] # NoText
  /\ sent' = [sent EXCEPT ![f] = held[f]]
  /\ held' = [held EXCEPT ![f] = NoText]
  /\ UNCHANGED <<server, unread, disk>>

DiskWrite(f, t) ==
  /\ disk' = [disk EXCEPT ![f] = t]
  /\ UNCHANGED <<server, unread, held, sent>>
-------------------------------------------------------------------------------
OnNotification ==
  \/ \E u \in Uri, t \in Text, v \in Version :
       \/ OnDidOpen(u, t, v)
       \/ OnDidChangeUnopened(u, t, v)
       \/ \E e \in EditRange : OnDidChange(u, t, v, e)
  \/ \E u \in Uri : OnDidClose(u)
  \/ \E S \in SUBSET Uri : OnDidChangeWatchedFiles(S)

OnTick ==
  \/ \E R \in D!ReadySets(pending) : Tick(R)
  \/ \E u \in Uri : ProcessDebounced(u)
  \/ ProcessedAll
  \/ \E f \in File : DrainReceive(f)
  \/ DrainEmpty
  \/ DrainEnd

Loader == \E f \in File : LoaderRead(f) \/ LoaderSend(f)

Next ==
  \/ OnNotification
  \/ \E f \in File : QueryIndex(f)
  \/ OnTick
  \/ Loader
  \/ \E f \in File, t \in Text \cup {NoText} : DiskWrite(f, t)

Spec == Init /\ [][Next]_vars

\* The ticker's channel holds a tick until select! takes it, and select!
\* picks at random among the channels that are ready; the loader is a
\* thread of its own.  Nothing is assumed of the client or of the disk.
Fairness == WF_vars(OnTick) /\ WF_vars(Loader)

FairSpec == Spec /\ Fairness
-------------------------------------------------------------------------------
(***************************************************************************)
(* Properties.                                                             *)
(***************************************************************************)
TypeOK ==
  /\ documents \in [Uri -> DocumentState \cup {NoDoc}]
  /\ pending \in D!Pending
  /\ work \in [Uri -> Version \cup {NoWork}]
  /\ pc \in {"select", "process", "drain", "drained"}
  /\ overlay \in [File -> Text \cup {NoText}]
  /\ content \in [File -> Text \cup {NoText}]
  /\ memo \in [File -> Text \cup {NoText}]
  /\ unread \subseteq File
  /\ held \in [File -> Text \cup {NoText}]
  /\ sent \in [File -> Text \cup {NoText}]
  /\ disk \in [File -> Text \cup {NoText}]
  /\ published \in [Uri -> Diagnostics \cup {Cleared}]

\* An analysis is due for u: in the debouncer or in the tick's list.
IsDue(u) == pending[u] # NoWork \/ work[u] # NoWork

\* Work is only ever pending for an open document, at the version it has,
\* and while the document has no index.  So no scheduled analysis is thrown
\* away: neither `continue` of process_debounced (server.rs:271-276) is ever
\* taken, although a document can be closed, and reopened with the same
\* version, while work for it is pending.
DueWorkIsCurrent ==
  \A u \in Uri :
    /\ pending[u] # NoWork => /\ IsOpen(u)
                              /\ documents[u].version = pending[u].version
                              /\ documents[u].index = NoIndex
    /\ work[u] # NoWork => /\ IsOpen(u)
                           /\ documents[u].version = work[u]
                           /\ documents[u].index = NoIndex

\* An open document whose analysis is not due has been analysed as it is
\* now: the errors published are those of its text, over the whole document.
\* No edit is lost between did_change, the debouncer and the tick, and the
\* scoped diagnostics of a local edit never replace the complete list.
PublishedIsCurrent ==
  \A u \in Uri : IsOpen(u) /\ ~ IsDue(u) =>
    /\ published[u] # Cleared
    /\ published[u].errors = documents[u].text
    /\ published[u].scope = "whole"

\* An index a document holds is as good as one of the text it has now: one
\* of a text with an equal parse result.  Handlers that combine
\* document.index with document.content() rely on it.
SameParse(i, t) == i \in Text /\ ParseClass[i] = ParseClass[t]

IndexIsOfText ==
  \A u \in Uri : IsOpen(u) /\ documents[u].index # NoIndex =>
    SameParse(documents[u].index, documents[u].text)

\* The semantic diagnostics shown never belong to a parse that differs from
\* that of the errors shown beside them, and are missing only if the text
\* has no index (server.rs:300-352, two queries of one analysis).
PublishedIsCoherent ==
  \A u \in Uri : published[u] # Cleared =>
    IF published[u].errors \in Broken
    THEN published[u].semantic = NoIndex
    ELSE SameParse(published[u].semantic, published[u].errors)

\* A closed document shows no diagnostics: on_did_close clears them and no
\* tick publishes any afterwards.
ClosedIsCleared ==
  \A u \in Uri : ~ IsOpen(u) => published[u] = Cleared

\* Once the loader has delivered a file (or will not), nothing but the
\* analysis of a document open on it writes what the database holds for it:
\* neither file events nor other documents.  URIs that share a path with
\* another are excepted.
Shared(u) == \E w \in Uri : w # u /\ FileOf[w] = FileOf[u]

Delivered(f) == f \notin unread /\ held[f] = NoText /\ sent[f] = NoText

OpenContentIsOwned ==
  [][\A u \in Uri :
       /\ IsOpen(u) /\ ~ Shared(u) /\ Delivered(FileOf[u])
       /\ content'[FileOf[u]] # content[FileOf[u]]
       => pc = "process" /\ content'[FileOf[u]] = documents[u].text]_vars

\* A file event brings into the database what is on the disk, unless another
\* document is open on the path: whatever closed document's unsaved text the
\* database still holds (on_did_close leaves it there), no overlay of it is
\* left for read to find, in whatever order URIs that share a path are
\* opened, changed and closed.  Handlers change the database in no other way.
EventsReadDisk ==
  [][\A f \in File :
       pc = "select" /\ content'[f] # content[f]
       => content'[f] = disk[f] \/ \E u \in Uri : IsOpen(u) /\ FileOf[u] = f]_vars

\* As document.rs:48 has it, a change invalidates the index: the index an
\* open document holds, names and all, is that of the text it has now.
IndexNamesAreOfText ==
  \A u \in Uri : IsOpen(u) /\ documents[u].index # NoIndex =>
    documents[u].index = documents[u].text

\* The diagnostics service: the text of a document, and what is shown.
Buffer(u) == IF IsOpen(u) THEN documents[u].text ELSE NoDoc

Shown(u) ==
  IF published[u] = Cleared THEN "nothing"
  ELSE IF published[u].scope = "whole" THEN published[u].errors
  ELSE "partial"

Service == INSTANCE DiagnosticsService WITH
  Closed <- NoDoc, Nothing <- "nothing",
  buffer <- [u \in Uri |-> Buffer(u)],
  shown  <- [u \in Uri |-> Shown(u)]

\* Every step edits, closes or publishes as the service allows: a list of
\* diagnostics that reaches the client is complete and of the text the
\* document has in that very step, and none reaches a closed document.
ImplementsService == Service!Spec

\* The diagnostics of a version are published in the end, unless the client
\* goes on to another version or closes the document first.
EventuallyPublished ==
  \A u \in Uri, v \in Version :
    (IsOpen(u) /\ documents[u].version = v) ~>
      \/ ~ IsOpen(u)
      \/ documents[u].version # v
      \/ published[u] # Cleared /\ published[u].errors = documents[u].text
===============================================================================
