--------------------------- MODULE WorkspaceLoader ---------------------------
(***************************************************************************)
(* Loading the workspace: run_server discovers the files of each root and  *)
(* starts a thread that reads them and sends them over a bounded channel;  *)
(* the main loop drains the channel at every tick, queues the files that   *)
(* are modules, and flushes the queue into the salsa database and the      *)
(* module graph (server.rs, analysis.rs, workspace.rs).                    *)
(*                                                                         *)
(* A tick's drain is taken apart into its calls on the channel, between    *)
(* which the loading threads go on.  Open documents, which file events     *)
(* skip, are SnekServer's.                                                 *)
(***************************************************************************)
EXTENDS Naturals, Sequences, FiniteSets

CONSTANTS
  File,
  Name,       \* module names
  Roots,      \* the workspace folders: for each, its files as discovered
  ModuleOf,   \* path_to_module_name: for each root, the name that a file has
              \* relative to it, or NoName
  Text,
  NoName, NoText, NoFile, NoMsg

Root == DOMAIN Roots

Elements(q) == {q[i] : i \in DOMAIN q}

ASSUME LoaderAssumption ==
  /\ Roots \in Seq(Seq(File))
  /\ ModuleOf \in [Root -> [File -> Name \cup {NoName}]]
  /\ \A i \in Root : \A j, k \in DOMAIN Roots[i] :
       Roots[i][j] = Roots[i][k] => j = k
  /\ NoName \notin Name
  /\ NoText \notin Text
  /\ NoFile \notin File

\* What a thread sends for a file.
Msg == [file : File, text : Text]

ASSUME NoMsgAssumption == NoMsg \notin Msg

VARIABLES
  started,    \* roots that run_server has been through
  todo,       \* per root: the files its thread has still to read
  held,       \* per root: what its thread has read and not sent
  alive,      \* per root: its thread is running, and holds the sender
  channel,    \* per root
  rx,         \* Server::workspace_index_rx: whose receiver it is, or 0
  pc,         \* the main thread
  queue,      \* AnalysisHost::pending_modules
  done,       \* drain_workspace_index's local of that name
  moduleMap,  \* Workspace::module_map
  names,      \* Workspace::reverse_module_map, NoName for no entry
  content,    \* AnalysisHost::file_map and the contents in it
  entries,    \* AnalysisHost::module_entries, the file of each name
  disk,       \* external: the files, NoText if not readable
  loaded,     \* history: the files whose texts the threads have read
  lost,       \* history: of these, what no one will ever receive
  touched     \* history: files that a file event made the server read again

threads == <<todo, held, alive, channel>>
workspace == <<moduleMap, names>>
host == <<queue, content, entries>>
vars == <<started, threads, rx, pc, done, workspace, host, disk, loaded, lost,
          touched>>

Init ==
  /\ started = 0
  /\ todo = [i \in Root |-> <<>>]
  /\ held = [i \in Root |-> NoMsg]
  /\ alive = [i \in Root |-> FALSE]
  /\ channel = [i \in Root |-> <<>>]
  /\ rx = 0
  /\ pc = "startup"
  /\ queue = <<>>
  /\ done = FALSE
  /\ moduleMap = [n \in Name |-> NoFile]
  /\ names = [f \in File |-> NoName]
  /\ content = [f \in File |-> NoText]
  /\ entries = [n \in Name |-> NoFile]
  /\ disk \in [File -> Text \cup {NoText}]
  /\ loaded = {}
  /\ lost = {}
  /\ touched = {}
-------------------------------------------------------------------------------
(***************************************************************************)
(* Start-up, before the main loop.                                         *)
(***************************************************************************)
\* Workspace::add_root: the last file discovered with a name keeps it, and
\* the last folder that names a file names it for good.  Folders may be
\* nested, and so a file have several names.
Named(i, n) == {j \in DOMAIN Roots[i] : ModuleOf[i][Roots[i][j]] = n}

WithRoot(map, i) ==
  [n \in Name |->
     IF Named(i, n) = {} THEN map[n]
     ELSE Roots[i][CHOOSE j \in Named(i, n) : \A k \in Named(i, n) : k <= j]]

Renamed(i) ==
  [f \in File |->
     IF f \in Elements(Roots[i]) /\ ModuleOf[i][f] # NoName
     THEN ModuleOf[i][f] ELSE names[f]]

\* add_root and index_files_background for the next root.  A root without
\* files starts no thread; another takes the receiver's place, so that an
\* earlier root's receiver is dropped with what its channel holds.
StartRoot ==
  LET i == started + 1
  IN  /\ pc = "startup"
      /\ i \in Root
      /\ started' = i
      /\ moduleMap' = WithRoot(moduleMap, i)
      /\ names' = Renamed(i)
      /\ IF Roots[i] = <<>>
         THEN UNCHANGED <<todo, alive, channel, rx, lost>>
         ELSE /\ todo' = [todo EXCEPT ![i] = Roots[i]]
              /\ alive' = [alive EXCEPT ![i] = TRUE]
              /\ rx' = i
              /\ IF rx = 0 THEN UNCHANGED <<channel, lost>>
                 ELSE /\ lost' = lost \cup
                                   {m.file : m \in Elements(channel[rx])}
                      /\ channel' = [channel EXCEPT ![rx] = <<>>]
      /\ UNCHANGED <<held, pc, done, host, disk, loaded, touched>>

\* Server::run
Run ==
  /\ pc = "startup"
  /\ started = Len(Roots)
  /\ pc' = "select"
  /\ UNCHANGED <<started, threads, rx, done, workspace, host, disk, loaded,
                 lost, touched>>
-------------------------------------------------------------------------------
(***************************************************************************)
(* The threads "sneklsp-workspace-load".                                   *)
(***************************************************************************)
\* Fault: room for all files but one.
CapacityShort(i) == Len(Roots[i]) - 1

\* bounded(files.len().max(1))
Capacity(i) == IF Roots[i] = <<>> THEN 1 ELSE Len(Roots[i])

\* Fault: whatever there is at the path can be read.
ReadableAlways(f) == TRUE

Readable(f) == disk[f] # NoText

\* read_to_string; a file that cannot be read is skipped.
ThreadRead(i) ==
  /\ alive[i] /\ held[i] = NoMsg /\ todo[i] # <<>>
  /\ LET f == Head(todo[i])
     IN  IF ~ Readable(f) THEN UNCHANGED <<held, loaded>>
         ELSE /\ held' = [held EXCEPT ![i] = [file |-> f, text |-> disk[f]]]
              /\ loaded' = loaded \cup {f}
  /\ todo' = [todo EXCEPT ![i] = Tail(@)]
  /\ UNCHANGED <<started, alive, channel, rx, pc, done, workspace, host, disk,
                 lost, touched>>

\* send blocks while the channel is full; without a receiver it fails, which
\* the thread ignores.
ThreadSend(i) ==
  /\ held[i] # NoMsg
  /\ \/ /\ rx = i
        /\ Len(channel[i]) < Capacity(i)
        /\ channel' = [channel EXCEPT ![i] = Append(@, held[i])]
        /\ UNCHANGED lost
     \/ /\ rx # i
        /\ lost' = lost \cup {held[i].file}
        /\ UNCHANGED channel
  /\ held' = [held EXCEPT ![i] = NoMsg]
  /\ UNCHANGED <<started, todo, alive, rx, pc, done, workspace, host, disk,
                 loaded, touched>>

\* The closure ends, and its sender is dropped.
ThreadExit(i) ==
  /\ alive[i] /\ held[i] = NoMsg /\ todo[i] = <<>>
  /\ alive' = [alive EXCEPT ![i] = FALSE]
  /\ UNCHANGED <<started, todo, held, channel, rx, pc, done, workspace, host,
                 disk, loaded, lost, touched>>
-------------------------------------------------------------------------------
(***************************************************************************)
(* drain_workspace_index, and the flush of the modules queued.             *)
(***************************************************************************)
\* Fault: an empty channel is taken for the end.
DisconnectedIfEmpty(i) == channel[i] = <<>>

\* Fault: the server keeps a sender of its own.
DisconnectedNever(i) == FALSE

\* try_recv's Err(Disconnected): no message left, and no sender.
Disconnected(i) == channel[i] = <<>> /\ ~ alive[i]

DrainBegin ==
  /\ pc = "select"
  /\ rx # 0
  /\ pc' = "receive"
  /\ done' = FALSE
  /\ UNCHANGED <<started, threads, rx, workspace, host, disk, loaded, lost,
                 touched>>

\* Fault: there is room for one module in the queue.
AcceptLast(m) ==
  IF names[m.file] # NoName
  THEN queue' = <<m>> /\ UNCHANGED content
  ELSE content' = [content EXCEPT ![m.file] = m.text] /\ UNCHANGED queue

\* AnalysisHost::queue_module if the workspace knows the file as a module,
\* AnalysisHost::set_file_content if not.
Accept(m) ==
  IF names[m.file] # NoName
  THEN queue' = Append(queue, m) /\ UNCHANGED content
  ELSE content' = [content EXCEPT ![m.file] = m.text] /\ UNCHANGED queue

DrainReceive ==
  /\ pc = "receive"
  /\ channel[rx] # <<>>
  /\ Accept(Head(channel[rx]))
  /\ channel' = [channel EXCEPT ![rx] = Tail(@)]
  /\ UNCHANGED <<started, todo, held, alive, rx, pc, done, workspace, entries,
                 disk, loaded, lost, touched>>

\* Err(Empty) or Err(Disconnected) ends the loop.
DrainStop ==
  /\ pc = "receive"
  /\ channel[rx] = <<>>
  /\ done' = Disconnected(rx)
  /\ pc' = "flush"
  /\ UNCHANGED <<started, threads, rx, workspace, host, disk, loaded, lost,
                 touched>>

\* Fault: the first entry of a name stays, as if nothing was retained out.
EntryKept(n, f) == IF entries[n] = NoFile THEN [entries EXCEPT ![n] = f]
                                          ELSE entries

\* retain and push: the file flushed last is the name's.
EntryReplaced(n, f) == [entries EXCEPT ![n] = f]

\* flush_modules, one module of the queue.  It was queued with its name,
\* which no root has changed since: all are added before Server::run.
FlushOne ==
  /\ pc \in {"flush", "flush event"}
  /\ queue # <<>>
  /\ LET m == Head(queue)
     IN  /\ content' = [content EXCEPT ![m.file] = m.text]
         /\ entries' = EntryReplaced(names[m.file], m.file)
  /\ queue' = Tail(queue)
  /\ UNCHANGED <<started, threads, rx, pc, done, workspace, disk, loaded, lost,
                 touched>>

\* After the flush: forget the receiver, or look at the channel again.
Flushed ==
  /\ pc = "flush"
  /\ queue = <<>>
  /\ IF done THEN pc' = "select" /\ rx' = 0
             ELSE pc' = "check" /\ UNCHANGED rx
  /\ UNCHANGED <<started, threads, done, workspace, host, disk, loaded, lost,
                 touched>>

\* rx.is_empty()
Check ==
  /\ pc = "check"
  /\ pc' = IF channel[rx] = <<>> THEN "peek" ELSE "select"
  /\ UNCHANGED <<started, threads, rx, done, workspace, host, disk, loaded,
                 lost, touched>>

\* The try_recv "to peek disconnection": a message that it gets is dropped.
Peek ==
  /\ pc = "peek"
  /\ pc' = "select"
  /\ rx' = IF Disconnected(rx) THEN 0 ELSE rx
  /\ IF channel[rx] = <<>> THEN UNCHANGED <<channel, lost>>
     ELSE /\ channel' = [channel EXCEPT ![rx] = Tail(@)]
          /\ lost' = lost \cup {Head(channel[rx]).file}
  /\ UNCHANGED <<started, todo, held, alive, done, workspace, host, disk,
                 loaded, touched>>
-------------------------------------------------------------------------------
(***************************************************************************)
(* on_did_change_watched_files, for one file.  Several in a notification   *)
(* have the effect of one after the other: the handler flushes at the end  *)
(* what it queued, in order, and nothing looks at the database before.     *)
(***************************************************************************)
FileEvent(f) ==
  /\ pc = "select"
  /\ Readable(f)
  /\ Accept([file |-> f, text |-> disk[f]])
  /\ pc' = "flush event"
  /\ touched' = touched \cup {f}
  /\ UNCHANGED <<started, threads, rx, done, workspace, entries, disk, loaded,
                 lost>>

EventFlushed ==
  /\ pc = "flush event"
  /\ queue = <<>>
  /\ pc' = "select"
  /\ UNCHANGED <<started, threads, rx, done, workspace, host, disk, loaded,
                 lost, touched>>

DiskWrite(f, t) ==
  /\ disk' = [disk EXCEPT ![f] = t]
  /\ UNCHANGED <<started, threads, rx, pc, done, workspace, host, loaded, lost,
                 touched>>
-------------------------------------------------------------------------------
Startup == StartRoot \/ Run

Thread(i) == ThreadRead(i) \/ ThreadSend(i) \/ ThreadExit(i)

Drain ==
  \/ DrainBegin \/ DrainReceive \/ DrainStop
  \/ FlushOne \/ Flushed \/ Check \/ Peek
  \/ EventFlushed

Next ==
  \/ Startup
  \/ \E i \in Root : Thread(i)
  \/ Drain
  \/ \E f \in File : FileEvent(f)
  \/ \E f \in File, t \in Text \cup {NoText} : DiskWrite(f, t)

Spec == Init /\ [][Next]_vars

\* The main thread runs on.  Between messages select! picks at random among
\* the channels that are ready, so that no flood of messages puts off a tick
\* for ever: a strong fairness, as a handler's own steps disable the tick.
\* The operating system schedules the threads.
Fairness ==
  /\ WF_vars(Startup)
  /\ WF_vars(Drain)
  /\ SF_vars(DrainBegin)
  /\ \A i \in Root : WF_vars(Thread(i))

FairSpec == Spec /\ Fairness
-------------------------------------------------------------------------------
(***************************************************************************)
(* Properties.                                                             *)
(***************************************************************************)
TypeOK ==
  /\ started \in 0 .. Len(Roots)
  /\ todo \in [Root -> Seq(File)]
  /\ held \in [Root -> Msg \cup {NoMsg}]
  /\ alive \in [Root -> BOOLEAN]
  /\ channel \in [Root -> Seq(Msg)]
  /\ rx \in Root \cup {0}
  /\ pc \in {"startup", "select", "receive", "flush", "check", "peek",
             "flush event"}
  /\ queue \in Seq(Msg)
  /\ done \in BOOLEAN
  /\ moduleMap \in [Name -> File \cup {NoFile}]
  /\ names \in [File -> Name \cup {NoName}]
  /\ content \in [File -> Text \cup {NoText}]
  /\ entries \in [Name -> File \cup {NoFile}]
  /\ disk \in [File -> Text \cup {NoText}]
  /\ loaded \subseteq File /\ lost \subseteq File /\ touched \subseteq File

\* A loading thread never waits for the main loop: the channel has room
\* whenever a message is to be sent, however long the main loop is busy.
SendNeverBlocks ==
  \A i \in Root : held[i] # NoMsg /\ rx = i => Len(channel[i]) < Capacity(i)

\* The server stops listening only when the thread it listened to is gone
\* and everything that came through the channel has been taken.
FinishedIsExhausted ==
  pc # "startup" /\ rx = 0 =>
    \A i \in Root : \/ ~ alive[i] /\ channel[i] = <<>>
                    \/ \E k \in Root : k > i /\ Roots[k] # <<>>

\* Every file that was read is somewhere: with its thread, in the channel
\* the server listens to, in the queue, in the database, or among the lost,
\* which are those that the peek took and those of a root whose receiver was
\* replaced.  No other step of the hand-over loses one.
InHand ==
  {held[i].file : i \in {j \in Root : held[j] # NoMsg}}
    \cup {m.file : m \in UNION {Elements(channel[i]) : i \in Root \cap {rx}}}
    \cup {m.file : m \in Elements(queue)}

ReadIsAccountedFor ==
  \A f \in loaded : f \in InHand \/ content[f] # NoText \/ f \in lost

\* Once the file that Workspace::module_map has for a name is loaded, the
\* salsa module graph resolves the name to the same file: goto-definition,
\* which asks one and then the other, gets one answer.  It is the order of
\* the messages that ensures it, since both keep the last file of a name.
\* There are three exceptions, where the tables do disagree.  A file event
\* turns the graph to its file, and one that comes before the loader's
\* messages is overtaken.  A file that a later folder gives another name is
\* in the graph under that one only.  And a nested folder's own __init__.py,
\* which has no name there, keeps the name of the outer folder, so that it
\* may come behind the file which the nested folder gives that name.
KeepsName(f) ==
  \E i \in Root : f \in Elements(Roots[i]) /\ ModuleOf[i][f] = NoName

ResolutionAgrees ==
  \A n \in Name :
    /\ moduleMap[n] # NoFile
    /\ content[moduleMap[n]] # NoText
    /\ names[moduleMap[n]] = n
    /\ \A f \in File : names[f] = n =>
         f \notin touched /\ (f = moduleMap[n] \/ ~ KeepsName(f))
    => entries[n] = moduleMap[n]

\* Loading comes to an end: the server lets go of the receiver.
LoadingFinishes == <>[](pc # "startup" /\ rx = 0)

\* As server.rs:218 has it, the last try_recv only peeks: when loading is
\* over, every file that was read is in the database.
NothingLost ==
  pc = "select" /\ rx = 0 => \A f \in loaded : content[f] # NoText
===============================================================================
