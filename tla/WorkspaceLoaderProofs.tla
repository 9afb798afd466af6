------------------------ MODULE WorkspaceLoaderProofs ------------------------
(***************************************************************************)
(* Proofs about the loading of the workspace, for any folders, files and   *)
(* module names.                                                           *)
(***************************************************************************)
EXTENDS WorkspaceLoader, SequenceTheorems, WellFoundedInduction, TLAPS

\* A non-empty set of indexes of a sequence has a last one.
LEMMA LastIndex ==
  ASSUME NEW N \in Nat, NEW S, S \subseteq 1 .. N, S # {}
  PROVE  \E j \in S : \A k \in S : k <= j
<1> DEFINE T == {N - j : j \in S}
<1>1. T \subseteq Nat /\ T # {}
  <2>1. \A j \in S : j \in 1 .. N /\ N - j \in Nat
    OBVIOUS
  <2> QED BY <2>1
<1>2. PICK x \in T : \A y \in T : ~ (<<y, x>> \in OpToRel(<, Nat))
  <2> HIDE DEF T
  <2> QED BY <1>1, NatLessThanWellFounded, WFMin
<1>3. PICK j \in S : x = N - j
  OBVIOUS
<1>4. ASSUME NEW k \in S PROVE k <= j
  <2>1. N - k \in T
    OBVIOUS
  <2>2. ~ (N - k < N - j)
    <3>1. ~ (<<N - k, x>> \in OpToRel(<, Nat))
      BY <1>2, <2>1
    <3>2. N - k \in Nat /\ x \in Nat
      BY <1>1, <2>1
    <3> QED BY <3>1, <3>2, <1>3 DEF OpToRel
  <2> QED BY <2>2
<1> QED BY <1>4

\* Workspace::add_root maps a name to a file of the root, or leaves it.
LEMMA WithRootType ==
  ASSUME LoaderAssumption,
         NEW map \in [Name -> File \cup {NoFile}], NEW i \in Root
  PROVE  WithRoot(map, i) \in [Name -> File \cup {NoFile}]
<1> SUFFICES ASSUME NEW n \in Name, Named(i, n) # {}
             PROVE  Roots[i][CHOOSE j \in Named(i, n) :
                               \A k \in Named(i, n) : k <= j] \in File
  BY DEF WithRoot
<1>0. Roots[i] \in Seq(File)
  BY DEF LoaderAssumption, Root
<1>1. Named(i, n) \subseteq 1 .. Len(Roots[i]) /\ Len(Roots[i]) \in Nat
  BY <1>0 DEF Named
<1>2. \E j \in Named(i, n) : \A k \in Named(i, n) : k <= j
  BY <1>1, LastIndex
<1> DEFINE last == CHOOSE j \in Named(i, n) : \A k \in Named(i, n) : k <= j
<1>3. last \in Named(i, n)
  BY <1>2
<1> HIDE DEF last
<1>4. last \in 1 .. Len(Roots[i])
  BY <1>1, <1>3
<1>5. Roots[i][last] \in File
  BY <1>0, <1>4
<1> QED BY <1>5 DEF last

-------------------------------------------------------------------------------
\* Elements, and what the steps do to sequences.
LEMMA ElementsType ==
  ASSUME NEW S, NEW s \in Seq(S)
  PROVE  Elements(s) \subseteq S
BY LenProperties, ElementOfSeq DEF Elements

\* What TypeOK needs to be inductive: whoever drains has a receiver.
Draining == pc \in {"receive", "flush", "check", "peek"} => rx # 0

Typed == TypeOK /\ Draining

LEMMA InitTyped ==
  ASSUME LoaderAssumption, Init
  PROVE  Typed
<1>1. Len(Roots) \in Nat /\ 0 \in 0 .. Len(Roots)
  BY DEF LoaderAssumption
<1>2. /\ todo \in [Root -> Seq(File)]
      /\ held \in [Root -> Msg \cup {NoMsg}]
      /\ alive \in [Root -> BOOLEAN]
      /\ channel \in [Root -> Seq(Msg)]
      /\ queue \in Seq(Msg)
  BY DEF Init
<1>3. /\ moduleMap \in [Name -> File \cup {NoFile}]
      /\ names \in [File -> Name \cup {NoName}]
      /\ content \in [File -> Text \cup {NoText}]
      /\ entries \in [Name -> File \cup {NoFile}]
  BY DEF Init
<1>4. started \in 0 .. Len(Roots) /\ rx \in Root \cup {0}
  BY <1>1 DEF Init
<1>5. /\ pc = "startup" /\ done = FALSE
      /\ disk \in [File -> Text \cup {NoText}]
      /\ loaded \subseteq File /\ lost \subseteq File /\ touched \subseteq File
  BY DEF Init
<1> QED BY <1>2, <1>3, <1>4, <1>5 DEF TypeOK, Typed, Draining

\* What Accept leaves behind is a queue and contents.
LEMMA AcceptTyped ==
  ASSUME TypeOK, NEW m \in Msg, Accept(m)
  PROVE  /\ queue' \in Seq(Msg)
         /\ content' \in [File -> Text \cup {NoText}]
<1>1. m.file \in File /\ m.text \in Text
  BY DEF Msg
<1>2. Append(queue, m) \in Seq(Msg)
  BY AppendProperties DEF TypeOK
<1> QED BY <1>1, <1>2 DEF TypeOK, Accept

LEMMA NextTyped ==
  ASSUME LoaderAssumption, NoMsgAssumption, Typed, [Next]_vars
  PROVE  Typed'
<1> USE DEF Typed, Draining
<1>0. /\ Len(Roots) \in Nat
      /\ Root = 1 .. Len(Roots)
      /\ \A i \in Root : Roots[i] \in Seq(File)
  BY DEF LoaderAssumption, Root
<1>1. CASE StartRoot
  <2>1. started + 1 \in Root
    BY <1>1 DEF StartRoot
  <2>2. moduleMap' \in [Name -> File \cup {NoFile}]
    <3> DEFINE i == started + 1
    <3>1. moduleMap' = WithRoot(moduleMap, i) /\ i \in Root
      BY <1>1, <2>1 DEF StartRoot
    <3> HIDE DEF i
    <3> QED BY <3>1, WithRootType DEF TypeOK
  <2>02. names' \in [File -> Name \cup {NoName}]
    <3> DEFINE i == started + 1
    <3>1. names' = Renamed(i) /\ i \in Root
      BY <1>1, <2>1 DEF StartRoot
    <3> HIDE DEF i
    <3>2. ModuleOf[i] \in [File -> Name \cup {NoName}]
      BY <3>1 DEF LoaderAssumption
    <3> QED BY <3>1, <3>2 DEF Renamed, TypeOK
  <2>3. lost' \subseteq File
    <3>1. ASSUME rx \in Root
          PROVE  {m.file : m \in Elements(channel[rx])} \subseteq File
      <4>1. Elements(channel[rx]) \subseteq Msg
        BY <3>1, ElementsType DEF TypeOK
      <4>2. \A m \in Msg : m.file \in File
        BY DEF Msg
      <4> QED BY <4>1, <4>2
    <3> QED BY <1>1, <3>1 DEF StartRoot, TypeOK
  <2>4. /\ todo' \in [Root -> Seq(File)]
        /\ alive' \in [Root -> BOOLEAN]
        /\ rx' \in Root \cup {0}
    BY <1>0, <1>1, <2>1 DEF StartRoot, TypeOK
  <2>5. channel' \in [Root -> Seq(Msg)]
    <3>1. CASE channel' = channel
      BY <3>1 DEF TypeOK
    <3>2. CASE channel' = [channel EXCEPT ![rx] = <<>>]
      <4>1. channel \in [Root -> Seq(Msg)] /\ <<>> \in Seq(Msg)
        BY EmptySeq DEF TypeOK
      <4> QED BY <3>2, <4>1
    <3> QED BY <1>1, <3>1, <3>2 DEF StartRoot
  <2>6. started' \in 0 .. Len(Roots)
    BY <1>0, <1>1, <2>1 DEF StartRoot
  <2> QED
    BY <1>1, <2>2, <2>02, <2>3, <2>4, <2>5, <2>6 DEF StartRoot, TypeOK, host, workspace
<1>2. CASE Run
  BY <1>2 DEF Run, TypeOK, host, workspace, threads
<1>3. ASSUME NEW i \in Root, ThreadRead(i) PROVE Typed'
  <2>1. Head(todo[i]) \in File /\ Tail(todo[i]) \in Seq(File)
    BY <1>3, HeadTailProperties DEF ThreadRead, TypeOK
  <2> DEFINE m == [file |-> Head(todo[i]), text |-> disk[Head(todo[i])]]
  <2>2. Readable(Head(todo[i])) => m \in Msg
    BY <2>1 DEF Readable, TypeOK, Msg
  <2>0. \/ held' = held /\ loaded' = loaded
        \/ /\ m \in Msg
           /\ held' = [held EXCEPT ![i] = m]
           /\ loaded' = loaded \cup {Head(todo[i])}
    BY <1>3, <2>2 DEF ThreadRead
  <2> HIDE DEF m
  <2>3. todo' \in [Root -> Seq(File)]
    BY <1>3, <2>1 DEF ThreadRead, TypeOK
  <2>4. held' \in [Root -> Msg \cup {NoMsg}]
    BY <2>0 DEF TypeOK
  <2>5. loaded' \subseteq File
    BY <2>0, <2>1 DEF TypeOK
  <2> QED BY <1>3, <2>3, <2>4, <2>5 DEF ThreadRead, TypeOK, host, workspace
<1>4. ASSUME NEW i \in Root, ThreadSend(i) PROVE Typed'
  <2>1. held[i] \in Msg
    BY <1>4 DEF ThreadSend, TypeOK
  <2>2. held[i].file \in File
    BY <2>1 DEF Msg
  <2>3. Append(channel[i], held[i]) \in Seq(Msg)
    BY <2>1, AppendProperties, ZenonT(30) DEF TypeOK
  <2>4. held' \in [Root -> Msg \cup {NoMsg}]
    BY <1>4 DEF ThreadSend, TypeOK
  <2>5. channel' \in [Root -> Seq(Msg)]
    BY <1>4, <2>3 DEF ThreadSend, TypeOK
  <2>6. lost' \subseteq File
    BY <1>4, <2>2, ZenonT(30) DEF ThreadSend, TypeOK
  <2> QED BY <1>4, <2>4, <2>5, <2>6 DEF ThreadSend, TypeOK, host, workspace
<1>5. ASSUME NEW i \in Root, ThreadExit(i) PROVE Typed'
  BY <1>5 DEF ThreadExit, TypeOK, host, workspace
<1>6. CASE DrainBegin
  BY <1>6 DEF DrainBegin, TypeOK, host, workspace, threads
<1>7. CASE DrainReceive
  <2>1. rx \in Root /\ channel[rx] \in Seq(Msg) /\ channel[rx] # <<>>
    BY <1>7 DEF DrainReceive, TypeOK
  <2>2. Head(channel[rx]) \in Msg /\ Tail(channel[rx]) \in Seq(Msg)
    BY <2>1, HeadTailProperties
  <2>3. /\ queue' \in Seq(Msg)
        /\ content' \in [File -> Text \cup {NoText}]
    BY <1>7, <2>2, AcceptTyped DEF DrainReceive
  <2>4. channel' \in [Root -> Seq(Msg)]
    BY <1>7, <2>2 DEF DrainReceive, TypeOK
  <2> QED BY <1>7, <2>1, <2>3, <2>4 DEF DrainReceive, TypeOK, workspace
<1>8. CASE DrainStop
  <2>1. done' \in BOOLEAN
    <3>1. rx \in Root
      BY <1>8 DEF DrainStop, TypeOK
    <3> QED BY <1>8, <3>1 DEF DrainStop, Disconnected, TypeOK
  <2> QED BY <1>8, <2>1 DEF DrainStop, TypeOK, host, workspace, threads
<1>9. CASE FlushOne
  <2>1. Head(queue) \in Msg /\ Tail(queue) \in Seq(Msg)
    BY <1>9, HeadTailProperties DEF FlushOne, TypeOK
  <2>2. Head(queue).file \in File /\ Head(queue).text \in Text
    BY <2>1 DEF Msg
  <2> QED BY <1>9, <2>1, <2>2 DEF FlushOne, EntryReplaced, TypeOK, threads, workspace
<1>10. CASE Flushed
  BY <1>10 DEF Flushed, TypeOK, host, workspace, threads
<1>11. CASE Check
  BY <1>11 DEF Check, TypeOK, host, workspace, threads
<1>12. CASE Peek
  <2>1. rx \in Root /\ channel[rx] \in Seq(Msg)
    BY <1>12 DEF Peek, TypeOK
  <2>2. channel[rx] # <<>> =>
          /\ Tail(channel[rx]) \in Seq(Msg)
          /\ Head(channel[rx]) \in Msg
    BY <2>1, HeadTailProperties
  <2>3. channel[rx] # <<>> => Head(channel[rx]).file \in File
    BY <2>2 DEF Msg
  <2>4. channel' \in [Root -> Seq(Msg)]
    BY <1>12, <2>2 DEF Peek, TypeOK
  <2>5. lost' \subseteq File
    BY <1>12, <2>3 DEF Peek, TypeOK
  <2> QED BY <1>12, <2>4, <2>5 DEF Peek, TypeOK, host, workspace
<1>13. ASSUME NEW f \in File, FileEvent(f) PROVE Typed'
  <2>1. [file |-> f, text |-> disk[f]] \in Msg
    BY <1>13 DEF FileEvent, Readable, TypeOK, Msg
  <2>2. /\ queue' \in Seq(Msg)
        /\ content' \in [File -> Text \cup {NoText}]
    BY <1>13, <2>1, AcceptTyped DEF FileEvent
  <2> QED BY <1>13, <2>2 DEF FileEvent, TypeOK, threads, workspace
<1>14. CASE EventFlushed
  BY <1>14 DEF EventFlushed, TypeOK, host, workspace, threads
<1>15. ASSUME NEW f \in File, NEW t \in Text \cup {NoText}, DiskWrite(f, t)
       PROVE Typed'
  BY <1>15 DEF DiskWrite, TypeOK, host, workspace, threads
<1>16. CASE UNCHANGED vars
  BY <1>16 DEF vars, TypeOK, host, threads, workspace
<1> QED
  BY <1>1, <1>2, <1>3, <1>4, <1>5, <1>6, <1>7, <1>8, <1>9, <1>10, <1>11,
     <1>12, <1>13, <1>14, <1>15, <1>16
  DEF Next, Startup, Thread, Drain

LEMMA AlwaysTyped == Spec => []Typed
<1>1. Init => Typed
  BY InitTyped, LoaderAssumption
<1>2. Typed /\ [Next]_vars => Typed'
  BY NextTyped, LoaderAssumption, NoMsgAssumption
<1> QED BY <1>1, <1>2, PTL DEF Spec

\* The state keeps its types (server.rs, analysis.rs, workspace.rs).
THEOREM TypeCorrect == Spec => []TypeOK
<1>1. Typed => TypeOK
  BY DEF Typed
<1> QED BY <1>1, AlwaysTyped, PTL
-------------------------------------------------------------------------------
(***************************************************************************)
(* The hand-over between the threads and the main loop.                    *)
(***************************************************************************)
\* A root that run_server has not come to has no thread.
NotYet ==
  \A i \in Root : i > started =>
    /\ todo[i] = <<>> /\ held[i] = NoMsg /\ ~ alive[i]
    /\ channel[i] = <<>> /\ rx # i

\* The main loop runs when all roots are started.
AllStarted == pc # "startup" => started = Len(Roots)

\* A thread that has something to do runs.
Busy == \A i \in Root : held[i] # NoMsg \/ todo[i] # <<>> => alive[i]

\* A root without files starts no thread.
NoThread ==
  \A i \in Root : Roots[i] = <<>> => ~ alive[i] /\ channel[i] = <<>> /\ rx # i

\* A channel without receiver is empty.
Unheard == \A i \in Root : rx # i => channel[i] = <<>>

\* The receiver is that of the last root that started a thread.
Latest ==
  rx # 0 \/ pc = "startup" =>
    \A k \in Root : rx < k /\ k <= started => Roots[k] = <<>>

\* The channel has room for all that its thread may still send.
InFlight(i) == IF held[i] = NoMsg THEN 0 ELSE 1

Pending(i) == Len(channel[i]) + InFlight(i) + Len(todo[i])

Room == \A i \in Root : rx = i => Pending(i) <= Capacity(i)

\* A drain that is done leaves nothing behind.
Ended == pc = "flush" /\ done => ~ alive[rx] /\ channel[rx] = <<>>

HandOver ==
  /\ NotYet /\ AllStarted /\ Busy /\ NoThread /\ Unheard /\ Latest /\ Room
  /\ Ended /\ FinishedIsExhausted

LEMMA InitHandedOver ==
  ASSUME LoaderAssumption, Init
  PROVE  HandOver
<1>1. Len(Roots) \in Nat /\ Root = 1 .. Len(Roots)
  BY DEF LoaderAssumption, Root
<1> QED BY <1>1
        DEF Init, HandOver, NotYet, AllStarted, Busy, NoThread, Unheard,
            Latest, Room, Ended, FinishedIsExhausted

\* A step that leaves the threads and the receiver alone.
LEMMA FrameHandedOver ==
  ASSUME HandOver, UNCHANGED <<started, threads, rx>>,
         pc' = "startup" <=> pc = "startup", Ended'
  PROVE  HandOver'
BY DEF HandOver, NotYet, AllStarted, Busy, NoThread, Unheard, Latest, Room,
       Pending, InFlight, FinishedIsExhausted, threads

LEMMA NextHandedOver ==
  ASSUME LoaderAssumption, NoMsgAssumption, Typed, HandOver, [Next]_vars
  PROVE  HandOver'
<1>0. /\ Len(Roots) \in Nat
      /\ Root = 1 .. Len(Roots)
      /\ \A i \in Root : Roots[i] \in Seq(File)
  BY DEF LoaderAssumption, Root
<1>01. /\ \A i \in Root : Len(Roots[i]) \in Nat /\ Capacity(i) \in Nat
       /\ started \in Nat
       /\ rx \in Root \cup {0}
  <2>1. \A i \in Root : Len(Roots[i]) \in Nat
    BY <1>0, LenProperties
  <2>2. \A i \in Root : Capacity(i) \in Nat
    BY <2>1 DEF Capacity
  <2>3. started \in 0 .. Len(Roots) /\ rx \in Root \cup {0}
    BY DEF Typed, TypeOK
  <2>4. started \in Nat
    BY <1>0, <2>3
  <2> QED BY <2>1, <2>2, <2>3, <2>4
<1>02. Typed'
  BY NextTyped
<1>03. \A i \in Root : Pending(i) \in Nat /\ Pending(i)' \in Nat
  <2> TAKE i \in Root
  <2>1. Pending(i) \in Nat
    <3>1. Len(channel[i]) \in Nat /\ Len(todo[i]) \in Nat
      BY LenProperties DEF Typed, TypeOK
    <3>2. InFlight(i) \in Nat
      BY DEF InFlight
    <3> QED BY <3>1, <3>2 DEF Pending
  <2>2. Pending(i)' \in Nat
    <3>1. Len(channel'[i]) \in Nat /\ Len(todo'[i]) \in Nat
      BY <1>02, LenProperties DEF Typed, TypeOK
    <3>2. InFlight(i)' \in Nat
      BY DEF InFlight
    <3> QED BY <3>1, <3>2 DEF Pending
  <2> QED BY <2>1, <2>2
<1>00. \A i \in Root : /\ todo[i] \in Seq(File) /\ Len(todo[i]) \in Nat
                       /\ channel[i] \in Seq(Msg) /\ Len(channel[i]) \in Nat
                       /\ held[i] \in Msg \cup {NoMsg}
  BY LenProperties DEF Typed, TypeOK
<1>1. CASE StartRoot
  <2>0. PICK i \in Root : i = started + 1
    BY <1>1 DEF StartRoot
  <2>1. /\ i = started + 1 /\ started' = i /\ pc = "startup" /\ pc' = "startup"
        /\ held' = held
    BY <1>1, <2>0 DEF StartRoot
  <2>2. /\ todo[i] = <<>> /\ held[i] = NoMsg /\ ~ alive[i]
        /\ channel[i] = <<>> /\ rx # i
    BY <1>0, <1>01, <2>1 DEF HandOver, NotYet
  <2>3. rx \in Root => rx < i
    BY <1>0, <1>01, <2>1 DEF HandOver, NotYet
  <2>4. CASE Roots[i] = <<>>
    <3>1. UNCHANGED <<todo, alive, channel, rx>>
      BY <1>1, <2>1, <2>4 DEF StartRoot
    <3>2. NotYet'
      BY <1>0, <1>01, <2>1, <3>1 DEF HandOver, NotYet
    <3>3. Latest'
      BY <1>0, <1>01, <2>1, <2>4, <3>1 DEF HandOver, Latest
    <3> QED BY <2>1, <3>1, <3>2, <3>3
            DEF HandOver, AllStarted, Busy, NoThread, Unheard, Room, Pending,
                InFlight, Ended, FinishedIsExhausted
  <2>5. CASE Roots[i] # <<>>
    <3>1. /\ todo' = [todo EXCEPT ![i] = Roots[i]]
          /\ alive' = [alive EXCEPT ![i] = TRUE]
          /\ rx' = i
          /\ channel' = IF rx = 0 THEN channel
                        ELSE [channel EXCEPT ![rx] = <<>>]
      BY <1>1, <2>1, <2>5 DEF StartRoot
    <3>2. \A k \in Root : /\ k # i => /\ todo'[k] = todo[k]
                                      /\ alive'[k] = alive[k]
                          /\ channel'[k] = IF k = rx THEN <<>> ELSE channel[k]
      <4>1. CASE rx = 0
        <5>1. rx \notin Root /\ channel' = channel
          BY <1>0, <3>1, <4>1
        <5> QED BY <2>1, <3>1, <5>1 DEF Typed, TypeOK
      <4>2. CASE rx # 0
        BY <2>1, <3>1, <4>2 DEF Typed, TypeOK
      <4> QED BY <4>1, <4>2
    <3>3. todo'[i] = Roots[i] /\ alive'[i] = TRUE /\ channel'[i] = <<>>
      BY <1>0, <1>01, <2>1, <2>2, <3>1, <3>2 DEF Typed, TypeOK
    <3>4. NotYet'
      BY <1>0, <1>01, <2>1, <3>1, <3>2 DEF HandOver, NotYet
    <3>5. Busy'
      BY <2>1, <3>2, <3>3 DEF HandOver, Busy
    <3>6. NoThread'
      BY <2>5, <3>1, <3>2 DEF HandOver, NoThread
    <3>7. Unheard'
      BY <3>1, <3>2, <3>3, ZenonT(30) DEF HandOver, Unheard
    <3>8. Latest'
      BY <1>0, <1>01, <2>1, <3>1 DEF Latest
    <3>9. Room'
      <4>1. Pending(i)' = Len(Roots[i])
        <5>1. held'[i] = NoMsg
          BY <2>1, <2>2
        <5>2. Len(channel'[i]) = 0
          BY <3>3
        <5>3. Pending(i)' = 0 + 0 + Len(Roots[i])
          BY <3>3, <5>1, <5>2 DEF Pending, InFlight
        <5>4. Len(Roots[i]) \in Nat
          BY <1>01, <2>1
        <5> QED BY <5>3, <5>4
      <4>2. Pending(i)' <= Capacity(i)
        BY <1>01, <2>1, <2>5, <4>1 DEF Capacity
      <4> QED BY <3>1, <4>2 DEF Room, Capacity
    <3> QED BY <2>1, <3>4, <3>5, <3>6, <3>7, <3>8, <3>9
            DEF HandOver, AllStarted, Ended, FinishedIsExhausted
  <2> QED BY <2>4, <2>5
<1>2. CASE Run
  <2>1. /\ UNCHANGED <<started, threads, rx>> /\ pc = "startup"
        /\ started = Len(Roots) /\ pc' = "select"
    BY <1>2 DEF Run
  <2>2. FinishedIsExhausted'
    <3> SUFFICES ASSUME rx = 0, NEW i \in Root
                 PROVE  ~ alive[i] /\ channel[i] = <<>>
      BY <2>1 DEF FinishedIsExhausted, threads
    <3>1. rx < i /\ i <= started
      BY <1>0, <1>01, <2>1
    <3>2. Roots[i] = <<>>
      BY <2>1, <3>1 DEF HandOver, Latest
    <3> QED BY <3>2 DEF HandOver, NoThread
  <2> QED BY <2>1, <2>2
          DEF HandOver, NotYet, AllStarted, Busy, NoThread, Unheard, Latest,
              Room, Pending, InFlight, Ended, threads
<1>3. ASSUME NEW i \in Root, ThreadRead(i) PROVE HandOver'
  <2>1. /\ UNCHANGED <<started, alive, channel, rx, pc, done>>
        /\ alive[i] /\ held[i] = NoMsg /\ todo[i] # <<>>
        /\ todo' = [todo EXCEPT ![i] = Tail(@)]
    BY <1>3 DEF ThreadRead
  <2>2. \A k \in Root : k # i => todo'[k] = todo[k] /\ held'[k] = held[k]
    BY <1>3 DEF ThreadRead, Typed, TypeOK
  <2>3. Len(todo'[i]) = Len(todo[i]) - 1
    <3>1. todo'[i] = Tail(todo[i])
      BY <2>1 DEF Typed, TypeOK
    <3> QED BY <1>00, <2>1, <3>1, HeadTailProperties
  <2>4. NotYet' /\ Busy'
    BY <2>1, <2>2 DEF HandOver, NotYet, Busy
  <2>5. Room'
    <3>1. Pending(i)' <= Pending(i)
      <4>1. Pending(i) = Len(channel[i]) + 0 + Len(todo[i])
        BY <2>1 DEF Pending, InFlight
      <4>2. Pending(i)' = Len(channel[i]) + InFlight(i)' + (Len(todo[i]) - 1)
        BY <2>1, <2>3 DEF Pending
      <4>3. InFlight(i)' \in {0, 1}
        BY DEF InFlight
      <4>4. Len(channel[i]) \in Nat /\ Len(todo[i]) \in Nat
        BY <1>00
      <4>5. \A a, b \in Nat, c \in {0, 1} : a + c + (b - 1) <= a + 0 + b
        OBVIOUS
      <4>6. Len(channel[i]) + InFlight(i)' + (Len(todo[i]) - 1)
              <= Len(channel[i]) + 0 + Len(todo[i])
        BY <4>3, <4>4, <4>5
      <4> QED BY <4>1, <4>2, <4>6
    <3>2. \A k \in Root : k # i => Pending(k)' = Pending(k)
      BY <2>1, <2>2 DEF Pending, InFlight
    <3> QED BY <1>01, <1>03, <2>1, <3>1, <3>2, SMTT(60) DEF HandOver, Room, Capacity
  <2> QED BY <2>1, <2>4, <2>5
          DEF HandOver, AllStarted, NoThread, Unheard, Latest, Ended,
              FinishedIsExhausted
<1>4. ASSUME NEW i \in Root, ThreadSend(i) PROVE HandOver'
  <2>1. /\ UNCHANGED <<started, todo, alive, rx, pc, done>>
        /\ held[i] \in Msg /\ held' = [held EXCEPT ![i] = NoMsg]
    BY <1>00, <1>4 DEF ThreadSend
  <2>2. alive[i]
    BY <1>4 DEF ThreadSend, HandOver, Busy
  <2>3. \A k \in Root : k # i => channel'[k] = channel[k] /\ held'[k] = held[k]
    BY <1>4 DEF ThreadSend, Typed, TypeOK
  <2>4. held'[i] = NoMsg
    BY <2>1 DEF Typed, TypeOK
  <2>5. \/ rx = i /\ Len(channel'[i]) = Len(channel[i]) + 1
        \/ rx # i /\ channel' = channel
    <3>1. \/ rx = i /\ channel' = [channel EXCEPT ![i] = Append(@, held[i])]
          \/ rx # i /\ channel' = channel
      BY <1>4 DEF ThreadSend
    <3>2. Len(Append(channel[i], held[i])) = Len(channel[i]) + 1
      BY <1>00, <2>1, AppendProperties
    <3> QED BY <3>1, <3>2 DEF Typed, TypeOK
  <2>6. NotYet' /\ Busy'
    BY <2>1, <2>2, <2>3, <2>4 DEF HandOver, NotYet, Busy
  <2>7. NoThread' /\ Unheard'
    BY <2>1, <2>2, <2>3, <2>5 DEF HandOver, NoThread, Unheard
  <2>8. Ended'
    BY <1>01, <2>1, <2>2, <2>3, <2>5 DEF HandOver, Ended, Typed, Draining
  <2>9. FinishedIsExhausted'
    BY <1>0, <2>1, <2>5 DEF HandOver, FinishedIsExhausted
  <2>10. Room'
    <3>1. rx = i => Pending(i)' = Pending(i)
      <4>1. Pending(i) = Len(channel[i]) + 1 + Len(todo[i])
        BY <2>1, NoMsgAssumption DEF Pending, InFlight
      <4>2. rx = i => Pending(i)' = (Len(channel[i]) + 1) + 0 + Len(todo[i])
        BY <2>1, <2>4, <2>5 DEF Pending, InFlight
      <4>3. Len(channel[i]) \in Nat /\ Len(todo[i]) \in Nat
        BY <1>00
      <4> QED BY <4>1, <4>2, <4>3
    <3>2. \A k \in Root : k # i => Pending(k)' = Pending(k)
      BY <2>1, <2>3 DEF Pending, InFlight
    <3> QED BY <2>1, <3>1, <3>2 DEF HandOver, Room, Capacity
  <2> QED BY <2>1, <2>6, <2>7, <2>8, <2>9, <2>10
          DEF HandOver, AllStarted, Latest
<1>5. ASSUME NEW i \in Root, ThreadExit(i) PROVE HandOver'
  <2>1. /\ UNCHANGED <<started, todo, held, channel, rx, pc, done>>
        /\ held[i] = NoMsg /\ todo[i] = <<>>
        /\ \A k \in Root : alive'[k] = (alive[k] /\ k # i)
    BY <1>5 DEF ThreadExit, Typed, TypeOK
  <2>2. Ended'
    BY <1>0, <1>01, <2>1 DEF HandOver, Ended, Typed, Draining
  <2> QED BY <2>1, <2>2
          DEF HandOver, NotYet, AllStarted, Busy, NoThread, Unheard, Latest,
              Room, Pending, InFlight, FinishedIsExhausted
<1>6. ASSUME NEW s \in Seq(Msg), pc \in {"receive", "peek"},
             UNCHANGED <<started, todo, held, alive, rx>>,
             channel' = [channel EXCEPT ![rx] = s],
             Len(s) = Len(channel[rx]) - 1, pc' \in {"receive", "select"}
      PROVE  HandOver'
  <2>1. rx \in Root
    BY <1>0, <1>01, <1>6 DEF Typed, Draining
  <2>2. channel'[rx] = s /\ \A k \in Root : k # rx => channel'[k] = channel[k]
    BY <1>6, <2>1 DEF Typed, TypeOK
  <2>3. NotYet' /\ NoThread' /\ Unheard'
    BY <1>6, <2>1, <2>2 DEF HandOver, NotYet, NoThread, Unheard
  <2>4. Room'
    <3>1. Pending(rx)' <= Pending(rx)
      BY <1>00, <1>6, <2>1, <2>2, LenProperties DEF Pending, InFlight
    <3> QED BY <1>01, <1>03, <1>6, <2>1, <3>1 DEF HandOver, Room, Capacity
  <2> QED BY <1>0, <1>01, <1>6, <2>1, <2>3, <2>4
          DEF HandOver, AllStarted, Busy, Latest, Ended, FinishedIsExhausted
<1>7. CASE DrainReceive
  <2>1. rx \in Root /\ channel[rx] # <<>>
    BY <1>0, <1>01, <1>7 DEF DrainReceive, Typed, Draining
  <2>2. /\ Tail(channel[rx]) \in Seq(Msg)
        /\ Len(Tail(channel[rx])) = Len(channel[rx]) - 1
    BY <1>00, <2>1, HeadTailProperties
  <2> QED BY <1>6, <1>7, <2>2 DEF DrainReceive
<1>8. CASE DrainStop
  <2>1. Ended'
    BY <1>8 DEF DrainStop, Disconnected, Ended, threads
  <2> QED BY <1>8, <2>1, FrameHandedOver DEF DrainStop
<1>9. ASSUME UNCHANGED <<started, threads>>, rx' = 0, pc' = "select",
             rx \in Root, pc # "startup", ~ alive[rx], channel[rx] = <<>>
      PROVE  HandOver'
  <2>1. \A k \in Root : k > rx => ~ alive[k] /\ channel[k] = <<>>
    BY <1>0, <1>01, <1>9 DEF HandOver, AllStarted, Latest, NoThread
  <2>2. Roots[rx] # <<>>
    BY <1>9 DEF HandOver, NoThread
  <2>3. FinishedIsExhausted'
    BY <1>0, <1>01, <1>9, <2>1, <2>2 DEF FinishedIsExhausted, threads
  <2>4. Unheard'
    BY <1>9 DEF HandOver, Unheard, threads
  <2>5. NotYet' /\ NoThread' /\ Room'
    BY <1>0, <1>01, <1>9 DEF HandOver, NotYet, NoThread, Room, threads
  <2> QED BY <1>9, <2>3, <2>4, <2>5
          DEF HandOver, AllStarted, Busy, Latest, Ended, threads
<1>10. CASE Flushed
  <2>1. CASE done
    <3>1. /\ UNCHANGED <<started, threads>> /\ rx' = 0 /\ pc' = "select"
          /\ rx \in Root /\ pc # "startup" /\ ~ alive[rx] /\ channel[rx] = <<>>
      BY <1>0, <1>01, <1>10, <2>1 DEF Flushed, HandOver, Ended, Typed, Draining
    <3> QED BY <1>9, <3>1
  <2>2. CASE ~ done
    BY <1>10, <2>2, FrameHandedOver DEF Flushed, Ended
  <2> QED BY <2>1, <2>2
<1>11. CASE Peek
  <2>1. rx \in Root /\ pc = "peek" /\ pc' = "select"
    BY <1>0, <1>01, <1>11 DEF Peek, Typed, Draining
  <2>2. CASE Disconnected(rx)
    BY <1>9, <1>11, <2>1, <2>2 DEF Peek, Disconnected, threads
  <2>3. CASE ~ Disconnected(rx) /\ channel[rx] = <<>>
    BY <1>11, <2>1, <2>3, FrameHandedOver DEF Peek, Ended, threads
  <2>4. CASE channel[rx] # <<>>
    <3>1. /\ Tail(channel[rx]) \in Seq(Msg)
          /\ Len(Tail(channel[rx])) = Len(channel[rx]) - 1
      BY <1>00, <2>1, <2>4, HeadTailProperties
    <3> QED BY <1>6, <1>11, <2>1, <2>4, <3>1 DEF Peek, Disconnected
  <2> QED BY <2>2, <2>3, <2>4
<1>12. CASE \/ DrainBegin \/ FlushOne \/ Check \/ EventFlushed
            \/ \E f \in File : FileEvent(f)
            \/ \E f \in File, t \in Text \cup {NoText} : DiskWrite(f, t)
            \/ UNCHANGED vars
  <2>1. /\ UNCHANGED <<started, threads, rx>>
        /\ pc' = "startup" <=> pc = "startup"
    BY <1>12 DEF DrainBegin, FlushOne, Check, EventFlushed, FileEvent,
                 DiskWrite, vars
  <2>2. Ended'
    BY <1>12 DEF HandOver, Ended, DrainBegin, FlushOne, Check, EventFlushed,
                 FileEvent, DiskWrite, vars, threads
  <2> QED BY <2>1, <2>2, FrameHandedOver
<1>13. CASE Drain
  BY <1>7, <1>8, <1>10, <1>11, <1>12, <1>13 DEF Drain
<1>14. ASSUME NEW i \in Root, Thread(i) PROVE HandOver'
  BY <1>3, <1>4, <1>5, <1>14 DEF Thread
<1>15. CASE Next
  <2>1. CASE Startup
    BY <1>1, <1>2, <2>1 DEF Startup
  <2>2. CASE \E f \in File : FileEvent(f)
    BY <1>12, <2>2
  <2>3. CASE \E f \in File, t \in Text \cup {NoText} : DiskWrite(f, t)
    BY <1>12, <2>3
  <2> QED BY <1>13, <1>14, <1>15, <2>1, <2>2, <2>3 DEF Next
<1>16. CASE UNCHANGED vars
  BY <1>16, FrameHandedOver DEF vars, threads, HandOver, Ended
<1> QED BY <1>15, <1>16

LEMMA AlwaysHandedOver == Spec => [](Typed /\ HandOver)
<1>1. Init => Typed /\ HandOver
  BY InitTyped, InitHandedOver, LoaderAssumption
<1>2. Typed /\ HandOver /\ [Next]_vars => (Typed /\ HandOver)'
  BY NextTyped, NextHandedOver, LoaderAssumption, NoMsgAssumption
<1> QED BY <1>1, <1>2, PTL DEF Spec

\* The capacity that index_files_background gives a channel, the number of
\* the root's files, is enough for a thread never to wait for the main loop.
THEOREM SendIsFree == Spec => []SendNeverBlocks
<1>1. Typed /\ HandOver => SendNeverBlocks
  <2> SUFFICES ASSUME Typed, HandOver, NEW i \in Root, held[i] # NoMsg, rx = i
               PROVE  Len(channel[i]) < Capacity(i)
    BY DEF SendNeverBlocks
  <2>1. Len(channel[i]) \in Nat /\ Len(todo[i]) \in Nat
    BY LenProperties DEF Typed, TypeOK
  <2>2. Len(channel[i]) + 1 + Len(todo[i]) <= Capacity(i)
    BY DEF HandOver, Room, Pending, InFlight
  <2>3. Len(Roots[i]) \in Nat
    BY LoaderAssumption, LenProperties DEF LoaderAssumption, Root
  <2>4. Capacity(i) \in Nat
    BY <2>3 DEF Capacity
  <2>5. \A a, b, c \in Nat : a + 1 + b <= c => a < c
    OBVIOUS
  <2> QED BY <2>1, <2>2, <2>4, <2>5
<1> QED BY <1>1, AlwaysHandedOver, PTL

\* drain_workspace_index lets go of a receiver only when its thread is gone
\* and its channel empty; only a later root's receiver takes its place sooner.
THEOREM FinishesLast == Spec => []FinishedIsExhausted
<1>1. Typed /\ HandOver => FinishedIsExhausted
  BY DEF HandOver
<1> QED BY <1>1, AlwaysHandedOver, PTL
-------------------------------------------------------------------------------
(***************************************************************************)
(* Where the files that were read are.                                     *)
(***************************************************************************)
Has(s, f) == \E m \in Elements(s) : m.file = f

LEMMA HasAppend ==
  ASSUME NEW S, NEW s \in Seq(S), NEW m \in S, NEW f,
         Has(s, f) \/ m.file = f
  PROVE  Has(Append(s, m), f)
<1>1. /\ DOMAIN s = 1 .. Len(s) /\ Len(s) \in Nat
      /\ DOMAIN Append(s, m) = 1 .. (Len(s) + 1)
  BY LenProperties, AppendProperties
<1>2. CASE Has(s, f)
  <2>1. PICK n \in 1 .. Len(s) : s[n].file = f
    BY <1>1, <1>2 DEF Has, Elements
  <2>2. n \in DOMAIN Append(s, m) /\ Append(s, m)[n] = s[n]
    BY <1>1, AppendProperties
  <2> QED BY <2>1, <2>2 DEF Has, Elements
<1>3. CASE m.file = f
  <2>1. Len(s) + 1 \in DOMAIN Append(s, m) /\ Append(s, m)[Len(s) + 1] = m
    BY <1>1, AppendProperties
  <2> QED BY <1>3, <2>1 DEF Has, Elements
<1> QED BY <1>2, <1>3

LEMMA HasAppendEither ==
  ASSUME NEW S, NEW s \in Seq(S), NEW m \in S, NEW f, Has(Append(s, m), f)
  PROVE  Has(s, f) \/ m.file = f
<1>1. /\ DOMAIN s = 1 .. Len(s) /\ Len(s) \in Nat
      /\ DOMAIN Append(s, m) = 1 .. (Len(s) + 1)
      /\ \A n \in 1 .. Len(s) : Append(s, m)[n] = s[n]
      /\ Append(s, m)[Len(s) + 1] = m
  BY LenProperties, AppendProperties
<1>2. PICK n \in 1 .. (Len(s) + 1) : Append(s, m)[n].file = f
  BY <1>1 DEF Has, Elements
<1>3. n = Len(s) + 1 \/ n \in 1 .. Len(s)
  BY <1>1
<1> QED BY <1>1, <1>2, <1>3 DEF Has, Elements

LEMMA HasTail ==
  ASSUME NEW S, NEW s \in Seq(S), s # <<>>, NEW f, Has(s, f)
  PROVE  Head(s).file = f \/ Has(Tail(s), f)
<1>1. /\ DOMAIN s = 1 .. Len(s) /\ Len(s) \in Nat
      /\ DOMAIN Tail(s) = 1 .. (Len(s) - 1)
      /\ \A n \in 1 .. (Len(s) - 1) : Tail(s)[n] = s[n + 1]
      /\ Head(s) = s[1]
  BY LenProperties, HeadTailProperties
<1>2. PICK n \in 1 .. Len(s) : s[n].file = f
  BY <1>1 DEF Has, Elements
<1>3. CASE n = 1
  BY <1>1, <1>2, <1>3
<1>4. CASE n # 1
  <2>1. n - 1 \in 1 .. (Len(s) - 1) /\ (n - 1) + 1 = n
    BY <1>1, <1>4
  <2>2. n - 1 \in DOMAIN Tail(s) /\ Tail(s)[n - 1].file = f
    BY <1>1, <1>2, <2>1
  <2> QED BY <2>2 DEF Has, Elements
<1> QED BY <1>3, <1>4

LEMMA HasNothing ==
  ASSUME NEW f
  PROVE  ~ Has(<<>>, f)
BY DEF Has, Elements

\* The places of ReadIsAccountedFor.
ReadBy(f) == \E i \in Root : held[i] # NoMsg /\ held[i].file = f

Sent(f) == rx \in Root /\ Has(channel[rx], f)

Taken(f) == Has(queue, f) \/ content[f] # NoText

Accounted == \A f \in loaded : ReadBy(f) \/ Sent(f) \/ Taken(f) \/ f \in lost

LEMMA AccountedIsReadIsAccountedFor ==
  ASSUME Accounted
  PROVE  ReadIsAccountedFor
<1> SUFFICES ASSUME NEW f \in loaded, ReadBy(f) \/ Sent(f) \/ Has(queue, f)
             PROVE  f \in InHand
  BY DEF Accounted, Taken, ReadIsAccountedFor
<1>1. CASE ReadBy(f)
  BY <1>1 DEF ReadBy, InHand
<1>2. CASE Sent(f)
  <2>1. PICK m \in Elements(channel[rx]) : m.file = f
    BY <1>2 DEF Sent, Has
  <2>2. rx \in Root \cap {rx}
    BY <1>2 DEF Sent
  <2>3. m \in UNION {Elements(channel[i]) : i \in Root \cap {rx}}
    BY <2>1, <2>2
  <2> QED BY <2>1, <2>3 DEF InHand
<1>3. CASE Has(queue, f)
  BY <1>3 DEF Has, InHand
<1> QED BY <1>1, <1>2, <1>3

\* What Accept is given is then taken, and what was taken stays so.
LEMMA AcceptTakes ==
  ASSUME LoaderAssumption, Typed, NEW m \in Msg, Accept(m), NEW f \in File,
         Taken(f) \/ m.file = f
  PROVE  Taken(f)'
<1>1. m.file \in File /\ m.text \in Text /\ m.text # NoText
  BY DEF LoaderAssumption, Msg
<1>2. CASE names[m.file] # NoName
  <2>1. queue' = Append(queue, m) /\ content' = content
    BY <1>2 DEF Accept
  <2>2. Has(queue, f) \/ m.file = f => Has(queue', f)
    BY <2>1, HasAppend DEF Typed, TypeOK
  <2> QED BY <2>1, <2>2 DEF Taken
<1>3. CASE names[m.file] = NoName
  <2>1. content' = [content EXCEPT ![m.file] = m.text] /\ queue' = queue
    BY <1>3 DEF Accept
  <2>2. content[f] # NoText \/ m.file = f => content'[f] # NoText
    BY <1>1, <2>1 DEF Typed, TypeOK
  <2> QED BY <2>1, <2>2 DEF Taken
<1> QED BY <1>2, <1>3

LEMMA NextAccounted ==
  ASSUME LoaderAssumption, NoMsgAssumption, Typed, HandOver, Accounted,
         [Next]_vars
  PROVE  Accounted'
<1>0. loaded \subseteq File /\ rx \in Root \cup {0} /\ 0 \notin Root
  <2>1. Len(Roots) \in Nat /\ Root = 1 .. Len(Roots)
    BY DEF LoaderAssumption, Root
  <2>2. 0 \notin Root
    BY <2>1
  <2> QED BY <2>2 DEF Typed, TypeOK
<1>1. CASE StartRoot
  <2>1. UNCHANGED <<held, queue, content, loaded>> /\ lost \subseteq lost'
    BY <1>1 DEF StartRoot, host
  <2>2. ASSUME NEW f \in File, Sent(f) PROVE Sent(f)' \/ f \in lost'
    <3>1. PICK m \in Elements(channel[rx]) : m.file = f
      BY <2>2 DEF Sent, Has
    <3>2. rx # 0
      BY <1>0, <2>2 DEF Sent
    <3>3. \/ UNCHANGED <<channel, rx>>
          \/ lost' = lost \cup {e.file : e \in Elements(channel[rx])}
      BY <1>1, <3>2 DEF StartRoot
    <3> QED BY <2>2, <3>1, <3>3 DEF Sent
  <2> QED BY <1>0, <2>1, <2>2 DEF Accounted, ReadBy, Taken
<1>2. ASSUME NEW i \in Root, ThreadRead(i) PROVE Accounted'
  <2>0. PICK g \in File : g = Head(todo[i])
    BY <1>2, HeadTailProperties DEF ThreadRead, Typed, TypeOK
  <2>1. UNCHANGED <<channel, rx, queue, content, lost>> /\ held[i] = NoMsg
    BY <1>2 DEF ThreadRead, host
  <2>2. \A k \in Root : k # i => held'[k] = held[k]
    BY <1>2 DEF ThreadRead, Typed, TypeOK
  <2>3. \A f : ReadBy(f) => ReadBy(f)'
    BY <2>1, <2>2 DEF ReadBy
  <2>4. CASE Readable(g)
    <3>1. PICK m \in Msg : m.file = g /\ m = [file |-> g, text |-> disk[g]]
      BY <2>4 DEF Readable, Msg, Typed, TypeOK
    <3>2. loaded' = loaded \cup {g}
      BY <1>2, <2>0, <2>4 DEF ThreadRead
    <3>3. held'[i] = m
      <4>1. held' = [held EXCEPT ![i] = [file |-> g, text |-> disk[g]]]
        BY <1>2, <2>0, <2>4 DEF ThreadRead
      <4> QED BY <3>1, <4>1 DEF Typed, TypeOK
    <3>4. ReadBy(g)'
      BY <3>1, <3>3, NoMsgAssumption DEF ReadBy
    <3> QED BY <2>1, <2>3, <3>2, <3>4 DEF Accounted, Sent, Taken
  <2>5. CASE ~ Readable(g)
    <3>1. loaded' = loaded
      BY <1>2, <2>0, <2>5 DEF ThreadRead
    <3> QED BY <2>1, <2>3, <3>1 DEF Accounted, Sent, Taken
  <2> QED BY <2>4, <2>5
<1>3. ASSUME NEW i \in Root, ThreadSend(i) PROVE Accounted'
  <2>1. /\ UNCHANGED <<rx, queue, content, loaded>>
        /\ held[i] \in Msg
        /\ lost \subseteq lost'
    BY <1>3 DEF ThreadSend, host, Typed, TypeOK
  <2>2. ASSUME NEW f \in File, ReadBy(f)
        PROVE  ReadBy(f)' \/ Sent(f)' \/ f \in lost'
    <3>1. PICK k \in Root : held[k] # NoMsg /\ held[k].file = f
      BY <2>2 DEF ReadBy
    <3>2. CASE k # i
      <4>1. held'[k] = held[k]
        BY <1>3, <3>2 DEF ThreadSend, Typed, TypeOK
      <4> QED BY <3>1, <4>1 DEF ReadBy
    <3>3. CASE k = i /\ rx = i
      <4>1. channel'[i] = Append(channel[i], held[i])
        BY <1>3, <3>3 DEF ThreadSend, Typed, TypeOK
      <4>2. Has(channel'[i], f)
        <5>1. channel[i] \in Seq(Msg) /\ held[i].file = f
          BY <3>1, <3>3 DEF Typed, TypeOK
        <5> QED BY <2>1, <4>1, <5>1, HasAppend
      <4> QED BY <2>1, <3>3, <4>2 DEF Sent
    <3>4. CASE k = i /\ rx # i
      BY <1>3, <3>1, <3>4 DEF ThreadSend
    <3> QED BY <3>2, <3>3, <3>4
  <2>3. ASSUME NEW f \in File, Sent(f) PROVE Sent(f)'
    <3>1. CASE rx = i
      <4>1. channel'[i] = Append(channel[i], held[i])
        BY <1>3, <3>1 DEF ThreadSend, Typed, TypeOK
      <4>2. Has(channel'[i], f)
        <5>1. channel[i] \in Seq(Msg) /\ Has(channel[i], f)
          BY <2>3, <3>1 DEF Sent, Typed, TypeOK
        <5> QED BY <2>1, <4>1, <5>1, HasAppend
      <4> QED BY <2>1, <3>1, <4>2 DEF Sent
    <3>2. CASE rx # i
      BY <1>3, <2>3, <3>2 DEF ThreadSend, Sent
    <3> QED BY <3>1, <3>2
  <2> QED BY <1>0, <2>1, <2>2, <2>3 DEF Accounted, Taken
<1>4. CASE DrainReceive
  <2>1. rx \in Root /\ channel[rx] \in Seq(Msg) /\ channel[rx] # <<>>
    BY <1>0, <1>4 DEF DrainReceive, Typed, TypeOK, Draining
  <2>2. /\ UNCHANGED <<held, rx, loaded, lost>>
        /\ channel'[rx] = Tail(channel[rx])
        /\ Accept(Head(channel[rx]))
    BY <1>4, <2>1 DEF DrainReceive, Typed, TypeOK
  <2>3. Head(channel[rx]) \in Msg
    BY <2>1, HeadTailProperties
  <2>4. \A f \in File : Taken(f) => Taken(f)'
    BY <2>2, <2>3, AcceptTakes
  <2>5. ASSUME NEW f \in File, Sent(f) PROVE Sent(f)' \/ Taken(f)'
    <3>1. Head(channel[rx]).file = f \/ Has(Tail(channel[rx]), f)
      BY <2>1, <2>5, HasTail DEF Sent
    <3>2. Head(channel[rx]).file = f => Taken(f)'
      BY <2>2, <2>3, AcceptTakes
    <3> QED BY <2>1, <2>2, <3>1, <3>2 DEF Sent
  <2> QED BY <1>0, <2>2, <2>4, <2>5 DEF Accounted, ReadBy
<1>5. CASE FlushOne
  <2> DEFINE m == Head(queue)
  <2>1. /\ UNCHANGED <<held, channel, rx, loaded, lost>> /\ queue # <<>>
        /\ content' = [content EXCEPT ![m.file] = m.text]
        /\ queue' = Tail(queue)
    BY <1>5 DEF FlushOne, threads
  <2>2. queue \in Seq(Msg) /\ m \in Msg
    BY <2>1, HeadTailProperties DEF Typed, TypeOK
  <2>3. m.text # NoText
    BY <2>2 DEF LoaderAssumption, Msg
  <2> HIDE DEF m
  <2>4. \A f \in File :
          content[f] # NoText \/ m.file = f => content'[f] # NoText
    BY <2>1, <2>3 DEF Typed, TypeOK
  <2>5. \A f \in File : Has(queue, f) => m.file = f \/ Has(queue', f)
    BY <2>1, <2>2, HasTail DEF m
  <2> QED BY <1>0, <2>1, <2>4, <2>5 DEF Accounted, ReadBy, Sent, Taken
<1>6. CASE Flushed
  <2>1. UNCHANGED <<held, channel, queue, content, loaded, lost>>
    BY <1>6 DEF Flushed, host, threads
  <2>2. CASE done
    <3>1. channel[rx] = <<>>
      BY <1>6, <2>2 DEF Flushed, HandOver, Ended
    <3>2. \A f : ~ Sent(f)
      BY <3>1, HasNothing DEF Sent
    <3> QED BY <2>1, <3>2 DEF Accounted, ReadBy, Taken
  <2>3. CASE ~ done
    BY <1>6, <2>1, <2>3 DEF Flushed, Accounted, ReadBy, Sent, Taken
  <2> QED BY <2>2, <2>3
<1>7. CASE Peek
  <2>1. /\ UNCHANGED <<held, queue, content, loaded>> /\ lost \subseteq lost'
        /\ rx \in Root
    BY <1>0, <1>7 DEF Peek, host, Typed, Draining
  <2>2. ASSUME NEW f \in File, Sent(f) PROVE Sent(f)' \/ f \in lost'
    <3>1. channel[rx] # <<>>
      BY <2>2, HasNothing DEF Sent
    <3>2. /\ rx' = rx /\ channel'[rx] = Tail(channel[rx])
          /\ lost' = lost \cup {Head(channel[rx]).file}
      BY <1>7, <2>1, <3>1 DEF Peek, Disconnected, Typed, TypeOK
    <3>3. Head(channel[rx]).file = f \/ Has(Tail(channel[rx]), f)
      BY <2>1, <2>2, <3>1, HasTail DEF Sent, Typed, TypeOK
    <3> QED BY <2>1, <3>2, <3>3 DEF Sent
  <2> QED BY <1>0, <2>1, <2>2 DEF Accounted, ReadBy, Taken
<1>8. ASSUME NEW e \in File, FileEvent(e) PROVE Accounted'
  <2> DEFINE m == [file |-> e, text |-> disk[e]]
  <2>1. UNCHANGED <<held, channel, rx, loaded, lost>> /\ Accept(m)
    BY <1>8 DEF FileEvent, threads
  <2>2. m \in Msg
    BY <1>8 DEF FileEvent, Readable, Typed, TypeOK, Msg
  <2> HIDE DEF m
  <2>3. \A f \in File : Taken(f) => Taken(f)'
    BY <2>1, <2>2, AcceptTakes
  <2> QED BY <1>0, <2>1, <2>3 DEF Accounted, ReadBy, Sent
<1>9. ASSUME UNCHANGED <<held, channel, rx, queue, content, loaded, lost>>
      PROVE  Accounted'
  BY <1>9 DEF Accounted, ReadBy, Sent, Taken
<1>10. ASSUME NEW i \in Root, Thread(i) PROVE Accounted'
  BY <1>2, <1>3, <1>9, <1>10 DEF Thread, ThreadExit, host
<1>11. CASE Run \/ DrainBegin \/ DrainStop \/ Check \/ EventFlushed
  BY <1>9, <1>11
  DEF Run, DrainBegin, DrainStop, Check, EventFlushed, host, threads
<1>12. CASE Drain
  BY <1>4, <1>5, <1>6, <1>7, <1>11, <1>12 DEF Drain
<1>13. ASSUME NEW f \in File, NEW t \in Text \cup {NoText}, DiskWrite(f, t)
       PROVE Accounted'
  BY <1>9, <1>13 DEF DiskWrite, host, threads
<1>14. CASE UNCHANGED vars
  BY <1>9, <1>14 DEF vars, host, threads
<1>15. CASE Startup
  BY <1>1, <1>11, <1>15 DEF Startup
<1> QED BY <1>8, <1>10, <1>12, <1>13, <1>14, <1>15 DEF Next

\* No step of the hand-over loses a file that was read, but for the peek and
\* the start of a further root, whose losses are in lost.
THEOREM NothingElseLost == Spec => []ReadIsAccountedFor
<1>1. Init => Accounted
  BY DEF Init, Accounted
<1>2. Typed /\ HandOver /\ Accounted /\ [Next]_vars => Accounted'
  BY NextAccounted, LoaderAssumption, NoMsgAssumption
<1>3. Accounted => ReadIsAccountedFor
  BY AccountedIsReadIsAccountedFor
<1> QED BY <1>1, <1>2, <1>3, AlwaysHandedOver, PTL DEF Spec
-------------------------------------------------------------------------------
(***************************************************************************)
(* The order of the hand-over: a thread reads the files of its root as     *)
(* add_root saw them, and none overtakes another on the way through        *)
(* channel and queue.                                                      *)
(***************************************************************************)
Carries(nm, s, n) == \E j \in DOMAIN s : nm[s[j].file] = n

\* No file with a name is behind a given one of that name.
LastOf(nm, s, g, n) ==
  \A a, b \in DOMAIN s : a < b /\ s[a].file = g => nm[s[b].file] # n

\* Files with a name that the thread has to read, has read, has sent.
ToRead(n) == rx \in Root /\ \E j \in DOMAIN todo[rx] : names[todo[rx][j]] = n

InHands(n) == rx \in Root /\ held[rx] # NoMsg /\ names[held[rx].file] = n

OnChannel(n) == rx \in Root /\ Carries(names, channel[rx], n)

\* Wherever a file is on its way, none with its name comes behind.
ReadLast(n, g) ==
  /\ rx \in Root =>
       \A a, b \in DOMAIN todo[rx] :
         a < b /\ todo[rx][a] = g => names[todo[rx][b]] # n
  /\ rx \in Root /\ held[rx] # NoMsg /\ held[rx].file = g => ~ ToRead(n)

SentLast(n, g) ==
  /\ rx \in Root => LastOf(names, channel[rx], g, n)
  /\ Sent(g) => ~ InHands(n) /\ ~ ToRead(n)

QueuedLast(n, g) ==
  /\ LastOf(names, queue, g, n)
  /\ Has(queue, g) => ~ OnChannel(n) /\ ~ InHands(n) /\ ~ ToRead(n)

FlushedLast(n, g) ==
  content[g] # NoText =>
    /\ entries[n] = g
    /\ ~ Carries(names, queue, n) /\ ~ OnChannel(n) /\ ~ InHands(n) /\ ~ ToRead(n)

InOrder(n, g) ==
  ReadLast(n, g) /\ SentLast(n, g) /\ QueuedLast(n, g) /\ FlushedLast(n, g)

\* What ResolutionAgrees asks of the files of a name.
Untouched(n, g) ==
  /\ names[g] = n
  /\ \A f \in File :
       names[f] = n => f \notin touched /\ (f = g \/ ~ KeepsName(f))

\* What ResolutionAgrees needs to be inductive.
NothingFlushed ==
  pc = "startup" => queue = <<>> /\ \A f \in File : content[f] = NoText

Ordered ==
  /\ NothingFlushed
  /\ \A n \in Name, g \in File :
       moduleMap[n] = g /\ Untouched(n, g) => InOrder(n, g)

\* Append and Tail leave the order as it was.
LEMMA CarriesAppend ==
  ASSUME NEW S, NEW nm, NEW s \in Seq(S), NEW m \in S, NEW n,
         Carries(nm, Append(s, m), n)
  PROVE  Carries(nm, s, n) \/ nm[m.file] = n
<1>1. /\ DOMAIN s = 1 .. Len(s) /\ Len(s) \in Nat
      /\ DOMAIN Append(s, m) = 1 .. (Len(s) + 1)
      /\ \A j \in 1 .. Len(s) : Append(s, m)[j] = s[j]
      /\ Append(s, m)[Len(s) + 1] = m
  BY LenProperties, AppendProperties
<1>2. PICK j \in 1 .. (Len(s) + 1) : nm[Append(s, m)[j].file] = n
  BY <1>1 DEF Carries
<1>3. CASE j = Len(s) + 1
  BY <1>1, <1>2, <1>3
<1>4. CASE j # Len(s) + 1
  <2>1. j \in 1 .. Len(s)
    BY <1>1, <1>4
  <2> QED BY <1>1, <1>2, <2>1 DEF Carries
<1> QED BY <1>3, <1>4

LEMMA LastOfAppend ==
  ASSUME NEW S, NEW nm, NEW s \in Seq(S), NEW m \in S, NEW g, NEW n,
         LastOf(nm, s, g, n), Has(s, g) => nm[m.file] # n
  PROVE  LastOf(nm, Append(s, m), g, n)
<1>1. /\ DOMAIN s = 1 .. Len(s) /\ Len(s) \in Nat
      /\ DOMAIN Append(s, m) = 1 .. (Len(s) + 1)
      /\ \A j \in 1 .. Len(s) : Append(s, m)[j] = s[j]
      /\ Append(s, m)[Len(s) + 1] = m
  BY LenProperties, AppendProperties
<1> SUFFICES ASSUME NEW a \in 1 .. (Len(s) + 1), NEW b \in 1 .. (Len(s) + 1),
                    a < b, Append(s, m)[a].file = g
             PROVE  nm[Append(s, m)[b].file] # n
  BY <1>1 DEF LastOf
<1>2. a \in 1 .. Len(s) /\ s[a].file = g
  BY <1>1
<1>3. CASE b = Len(s) + 1
  <2>1. Has(s, g)
    BY <1>1, <1>2 DEF Has, Elements
  <2> QED BY <1>1, <1>3, <2>1
<1>4. CASE b # Len(s) + 1
  <2>1. b \in 1 .. Len(s)
    BY <1>1, <1>4
  <2> QED BY <1>1, <1>2, <2>1 DEF LastOf
<1> QED BY <1>3, <1>4

\* Where head and tail are in a sequence.
LEMMA Behead ==
  ASSUME NEW S, NEW nm, NEW s \in Seq(S), s # <<>>
  PROVE  /\ DOMAIN s = 1 .. Len(s) /\ Len(s) \in Nat \ {0}
         /\ DOMAIN Tail(s) = 1 .. (Len(s) - 1)
         /\ \A j \in 1 .. (Len(s) - 1) : /\ Tail(s)[j] = s[j + 1]
                                       /\ j + 1 \in 1 .. Len(s) /\ 1 < j + 1
         /\ \A a, b \in 1 .. (Len(s) - 1) : a < b => a + 1 < b + 1
         /\ Head(s) = s[1] /\ s[1] \in S /\ 1 \in 1 .. Len(s)
<1>1. DOMAIN s = 1 .. Len(s) /\ Len(s) \in Nat \ {0}
  BY LenProperties, EmptySeq
<1>2. /\ Head(s) = s[1] /\ 1 \in 1 .. Len(s)
      /\ \A j \in 1 .. (Len(s) - 1) : j + 1 \in 1 .. Len(s) /\ 1 < j + 1
      /\ \A a, b \in 1 .. (Len(s) - 1) : a < b => a + 1 < b + 1
  BY <1>1, HeadTailProperties
<1>3. /\ DOMAIN Tail(s) = 1 .. (Len(s) - 1)
      /\ \A j \in 1 .. (Len(s) - 1) : Tail(s)[j] = s[j + 1]
  BY <1>1, HeadTailProperties, LenProperties
<1>4. s[1] \in S
  BY <1>1, <1>2, ElementOfSeq
<1> QED BY <1>1, <1>2, <1>3, <1>4

\* What the tail carries, the sequence carries behind its head.
LEMMA CarriesTail ==
  ASSUME NEW S, NEW nm, NEW s \in Seq(S), s # <<>>, NEW g, NEW n
  PROVE  /\ Carries(nm, Tail(s), n) => Carries(nm, s, n)
         /\ nm[Head(s).file] = n => Carries(nm, s, n)
         /\ LastOf(nm, s, g, n) => LastOf(nm, Tail(s), g, n)
         /\ LastOf(nm, s, g, n) /\ Head(s).file = g => ~ Carries(nm, Tail(s), n)
         /\ Has(Tail(s), g) \/ Head(s).file = g => Has(s, g)
<1>1. /\ DOMAIN s = 1 .. Len(s) /\ Len(s) \in Nat \ {0}
      /\ DOMAIN Tail(s) = 1 .. (Len(s) - 1)
      /\ \A j \in 1 .. (Len(s) - 1) : Tail(s)[j] = s[j + 1]
      /\ Head(s) = s[1]
  BY Behead
<1>2. \A j \in 1 .. (Len(s) - 1) : j + 1 \in 1 .. Len(s) /\ 1 < j + 1
  BY Behead
<1>3. 1 \in 1 .. Len(s)
  BY Behead
<1>4. /\ Carries(nm, Tail(s), n) => Carries(nm, s, n)
      /\ nm[Head(s).file] = n => Carries(nm, s, n)
  BY <1>1, <1>2, <1>3 DEF Carries
<1>5. LastOf(nm, s, g, n) /\ Head(s).file = g => ~ Carries(nm, Tail(s), n)
  BY <1>1, <1>2, <1>3 DEF LastOf, Carries
<1>6. ASSUME LastOf(nm, s, g, n) PROVE LastOf(nm, Tail(s), g, n)
  <2> SUFFICES ASSUME NEW a \in 1 .. (Len(s) - 1), NEW b \in 1 .. (Len(s) - 1),
                      a < b, Tail(s)[a].file = g
               PROVE  nm[Tail(s)[b].file] # n
    BY <1>1 DEF LastOf
  <2>1. a + 1 < b + 1
    BY <1>1
  <2> QED BY <1>1, <1>2, <1>6, <2>1 DEF LastOf
<1>7. Has(Tail(s), g) \/ Head(s).file = g => Has(s, g)
  BY <1>1, <1>2, <1>3 DEF Has, Elements
<1> QED BY <1>4, <1>5, <1>6, <1>7

\* A step that moves a message on keeps the order; a message that is dropped
\* leaves it to those behind it.
LEMMA NextInOrder ==
  ASSUME LoaderAssumption, NoMsgAssumption, Typed, NEW n \in Name, NEW g \in File,
         InOrder(n, g), Untouched(n, g)', names' = names,
         [Next]_vars, ~ StartRoot
  PROVE  InOrder(n, g)'
<1> USE DEF Typed
<1>000. names[g] = n /\ \A f \in touched' \cap File : names[f] # n
  BY DEF Untouched
<1>0. /\ 0 \notin Root /\ rx \in Root \cup {0} /\ n # NoName
      /\ Root = 1 .. Len(Roots) /\ Len(Roots) \in Nat
  <2>1. Root = 1 .. Len(Roots) /\ Len(Roots) \in Nat
    BY DEF LoaderAssumption, Root
  <2>2. 0 \notin Root
    BY <2>1
  <2> QED BY <2>1, <2>2 DEF TypeOK, LoaderAssumption
<1>00. \A i \in Root : /\ todo[i] \in Seq(File) /\ channel[i] \in Seq(Msg)
                       /\ held[i] \in Msg \cup {NoMsg}
  BY DEF TypeOK
<1>01. \A s \in Seq(Msg), m \in Msg :
         LastOf(names, s, g, n) /\ (Has(s, g) => names[m.file] # n)
         => LastOf(names, Append(s, m), g, n)
  BY LastOfAppend
<1>02. \A s \in Seq(Msg) : s # <<>> =>
         /\ Carries(names, Tail(s), n) => Carries(names, s, n)
         /\ names[Head(s).file] = n => Carries(names, s, n)
         /\ LastOf(names, s, g, n) => LastOf(names, Tail(s), g, n)
         /\ LastOf(names, s, g, n) /\ Head(s).file = g
              => ~ Carries(names, Tail(s), n)
         /\ Has(Tail(s), g) \/ Head(s).file = g => Has(s, g)
  BY CarriesTail
<1>1. ASSUME NEW i \in Root, ThreadRead(i) PROVE InOrder(n, g)'
  <2>1. /\ UNCHANGED <<rx, channel, queue, content, entries>>
        /\ held[i] = NoMsg /\ todo[i] # <<>>
        /\ todo' = [todo EXCEPT ![i] = Tail(@)]
    BY <1>1 DEF ThreadRead, host
  <2>2. \A k \in Root : k # i => todo'[k] = todo[k] /\ held'[k] = held[k]
    BY <1>1 DEF ThreadRead, TypeOK
  <2>3. CASE rx # i
    <3>1. rx \in Root => todo'[rx] = todo[rx] /\ held'[rx] = held[rx]
      BY <2>2, <2>3
    <3>2. /\ ToRead(n)' <=> ToRead(n)
          /\ InHands(n)' <=> InHands(n)
          /\ OnChannel(n)' <=> OnChannel(n)
          /\ Sent(g)' <=> Sent(g)
      BY <2>1, <3>1 DEF ToRead, InHands, OnChannel, Sent
    <3>3. ReadLast(n, g)'
      BY <2>1, <3>1, <3>2 DEF InOrder, ReadLast
    <3> QED BY <2>1, <3>2, <3>3
            DEF InOrder, SentLast, QueuedLast, FlushedLast
  <2>4. CASE rx = i
    <3> DEFINE f == Head(todo[i])
    <3>1. /\ DOMAIN todo[i] = 1 .. Len(todo[i]) /\ Len(todo[i]) \in Nat \ {0}
          /\ todo'[i] = Tail(todo[i])
          /\ DOMAIN todo'[i] = 1 .. (Len(todo[i]) - 1)
          /\ \A j \in 1 .. (Len(todo[i]) - 1) : todo'[i][j] = todo[i][j + 1]
          /\ f = todo[i][1] /\ f \in File
      <4>1. todo'[i] = Tail(todo[i])
        BY <2>1 DEF TypeOK
      <4>2. \A s \in Seq(File) : s # <<>> =>
              /\ DOMAIN s = 1 .. Len(s) /\ Len(s) \in Nat \ {0}
              /\ DOMAIN Tail(s) = 1 .. (Len(s) - 1)
              /\ \A j \in 1 .. (Len(s) - 1) : Tail(s)[j] = s[j + 1]
              /\ Head(s) = s[1] /\ s[1] \in File
        BY Behead
      <4>3. todo[i] \in Seq(File)
        BY <1>00
      <4> QED BY <2>1, <4>1, <4>2, <4>3
    <3>2. held'[i] = NoMsg \/ held'[i].file = f
      <4>1. CASE Readable(f)
        <5>1. held' = [held EXCEPT ![i] = [file |-> f, text |-> disk[f]]]
          BY <1>1, <4>1 DEF ThreadRead
        <5>2. held'[i] = [file |-> f, text |-> disk[f]]
          BY <5>1 DEF TypeOK
        <5> QED BY <5>2
      <4>2. CASE ~ Readable(f)
        BY <1>1, <2>1, <4>2 DEF ThreadRead
      <4> QED BY <4>1, <4>2
    <3> HIDE DEF f
    <3>3. \A j \in 1 .. (Len(todo[i]) - 1) : j + 1 \in 1 .. Len(todo[i]) /\ 1 < j + 1
      BY <3>1
    <3>4. /\ ToRead(n)' => ToRead(n)
          /\ names[f] = n => ToRead(n)
      <4>1. ASSUME NEW j \in DOMAIN todo[i], names[todo[i][j]] = n
            PROVE  ToRead(n)
        BY <2>4, <4>1 DEF ToRead
      <4>2. ASSUME NEW j \in DOMAIN todo'[i], names[todo'[i][j]] = n
            PROVE  ToRead(n)
        <5>1. j + 1 \in DOMAIN todo[i] /\ todo'[i][j] = todo[i][j + 1]
          BY <3>1, <3>3
        <5> QED BY <4>1, <4>2, <5>1
      <4>3. rx' = i
        BY <2>1, <2>4
      <4>4. ToRead(n)' => ToRead(n)
        BY <4>2, <4>3 DEF ToRead
      <4>5. 1 \in DOMAIN todo[i] /\ f = todo[i][1]
        BY <3>1
      <4>6. names[f] = n => ToRead(n)
        BY <4>1, <4>5
      <4> QED BY <4>4, <4>6
    <3>5. InHands(n)' => ToRead(n)
      BY <2>1, <2>4, <3>2, <3>4 DEF InHands
    <3>6. ReadLast(n, g)'
      <4>1. ASSUME NEW a \in 1 .. (Len(todo[i]) - 1),
                   NEW b \in 1 .. (Len(todo[i]) - 1), a < b, todo'[i][a] = g
            PROVE  names[todo'[i][b]] # n
        <5>1. a + 1 < b + 1
          BY <3>1, <4>1
        <5>2. /\ a + 1 \in DOMAIN todo[i] /\ b + 1 \in DOMAIN todo[i]
              /\ todo[i][a + 1] = g /\ todo'[i][b] = todo[i][b + 1]
          BY <3>1, <3>3, <4>1
        <5>3. \A c, d \in DOMAIN todo[i] :
                c < d /\ todo[i][c] = g => names[todo[i][d]] # n
          BY <2>4 DEF InOrder, ReadLast
        <5> QED BY <5>1, <5>2, <5>3
      <4>2. ASSUME f = g, NEW b \in 1 .. (Len(todo[i]) - 1)
            PROVE  names[todo'[i][b]] # n
        <5>1. /\ 1 \in DOMAIN todo[i] /\ b + 1 \in DOMAIN todo[i] /\ 1 < b + 1
              /\ todo[i][1] = g /\ todo'[i][b] = todo[i][b + 1]
          BY <3>1, <3>3, <4>2
        <5>2. \A c, d \in DOMAIN todo[i] :
                c < d /\ todo[i][c] = g => names[todo[i][d]] # n
          BY <2>4 DEF InOrder, ReadLast
        <5> QED BY <5>1, <5>2
      <4>3. rx' = i /\ DOMAIN todo'[i] = 1 .. (Len(todo[i]) - 1)
        BY <2>1, <2>4, <3>1
      <4>4. held'[i] # NoMsg /\ held'[i].file = g => ~ ToRead(n)'
        BY <3>2, <4>2, <4>3 DEF ToRead
      <4> QED BY <4>1, <4>3, <4>4 DEF ReadLast
    <3> QED BY <2>1, <3>4, <3>5, <3>6
            DEF InOrder, SentLast, QueuedLast, FlushedLast, OnChannel, Sent
  <2> QED BY <2>3, <2>4
<1>2. ASSUME NEW i \in Root, ThreadSend(i) PROVE InOrder(n, g)'
  <2>1. /\ UNCHANGED <<rx, todo, queue, content, entries>>
        /\ held[i] # NoMsg /\ held' = [held EXCEPT ![i] = NoMsg]
    BY <1>2 DEF ThreadSend, host
  <2>2. \A k \in Root : k # i => channel'[k] = channel[k] /\ held'[k] = held[k]
    BY <1>2 DEF ThreadSend, TypeOK
  <2>3. CASE rx # i
    <3>1. rx \in Root => channel'[rx] = channel[rx] /\ held'[rx] = held[rx]
      BY <2>2, <2>3
    <3> QED BY <2>1, <3>1
            DEF InOrder, ReadLast, SentLast, QueuedLast, FlushedLast, ToRead,
                InHands, OnChannel, Sent
  <2>4. CASE rx = i
    <3>1. /\ channel[i] \in Seq(Msg) /\ held[i] \in Msg /\ held'[i] = NoMsg
          /\ channel'[i] = Append(channel[i], held[i])
      BY <1>00, <1>2, <2>1, <2>4 DEF ThreadSend, TypeOK
    <3>2. ~ InHands(n)' /\ (ToRead(n)' <=> ToRead(n))
      BY <2>1, <2>4, <3>1 DEF InHands, ToRead
    <3>3. OnChannel(n)' => OnChannel(n) \/ InHands(n)
      BY <2>1, <2>4, <3>1, CarriesAppend DEF OnChannel, InHands
    <3>4. Sent(g)' => Sent(g) \/ held[i].file = g
      BY <2>1, <2>4, <3>1, HasAppendEither DEF Sent
    <3>5. LastOf(names, channel'[i], g, n)
      <4>1. LastOf(names, channel[i], g, n)
        BY <2>4 DEF InOrder, SentLast
      <4>2. Has(channel[i], g) => names[held[i].file] # n
        BY <2>1, <2>4 DEF InOrder, SentLast, Sent, InHands
      <4> QED BY <3>1, <4>1, <4>2, <1>01
    <3>6. ReadLast(n, g)'
      BY <2>1, <2>4, <3>1 DEF InOrder, ReadLast
    <3>7. held[i].file = g => ~ ToRead(n)
      BY <2>1, <2>4 DEF InOrder, ReadLast
    <3> QED BY <2>1, <2>4, <3>2, <3>3, <3>4, <3>5, <3>6, <3>7
            DEF InOrder, SentLast, QueuedLast, FlushedLast
  <2> QED BY <2>3, <2>4
<1>3. CASE DrainReceive
  <2> DEFINE m == Head(channel[rx])
  <2>1. rx \in Root /\ channel[rx] \in Seq(Msg) /\ channel[rx] # <<>>
    BY <1>0, <1>00, <1>3 DEF DrainReceive, Draining
  <2>2. /\ UNCHANGED <<rx, todo, held, entries>> /\ Accept(m)
        /\ channel'[rx] = Tail(channel[rx])
    BY <1>3, <2>1 DEF DrainReceive, TypeOK
  <2>3. m \in Msg
    BY <2>1, HeadTailProperties
  <2> HIDE DEF m
  <2>4. /\ OnChannel(n)' => OnChannel(n)
        /\ names[m.file] = n => OnChannel(n)
        /\ LastOf(names, channel'[rx], g, n)
        /\ m.file = g => ~ OnChannel(n)'
        /\ Sent(g)' \/ m.file = g => Sent(g)
    <3>1. LastOf(names, channel[rx], g, n)
      BY <2>1 DEF InOrder, SentLast
    <3> QED BY <2>1, <2>2, <3>1, <1>02 DEF OnChannel, Sent, m
  <2>5. (ToRead(n)' <=> ToRead(n)) /\ (InHands(n)' <=> InHands(n))
    BY <2>2 DEF ToRead, InHands
  <2>6. ReadLast(n, g)' /\ SentLast(n, g)'
    BY <2>2, <2>4, <2>5 DEF InOrder, ReadLast, SentLast
  <2>7. CASE names[m.file] = NoName
    <3>1. /\ queue' = queue /\ m.file \in File /\ m.file # g
          /\ content' = [content EXCEPT ![m.file] = m.text]
      BY <1>0, <1>000, <2>2, <2>3, <2>7 DEF Accept, Msg
    <3>2. content'[g] = content[g]
      BY <3>1 DEF TypeOK
    <3> QED BY <2>2, <2>4, <2>5, <2>6, <3>1, <3>2
            DEF InOrder, QueuedLast, FlushedLast
  <2>8. CASE names[m.file] # NoName
    <3>1. content' = content /\ queue' = Append(queue, m) /\ queue \in Seq(Msg)
      BY <2>2, <2>8 DEF Accept, TypeOK
    <3>2. LastOf(names, queue', g, n)
      BY <2>3, <2>4, <3>1, <1>01 DEF InOrder, QueuedLast
    <3>3. Has(queue', g) => Has(queue, g) \/ m.file = g
      BY <2>3, <3>1, HasAppendEither
    <3>4. Carries(names, queue', n) => Carries(names, queue, n) \/ OnChannel(n)
      BY <2>3, <2>4, <3>1, CarriesAppend
    <3> QED BY <2>2, <2>4, <2>5, <2>6, <3>1, <3>2, <3>3, <3>4
            DEF InOrder, SentLast, QueuedLast, FlushedLast
  <2> QED BY <2>7, <2>8
<1>4. CASE FlushOne
  <2> DEFINE m == Head(queue)
  <2>1. /\ UNCHANGED <<rx, todo, held, channel>>
        /\ queue # <<>> /\ queue \in Seq(Msg) /\ queue' = Tail(queue)
        /\ content' = [content EXCEPT ![m.file] = m.text]
        /\ entries' = [entries EXCEPT ![names[m.file]] = m.file]
    BY <1>4 DEF FlushOne, EntryReplaced, threads, TypeOK
  <2>2. m \in Msg /\ m.file \in File
    BY <2>1, HeadTailProperties DEF Msg
  <2> HIDE DEF m
  <2>3. /\ Carries(names, queue', n) => Carries(names, queue, n)
        /\ names[m.file] = n => Carries(names, queue, n)
        /\ LastOf(names, queue', g, n)
        /\ m.file = g => ~ Carries(names, queue', n)
        /\ Has(queue', g) \/ m.file = g => Has(queue, g)
    <3>1. LastOf(names, queue, g, n)
      BY DEF InOrder, QueuedLast
    <3> QED BY <2>1, <3>1, <1>02 DEF m
  <2>4. /\ ToRead(n)' <=> ToRead(n)
        /\ InHands(n)' <=> InHands(n)
        /\ OnChannel(n)' <=> OnChannel(n)
        /\ Sent(g)' <=> Sent(g)
    BY <2>1 DEF ToRead, InHands, OnChannel, Sent
  <2>5. ReadLast(n, g)' /\ SentLast(n, g)' /\ QueuedLast(n, g)'
    BY <2>1, <2>3, <2>4 DEF InOrder, ReadLast, SentLast, QueuedLast
  <2>6. CASE m.file = g
    <3>1. entries'[n] = g
      BY <1>000, <2>1, <2>6 DEF TypeOK
    <3> QED BY <2>3, <2>4, <2>5, <2>6, <3>1 DEF InOrder, QueuedLast, FlushedLast
  <2>7. CASE m.file # g
    <3>1. content'[g] = content[g]
      BY <2>1, <2>7 DEF TypeOK
    <3>2. names[m.file] # n => entries'[n] = entries[n]
      BY <2>1 DEF TypeOK
    <3> QED BY <2>3, <2>4, <2>5, <3>1, <3>2 DEF InOrder, FlushedLast
  <2> QED BY <2>6, <2>7
<1>5. CASE Peek
  <2>1. /\ UNCHANGED <<todo, held, queue, content, entries>> /\ rx \in Root
        /\ channel[rx] \in Seq(Msg) /\ rx' \in {0, rx}
        /\ channel'[rx] = IF channel[rx] = <<>> THEN <<>> ELSE Tail(channel[rx])
    BY <1>0, <1>00, <1>5 DEF Peek, host, Draining, TypeOK
  <2>2. CASE rx' = 0
    BY <1>0, <2>1, <2>2
    DEF InOrder, ReadLast, SentLast, QueuedLast, FlushedLast, ToRead, InHands,
        OnChannel, Sent
  <2>3. CASE rx' = rx /\ channel'[rx] = channel[rx]
    BY <2>1, <2>3
    DEF InOrder, ReadLast, SentLast, QueuedLast, FlushedLast, ToRead, InHands,
        OnChannel, Sent
  <2>4. CASE rx' = rx /\ channel[rx] # <<>>
    <3>1. LastOf(names, channel[rx], g, n)
      BY <2>1 DEF InOrder, SentLast
    <3>2. /\ OnChannel(n)' => OnChannel(n)
          /\ LastOf(names, channel'[rx], g, n)
          /\ Sent(g)' => Sent(g)
      BY <2>1, <2>4, <3>1, <1>02 DEF OnChannel, Sent
    <3> QED BY <2>1, <2>4, <3>2
            DEF InOrder, ReadLast, SentLast, QueuedLast, FlushedLast, ToRead,
                InHands
  <2> QED BY <2>1, <2>2, <2>3, <2>4
<1>6. ASSUME NEW e \in File, FileEvent(e) PROVE InOrder(n, g)'
  <2> DEFINE m == [file |-> e, text |-> disk[e]]
  <2>1. UNCHANGED <<rx, todo, held, channel, entries>> /\ Accept(m)
    BY <1>6 DEF FileEvent, threads
  <2>2. m \in Msg /\ m.file = e
    BY <1>6 DEF FileEvent, Readable, TypeOK, Msg
  <2>3. names[e] # n /\ e # g
    BY <1>6 DEF FileEvent, Untouched
  <2> HIDE DEF m
  <2>4. content'[g] = content[g]
    BY <2>1, <2>2, <2>3 DEF Accept, TypeOK
  <2>5. queue' = queue \/ queue' = Append(queue, m)
    BY <2>1 DEF Accept
  <2>6. /\ LastOf(names, queue', g, n)
        /\ Has(queue', g) => Has(queue, g)
        /\ Carries(names, queue', n) => Carries(names, queue, n)
    <3>1. queue \in Seq(Msg) /\ LastOf(names, queue, g, n)
      BY DEF TypeOK, InOrder, QueuedLast
    <3>2. CASE queue' = Append(queue, m)
      <4>1. LastOf(names, queue', g, n)
        BY <2>2, <2>3, <3>1, <3>2, <1>01
      <4>2. Has(queue', g) => Has(queue, g)
        BY <2>2, <2>3, <3>1, <3>2, HasAppendEither
      <4>3. Carries(names, queue', n) => Carries(names, queue, n)
        BY <2>2, <2>3, <3>1, <3>2, CarriesAppend
      <4> QED BY <4>1, <4>2, <4>3
    <3> QED BY <2>5, <3>1, <3>2
  <2> QED BY <2>1, <2>4, <2>6
          DEF InOrder, ReadLast, SentLast, QueuedLast, FlushedLast, ToRead,
              InHands, OnChannel, Sent
<1>7. ASSUME UNCHANGED <<rx, todo, held, channel, queue, content, entries>>
      PROVE  InOrder(n, g)'
  BY <1>7
  DEF InOrder, ReadLast, SentLast, QueuedLast, FlushedLast, ToRead, InHands,
      OnChannel, Sent
<1>8. CASE Flushed
  <2>1. /\ UNCHANGED <<todo, held, channel, queue, content, entries>>
        /\ rx' \in {0, rx}
    BY <1>8 DEF Flushed, host, threads
  <2>2. CASE rx' = 0
    BY <1>0, <2>1, <2>2
    DEF InOrder, ReadLast, SentLast, QueuedLast, FlushedLast, ToRead, InHands,
        OnChannel, Sent
  <2> QED BY <1>7, <2>1, <2>2
<1>9. CASE Run \/ DrainBegin \/ DrainStop \/ Check \/ EventFlushed
  BY <1>7, <1>9
  DEF Run, DrainBegin, DrainStop, Check, EventFlushed, host, threads
<1>10. ASSUME NEW i \in Root, Thread(i) PROVE InOrder(n, g)'
  BY <1>1, <1>2, <1>7, <1>10 DEF Thread, ThreadExit, host
<1>11. CASE Drain
  BY <1>3, <1>4, <1>5, <1>8, <1>9, <1>11 DEF Drain
<1>12. ASSUME NEW f \in File, NEW t \in Text \cup {NoText}, DiskWrite(f, t)
       PROVE InOrder(n, g)'
  BY <1>7, <1>12 DEF DiskWrite, host, threads
<1>13. CASE UNCHANGED vars
  BY <1>7, <1>13 DEF vars, host, threads
<1> QED BY <1>6, <1>9, <1>10, <1>11, <1>12, <1>13 DEF Next, Startup

\* add_root: the file a name gets is the last one of the root that has it,
\* and behind it comes none that is called so.
LEMMA WithRootLast ==
  ASSUME LoaderAssumption, NEW i \in Root, NEW n \in Name, NEW g \in File,
         NEW map, WithRoot(map, i)[n] = g
  PROVE  \A a, b \in DOMAIN Roots[i] :
           a < b /\ Roots[i][a] = g => ModuleOf[i][Roots[i][b]] # n
<1> DEFINE files == Roots[i]
           last == CHOOSE j \in Named(i, n) : \A k \in Named(i, n) : k <= j
<1>1. files \in Seq(File)
  BY DEF LoaderAssumption, Root
<1>2. DOMAIN files = 1 .. Len(files) /\ Len(files) \in Nat
  BY <1>1, LenProperties
<1>3. CASE Named(i, n) = {}
  BY <1>3 DEF Named
<1>4. CASE Named(i, n) # {}
  <2>1. Named(i, n) \subseteq 1 .. Len(files)
    BY <1>2 DEF Named
  <2>2. \E j \in Named(i, n) : \A k \in Named(i, n) : k <= j
    BY <1>2, <1>4, <2>1, LastIndex
  <2>3. last \in Named(i, n) /\ \A k \in Named(i, n) : k <= last
    BY <2>2
  <2>4. g = files[last]
    BY <1>4 DEF WithRoot
  <2> HIDE DEF last
  <2>5. ASSUME NEW a \in DOMAIN files, NEW b \in DOMAIN files,
               a < b, files[a] = g, ModuleOf[i][files[b]] = n
        PROVE  FALSE
    <3>1. a = last
      BY <2>3, <2>4, <2>5 DEF LoaderAssumption, Named
    <3>2. b <= last
      BY <2>3, <2>5 DEF Named
    <3> QED BY <1>2, <2>5, <3>1, <3>2
  <2> QED BY <2>5
<1> QED BY <1>3, <1>4

\* So it is for the names that the workspace then has, but for a file that
\* has none in this root and keeps its name.
LEMMA RenamedLast ==
  ASSUME LoaderAssumption, NEW i \in Root, NEW n \in Name, NEW g \in File,
         WithRoot(moduleMap, i)[n] = g,
         \A f \in File : Renamed(i)[f] = n => f = g \/ ~ KeepsName(f)
  PROVE  \A a, b \in DOMAIN Roots[i] :
           a < b /\ Roots[i][a] = g => Renamed(i)[Roots[i][b]] # n
<1> SUFFICES ASSUME NEW a \in DOMAIN Roots[i], NEW b \in DOMAIN Roots[i],
                    a < b, Roots[i][a] = g, Renamed(i)[Roots[i][b]] = n
             PROVE  FALSE
  OBVIOUS
<1> DEFINE f == Roots[i][b]
<1>1. Roots[i] \in Seq(File) /\ DOMAIN Roots[i] = 1 .. Len(Roots[i])
  BY LenProperties DEF LoaderAssumption, Root
<1>2. f \in File /\ f \in Elements(Roots[i])
  BY <1>1 DEF Elements
<1>3. f # g
  <2>1. Roots[i][a] = Roots[i][b] => a = b
    BY DEF LoaderAssumption
  <2>2. a # b
    BY <1>1
  <2> QED BY <2>1, <2>2
<1>4. ModuleOf[i][f] # NoName
  BY <1>2, <1>3 DEF KeepsName
<1>5. ModuleOf[i][f] = n
  BY <1>2, <1>4 DEF Renamed
<1> QED BY <1>5, WithRootLast

\* A root brings files of a name that are read in the order of the name's
\* last file; nothing of an earlier root is on its way any more.
LEMMA StartInOrder ==
  ASSUME LoaderAssumption, NoMsgAssumption, Typed, HandOver, Ordered,
         NEW n \in Name, NEW g \in File, moduleMap'[n] = g, Untouched(n, g)',
         StartRoot
  PROVE  InOrder(n, g)'
<1> DEFINE i == started + 1
<1>1. /\ i \in Root /\ i > started /\ rx \in Root \cup {0}
      /\ UNCHANGED <<held, queue, content, entries, touched>>
      /\ moduleMap' = WithRoot(moduleMap, i)
      /\ names' = Renamed(i)
      /\ moduleMap \in [Name -> File \cup {NoFile}]
      /\ names \in [File -> Name \cup {NoName}]
  <2>1. Len(Roots) \in Nat
    BY DEF LoaderAssumption
  <2>2. started \in 0 .. Len(Roots)
    BY DEF Typed, TypeOK
  <2>3. started \in Nat
    BY <2>1, <2>2
  <2> QED BY <2>3 DEF StartRoot, Typed, TypeOK, host
<1>2. \A a, b \in DOMAIN Roots[i] :
        a < b /\ Roots[i][a] = g => names'[Roots[i][b]] # n
  <2> HIDE DEF i
  <2>1. \A f \in File : Renamed(i)[f] = n => f = g \/ ~ KeepsName(f)
    BY <1>1 DEF Untouched, KeepsName
  <2> QED BY <1>1, <2>1, RenamedLast
<1>3. CASE Roots[i] = <<>>
  <2>1. moduleMap' = moduleMap /\ names' = names
    <3> HIDE DEF i
    <3>1. \A m \in Name : Named(i, m) = {}
      BY <1>3 DEF Named
    <3>2. Elements(Roots[i]) = {}
      BY <1>3 DEF Elements
    <3> QED BY <1>1, <3>1, <3>2 DEF WithRoot, Renamed
  <2>2. UNCHANGED <<todo, channel, rx>>
    BY <1>3 DEF StartRoot
  <2>3. InOrder(n, g)
    BY <1>1, <2>1 DEF Untouched, KeepsName, Ordered
  <2> QED BY <1>1, <2>1, <2>2, <2>3
          DEF InOrder, ReadLast, SentLast, QueuedLast, FlushedLast, ToRead,
              InHands, OnChannel, Sent
<1>4. CASE Roots[i] # <<>>
  <2>1. rx' = i /\ todo'[i] = Roots[i]
    BY <1>1, <1>4 DEF StartRoot, Typed, TypeOK
  <2>2. held'[i] = NoMsg /\ channel'[i] = <<>>
    <3>1. held[i] = NoMsg /\ channel[i] = <<>> /\ rx # i
      BY <1>1 DEF HandOver, NotYet
    <3>2. channel' = channel \/ channel' = [channel EXCEPT ![rx] = <<>>]
      BY <1>4 DEF StartRoot
    <3> QED BY <1>1, <3>1, <3>2 DEF Typed, TypeOK
  <2>3. queue' = <<>> /\ content'[g] = NoText
    BY <1>1 DEF StartRoot, Ordered, NothingFlushed
  <2> HIDE DEF i
  <2>4. \A nm : LastOf(nm, <<>>, g, n) /\ ~ Carries(nm, <<>>, n)
    BY DEF LastOf, Carries
  <2>5. ReadLast(n, g)'
    <3>1. \A a, b \in DOMAIN todo'[i] :
            a < b /\ todo'[i][a] = g => names'[todo'[i][b]] # n
      BY <1>2, <2>1
    <3> QED BY <2>1, <2>2, <3>1 DEF ReadLast
  <2>6. ~ InHands(n)' /\ ~ OnChannel(n)' /\ ~ Sent(g)'
    BY <2>1, <2>2, <2>4, HasNothing DEF InHands, OnChannel, Sent
  <2>7. SentLast(n, g)'
    BY <2>1, <2>2, <2>4, <2>6 DEF SentLast
  <2>8. QueuedLast(n, g)'
    BY <2>3, <2>4, HasNothing DEF QueuedLast
  <2>9. FlushedLast(n, g)'
    BY <2>3 DEF FlushedLast
  <2> QED BY <2>5, <2>7, <2>8, <2>9 DEF InOrder
<1> QED BY <1>3, <1>4

LEMMA NextOrdered ==
  ASSUME LoaderAssumption, NoMsgAssumption, Typed, HandOver, Ordered,
         [Next]_vars
  PROVE  Ordered'
<1>1. CASE StartRoot
  <2>1. UNCHANGED <<pc, queue, content>>
    BY <1>1 DEF StartRoot, host
  <2>2. NothingFlushed'
    BY <2>1 DEF Ordered, NothingFlushed
  <2>3. \A n \in Name, g \in File :
          moduleMap'[n] = g /\ Untouched(n, g)' => InOrder(n, g)'
    BY <1>1, StartInOrder
  <2> QED BY <2>2, <2>3 DEF Ordered
<1>2. CASE ~ StartRoot
  <2>1. moduleMap' = moduleMap /\ names' = names /\ touched \subseteq touched'
    BY <1>2
    DEF Next, Startup, Run, Thread, ThreadRead, ThreadSend, ThreadExit, Drain,
        DrainBegin, DrainReceive, DrainStop, FlushOne, Flushed, Check, Peek,
        EventFlushed, FileEvent, DiskWrite, vars, workspace
  <2>2. pc' = "startup" => pc = "startup" /\ UNCHANGED <<queue, content>>
    BY <1>2
    DEF Next, Startup, Run, Thread, ThreadRead, ThreadSend, ThreadExit, Drain,
        DrainBegin, DrainReceive, DrainStop, FlushOne, Flushed, Check, Peek,
        EventFlushed, FileEvent, DiskWrite, vars, host
  <2>3. NothingFlushed'
    BY <2>2 DEF Ordered, NothingFlushed
  <2>4. ASSUME NEW n \in Name, NEW g \in File, moduleMap'[n] = g,
               Untouched(n, g)'
        PROVE  InOrder(n, g)'
    <3>1. moduleMap[n] = g /\ Untouched(n, g)
      BY <2>1, <2>4 DEF Untouched, KeepsName
    <3>2. InOrder(n, g)
      BY <3>1 DEF Ordered
    <3> QED BY <1>2, <2>1, <2>4, <3>2, NextInOrder
  <2> QED BY <2>3, <2>4 DEF Ordered
<1> QED BY <1>1, <1>2

\* module_map and the salsa module graph give a name the same file as soon as
\* that file is loaded (server.rs, workspace.rs, analysis.rs).
THEOREM NamesResolveAlike == Spec => []ResolutionAgrees
<1>1. Init => Ordered
  BY LoaderAssumption
  DEF LoaderAssumption, Init, Ordered, NothingFlushed, Untouched
<1>2. Typed /\ HandOver /\ Ordered /\ [Next]_vars => Ordered'
  BY NextOrdered, LoaderAssumption, NoMsgAssumption
<1>3. Typed /\ Ordered => ResolutionAgrees
  BY DEF Typed, TypeOK, Ordered, InOrder, FlushedLast, Untouched,
         ResolutionAgrees
<1> QED BY <1>1, <1>2, <1>3, AlwaysHandedOver, PTL DEF Spec
===============================================================================
