------------------------------ MODULE Debouncer ------------------------------
(***************************************************************************)
(* The debouncer of crates/sneklsp_server/src/debouncer.rs: a map from     *)
(* documents to the one piece of work pending for each, kept back until    *)
(* DEFAULT_DEBOUNCE_MS have passed since it was last scheduled.            *)
(*                                                                         *)
(* Time is counted in ticks of the server's ticker, whose period equals    *)
(* the delay (both 50 ms).  At the first tick after it was scheduled an    *)
(* entry may be ready (the tick came late, the server was busy) or not     *)
(* (the usual case); at the second tick at least one full period has       *)
(* passed, so the entry is ready.                                          *)
(*                                                                         *)
(* Here and in the other modules, a definition whose comment begins with   *)
(* "Fault" is not part of the model.  It is a wrong version of the one     *)
(* after it, under which some property is known to fail.                   *)
(***************************************************************************)
CONSTANTS
  Uri,       \* the documents' keys
  Version,   \* the versions the client gives its documents
  NoWork     \* no entry in the map

Work == [version : Version, waited : BOOLEAN]

Pending == [Uri -> Work \cup {NoWork}]

NothingPending == [u \in Uri |-> NoWork]

\* Fault: the entry already there is kept.
ScheduleOnce(pending, u, v) ==
  IF pending[u] # NoWork THEN pending
  ELSE [pending EXCEPT ![u] = [version |-> v, waited |-> FALSE]]

\* schedule: a new entry replaces the old one and starts its delay afresh.
Schedule(pending, u, v) ==
  [pending EXCEPT ![u] = [version |-> v, waited |-> FALSE]]

\* Fault: nothing is cancelled.
CancelNothing(pending, u) == pending

Cancel(pending, u) == [pending EXCEPT ![u] = NoWork]

Scheduled(pending) == {u \in Uri : pending[u] # NoWork}

\* The sets of entries one tick may find ready.
ReadySets(pending) ==
  LET overdue == {u \in Scheduled(pending) : pending[u].waited}
  IN  {R \in SUBSET Scheduled(pending) : overdue \subseteq R}

\* take_ready: what it returns ...
Taken(pending, R) ==
  [u \in Uri |-> IF u \in R THEN pending[u].version ELSE NoWork]

\* Fault: the delay starts again with each tick.
RetainedAfresh(pending, R) ==
  [u \in Uri |-> IF u \in R THEN NoWork ELSE pending[u]]

\* ... and what it leaves in the map.
Retained(pending, R) ==
  [u \in Uri |-> IF u \in R \/ pending[u] = NoWork
                 THEN NoWork
                 ELSE [pending[u] EXCEPT !.waited = TRUE]]
==============================================================================
