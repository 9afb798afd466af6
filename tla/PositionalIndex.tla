--------------------------- MODULE PositionalIndex ---------------------------
(***************************************************************************)
(* The search of OwnedIndex for the innermost range at an offset           *)
(* (crates/sneklsp_index/src/owned.rs, PositionalIndex::find_innermost),   *)
(* one step per turn of its loop.                                          *)
(***************************************************************************)
EXTENDS Integers, Sequences

VARIABLES
  entries, \* the table searched: (start, end, index) by start
  offset,  \* what is searched for
  cursor,  \* entries[..cursor] are still to be looked at, from the last down
  best,    \* the narrowest entry found so far, or None
  search   \* "idle", "scanning", "done"

searchVars == <<entries, offset, cursor, best, search>>

Entry == [start : Nat, end : Nat, index : Nat]
None == [start |-> 0, end |-> 0, index |-> 0]
Width(e) == e.end - e.start
Covers(e) == e.start <= offset /\ offset < e.end

\* What build's sort_unstable_by_key leaves: the order of equal starts is open.
SortedByStart(es) == \A i, j \in 1 .. Len(es) : i < j => es[i].start <= es[j].start

\* partition_point(|e| e.0 <= offset), by what it promises of a sorted table.
IsPartition(es, o, k) ==
  /\ k \in 0 .. Len(es)
  /\ \A i \in 1 .. k : es[i].start <= o
  /\ \A i \in k + 1 .. Len(es) : o < es[i].start

SearchInit == /\ entries = <<>> /\ offset = 0 /\ cursor = 0
              /\ best = None /\ search = "idle"

\* find_innermost is called: over a table es at an offset o.
Begin(es, o) ==
  /\ search # "scanning"
  /\ entries' = es /\ offset' = o
  /\ \E k \in 0 .. Len(es) : IsPartition(es, o, k) /\ cursor' = k
  /\ best' = None /\ search' = "scanning"

\* Fault: the scan stops at the first entry that contains the offset.
StopsAtFirst(e) == best # None
\* The entries not yet looked at start at or before this one.
TooFar(e) == best # None /\ offset - e.start >= Width(best)

Improves(e) == offset < e.end /\ (best = None \/ Width(e) < Width(best))

Finish == /\ search = "scanning"
          /\ cursor > 0 => TooFar(entries[cursor])
          /\ search' = "done"
          /\ UNCHANGED <<entries, offset, cursor, best>>

Look == /\ search = "scanning" /\ cursor > 0 /\ ~ TooFar(entries[cursor])
        /\ best' = IF Improves(entries[cursor]) THEN entries[cursor] ELSE best
        /\ cursor' = cursor - 1
        /\ UNCHANGED <<entries, offset, search>>

Scan == Look \/ Finish

BeginAny == \E es \in Seq(Entry), o \in Nat :
              SortedByStart(es) /\ (\A i \in 1 .. Len(es) : es[i].index > 0) /\ Begin(es, o)

SearchSpec == SearchInit /\ [][BeginAny \/ Scan]_searchVars
-------------------------------------------------------------------------------
\* What find_innermost returned: the index of an entry, or 0.
Answer == best.index

(***************************************************************************)
(* A finished search has found an entry that contains the offset and that  *)
(* no other one that does is narrower than, or none contains it: breaking  *)
(* off the scan of owned.rs, which goes by starts alone, loses nothing,    *)
(* whatever order equal starts were sorted in.                             *)
(***************************************************************************)
FindsInnermost ==
  search = "done" =>
    IF best = None
    THEN \A i \in 1 .. Len(entries) : ~ Covers(entries[i])
    ELSE /\ \E i \in 1 .. Len(entries) : best = entries[i]
         /\ Covers(best)
         /\ \A i \in 1 .. Len(entries) :
              Covers(entries[i]) => Width(best) <= Width(entries[i])
===============================================================================
