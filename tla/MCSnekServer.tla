---------------------------- MODULE MCSnekServer ----------------------------
(***************************************************************************)
(* Instances of SnekServer for TLC.  Text r is s with a name replaced by   *)
(* another of the same length: their parse results compare equal.  Text b  *)
(* does not parse at all.                                                  *)
(***************************************************************************)
EXTENDS SnekServer

CONSTANTS u1, u2, f1, f2, s, r, b

\* One class for the texts s and r, one for b.
MCParseClass == [t \in Text |-> IF t = b THEN 2 ELSE 1]

\* Two documents with a file each, or two URIs for the same path.
DistinctFiles == [u \in Uri |-> IF u = u1 THEN f1 ELSE f2]
SharedFile == [u \in Uri |-> f1]
==============================================================================
