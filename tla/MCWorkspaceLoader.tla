-------------------------- MODULE MCWorkspaceLoader --------------------------
(***************************************************************************)
(* Instances of WorkspaceLoader for TLC.  Folder pkg lies in another       *)
(* folder, and both are workspace folders.  The files are init, the        *)
(* __init__.py of the outer folder, which has no name, and p and q, a      *)
(* package and a module of one name in pkg, where the name is mod; from    *)
(* the outer folder it is pkg.mod.                                         *)
(***************************************************************************)
EXTENDS WorkspaceLoader

CONSTANTS init, p, q,       \* files
          pkg_mod, mod      \* names

NestedRoots == << <<init, p, q>>, <<p, q>> >>
NestedNames == << [f \in File |-> IF f = init THEN NoName ELSE pkg_mod],
                  [f \in File |-> IF f = init THEN NoName ELSE mod] >>

OneRoot == << <<p, q>> >>
OneRootNames == << [f \in File |-> mod] >>
==============================================================================
