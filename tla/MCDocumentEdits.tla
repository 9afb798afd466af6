--------------------------- MODULE MCDocumentEdits ---------------------------
(***************************************************************************)
(* Instances of DocumentEdits for TLC.                                     *)
(***************************************************************************)
EXTENDS DocumentEdits

MCInserts == {<<>>, <<Visible>>, <<Binding>>, <<Newline>>, <<Visible, Newline>>}
==============================================================================
