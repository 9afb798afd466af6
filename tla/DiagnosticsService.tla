-------------------------- MODULE DiagnosticsService --------------------------
(***************************************************************************)
(* What the language server promises an editor about diagnostics, without  *)
(* timers, caches or files: what is shown for a document is the complete   *)
(* result for the text it has at the moment of publishing, and a closed    *)
(* document shows nothing, however late an analysis was asked for.         *)
(***************************************************************************)
CONSTANTS Uri, Text, Closed, Nothing

VARIABLES
  buffer,  \* the server's text of each document, or Closed
  shown    \* the text whose full diagnostics are shown, or Nothing

vars == <<buffer, shown>>

Init ==
  /\ buffer = [u \in Uri |-> Closed]
  /\ shown = [u \in Uri |-> Nothing]

\* Opening a document, or changing one; what is shown stays for a while.
Edit(u, t) ==
  /\ buffer' = [buffer EXCEPT ![u] = t]
  /\ UNCHANGED shown

Close(u) ==
  /\ buffer' = [buffer EXCEPT ![u] = Closed]
  /\ shown' = [shown EXCEPT ![u] = Nothing]

Publish(u) ==
  /\ buffer[u] # Closed
  /\ shown' = [shown EXCEPT ![u] = buffer[u]]
  /\ UNCHANGED buffer

Next == \E u \in Uri :
  \/ \E t \in Text : Edit(u, t)
  \/ Close(u)
  \/ Publish(u)

Spec == Init /\ [][Next]_vars
===============================================================================
