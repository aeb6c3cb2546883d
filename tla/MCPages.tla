------------------------------- MODULE MCPages -------------------------------
(* Instances of Pages for TLC. *)
EXTENDS Pages

\* The properties tell the ways of straying apart, one at a time; what a way led
\* to shows until its calls have ended, with one call when a dialog is open.
Astray ==
  \/ strayed = {}
  \/ /\ Cardinality(strayed) = 1
     /\ Len(calls) \in 1..(IF dialog = NoDialog THEN MaxCalls ELSE 1)
=============================================================================
