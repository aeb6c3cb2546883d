--------------------------- MODULE GaplessNumbering ---------------------------
(***************************************************************************)
(* What the numbering of commercial documents promises (REQ-303, "legal    *)
(* sequential numbering"): a document gets a number at most once and keeps *)
(* it, and the numbers handed out in a series are 1, 2, 3, ... without a   *)
(* hole.  A series is what one counter row counts: a workspace for the     *)
(* purchase orders, a workspace and a year for the invoices.               *)
(*                                                                         *)
(* The services of the backend are shown to implement this module, or are  *)
(* shown not to, by INSTANCE ... WITH a refinement mapping.                *)
(***************************************************************************)
EXTENDS Naturals

CONSTANTS
  Series,     \* the numbering series
  Docs        \* the documents that may be numbered

VARIABLES
  last,       \* last[s]: the last number handed out in series s
  held        \* held[d]: the number document d carries, or Unnumbered

numberingVars == <<last, held>>

Unnumbered == <<>>

NumberingTypeOK ==
  /\ last \in [Series -> Nat]
  /\ held \in [Docs -> (Series \X Nat) \cup {Unnumbered}]

NumberingInit ==
  /\ last = [s \in Series |-> 0]
  /\ held = [d \in Docs |-> Unnumbered]

\* The next number of series s goes to document d, for good.
Assign(d, s) ==
  /\ held[d] = Unnumbered
  /\ last' = [last EXCEPT ![s] = last[s] + 1]
  /\ held' = [held EXCEPT ![d] = <<s, last[s] + 1>>]

NumberingNext == \E d \in Docs, s \in Series : Assign(d, s)

NumberingSpec == NumberingInit /\ [][NumberingNext]_numberingVars

-----------------------------------------------------------------------------
(* What follows from it. *)

\* The numbers carried in a series are exactly 1..last: no hole, none ahead.
NoHole ==
  \A s \in Series :
    {held[d][2] : d \in {e \in Docs : held[e] # Unnumbered /\ held[e][1] = s}}
      = 1 .. last[s]

\* Two documents never carry the same number of the same series.
NoDuplicate ==
  \A d, e \in Docs : held[d] # Unnumbered /\ held[d] = held[e] => d = e
=============================================================================
