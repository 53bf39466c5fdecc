----------------------------- MODULE ListParts -----------------------------
(***************************************************************************)
(* A part of a list, as what is left of it.                                *)
(***************************************************************************)
EXTENDS Integers, SequencesExt

\* The list without what is at the positions gone; kept[n] is what is left of the first
\* n.  (A function, where SelectSeq is not one the provers know.)
Omit(list, gone) ==
  LET kept[n \in 0..Len(list)] ==
        IF n = 0 THEN <<>>
        ELSE IF n \in gone THEN kept[n - 1] ELSE Append(kept[n - 1], list[n])
  IN  kept[Len(list)]
=============================================================================
