-------------------------- MODULE MCRangeProofs ----------------------------
(***************************************************************************)
(* Model-checking instance of RangeProofs: two values, two blindings,    *)
(* batches of up to 3 outputs (3 pads to 4), a party capacity of 4 and a   *)
(* relay that makes up to 2 alterations, so a list of 5 pads to 8 and hits *)
(* the capacity check, a removed last output reaches the empty-slice read, *)
(* and appended copies and replacements are both tried.  A 4-bit usize    *)
(* keeps the overflow check in the model (lengths 9..15 would overflow).  *)
(***************************************************************************)
EXTENDS RangeProofs, TLC

CONSTANTS v1, v2, b1, b2

MCValues == {v1, v2}
MCBlindings == {b1, b2}

\* Values and blindings are interchangeable: no definition names one.
Symmetry == Permutations(MCValues) \cup Permutations(MCBlindings)

=============================================================================
