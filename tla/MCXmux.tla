------------------------------- MODULE MCXmux -------------------------------
(***************************************************************************)
(* Instances of Xmux for TLC.  Sessions are interchangeable.               *)
(***************************************************************************)
EXTENDS Xmux, TLC

Symmetry == Permutations(Sessions)
=============================================================================
