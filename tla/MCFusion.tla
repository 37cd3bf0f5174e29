------------------------------ MODULE MCFusion ------------------------------
(* Instances of Fusion for TLC.  The two sources are interchangeable, and no temporal
   property beyond action properties is checked with the symmetry. *)
EXTENDS Fusion, TLC

Symmetry == Permutations(Source)
=============================================================================
