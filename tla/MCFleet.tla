------------------------------- MODULE MCFleet -------------------------------
(***************************************************************************)
(* Fleet for TLC.  Units are interchangeable, and so are machines: the     *)
(* machine CHOOSE gives to the ids not yet issued is replaced when they    *)
(* are, and matters to nothing before.                                     *)
(***************************************************************************)
EXTENDS Fleet, TLC

Symmetry == Permutations(Units) \cup Permutations(Machines)
=============================================================================
