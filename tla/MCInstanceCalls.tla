--------------------------- MODULE MCInstanceCalls ---------------------------
(***************************************************************************)
(* Instances of InstanceCalls for TLC.                                     *)
(***************************************************************************)
EXTENDS InstanceCalls

CONSTANTS a, b, x, y

\* Nothing tells the instances, or the calls, apart.
Symmetry == Permutations(Instances) \cup Permutations(Calls)
=============================================================================
