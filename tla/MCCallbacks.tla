----------------------------- MODULE MCCallbacks -----------------------------
(***************************************************************************)
(* Instances of Callbacks for TLC.                                         *)
(***************************************************************************)
EXTENDS Callbacks

CONSTANTS a, b, f, g, s, t, x, y

\* Each takes a function of its own and returns one of its own.
ClassMethods == {[takes |-> f, returns |-> s], [takes |-> g, returns |-> t]}
=============================================================================
