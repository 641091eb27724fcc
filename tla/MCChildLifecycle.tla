-------------------------- MODULE MCChildLifecycle --------------------------
(***************************************************************************)
(* Instances of ChildLifecycle for TLC.                                    *)
(***************************************************************************)
EXTENDS ChildLifecycle

CONSTANTS a, b

\* The restarts that the property below speaks of; one fault starts no more.
MaxRestarts == 8

\* Every restart settles: it resolves, or it rejects at the latest when its
\* restartTimeout has passed.
RestartSettles == \A r \in 1..MaxRestarts : Settles(r)
=============================================================================
