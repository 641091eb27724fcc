--------------------------- MODULE MCFreezeMonitor ---------------------------
(***************************************************************************)
(* Instances of FreezeMonitor for TLC.                                     *)
(***************************************************************************)
EXTENDS FreezeMonitor

Config(usage, name, autoRestart) == [usage |-> usage, name |-> name, autoRestart |-> autoRestart]

\* Instances share a thread if together they need no more than Full = 3, or by name.
Shared == {Config(1, NoName, TRUE), Config(2, NoName, FALSE), Config(0, "n", TRUE)}
=============================================================================
