----------------------------- MODULE AsyncCalls -----------------------------
(***************************************************************************)
(* What a proxy promises of a call: the call is made once, runs at most    *)
(* once on the real instance, its promise resolves with the result of that *)
(* run and of no other, and is otherwise rejected.  Rejection says nothing *)
(* about whether the call ran.                                             *)
(***************************************************************************)
EXTENDS Naturals

CONSTANT Calls

VARIABLES
  state,   \* of the call's promise
  runs,    \* how often the call has run
  answer   \* the calls whose results the promise resolved with: {} or {c}

vars == <<state, runs, answer>>

States == {"idle", "pending", "resolved", "rejected"}

Init ==
  /\ state = [c \in Calls |-> "idle"]
  /\ runs = [c \in Calls |-> 0]
  /\ answer = [c \in Calls |-> {}]

\* A call is refused at once, or waits for its reply.
Issue(c) ==
  /\ state[c] = "idle"
  /\ \E s \in {"pending", "rejected"} : state' = [state EXCEPT ![c] = s]
  /\ UNCHANGED <<runs, answer>>

\* A call that was aborted may already be on its way to the instance.
Run(c) ==
  /\ state[c] # "idle"
  /\ runs[c] = 0
  /\ runs' = [runs EXCEPT ![c] = 1]
  /\ UNCHANGED <<state, answer>>

Resolve(c) ==
  /\ state[c] = "pending"
  /\ runs[c] = 1
  /\ state' = [state EXCEPT ![c] = "resolved"]
  /\ answer' = [answer EXCEPT ![c] = {c}]
  /\ UNCHANGED runs

\* The method threw, or the calls in flight are aborted.
Reject(S) ==
  /\ \A c \in S : state[c] = "pending"
  /\ state' = [c \in Calls |-> IF c \in S THEN "rejected" ELSE state[c]]
  /\ UNCHANGED <<runs, answer>>

Next ==
  \/ \E c \in Calls : Issue(c) \/ Run(c) \/ Resolve(c)
  \/ \E S \in SUBSET Calls : Reject(S)

Spec == Init /\ [][Next]_vars
=============================================================================
