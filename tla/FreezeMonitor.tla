---------------------------- MODULE FreezeMonitor ----------------------------
(***************************************************************************)
(* The threads of ThreadPool, watched: once threadedClass() has resolved,  *)
(* the manager pings the instance (startMonitoringChild) and takes its     *)
(* thread for frozen when a ping fails.  There is one loop per instance,    *)
(* which goes on whatever becomes of the instance, and ends with the first  *)
(* ping that fails.                                                         *)
(*                                                                         *)
(* Timing: a ping that can be answered is answered within freezeLimit, so  *)
(* that only one that cannot be answered times out.                         *)
(***************************************************************************)
EXTENDS ThreadPool

VARIABLE monitor  \* the loop of each instance

vars == <<pool, faults, commands, monitor>>

(***************************************************************************)
(* sleeping: the timer before the next ping runs.  pinging: a ping was sent *)
(* to that process.  received: its worker has, when it gets there, the      *)
(* handle of the instance, and does not drop it.                            *)
(***************************************************************************)
Monitor == [state : {"none", "sleeping", "pinging", "ended"}, process : Nat, received : BOOLEAN]

NotStarted == [state |-> "none", process |-> 0, received |-> FALSE]
Sleeping == [state |-> "sleeping", process |-> 0, received |-> FALSE]
Ended == [state |-> "ended", process |-> 0, received |-> FALSE]

Init == PoolInit /\ monitor = [i \in Instances |-> NotStarted]

ThreadOf(i) == pool.threads[pool.inst[i].thread]
Pinging(i) == monitor[i].state = "pinging"
Unwatched == UNCHANGED monitor

-----------------------------------------------------------------------------
\* A variant with a bug: the reply to a ping does not start the next one.
SleepsOnce(i) == monitor' = [monitor EXCEPT ![i] = Ended]

SleepsAgain(i) == monitor' = [monitor EXCEPT ![i] = Sleeping]

\* threadedClass() resolves, and the monitor starts; not so when a restart does.
InitOkStartsMonitor(i) ==
  /\ InitOk(i)
  /\ IF Creates(i) THEN SleepsAgain(i) ELSE Unwatched

\* A variant with a bug: a ping of an earlier process is not looked at.
FailsUnlessStale(i) ==
  /\ pool' = IF CanSend(ThreadOf(i)) /\ ~(Pinging(i) /\ monitor[i].process # ThreadOf(i).process)
             THEN ChildHasCrashed(pool, pool.inst[i].thread) ELSE pool
  /\ monitor' = [monitor EXCEPT ![i] = Ended]

\* A ping that fails: the thread is killed, with or without a restart to follow,
\* unless it is closed or closing already.  The loop is over.
Fails(i) ==
  /\ pool' = IF CanSend(ThreadOf(i)) THEN ChildHasCrashed(pool, pool.inst[i].thread) ELSE pool
  /\ monitor' = [monitor EXCEPT ![i] = Ended]

\* The worker finds the handle: it was sent INIT, and not sent KILL after.
Receives(i) == pool.inst[i].initGen = ThreadOf(i).process /\ ~pool.inst[i].kill

Ping(i) ==
  /\ monitor[i].state = "sleeping"
  /\ IF CanSend(ThreadOf(i)) /\ pool.inst[i].initialized
     THEN /\ monitor' = [monitor EXCEPT ![i] =
               [state |-> "pinging", process |-> ThreadOf(i).process, received |-> Receives(i)]]
          /\ UNCHANGED pool
     ELSE Fails(i)
  /\ Step

\* The reply is on its way, or will be: it reaches the callback only while the
\* instance is in the child.
Answerable(i) ==
  /\ Pinging(i) /\ monitor[i].received
  /\ ThreadOf(i).alive /\ ~ThreadOf(i).frozen
  /\ monitor[i].process = ThreadOf(i).process
  /\ i \in ThreadOf(i).members

\* The worker answers INIT before the ping that was sent after it.
Pong(i) ==
  /\ Answerable(i) /\ pool.inst[i].init = "none"
  /\ SleepsAgain(i)
  /\ UNCHANGED pool
  /\ Step

\* A variant with a bug: the timer runs on when the reply has come.
TimesOutAnyway(i) ==
  /\ Pinging(i)
  /\ Fails(i)
  /\ Step

PingTimeout(i) ==
  /\ Pinging(i) /\ ~Answerable(i)
  /\ Fails(i)
  /\ Step

\* The reply to KILL comes after that to the ping sent before it; the timer of
\* 1000 ms may pass first if the thread is frozen.
DetachInOrder(i) ==
  /\ Detach(i)
  /\ ~Answerable(i)
  /\ Unwatched

Next ==
  \/ \E config \in Configs : ThreadedClass(config) /\ Unwatched
  \/ \E i \in Created : InitOkStartsMonitor(i)
  \/ \E i \in Created : ConstructorThrows(i) /\ Unwatched
  \/ \E i \in Created : Destroy(i) /\ Unwatched
  \/ DestroyAll /\ Unwatched
  \/ \E i \in Created, forceRestart \in BOOLEAN : Restart(i, forceRestart) /\ Unwatched
  \/ \E i \in Created : DetachInOrder(i)
  \/ \E t \in Threads(pool) : KillTimeout(t) /\ Unwatched
  \/ \E t \in Threads(pool) : Terminated(t) /\ Unwatched
  \/ \E t \in Threads(pool) : Crash(t) /\ Unwatched
  \/ \E t \in Threads(pool) : Freeze(t) /\ Unwatched
  \/ \E i \in Created : Ping(i)
  \/ \E i \in Created : Pong(i)
  \/ \E i \in Created : PingTimeout(i)

Spec == Init /\ [][Next]_vars

(***************************************************************************)
(* The timers of the loops run down, and a process that was killed closes. *)
(* Of replies nothing is assumed.                                          *)
(***************************************************************************)
Fairness ==
  /\ \A i \in Instances :
       /\ WF_vars(i \in Created /\ Ping(i))
       /\ WF_vars(i \in Created /\ PingTimeout(i))
  /\ WF_vars(\E t \in Threads(pool) : Terminated(t) /\ Unwatched)

FairSpec == Spec /\ Fairness

-----------------------------------------------------------------------------
TypeOK == PoolTypeOK /\ monitor \in [Instances -> Monitor]

\* A failed ping kills a thread that is not frozen only if the thread was asked
\* for an instance that is not in it any more or is about to leave it, or that was
\* left out when the process was forked, or if the ping had been sent to an earlier
\* process.  A crash leaves out the instances without autoRestart, restart() all but
\* its own: their pings kill a thread that works (startMonitoringChild,
\* restartChild).
KilledByPing(i) ==
  /\ monitor[i].state \in {"sleeping", "pinging"} /\ monitor'[i].state = "ended"
  /\ ~ThreadOf(i).isClosing /\ ThreadOf(i)'.isClosing
Gone(i) == pool.inst[i].destroys > 0 \/ i \notin ThreadOf(i).members
LeftOut(i) ==
  /\ pool.inst[i].initGen # ThreadOf(i).process
  /\ ~pool.inst[i].config.autoRestart \/ ThreadOf(i).restarted
OnlyFrozenKilled ==
  [][\A i \in Created : KilledByPing(i) =>
       \/ ThreadOf(i).frozen
       \/ Gone(i)
       \/ LeftOut(i)
       \/ Pinging(i) /\ monitor[i].process # ThreadOf(i).process]_vars

\* The first freeze of a thread is noticed: if one of its instances has been
\* created, the thread is eventually killed.
Frozen(t) == t \in Threads(pool) /\ pool.threads[t].frozen
HasCreated(t) == \E i \in Created : pool.inst[i].thread = t /\ pool.inst[i].promise = "resolved"
FirstFreezeNoticed ==
  \A t \in Instances :
    (Frozen(t) /\ HasCreated(t) /\ pool.threads[t].process = 1) ~> ~Frozen(t)

\* Not every freeze is: a loop ends with the first ping that fails.  A later one
\* is noticed too as long as one of the loops on the thread has not ended, be it
\* that of another instance or one that waits for a ping of an earlier process.
HasMonitor(t) ==
  \E i \in Created : pool.inst[i].thread = t /\ monitor[i].state \in {"sleeping", "pinging"}
FreezeNoticedWhileMonitored ==
  \A t \in Instances : (Frozen(t) /\ HasMonitor(t)) ~> ~Frozen(t)
=============================================================================
