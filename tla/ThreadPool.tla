----------------------------- MODULE ThreadPool -----------------------------
(***************************************************************************)
(* The manager's children together: in which thread threadedClass() puts   *)
(* an instance, what destroy takes away, and what a crash, a kill and a    *)
(* restart of a thread do to the instances that share it.                  *)
(*                                                                         *)
(* ChildLifecycle follows one child through every failure of a restart;    *)
(* here a restart is never tried again, and only a cleanup may wait for a  *)
(* close event longer than killTimeout.  FreezeMonitor adds the pings,     *)
(* which is what notices a frozen thread; the actions of this module say   *)
(* nothing of them.                                                        *)
(***************************************************************************)
EXTENDS Integers, Sequences, FiniteSets, FiniteSetsExt, Functions

CONSTANTS
  Configs,      \* the configs the program passes to threadedClass()
  Full,         \* threadUsage 1, in the unit of the usages of Configs
  Faults,       \* what may go wrong: "crash", "freeze", "constructor", "slowKill"
  Commands,     \* what the program calls: "destroy", "destroyAll", "restart"
  MaxInstances, \* bound of the exploration: calls of threadedClass
  MaxFaults,    \* bound of the exploration: faults that happen
  MaxCommands   \* bound of the exploration: commands

\* The threadId of a config that has none.
NoName == "none"

ASSUME FullAssumption == Full \in Nat \ {0}
ASSUME ConfigsAssumption ==
  /\ MaxInstances \in Nat
  /\ Configs \subseteq [usage : 0..Full, name : STRING, autoRestart : BOOLEAN]

\* The instances in the order of their creation (_instanceId).
Instances == 1..MaxInstances

VARIABLES
  pool,     \* the children and the instances
  faults,   \* faults so far
  commands  \* commands so far

(***************************************************************************)
(* process counts the forks.  restart: the instances of the restarts that  *)
(* wait for the process to close.  cleanUp: a killChild that cleans up      *)
(* waits too; timers: how many of those still have their killTimeout.       *)
(* The others only serve the properties.  late: a killTimeout has passed.   *)
(* overlapped: destroy was called while another instance was being          *)
(* detached.  disputed: a restart and a cleanup have waited for the same    *)
(* close event.  restarted: restart() was called for one of its instances.  *)
(***************************************************************************)
Thread == [registered : BOOLEAN, name : STRING, usage : Int, alive : BOOLEAN,
           isClosing : BOOLEAN, cleanUp : BOOLEAN, timers : Nat, process : Nat,
           frozen : BOOLEAN, members : SUBSET Instances, restart : SUBSET Instances,
           late : BOOLEAN, overlapped : BOOLEAN, disputed : BOOLEAN, restarted : BOOLEAN]

(***************************************************************************)
(* promise: that of threadedClass().  initGen: the process of the last     *)
(* INIT.  init: its reply is to come, to threadedClass() or to a restart.   *)
(* kill: KILL was sent to that process, detaching: its reply or the timer   *)
(* of 1000 ms is to come.                                                   *)
(***************************************************************************)
Inst == [config : Configs, thread : Nat \ {0}, initialized : BOOLEAN, initGen : Nat,
         promise : {"pending", "resolved", "rejected"}, init : {"none", "create", "restart"},
         kill : BOOLEAN, detaching : BOOLEAN, destroys : Nat]

Threads(p) == DOMAIN p.threads
Created == DOMAIN pool.inst
CanSend(th) == th.alive /\ ~th.isClosing

-----------------------------------------------------------------------------
(***************************************************************************)
(* The children.  delete this._children[child.id] removes whichever child  *)
(* is registered under that id: a named one may have a successor.           *)
(***************************************************************************)
SameId(p, t, u) ==
  t = u \/ (p.threads[t].name # NoName /\ p.threads[t].name = p.threads[u].name)

Unregister(p, t) ==
  [p EXCEPT !.threads = [u \in DOMAIN @ |->
     IF SameId(p, t, u) THEN [@[u] EXCEPT !.registered = FALSE] ELSE @[u]]]

\* Each INIT marks its instance initialized before it is sent.  One that cannot
\* be sent fails.
SendInits(p, t, targets, init) ==
  [p EXCEPT !.inst = [i \in DOMAIN @ |->
     IF i \notin targets THEN @[i]
     ELSE IF CanSend(p.threads[t])
     THEN [@[i] EXCEPT !.initialized = TRUE, !.initGen = p.threads[t].process,
                       !.init = init, !.kill = FALSE]
     ELSE [@[i] EXCEPT !.initialized = TRUE,
                       !.promise = IF init = "create" THEN "rejected"
                                   ELSE p.inst[i].promise]]]

\* The rest of restartChild once the process is gone.
Fork(p, t, targets) ==
  LET forked == [p.threads[t] EXCEPT !.alive = TRUE, !.isClosing = FALSE,
                                     !.process = @ + 1, !.restart = {}]
      q == [p EXCEPT !.threads[t] = forked,
                     !.inst = [i \in DOMAIN @ |->
                       IF i \in forked.members THEN [@[i] EXCEPT !.initialized = FALSE]
                       ELSE @[i]]]
  IN SendInits(q, t, targets, "restart")

\* A live child is told to terminate, with a restart or a cleanup to follow.
KillAlive(p, t, restart, cleanUp) ==
  LET th == p.threads[t]
      told == [th EXCEPT !.isClosing = TRUE, !.restart = @ \cup restart,
                         !.cleanUp = @ \/ cleanUp,
                         !.timers = IF cleanUp THEN @ + 1 ELSE @,
                         !.disputed = @ \/ (th.restart \cup restart # {}
                                             /\ (th.cleanUp \/ cleanUp))]
  IN [p EXCEPT !.threads[t] = told]

\* killChild with cleanUp, as destroy and destroyAll call it.
KillChild(p, t) ==
  IF p.threads[t].alive THEN KillAlive(p, t, {}, TRUE)
  ELSE [Unregister(p, t) EXCEPT !.threads[t].isClosing = FALSE]

\* A variant with a bug: a close that was asked for restarts too.
ChildHasCrashedAlways(p, t) ==
  LET th == p.threads[t]
      targets == {i \in th.members : p.inst[i].config.autoRestart}
  IN IF targets # {} /\ ~th.alive THEN Fork(p, t, targets)
     ELSE IF th.alive THEN KillAlive(p, t, targets, FALSE)
     ELSE p

\* _childHasCrashed: after a close, and after a ping that failed.
ChildHasCrashed(p, t) ==
  LET th == p.threads[t]
      targets == {i \in th.members : p.inst[i].config.autoRestart}
  IN IF th.isClosing THEN p
     ELSE IF targets # {} /\ ~th.alive THEN Fork(p, t, targets)
     ELSE IF th.alive THEN KillAlive(p, t, targets, FALSE)
     ELSE p

-----------------------------------------------------------------------------
NewInst(config, t) ==
  [config |-> config, thread |-> t, initialized |-> FALSE, initGen |-> 0,
   promise |-> "pending", init |-> "none", kill |-> FALSE, detaching |-> FALSE, destroys |-> 0]

\* An instance that names no usage takes the whole thread.
UsageOf(config) == IF config.usage = 0 THEN Full ELSE config.usage

NewThread(config) ==
  [registered |-> TRUE, name |-> config.name, usage |-> UsageOf(config),
   alive |-> TRUE, isClosing |-> FALSE, cleanUp |-> FALSE, timers |-> 0, process |-> 1,
   frozen |-> FALSE, members |-> {}, restart |-> {}, late |-> FALSE, overlapped |-> FALSE,
   disputed |-> FALSE, restarted |-> FALSE]

PoolInit ==
  /\ pool = [threads |-> <<>>, inst |-> <<>>]
  /\ faults = 0
  /\ commands = 0

Step == UNCHANGED <<faults, commands>>
Fault(f) ==
  /\ f \in Faults
  /\ faults < MaxFaults
  /\ faults' = faults + 1
  /\ UNCHANGED commands

Command(name) ==
  /\ name \in Commands
  /\ commands < MaxCommands
  /\ commands' = commands + 1
  /\ UNCHANGED faults

(***************************************************************************)
(* threadedClass().                                                        *)
(***************************************************************************)
\* A variant with a bug: a thread that is already full.
HasRoomForOne(th, usage) == th.usage <= Full

HasRoom(th, usage) == th.usage + usage <= Full

\* findNextAvailableChild: the children that could take it.  Neither looks at
\* alive or isClosing.
Free(p, config) ==
  {t \in Threads(p) :
     /\ p.threads[t].registered
     /\ IF config.name # NoName THEN p.threads[t].name = config.name
        ELSE config.usage > 0 /\ p.threads[t].name = NoName /\ HasRoom(p.threads[t], config.usage)}

\* The pool with the thread that was found, or with a new one.
Found(p, config) ==
  IF Free(p, config) = {} THEN [p EXCEPT !.threads = Append(@, NewThread(config))]
  ELSE IF config.name # NoName THEN p
  ELSE [p EXCEPT !.threads[Min(Free(p, config))].usage = @ + config.usage]

FoundThread(p, config) ==
  IF Free(p, config) = {} THEN Len(p.threads) + 1 ELSE Min(Free(p, config))

ThreadedClass(config) ==
  LET t == FoundThread(pool, config)
      i == Len(pool.inst) + 1
      p == [Found(pool, config) EXCEPT
              !.threads[t].members = @ \cup {i},
              !.inst = Append(@, NewInst(config, t))]
  IN /\ i \in Instances
     /\ pool' = SendInits(p, t, {i}, "create")
     /\ Step

\* The worker answers an INIT; a reply for an instance that is no longer in
\* the child is dropped.  The reply to a restart settles that restart only: a
\* threadedClass() that waited when its process died is never settled.
Answers(i) ==
  LET th == pool.threads[pool.inst[i].thread]
  IN pool.inst[i].init # "none" /\ th.alive /\ ~th.frozen

Creates(i) ==
  pool.inst[i].init = "create" /\ i \in pool.threads[pool.inst[i].thread].members

InitReply(i, promise) ==
  /\ Answers(i)
  /\ pool' = [pool EXCEPT !.inst[i].init = "none",
                          !.inst[i].promise = IF Creates(i) THEN promise ELSE @]

InitOk(i) == InitReply(i, "resolved") /\ Step
ConstructorThrows(i) ==
  /\ pool.inst[i].init = "create"
  /\ InitReply(i, "rejected")
  /\ Fault("constructor")

-----------------------------------------------------------------------------
(***************************************************************************)
(* destroy(): killProxy looks for the proxy in the registered children.    *)
(***************************************************************************)
Detaching(p, t) == {i \in p.threads[t].members : p.inst[i].detaching}
\* A variant with a bug: the last instance does not take the thread with it.
IsNone(th) == Cardinality(th.members) = 0

IsLast(th) == Cardinality(th.members) = 1

\* One of several instances: its usage is given back at once, and it is asked
\* to leave; if it cannot be asked, it leaves at once.
Leave(p, t, i) ==
  LET th == [p.threads[t] EXCEPT !.usage = @ - p.inst[i].config.usage,
                                 !.overlapped = @ \/ Detaching(p, t) \ {i} # {}]
      told == [p.inst[i] EXCEPT !.kill = TRUE, !.detaching = TRUE]
      left == [th EXCEPT !.members = @ \ {i}]
  IN IF CanSend(p.threads[t]) /\ p.inst[i].initialized
     THEN [p EXCEPT !.threads[t] = th, !.inst[i] = told]
     ELSE [p EXCEPT !.threads[t] = left]

Destroy(i) ==
  LET t == pool.inst[i].thread
      p == [pool EXCEPT !.inst[i].destroys = @ + 1]
  IN /\ pool.threads[t].registered /\ i \in pool.threads[t].members
     /\ pool' = IF IsLast(pool.threads[t]) THEN KillChild(p, t) ELSE Leave(p, t, i)
     /\ Command("destroy")

\* killAllChildren: killChild of each registered child.
KillRegistered(p, t) ==
  IF p.threads[t].registered THEN KillChild(p, t).threads[t] ELSE p.threads[t]

DestroyAll ==
  /\ pool' = [pool EXCEPT !.threads = [t \in DOMAIN @ |-> KillRegistered(pool, t)]]
  /\ Command("destroyAll")

(***************************************************************************)
(* restart(): the instance alone is restarted.  If that takes a fork, the   *)
(* other instances of the thread are left uninitialized.                    *)
(***************************************************************************)
Restart(i, forceRestart) ==
  LET t == pool.inst[i].thread
      p == [pool EXCEPT !.threads[t].restarted = TRUE]
  IN /\ pool.threads[t].registered /\ i \in pool.threads[t].members
     /\ pool.inst[i].promise = "resolved"
     /\ pool' = IF ~p.threads[t].alive THEN Fork(p, t, {i})
                ELSE IF forceRestart THEN KillAlive(p, t, {i}, FALSE)
                ELSE SendInits(p, t, {i}, "restart")
     /\ Command("restart")

\* The reply to KILL, or the timer of 1000 ms.
Detach(i) ==
  /\ pool.inst[i].detaching
  /\ pool' = [pool EXCEPT !.inst[i].detaching = FALSE,
                          !.threads[pool.inst[i].thread].members = @ \ {i}]
  /\ Step

\* killTimeout of a killChild that cleans up passes; its close handler stays.
\* A variant with a bug: the close event does not clear the timer.
KillTimeoutNotCleared(t) ==
  /\ pool' = [Unregister(pool, t) EXCEPT !.threads[t].timers = @ - 1,
                                         !.threads[t].late = TRUE]
  /\ Fault("slowKill")

KillTimeout(t) ==
  /\ pool.threads[t].alive /\ pool.threads[t].timers > 0
  /\ pool' = [Unregister(pool, t) EXCEPT !.threads[t].timers = @ - 1,
                                         !.threads[t].late = TRUE]
  /\ Fault("slowKill")

-----------------------------------------------------------------------------
(***************************************************************************)
(* The close event: the handler of _setupChildProcess, those of the        *)
(* pending killChild calls, and what awaits them.  Messages are lost.       *)
(***************************************************************************)
Lost(p, t) ==
  [p EXCEPT !.threads[t] = [@ EXCEPT !.alive = FALSE, !.frozen = FALSE],
            !.inst = [i \in DOMAIN @ |-> IF @[i].thread = t
                                          THEN [@[i] EXCEPT !.init = "none"] ELSE @[i]]]

Closed(p, t) ==
  LET th == p.threads[t]
      q == ChildHasCrashed(Lost(p, t), t)
      r == IF th.cleanUp
           THEN Unregister([q EXCEPT !.threads[t] = [@ EXCEPT !.members = {}, !.cleanUp = FALSE,
                                                              !.timers = 0]], t)
           ELSE q
  IN IF ~th.isClosing THEN q
     ELSE IF th.restart = {} THEN [r EXCEPT !.threads[t].isClosing = FALSE]
     ELSE Fork(r, t, th.restart)

Terminated(t) ==
  /\ pool.threads[t].alive /\ pool.threads[t].isClosing
  /\ pool' = Closed(pool, t)
  /\ Step

\* A crash or a freeze in the middle of a restart is left to ChildLifecycle.
Settled(t) ==
  \A i \in Created : pool.inst[i].thread = t => pool.inst[i].init # "restart"

Crash(t) ==
  /\ CanSend(pool.threads[t]) /\ Settled(t)
  /\ pool' = Closed(pool, t)
  /\ Fault("crash")

\* The thread stops to answer, and stays so.
Freeze(t) ==
  /\ CanSend(pool.threads[t]) /\ ~pool.threads[t].frozen /\ Settled(t)
  /\ pool' = [pool EXCEPT !.threads[t].frozen = TRUE]
  /\ Fault("freeze")

-----------------------------------------------------------------------------
PoolTypeOK ==
  /\ pool.threads \in Seq(Thread)
  /\ pool.inst \in Seq(Inst)
  /\ \A i \in Created : pool.inst[i].thread \in Threads(pool)
  /\ faults \in Nat
  /\ commands \in Nat

Members(t) == pool.threads[t].members

\* The units of the thread that its instances need, those that are destroyed
\* aside: 1..UsageOf(config) for each of them, so that their number is the sum of
\* the usages.
Units(p, t) ==
  {u \in p.threads[t].members \X (1..Full) :
     p.inst[u[1]].destroys = 0 /\ u[2] <= UsageOf(p.inst[u[1]].config)}

\* The instances of a thread that is shared by usage never need more than the
\* whole of it, however they come and go; only a proxy that was destroyed twice
\* has given back its usage twice (_findFreeChild, killProxy).
NoOverfill ==
  \A t \in Threads(pool) :
    (/\ pool.threads[t].name = NoName
     /\ \A i \in Created : pool.inst[i].thread = t => pool.inst[i].destroys <= 1)
    => Cardinality(Units(pool, t)) <= Full

\* destroy of the last instance takes the thread with it: a thread that is kept
\* without instances is one whose instances were destroyed while another was
\* still being detached, so that none of them was the last (killProxy).
IdleOnlyAfterOverlap ==
  \A t \in Threads(pool) :
    (pool.threads[t].registered /\ Members(t) = {}) => pool.threads[t].overlapped

\* A thread that runs, and is not being killed, can be found by destroy, restart
\* and destroyAll.  Two are lost: the successor of a named thread that closed after
\* its killTimeout (the close handler deletes by id, killChild), and the process of
\* a restart that waited for the same close event as a cleanup (restartChild does
\* not look again after its await).
NoLostThread ==
  \A t \in Threads(pool) :
    CanSend(pool.threads[t]) =>
      \/ pool.threads[t].registered
      \/ \E u \in Threads(pool) : u # t /\ SameId(pool, t, u) /\ pool.threads[u].late
      \/ pool.threads[t].disputed
=============================================================================
