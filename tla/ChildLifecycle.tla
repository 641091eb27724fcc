--------------------------- MODULE ChildLifecycle ---------------------------
(***************************************************************************)
(* The life of one Child of the manager (parent-process/manager.ts): its   *)
(* process is forked, crashes, freezes, is killed, is restarted and is     *)
(* destroyed, while the instances that share it are initialised by INIT    *)
(* messages and the manager waits for their replies.                       *)
(*                                                                         *)
(* The manager is single-threaded JavaScript.  Its synchronous methods are *)
(* operators from a child record to a child record (KillChild,             *)
(* RestartChild, ChildHasCrashed, ...), composed as the methods call each  *)
(* other; an action is one task of the event loop, from the callback the   *)
(* loop runs to the point where it returns.  What a task leaves behind a   *)
(* resolved kill promise is in child.microtasks, and runs before the next  *)
(* task.                                                                   *)
(***************************************************************************)
EXTENDS Integers, Sequences, FiniteSets, SequencesExt

CONSTANTS
  Instances,          \* proxy instances that may come to live in the child
  AutoRestart,        \* those whose config sets autoRestart
  RetryCount,         \* config.autoRestartRetryCount; 0 retries for ever
  HasRestartTimeout,  \* config.restartTimeout # 0
  HasKillTimeout,     \* config.killTimeout # 0
  Faults,             \* what may go wrong: "crash", "freeze", "initError"
  UserOps,            \* what the program may call
  MaxFaults,          \* bound of the exploration: faults that happen
  MaxOps              \* bound of the exploration: calls of the program

ASSUME InstancesAssumption == IsFiniteSet(Instances) /\ AutoRestart \subseteq Instances
ASSUME ConfigAssumption ==
  /\ RetryCount \in Nat
  /\ HasRestartTimeout \in BOOLEAN
  /\ HasKillTimeout \in BOOLEAN

VARIABLES
  child,   \* the Child object, its processes and the promises waiting on it
  faults,  \* faults so far
  ops      \* calls of the program so far

vars == <<child, faults, ops>>

(***************************************************************************)
(* A kill is the promise of one killChild call that waits for the close    *)
(* event: what runs when it settles ("goal"), for which restart, and       *)
(* whether its close handler cleans up.  timedOut: rejected by its timer.  *)
(***************************************************************************)
Goals == {"restart", "retry", "destroy", "report"}
Kill == [goal : Goals, restart : Nat, cleanUp : BOOLEAN, timedOut : BOOLEAN]

(***************************************************************************)
(* A restart is one call of restartChild.  killing: it awaits its killChild.*)
(* waiting: it awaits Promise.all of the listener promise (heard) and of    *)
(* one promise per instance it sent INIT to (awaiting, those not resolved).*)
(* timer: its restartTimeout is running.  process: the process it sent INIT *)
(* to, 0 before.                                                           *)
(***************************************************************************)
RestartStates == {"killing", "waiting", "ok", "failed"}
Restart == [state : RestartStates, auto : BOOLEAN, targets : SUBSET Instances,
            heard : BOOLEAN, awaiting : SUBSET Instances, timer : BOOLEAN,
            process : Nat]

\* An INIT that waits for its reply.  by: the restart that sent it, 0 for
\* the threadedClass() call that created the instance.
Init_Message == [by : Nat, inst : Instances]

Child ==
  [registered    : BOOLEAN,              \* manager._children holds it
   alive         : BOOLEAN,
   isClosing     : BOOLEAN,
   processes     : Seq({"running", "terminating", "closed"}), \* the last is child.process
   instances     : SUBSET Instances,     \* child.instances
   attached      : SUBSET Instances,     \* instances ever attached
   created       : SUBSET Instances,     \* their threadedClass() promise resolved
   initialized   : [Instances -> BOOLEAN],
   initGen       : [Instances -> Nat],   \* process of the last INIT sent, 0: none
   detaching     : SUBSET Instances,     \* KILL sent, reply or 1000 ms timer to come
   pendingInit   : SUBSET Init_Message,  \* INIT callbacks of the current process
   initListeners : Seq(Nat),             \* _childInitializedListeners: restart ids
   restarts      : Seq(Restart),
   kills         : Seq(Kill),            \* close handlers of pending killChild calls
   microtasks    : Seq(Kill),            \* continuations of settled killChild calls
   failCount     : Nat,                  \* autoRestartFailCount
   retryTimeout  : BOOLEAN,              \* autoRestartRetryTimeout is running
   strayRetries  : Nat]                  \* retry timers whose handle was overwritten

Current(c) == Len(c.processes)
ProcessState(c) == c.processes[Current(c)]

-----------------------------------------------------------------------------
(***************************************************************************)
(* Killing.                                                                *)
(***************************************************************************)
ClearRestartTimeout(c) == [c EXCEPT !.retryTimeout = FALSE]

NewKill(goal, r, cleanUp) ==
  [goal |-> goal, restart |-> r, cleanUp |-> cleanUp, timedOut |-> FALSE]

\* killChild on a child without a process resolves at once.
KillDead(c, k) ==
  [c EXCEPT !.registered = @ /\ ~k.cleanUp,
            !.isClosing = FALSE,
            !.microtasks = Append(@, k)]

\* killChild on a live child adds a close handler; only the first one kills.
KillAlive(c, k) ==
  [c EXCEPT !.kills = Append(@, k),
            !.isClosing = TRUE,
            !.processes = IF c.isClosing THEN @
                          ELSE [@ EXCEPT ![Len(@)] = "terminating"]]

\* Variants with a bug: no look at alive; the retry timer is not cleared.
KillChildUnchecked(c, goal, r, cleanUp) ==
  KillAlive(IF cleanUp THEN ClearRestartTimeout(c) ELSE c, NewKill(goal, r, cleanUp))
KillChildKeepingTimer(c, goal, r, cleanUp) ==
  LET k == NewKill(goal, r, cleanUp)
  IN IF c.alive THEN KillAlive(c, k) ELSE KillDead(c, k)

KillChild(c, goal, r, cleanUp) ==
  LET k == NewKill(goal, r, cleanUp)
      d == IF cleanUp THEN ClearRestartTimeout(c) ELSE c
  IN IF c.alive THEN KillAlive(d, k) ELSE KillDead(d, k)

-----------------------------------------------------------------------------
(***************************************************************************)
(* Restarting.                                                             *)
(***************************************************************************)
\* A variant with a bug: one retry too few.
CanRetryRestartOffByOne(c) == RetryCount = 0 \/ c.failCount + 1 < RetryCount

CanRetryRestart(c) == RetryCount = 0 \/ c.failCount < RetryCount

\* The catch clauses around restartChild: a user's restart only rejects, an
\* automatic one kills the child to retry later, or gives up.
FailRestart(c, r) ==
  LET d == [c EXCEPT !.restarts[r].state = "failed"]
      e == [d EXCEPT !.failCount = @ + 1]
  IN IF ~c.restarts[r].auto THEN d
     ELSE IF CanRetryRestart(e) THEN KillChild(e, "retry", 0, FALSE)
     ELSE KillChild(e, "report", 0, TRUE)

\* A restart whose promises have all resolved; an automatic one resets the
\* count of failures.
Completed(c, r) ==
  /\ c.restarts[r].state = "waiting"
  /\ c.restarts[r].heard
  /\ c.restarts[r].awaiting = {}

Settle(c) ==
  [c EXCEPT
     !.restarts = [r \in DOMAIN @ |-> IF Completed(c, r) THEN [@[r] EXCEPT !.state = "ok"]
                                      ELSE @[r]],
     !.failCount = IF \E r \in DOMAIN c.restarts : Completed(c, r) /\ c.restarts[r].auto
                   THEN 0 ELSE @]

\* The loop over the listeners: each removes itself from the array the loop
\* walks, so the loop skips its successor.
Visited(s) == {s[k] : k \in {j \in 1..Len(s) : j % 2 = 1}}
\* A variant with a bug: the loop empties the list.
SkippedNone(s) == <<>>

Skipped(s) == [k \in 1..(Len(s) \div 2) |-> s[2 * k]]

NotifyInitialized(c) ==
  Settle([c EXCEPT
     !.restarts = [r \in DOMAIN @ |->
                     IF r \in Visited(c.initListeners)
                     THEN [@[r] EXCEPT !.heard = TRUE, !.timer = FALSE]
                     ELSE @[r]],
     !.initListeners = Skipped(@)])

\* A fork for a child whose process has closed.
\* A variant with a bug: initialized is not reset.
ForkKeepingInitialized(c) ==
  [c EXCEPT !.alive = TRUE, !.isClosing = FALSE, !.processes = Append(@, "running")]

Fork(c) ==
  [c EXCEPT !.initialized = [i \in Instances |-> @[i] /\ i \notin c.instances],
            !.alive = TRUE,
            !.isClosing = FALSE,
            !.processes = Append(@, "running")]

\* The promise p: resolved by the listener, rejected by the timer.
AwaitInit(c, r) ==
  [c EXCEPT !.restarts[r] = [@ EXCEPT !.state = "waiting", !.timer = HasRestartTimeout],
            !.initListeners = Append(@, r)]

\* sendInit to each target.  It sets initialized first; while the child is
\* closing the send throws, which rejects the promise and notifies the
\* listeners.  Only a user's restart, of one target, can meet a closing child.
SendInits(c, r) ==
  LET targets == c.restarts[r].targets
      d == [c EXCEPT !.initialized = [i \in Instances |-> @[i] \/ i \in targets],
                     !.restarts[r] = [@ EXCEPT !.awaiting = targets,
                                               !.process = Current(c)]]
  IN IF c.isClosing THEN FailRestart(NotifyInitialized(d), r)
     ELSE [d EXCEPT
             !.initGen = [i \in Instances |-> IF i \in targets THEN Current(c) ELSE @[i]],
             !.pendingInit = @ \cup [by : {r}, inst : targets]]

\* restartChild after its await of killChild.
\* A variant with a bug: it forks whether or not the process is gone.
ContinueRestartForking(c, r) == SendInits(AwaitInit(Fork(ClearRestartTimeout(c)), r), r)

ContinueRestart(c, r) ==
  LET d == ClearRestartTimeout(c)
  IN SendInits(AwaitInit(IF c.alive THEN d ELSE Fork(d), r), r)

NewRestart(targets, auto) ==
  [state |-> "killing", auto |-> auto, targets |-> targets,
   heard |-> FALSE, awaiting |-> {}, timer |-> FALSE, process |-> 0]

\* A variant with a bug: its kill refers to the restart after it.
RestartChildLateId(c, targets, auto, force) ==
  LET r == Len(c.restarts) + 1
      d == [c EXCEPT !.restarts = [q \in 1..r |-> IF q < r THEN @[q]
                                                   ELSE NewRestart(targets, auto)]]
  IN IF c.alive /\ force THEN KillChild(d, "restart", r + 1, FALSE)
     ELSE ContinueRestart(d, r)

RestartChild(c, targets, auto, force) ==
  LET r == Len(c.restarts) + 1
      d == [c EXCEPT !.restarts = [q \in 1..r |-> IF q < r THEN @[q]
                                                   ELSE NewRestart(targets, auto)]]
  IN IF c.alive /\ force THEN KillChild(d, "restart", r, FALSE)
     ELSE ContinueRestart(d, r)

\* _childHasCrashed: after a close, a ping timeout, or a retry delay.
\* A variant with a bug: a closing child restarts again.
ChildHasCrashedWhileClosing(c) ==
  LET targets == c.instances \cap AutoRestart
  IN IF targets # {} THEN RestartChild(c, targets, TRUE, TRUE)
     ELSE IF c.alive THEN KillChild(c, "report", 0, FALSE)
     ELSE c

ChildHasCrashed(c) ==
  LET targets == c.instances \cap AutoRestart
  IN IF c.isClosing THEN c
     ELSE IF targets # {} THEN RestartChild(c, targets, TRUE, TRUE)
     ELSE IF c.alive THEN KillChild(c, "report", 0, FALSE)
     ELSE c

-----------------------------------------------------------------------------
(***************************************************************************)
(* The first threadedClass() call has forked the process, attached the     *)
(* first instance and sent its INIT.                                       *)
(***************************************************************************)
SendCreateInit(c, i) ==
  [c EXCEPT !.instances = @ \cup {i},
            !.attached = @ \cup {i},
            !.initialized[i] = TRUE,
            !.initGen[i] = Current(c),
            !.pendingInit = @ \cup {[by |-> 0, inst |-> i]}]

NewChild ==
  [registered |-> TRUE, alive |-> TRUE, isClosing |-> FALSE,
   processes |-> <<"running">>,
   instances |-> {}, attached |-> {}, created |-> {},
   initialized |-> [i \in Instances |-> FALSE],
   initGen |-> [i \in Instances |-> 0],
   detaching |-> {}, pendingInit |-> {}, initListeners |-> <<>>,
   restarts |-> <<>>, kills |-> <<>>, microtasks |-> <<>>,
   failCount |-> 0, retryTimeout |-> FALSE, strayRetries |-> 0]

Init ==
  /\ \E i \in Instances : child = SendCreateInit(NewChild, i)
  /\ faults = 0
  /\ ops = 0

-----------------------------------------------------------------------------
\* The event loop takes a new task only when no microtask is left.
Task == child.microtasks = <<>>

Step == UNCHANGED <<faults, ops>>
Fault(f) ==
  /\ f \in Faults
  /\ faults < MaxFaults
  /\ faults' = faults + 1
  /\ UNCHANGED ops
UserOp(o) ==
  /\ o \in UserOps
  /\ ops < MaxOps
  /\ ops' = ops + 1
  /\ UNCHANGED faults

\* The close event: first the handler of _setupChildProcess, then the once
\* handlers that the pending killChild calls had added when it fired.
MarkClosed(c) ==
  [c EXCEPT !.alive = FALSE,
            !.processes[Len(c.processes)] = "closed",
            !.pendingInit = {}]

\* Variants with a bug: isClosing stays set; only one caller is told.
CloseHandlersStillClosing(c, kills) ==
  LET cleanUp == \E k \in 1..Len(kills) : kills[k].cleanUp
  IN [c EXCEPT !.instances = IF cleanUp THEN {} ELSE @,
               !.registered = @ /\ ~cleanUp,
               !.kills = <<>>,
               !.microtasks = @ \o kills]
CloseHandlersOnce(c, kills) ==
  IF kills = <<>> THEN c
  ELSE [c EXCEPT !.isClosing = FALSE,
                 !.kills = <<>>,
                 !.microtasks = Append(@, Head(kills))]

CloseHandlers(c, kills) ==
  LET cleanUp == \E k \in 1..Len(kills) : kills[k].cleanUp
  IN IF kills = <<>> THEN c
     ELSE [c EXCEPT !.instances = IF cleanUp THEN {} ELSE @,
                    !.registered = @ /\ ~cleanUp,
                    !.isClosing = FALSE,
                    !.kills = <<>>,
                    !.microtasks = @ \o kills]

Close == child' = CloseHandlers(ChildHasCrashed(MarkClosed(child)), child.kills)

\* The process dies by itself: an uncaught error, process.exit, a signal.
Crash ==
  /\ Task
  /\ child.alive /\ ProcessState(child) = "running"
  /\ Close
  /\ Fault("crash")

\* The process closes because it was killed.
Terminated ==
  /\ Task
  /\ child.alive /\ ProcessState(child) = "terminating"
  /\ Close
  /\ Step

\* A ping was not answered within freezeLimit.  threadedClass() starts to
\* monitor when it resolves (startMonitoringChild).
PingTimeout ==
  /\ Task
  /\ child.created # {}
  /\ child.alive /\ ~child.isClosing
  /\ child' = ChildHasCrashed(child)
  /\ Fault("freeze")

\* The continuation of a settled killChild: the rest of restartChild, the
\* retry timer, or nothing more than a promise of the caller.  One whose
\* promise had been rejected by the timer runs nothing now.
\* A variant with a bug: the child is never tried again.
SetNoRetryTimeout(c) == c

SetRetryTimeout(c) ==
  [c EXCEPT !.retryTimeout = TRUE,
            !.strayRetries = IF c.retryTimeout THEN @ + 1 ELSE @]

RunMicrotask ==
  /\ child.microtasks # <<>>
  /\ LET k == Head(child.microtasks)
         c == [child EXCEPT !.microtasks = Tail(@)]
     IN child' = CASE k.timedOut -> c
                   [] ~k.timedOut /\ k.goal = "restart" -> ContinueRestart(c, k.restart)
                   [] ~k.timedOut /\ k.goal = "retry" -> SetRetryTimeout(c)
                   [] ~k.timedOut /\ k.goal \in {"destroy", "report"} -> c
  /\ Step

\* killTimeout passes before the close event.  The close handler stays.
KillTimeout ==
  /\ Task
  /\ HasKillTimeout
  /\ \E n \in 1..Len(child.kills) :
       LET k == child.kills[n]
           c == [child EXCEPT !.kills[n].timedOut = TRUE,
                              !.registered = @ /\ ~k.cleanUp]
       IN /\ ~k.timedOut
          /\ child' = CASE k.goal = "restart" -> FailRestart(c, k.restart)
                        [] k.goal = "retry" -> SetRetryTimeout(c)
                        [] k.goal \in {"destroy", "report"} -> c
  /\ Step

\* autoRestartRetryDelay has passed.
RetryFires ==
  /\ Task
  /\ child.retryTimeout
  /\ child' = ChildHasCrashed(ClearRestartTimeout(child))
  /\ Step

\* So has the delay of a timer that nothing can clear any more.
StrayRetryFires ==
  /\ Task
  /\ child.strayRetries > 0
  /\ child' = ChildHasCrashed([child EXCEPT !.strayRetries = @ - 1])
  /\ Step

\* ArrayMap.remove; a restart pushes its listener once.
RemoveListener(s, r) ==
  IF \E k \in 1..Len(s) : s[k] = r
  THEN RemoveAt(s, CHOOSE k \in 1..Len(s) : s[k] = r)
  ELSE s

\* restartTimeout passes before the restart's listener was called.
RestartTimeout ==
  /\ Task
  /\ \E r \in 1..Len(child.restarts) :
       LET c == [child EXCEPT
                   !.restarts[r].timer = FALSE,
                   !.initListeners = RemoveListener(@, r)]
       IN /\ child.restarts[r].timer
          /\ child' = IF child.restarts[r].state = "waiting" THEN FailRestart(c, r) ELSE c
  /\ Step

(***************************************************************************)
(* The reply to an INIT.  A reply for an instance that is no longer in     *)
(* child.instances calls no callback.  The callback of threadedClass()     *)
(* notifies the listeners only if there was no error, that of a restart    *)
(* always.                                                                 *)
(***************************************************************************)
InitOk ==
  /\ Task
  /\ \E m \in child.pendingInit :
       LET c == [child EXCEPT !.pendingInit = @ \ {m}]
       IN child' = CASE m.inst \notin child.instances -> c
                     [] m.inst \in child.instances /\ m.by = 0 ->
                          NotifyInitialized([c EXCEPT !.created = @ \cup {m.inst}])
                     [] m.inst \in child.instances /\ m.by # 0 ->
                          NotifyInitialized([c EXCEPT !.restarts[m.by].awaiting = @ \ {m.inst}])
  /\ Step

InitError ==
  /\ Task
  /\ \E m \in child.pendingInit :
       LET c == [child EXCEPT !.pendingInit = @ \ {m}]
           d == NotifyInitialized(c)
       IN child' = CASE m.inst \notin child.instances \/ m.by = 0 -> c
                     [] m.inst \in child.instances /\ m.by # 0 ->
                          IF child.restarts[m.by].state = "waiting" THEN FailRestart(d, m.by)
                          ELSE d
  /\ Fault("initError")

-----------------------------------------------------------------------------
(***************************************************************************)
(* Calls of the program.                                                   *)
(***************************************************************************)
\* threadedClass() that finds this child: a shared or a named thread.  On a
\* child that is down or closing the send throws and the call rejects, with
\* the instance left in child.instances.
Attach ==
  /\ Task
  /\ child.registered
  /\ \E i \in Instances \ child.attached :
       child' = IF child.alive /\ ~child.isClosing THEN SendCreateInit(child, i)
                ELSE [child EXCEPT !.instances = @ \cup {i}, !.attached = @ \cup {i},
                                   !.initialized[i] = TRUE]
  /\ UserOp("attach")

\* ThreadedClassManager.destroy(proxy).
Destroy ==
  /\ Task
  /\ child.registered
  /\ \E i \in child.instances :
       child' = IF Cardinality(child.instances) = 1 THEN KillChild(child, "destroy", 0, TRUE)
                ELSE IF child.alive /\ ~child.isClosing /\ child.initialized[i]
                THEN [child EXCEPT !.detaching = @ \cup {i}]
                ELSE [child EXCEPT !.instances = @ \ {i}]
  /\ UserOp("destroy")

\* The reply to KILL, or the timer of 1000 ms.
Detached ==
  /\ Task
  /\ \E i \in child.detaching :
       child' = [child EXCEPT !.detaching = @ \ {i}, !.instances = @ \ {i}]
  /\ Step

\* ThreadedClassManager.destroyAll().
DestroyAll ==
  /\ Task
  /\ child.registered
  /\ child' = KillChild(child, "destroy", 0, TRUE)
  /\ UserOp("destroyAll")

\* ThreadedClassManager.restart(proxy, force).
UserRestart(force) ==
  /\ Task
  /\ child.registered
  /\ \E i \in child.instances : child' = RestartChild(child, {i}, FALSE, force)
  /\ UserOp(IF force THEN "forceRestart" ELSE "restart")

Next ==
  \/ RunMicrotask
  \/ Terminated
  \/ KillTimeout
  \/ RetryFires
  \/ StrayRetryFires
  \/ RestartTimeout
  \/ InitOk
  \/ Detached
  \/ Crash
  \/ PingTimeout
  \/ InitError
  \/ Attach
  \/ Destroy
  \/ DestroyAll
  \/ \E force \in BOOLEAN : UserRestart(force)

Spec == Init /\ [][Next]_vars

(***************************************************************************)
(* The event loop runs its microtasks and its timers, and a process that   *)
(* was told to terminate closes.  Nothing is assumed of a worker's replies *)
(* to INIT: the module it loads may take for ever.                         *)
(***************************************************************************)
Fairness ==
  /\ WF_vars(RunMicrotask)
  /\ WF_vars(Terminated)
  /\ WF_vars(KillTimeout)
  /\ WF_vars(RetryFires)
  /\ WF_vars(StrayRetryFires)
  /\ WF_vars(RestartTimeout)
  /\ WF_vars(Detached)

FairSpec == Spec /\ Fairness

-----------------------------------------------------------------------------
(***************************************************************************)
(* Safety.                                                                 *)
(***************************************************************************)
\* Every field has its type, and every restart that an INIT callback or a
\* killChild promise will act on exists.
RefersTo(kills, restarts) ==
  \A k \in 1..Len(kills) :
    kills[k].goal = "restart" => kills[k].restart \in 1..Len(restarts)
TypeOK ==
  /\ child \in Child
  /\ faults \in Nat
  /\ ops \in Nat
  /\ \A m \in child.pendingInit : m.by \in 0..Len(child.restarts)
  /\ RefersTo(child.kills, child.restarts)
  /\ RefersTo(child.microtasks, child.restarts)

\* A child never has two live processes: a fork only follows a close, so all
\* processes but the last are closed, and the flag alive says whether the last
\* one is (restartChild, _setupChildProcess).
SingleProcess ==
  /\ child.processes # <<>>
  /\ \A p \in 1..(Current(child) - 1) : child.processes[p] = "closed"
  /\ child.alive <=> ProcessState(child) # "closed"

\* isClosing, by which killChild decides not to kill again and every send is
\* refused, is set exactly while the live process has been told to terminate:
\* no kill is skipped and no healthy process is taken for a closing one.
ClosingIsTerminating == child.isClosing <=> ProcessState(child) = "terminating"

\* Nobody waits for a close event that has already fired: the pending killChild
\* promises are those of the process that is terminating, whichever of restart,
\* retry, destroy and give-up called killChild and in whatever order.
KillsAwaitClose == child.kills # <<>> <=> child.isClosing

\* A restart that waits for its kill still has it, pending or settled: the
\* promise returned by restart() does not depend on a lost continuation.
KillingRestartIsResumed ==
  \A r \in 1..Len(child.restarts) :
    child.restarts[r].state = "killing" =>
      \E s \in {child.kills, child.microtasks} : \E k \in 1..Len(s) :
        s[k].goal = "restart" /\ s[k].restart = r /\ ~s[k].timedOut

\* A message other than INIT is only sent to a process that was sent the INIT of
\* that instance before it: initialized, which a restart clears and sendInit
\* sets, never speaks of an earlier process (sendMessageToInstance).
InitBeforeUse ==
  (child.alive /\ ~child.isClosing) =>
    \A i \in child.instances : child.initialized[i] => child.initGen[i] = Current(child)

\* The continuation of a restart's kill never finds the child closing again, so
\* the INITs of a forced or automatic restart are never refused by the manager.
ResumedRestartCanSend ==
  \A k \in 1..Len(child.microtasks) :
    (child.microtasks[k].goal = "restart" /\ ~child.microtasks[k].timedOut) => ~child.isClosing

\* A restart with a timeout that still waits for a listener call can still be
\* called: its listener is registered and its timer runs.
ListenerOrTimer ==
  \A r \in 1..Len(child.restarts) :
    (child.restarts[r].state = "waiting" /\ ~child.restarts[r].heard) =>
      /\ \E l \in 1..Len(child.initListeners) : child.initListeners[l] = r
      /\ HasRestartTimeout => child.restarts[r].timer

\* At most one automatic restart awaits its kill: isClosing keeps a second ping
\* timeout or retry timer from starting another (_childHasCrashed).
OneAutomaticKill ==
  \A q, r \in 1..Len(child.restarts) :
    (/\ child.restarts[q].auto /\ child.restarts[q].state = "killing"
     /\ child.restarts[r].auto /\ child.restarts[r].state = "killing") => q = r

\* Once the manager has let go of the child, by destroy or by giving up, it
\* never forks a process for it again.
DestroyedStaysDown ==
  [][~child.registered => Len(child'.processes) = Len(child.processes)]_vars

\* The manager lets go of a child only when the program destroys it, or after
\* at least autoRestartRetryCount automatic restarts have failed.
FailedAutoRestarts(c) ==
  {r \in 1..Len(c.restarts) : c.restarts[r].auto /\ c.restarts[r].state = "failed"}
LetGo == child.registered /\ ~child'.registered
GivesUpOnlyAfterFailures ==
  [][LetGo => \/ RetryCount > 0 /\ Cardinality(FailedAutoRestarts(child')) >= RetryCount
              \/ \E k \in 1..Len(child.kills) : child.kills[k].goal = "destroy"
              \/ ops' > ops]_vars

\* A child that the manager lets go of while no restart and no retry is under way
\* leaves no timer behind that could bring it back, whatever had failed before
\* and whichever call let go of it; then it stays down (killChild, restartChild).
UnderWay(c) ==
  \/ \E r \in 1..Len(c.restarts) : c.restarts[r].state \in {"killing", "waiting"}
  \/ \E s \in {c.kills, c.microtasks} : \E k \in 1..Len(s) : s[k].goal = "retry"
  \/ c.strayRetries > 0
NothingToCome(c) == ~c.registered /\ ~c.alive /\ ~c.retryTimeout /\ ~UnderWay(c)
LetGoStaysDown ==
  [][/\ (LetGo /\ ~UnderWay(child)) => ~child'.retryTimeout
     /\ NothingToCome(child) => ~child'.retryTimeout /\ ~child'.alive]_vars

(***************************************************************************)
(* Liveness.                                                               *)
(***************************************************************************)
\* An instance with autoRestart that had been created comes back after its
\* process closed, unless the manager lets go of the child.
Down == ~child.alive /\ child.instances \cap child.created \cap AutoRestart # {}
AutoRecover == Down ~> (~Down \/ ~child.registered)

\* A call of restartChild settles: it resolves, or it rejects.
Settles(r) ==
  r \in DOMAIN child.restarts ~>
    (r \in DOMAIN child.restarts /\ child.restarts[r].state \in {"ok", "failed"})
=============================================================================
