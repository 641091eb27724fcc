---------------------------- MODULE InstanceCalls ----------------------------
(***************************************************************************)
(* The calls that the program makes on its proxies: the manager numbers    *)
(* each message it sends to the worker and keeps a callback for the reply; *)
(* the worker takes the messages in order, starts the methods they name,   *)
(* and replies whenever a method returns.  Meanwhile instances are         *)
(* attached and destroyed, and the process crashes, is killed and is       *)
(* forked again.                                                           *)
(*                                                                         *)
(* ChildLifecycle says when the manager kills, forks and initialises; here *)
(* it may do so whenever the child's flags allow it.  That includes a      *)
(* restart that resumes after the manager has let go of the child: its     *)
(* process takes messages, but the manager drops the replies.              *)
(***************************************************************************)
EXTENDS Integers, Sequences, FiniteSets, SequencesExt

CONSTANTS
  Instances,    \* the proxy instances of one child
  Calls,        \* the calls the program makes
  Kinds,        \* of calls: "method", "getter", "setter", "memory"
  Errors,       \* what may fail in the worker: "load", "constructor", "method"
  MaxOps        \* bound of the exploration: kills, crashes, restarts, destroys

ASSUME InstancesAssumption == IsFiniteSet(Instances)
ASSUME CallsAssumption == IsFiniteSet(Calls)

VARIABLES
  child,      \* the manager's Child
  calls,      \* the promises of the calls, and what has become of each call
  toWorker,   \* messages to the process, in order
  toParent,   \* replies from it, in order
  worker,     \* the Worker object of the process
  ops         \* kills, crashes, restarts and destroys so far

vars == <<child, calls, toWorker, toParent, worker, ops>>

(***************************************************************************)
(* A method call is kept in child.methods, so that it can be aborted; the  *)
(* reading of a property (a getter) and its assignment (a setter) are not, *)
(* nor is a request for the memory usage of the process, which is a message *)
(* to the worker itself and not to an instance.                             *)
(***************************************************************************)
Call == [state : {"idle", "pending", "resolved", "rejected"}, kind : Kinds \cup {"method"},
         inst : Instances, cmdId : Nat, process : Nat, runs : Nat,
         answer : SUBSET Calls]

\* create: the INIT is that of threadedClass().  call: of FUNCTION and SET, {c}.
Message == [cmd : {"INIT", "FUNCTION", "SET", "KILL", "GET_MEM_USAGE"}, cmdId : Nat,
            inst : Instances, create : BOOLEAN, call : SUBSET Calls]

\* call stands for the result that the reply carries.  from: a reply of the
\* instance inst, or of the worker itself, for which inst means nothing.
Reply == [from : {"instance", "child"}, replyTo : Nat, inst : Instances,
          error : BOOLEAN, call : SUBSET Calls]

Child == [registered : BOOLEAN, alive : BOOLEAN, isClosing : BOOLEAN,
          cleanUp : BOOLEAN,             \* a killChild with cleanUp waits
          process : Nat,                 \* forks so far
          firstCmdId : Nat,              \* cmdId when it was forked
          instances : SUBSET Instances,
          attached : SUBSET Instances,   \* threadedClass() was called
          created : SUBSET Instances,    \* and resolved
          initialized : SUBSET Instances,
          restarts : Seq(Seq(Instances)),    \* that wait for their kill, each with
                                             \* the instances it will initialise
          detaching : SUBSET Instances,  \* the 1000 ms timer of killProxy runs
          destroyed : SUBSET Instances,  \* killProxy was called
          cmdId : Nat,
          queue : SUBSET Message,        \* instanceMessageQueue
          childQueue : SUBSET Message,   \* childMessageQueue
          methods : SUBSET Calls]

Worker == [handles : SUBSET Instances,   \* instanceHandles
           failed : SUBSET Instances,    \* an INIT of theirs failed
           running : SUBSET Message]     \* calls whose promise has not settled

Pending(c) == calls[c].state = "pending"

-----------------------------------------------------------------------------
(***************************************************************************)
(* sendMessageToInstance.                                                  *)
(***************************************************************************)
CanSend(ch) == ch.alive /\ ~ch.isClosing

NewMessage(cmd, id, i, create, call) ==
  [cmd |-> cmd, cmdId |-> id, inst |-> i, create |-> create, call |-> call]

Enqueue(ch, ms) ==
  [ch EXCEPT !.cmdId = @ + Len(ms), !.queue = @ \cup ToSet(ms)]

\* A variant with a bug: the number is taken one too early.
InitsOffByOne(ch, order, create) ==
  [k \in DOMAIN order |-> NewMessage("INIT", ch.cmdId + k - 2, order[k], create, {})]

\* sendInit to some instances, one after the other.
Inits(ch, order, create) ==
  [k \in DOMAIN order |-> NewMessage("INIT", ch.cmdId + k - 1, order[k], create, {})]

NewWorker == [handles |-> {}, failed |-> {}, running |-> {}]

NewChild(i) ==
  [registered |-> TRUE, alive |-> TRUE, isClosing |-> FALSE, cleanUp |-> FALSE,
   process |-> 1, firstCmdId |-> 0, instances |-> {i}, attached |-> {i}, created |-> {},
   initialized |-> {i}, restarts |-> <<>>, detaching |-> {}, destroyed |-> {}, cmdId |-> 0,
   queue |-> {}, childQueue |-> {}, methods |-> {}]

NewCall(i) ==
  [state |-> "idle", kind |-> "method", inst |-> i, cmdId |-> 0, process |-> 0,
   runs |-> 0, answer |-> {}]

\* The first threadedClass() call has forked the child and sent its INIT.
Init ==
  \E i \in Instances :
    LET inits == Inits(NewChild(i), <<i>>, TRUE)
    IN /\ child = Enqueue(NewChild(i), inits)
       /\ calls = [c \in Calls |-> NewCall(i)]
       /\ toWorker = inits
       /\ toParent = <<>>
       /\ worker = NewWorker
       /\ ops = 0

-----------------------------------------------------------------------------
Op ==
  /\ ops < MaxOps
  /\ ops' = ops + 1

(***************************************************************************)
(* The program.                                                            *)
(***************************************************************************)
\* A call on a proxy.  The proxy keeps its child even after it has been
\* destroyed.  cmdId counts before the look at initialized.
Issue(c, kind, i) ==
  LET cmd == IF kind = "setter" THEN "SET" ELSE "FUNCTION"
      m == NewMessage(cmd, child.cmdId, i, FALSE, {c})
      call == [calls[c] EXCEPT !.kind = kind, !.inst = i, !.cmdId = child.cmdId,
                               !.process = child.process]
      isMethod == IF kind = "method" THEN {c} ELSE {}
  IN /\ calls[c].state = "idle"
     /\ i \in child.created
     /\ IF CanSend(child) /\ i \in child.initialized
        THEN /\ calls' = [calls EXCEPT ![c] = [call EXCEPT !.state = "pending"]]
             /\ child' = [Enqueue(child, <<m>>) EXCEPT !.methods = @ \cup isMethod]
             /\ toWorker' = Append(toWorker, m)
        ELSE /\ calls' = [calls EXCEPT ![c] = [call EXCEPT !.state = "rejected"]]
             /\ child' = IF CanSend(child) THEN [child EXCEPT !.cmdId = @ + 1] ELSE child
             /\ UNCHANGED toWorker
     /\ UNCHANGED <<toParent, worker, ops>>

\* A variant with a bug: the messages to the worker itself are numbered apart.
AskedUncounted(ch, m) == [ch EXCEPT !.childQueue = @ \cup {m}]

Asked(ch, m) == [ch EXCEPT !.cmdId = @ + 1, !.childQueue = @ \cup {m}]

\* sendMessageToChild, for getMemoryUsage: an error is part of the report, which
\* resolves with it; here it counts as rejected.
AskMemory(c) ==
  LET m == NewMessage("GET_MEM_USAGE", child.cmdId, calls[c].inst, FALSE, {c})
      call == [calls[c] EXCEPT !.kind = "memory", !.cmdId = child.cmdId,
                               !.process = child.process]
  IN /\ "memory" \in Kinds
     /\ calls[c].state = "idle"
     /\ child.registered
     /\ IF CanSend(child)
        THEN /\ calls' = [calls EXCEPT ![c] = [call EXCEPT !.state = "pending"]]
             /\ child' = Asked(child, m)
             /\ toWorker' = Append(toWorker, m)
        ELSE /\ calls' = [calls EXCEPT ![c] = [call EXCEPT !.state = "rejected"]]
             /\ UNCHANGED <<child, toWorker>>
     /\ UNCHANGED <<toParent, worker, ops>>

\* threadedClass() that finds this child.
Attach(i) ==
  LET ch == [child EXCEPT !.instances = @ \cup {i}, !.attached = @ \cup {i},
                          !.initialized = @ \cup {i}]
      inits == Inits(ch, <<i>>, TRUE)
  IN /\ child.registered
     /\ i \notin child.attached
     /\ IF CanSend(child)
        THEN child' = Enqueue(ch, inits) /\ toWorker' = toWorker \o inits
        ELSE child' = ch /\ UNCHANGED toWorker
     /\ UNCHANGED <<calls, toParent, worker, ops>>

\* killProxy: it kills the child with its last instance, otherwise asks the
\* worker to drop the instance.
Destroy(i) ==
  LET ch == [child EXCEPT !.destroyed = @ \cup {i}]
      kill == NewMessage("KILL", child.cmdId, i, FALSE, {})
  IN /\ child.registered
     /\ i \in child.instances
     /\ \/ /\ child.instances = {i}
           /\ child' = IF child.alive THEN [ch EXCEPT !.isClosing = TRUE, !.cleanUp = TRUE]
                       ELSE [ch EXCEPT !.registered = FALSE, !.isClosing = FALSE]
           /\ UNCHANGED toWorker
        \/ /\ child.instances # {i}
           /\ CanSend(child) /\ i \in child.initialized
           /\ child' = [Enqueue(ch, <<kill>>) EXCEPT !.detaching = @ \cup {i}]
           /\ toWorker' = Append(toWorker, kill)
        \/ /\ child.instances # {i}
           /\ ~(CanSend(child) /\ i \in child.initialized)
           /\ child' = [ch EXCEPT !.instances = @ \ {i},
                                  !.cmdId = IF CanSend(child) THEN @ + 1 ELSE @]
           /\ UNCHANGED toWorker
     /\ Op
     /\ UNCHANGED <<calls, toParent, worker>>

\* The timer of 1000 ms in killProxy.
DetachTimeout ==
  /\ \E i \in child.detaching :
       child' = [child EXCEPT !.detaching = @ \ {i}, !.instances = @ \ {i}]
  /\ UNCHANGED <<calls, toWorker, toParent, worker, ops>>

-----------------------------------------------------------------------------
(***************************************************************************)
(* The life of the process.                                                *)
(***************************************************************************)
\* killChild, with cleanUp when all is destroyed or the manager gives up, without
\* when a restart has failed.
KillChild(cleanUp) ==
  /\ \/ /\ child.alive
        /\ child' = [child EXCEPT !.isClosing = TRUE, !.cleanUp = @ \/ cleanUp]
     \/ /\ ~child.alive /\ cleanUp
        /\ child' = [child EXCEPT !.registered = FALSE]
  /\ Op
  /\ UNCHANGED <<calls, toWorker, toParent, worker>>

\* The instances of a restart, or some of them, in some order.
Orders(S) == {s \in UNION {[1..n -> S] : n \in 1..Cardinality(S)} : IsInjective(s)}

\* killChild by a forced restart, which awaits it; it does not look again at which
\* instances the child has.
Forced(ch) ==
  {[ch EXCEPT !.isClosing = TRUE, !.restarts = Append(@, order)] : order \in Orders(ch.instances)}

ForceRestart ==
  /\ child.alive
  /\ child' \in Forced(child)
  /\ Op
  /\ UNCHANGED <<calls, toWorker, toParent, worker>>

\* killTimeout: the restart rejects, or the child is let go while it still runs.
KillTimeout ==
  /\ child.isClosing
  /\ \/ /\ child.restarts # <<>>
        /\ child' = [child EXCEPT !.restarts = Tail(@)]
     \/ /\ child.cleanUp
        /\ child' = [child EXCEPT !.registered = FALSE]
  /\ UNCHANGED <<calls, toWorker, toParent, worker, ops>>

\* A variant with a bug: the aborted calls resolve.
AbortMethodsResolving(cs, ch) ==
  [c \in Calls |-> IF c \in ch.methods /\ cs[c].state = "pending"
                   THEN [cs[c] EXCEPT !.state = "resolved"] ELSE cs[c]]

\* rejectChildMethods.
AbortMethods(cs, ch) ==
  [c \in Calls |-> IF c \in ch.methods /\ cs[c].state = "pending"
                   THEN [cs[c] EXCEPT !.state = "rejected"] ELSE cs[c]]

\* _childHasCrashed of a live child: a ping was not answered in time, or a retry is
\* due.  The calls are aborted, then the process is killed, with or without a
\* restart to follow, unless it is already closing.
ChildHasCrashed ==
  /\ child.alive
  /\ calls' = AbortMethods(calls, child)
  /\ LET ch == [child EXCEPT !.methods = {}]
     IN child' \in IF child.isClosing THEN {ch}
                   ELSE {[ch EXCEPT !.isClosing = TRUE]} \cup Forced(ch)
  /\ Op
  /\ UNCHANGED <<toWorker, toParent, worker>>

\* The close event.  What is on its way in either direction is lost; what the
\* process had sent and the manager received was received before.
Closed(ch) ==
  [ch EXCEPT !.alive = FALSE, !.isClosing = FALSE, !.cleanUp = FALSE, !.methods = {},
             !.instances = IF ch.cleanUp THEN {} ELSE @,
             !.registered = @ /\ ~ch.cleanUp]

\* A variant with a bug: only an unexpected close aborts the calls.
CloseAbortingIfCrashed ==
  /\ child' = Closed(child)
  /\ calls' = IF child.isClosing THEN calls ELSE AbortMethods(calls, child)
  /\ toWorker' = <<>> /\ toParent' = <<>>
  /\ worker' = NewWorker

Close ==
  /\ child' = Closed(child)
  /\ calls' = AbortMethods(calls, child)
  /\ toWorker' = <<>> /\ toParent' = <<>>
  /\ worker' = NewWorker

\* The process dies by itself, or because it was killed.
Crash == CanSend(child) /\ Close /\ Op
Terminated == child.alive /\ child.isClosing /\ Close /\ UNCHANGED ops

\* restartChild, after it has killed: a fork if the process is gone, then an INIT
\* to each instance it restarts, in order, also to one that the child no longer has.
Restart(ch, order) ==
  LET base == IF ch.alive THEN ch
              ELSE [ch EXCEPT !.alive = TRUE, !.process = @ + 1, !.firstCmdId = ch.cmdId,
                              !.initialized = @ \ ch.instances]
      inits == Inits(base, order, FALSE)
  IN /\ child' = [Enqueue(base, inits) EXCEPT !.initialized = @ \cup ToSet(order)]
     /\ toWorker' = toWorker \o inits

\* One that does not kill: it is not forced, or the process is gone.
RestartChild ==
  /\ ~child.isClosing
  /\ \E order \in Orders(child.instances) : Restart(child, order)
  /\ Op
  /\ UNCHANGED <<calls, toParent, worker>>

\* The kill that a restart awaits has resolved.
ResumeRestart ==
  /\ child.restarts # <<>>
  /\ ~child.isClosing
  /\ Restart([child EXCEPT !.restarts = Tail(@)], Head(child.restarts))
  /\ UNCHANGED <<calls, toParent, worker, ops>>

-----------------------------------------------------------------------------
(***************************************************************************)
(* The worker takes the first message.  require() and the constructor run  *)
(* before the next message is taken.                                       *)
(***************************************************************************)
ReplyTo(m, error) ==
  [from |-> "instance", replyTo |-> m.cmdId, inst |-> m.inst, error |-> error, call |-> m.call]

\* A variant with a bug: any message may overtake the others.
ReceivesAny(m) ==
  /\ child.alive
  /\ m \in ToSet(toWorker)
  /\ toWorker' = Remove(toWorker, m)
  /\ UNCHANGED <<child, ops>>

Receives(m) ==
  /\ child.alive
  /\ toWorker # <<>>
  /\ m = Head(toWorker)
  /\ toWorker' = Tail(toWorker)
  /\ UNCHANGED <<child, ops>>

Construct(m) ==
  /\ Receives(m)
  /\ m.cmd = "INIT"
  /\ worker' = [worker EXCEPT !.handles = @ \cup {m.inst}]
  /\ toParent' = Append(toParent, ReplyTo(m, FALSE))
  /\ UNCHANGED calls

\* A variant with a bug: no reply.
ConstructorThrowsSilently(m) ==
  /\ Receives(m)
  /\ "constructor" \in Errors
  /\ m.cmd = "INIT"
  /\ worker' = [worker EXCEPT !.failed = @ \cup {m.inst}]
  /\ UNCHANGED <<calls, toParent>>

\* The class is not found, or its constructor throws.
ConstructorThrows(m) ==
  /\ Receives(m)
  /\ "constructor" \in Errors
  /\ m.cmd = "INIT"
  /\ worker' = [worker EXCEPT !.failed = @ \cup {m.inst}]
  /\ toParent' = Append(toParent, ReplyTo(m, TRUE))
  /\ UNCHANGED calls

\* require() throws, which the handler of all messages catches: it replies only
\* to a cmdId that is truthy.
LoadThrows(m) ==
  /\ Receives(m)
  /\ "load" \in Errors
  /\ m.cmd = "INIT"
  /\ worker' = [worker EXCEPT !.failed = @ \cup {m.inst}]
  /\ toParent' = IF m.cmdId # 0 THEN Append(toParent, ReplyTo(m, TRUE)) ELSE toParent
  /\ UNCHANGED calls

\* A message for an instance that the worker does not know.
DropMessage(m) ==
  /\ Receives(m)
  /\ m.cmd \notin {"INIT", "GET_MEM_USAGE"} /\ m.inst \notin worker.handles
  /\ UNCHANGED <<calls, worker, toParent>>

Ran(cs, m) == [c \in Calls |-> IF c \in m.call THEN [cs[c] EXCEPT !.runs = @ + 1] ELSE cs[c]]

\* The method starts, or the property is read.
RunFunction(m) ==
  /\ Receives(m)
  /\ m.cmd = "FUNCTION" /\ m.inst \in worker.handles
  /\ worker' = [worker EXCEPT !.running = @ \cup {m}]
  /\ calls' = Ran(calls, m)
  /\ UNCHANGED toParent

RunSet(m) ==
  /\ Receives(m)
  /\ m.cmd = "SET" /\ m.inst \in worker.handles
  /\ \E error \in {FALSE} \cup {"method" \in Errors} :
       toParent' = Append(toParent, ReplyTo(m, error))
  /\ calls' = Ran(calls, m)
  /\ UNCHANGED worker

KillInstance(m) ==
  /\ Receives(m)
  /\ m.cmd = "KILL" /\ m.inst \in worker.handles
  /\ worker' = [worker EXCEPT !.handles = @ \ {m.inst}]
  /\ toParent' = Append(toParent, ReplyTo(m, FALSE))
  /\ UNCHANGED calls

\* A message to the worker itself needs no instance.
ReplyMemory(m) ==
  /\ Receives(m)
  /\ m.cmd = "GET_MEM_USAGE"
  /\ toParent' = Append(toParent, [ReplyTo(m, FALSE) EXCEPT !.from = "child"])
  /\ calls' = Ran(calls, m)
  /\ UNCHANGED worker

WorkerReceives ==
  \E m \in ToSet(toWorker) :
    \/ Construct(m)
    \/ ConstructorThrows(m)
    \/ LoadThrows(m)
    \/ DropMessage(m)
    \/ RunFunction(m)
    \/ RunSet(m)
    \/ KillInstance(m)
    \/ ReplyMemory(m)

\* The promise of a method settles, in any order.
Return ==
  /\ child.alive
  /\ \E m \in worker.running, error \in {FALSE} \cup {"method" \in Errors} :
       /\ worker' = [worker EXCEPT !.running = @ \ {m}]
       /\ toParent' = Append(toParent, ReplyTo(m, error))
  /\ UNCHANGED <<child, calls, toWorker, ops>>

-----------------------------------------------------------------------------
(***************************************************************************)
(* The manager receives the first reply.                                   *)
(***************************************************************************)
\* A variant with a bug: the oldest callback of the instance takes the reply.
CallbacksInOrder(ch, r) ==
  {m \in ch.queue : m.inst = r.inst /\ \A n \in ch.queue : n.inst = r.inst => m.cmdId <= n.cmdId}

Callbacks(ch, r) == {m \in ch.queue : m.cmdId = r.replyTo}

SettleCall(cs, m, r) ==
  [c \in Calls |->
     IF c \in m.call /\ cs[c].state = "pending"
     THEN IF r.error THEN [cs[c] EXCEPT !.state = "rejected"]
          ELSE [cs[c] EXCEPT !.state = "resolved", !.answer = r.call]
     ELSE cs[c]]

ReceiveReply ==
  /\ child.alive
  /\ toParent # <<>>
  /\ Head(toParent).from = "instance"
  /\ LET r == Head(toParent)
         callbacks == Callbacks(child, r)
     IN IF r.inst \notin child.instances \/ callbacks = {}
        THEN UNCHANGED <<child, calls>>
        ELSE \E m \in callbacks :
          LET settled == m.call
              created == IF m.cmd = "INIT" /\ m.create /\ ~r.error THEN {m.inst} ELSE {}
              detached == IF m.cmd = "KILL" THEN {m.inst} ELSE {}
          IN /\ child' = [child EXCEPT !.queue = @ \ {m}, !.methods = @ \ settled,
                                       !.created = @ \cup created,
                                       !.instances = @ \ detached]
             /\ calls' = SettleCall(calls, m, r)
  /\ toParent' = Tail(toParent)
  /\ UNCHANGED <<toWorker, worker, ops>>

\* _onMessageFromChild.  It leaves the callback in childMessageQueue, and deletes
\* the one of that number from instanceMessageQueue.
ReceiveChildReply ==
  /\ child.alive
  /\ toParent # <<>>
  /\ Head(toParent).from = "child"
  /\ LET r == Head(toParent)
     IN \E m \in child.childQueue :
          /\ m.cmdId = r.replyTo
          /\ child' = [child EXCEPT !.queue = @ \ Callbacks(child, r)]
          /\ calls' = SettleCall(calls, m, r)
  /\ toParent' = Tail(toParent)
  /\ UNCHANGED <<toWorker, worker, ops>>

-----------------------------------------------------------------------------
Next ==
  \/ \E c \in Calls, kind \in Kinds \ {"memory"}, i \in Instances : Issue(c, kind, i)
  \/ \E c \in Calls : AskMemory(c)
  \/ \E i \in Instances : Attach(i)
  \/ \E i \in Instances : Destroy(i)
  \/ DetachTimeout
  \/ \E cleanUp \in BOOLEAN : KillChild(cleanUp)
  \/ ForceRestart
  \/ KillTimeout
  \/ ChildHasCrashed
  \/ Crash
  \/ Terminated
  \/ RestartChild
  \/ ResumeRestart
  \/ WorkerReceives
  \/ Return
  \/ ReceiveReply
  \/ ReceiveChildReply

Spec == Init /\ [][Next]_vars

(***************************************************************************)
(* The event loops run, a killed process closes, and a method that was     *)
(* started returns.                                                        *)
(***************************************************************************)
Fairness ==
  /\ WF_vars(WorkerReceives)
  /\ WF_vars(Return)
  /\ WF_vars(ReceiveReply)
  /\ WF_vars(ReceiveChildReply)
  /\ WF_vars(Terminated)

FairSpec == Spec /\ Fairness

-----------------------------------------------------------------------------
TypeOK ==
  /\ child \in Child
  /\ calls \in [Calls -> Call]
  /\ toWorker \in Seq(Message)
  /\ toParent \in Seq(Reply)
  /\ worker \in Worker
  /\ ops \in Nat

\* Whatever the order in which methods return, and however many processes the
\* child has had, a call resolves with the result of its own single run, in the
\* process it was sent to.
ResultIsOwn ==
  \A c \in Calls : calls[c].state = "resolved" => calls[c].answer = {c} /\ calls[c].runs = 1

\* The manager has let go of the child and of the instance.
LetGo(ch, i) == ~ch.registered /\ i \notin ch.instances

\* The worker has been asked to drop the instance, or failed to construct it, or
\* the instance has been let go.  A restart that was under way then may still run
\* it, and its calls, but nobody takes the replies.
Lost(i) == i \in child.destroyed \/ i \in worker.failed \/ LetGo(child, i)

\* A pending method call is one that the live process was sent (the calls of a
\* dead one were all aborted, also those made while it was going down), and as
\* long as its instance is not lost something will settle every pending call of
\* the live process: its message, its run or its reply, with the callback that
\* the reply will find.  A report of the memory needs no instance.
InFlight(c) ==
  \/ \E m \in ToSet(toWorker) \cup worker.running : m.call = {c}
  \/ \E r \in ToSet(toParent) : r.call = {c} /\ r.replyTo = calls[c].cmdId
PendingIsInFlight ==
  \A c \in Calls : Pending(c) =>
    /\ calls[c].kind = "method" => child.alive /\ calls[c].process = child.process
    /\ child.alive /\ calls[c].process = child.process =>
         \/ InFlight(c) /\ \E m \in child.queue \cup child.childQueue : m.call = {c}
         \/ Lost(calls[c].inst) /\ calls[c].kind # "memory"

\* An INIT that the live process was sent is answered, whether or not the class
\* can be constructed, so that threadedClass() and restart() can settle; but the
\* manager drops the answer of an instance that the child does not have any more.
InitIsAnswered ==
  \A m \in child.queue :
    (m.cmd = "INIT" /\ child.alive /\ m.cmdId >= child.firstCmdId) =>
      \/ m \in ToSet(toWorker)
      \/ \E r \in ToSet(toParent) : r.replyTo = m.cmdId
      \/ m.inst \notin child.instances

\* Calls start in the order in which they were made, across instances and
\* restarts.
CallOrder ==
  [][\A c, d \in Calls :
       (calls'[c].runs > calls[c].runs /\ calls[d].runs > 0)
         => calls[d].cmdId < calls[c].cmdId]_vars

\* Every step is a step of the abstract calls, or none.
Abstract == INSTANCE AsyncCalls WITH
  state <- [c \in Calls |-> calls[c].state],
  runs <- [c \in Calls |-> calls[c].runs],
  answer <- [c \in Calls |-> calls[c].answer]
ImplementsAsyncCalls == Abstract!Spec

\* A method call settles, unless its instance is lost.
MethodsSettle ==
  \A c \in Calls :
    (Pending(c) /\ calls[c].kind = "method") ~> (~Pending(c) \/ Lost(calls[c].inst))
=============================================================================
