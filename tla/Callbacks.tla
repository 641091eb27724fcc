------------------------------ MODULE Callbacks ------------------------------
(***************************************************************************)
(* Functions that cross the boundary between the program and a thread.     *)
(* A function given to a method is entered in the child's table, and the   *)
(* worker makes a remote function of its number, once; a function that a   *)
(* method returns is entered in the worker's table, and the program gets a *)
(* remote function of that.  Calling one sends CALLBACK, and the other     *)
(* side replies whenever the function returns.  Meanwhile instances are    *)
(* destroyed or constructed again, and the process crashes, is killed and  *)
(* is forked again.                                                        *)
(*                                                                         *)
(* InstanceCalls has the calls of methods themselves; here a method takes  *)
(* one function and returns another, at once.                              *)
(***************************************************************************)
EXTENDS Integers, Sequences, FiniteSets, SequencesExt

CONSTANTS
  Instances,        \* the proxy instances of one child
  Functions,        \* functions of the program
  WorkerFunctions,  \* functions of the classes in the worker
  Methods,          \* of the classes: the function each takes and what it returns
  Throws,           \* the functions of either side that throw
  Calls,            \* the calls of remote functions, of either side
  MaxPasses,        \* bound of the exploration: methods given a function
  MaxOps            \* bound: crashes, kills, destroys and constructions again

ASSUME SetsAssumption ==
  /\ IsFiniteSet(Instances) /\ Instances # {}
  /\ IsFiniteSet(Functions) /\ Functions # {}
ASSUME SidesAssumption == Functions \cap WorkerFunctions = {}
ASSUME MethodsAssumption ==
  Methods \subseteq [takes : Functions, returns : WorkerFunctions]
ASSUME BoundsAssumption == MaxPasses \in Nat /\ MaxOps \in Nat

VARIABLES
  manager,    \* the manager's Child
  worker,     \* the Worker object of the process
  toWorker,   \* messages to the process, in order
  toParent,   \* messages from it, in order
  calls,      \* the promises of the calls, and what has become of each call
  passes,
  ops

vars == <<manager, worker, toWorker, toParent, calls, passes, ops>>

Side == [worker |-> Functions, parent |-> WorkerFunctions]

\* fn is the function the caller means, handle the InstanceHandle it is sent
\* with, ran the functions that were run for it, answer whose result it got.
Call == [state : {"idle", "pending", "resolved", "rejected", "lost"}, by : DOMAIN Side,
         fn : Functions \cup WorkerFunctions, inst : Instances, process : Nat,
         handle : Nat, cmdId : Nat, ran : SUBSET (Functions \cup WorkerFunctions),
         answer : SUBSET Calls]

\* id: of the function called, given or returned, 0 for none; fn is that given
\* or returned function, returns what the method called will return.  replyTo: of
\* a REPLY.  call: the call it makes, or whose result or error it carries.
Message == [cmd : {"INIT", "FUNCTION", "KILL", "CALLBACK", "REPLY", "RESULT"},
            inst : Instances, cmdId : Nat, id : Nat,
            fn : SUBSET (Functions \cup WorkerFunctions), returns : SUBSET WorkerFunctions,
            replyTo : Nat, error : BOOLEAN, call : SUBSET Calls]

Manager == [status : {"up", "closing", "down"},   \* of alive and isClosing
            process : Nat,                        \* forks so far
            instances : SUBSET Instances,
            initialized : SUBSET Instances,
            cmdId : Nat,
            callbacks : Seq(Functions),           \* in the order of their numbers
            queue : SUBSET Message,               \* instanceMessageQueue
            running : SUBSET Message,             \* callbacks that have not returned
            \* the remote functions that the program holds
            remote : SUBSET [inst : Instances, id : Nat, fn : WorkerFunctions, process : Nat],
            destroyed : SUBSET Instances]

Handle == [inst : Instances, cmdId : Nat, queue : SUBSET Message]

Worker == [handles : Seq(Handle),                 \* InstanceHandles made so far
           current : [Instances -> Nat],          \* instanceHandles, 0 for none
           remoteFns : [1..Cardinality(Functions) -> Nat],    \* the handle each one uses
           \* the remote functions that the classes hold
           remote : SUBSET [id : Nat, fn : Functions],
           callbacks : Seq(WorkerFunctions),
           running : SUBSET [message : Message, handle : Nat]]

-----------------------------------------------------------------------------
NewMessage(cmd, i, cmdId) ==
  [cmd |-> cmd, inst |-> i, cmdId |-> cmdId, id |-> 0, fn |-> {}, returns |-> {},
   replyTo |-> 0, error |-> FALSE, call |-> {}]

NewHandle(i) == [inst |-> i, cmdId |-> 1, queue |-> {}]

NewWorker ==
  [handles |-> <<>>, current |-> [i \in Instances |-> 0],
   remoteFns |-> [n \in 1..Cardinality(Functions) |-> 0],
   remote |-> {}, callbacks |-> <<>>, running |-> {}]

\* A variant with a bug: a function gets a new number each time.
RegisterAgain(table, fn) == Append(table, fn)

\* encodeArguments of a function: it keeps the number that it has in the table.
Register(table, fn) == IF fn \in ToSet(table) THEN table ELSE Append(table, fn)

\* A variant with a bug: the first function in the table is taken for fn.
IdOfFirst(table, fn) == 1

IdOf(table, fn) == CHOOSE n \in DOMAIN table : table[n] = fn

NewCall ==
  [state |-> "idle", by |-> "worker", fn |-> CHOOSE f \in Functions : TRUE,
   inst |-> CHOOSE i \in Instances : TRUE, process |-> 0, handle |-> 0, cmdId |-> 0,
   ran |-> {}, answer |-> {}]

\* Every threadedClass() has resolved, in some order.
Init ==
  LET order == SetToSeq(Instances)
  IN /\ manager = [status |-> "up", process |-> 1, instances |-> Instances,
                   initialized |-> Instances, cmdId |-> Len(order), callbacks |-> <<>>,
                   queue |-> {}, running |-> {}, remote |-> {}, destroyed |-> {}]
     /\ worker = [NewWorker EXCEPT
                    !.handles = [n \in DOMAIN order |-> NewHandle(order[n])],
                    !.current = [i \in Instances |-> CHOOSE n \in DOMAIN order : order[n] = i]]
     /\ toWorker = <<>>
     /\ toParent = <<>>
     /\ calls = [c \in Calls |-> NewCall]
     /\ passes = 0
     /\ ops = 0

Op == ops < MaxOps /\ ops' = ops + 1 /\ UNCHANGED passes
NoOp == UNCHANGED <<passes, ops>>

-----------------------------------------------------------------------------
(***************************************************************************)
(* sendMessageToInstance: mgr is the manager before, m the message.  A     *)
(* message is numbered before the look at initialized.                     *)
(***************************************************************************)
CanSend(mgr, i) == mgr.status = "up" /\ i \in mgr.initialized

Send(mgr, m, awaited) ==
  /\ manager' = [mgr EXCEPT !.cmdId = @ + 1, !.queue = IF awaited THEN @ \cup {m} ELSE @]
  /\ toWorker' = Append(toWorker, m)

NotSent(mgr) ==
  /\ manager' = [mgr EXCEPT !.cmdId = IF mgr.status = "up" THEN @ + 1 ELSE @]
  /\ UNCHANGED toWorker

\* A method is called with a function, which stays in the table for good.
Pass(i, method) ==
  LET mgr == [manager EXCEPT !.callbacks = Register(@, method.takes)]
      m == [NewMessage("FUNCTION", i, mgr.cmdId) EXCEPT
              !.id = IdOf(mgr.callbacks, method.takes), !.fn = {method.takes},
              !.returns = {method.returns}]
  IN /\ passes < MaxPasses
     /\ passes' = passes + 1
     /\ IF CanSend(mgr, i) THEN Send(mgr, m, TRUE) ELSE NotSent(mgr)
     /\ UNCHANGED <<worker, toParent, calls, ops>>

\* The program calls a function that a method returned.
ParentCalls(c, r) ==
  LET m == [NewMessage("CALLBACK", r.inst, manager.cmdId) EXCEPT !.id = r.id, !.call = {c}]
      call == [NewCall EXCEPT !.by = "parent", !.fn = r.fn, !.inst = r.inst,
                              !.process = r.process, !.cmdId = manager.cmdId]
  IN /\ calls[c].state = "idle"
     /\ IF CanSend(manager, r.inst)
        THEN /\ Send(manager, m, TRUE)
             /\ calls' = [calls EXCEPT ![c] = [call EXCEPT !.state = "pending"]]
        ELSE /\ NotSent(manager)
             /\ calls' = [calls EXCEPT ![c] = [call EXCEPT !.state = "rejected"]]
     /\ UNCHANGED <<worker, toParent>> /\ NoOp

\* A variant with a bug: what the callback throws is not sent.
ParentReturnsSilently(m) ==
  LET mgr == [manager EXCEPT !.running = @ \ {m}]
      reply == [NewMessage("REPLY", m.inst, mgr.cmdId) EXCEPT
                  !.replyTo = m.cmdId, !.call = m.call]
  IN /\ IF CanSend(mgr, m.inst) /\ manager.callbacks[m.id] \notin Throws
        THEN Send(mgr, reply, FALSE) ELSE NotSent(mgr)
     /\ UNCHANGED <<worker, toParent, calls>> /\ NoOp

\* A callback returns or throws; the reply goes to the instance, whichever
\* process it is in now, and is lost if there is none.
ParentReturns(m) ==
  LET error == manager.callbacks[m.id] \in Throws
      mgr == [manager EXCEPT !.running = @ \ {m}]
      reply == [NewMessage("REPLY", m.inst, mgr.cmdId) EXCEPT
                  !.replyTo = m.cmdId, !.error = error, !.call = m.call]
  IN /\ IF CanSend(mgr, m.inst) THEN Send(mgr, reply, FALSE) ELSE NotSent(mgr)
     /\ UNCHANGED <<worker, toParent, calls>> /\ NoOp

\* killProxy of one of several instances.
Destroy(i) ==
  LET mgr == [manager EXCEPT !.destroyed = @ \cup {i}]
      gone == [mgr EXCEPT !.instances = @ \ {i}]
  IN /\ i \in manager.instances
     /\ manager.instances # {i}
     /\ IF CanSend(mgr, i) THEN Send(mgr, NewMessage("KILL", i, mgr.cmdId), TRUE)
        ELSE NotSent(gone)
     /\ Op
     /\ UNCHANGED <<worker, toParent, calls>>

\* The timer of 1000 ms in killProxy.
DetachTimeout(i) ==
  /\ i \in manager.destroyed \cap manager.instances
  /\ manager' = [manager EXCEPT !.instances = @ \ {i}]
  /\ UNCHANGED <<worker, toWorker, toParent, calls>> /\ NoOp

-----------------------------------------------------------------------------
(***************************************************************************)
(* The life of the process.                                                *)
(***************************************************************************)
KillChild ==
  /\ manager.status = "up"
  /\ manager' = [manager EXCEPT !.status = "closing"]
  /\ Op
  /\ UNCHANGED <<worker, toWorker, toParent, calls>>

\* The close event.  The promises in the worker are gone; nothing aborts those
\* that the program holds.
Close ==
  /\ manager' = [manager EXCEPT !.status = "down"]
  /\ worker' = NewWorker
  /\ toWorker' = <<>> /\ toParent' = <<>>
  /\ calls' = [c \in Calls |->
                 IF calls[c].by = "worker" /\ calls[c].state = "pending"
                 THEN [calls[c] EXCEPT !.state = "lost"] ELSE calls[c]]

Crash == manager.status = "up" /\ Close /\ Op
Terminated == manager.status = "closing" /\ Close /\ NoOp

\* A variant with a bug: calls without a reply are sent again with the INITs.
InitsAndCallsAgain(mgr, order) ==
  /\ manager' = [mgr EXCEPT !.cmdId = @ + Len(order), !.initialized = @ \cup ToSet(order)]
  /\ toWorker' = toWorker \o
       [k \in DOMAIN order |-> NewMessage("INIT", order[k], mgr.cmdId + k - 1)] \o
       SetToSeq({n \in mgr.queue : n.cmd = "CALLBACK"})

\* sendInit to some instances, whose replies are of no interest here.
Inits(mgr, order) ==
  /\ manager' = [mgr EXCEPT !.cmdId = @ + Len(order), !.initialized = @ \cup ToSet(order)]
  /\ toWorker' = toWorker \o
       [k \in DOMAIN order |-> NewMessage("INIT", order[k], mgr.cmdId + k - 1)]

\* restartChild of a process that is gone, for some of the instances.
Restart ==
  /\ manager.status = "down"
  /\ \E S \in SUBSET manager.instances \ {{}} : \E order \in SetToSeqs(S) :
       Inits([manager EXCEPT !.status = "up", !.process = @ + 1,
                             !.initialized = @ \ manager.instances], order)
  /\ UNCHANGED <<worker, toParent, calls>> /\ NoOp

\* restart() without force: the process lives, and the instance is sent another
\* INIT all the same.
Reconstruct(i) ==
  /\ manager.status = "up"
  /\ i \in manager.instances
  /\ Inits(manager, <<i>>)
  /\ Op
  /\ UNCHANGED <<worker, toParent, calls>>

-----------------------------------------------------------------------------
(***************************************************************************)
(* The worker.  Every message it sends for an instance goes with a handle, *)
(* and takes the handle's next number.                                     *)
(***************************************************************************)
WorkerSends(w, h, m, awaited) ==
  LET sent == [m EXCEPT !.inst = w.handles[h].inst, !.cmdId = w.handles[h].cmdId]
  IN /\ worker' = [w EXCEPT !.handles[h].cmdId = @ + 1,
                            !.handles[h].queue = IF awaited THEN @ \cup {sent} ELSE @]
     /\ toParent' = Append(toParent, sent)

\* A variant with a bug: the number is taken one too late.
AnswerOffByOne(m, cmd, error) ==
  [NewMessage(cmd, m.inst, 0) EXCEPT !.replyTo = m.cmdId + 1, !.error = error, !.call = m.call]

Answer(m, cmd, error) ==
  [NewMessage(cmd, m.inst, 0) EXCEPT !.replyTo = m.cmdId, !.error = error, !.call = m.call]

\* decodeArgumentsFromParent: the first handle that was given the function is
\* the one that its calls are sent with, from then on.
Decoded(w, id, h) == [w EXCEPT !.remoteFns[id] = IF @ = 0 THEN h ELSE @]

\* A class calls a remote function that it holds.
WorkerCalls(c, r) ==
  LET h == worker.remoteFns[r.id]
      m == [NewMessage("CALLBACK", worker.handles[h].inst, 0) EXCEPT !.id = r.id, !.call = {c}]
  IN /\ calls[c].state = "idle"
     /\ WorkerSends(worker, h, m, TRUE)
     /\ calls' = [calls EXCEPT ![c] =
          [NewCall EXCEPT !.state = "pending", !.fn = r.fn, !.inst = worker.handles[h].inst,
                          !.process = manager.process, !.handle = h,
                          !.cmdId = worker.handles[h].cmdId]]
     /\ UNCHANGED <<manager, toWorker>> /\ NoOp

\* A function of the worker returns or throws.
WorkerReturns(r) ==
  LET error == worker.callbacks[r.message.id] \in Throws
  IN /\ manager.status # "down"
     /\ WorkerSends([worker EXCEPT !.running = @ \ {r}], r.handle,
                    Answer(r.message, "REPLY", error), FALSE)
     /\ UNCHANGED <<manager, toWorker, calls>> /\ NoOp

Receives(m) ==
  /\ manager.status # "down"
  /\ toWorker # <<>>
  /\ m = Head(toWorker)
  /\ toWorker' = Tail(toWorker)
  /\ UNCHANGED manager /\ NoOp

\* The new handle replaces that of an earlier construction.
Construct(m) ==
  /\ Receives(m)
  /\ m.cmd = "INIT"
  /\ worker' = [worker EXCEPT !.handles = Append(@, NewHandle(m.inst)),
                              !.current[m.inst] = Len(worker.handles) + 1]
  /\ UNCHANGED <<toParent, calls>>

\* A message for an instance that the worker does not know.
DropMessage(m) ==
  /\ Receives(m)
  /\ m.cmd # "INIT" /\ worker.current[m.inst] = 0
  /\ UNCHANGED <<worker, toParent, calls>>

\* The method is given the function, and returns its own.
RunFunction(m) ==
  LET h == worker.current[m.inst]
      given == [Decoded(worker, m.id, h) EXCEPT !.remote = @ \cup [id : {m.id}, fn : m.fn]]
      result == Answer(m, "RESULT", FALSE)
  IN /\ Receives(m)
     /\ m.cmd = "FUNCTION" /\ h # 0
     /\ \E g \in m.returns :
          LET table == Register(worker.callbacks, g)
          IN WorkerSends([given EXCEPT !.callbacks = table], h,
                         [result EXCEPT !.id = IdOf(table, g), !.fn = {g}], FALSE)
     /\ UNCHANGED calls

KillInstance(m) ==
  LET h == worker.current[m.inst]
  IN /\ Receives(m)
     /\ m.cmd = "KILL" /\ h # 0
     /\ WorkerSends([worker EXCEPT !.current[m.inst] = 0], h, Answer(m, "REPLY", FALSE), FALSE)
     /\ UNCHANGED calls

\* A function of the worker is called, if its table has the number.
RunCallback(m) ==
  LET h == worker.current[m.inst]
      c == CHOOSE d \in Calls : d \in m.call
  IN /\ Receives(m)
     /\ m.cmd = "CALLBACK" /\ h # 0
     /\ IF m.id \in DOMAIN worker.callbacks
        THEN /\ worker' = [worker EXCEPT !.running = @ \cup {[message |-> m, handle |-> h]}]
             /\ calls' = [calls EXCEPT ![c].ran = @ \cup {worker.callbacks[m.id]}]
             /\ UNCHANGED toParent
        ELSE /\ WorkerSends(worker, h, Answer(m, "REPLY", TRUE), FALSE)
             /\ UNCHANGED calls

\* A variant with a bug: a reply with an error resolves the call.
SettledAnyhow(c, reply) ==
  [calls EXCEPT ![c].state = "resolved", ![c].answer = reply.call]

Settled(c, reply) ==
  [calls EXCEPT ![c].state = IF reply.error THEN "rejected" ELSE "resolved",
                ![c].answer = reply.call]

\* A variant with a bug: the reply is taken for the oldest call.
AwaitedInOrder(queue, reply) ==
  {n \in queue : \A o \in queue : n.cmdId <= o.cmdId}

\* The message in a queue that a reply answers.
Awaited(queue, reply) == {n \in queue : n.cmdId = reply.replyTo}

\* A reply is looked up with the instance's handle of today, whatever handle the
\* call was sent with.  If it is not there, that is an error, which is a reply.
ReceiveReply(m) ==
  LET h == worker.current[m.inst]
  IN /\ Receives(m)
     /\ m.cmd = "REPLY" /\ h # 0
     /\ \/ \E n \in Awaited(worker.handles[h].queue, m), c \in Calls :
             /\ n.call = {c}
             /\ worker' = [worker EXCEPT !.handles[h].queue = @ \ {n}]
             /\ calls' = Settled(c, m)
             /\ UNCHANGED toParent
        \/ /\ Awaited(worker.handles[h].queue, m) = {}
           /\ WorkerSends(worker, h, [Answer(m, "REPLY", TRUE) EXCEPT !.call = {}], FALSE)
           /\ UNCHANGED calls

WorkerReceives ==
  \E m \in ToSet(toWorker) :
    \/ Construct(m)
    \/ DropMessage(m)
    \/ RunFunction(m)
    \/ KillInstance(m)
    \/ RunCallback(m)
    \/ ReceiveReply(m)

-----------------------------------------------------------------------------
(***************************************************************************)
(* The manager receives the first message.  One of an instance that it has *)
(* let go is dropped.                                                      *)
(***************************************************************************)
ManagerReceives(m) ==
  /\ manager.status # "down"
  /\ toParent # <<>>
  /\ m = Head(toParent)
  /\ toParent' = Tail(toParent)
  /\ UNCHANGED <<worker, toWorker>> /\ NoOp

ManagerDrops(m) ==
  /\ ManagerReceives(m)
  /\ m.inst \notin manager.instances
  /\ UNCHANGED <<manager, calls>>

\* A callback of the program is called.
ManagerRuns(m) ==
  /\ ManagerReceives(m)
  /\ m.cmd = "CALLBACK" /\ m.inst \in manager.instances
  /\ \E c \in Calls :
       /\ m.call = {c}
       /\ calls' = [calls EXCEPT ![c].ran = @ \cup {manager.callbacks[m.id]}]
  /\ manager' = [manager EXCEPT !.running = @ \cup {m}]

\* A method has returned: a new remote function for the function it returned.
ManagerDecodes(m) ==
  /\ ManagerReceives(m)
  /\ m.cmd = "RESULT" /\ m.inst \in manager.instances
  /\ manager' = [manager EXCEPT
       !.queue = @ \ Awaited(@, m),
       !.remote = @ \cup [inst : {m.inst}, id : {m.id}, fn : m.fn, process : {manager.process}]]
  /\ UNCHANGED calls

ManagerReceivesReply(m) ==
  LET awaited == Awaited(manager.queue, m)
      killed == {n.inst : n \in {o \in awaited : o.cmd = "KILL"}}
      settled == {c \in Calls : \E n \in awaited : n.call = {c}}
  IN /\ ManagerReceives(m)
     /\ m.cmd = "REPLY" /\ m.inst \in manager.instances
     /\ manager' = [manager EXCEPT !.queue = @ \ awaited, !.instances = @ \ killed]
     /\ calls' = [c \in Calls |-> IF c \in settled THEN Settled(c, m)[c] ELSE calls[c]]

ParentReceives ==
  \E m \in ToSet(toParent) :
    \/ ManagerDrops(m)
    \/ ManagerRuns(m)
    \/ ManagerDecodes(m)
    \/ ManagerReceivesReply(m)

-----------------------------------------------------------------------------
Returns ==
  \/ \E m \in manager.running : ParentReturns(m)
  \/ \E r \in worker.running : WorkerReturns(r)

Next ==
  \/ \E i \in Instances, method \in Methods : Pass(i, method)
  \/ \E c \in Calls, r \in manager.remote : ParentCalls(c, r)
  \/ \E c \in Calls, r \in worker.remote : WorkerCalls(c, r)
  \/ Returns
  \/ \E i \in Instances : Destroy(i)
  \/ \E i \in Instances : DetachTimeout(i)
  \/ \E i \in Instances : Reconstruct(i)
  \/ KillChild
  \/ Crash
  \/ Terminated
  \/ Restart
  \/ WorkerReceives
  \/ ParentReceives

Spec == Init /\ [][Next]_vars

(***************************************************************************)
(* The event loops run, functions return, and a killed process closes.     *)
(***************************************************************************)
Fairness ==
  /\ WF_vars(WorkerReceives)
  /\ WF_vars(ParentReceives)
  /\ WF_vars(Returns)
  /\ WF_vars(Terminated)

FairSpec == Spec /\ Fairness

-----------------------------------------------------------------------------
\* Types; a function has one number on its side.
TypeOK ==
  /\ manager \in Manager
  /\ IsInjective(manager.callbacks)
  /\ worker \in Worker
  /\ IsInjective(worker.callbacks)
  /\ toWorker \in Seq(Message)
  /\ toParent \in Seq(Message)
  /\ calls \in [Calls -> Call]
  /\ passes \in 0..MaxPasses
  /\ ops \in 0..MaxOps

\* A remote function runs the function it was made of, and nothing else, in the
\* process it was made in; the table of the worker starts again with the next
\* process, and a function returned by the last one is then looked up in it.
RemoteFunctionIsOwn ==
  \A c \in Calls :
    \/ calls[c].ran \subseteq {calls[c].fn}
    \/ calls[c].by = "parent" /\ calls[c].process < manager.process

\* Whatever the order in which functions return, a call settles with what
\* became of its own run.  Claimed of the code, and false of it.
ResultIsOwn == \A c \in Calls : calls[c].answer \subseteq {c}

\* It is true of the calls that the program makes, and a class in the worker is
\* only ever given the result of another call with its number that was made for
\* the same instance before that was constructed again.
Mixed(c, d) ==
  /\ calls[c].by = "worker" /\ calls[d].by = "worker"
  /\ calls[c].inst = calls[d].inst /\ calls[c].cmdId = calls[d].cmdId
  /\ \/ calls[d].process < calls[c].process
     \/ calls[d].process = calls[c].process /\ calls[d].handle # calls[c].handle
ResultIsOfHandle ==
  \A c \in Calls : \A d \in calls[c].answer : d = c \/ Mixed(c, d)

\* A call of a remote function runs at most once, on either side: none is on its
\* way that has run, whatever became of its process, its handle or its promise.
RunsOnce ==
  \A m \in ToSet(toWorker) \cup ToSet(toParent) :
    m.cmd = "CALLBACK" => \A c \in m.call : calls[c].ran = {}

\* To the program, a function that a method returned promises what a method does:
\* each step is one of AsyncCalls with the calls that the program makes, or none.
ProgramCalls == INSTANCE AsyncCalls WITH
  state <- [c \in Calls |-> IF calls[c].by = "parent" THEN calls[c].state ELSE "idle"],
  runs <- [c \in Calls |-> IF calls[c].by = "parent" THEN Cardinality(calls[c].ran) ELSE 0],
  answer <- [c \in Calls |->
    IF calls[c].by = "parent" /\ calls[c].state = "resolved" THEN calls[c].answer ELSE {}]
ProgramCallsAreAsyncCalls == ProgramCalls!Spec

Pending(c) == calls[c].state = "pending"

\* The instance a call was made for is destroyed, or its handle was replaced by
\* a later construction.
Stranded(c) ==
  \/ calls[c].inst \in manager.destroyed
  \/ calls[c].by = "worker" /\ calls[c].handle # worker.current[calls[c].inst]
  \/ calls[c].by = "parent" /\ calls[c].process < manager.process
  \/ manager.status # "up"

\* A pending call that is not stranded is on its way, runs, or has its reply on
\* the way, and somebody waits for the reply.
CallbackInFlight ==
  \A c \in Calls : Pending(c) =>
    \/ Stranded(c)
    \/ /\ \E m \in ToSet(toWorker) \cup ToSet(toParent) \cup manager.running
               \cup {r.message : r \in worker.running} : m.call = {c}
       /\ \E n \in manager.queue \cup UNION {worker.handles[h].queue : h \in DOMAIN worker.handles} :
            n.call = {c}

\* A call of a remote function settles, unless it is stranded.
CallbacksSettle ==
  \A c \in Calls : Pending(c) ~> (~Pending(c) \/ Stranded(c))
=============================================================================
