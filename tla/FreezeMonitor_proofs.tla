------------------------- MODULE FreezeMonitor_proofs -------------------------
(***************************************************************************)
(* Proofs about ThreadPool and FreezeMonitor, for any configs, any number  *)
(* of instances, and any number of faults and of commands.                 *)
(*                                                                         *)
(* A step acts on one thread, on the instances that were put into it, and  *)
(* on the entries in _children that have its id.  The invariant is stated   *)
(* accordingly: what holds of each thread, of each instance and its loop,   *)
(* and of the threads that have the same id.                                *)
(***************************************************************************)
EXTENDS FreezeMonitor, SequenceFacts, FiniteSetTheorems, WellFoundedInduction, TLAPS

Pool == [threads : Seq(Thread), inst : Seq(Inst)]

\* The kills, the members and the overlaps of a thread.
ThreadOk(p, t) ==
  LET th == p.threads[t]
  IN /\ \A i \in th.members \cup th.restart : i \in DOMAIN p.inst /\ p.inst[i].thread = t
     /\ th.process > 0
     /\ th.timers > 0 => th.cleanUp
     /\ th.cleanUp \/ th.restart # {} => th.alive /\ th.isClosing
     /\ th.restart # {} /\ th.cleanUp => th.disputed
     /\ th.late => ~th.registered /\ (th.cleanUp \/ ~th.alive \/ th.disputed)
     /\ (th.registered /\ \A i \in th.members : p.inst[i].detaching) => th.overlapped

\* The instance is in its thread, and threadedClass() has not failed.
Counts(p, i) ==
  /\ p.inst[i].promise # "rejected"
  /\ i \in p.threads[p.inst[i].thread].members

\* The process of the thread has such an instance, unless it was left out of a
\* restart; a restart to come will leave it out only after a call of restart().
InProcess(th, n, i) ==
  /\ (n.initialized /\ CanSend(th)) => n.initGen = th.process
  /\ ~n.initialized => /\ n.initGen # th.process
                       /\ ~n.config.autoRestart \/ th.restarted
  /\ (th.restart # {} /\ n.config.autoRestart) => i \in th.restart \/ th.restarted

\* What INIT and KILL have left of an instance and its loop.
LoopOk(th, n, x, i) ==
  /\ n.kill \/ n.detaching => n.destroys > 0
  /\ n.init = "create" => n.promise = "pending"
  /\ n.initGen <= th.process
  /\ x.state \in {"sleeping", "pinging"} => n.promise = "resolved"
  /\ x.state = "pinging" /\ ~x.received => n.destroys > 0 \/ i \notin th.members

InstOk(p, m, i) ==
  LET n == p.inst[i]
      th == p.threads[n.thread]
  IN /\ LoopOk(th, n, m[i], i)
     /\ Counts(p, i) => InProcess(th, n, i)

\* _children has one thread of each id.
OneRegistered(p) ==
  \A t, u \in Threads(p) :
    (p.threads[t].registered /\ p.threads[u].registered /\ SameId(p, t, u)) => t = u

\* A process that runs without being in _children has been cleared out of it by
\* a killTimeout, or was forked after a cleanup.
Stray(th) == th.alive /\ ~th.registered /\ (~th.disputed \/ th.cleanUp)

LostToLate(p) ==
  \A t \in Threads(p) :
    Stray(p.threads[t]) => \E u \in Threads(p) : SameId(p, t, u) /\ p.threads[u].late

Good(p, m) ==
  /\ p \in Pool
  /\ \A i \in DOMAIN p.inst : p.inst[i].thread \in Threads(p)
  /\ \A t \in Threads(p) : ThreadOk(p, t)
  /\ \A i \in DOMAIN p.inst : InstOk(p, m, i)
  /\ OneRegistered(p)
  /\ LostToLate(p)

\* The usage of a thread that is shared covers what its instances need, and is no
\* more than the whole of it, unless one of them was destroyed twice.
DestroyedOnceAtMost(p, t) ==
  \A i \in DOMAIN p.inst : p.inst[i].thread = t => p.inst[i].destroys <= 1

UsageOk(p, t) ==
  /\ p.threads[t].usage <= Full
  /\ (p.threads[t].name = NoName /\ DestroyedOnceAtMost(p, t)) =>
       Cardinality(Units(p, t)) <= p.threads[t].usage

UsagesOk(p) == \A t \in Threads(p) : UsageOk(p, t)

IInv ==
  /\ Good(pool, monitor)
  /\ Created \subseteq Instances
  /\ monitor \in [Instances -> Monitor]
  /\ \A i \in Instances \ Created : monitor[i].state = "none"
  /\ faults \in Nat /\ commands \in Nat

-----------------------------------------------------------------------------
(***************************************************************************)
(* One step acts on one thread.                                            *)
(***************************************************************************)
LEMMA PoolTyped ==
  ASSUME NEW p \in Pool
  PROVE  /\ p.threads \in Seq(Thread) /\ p.inst \in Seq(Inst)
         /\ DOMAIN p.threads = 1..Len(p.threads) /\ Len(p.threads) \in Nat
         /\ DOMAIN p.inst = 1..Len(p.inst) /\ Len(p.inst) \in Nat
         /\ \A t \in DOMAIN p.threads : p.threads[t] \in Thread
         /\ \A i \in DOMAIN p.inst : p.inst[i] \in Inst
<1>1. p.threads \in Seq(Thread) /\ p.inst \in Seq(Inst)
  BY DEF Pool
<1> QED BY <1>1, LenProperties, ElementOfSeq

\* y is x, which may have been removed from _children.
Similar(x, y) ==
  /\ x \in Thread /\ y \in Thread
  /\ y.registered => x.registered
  /\ y.name = x.name /\ y.usage = x.usage /\ y.alive = x.alive /\ y.isClosing = x.isClosing
  /\ y.cleanUp = x.cleanUp /\ y.timers = x.timers /\ y.process = x.process
  /\ y.frozen = x.frozen /\ y.members = x.members /\ y.restart = x.restart
  /\ y.late = x.late /\ y.overlapped = x.overlapped
  /\ y.disputed = x.disputed /\ y.restarted = x.restarted

\* The same threads and instances, of which those of other threads than t are
\* left alone.
Frame(p, q, t) ==
  /\ q \in Pool
  /\ DOMAIN q.threads = DOMAIN p.threads /\ DOMAIN q.inst = DOMAIN p.inst
  /\ \A u \in DOMAIN p.threads :
       /\ q.threads[u].name = p.threads[u].name
       /\ q.threads[u].registered => p.threads[u].registered
       /\ p.threads[u].late => q.threads[u].late
       /\ u # t => Similar(p.threads[u], q.threads[u])
  /\ \A i \in DOMAIN p.inst :
       /\ q.inst[i].thread = p.inst[i].thread
       /\ p.inst[i].thread # t => q.inst[i] = p.inst[i]

\* The thread of t, its instances, and those that are removed from _children
\* decide whether a step is good.
LEMMA StepGood ==
  ASSUME NEW p, NEW q, NEW m, NEW n, Good(p, m), NEW t \in Threads(p), Frame(p, q, t),
         \A i \in DOMAIN p.inst : p.inst[i].thread # t => n[i] = m[i],
         ThreadOk(q, t),
         \A i \in DOMAIN p.inst : p.inst[i].thread = t => InstOk(q, n, i),
         \A u \in Threads(p) :
           Stray(q.threads[u]) =>
             \/ Stray(p.threads[u])
             \/ \E w \in Threads(p) : SameId(p, u, w) /\ q.threads[w].late
  PROVE  Good(q, n)
<1>1. /\ q \in Pool /\ Threads(q) = Threads(p) /\ DOMAIN q.inst = DOMAIN p.inst
      /\ \A u, w \in Threads(p) : SameId(q, u, w) <=> SameId(p, u, w)
  BY DEF Frame, Threads, SameId
<1>2. \A i \in DOMAIN q.inst : q.inst[i].thread \in Threads(q)
  BY <1>1 DEF Good, Frame
<1>3. ASSUME NEW u \in Threads(p), u # t PROVE ThreadOk(q, u)
  <2>1. ThreadOk(p, u) /\ Similar(p.threads[u], q.threads[u])
    BY <1>3 DEF Good, Frame, Threads
  <2>2. \A i \in p.threads[u].members \cup p.threads[u].restart :
          /\ i \in DOMAIN p.inst /\ q.inst[i].thread = u /\ q.inst[i] = p.inst[i]
    BY <1>3, <2>1 DEF ThreadOk, Frame
  <2> QED BY <1>1, <2>1, <2>2 DEF ThreadOk, Similar
<1>4. ASSUME NEW i \in DOMAIN p.inst, p.inst[i].thread # t PROVE InstOk(q, n, i)
  <2>1. PICK u \in Threads(p) : u = p.inst[i].thread
    BY DEF Good
  <2>2. /\ InstOk(p, m, i) /\ q.inst[i] = p.inst[i] /\ n[i] = m[i]
        /\ Similar(p.threads[u], q.threads[u])
    BY <1>4, <2>1 DEF Good, Frame, Threads
  <2>3. PICK x : x = p.threads[u]
    OBVIOUS
  <2>4. PICK y : y = q.threads[u]
    OBVIOUS
  <2>5. PICK k : k = p.inst[i]
    OBVIOUS
  <2>6. /\ k.thread = u /\ q.inst[i] = k /\ n[i] = m[i] /\ InstOk(p, m, i)
        /\ y.cleanUp = x.cleanUp /\ y.members = x.members /\ y.restart = x.restart
        /\ y.process = x.process /\ y.restarted = x.restarted
        /\ (CanSend(y) <=> CanSend(x))
    BY <2>1, <2>2, <2>3, <2>4, <2>5 DEF Similar, CanSend
  <2>7. Counts(q, i) <=> Counts(p, i)
    BY <2>3, <2>4, <2>5, <2>6 DEF Counts
  <2> QED BY <2>3, <2>4, <2>5, <2>6, <2>7 DEF InstOk, LoopOk, InProcess
<1>5. OneRegistered(q)
  BY <1>1 DEF Good, OneRegistered, Frame, Threads
<1>6. LostToLate(q)
  <2> SUFFICES ASSUME NEW u \in Threads(p), Stray(q.threads[u])
               PROVE  \E w \in Threads(p) : SameId(p, u, w) /\ q.threads[w].late
    BY <1>1 DEF LostToLate
  <2>1. CASE Stray(p.threads[u])
    BY <2>1 DEF Good, LostToLate, Frame, Threads
  <2> QED BY <2>1
<1> QED BY <1>1, <1>2, <1>3, <1>4, <1>5, <1>6 DEF Good

-----------------------------------------------------------------------------
(***************************************************************************)
(* What the operators of ThreadPool change.                                *)
(***************************************************************************)
\* One thread is replaced.
SetThread(p, t, x) == [p EXCEPT !.threads[t] = x]

LEMMA SetThreadFields ==
  ASSUME NEW p \in Pool, NEW t \in DOMAIN p.threads, NEW x \in Thread,
         NEW q, q = SetThread(p, t, x)
  PROVE  /\ q \in Pool /\ q.inst = p.inst /\ DOMAIN q.threads = DOMAIN p.threads
         /\ q.threads[t] = x
         /\ \A u \in DOMAIN p.threads : u # t => q.threads[u] = p.threads[u]
<1>1. PICK s : s = [p.threads EXCEPT ![t] = x]
  OBVIOUS
<1>2. /\ s \in Seq(Thread) /\ DOMAIN s = DOMAIN p.threads /\ s[t] = x
      /\ \A u \in DOMAIN p.threads : u # t => s[u] = p.threads[u]
  <2>1. t \in 1..Len(p.threads) /\ p.threads \in Seq(Thread)
    BY PoolTyped
  <2>2. s \in Seq(Thread)
    BY <1>1, <2>1, ExceptSeq
  <2> QED BY <1>1, <2>2
<1>3. q = [p EXCEPT !.threads = s]
  BY <1>1 DEF SetThread
<1> QED BY <1>2, <1>3 DEF Pool

\* One instance is replaced.
SetInst(p, i, x) == [p EXCEPT !.inst[i] = x]

LEMMA SetInstFields ==
  ASSUME NEW p \in Pool, NEW i \in DOMAIN p.inst, NEW x \in Inst,
         NEW q, q = SetInst(p, i, x)
  PROVE  /\ q \in Pool /\ q.threads = p.threads /\ DOMAIN q.inst = DOMAIN p.inst
         /\ q.inst[i] = x
         /\ \A j \in DOMAIN p.inst : j # i => q.inst[j] = p.inst[j]
<1>1. PICK s : s = [p.inst EXCEPT ![i] = x]
  OBVIOUS
<1>2. /\ s \in Seq(Inst) /\ DOMAIN s = DOMAIN p.inst /\ s[i] = x
      /\ \A j \in DOMAIN p.inst : j # i => s[j] = p.inst[j]
  <2>1. i \in 1..Len(p.inst) /\ p.inst \in Seq(Inst)
    BY PoolTyped
  <2>2. s \in Seq(Inst)
    BY <1>1, <2>1, ExceptSeq
  <2> QED BY <1>1, <2>2
<1>3. q = [p EXCEPT !.inst = s]
  BY <1>1 DEF SetInst
<1> QED BY <1>2, <1>3 DEF Pool

\* All instances are replaced.
SetAll(p, f) == [p EXCEPT !.inst = f]

LEMMA SetAllFields ==
  ASSUME NEW p \in Pool, NEW f, DOMAIN f = DOMAIN p.inst, f \in [DOMAIN p.inst -> Inst],
         NEW q, q = SetAll(p, f)
  PROVE  q \in Pool /\ q.threads = p.threads /\ q.inst = f
<1>1. f \in Seq(Inst)
  <2>1. f \in [1..Len(p.inst) -> Inst] /\ Len(p.inst) \in Nat
    BY PoolTyped
  <2> QED BY <2>1, SeqDef
<1> QED BY <1>1 DEF SetAll, Pool

LEMMA UnregisterFields ==
  ASSUME NEW p \in Pool, NEW t \in DOMAIN p.threads, NEW q, q = Unregister(p, t)
  PROVE  /\ q \in Pool /\ q.inst = p.inst /\ DOMAIN q.threads = DOMAIN p.threads
         /\ \A u \in DOMAIN p.threads :
              /\ Similar(p.threads[u], q.threads[u])
              /\ q.threads[u].registered = (p.threads[u].registered /\ ~SameId(p, t, u))
<1>1. PICK s : s = [u \in DOMAIN p.threads |->
                      IF SameId(p, t, u) THEN [p.threads[u] EXCEPT !.registered = FALSE]
                      ELSE p.threads[u]]
  OBVIOUS
<1>2. ASSUME NEW u \in DOMAIN p.threads
      PROVE  /\ Similar(p.threads[u], s[u])
             /\ s[u].registered = (p.threads[u].registered /\ ~SameId(p, t, u))
  <2>1. PICK x : x = p.threads[u] /\ x \in Thread
    BY PoolTyped
  <2>2. CASE SameId(p, t, u)
    <3>1. s[u] = [x EXCEPT !.registered = FALSE]
      BY <1>1, <2>1, <2>2
    <3>2. Similar(x, s[u]) /\ s[u].registered = FALSE
      BY <2>1, <3>1 DEF Thread, Similar
    <3> QED BY <2>1, <2>2, <3>2
  <2>3. CASE ~SameId(p, t, u)
    <3>1. s[u] = x
      BY <1>1, <2>1, <2>3
    <3>2. x.registered \in BOOLEAN
      BY <2>1 DEF Thread
    <3> QED BY <2>1, <2>3, <3>1, <3>2 DEF Similar
  <2> QED BY <2>2, <2>3
<1>3. DOMAIN s = DOMAIN p.threads /\ s \in Seq(Thread)
  <2>1. DOMAIN s = DOMAIN p.threads
    BY <1>1
  <2>2. \A u \in DOMAIN p.threads : s[u] \in Thread
    BY <1>2 DEF Similar
  <2>3. s \in [1..Len(p.threads) -> Thread] /\ Len(p.threads) \in Nat
    BY <1>1, <2>2, PoolTyped
  <2> QED BY <2>1, <2>3, SeqDef
<1>4. q = [p EXCEPT !.threads = s]
  BY <1>1 DEF Unregister
<1>5. q \in Pool /\ q.inst = p.inst /\ q.threads = s
  BY <1>3, <1>4 DEF Pool
<1> QED BY <1>2, <1>3, <1>5

\* What INIT leaves of an instance.
SameInst(x, y) ==
  /\ y \in Inst
  /\ y.config = x.config /\ y.thread = x.thread /\ y.detaching = x.detaching
  /\ y.destroys = x.destroys

\* y is x, which an INIT is sent to.
InitSent(th, init, x, y) ==
  /\ SameInst(x, y)
  /\ y.initialized
  /\ CanSend(th) => /\ y.initGen = th.process /\ ~y.kill
                    /\ y.init = init /\ y.promise = x.promise
  /\ ~CanSend(th) => /\ y.initGen = x.initGen /\ y.kill = x.kill
                     /\ y.init = x.init
                     /\ y.promise = IF init = "create" THEN "rejected" ELSE x.promise

Inited(th, x, init) ==
  [x EXCEPT !.initialized = TRUE, !.initGen = th.process, !.init = init, !.kill = FALSE]
Refused(x, init) ==
  [x EXCEPT !.initialized = TRUE,
            !.promise = IF init = "create" THEN "rejected" ELSE x.promise]

LEMMA SendInitsFields ==
  ASSUME NEW p \in Pool, NEW t \in DOMAIN p.threads, NEW targets,
         NEW init \in {"create", "restart"}, NEW q, q = SendInits(p, t, targets, init)
  PROVE  /\ q \in Pool /\ q.threads = p.threads /\ DOMAIN q.inst = DOMAIN p.inst
         /\ \A i \in DOMAIN p.inst :
              /\ i \notin targets => q.inst[i] = p.inst[i]
              /\ i \in targets => InitSent(p.threads[t], init, p.inst[i], q.inst[i])
<1>1. PICK th : th = p.threads[t] /\ th \in Thread
  BY PoolTyped
<1>2. PICK f : f = [i \in DOMAIN p.inst |->
                     IF i \notin targets THEN p.inst[i]
                     ELSE IF CanSend(th) THEN Inited(th, p.inst[i], init)
                     ELSE Refused(p.inst[i], init)]
  OBVIOUS
<1>3. ASSUME NEW i \in DOMAIN p.inst
      PROVE  /\ f[i] \in Inst
             /\ i \notin targets => f[i] = p.inst[i]
             /\ i \in targets => InitSent(th, init, p.inst[i], f[i])
  <2>1. PICK x : x = p.inst[i] /\ x \in Inst
    BY PoolTyped
  <2>3. th.process \in Nat
    BY <1>1 DEF Thread
  <2>4. CASE i \notin targets
    <3>1. f[i] = x
      BY <1>2, <2>1, <2>4
    <3> QED BY <2>1, <2>4, <3>1
  <2>5. CASE i \in targets /\ CanSend(th)
    <3>1. f[i] = Inited(th, x, init)
      BY <1>2, <2>1, <2>5
    <3>2. f[i] \in Inst /\ InitSent(th, init, x, f[i])
      BY <2>1, <2>3, <2>5, <3>1 DEF Inst, InitSent, SameInst, Inited
    <3> QED BY <2>1, <2>5, <3>2
  <2>6. CASE i \in targets /\ ~CanSend(th)
    <3>1. f[i] = Refused(x, init)
      BY <1>2, <2>1, <2>6
    <3>2. f[i] \in Inst /\ InitSent(th, init, x, f[i])
      BY <2>1, <2>6, <3>1 DEF Inst, InitSent, SameInst, Refused
    <3> QED BY <2>1, <2>6, <3>2
  <2> QED BY <2>4, <2>5, <2>6
<1>4. DOMAIN f = DOMAIN p.inst
  BY <1>2
<1>5. f \in [DOMAIN p.inst -> Inst]
  BY <1>2, <1>3
<1>6. q = SetAll(p, f)
  <2>1. CanSend(p.threads[t]) <=> CanSend(th)
    BY <1>1
  <2>2. f = [i \in DOMAIN p.inst |->
               IF i \notin targets THEN p.inst[i]
               ELSE IF CanSend(th)
               THEN [p.inst[i] EXCEPT !.initialized = TRUE, !.initGen = th.process,
                                      !.init = init, !.kill = FALSE]
               ELSE [p.inst[i] EXCEPT !.initialized = TRUE,
                       !.promise = IF init = "create" THEN "rejected"
                                   ELSE p.inst[i].promise]]
    BY <1>2 DEF Inited, Refused
  <2> QED BY <1>1, <2>1, <2>2 DEF SendInits, SetAll
<1>7. q \in Pool /\ q.threads = p.threads /\ q.inst = f
  BY <1>4, <1>5, <1>6, SetAllFields
<1> QED BY <1>1, <1>3, <1>4, <1>7

\* The thread of t and its instances in their new process: x and y are the
\* thread before and after, k and n an instance.
Forked(x, y) ==
  /\ y \in Thread
  /\ y.alive /\ ~y.isClosing /\ y.process = x.process + 1 /\ y.restart = {}
  /\ y.name = x.name /\ y.registered = x.registered /\ y.cleanUp = x.cleanUp
  /\ y.timers = x.timers /\ y.members = x.members /\ y.late = x.late
  /\ y.overlapped = x.overlapped /\ y.usage = x.usage
  /\ y.disputed = x.disputed /\ y.restarted = x.restarted

\* threadedClass() waits for no other reply than before.
SamePromise(x, y) ==
  /\ y.promise = x.promise
  /\ y.init = "create" => x.init = "create"

LEMMA ForkFields ==
  ASSUME NEW p \in Pool, NEW t \in DOMAIN p.threads, NEW targets, NEW q, q = Fork(p, t, targets)
  PROVE  /\ q \in Pool
         /\ DOMAIN q.threads = DOMAIN p.threads /\ DOMAIN q.inst = DOMAIN p.inst
         /\ Forked(p.threads[t], q.threads[t])
         /\ \A u \in DOMAIN p.threads : u # t => q.threads[u] = p.threads[u]
         /\ \A i \in DOMAIN p.inst :
              /\ SameInst(p.inst[i], q.inst[i])
              /\ SamePromise(p.inst[i], q.inst[i])
              /\ q.inst[i].kill => p.inst[i].kill
              /\ i \in targets => /\ q.inst[i].initialized
                                  /\ q.inst[i].initGen = p.threads[t].process + 1
              /\ i \notin targets => q.inst[i].initGen = p.inst[i].initGen
              /\ i \in p.threads[t].members \ targets => ~q.inst[i].initialized
              /\ i \notin p.threads[t].members \cup targets => q.inst[i] = p.inst[i]
<1>1. PICK x : x = p.threads[t] /\ x \in Thread
  BY PoolTyped
<1>2. PICK y : y = [x EXCEPT !.alive = TRUE, !.isClosing = FALSE,
                             !.process = @ + 1, !.restart = {}]
  OBVIOUS
<1>3. Forked(x, y)
  <2>1. x.process \in Nat /\ x.process + 1 \in Nat
    BY <1>1 DEF Thread
  <2> QED BY <1>1, <1>2, <2>1 DEF Thread, Forked
<1>4. PICK f : f = [i \in DOMAIN p.inst |->
                     IF i \in y.members THEN [p.inst[i] EXCEPT !.initialized = FALSE]
                     ELSE p.inst[i]]
  OBVIOUS
<1>5. ASSUME NEW i \in DOMAIN p.inst
      PROVE  /\ f[i] \in Inst /\ SameInst(p.inst[i], f[i])
             /\ SamePromise(p.inst[i], f[i]) /\ f[i].kill = p.inst[i].kill
             /\ f[i].initGen = p.inst[i].initGen
             /\ i \in x.members => ~f[i].initialized
             /\ i \notin x.members => f[i] = p.inst[i]
  <2>1. PICK k : k = p.inst[i] /\ k \in Inst
    BY PoolTyped
  <2>2. CASE i \in x.members
    <3>1. f[i] = [k EXCEPT !.initialized = FALSE]
      BY <1>3, <1>4, <2>1, <2>2 DEF Forked
    <3> QED BY <2>1, <2>2, <3>1 DEF Inst, SameInst, SamePromise
  <2>3. CASE i \notin x.members
    <3>1. f[i] = k
      BY <1>3, <1>4, <2>1, <2>3 DEF Forked
    <3> QED BY <2>1, <2>3, <3>1 DEF SameInst, SamePromise
  <2> QED BY <2>2, <2>3
<1>6. PICK r : r = SetThread(p, t, y)
  OBVIOUS
<1>7. /\ r \in Pool /\ r.inst = p.inst /\ DOMAIN r.threads = DOMAIN p.threads
      /\ r.threads[t] = y
      /\ \A u \in DOMAIN p.threads : u # t => r.threads[u] = p.threads[u]
  <2>1. y \in Thread
    BY <1>3 DEF Forked
  <2> QED BY <1>6, <2>1, SetThreadFields
<1>8. PICK s : s = SetAll(r, f)
  OBVIOUS
<1>9. s \in Pool /\ s.threads = r.threads /\ s.inst = f
  <2>1. DOMAIN f = DOMAIN r.inst /\ f \in [DOMAIN r.inst -> Inst]
    BY <1>4, <1>5, <1>7
  <2> QED BY <1>7, <1>8, <2>1, SetAllFields
<1>12. q = SendInits(s, t, targets, "restart")
  <2>1. s = [p EXCEPT !.threads[t] = y,
                      !.inst = [i \in DOMAIN @ |->
                         IF i \in y.members THEN [@[i] EXCEPT !.initialized = FALSE]
                         ELSE @[i]]]
    BY <1>4, <1>6, <1>8 DEF SetThread, SetAll, Pool
  <2> QED BY <1>1, <1>2, <2>1 DEF Fork
<1>13. /\ q \in Pool /\ q.threads = s.threads /\ DOMAIN q.inst = DOMAIN s.inst
       /\ \A i \in DOMAIN s.inst :
            /\ i \notin targets => q.inst[i] = s.inst[i]
            /\ i \in targets => InitSent(s.threads[t], "restart", s.inst[i], q.inst[i])
  BY <1>7, <1>9, <1>12, SendInitsFields
<1>14. ASSUME NEW i \in DOMAIN p.inst
       PROVE  /\ SameInst(p.inst[i], q.inst[i])
              /\ SamePromise(p.inst[i], q.inst[i])
              /\ q.inst[i].kill => p.inst[i].kill
              /\ i \in targets => /\ q.inst[i].initialized
                                  /\ q.inst[i].initGen = x.process + 1
              /\ i \notin targets => q.inst[i].initGen = p.inst[i].initGen
              /\ i \in x.members \ targets => ~q.inst[i].initialized
              /\ i \notin x.members \cup targets => q.inst[i] = p.inst[i]
  <2>1. PICK k : k = s.inst[i]
    OBVIOUS
  <2>2. PICK n : n = q.inst[i]
    OBVIOUS
  <2>3. /\ k \in Inst /\ SameInst(p.inst[i], k) /\ SamePromise(p.inst[i], k)
        /\ k.kill = p.inst[i].kill /\ k.initGen = p.inst[i].initGen
        /\ i \in x.members => ~k.initialized
        /\ i \notin x.members => k = p.inst[i]
    BY <1>5, <1>9, <2>1
  <2>4. /\ i \notin targets => n = k
        /\ i \in targets => InitSent(y, "restart", k, n)
    BY <1>4, <1>7, <1>9, <1>13, <2>1, <2>2
  <2>5. CanSend(y) /\ y.process = x.process + 1
    BY <1>3 DEF Forked, CanSend
  <2> QED BY <2>2, <2>3, <2>4, <2>5 DEF InitSent, SameInst, SamePromise
<1> QED BY <1>1, <1>3, <1>4, <1>7, <1>9, <1>13, <1>14

\* y is x, whose process has closed.
ThreadLost(x, y) ==
  /\ y \in Thread /\ x.registered \in BOOLEAN /\ x.process \in Nat /\ x.timers \in Nat
  /\ ~y.alive /\ y.registered = x.registered /\ y.name = x.name
  /\ y.isClosing = x.isClosing /\ y.cleanUp = x.cleanUp /\ y.timers = x.timers
  /\ y.process = x.process /\ y.members = x.members /\ y.restart = x.restart
  /\ y.late = x.late /\ y.overlapped = x.overlapped /\ y.usage = x.usage
  /\ y.disputed = x.disputed /\ y.restarted = x.restarted

\* What a close event takes away.
LEMMA LostFields ==
  ASSUME NEW p \in Pool, NEW t \in DOMAIN p.threads, NEW q, q = Lost(p, t)
  PROVE  /\ q \in Pool
         /\ DOMAIN q.threads = DOMAIN p.threads /\ DOMAIN q.inst = DOMAIN p.inst
         /\ ThreadLost(p.threads[t], q.threads[t])
         /\ \A u \in DOMAIN p.threads : u # t => q.threads[u] = p.threads[u]
         /\ \A i \in DOMAIN p.inst :
              /\ SameInst(p.inst[i], q.inst[i])
              /\ SamePromise(p.inst[i], q.inst[i])
              /\ q.inst[i].kill = p.inst[i].kill
              /\ q.inst[i].initialized = p.inst[i].initialized
              /\ q.inst[i].initGen = p.inst[i].initGen
              /\ p.inst[i].thread # t => q.inst[i] = p.inst[i]
<1>1. PICK x : x = p.threads[t] /\ x \in Thread
  BY PoolTyped
<1>2. PICK y : y = [x EXCEPT !.alive = FALSE, !.frozen = FALSE]
  OBVIOUS
<1>3. y \in Thread /\ ThreadLost(x, y)
  BY <1>1, <1>2 DEF Thread, ThreadLost
<1>4. PICK f : f = [i \in DOMAIN p.inst |->
                     IF p.inst[i].thread = t THEN [p.inst[i] EXCEPT !.init = "none"]
                     ELSE p.inst[i]]
  OBVIOUS
<1>5. ASSUME NEW i \in DOMAIN p.inst
      PROVE  /\ f[i] \in Inst /\ SameInst(p.inst[i], f[i])
             /\ SamePromise(p.inst[i], f[i]) /\ f[i].kill = p.inst[i].kill
             /\ f[i].initialized = p.inst[i].initialized
             /\ f[i].initGen = p.inst[i].initGen
             /\ p.inst[i].thread # t => f[i] = p.inst[i]
  <2>1. PICK k : k = p.inst[i] /\ k \in Inst
    BY PoolTyped
  <2>2. CASE k.thread = t
    <3>1. f[i] = [k EXCEPT !.init = "none"]
      BY <1>4, <2>1, <2>2
    <3> QED BY <2>1, <2>2, <3>1 DEF Inst, SameInst, SamePromise
  <2>3. CASE k.thread # t
    <3>1. f[i] = k
      BY <1>4, <2>1, <2>3
    <3> QED BY <2>1, <2>3, <3>1 DEF SameInst, SamePromise
  <2> QED BY <2>2, <2>3
<1>6. PICK r : r = SetThread(p, t, y)
  OBVIOUS
<1>7. /\ r \in Pool /\ r.inst = p.inst /\ DOMAIN r.threads = DOMAIN p.threads
      /\ r.threads[t] = y
      /\ \A u \in DOMAIN p.threads : u # t => r.threads[u] = p.threads[u]
  BY <1>3, <1>6, SetThreadFields
<1>8. q = SetAll(r, f)
  BY <1>1, <1>2, <1>4, <1>6 DEF Lost, SetThread, SetAll, Pool
<1>9. q \in Pool /\ q.threads = r.threads /\ q.inst = f
  <2>1. DOMAIN f = DOMAIN r.inst /\ f \in [DOMAIN r.inst -> Inst]
    BY <1>4, <1>5, <1>7
  <2> QED BY <1>7, <1>8, <2>1, SetAllFields
<1>10. q.threads[t] = y /\ DOMAIN q.threads = DOMAIN p.threads /\ DOMAIN q.inst = DOMAIN p.inst
  BY <1>4, <1>7, <1>9
<1> QED BY <1>1, <1>3, <1>5, <1>7, <1>9, <1>10

\* y is x, which has been cleared out of _children.
ThreadCleaned(x, y) ==
  /\ y \in Thread
  /\ y.registered = FALSE /\ y.members = {} /\ ~y.cleanUp /\ y.timers = 0
  /\ y.name = x.name /\ y.alive = x.alive /\ y.isClosing = x.isClosing
  /\ y.process = x.process /\ y.restart = x.restart
  /\ y.late = x.late /\ y.overlapped = x.overlapped /\ y.usage = x.usage
  /\ y.disputed = x.disputed /\ y.restarted = x.restarted

\* A killChild that cleans up, once the process has closed.
Cleaned(p, t) ==
  Unregister([p EXCEPT !.threads[t] = [@ EXCEPT !.members = {}, !.cleanUp = FALSE,
                                                !.timers = 0]], t)

LEMMA CleanedFields ==
  ASSUME NEW p \in Pool, NEW t \in DOMAIN p.threads, NEW q, q = Cleaned(p, t)
  PROVE  /\ q \in Pool /\ q.inst = p.inst /\ DOMAIN q.threads = DOMAIN p.threads
         /\ ThreadCleaned(p.threads[t], q.threads[t])
         /\ \A u \in DOMAIN p.threads : u # t =>
              /\ Similar(p.threads[u], q.threads[u])
              /\ q.threads[u].registered = (p.threads[u].registered /\ ~SameId(p, t, u))
<1>1. PICK x : x = p.threads[t] /\ x \in Thread
  BY PoolTyped
<1>2. PICK y : y = [x EXCEPT !.members = {}, !.cleanUp = FALSE, !.timers = 0]
  OBVIOUS
<1>3. /\ y \in Thread /\ y.members = {} /\ ~y.cleanUp /\ y.timers = 0
      /\ y.name = x.name /\ y.alive = x.alive /\ y.isClosing = x.isClosing
      /\ y.process = x.process /\ y.restart = x.restart
      /\ y.late = x.late /\ y.overlapped = x.overlapped /\ y.usage = x.usage
      /\ y.disputed = x.disputed /\ y.restarted = x.restarted
  BY <1>1, <1>2 DEF Thread
<1>4. PICK r : r = SetThread(p, t, y)
  OBVIOUS
<1>5. /\ r \in Pool /\ r.inst = p.inst /\ DOMAIN r.threads = DOMAIN p.threads
      /\ r.threads[t] = y
      /\ \A u \in DOMAIN p.threads : u # t => r.threads[u] = p.threads[u]
  BY <1>3, <1>4, SetThreadFields
<1>6. q = Unregister(r, t)
  BY <1>1, <1>2, <1>4 DEF Cleaned, SetThread
<1>7. /\ q \in Pool /\ q.inst = r.inst /\ DOMAIN q.threads = DOMAIN r.threads
      /\ \A u \in DOMAIN r.threads :
           /\ Similar(r.threads[u], q.threads[u])
           /\ q.threads[u].registered = (r.threads[u].registered /\ ~SameId(r, t, u))
  BY <1>5, <1>6, UnregisterFields
<1>8. SameId(r, t, t)
  BY DEF SameId
<1>9. \A u \in DOMAIN p.threads : u # t => (SameId(r, t, u) <=> SameId(p, t, u))
  BY <1>1, <1>3, <1>5 DEF SameId
<1>10. ThreadCleaned(x, q.threads[t])
  <2>1. PICK z : z = q.threads[t]
    OBVIOUS
  <2>2. Similar(y, z) /\ z.registered = FALSE
    BY <1>5, <1>7, <1>8, <2>1
  <2> QED BY <1>3, <2>1, <2>2 DEF ThreadCleaned, Similar
<1> QED BY <1>1, <1>5, <1>7, <1>9, <1>10

\* The thread after a close event, whatever comes next.
ThreadClosed(x, y) ==
  /\ y \in Thread
  /\ ~y.isClosing /\ y.restart = {} /\ ~y.cleanUp
  /\ y.timers = IF x.cleanUp THEN 0 ELSE x.timers
  /\ y.members = IF x.cleanUp THEN {} ELSE x.members
  /\ y.name = x.name /\ y.late = x.late /\ y.overlapped = x.overlapped
  /\ y.disputed = x.disputed /\ y.restarted = x.restarted
  /\ y.usage = x.usage /\ y.registered = (x.registered /\ ~x.cleanUp)

\* The instances that are created again.
Again(p, t) ==
  IF p.threads[t].isClosing THEN p.threads[t].restart
  ELSE {i \in p.threads[t].members : p.inst[i].config.autoRestart}

\* The thread is let go, or it has a new process.
LetGo(p, q, t) ==
  /\ ~q.threads[t].alive /\ q.threads[t].process = p.threads[t].process
  /\ \A i \in DOMAIN p.inst : /\ q.inst[i].initialized = p.inst[i].initialized
                              /\ q.inst[i].initGen = p.inst[i].initGen
Renewed(p, q, t) ==
  /\ Again(p, t) # {}
  /\ q.threads[t].alive /\ q.threads[t].process = p.threads[t].process + 1
  /\ \A i \in Again(p, t) :
       i \in DOMAIN p.inst =>
         q.inst[i].initialized /\ q.inst[i].initGen = q.threads[t].process
  /\ \A i \in DOMAIN p.inst :
       /\ i \notin Again(p, t) => q.inst[i].initGen = p.inst[i].initGen
       /\ i \in q.threads[t].members \ Again(p, t) => ~q.inst[i].initialized

ClosedTo(p, q, t) ==
  /\ q \in Pool
  /\ DOMAIN q.threads = DOMAIN p.threads /\ DOMAIN q.inst = DOMAIN p.inst
  /\ ThreadClosed(p.threads[t], q.threads[t])
  /\ LetGo(p, q, t) \/ Renewed(p, q, t)
  /\ \A u \in DOMAIN p.threads : u # t =>
       /\ Similar(p.threads[u], q.threads[u])
       /\ q.threads[u].registered
            = (p.threads[u].registered /\ ~(p.threads[t].cleanUp /\ SameId(p, t, u)))
  /\ \A i \in DOMAIN p.inst :
       /\ SameInst(p.inst[i], q.inst[i])
       /\ SamePromise(p.inst[i], q.inst[i])
       /\ q.inst[i].kill => p.inst[i].kill
       /\ p.inst[i].thread # t => q.inst[i] = p.inst[i]

\* The same before the thread is let go or forked.
ThreadEmptied(x, y) ==
  /\ y \in Thread /\ x.process \in Nat
  /\ ~y.alive /\ y.isClosing = x.isClosing /\ y.restart = x.restart /\ ~y.cleanUp
  /\ y.process = x.process
  /\ y.timers = IF x.cleanUp THEN 0 ELSE x.timers
  /\ y.members = IF x.cleanUp THEN {} ELSE x.members
  /\ y.name = x.name /\ y.late = x.late /\ y.overlapped = x.overlapped
  /\ y.disputed = x.disputed /\ y.restarted = x.restarted
  /\ y.usage = x.usage /\ y.registered = (x.registered /\ ~x.cleanUp)

Emptied(p, q, t) ==
  /\ q \in Pool
  /\ DOMAIN q.threads = DOMAIN p.threads /\ DOMAIN q.inst = DOMAIN p.inst
  /\ ThreadEmptied(p.threads[t], q.threads[t])
  /\ \A u \in DOMAIN p.threads : u # t =>
       /\ Similar(p.threads[u], q.threads[u])
       /\ q.threads[u].registered
            = (p.threads[u].registered /\ ~(p.threads[t].cleanUp /\ SameId(p, t, u)))
  /\ \A i \in DOMAIN p.inst :
       /\ SameInst(p.inst[i], q.inst[i])
       /\ SamePromise(p.inst[i], q.inst[i])
       /\ q.inst[i].kill = p.inst[i].kill
       /\ q.inst[i].initialized = p.inst[i].initialized
       /\ q.inst[i].initGen = p.inst[i].initGen
       /\ p.inst[i].thread # t => q.inst[i] = p.inst[i]

StopClosing(p, t) == SetThread(p, t, [p.threads[t] EXCEPT !.isClosing = FALSE])

LEMMA EmptiedIsLetGo ==
  ASSUME NEW p \in Pool, NEW t \in DOMAIN p.threads, NEW r, Emptied(p, r, t),
         r.threads[t].restart = {},
         NEW q, q = IF r.threads[t].isClosing THEN StopClosing(r, t) ELSE r
  PROVE  ClosedTo(p, q, t)
<1>1. PICK x : x = p.threads[t]
  OBVIOUS
<1>2. PICK y : y = r.threads[t]
  OBVIOUS
<1>3. ThreadEmptied(x, y) /\ y \in Thread /\ y.restart = {}
  BY <1>1, <1>2 DEF Emptied, ThreadEmptied
<1>4. PICK z : z = IF y.isClosing THEN [y EXCEPT !.isClosing = FALSE] ELSE y
  OBVIOUS
<1>5. z \in Thread /\ ThreadClosed(x, z) /\ ~z.alive /\ z.process = x.process
  <2>1. CASE y.isClosing
    <3>1. z = [y EXCEPT !.isClosing = FALSE]
      BY <1>4, <2>1
    <3> QED BY <1>3, <3>1 DEF Thread, ThreadEmptied, ThreadClosed
  <2>2. CASE ~y.isClosing
    <3>1. z = y
      BY <1>4, <2>2
    <3> QED BY <1>3, <2>2, <3>1 DEF ThreadEmptied, ThreadClosed
  <2> QED BY <2>1, <2>2
<1>6. /\ q \in Pool /\ q.inst = r.inst /\ DOMAIN q.threads = DOMAIN r.threads
      /\ q.threads[t] = z
      /\ \A u \in DOMAIN r.threads : u # t => q.threads[u] = r.threads[u]
  <2>1. r \in Pool /\ t \in DOMAIN r.threads
    BY DEF Emptied
  <2>2. CASE y.isClosing
    <3>1. q = SetThread(r, t, z)
      BY <1>2, <1>4, <2>2 DEF StopClosing
    <3>2. z \in Thread
      BY <1>5
    <3> QED BY <2>1, <3>1, <3>2, SetThreadFields
  <2>3. CASE ~y.isClosing
    <3>1. q = r /\ z = y
      BY <1>2, <1>4, <2>3
    <3> QED BY <1>2, <2>1, <3>1
  <2> QED BY <2>2, <2>3
<1>7. LetGo(p, q, t)
  BY <1>1, <1>5, <1>6 DEF Emptied, LetGo
<1> QED BY <1>1, <1>5, <1>6, <1>7 DEF Emptied, ClosedTo

LEMMA EmptiedIsForked ==
  ASSUME NEW p \in Pool, NEW t \in DOMAIN p.threads, NEW r, Emptied(p, r, t),
         \A i \in DOMAIN p.inst :
           i \in p.threads[t].members \cup Again(p, t) => p.inst[i].thread = t,
         Again(p, t) # {}, NEW q, q = Fork(r, t, Again(p, t))
  PROVE  ClosedTo(p, q, t)
<1>1. PICK x : x = p.threads[t]
  OBVIOUS
<1>2. PICK y : y = r.threads[t]
  OBVIOUS
<1>3. PICK z : z = q.threads[t]
  OBVIOUS
<1>4. PICK again : again = Again(p, t)
  OBVIOUS
<1>5. ThreadEmptied(x, y) /\ r \in Pool /\ t \in DOMAIN r.threads
  BY <1>1, <1>2 DEF Emptied
<1>6. /\ q \in Pool
      /\ DOMAIN q.threads = DOMAIN r.threads /\ DOMAIN q.inst = DOMAIN r.inst
      /\ Forked(y, z)
      /\ \A u \in DOMAIN r.threads : u # t => q.threads[u] = r.threads[u]
      /\ \A i \in DOMAIN r.inst :
           /\ SameInst(r.inst[i], q.inst[i])
           /\ SamePromise(r.inst[i], q.inst[i])
           /\ q.inst[i].kill => r.inst[i].kill
           /\ i \in again => q.inst[i].initialized /\ q.inst[i].initGen = y.process + 1
           /\ i \notin again => q.inst[i].initGen = r.inst[i].initGen
           /\ i \in y.members \ again => ~q.inst[i].initialized
           /\ i \notin y.members \cup again => q.inst[i] = r.inst[i]
  BY <1>2, <1>3, <1>4, <1>5, ForkFields
<1>7. ThreadClosed(x, z) /\ z.alive /\ z.process = x.process + 1 /\ z.members = y.members
  BY <1>5, <1>6 DEF ThreadEmptied, Forked, ThreadClosed
<1>8. Renewed(p, q, t)
  <2>1. \A i \in again :
          i \in DOMAIN p.inst => q.inst[i].initialized /\ q.inst[i].initGen = z.process
    BY <1>5, <1>6, <1>7 DEF Emptied, ThreadEmptied
  <2>2. \A i \in DOMAIN p.inst :
          /\ i \notin again => q.inst[i].initGen = p.inst[i].initGen
          /\ i \in z.members \ again => ~q.inst[i].initialized
    BY <1>6, <1>7 DEF Emptied
  <2> QED BY <1>1, <1>3, <1>4, <1>7, <2>1, <2>2 DEF Renewed
<1>9. ASSUME NEW i \in DOMAIN p.inst
      PROVE  /\ SameInst(p.inst[i], q.inst[i])
             /\ SamePromise(p.inst[i], q.inst[i])
             /\ q.inst[i].kill => p.inst[i].kill
             /\ p.inst[i].thread # t => q.inst[i] = p.inst[i]
  <2>1. PICK k : k = r.inst[i]
    OBVIOUS
  <2>2. PICK n : n = q.inst[i]
    OBVIOUS
  <2>3. SameInst(p.inst[i], k) /\ SameInst(k, n)
    BY <1>6, <2>1, <2>2 DEF Emptied
  <2>4. n.kill => p.inst[i].kill
    BY <1>6, <2>1, <2>2 DEF Emptied
  <2>5. ASSUME p.inst[i].thread # t PROVE n = p.inst[i]
    <3>1. i \notin x.members \cup again
      BY <1>1, <1>4, <2>5
    <3>2. i \notin y.members
      BY <1>5, <3>1 DEF ThreadEmptied
    <3> QED BY <1>6, <2>2, <2>5, <3>1, <3>2 DEF Emptied
  <2>6. SamePromise(p.inst[i], q.inst[i])
    BY <1>6 DEF Emptied, SamePromise
  <2> QED BY <2>2, <2>3, <2>4, <2>5, <2>6 DEF SameInst
<1>10. \A u \in DOMAIN p.threads : u # t =>
         /\ Similar(p.threads[u], q.threads[u])
         /\ q.threads[u].registered
              = (p.threads[u].registered /\ ~(p.threads[t].cleanUp /\ SameId(p, t, u)))
  BY <1>6 DEF Emptied
<1>11. DOMAIN q.threads = DOMAIN p.threads /\ DOMAIN q.inst = DOMAIN p.inst
  BY <1>6 DEF Emptied
<1> QED BY <1>1, <1>3, <1>6, <1>7, <1>8, <1>9, <1>10, <1>11 DEF ClosedTo

LEMMA ClosedFields ==
  ASSUME NEW p \in Pool, NEW t \in DOMAIN p.threads, ThreadOk(p, t),
         NEW q, q = Closed(p, t)
  PROVE  ClosedTo(p, q, t)
<1>1. PICK x : x = p.threads[t] /\ x \in Thread
  BY PoolTyped
<1>2. /\ x.cleanUp \/ x.restart # {} => x.isClosing
      /\ \A i \in x.members \cup x.restart : i \in DOMAIN p.inst /\ p.inst[i].thread = t
  BY <1>1 DEF ThreadOk
<1>3. PICK a : a = Lost(p, t)
  OBVIOUS
<1>4. PICK y : y = a.threads[t]
  OBVIOUS
<1>5. /\ a \in Pool
      /\ DOMAIN a.threads = DOMAIN p.threads /\ DOMAIN a.inst = DOMAIN p.inst
      /\ ThreadLost(x, y)
      /\ \A u \in DOMAIN p.threads : u # t => a.threads[u] = p.threads[u]
      /\ \A i \in DOMAIN p.inst :
           /\ SameInst(p.inst[i], a.inst[i])
           /\ SamePromise(p.inst[i], a.inst[i])
           /\ a.inst[i].kill = p.inst[i].kill
           /\ a.inst[i].initialized = p.inst[i].initialized
           /\ a.inst[i].initGen = p.inst[i].initGen
           /\ p.inst[i].thread # t => a.inst[i] = p.inst[i]
  BY <1>1, <1>3, <1>4, LostFields
<1>6. /\ y \in Thread /\ y.registered = x.registered /\ y.name = x.name /\ ~y.alive
      /\ y.isClosing = x.isClosing /\ y.cleanUp = x.cleanUp /\ y.timers = x.timers
      /\ y.process = x.process /\ y.members = x.members /\ y.restart = x.restart
      /\ y.late = x.late /\ y.overlapped = x.overlapped
      /\ y.disputed = x.disputed /\ y.restarted = x.restarted
      /\ x.registered \in BOOLEAN
  BY <1>5 DEF ThreadLost
<1>7. \A u \in DOMAIN p.threads : u # t =>
        /\ Similar(p.threads[u], p.threads[u])
        /\ p.threads[u].registered \in BOOLEAN
        /\ p.threads[u].registered = (p.threads[u].registered /\ TRUE)
  <2> SUFFICES ASSUME NEW u \in DOMAIN p.threads
               PROVE  /\ Similar(p.threads[u], p.threads[u])
                      /\ p.threads[u].registered \in BOOLEAN
                      /\ p.threads[u].registered = (p.threads[u].registered /\ TRUE)
    OBVIOUS
  <2>1. PICK z : z = p.threads[u] /\ z \in Thread
    BY PoolTyped
  <2>2. z.registered \in BOOLEAN
    BY <2>1 DEF Thread
  <2> QED BY <2>1, <2>2 DEF Similar
<1>8. PICK r : r = IF x.cleanUp THEN Cleaned(a, t) ELSE a
  OBVIOUS
<1>9. Emptied(p, r, t)
  <2>1. CASE ~x.cleanUp
    <3>1. r = a
      BY <1>8, <2>1
    <3>2. ThreadEmptied(x, y)
      BY <1>5, <2>1 DEF ThreadLost, ThreadEmptied
    <3> QED BY <1>1, <1>4, <1>5, <1>7, <2>1, <3>1, <3>2 DEF Emptied
  <2>2. CASE x.cleanUp
    <3>1. PICK z : z = r.threads[t]
      OBVIOUS
    <3>2. r = Cleaned(a, t) /\ t \in DOMAIN a.threads
      BY <1>5, <1>8, <2>2
    <3>3. /\ r \in Pool /\ r.inst = a.inst /\ DOMAIN r.threads = DOMAIN a.threads
          /\ ThreadCleaned(y, z)
          /\ \A u \in DOMAIN a.threads : u # t =>
               /\ Similar(a.threads[u], r.threads[u])
               /\ r.threads[u].registered = (a.threads[u].registered /\ ~SameId(a, t, u))
      BY <1>4, <1>5, <3>1, <3>2, CleanedFields
    <3>4. ThreadEmptied(x, z)
      BY <1>5, <2>2, <3>3 DEF ThreadLost, ThreadCleaned, ThreadEmptied
    <3>5. \A u \in DOMAIN p.threads : u # t => (SameId(a, t, u) <=> SameId(p, t, u))
      BY <1>1, <1>4, <1>5, <1>6 DEF SameId
    <3> QED BY <1>1, <1>5, <2>2, <3>1, <3>3, <3>4, <3>5 DEF Emptied
  <2> QED BY <2>1, <2>2
<1>10. PICK again : again = Again(p, t)
  OBVIOUS
<1>11. \A i \in DOMAIN p.inst : i \in x.members \cup again => p.inst[i].thread = t
  BY <1>1, <1>2, <1>10 DEF Again
<1>12. CASE ~x.isClosing
  <2>1. ~x.cleanUp /\ x.restart = {} /\ r = a
    BY <1>2, <1>8, <1>12
  <2>2. q = ChildHasCrashed(a, t)
    BY <1>1, <1>3, <1>12, Zenon DEF Closed
  <2>3. again = {i \in y.members : a.inst[i].config.autoRestart}
    <3>1. \A i \in x.members : a.inst[i].config = p.inst[i].config
      BY <1>2, <1>5 DEF SameInst
    <3> QED BY <1>1, <1>6, <1>10, <1>12, <3>1 DEF Again
  <2>4. q = IF again # {} THEN Fork(a, t, again) ELSE a
    BY <1>4, <1>6, <1>12, <2>2, <2>3, Zenon DEF ChildHasCrashed
  <2>5. CASE again = {}
    BY <1>4, <1>6, <1>9, <1>12, <2>1, <2>4, <2>5, EmptiedIsLetGo
  <2>6. CASE again # {}
    BY <1>1, <1>9, <1>10, <1>11, <2>1, <2>4, <2>6, EmptiedIsForked
  <2> QED BY <2>5, <2>6
<1>13. CASE x.isClosing
  <2>1. ChildHasCrashed(a, t) = a
    BY <1>4, <1>6, <1>13, Zenon DEF ChildHasCrashed
  <2>2. again = x.restart
    BY <1>1, <1>10, <1>13 DEF Again
  <2>3. q = IF again = {} THEN [r EXCEPT !.threads[t].isClosing = FALSE] ELSE Fork(r, t, again)
    BY <1>1, <1>3, <1>8, <1>13, <2>1, <2>2, Zenon DEF Closed, Cleaned
  <2>4. r.threads[t].restart = x.restart /\ r.threads[t].isClosing = x.isClosing
    BY <1>1, <1>9 DEF Emptied, ThreadEmptied
  <2>5. CASE again = {}
    <3>1. q = StopClosing(r, t)
      BY <2>3, <2>5 DEF SetThread, StopClosing
    <3> QED BY <1>9, <1>13, <2>2, <2>4, <2>5, <3>1, EmptiedIsLetGo
  <2>6. CASE again # {}
    BY <1>1, <1>9, <1>10, <1>11, <2>3, <2>6, EmptiedIsForked
  <2> QED BY <2>5, <2>6
<1> QED BY <1>12, <1>13

-----------------------------------------------------------------------------
(***************************************************************************)
(* What the instances of a thread need of it.                              *)
(***************************************************************************)
\* As many units as an instance needs.
LEMMA RowOfUnits ==
  ASSUME NEW i, NEW n \in Nat
  PROVE  IsFiniteSet({i} \X (1..n)) /\ Cardinality({i} \X (1..n)) = n
<1>1. IsFiniteSet(1..n) /\ Cardinality(1..n) = n
  BY FS_Interval
<1>2. IsFiniteSet({i}) /\ Cardinality({i}) = 1
  BY FS_Singleton
<1>3. /\ IsFiniteSet({i} \X (1..n))
      /\ Cardinality({i} \X (1..n)) = Cardinality({i}) * Cardinality(1..n)
  BY <1>1, <1>2, FS_Product
<1>4. 1 * n = n
  OBVIOUS
<1> QED BY <1>1, <1>2, <1>3, <1>4

LEMMA UnitsAreFinite ==
  ASSUME NEW p \in Pool, NEW t \in DOMAIN p.threads
  PROVE  IsFiniteSet(Units(p, t)) /\ Cardinality(Units(p, t)) \in Nat
<1>1. PICK s : s = p.threads[t].members /\ s \in SUBSET Instances
  BY PoolTyped DEF Thread
<1>2. IsFiniteSet(s)
  <2>1. IsFiniteSet(1..MaxInstances)
    BY FS_Interval, ConfigsAssumption
  <2> QED BY <1>1, <2>1, FS_Subset DEF Instances
<1>3. IsFiniteSet(1..Full)
  BY FS_Interval, FullAssumption
<1>4. IsFiniteSet(s \X (1..Full))
  BY <1>2, <1>3, FS_Product
<1>5. Units(p, t) \in SUBSET (s \X (1..Full))
  BY <1>1 DEF Units
<1> QED BY <1>4, <1>5, FS_Subset, FS_CardinalityType

\* The usage of a config, and what an instance of it needs.
LEMMA UsageOfConfig ==
  ASSUME NEW config \in Configs
  PROVE  /\ config.usage \in 0..Full /\ UsageOf(config) \in 1..Full
         /\ config.usage <= UsageOf(config)
         /\ config.usage > 0 => UsageOf(config) = config.usage
<1>1. config.usage \in 0..Full /\ Full \in Nat \ {0}
  BY ConfigsAssumption, FullAssumption
<1> QED BY <1>1 DEF UsageOf

\* The usage of t is kept, and no instance comes to it.
KeepsUsage(p, q, t) ==
  /\ DOMAIN p.inst \subseteq DOMAIN q.inst
  /\ q.threads[t].usage = p.threads[t].usage /\ q.threads[t].name = p.threads[t].name
  /\ q.threads[t].members \subseteq p.threads[t].members
  /\ \A i \in DOMAIN p.inst :
       /\ q.inst[i].config = p.inst[i].config /\ q.inst[i].thread = p.inst[i].thread
       /\ p.inst[i].destroys <= q.inst[i].destroys

KeepUsages(p, q) ==
  /\ q \in Pool /\ DOMAIN q.threads = DOMAIN p.threads
  /\ \A t \in DOMAIN p.threads : KeepsUsage(p, q, t)

\* What was destroyed at most once later was before; what needs its units later
\* needed them before.
LEMMA KeepsUsageFacts ==
  ASSUME NEW p \in Pool, NEW q \in Pool, NEW t \in DOMAIN p.threads, ThreadOk(p, t),
         KeepsUsage(p, q, t)
  PROVE  /\ DestroyedOnceAtMost(q, t) => DestroyedOnceAtMost(p, t)
         /\ Units(q, t) \subseteq Units(p, t)
<1>1. \A i \in DOMAIN p.inst :
        /\ i \in DOMAIN q.inst
        /\ p.inst[i].destroys \in Nat /\ q.inst[i].destroys \in Nat
        /\ p.inst[i].destroys <= q.inst[i].destroys
        /\ q.inst[i].config = p.inst[i].config /\ q.inst[i].thread = p.inst[i].thread
  BY PoolTyped DEF Inst, KeepsUsage
<1>2. ASSUME DestroyedOnceAtMost(q, t), NEW i \in DOMAIN p.inst, p.inst[i].thread = t
      PROVE  p.inst[i].destroys <= 1
  <2>1. q.inst[i].destroys <= 1
    BY <1>1, <1>2 DEF DestroyedOnceAtMost
  <2> QED BY <1>1, <2>1
<1>3. ASSUME NEW u \in Units(q, t) PROVE u \in Units(p, t)
  <2>1. /\ u \in q.threads[t].members \X (1..Full)
        /\ q.inst[u[1]].destroys = 0 /\ u[2] <= UsageOf(q.inst[u[1]].config)
    BY DEF Units
  <2>2. u \in p.threads[t].members \X (1..Full) /\ u[1] \in p.threads[t].members
    BY <2>1 DEF KeepsUsage
  <2>3. u[1] \in DOMAIN p.inst
    BY <2>2 DEF ThreadOk
  <2>4. p.inst[u[1]].destroys = 0 /\ u[2] <= UsageOf(p.inst[u[1]].config)
    BY <1>1, <2>1, <2>3
  <2> QED BY <2>2, <2>4 DEF Units
<1> QED BY <1>2, <1>3 DEF DestroyedOnceAtMost

LEMMA KeepsUsageOk ==
  ASSUME NEW p \in Pool, NEW q \in Pool, NEW t \in DOMAIN p.threads,
         t \in DOMAIN q.threads, ThreadOk(p, t), KeepsUsage(p, q, t), UsageOk(p, t)
  PROVE  UsageOk(q, t)
<1>1. /\ q.threads[t].usage = p.threads[t].usage /\ q.threads[t].name = p.threads[t].name
      /\ p.threads[t].usage \in Int
  BY PoolTyped DEF KeepsUsage, Thread
<1>2. /\ DestroyedOnceAtMost(q, t) => DestroyedOnceAtMost(p, t)
      /\ Units(q, t) \in SUBSET Units(p, t)
  BY KeepsUsageFacts
<1>3. /\ Cardinality(Units(q, t)) <= Cardinality(Units(p, t))
      /\ Cardinality(Units(q, t)) \in Nat /\ Cardinality(Units(p, t)) \in Nat
  BY <1>2, UnitsAreFinite, FS_Subset
<1> QED BY <1>1, <1>2, <1>3 DEF UsageOk

LEMMA KeepUsagesTwice ==
  ASSUME NEW p \in Pool, NEW q, NEW r, KeepUsages(p, q), KeepUsages(q, r)
  PROVE  KeepUsages(p, r)
<1>1. q \in Pool /\ r \in Pool /\ DOMAIN r.threads = DOMAIN p.threads
  BY DEF KeepUsages
<1>2. ASSUME NEW t \in DOMAIN p.threads PROVE KeepsUsage(p, r, t)
  <2>1. KeepsUsage(p, q, t) /\ KeepsUsage(q, r, t)
    BY DEF KeepUsages
  <2>2. ASSUME NEW i \in DOMAIN p.inst
        PROVE  /\ r.inst[i].config = p.inst[i].config /\ r.inst[i].thread = p.inst[i].thread
               /\ p.inst[i].destroys <= r.inst[i].destroys
    <3>1. i \in DOMAIN q.inst /\ i \in DOMAIN r.inst
      BY <2>1 DEF KeepsUsage
    <3>2. /\ p.inst[i].destroys \in Nat /\ q.inst[i].destroys \in Nat
          /\ r.inst[i].destroys \in Nat
      BY <1>1, <3>1, PoolTyped DEF Inst
    <3>3. p.inst[i].destroys <= q.inst[i].destroys /\ q.inst[i].destroys <= r.inst[i].destroys
      BY <2>1, <3>1 DEF KeepsUsage
    <3>4. p.inst[i].destroys <= r.inst[i].destroys
      BY <3>2, <3>3
    <3> QED BY <2>1, <3>1, <3>4 DEF KeepsUsage
  <2> QED BY <2>1, <2>2 DEF KeepsUsage
<1> QED BY <1>1, <1>2 DEF KeepUsages

\* The threads and the instances that are left as they are.
LEMMA KeepsUsageSame ==
  ASSUME NEW p \in Pool, NEW q \in Pool, NEW t \in DOMAIN p.threads,
         DOMAIN q.inst = DOMAIN p.inst,
         q.threads[t].usage = p.threads[t].usage, q.threads[t].name = p.threads[t].name,
         q.threads[t].members \subseteq p.threads[t].members,
         \A i \in DOMAIN p.inst : q.inst[i] = p.inst[i] \/ SameInst(p.inst[i], q.inst[i])
  PROVE  KeepsUsage(p, q, t)
<1>1. ASSUME NEW i \in DOMAIN p.inst
      PROVE  /\ q.inst[i].config = p.inst[i].config /\ q.inst[i].thread = p.inst[i].thread
             /\ p.inst[i].destroys <= q.inst[i].destroys
  <2>1. p.inst[i].destroys \in Nat /\ p.inst[i].destroys <= p.inst[i].destroys
    BY PoolTyped DEF Inst
  <2>2. /\ q.inst[i].config = p.inst[i].config /\ q.inst[i].thread = p.inst[i].thread
        /\ q.inst[i].destroys = p.inst[i].destroys
    BY DEF SameInst
  <2> QED BY <2>1, <2>2
<1> QED BY <1>1 DEF KeepsUsage

\* A step that replaces one thread.
LEMMA SetThreadKeeps ==
  ASSUME NEW p \in Pool, NEW t \in DOMAIN p.threads, NEW x, x = p.threads[t],
         NEW y \in Thread, y.usage = x.usage, y.name = x.name, y.members \subseteq x.members,
         NEW q, q = SetThread(p, t, y)
  PROVE  KeepUsages(p, q)
<1>1. /\ q \in Pool /\ q.inst = p.inst /\ DOMAIN q.threads = DOMAIN p.threads
      /\ q.threads[t] = y
      /\ \A u \in DOMAIN p.threads : u # t => q.threads[u] = p.threads[u]
  BY SetThreadFields
<1>2. ASSUME NEW u \in DOMAIN p.threads PROVE KeepsUsage(p, q, u)
  <2>1. /\ q.threads[u].usage = p.threads[u].usage /\ q.threads[u].name = p.threads[u].name
        /\ q.threads[u].members \subseteq p.threads[u].members
    BY <1>1
  <2> QED BY <1>1, <2>1, KeepsUsageSame
<1> QED BY <1>1, <1>2 DEF KeepUsages

\* A step that replaces one instance.
LEMMA SetInstKeeps ==
  ASSUME NEW p \in Pool, NEW i \in DOMAIN p.inst, NEW k, k = p.inst[i],
         NEW n \in Inst, n.config = k.config, n.thread = k.thread, k.destroys <= n.destroys,
         NEW q, q = SetInst(p, i, n)
  PROVE  KeepUsages(p, q)
<1>1. /\ q \in Pool /\ q.threads = p.threads /\ DOMAIN q.inst = DOMAIN p.inst
      /\ q.inst[i] = n
      /\ \A j \in DOMAIN p.inst : j # i => q.inst[j] = p.inst[j]
  BY SetInstFields
<1>2. ASSUME NEW j \in DOMAIN p.inst
      PROVE  /\ q.inst[j].config = p.inst[j].config /\ q.inst[j].thread = p.inst[j].thread
             /\ p.inst[j].destroys <= q.inst[j].destroys
  <2>1. p.inst[j].destroys \in Nat /\ p.inst[j].destroys <= p.inst[j].destroys
    BY PoolTyped DEF Inst
  <2> QED BY <1>1, <2>1
<1> QED BY <1>1, <1>2 DEF KeepUsages, KeepsUsage

\* y is x, which may have been removed from _children.
LEMMA SimilarKeeps ==
  ASSUME NEW p \in Pool, NEW q \in Pool, DOMAIN q.threads = DOMAIN p.threads,
         q.inst = p.inst, \A u \in DOMAIN p.threads : Similar(p.threads[u], q.threads[u])
  PROVE  KeepUsages(p, q)
<1>1. ASSUME NEW u \in DOMAIN p.threads PROVE KeepsUsage(p, q, u)
  <2>1. /\ q.threads[u].usage = p.threads[u].usage /\ q.threads[u].name = p.threads[u].name
        /\ q.threads[u].members \subseteq p.threads[u].members
    BY DEF Similar
  <2> QED BY <2>1, KeepsUsageSame
<1> QED BY <1>1 DEF KeepUsages

\* A close event.
LEMMA ClosedKeeps ==
  ASSUME NEW p \in Pool, NEW t \in DOMAIN p.threads, NEW q, ClosedTo(p, q, t)
  PROVE  KeepUsages(p, q)
<1>1. /\ q \in Pool /\ DOMAIN q.threads = DOMAIN p.threads /\ DOMAIN q.inst = DOMAIN p.inst
      /\ \A i \in DOMAIN p.inst : SameInst(p.inst[i], q.inst[i])
  BY DEF ClosedTo
<1>2. ASSUME NEW u \in DOMAIN p.threads PROVE KeepsUsage(p, q, u)
  <2>1. /\ q.threads[u].usage = p.threads[u].usage /\ q.threads[u].name = p.threads[u].name
        /\ q.threads[u].members \subseteq p.threads[u].members
    <3>1. CASE u = t
      <4>1. ThreadClosed(p.threads[u], q.threads[u])
        BY <3>1 DEF ClosedTo
      <4> QED BY <4>1 DEF ThreadClosed
    <3>2. CASE u # t
      <4>1. Similar(p.threads[u], q.threads[u])
        BY <3>2 DEF ClosedTo
      <4> QED BY <4>1 DEF Similar
    <3> QED BY <3>1, <3>2
  <2> QED BY <1>1, <2>1, KeepsUsageSame
<1> QED BY <1>1, <1>2 DEF KeepUsages

-----------------------------------------------------------------------------
(***************************************************************************)
(* The steps of a thread.                                                  *)
(***************************************************************************)
LEMMA ClosedGood ==
  ASSUME NEW p, NEW m, Good(p, m), NEW t \in Threads(p), p.threads[t].alive,
         NEW q, q = Closed(p, t)
  PROVE  Good(q, m) /\ DOMAIN q.inst = DOMAIN p.inst /\ KeepUsages(p, q)
<1>1. p \in Pool /\ t \in DOMAIN p.threads /\ ThreadOk(p, t)
  BY DEF Good, Threads
<1>2. ClosedTo(p, q, t)
  BY <1>1, ClosedFields
<1>3. PICK x : x = p.threads[t] /\ x \in Thread
  BY <1>1, PoolTyped
<1>4. PICK y : y = q.threads[t]
  OBVIOUS
<1>5. ThreadClosed(x, y)
  BY <1>2, <1>3, <1>4 DEF ClosedTo
<1>6. /\ \A i \in x.members \cup x.restart : i \in DOMAIN p.inst /\ p.inst[i].thread = t
      /\ x.process > 0
      /\ x.timers > 0 => x.cleanUp
      /\ x.cleanUp \/ x.restart # {} => x.alive /\ x.isClosing
      /\ x.restart # {} /\ x.cleanUp => x.disputed
      /\ x.late => ~x.registered /\ (x.cleanUp \/ ~x.alive \/ x.disputed)
      /\ (x.registered /\ \A i \in x.members : p.inst[i].detaching) => x.overlapped
  BY <1>1, <1>3 DEF ThreadOk
<1>7. \A i \in DOMAIN p.inst : SameInst(p.inst[i], q.inst[i])
  BY <1>2 DEF ClosedTo
<1>8. x.process \in Nat /\ y.process \in {x.process, x.process + 1}
  <2>1. x.process \in Nat
    BY <1>3 DEF Thread
  <2> QED BY <1>2, <1>3, <1>4, <2>1 DEF ClosedTo, LetGo, Renewed
<1>14. x.alive /\ (x.cleanUp /\ y.alive => y.disputed)
  <2>1. ASSUME x.cleanUp, y.alive PROVE y.disputed
    <3>1. Renewed(p, q, t)
      BY <1>2, <1>4, <2>1 DEF ClosedTo, LetGo
    <3>2. x.restart # {}
      BY <1>3, <1>6, <2>1, <3>1 DEF Renewed, Again
    <3> QED BY <1>5, <1>6, <2>1, <3>2 DEF ThreadClosed
  <2> QED BY <1>3, <2>1
<1>9. Frame(p, q, t)
  <2>1. y.name = x.name /\ y.late = x.late /\ (y.registered => x.registered)
    BY <1>5 DEF ThreadClosed
  <2>2. \A u \in DOMAIN p.threads :
          /\ q.threads[u].name = p.threads[u].name
          /\ q.threads[u].registered => p.threads[u].registered
          /\ p.threads[u].late => q.threads[u].late
          /\ u # t => Similar(p.threads[u], q.threads[u])
    BY <1>2, <1>3, <1>4, <2>1 DEF ClosedTo, Similar
  <2>3. \A i \in DOMAIN p.inst :
          /\ q.inst[i].thread = p.inst[i].thread
          /\ p.inst[i].thread # t => q.inst[i] = p.inst[i]
    BY <1>2, <1>7 DEF ClosedTo, SameInst
  <2> QED BY <1>2, <2>2, <2>3 DEF ClosedTo, Frame
<1>10. ThreadOk(q, t)
  <2>1. \A i \in y.members \cup y.restart : i \in DOMAIN q.inst /\ q.inst[i].thread = t
    BY <1>2, <1>5, <1>6, <1>7 DEF ThreadClosed, ClosedTo, SameInst
  <2>2. y.process > 0
    BY <1>6, <1>8
  <2>3. y.timers > 0 => y.cleanUp
    BY <1>5, <1>6 DEF ThreadClosed
  <2>4. y.cleanUp \/ y.restart # {} => y.alive /\ y.isClosing
    BY <1>5 DEF ThreadClosed
  <2>5. y.late => ~y.registered /\ (y.cleanUp \/ ~y.alive \/ y.disputed)
    BY <1>5, <1>6, <1>14 DEF ThreadClosed
  <2>6. (y.registered /\ \A i \in y.members : q.inst[i].detaching) => y.overlapped
    BY <1>5, <1>6, <1>7 DEF ThreadClosed, SameInst
  <2>7. y.restart # {} /\ y.cleanUp => y.disputed
    BY <1>5 DEF ThreadClosed
  <2> QED BY <1>4, <2>1, <2>2, <2>3, <2>4, <2>5, <2>6, <2>7 DEF ThreadOk
<1>11. ASSUME NEW i \in DOMAIN p.inst, p.inst[i].thread = t PROVE InstOk(q, m, i)
  <2>1. PICK k : k = p.inst[i] /\ k \in Inst
    BY <1>1, PoolTyped
  <2>2. PICK n : n = q.inst[i]
    OBVIOUS
  <2>3. /\ SameInst(k, n) /\ SamePromise(k, n) /\ (n.kill => k.kill)
        /\ k.thread = t
    BY <1>2, <1>11, <2>1, <2>2 DEF ClosedTo
  <2>4. LoopOk(x, k, m[i], i) /\ (Counts(p, i) => InProcess(x, k, i))
    BY <1>3, <1>11, <2>1 DEF Good, InstOk
  <2>5. n.thread = t /\ n.destroys = k.destroys /\ n.detaching = k.detaching
        /\ n.config = k.config /\ y.members \subseteq x.members /\ y.restart = {}
    BY <1>5, <2>3 DEF SameInst, ThreadClosed
  <2>6. Counts(q, i) => Counts(p, i) /\ i \in x.members /\ i \in y.members
    BY <1>3, <1>4, <2>1, <2>2, <2>3, <2>5 DEF Counts, SamePromise
  <2>7. /\ k.initGen \in Nat
        /\ n.initGen <= y.process
        /\ Counts(q, i) => InProcess(y, n, i)
    <3>1. k.initGen \in Nat /\ k.initGen <= x.process
      BY <2>1, <2>4 DEF Inst, LoopOk
    <3>2. CASE LetGo(p, q, t)
      <4>1. /\ ~CanSend(y) /\ y.process = x.process
            /\ n.initialized = k.initialized /\ n.initGen = k.initGen
        BY <1>3, <1>4, <2>1, <2>2, <3>2 DEF LetGo, CanSend
      <4>2. y.restarted = x.restarted
        BY <1>5 DEF ThreadClosed
      <4>3. Counts(q, i) => InProcess(y, n, i)
        BY <2>4, <2>5, <2>6, <4>1, <4>2 DEF InProcess
      <4> QED BY <3>1, <4>1, <4>3
    <3>3. CASE Renewed(p, q, t)
      <4>1. y.process = x.process + 1 /\ y.restarted = x.restarted
        BY <1>3, <1>4, <1>5, <3>3 DEF Renewed, ThreadClosed
      <4>2. CASE i \in Again(p, t)
        <5>1. n.initialized /\ n.initGen = y.process
          BY <1>4, <2>2, <3>3, <4>2 DEF Renewed
        <5> QED BY <1>8, <2>5, <3>1, <4>1, <5>1 DEF InProcess
      <4>3. CASE i \notin Again(p, t)
        <5>1. n.initGen = k.initGen /\ n.initGen <= y.process /\ n.initGen # y.process
          BY <1>4, <1>8, <2>1, <2>2, <3>1, <3>3, <4>1, <4>3 DEF Renewed
        <5>2. ASSUME Counts(q, i), n.config.autoRestart PROVE y.restarted
          <6>1. CASE x.isClosing
            <7>1. i \notin x.restart /\ x.restart # {}
              BY <1>3, <3>3, <4>3, <6>1 DEF Again, Renewed
            <7> QED BY <2>4, <2>5, <2>6, <4>1, <5>2, <7>1 DEF InProcess
          <6>2. CASE ~x.isClosing
            <7>1. Again(p, t) = {j \in x.members : p.inst[j].config.autoRestart}
              BY <1>3, <6>2 DEF Again
            <7> QED BY <2>1, <2>5, <2>6, <4>3, <5>2, <7>1
          <6> QED BY <6>1, <6>2
        <5>3. Counts(q, i) => ~n.initialized
          BY <1>4, <2>2, <2>6, <3>3, <4>3 DEF Renewed
        <5> QED BY <2>5, <3>1, <5>1, <5>2, <5>3 DEF InProcess
      <4> QED BY <4>2, <4>3
    <3> QED BY <1>2, <3>2, <3>3 DEF ClosedTo
  <2>8. LoopOk(y, n, m[i], i)
    BY <2>3, <2>4, <2>5, <2>7 DEF LoopOk, SamePromise
  <2> QED BY <1>4, <2>2, <2>5, <2>7, <2>8 DEF InstOk
<1>12. ASSUME NEW u \in Threads(p), Stray(q.threads[u])
       PROVE  \/ Stray(p.threads[u])
              \/ \E w \in Threads(p) : SameId(p, u, w) /\ q.threads[w].late
  <2>1. CASE u = t
    <3>1. y.alive /\ ~y.registered /\ ~y.cleanUp /\ ~y.disputed
      BY <1>4, <1>5, <1>12, <2>1 DEF ThreadClosed, Stray
    <3>2. ~x.cleanUp /\ ~x.registered /\ ~x.disputed
      BY <1>5, <1>14, <3>1 DEF ThreadClosed
    <3> QED BY <1>3, <1>14, <2>1, <3>2 DEF Stray
  <2>2. CASE u # t
    <3>1. /\ Similar(p.threads[u], q.threads[u])
          /\ q.threads[u].registered
               = (p.threads[u].registered /\ ~(x.cleanUp /\ SameId(p, t, u)))
      BY <1>2, <1>3, <2>2 DEF ClosedTo, Threads
    <3>2. /\ p.threads[u].alive /\ ~q.threads[u].registered
          /\ ~p.threads[u].disputed \/ p.threads[u].cleanUp
      BY <1>12, <3>1 DEF Similar, Stray
    <3>3. CASE ~p.threads[u].registered
      BY <3>2, <3>3 DEF Stray
    <3>4. CASE p.threads[u].registered
      <4>1. x.cleanUp /\ SameId(p, t, u)
        BY <3>1, <3>2, <3>4
      <4>2. ~x.registered
        BY <1>3, <2>2, <3>4, <4>1 DEF Good, OneRegistered
      <4>3. PICK w \in Threads(p) : SameId(p, t, w) /\ p.threads[w].late
        BY <1>3, <1>14, <4>1, <4>2 DEF Good, LostToLate, Stray
      <4>4. SameId(p, u, w)
        BY <4>1, <4>3 DEF SameId
      <4>5. q.threads[w].late
        BY <1>9, <4>3 DEF Frame, Threads
      <4> QED BY <4>4, <4>5
    <3> QED BY <3>3, <3>4
  <2> QED BY <2>1, <2>2
<1>13. Good(q, m)
  BY <1>9, <1>10, <1>11, <1>12, StepGood
<1> QED BY <1>1, <1>2, <1>13, ClosedKeeps DEF ClosedTo

LEMMA SimilarSelf ==
  ASSUME NEW x \in Thread
  PROVE  Similar(x, x)
BY DEF Similar

\* A step that replaces one thread.
LEMMA ThreadStepGood ==
  ASSUME NEW p, NEW m, Good(p, m), NEW t \in Threads(p), NEW x, x = p.threads[t],
         NEW y \in Thread, y.name = x.name, y.registered => x.registered, x.late => y.late,
         NEW q, q = SetThread(p, t, y), ThreadOk(q, t),
         \A i \in DOMAIN p.inst : p.inst[i].thread = t => InstOk(q, m, i),
         Stray(y) => y.late \/ Stray(x)
  PROVE  Good(q, m) /\ q.inst = p.inst /\ q.threads[t] = y
<1>1. p \in Pool /\ t \in DOMAIN p.threads
  BY DEF Good, Threads
<1>2. /\ q \in Pool /\ q.inst = p.inst /\ DOMAIN q.threads = DOMAIN p.threads
      /\ q.threads[t] = y
      /\ \A u \in DOMAIN p.threads : u # t => q.threads[u] = p.threads[u]
  BY <1>1, SetThreadFields
<1>3. \A u \in DOMAIN p.threads : u # t => Similar(p.threads[u], q.threads[u])
  BY <1>1, <1>2, PoolTyped, SimilarSelf
<1>4. Frame(p, q, t)
  <2>1. \A u \in DOMAIN p.threads :
          /\ q.threads[u].name = p.threads[u].name
          /\ q.threads[u].registered => p.threads[u].registered
          /\ p.threads[u].late => q.threads[u].late
    BY <1>2
  <2> QED BY <1>2, <1>3, <2>1 DEF Frame
<1>5. ASSUME NEW u \in Threads(p), Stray(q.threads[u])
      PROVE  \/ Stray(p.threads[u])
             \/ \E w \in Threads(p) : SameId(p, u, w) /\ q.threads[w].late
  <2>1. SameId(p, u, u)
    BY DEF SameId
  <2> QED BY <1>2, <1>5, <2>1 DEF Threads
<1>6. Good(q, m)
  BY <1>4, <1>5, StepGood
<1> QED BY <1>2, <1>6

\* A step that replaces one instance.
LEMMA InstStepGood ==
  ASSUME NEW p, NEW m, Good(p, m), NEW i \in DOMAIN p.inst, NEW k, k = p.inst[i],
         NEW n \in Inst, n.thread = k.thread, n.config = k.config,
         n.initialized = k.initialized, n.initGen = k.initGen,
         n.kill \/ n.detaching => n.destroys > 0,
         n.destroys >= k.destroys,
         n.init = "create" => n.promise = "pending",
         n.promise # "rejected" => k.promise # "rejected",
         k.promise = "resolved" => n.promise = "resolved",
         n.detaching =>
           \/ k.detaching \/ p.threads[k.thread].overlapped
           \/ \E j \in p.threads[k.thread].members \ {i} : ~p.inst[j].detaching,
         NEW q, q = SetInst(p, i, n)
  PROVE  Good(q, m) /\ q.threads = p.threads /\ q.inst[i] = n /\ DOMAIN q.inst = DOMAIN p.inst
         /\ \A j \in DOMAIN p.inst : j # i => q.inst[j] = p.inst[j]
<1>1. PICK t : t = k.thread
  OBVIOUS
<1>2. PICK x : x = p.threads[t]
  OBVIOUS
<1>3. p \in Pool /\ t \in Threads(p) /\ t \in DOMAIN p.threads /\ ThreadOk(p, t)
      /\ k \in Inst /\ \A u \in DOMAIN p.threads : p.threads[u] \in Thread
  BY <1>1, PoolTyped DEF Good, Threads
<1>4. /\ q \in Pool /\ q.threads = p.threads /\ DOMAIN q.inst = DOMAIN p.inst
      /\ q.inst[i] = n
      /\ \A j \in DOMAIN p.inst : j # i => q.inst[j] = p.inst[j]
  BY <1>3, SetInstFields
<1>5. Frame(p, q, t)
  <2>1. \A u \in DOMAIN p.threads : Similar(p.threads[u], q.threads[u])
    BY <1>3, <1>4, SimilarSelf
  <2>2. \A j \in DOMAIN p.inst :
          /\ q.inst[j].thread = p.inst[j].thread
          /\ p.inst[j].thread # t => q.inst[j] = p.inst[j]
    BY <1>1, <1>4
  <2> QED BY <1>4, <2>1, <2>2 DEF Frame
<1>6. ThreadOk(q, t)
  <2>1. \A j \in x.members \cup x.restart : j \in DOMAIN q.inst /\ q.inst[j].thread = t
    BY <1>1, <1>2, <1>3, <1>4 DEF ThreadOk
  <2>2. (x.registered /\ \A j \in x.members : q.inst[j].detaching) => x.overlapped
    <3>1. (x.registered /\ \A j \in x.members : p.inst[j].detaching) => x.overlapped
      BY <1>2, <1>3 DEF ThreadOk
    <3>2. \A j \in x.members : j \in DOMAIN p.inst
      BY <1>2, <1>3 DEF ThreadOk
    <3> QED BY <1>1, <1>2, <1>4, <3>1, <3>2
  <2>3. /\ x.process > 0
        /\ x.timers > 0 => x.cleanUp
        /\ x.cleanUp \/ x.restart # {} => x.alive /\ x.isClosing
        /\ x.restart # {} /\ x.cleanUp => x.disputed
        /\ x.late => ~x.registered /\ (x.cleanUp \/ ~x.alive \/ x.disputed)
    BY <1>2, <1>3 DEF ThreadOk
  <2>4. q.threads[t] = x
    BY <1>2, <1>4
  <2> QED BY <2>1, <2>2, <2>3, <2>4 DEF ThreadOk
<1>7. ASSUME NEW j \in DOMAIN p.inst, p.inst[j].thread = t PROVE InstOk(q, m, j)
  <2>1. InstOk(p, m, j)
    BY DEF Good
  <2>2. CASE j # i
    <3>1. q.inst[j] = p.inst[j] /\ (Counts(q, j) <=> Counts(p, j))
      BY <1>4, <2>2 DEF Counts
    <3> QED BY <1>4, <2>1, <3>1 DEF InstOk
  <2>3. CASE j = i
    <3>1. k.destroys \in Nat /\ n.destroys \in Nat
      BY <1>3 DEF Inst
    <3>3. k.destroys > 0 => n.destroys > 0
      BY <3>1
    <3>4. Counts(q, i) => Counts(p, i)
      BY <1>1, <1>4 DEF Counts
    <3>5. LoopOk(x, k, m[i], i) /\ (Counts(p, i) => InProcess(x, k, i))
      BY <1>1, <1>2, <2>1, <2>3 DEF InstOk
    <3>6. q.threads[n.thread] = x /\ q.inst[i] = n
      BY <1>1, <1>2, <1>4
    <3>7. LoopOk(x, n, m[i], i)
      BY <3>3, <3>5 DEF LoopOk
    <3>8. InProcess(x, k, i) => InProcess(x, n, i)
      BY DEF InProcess
    <3> QED BY <2>3, <3>4, <3>5, <3>6, <3>7, <3>8 DEF InstOk
  <2> QED BY <2>2, <2>3
<1>8. \A u \in Threads(p) : Stray(q.threads[u]) => Stray(p.threads[u])
  BY <1>4
<1>9. Good(q, m)
  BY <1>3, <1>5, <1>6, <1>7, <1>8, StepGood
<1> QED BY <1>4, <1>9

\* A step of the loops only.
LEMMA MonitorStepGood ==
  ASSUME NEW p, NEW m, Good(p, m), NEW n,
         \A i \in DOMAIN p.inst :
           LoopOk(p.threads[p.inst[i].thread], p.inst[i], n[i], i)
  PROVE  Good(p, n)
<1>1. ASSUME NEW i \in DOMAIN p.inst PROVE InstOk(p, n, i)
  BY DEF Good, InstOk
<1> QED BY <1>1 DEF Good

\* An instance whose thread keeps its process, with what waits for its close.
LEMMA InstStays ==
  ASSUME NEW p, NEW q, NEW m, NEW t, NEW i, p.inst[i].thread = t, q.inst[i] = p.inst[i],
         InstOk(p, m, i), NEW x, x = p.threads[t], NEW y, y = q.threads[t],
         y.process = x.process, y.members \subseteq x.members, y.restart = x.restart,
         x.restarted => y.restarted, CanSend(y) => CanSend(x)
  PROVE  InstOk(q, m, i)
<1>1. PICK k : k = p.inst[i]
  OBVIOUS
<1>2. LoopOk(x, k, m[i], i) /\ (Counts(p, i) => InProcess(x, k, i))
  BY <1>1 DEF InstOk
<1>3. q.inst[i] = k /\ q.threads[k.thread] = y /\ (Counts(q, i) => Counts(p, i))
  BY <1>1 DEF Counts
<1>4. LoopOk(y, k, m[i], i)
  BY <1>2 DEF LoopOk
<1>5. InProcess(x, k, i) => InProcess(y, k, i)
  BY DEF InProcess
<1> QED BY <1>2, <1>3, <1>4, <1>5 DEF InstOk

\* A live child that is told to terminate.
Told(x, restart, cleanUp) ==
  [x EXCEPT !.isClosing = TRUE, !.restart = @ \cup restart, !.cleanUp = @ \/ cleanUp,
            !.timers = IF cleanUp THEN @ + 1 ELSE @,
            !.disputed = @ \/ (x.restart \cup restart # {} /\ (x.cleanUp \/ cleanUp))]

ToldToRestart(x, restart) == Told(x, restart, FALSE)
ToldToGo(x) == Told(x, {}, TRUE)

ToldAs(x, y, restart) ==
  /\ y \in Thread /\ y.isClosing /\ y.restart = x.restart \cup restart
  /\ y.name = x.name /\ y.registered = x.registered /\ y.alive = x.alive
  /\ y.process = x.process /\ y.members = x.members /\ y.usage = x.usage
  /\ y.late = x.late /\ y.overlapped = x.overlapped
  /\ x.disputed => y.disputed
  /\ y.restart # {} /\ y.cleanUp => y.disputed
  /\ y.restarted = x.restarted

LEMMA ToldCleanUp ==
  ASSUME NEW x \in Thread, NEW y, y = ToldToGo(x)
  PROVE  ToldAs(x, y, {}) /\ y.cleanUp
<1>1. x.timers \in Nat /\ x.timers + 1 \in Nat
  BY DEF Thread
<1>2. y = [x EXCEPT !.isClosing = TRUE, !.restart = x.restart \cup {},
                    !.cleanUp = TRUE, !.timers = x.timers + 1,
                    !.disputed = x.disputed \/ x.restart \cup {} # {}]
  BY DEF Told, ToldToGo
<1> QED BY <1>1, <1>2, ZenonT(30) DEF Thread, ToldAs

LEMMA ToldRestart ==
  ASSUME NEW x \in Thread, NEW restart \in SUBSET Instances,
         NEW y, y = ToldToRestart(x, restart)
  PROVE  ToldAs(x, y, restart) /\ y.cleanUp = x.cleanUp /\ y.timers = x.timers
<1>1. x.cleanUp \in BOOLEAN /\ x.timers \in Nat
  BY DEF Thread
<1>2. y = [x EXCEPT !.isClosing = TRUE, !.restart = x.restart \cup restart,
                    !.cleanUp = x.cleanUp, !.timers = x.timers,
                    !.disputed = x.disputed \/ (x.restart \cup restart # {} /\ x.cleanUp)]
  BY <1>1 DEF Told, ToldToRestart
<1> QED BY <1>1, <1>2, ZenonT(30) DEF Thread, ToldAs

LEMMA KillToRestartIs ==
  ASSUME NEW p, NEW t, NEW restart, NEW y, y = ToldToRestart(p.threads[t], restart)
  PROVE  KillAlive(p, t, restart, FALSE) = SetThread(p, t, y)
BY DEF KillAlive, SetThread, Told, ToldToRestart

LEMMA KillToGoIs ==
  ASSUME NEW p, NEW t, NEW y, y = ToldToGo(p.threads[t])
  PROVE  KillAlive(p, t, {}, TRUE) = SetThread(p, t, y)
BY DEF KillAlive, SetThread, Told, ToldToGo

LEMMA MembersAreInstances ==
  ASSUME NEW p \in Pool, NEW t \in DOMAIN p.threads
  PROVE  p.threads[t].members \in SUBSET Instances
BY PoolTyped DEF Thread

\* Instances of a thread that may be restarted together: only restart() leaves out
\* one that restarts automatically.
MayRestart(p, t, targets) ==
  /\ targets \in SUBSET p.threads[t].members
  /\ \/ \A i \in p.threads[t].members : p.inst[i].config.autoRestart => i \in targets
     \/ p.threads[t].restarted

\* A thread is killed to be restarted.
LEMMA KillToRestartGood ==
  ASSUME NEW p, NEW m, Good(p, m), NEW t \in Threads(p), p.threads[t].alive,
         NEW targets, MayRestart(p, t, targets), NEW q, q = KillAlive(p, t, targets, FALSE)
  PROVE  /\ Good(q, m) /\ q.inst = p.inst /\ KeepUsages(p, q)
         /\ q.threads[t].isClosing
<1>1. PICK x : x = p.threads[t]
  OBVIOUS
<1>3. /\ p \in Pool /\ t \in DOMAIN p.threads /\ x \in Thread /\ ThreadOk(p, t)
      /\ targets \in SUBSET Instances /\ targets \in SUBSET x.members /\ x.alive
  BY <1>1, PoolTyped, MembersAreInstances DEF Good, Threads, MayRestart
<1>4. PICK y : y = ToldToRestart(x, targets)
  OBVIOUS
<1>5. q = SetThread(p, t, y)
  BY <1>1, <1>4, KillToRestartIs, Zenon
<1>6. /\ y \in Thread /\ y.isClosing /\ y.restart = x.restart \cup targets
      /\ y.cleanUp <=> x.cleanUp
      /\ y.timers > 0 => x.timers > 0
      /\ y.name = x.name /\ y.registered = x.registered /\ y.alive = x.alive
      /\ y.process = x.process /\ y.members = x.members
      /\ y.late = x.late /\ y.overlapped = x.overlapped /\ y.usage = x.usage
      /\ x.disputed => y.disputed
      /\ y.restart # {} /\ y.cleanUp => y.disputed
      /\ y.restarted = x.restarted
  <2>1. x \in Thread /\ targets \in SUBSET Instances
    BY <1>3
  <2>2. ToldAs(x, y, targets) /\ y.cleanUp = x.cleanUp /\ y.timers = x.timers
    BY <1>4, <2>1, ToldRestart
  <2> QED BY <2>2 DEF ToldAs
<1>7. q.threads[t] = y /\ q.inst = p.inst
  BY <1>3, <1>5, <1>6, SetThreadFields
<1>8. /\ \A i \in x.members \cup x.restart : i \in DOMAIN p.inst /\ p.inst[i].thread = t
      /\ x.process > 0
      /\ x.timers > 0 => x.cleanUp
      /\ x.cleanUp \/ x.restart # {} => x.alive /\ x.isClosing
      /\ x.late => ~x.registered /\ (x.cleanUp \/ ~x.alive \/ x.disputed)
      /\ (x.registered /\ \A i \in x.members : p.inst[i].detaching) => x.overlapped
  BY <1>1, <1>3 DEF ThreadOk
<1>9. ThreadOk(q, t)
  <2>1. \A i \in y.members \cup y.restart : i \in DOMAIN q.inst /\ q.inst[i].thread = t
    BY <1>3, <1>6, <1>7, <1>8
  <2>2. /\ y.process > 0
        /\ y.timers > 0 => y.cleanUp
        /\ y.cleanUp \/ y.restart # {} => y.alive /\ y.isClosing
        /\ (y.registered /\ \A i \in y.members : q.inst[i].detaching) => y.overlapped
    BY <1>3, <1>6, <1>7, <1>8
  <2>3. /\ y.restart # {} /\ y.cleanUp => y.disputed
        /\ y.late => ~y.registered /\ (y.cleanUp \/ ~y.alive \/ y.disputed)
    BY <1>6, <1>8
  <2> QED BY <1>7, <2>1, <2>2, <2>3 DEF ThreadOk
<1>10. ASSUME NEW i \in DOMAIN p.inst, p.inst[i].thread = t PROVE InstOk(q, m, i)
  <2>1. PICK k : k = p.inst[i]
    OBVIOUS
  <2>2. LoopOk(x, k, m[i], i) /\ (Counts(p, i) => InProcess(x, k, i) /\ i \in x.members)
    BY <1>1, <1>10, <2>1 DEF Good, InstOk, Counts
  <2>3. q.inst[i] = k /\ q.threads[k.thread] = y /\ (Counts(q, i) => Counts(p, i))
    BY <1>1, <1>6, <1>7, <1>10, <2>1 DEF Counts
  <2>4. LoopOk(y, k, m[i], i)
    BY <1>6, <2>2 DEF LoopOk
  <2>5. ~CanSend(y)
    BY <1>6 DEF CanSend
  <2>6. i \in x.members /\ k.config.autoRestart => i \in y.restart \/ y.restarted
    BY <1>1, <1>6, <2>1 DEF MayRestart
  <2>7. Counts(p, i) => InProcess(y, k, i)
    BY <1>6, <2>2, <2>5, <2>6 DEF InProcess
  <2> QED BY <2>3, <2>4, <2>7 DEF InstOk
<1>11. Good(q, m)
  <2>1. Stray(y) => Stray(x)
    BY <1>6 DEF Stray
  <2>2. y \in Thread /\ y.name = x.name /\ (y.registered => x.registered) /\ (x.late => y.late)
    BY <1>6
  <2>3. \A i \in DOMAIN p.inst : p.inst[i].thread = t => InstOk(q, m, i)
    BY <1>10
  <2>4. PICK r : r = SetThread(p, t, y)
    OBVIOUS
  <2>5. ThreadOk(r, t) /\ \A i \in DOMAIN p.inst : p.inst[i].thread = t => InstOk(r, m, i)
    BY <1>5, <1>9, <2>3, <2>4
  <2>6. Good(r, m)
    BY <1>1, <2>1, <2>2, <2>4, <2>5, ThreadStepGood
  <2> QED BY <1>5, <2>4, <2>6
<1>12. KeepUsages(p, q)
  BY <1>1, <1>3, <1>5, <1>6, SetThreadKeeps
<1> QED BY <1>6, <1>7, <1>11, <1>12

\* A ping that fails kills the thread; the instances that restart automatically
\* are restarted.
LEMMA CrashKillsGood ==
  ASSUME NEW p, NEW m, Good(p, m), NEW t \in Threads(p), CanSend(p.threads[t]),
         NEW q, q = ChildHasCrashed(p, t)
  PROVE  /\ Good(q, m) /\ q.inst = p.inst /\ KeepUsages(p, q)
         /\ q.threads[t].isClosing
<1>1. PICK x : x = p.threads[t]
  OBVIOUS
<1>2. PICK targets : targets = {i \in x.members : p.inst[i].config.autoRestart}
  OBVIOUS
<1>3. x.alive /\ ~x.isClosing
  BY <1>1 DEF CanSend
<1>4. q = KillAlive(p, t, targets, FALSE)
  BY <1>1, <1>2, <1>3, Zenon DEF ChildHasCrashed
<1>6. MayRestart(p, t, targets)
  BY <1>1, <1>2 DEF MayRestart
<1> QED BY <1>1, <1>3, <1>4, <1>6, KillToRestartGood

\* The only member of a thread.
LEMMA LastIsAlone ==
  ASSUME NEW p \in Pool, NEW t \in DOMAIN p.threads, NEW th, th = p.threads[t],
         \A i \in th.members : i \in DOMAIN p.inst, NEW i \in th.members
  PROVE  /\ IsLast(th) => th.members = {i}
         /\ ~IsLast(th) => \E j \in th.members : j # i
<1>1. PICK s : s = th.members
  OBVIOUS
<1>2. IsFiniteSet(s)
  <2>1. s \subseteq 1..Len(p.inst) /\ Len(p.inst) \in Nat
    BY <1>1, PoolTyped
  <2>2. IsFiniteSet(1..Len(p.inst))
    BY <2>1, FS_Interval
  <2> QED BY <2>1, <2>2, FS_Subset
<1>3. Cardinality(s) = 1 <=> \E x : s = {x}
  BY <1>2, FS_Singleton
<1>4. IsLast(th) <=> Cardinality(s) = 1
  BY <1>1 DEF IsLast
<1>5. ASSUME NEW x, s = {x} PROVE s = {i}
  BY <1>1, <1>5
<1>6. (\A j \in s : j = i) => s = {i}
  BY <1>1
<1> QED BY <1>1, <1>3, <1>4, <1>5, <1>6

\* y is x after killChild with cleanUp: what runs stays in _children till then.
KilledAs(x, y) ==
  /\ y \in Thread
  /\ y.name = x.name /\ y.late = x.late /\ y.alive = x.alive
  /\ y.registered = (x.registered /\ x.alive)

\* killChild with cleanUp.
LEMMA KillChildGood ==
  ASSUME NEW p, NEW m, Good(p, m), NEW t \in Threads(p), p.threads[t].registered,
         NEW q, q = KillChild(p, t)
  PROVE  /\ Good(q, m) /\ q.inst = p.inst /\ KeepUsages(p, q)
         /\ KilledAs(p.threads[t], q.threads[t])
<1>1. PICK x : x = p.threads[t]
  OBVIOUS
<1>2. /\ p \in Pool /\ t \in DOMAIN p.threads /\ x \in Thread /\ ThreadOk(p, t)
      /\ x.registered
  BY <1>1, PoolTyped DEF Good, Threads
<1>3. /\ \A i \in x.members \cup x.restart : i \in DOMAIN p.inst /\ p.inst[i].thread = t
      /\ x.process > 0
      /\ x.timers > 0 => x.cleanUp
      /\ x.cleanUp \/ x.restart # {} => x.alive /\ x.isClosing
      /\ x.restart # {} /\ x.cleanUp => x.disputed
      /\ x.late => ~x.registered /\ (x.cleanUp \/ ~x.alive \/ x.disputed)
      /\ (x.registered /\ \A i \in x.members : p.inst[i].detaching) => x.overlapped
  BY <1>1, <1>2 DEF ThreadOk
<1>4. x.registered \in BOOLEAN /\ x.alive \in BOOLEAN
  BY <1>2 DEF Thread
<1>5. CASE x.alive
  <2>1. PICK y : y = ToldToGo(x)
    OBVIOUS
  <2>2. q = SetThread(p, t, y)
    <3>1. q = KillAlive(p, t, {}, TRUE)
      BY <1>1, <1>5, Zenon DEF KillChild
    <3> QED BY <1>1, <2>1, <3>1, KillToGoIs, Zenon
  <2>3. /\ y \in Thread /\ y.isClosing /\ y.restart = x.restart \cup {} /\ y.cleanUp
        /\ y.name = x.name /\ y.registered = x.registered /\ y.alive = x.alive
        /\ y.process = x.process /\ y.members = x.members
        /\ y.late = x.late /\ y.overlapped = x.overlapped /\ y.usage = x.usage
        /\ x.disputed => y.disputed
        /\ y.restart # {} /\ y.cleanUp => y.disputed
        /\ y.restarted = x.restarted
    BY <1>2, <2>1, ToldCleanUp DEF ToldAs
  <2>4. q.threads[t] = y /\ q.inst = p.inst
    BY <1>2, <2>2, <2>3, SetThreadFields
  <2>5. ThreadOk(q, t)
    BY <1>3, <1>5, <2>3, <2>4 DEF ThreadOk
  <2>6. ASSUME NEW i \in DOMAIN p.inst, p.inst[i].thread = t PROVE InstOk(q, m, i)
    <3>1. ~CanSend(y) /\ y.restart = x.restart
      BY <2>3 DEF CanSend
    <3> QED BY <1>1, <2>3, <2>4, <2>6, <3>1, InstStays DEF Good
  <2>7. Good(q, m)
    <3>1. ~Stray(y)
      BY <1>2, <2>3 DEF Stray
    <3>2. y \in Thread /\ y.name = x.name /\ (y.registered => x.registered)
          /\ (x.late => y.late)
      BY <2>3
    <3> QED BY <1>1, <2>2, <2>5, <2>6, <3>1, <3>2, ThreadStepGood
  <2>8. KeepUsages(p, q)
    BY <1>1, <1>2, <2>2, <2>3, SetThreadKeeps
  <2>9. KilledAs(x, y)
    BY <1>2, <1>4, <1>5, <2>3 DEF KilledAs
  <2> QED BY <1>1, <2>4, <2>7, <2>8, <2>9
<1>6. CASE ~x.alive
  <2>1. PICK r : r = Unregister(p, t)
    OBVIOUS
  <2>2. /\ r \in Pool /\ r.inst = p.inst /\ DOMAIN r.threads = DOMAIN p.threads
        /\ \A u \in DOMAIN p.threads :
             /\ Similar(p.threads[u], r.threads[u])
             /\ r.threads[u].registered = (p.threads[u].registered /\ ~SameId(p, t, u))
    BY <1>2, <2>1, UnregisterFields
  <2>3. PICK z : z = r.threads[t]
    OBVIOUS
  <2>4. PICK y : y = [z EXCEPT !.isClosing = FALSE]
    OBVIOUS
  <2>5. Similar(x, z) /\ z.registered = FALSE
    BY <1>1, <1>2, <2>2, <2>3 DEF SameId
  <2>6. /\ y \in Thread /\ y.registered = FALSE
        /\ y.name = x.name /\ y.alive = x.alive /\ y.cleanUp = x.cleanUp
        /\ y.timers = x.timers /\ y.process = x.process /\ y.members = x.members
        /\ y.restart = x.restart /\ y.late = x.late /\ y.usage = z.usage
        /\ y.disputed = x.disputed /\ y.restarted = x.restarted
        /\ y.name = z.name /\ y.members = z.members
    BY <2>4, <2>5 DEF Thread, Similar
  <2>7. q = SetThread(r, t, y)
    BY <1>1, <1>6, <2>1, <2>3, <2>4 DEF KillChild, SetThread
  <2>8. /\ q \in Pool /\ q.inst = r.inst /\ DOMAIN q.threads = DOMAIN r.threads
        /\ q.threads[t] = y
        /\ \A u \in DOMAIN r.threads : u # t => q.threads[u] = r.threads[u]
    BY <1>2, <2>2, <2>6, <2>7, SetThreadFields
  <2>9. \A u \in DOMAIN p.threads : u # t =>
          /\ Similar(p.threads[u], q.threads[u])
          /\ q.threads[u].registered = (p.threads[u].registered /\ ~SameId(p, t, u))
    BY <2>2, <2>8
  <2>10. Frame(p, q, t)
    <3>1. \A u \in DOMAIN p.threads :
            /\ q.threads[u].name = p.threads[u].name
            /\ q.threads[u].registered => p.threads[u].registered
            /\ p.threads[u].late => q.threads[u].late
      BY <1>1, <2>6, <2>8, <2>9 DEF Similar
    <3> QED BY <2>2, <2>8, <2>9, <3>1 DEF Frame
  <2>11. ThreadOk(q, t)
    BY <1>3, <1>6, <2>2, <2>6, <2>8 DEF ThreadOk
  <2>12. ASSUME NEW i \in DOMAIN p.inst, p.inst[i].thread = t PROVE InstOk(q, m, i)
    <3>1. ~CanSend(y)
      BY <1>6, <2>6 DEF CanSend
    <3>2. q.inst[i] = p.inst[i] /\ q.threads[t] = y /\ InstOk(p, m, i)
      BY <2>2, <2>8 DEF Good
    <3>3. /\ y.process = x.process /\ y.members \subseteq x.members
          /\ y.restart = x.restart /\ (x.restarted => y.restarted)
      BY <2>6
    <3> QED BY <1>1, <2>12, <3>1, <3>2, <3>3, InstStays
  <2>13. ASSUME NEW u \in Threads(p), Stray(q.threads[u])
         PROVE  Stray(p.threads[u])
    <3>1. u # t
      BY <1>6, <2>6, <2>8, <2>13 DEF Stray
    <3>2. Similar(p.threads[u], q.threads[u])
      BY <2>9, <3>1 DEF Threads
    <3>3. ~p.threads[u].registered
      <4>1. SameId(p, t, u) => ~p.threads[u].registered
        BY <3>1 DEF Good, OneRegistered
      <4> QED BY <2>9, <2>13, <3>1, <4>1 DEF Threads, Stray
    <3> QED BY <2>13, <3>2, <3>3 DEF Similar, Stray
  <2>14. Good(q, m)
    BY <2>10, <2>11, <2>12, <2>13, StepGood
  <2>15. KeepUsages(p, q)
    <3>1. KeepUsages(p, r)
      BY <1>2, <2>2, SimilarKeeps
    <3>2. KeepUsages(r, q)
      BY <1>2, <2>2, <2>3, <2>6, <2>7, SetThreadKeeps
    <3> QED BY <1>2, <3>1, <3>2, KeepUsagesTwice
  <2>16. KilledAs(x, y)
    BY <1>2, <1>6, <2>6 DEF KilledAs
  <2> QED BY <1>1, <2>2, <2>8, <2>14, <2>15, <2>16
<1> QED BY <1>5, <1>6

\* killAllChildren.
KillAll(p) == [p EXCEPT !.threads = [t \in DOMAIN @ |-> KillRegistered(p, t)]]

LEMMA KillAllGood ==
  ASSUME NEW p, NEW m, Good(p, m), NEW q, q = KillAll(p)
  PROVE  Good(q, m) /\ q.inst = p.inst /\ KeepUsages(p, q)
<1>1. p \in Pool /\ p.threads \in Seq(Thread)
  BY PoolTyped DEF Good
<1>2. PICK s : s = [t \in DOMAIN p.threads |-> KillRegistered(p, t)]
  OBVIOUS
<1>3. ASSUME NEW t \in DOMAIN p.threads, NEW x, x = p.threads[t]
      PROVE  \E r : /\ Good(r, m) /\ r.inst = p.inst /\ r.threads[t] = s[t]
                    /\ t \in DOMAIN r.threads /\ KeepsUsage(p, r, t)
                    /\ x.registered => KilledAs(x, s[t])
                    /\ ~x.registered => s[t] = x
  <2>1. t \in Threads(p)
    BY DEF Threads
  <2>2. CASE x.registered
    <3>1. PICK r : r = KillChild(p, t)
      OBVIOUS
    <3>2. /\ Good(r, m) /\ r.inst = p.inst /\ KeepUsages(p, r)
          /\ KilledAs(x, r.threads[t])
      BY <1>3, <2>1, <2>2, <3>1, KillChildGood
    <3>3. s[t] = r.threads[t]
      BY <1>2, <1>3, <2>2, <3>1 DEF KillRegistered
    <3> QED BY <1>3, <2>2, <3>2, <3>3 DEF KeepUsages
  <2>3. CASE ~x.registered
    <3>1. s[t] = p.threads[t]
      BY <1>2, <1>3, <2>3 DEF KillRegistered
    <3>2. KeepsUsage(p, p, t)
      BY <1>1, PoolTyped DEF KeepsUsage, Inst
    <3> QED BY <1>3, <2>3, <3>1, <3>2
  <2> QED BY <2>2, <2>3
<1>4. ASSUME NEW t \in DOMAIN p.threads
      PROVE  /\ s[t] \in Thread
             /\ s[t].name = p.threads[t].name /\ s[t].late = p.threads[t].late
             /\ s[t].registered => p.threads[t].registered
             /\ Stray(s[t]) => Stray(p.threads[t])
  <2>1. PICK x : x = p.threads[t] /\ x \in Thread
    BY <1>1, PoolTyped
  <2>2. CASE x.registered
    <3>1. KilledAs(x, s[t])
      BY <1>3, <2>1, <2>2
    <3>2. x.registered \in BOOLEAN /\ x.alive \in BOOLEAN
      BY <2>1 DEF Thread
    <3> QED BY <2>1, <2>2, <3>1, <3>2 DEF KilledAs, Stray
  <2>3. CASE ~x.registered
    <3>1. s[t] = x
      BY <1>3, <2>1, <2>3
    <3> QED BY <2>1, <3>1
  <2> QED BY <2>2, <2>3
<1>5. q \in Pool /\ q.threads = s /\ q.inst = p.inst /\ DOMAIN s = DOMAIN p.threads
  <2>1. DOMAIN s = 1..Len(p.threads) /\ Len(p.threads) \in Nat
    BY <1>1, <1>2, PoolTyped
  <2>2. s \in [1..Len(p.threads) -> Thread]
    BY <1>2, <1>4, <2>1
  <2>3. s \in Seq(Thread)
    BY <2>1, <2>2, SeqDef
  <2>4. q = [p EXCEPT !.threads = s]
    BY <1>2 DEF KillAll
  <2> QED BY <1>1, <1>2, <2>3, <2>4 DEF Pool
<1>6. ASSUME NEW t \in DOMAIN p.threads
      PROVE  /\ ThreadOk(q, t) /\ KeepsUsage(p, q, t)
             /\ \A i \in DOMAIN p.inst : p.inst[i].thread = t => InstOk(q, m, i)
  <2>1. PICK r : /\ Good(r, m) /\ r.inst = p.inst /\ r.threads[t] = s[t]
                 /\ t \in DOMAIN r.threads /\ KeepsUsage(p, r, t)
    BY <1>3
  <2>2. r.threads[t] = q.threads[t] /\ r.inst = q.inst
    BY <1>5, <2>1
  <2>3. KeepsUsage(p, q, t)
    BY <2>1, <2>2 DEF KeepsUsage
  <2>4. ThreadOk(q, t)
    BY <2>1, <2>2 DEF Good, Threads, ThreadOk
  <2>5. ASSUME NEW i \in DOMAIN p.inst, p.inst[i].thread = t PROVE InstOk(q, m, i)
    <3>1. InstOk(r, m, i)
      BY <2>1 DEF Good
    <3> QED BY <2>1, <2>2, <2>5, <3>1 DEF InstOk, Counts
  <2> QED BY <2>3, <2>4, <2>5
<1>7. Threads(q) = DOMAIN p.threads /\ Threads(p) = DOMAIN p.threads
  BY <1>5 DEF Threads
<1>8. \A i \in DOMAIN p.inst : p.inst[i].thread \in DOMAIN p.threads
  BY <1>7 DEF Good
<1>9. \A t, u \in DOMAIN p.threads : SameId(q, t, u) <=> SameId(p, t, u)
  BY <1>4, <1>5 DEF SameId
<1>10. OneRegistered(q)
  BY <1>4, <1>5, <1>7, <1>9 DEF Good, OneRegistered
<1>11. LostToLate(q)
  BY <1>4, <1>5, <1>7, <1>9 DEF Good, LostToLate
<1>12. Good(q, m)
  BY <1>5, <1>6, <1>7, <1>8, <1>10, <1>11 DEF Good
<1>13. KeepUsages(p, q)
  BY <1>5, <1>6 DEF KeepUsages
<1> QED BY <1>5, <1>12, <1>13

\* The thread that one of several instances leaves.
LEMMA LeaveGood ==
  ASSUME NEW p, NEW m, Good(p, m), NEW i \in DOMAIN p.inst, NEW t, t = p.inst[i].thread,
         p.inst[i].destroys > 0, i \in p.threads[t].members, ~IsLast(p.threads[t]),
         NEW q, q = Leave(p, t, i)
  PROVE  Good(q, m) /\ DOMAIN q.inst = DOMAIN p.inst
<1>1. PICK x : x = p.threads[t]
  OBVIOUS
<1>2. /\ p \in Pool /\ t \in Threads(p) /\ t \in DOMAIN p.threads /\ x \in Thread
      /\ ThreadOk(p, t)
  BY <1>1, PoolTyped DEF Good, Threads
<1>3. /\ \A j \in x.members \cup x.restart : j \in DOMAIN p.inst /\ p.inst[j].thread = t
      /\ x.process > 0
      /\ x.timers > 0 => x.cleanUp
      /\ x.cleanUp \/ x.restart # {} => x.alive /\ x.isClosing
      /\ x.restart # {} /\ x.cleanUp => x.disputed
      /\ x.late => ~x.registered /\ (x.cleanUp \/ ~x.alive \/ x.disputed)
      /\ (x.registered /\ \A j \in x.members : p.inst[j].detaching) => x.overlapped
  BY <1>1, <1>2 DEF ThreadOk
<1>4. PICK k : k = p.inst[i] /\ k \in Inst
  BY <1>2, PoolTyped
<1>5. PICK j \in x.members : j # i
  BY <1>1, <1>2, <1>3, LastIsAlone
<1>6. PICK over : over = (x.overlapped \/ Detaching(p, t) \ {i} # {})
  OBVIOUS
<1>7. over \in BOOLEAN /\ (x.overlapped => over) /\ (p.inst[j].detaching => over)
  <2>1. p.inst[j].detaching => j \in Detaching(p, t) \ {i}
    BY <1>1, <1>5 DEF Detaching
  <2>2. (x.overlapped \/ Detaching(p, t) \ {i} # {}) \in BOOLEAN
    OBVIOUS
  <2> QED BY <1>6, <2>1, <2>2
<1>8. PICK usage \in Int : usage = x.usage - k.config.usage
  <2>1. x.usage \in Int /\ k.config \in Configs
    BY <1>2, <1>4 DEF Thread, Inst
  <2>2. k.config.usage \in Int
    BY <2>1, ConfigsAssumption, FullAssumption
  <2> QED BY <2>1, <2>2
<1>9. CASE CanSend(x) /\ k.initialized
  <2>1. PICK y : y = [x EXCEPT !.usage = usage, !.overlapped = over]
    OBVIOUS
  <2>2. /\ y \in Thread /\ y.overlapped = over
        /\ y.name = x.name /\ y.registered = x.registered /\ y.alive = x.alive
        /\ y.isClosing = x.isClosing /\ y.cleanUp = x.cleanUp
        /\ y.timers = x.timers /\ y.process = x.process /\ y.members = x.members
        /\ y.restart = x.restart /\ y.late = x.late
        /\ y.disputed = x.disputed /\ y.restarted = x.restarted
    BY <1>2, <1>7, <1>8, <2>1 DEF Thread
  <2>3. PICK r : r = SetThread(p, t, y)
    OBVIOUS
  <2>4. r.threads[t] = y /\ r.inst = p.inst
    BY <1>2, <2>2, <2>3, SetThreadFields
  <2>5. ThreadOk(r, t)
    BY <1>3, <1>7, <2>2, <2>4 DEF ThreadOk
  <2>6. ASSUME NEW h \in DOMAIN p.inst, p.inst[h].thread = t PROVE InstOk(r, m, h)
    <3>1. InstOk(p, m, h)
      BY DEF Good
    <3>2. CanSend(y) <=> CanSend(x)
      BY <2>2 DEF CanSend
    <3> QED BY <1>1, <2>2, <2>4, <2>6, <3>1, <3>2, InstStays
  <2>7. Good(r, m)
    <3>1. Stray(y) => Stray(x)
      BY <2>2 DEF Stray
    <3> QED BY <1>1, <1>2, <2>2, <2>3, <2>5, <2>6, <3>1, ThreadStepGood, SMTT(30)
  <2>8. PICK n : n = [k EXCEPT !.kill = TRUE, !.detaching = TRUE]
    OBVIOUS
  <2>9. /\ n \in Inst /\ n.thread = k.thread /\ n.config = k.config
        /\ n.initialized = k.initialized /\ n.initGen = k.initGen
        /\ n.destroys = k.destroys /\ n.promise = k.promise /\ n.init = k.init
        /\ k.destroys \in Nat
    BY <1>4, <2>8 DEF Inst
  <2>10. y.overlapped \/ (j \in y.members \ {i} /\ ~r.inst[j].detaching)
    BY <1>5, <1>7, <2>2, <2>4
  <2>11. q = SetInst(r, i, n)
    <3>1. q = [p EXCEPT !.threads[t] = y, !.inst[i] = n]
      BY <1>1, <1>4, <1>6, <1>8, <1>9, <2>1, <2>8 DEF Leave
    <3> QED BY <2>3, <3>1, SMTT(30) DEF SetThread, SetInst
  <2>12. Good(q, m) /\ DOMAIN q.inst = DOMAIN r.inst
    <3>1. k.init = "create" => k.promise = "pending"
      BY <1>4 DEF Good, InstOk, LoopOk
    <3> QED BY <1>4, <2>4, <2>7, <2>9, <2>10, <2>11, <3>1, InstStepGood
  <2> QED BY <2>4, <2>12
<1>10. CASE ~(CanSend(x) /\ k.initialized)
  <2>1. PICK y : y = [x EXCEPT !.usage = usage, !.overlapped = over,
                               !.members = x.members \ {i}]
    OBVIOUS
  <2>2. /\ y \in Thread /\ y.overlapped = over /\ y.members = x.members \ {i}
        /\ y.name = x.name /\ y.registered = x.registered /\ y.alive = x.alive
        /\ y.isClosing = x.isClosing /\ y.cleanUp = x.cleanUp
        /\ y.timers = x.timers /\ y.process = x.process
        /\ y.restart = x.restart /\ y.late = x.late
        /\ y.disputed = x.disputed /\ y.restarted = x.restarted
    BY <1>2, <1>7, <1>8, <2>1 DEF Thread
  <2>3. q = SetThread(p, t, y)
    <3>1. PICK z : z = [x EXCEPT !.usage = usage, !.overlapped = over]
      OBVIOUS
    <3>2. z.members = x.members
      BY <1>2, <3>1 DEF Thread
    <3>3. PICK left : left = [z EXCEPT !.members = z.members \ {i}]
      BY Zenon
    <3>4. left = y
      BY <2>1, <3>1, <3>2, <3>3
    <3>5. q = SetThread(p, t, left)
      <4>1. z = [p.threads[t] EXCEPT
                   !.usage = p.threads[t].usage - p.inst[i].config.usage,
                   !.overlapped = p.threads[t].overlapped \/ Detaching(p, t) \ {i} # {}]
        BY <1>1, <1>4, <1>6, <1>8, <3>1, Zenon
      <4>2. ~(CanSend(p.threads[t]) /\ p.inst[i].initialized)
        BY <1>1, <1>4, <1>10
      <4> QED BY <3>3, <4>1, <4>2, Zenon DEF Leave, SetThread
    <3> QED BY <3>4, <3>5
  <2>4. q.threads[t] = y /\ q.inst = p.inst
    BY <1>2, <2>2, <2>3, SetThreadFields
  <2>5. ThreadOk(q, t)
    <3>1. (y.registered /\ \A h \in y.members : q.inst[h].detaching) => y.overlapped
      BY <1>5, <1>7, <2>2, <2>4, SMTT(30)
    <3> QED BY <1>3, <2>2, <2>4, <3>1 DEF ThreadOk
  <2>6. ASSUME NEW h \in DOMAIN p.inst, p.inst[h].thread = t PROVE InstOk(q, m, h)
    <3>1. InstOk(p, m, h)
      BY DEF Good
    <3>2. (CanSend(y) <=> CanSend(x)) /\ y.members \subseteq x.members
      BY <2>2 DEF CanSend
    <3> QED BY <1>1, <2>2, <2>4, <2>6, <3>1, <3>2, InstStays
  <2>7. Good(q, m)
    <3>1. Stray(y) => Stray(x)
      BY <2>2 DEF Stray
    <3> QED BY <1>1, <1>2, <2>2, <2>3, <2>5, <2>6, <3>1, ThreadStepGood
  <2> QED BY <2>4, <2>7
<1> QED BY <1>9, <1>10

DestroyedOnce(p, i) == SetInst(p, i, [p.inst[i] EXCEPT !.destroys = @ + 1])

LEMMA DestroyGood ==
  ASSUME NEW p, NEW m, Good(p, m), NEW i \in DOMAIN p.inst, NEW t, t = p.inst[i].thread,
         p.threads[t].registered, i \in p.threads[t].members,
         NEW q, q = IF IsLast(p.threads[t]) THEN KillChild(DestroyedOnce(p, i), t)
                    ELSE Leave(DestroyedOnce(p, i), t, i)
  PROVE  /\ Good(q, m) /\ DOMAIN q.inst = DOMAIN p.inst
         /\ IsLast(p.threads[t]) => KeepUsages(p, q)
<1>1. /\ p \in Pool /\ t \in Threads(p) /\ t \in DOMAIN p.threads /\ ThreadOk(p, t)
  BY DEF Good, Threads
<1>2. PICK k : k = p.inst[i] /\ k \in Inst
  BY <1>1, PoolTyped
<1>3. PICK n : n = [k EXCEPT !.destroys = @ + 1]
  OBVIOUS
<1>4. /\ n \in Inst /\ n.thread = k.thread /\ n.config = k.config
      /\ n.initialized = k.initialized /\ n.initGen = k.initGen
      /\ n.promise = k.promise /\ n.kill = k.kill /\ n.detaching = k.detaching
      /\ n.init = k.init /\ (k.init = "create" => k.promise = "pending")
      /\ n.destroys > 0 /\ n.destroys >= k.destroys
  <2>1. k.destroys \in Nat /\ k.destroys + 1 \in Nat /\ k.destroys + 1 > 0
        /\ k.destroys + 1 >= k.destroys
    BY <1>2 DEF Inst
  <2>2. k.init = "create" => k.promise = "pending"
    BY <1>2 DEF Good, InstOk, LoopOk
  <2> QED BY <1>2, <1>3, <2>1, <2>2 DEF Inst
<1>5. PICK r : r = DestroyedOnce(p, i)
  OBVIOUS
<1>6. r = SetInst(p, i, n)
  BY <1>2, <1>3, <1>5 DEF DestroyedOnce
<1>7. /\ Good(r, m) /\ r.threads = p.threads /\ r.inst[i] = n
      /\ DOMAIN r.inst = DOMAIN p.inst
      /\ \A j \in DOMAIN p.inst : j # i => r.inst[j] = p.inst[j]
  BY <1>2, <1>4, <1>6, InstStepGood
<1>8. t \in Threads(r) /\ r \in Pool /\ r.inst[i].thread = t
  BY <1>1, <1>2, <1>4, <1>7 DEF Good, Threads
<1>9. CASE IsLast(p.threads[t])
  <2>1. q = KillChild(r, t)
    BY <1>5, <1>9
  <2>4. r.threads[t].registered
    BY <1>7
  <2>5. Good(q, m) /\ q.inst = r.inst /\ KeepUsages(r, q)
    BY <1>7, <1>8, <2>1, <2>4, KillChildGood
  <2>6. KeepUsages(p, r)
    <3>1. k.destroys <= n.destroys
      BY <1>2, <1>4 DEF Inst
    <3> QED BY <1>1, <1>2, <1>4, <1>6, <3>1, SetInstKeeps
  <2>7. KeepUsages(p, q)
    BY <1>1, <2>5, <2>6, KeepUsagesTwice
  <2> QED BY <1>7, <2>5, <2>7
<1>10. CASE ~IsLast(p.threads[t])
  <2>1. q = Leave(r, t, i)
    BY <1>5, <1>10
  <2>2. r.inst[i].destroys > 0 /\ i \in r.threads[t].members /\ ~IsLast(r.threads[t])
    BY <1>4, <1>7, <1>10
  <2>3. Good(q, m) /\ DOMAIN q.inst = DOMAIN r.inst
    BY <1>7, <1>8, <2>1, <2>2, LeaveGood
  <2> QED BY <1>7, <1>10, <2>3
<1> QED BY <1>9, <1>10

\* The thread and the instance that leaves it.
Detached(p, t, i) ==
  [p EXCEPT !.inst[i].detaching = FALSE, !.threads[t].members = @ \ {i}]

LEMMA DetachGood ==
  ASSUME NEW p, NEW m, Good(p, m), NEW i \in DOMAIN p.inst, NEW t, t = p.inst[i].thread,
         p.inst[i].detaching, NEW q, q = Detached(p, t, i)
  PROVE  Good(q, m) /\ DOMAIN q.inst = DOMAIN p.inst /\ KeepUsages(p, q)
<1>1. PICK x : x = p.threads[t]
  OBVIOUS
<1>2. /\ p \in Pool /\ t \in Threads(p) /\ t \in DOMAIN p.threads /\ x \in Thread
      /\ ThreadOk(p, t)
  BY <1>1, PoolTyped DEF Good, Threads
<1>3. /\ \A j \in x.members \cup x.restart : j \in DOMAIN p.inst /\ p.inst[j].thread = t
      /\ x.process > 0
      /\ x.timers > 0 => x.cleanUp
      /\ x.cleanUp \/ x.restart # {} => x.alive /\ x.isClosing
      /\ x.restart # {} /\ x.cleanUp => x.disputed
      /\ x.late => ~x.registered /\ (x.cleanUp \/ ~x.alive \/ x.disputed)
      /\ (x.registered /\ \A j \in x.members : p.inst[j].detaching) => x.overlapped
  BY <1>1, <1>2 DEF ThreadOk
<1>4. PICK k : k = p.inst[i] /\ k \in Inst
  BY <1>2, PoolTyped
<1>5. k.destroys > 0
  BY <1>4 DEF Good, InstOk, LoopOk
<1>6. PICK y : y = [x EXCEPT !.members = x.members \ {i}]
  OBVIOUS
<1>7. /\ y \in Thread /\ y.members = x.members \ {i} /\ y.overlapped = x.overlapped
      /\ y.name = x.name /\ y.registered = x.registered /\ y.alive = x.alive
      /\ y.isClosing = x.isClosing /\ y.cleanUp = x.cleanUp
      /\ y.timers = x.timers /\ y.process = x.process
      /\ y.restart = x.restart /\ y.late = x.late
      /\ y.disputed = x.disputed /\ y.restarted = x.restarted
  BY <1>2, <1>6 DEF Thread
<1>8. PICK n : n = [k EXCEPT !.detaching = FALSE]
  OBVIOUS
<1>9. /\ n \in Inst /\ n.thread = k.thread /\ n.config = k.config
      /\ n.initialized = k.initialized /\ n.initGen = k.initGen
      /\ n.promise = k.promise /\ n.kill = k.kill /\ ~n.detaching
      /\ n.destroys = k.destroys /\ n.init = k.init
  BY <1>4, <1>8 DEF Inst
<1>10. PICK r : r = SetThread(p, t, y)
  OBVIOUS
<1>11. r.threads[t] = y /\ r.inst = p.inst /\ r \in Pool
  BY <1>2, <1>7, <1>10, SetThreadFields
<1>12. ThreadOk(r, t)
  <2>1. (y.registered /\ \A j \in y.members : r.inst[j].detaching) => y.overlapped
    <3>1. (\A j \in y.members : r.inst[j].detaching) => \A j \in x.members : p.inst[j].detaching
      BY <1>7, <1>11, SMTT(30)
    <3> QED BY <1>3, <1>7, <3>1
  <2> QED BY <1>3, <1>7, <1>11, <2>1 DEF ThreadOk
<1>13. ASSUME NEW h \in DOMAIN p.inst, p.inst[h].thread = t PROVE InstOk(r, m, h)
  <2>1. InstOk(p, m, h)
    BY DEF Good
  <2>2. (CanSend(y) <=> CanSend(x)) /\ y.members \subseteq x.members
    BY <1>7 DEF CanSend
  <2> QED BY <1>1, <1>7, <1>11, <1>13, <2>1, <2>2, InstStays
<1>14. Good(r, m)
  <2>1. Stray(y) => Stray(x)
    BY <1>7, SMTT(30) DEF Stray
  <2> QED BY <1>1, <1>2, <1>7, <1>10, <1>12, <1>13, <2>1, ThreadStepGood, SMTT(30)
<1>15. q = SetInst(r, i, n)
  BY <1>1, <1>4, <1>6, <1>8, <1>10 DEF Detached, SetThread, SetInst
<1>16. k.destroys \in Nat /\ (k.init = "create" => k.promise = "pending")
  BY <1>4 DEF Inst, Good, InstOk, LoopOk
<1>17. Good(q, m) /\ DOMAIN q.inst = DOMAIN r.inst
  BY <1>4, <1>5, <1>9, <1>11, <1>14, <1>15, <1>16, InstStepGood
<1>18. KeepUsages(p, q)
  <2>1. KeepUsages(p, r)
    <3>1. y.usage = x.usage
      BY <1>2, <1>6 DEF Thread
    <3> QED BY <1>1, <1>2, <1>7, <1>10, <3>1, SetThreadKeeps
  <2>2. KeepUsages(r, q)
    <3>1. k.destroys <= n.destroys
      BY <1>9, <1>16
    <3> QED BY <1>4, <1>9, <1>11, <1>15, <3>1, SetInstKeeps
  <2> QED BY <1>2, <2>1, <2>2, KeepUsagesTwice
<1> QED BY <1>11, <1>17, <1>18

TimedOut(p, t) ==
  [Unregister(p, t) EXCEPT !.threads[t].timers = @ - 1, !.threads[t].late = TRUE]

LEMMA KillTimeoutGood ==
  ASSUME NEW p, NEW m, Good(p, m), NEW t \in Threads(p), p.threads[t].timers > 0,
         NEW q, q = TimedOut(p, t)
  PROVE  Good(q, m) /\ DOMAIN q.inst = DOMAIN p.inst /\ KeepUsages(p, q)
<1>1. PICK x : x = p.threads[t]
  OBVIOUS
<1>2. /\ p \in Pool /\ t \in DOMAIN p.threads /\ x \in Thread /\ ThreadOk(p, t)
      /\ x.timers > 0
  BY <1>1, PoolTyped DEF Good, Threads
<1>3. /\ \A i \in x.members \cup x.restart : i \in DOMAIN p.inst /\ p.inst[i].thread = t
      /\ x.process > 0
      /\ x.timers > 0 => x.cleanUp
      /\ x.cleanUp \/ x.restart # {} => x.alive /\ x.isClosing
      /\ x.restart # {} /\ x.cleanUp => x.disputed
  BY <1>1, <1>2 DEF ThreadOk
<1>4. PICK r : r = Unregister(p, t)
  OBVIOUS
<1>5. /\ r \in Pool /\ r.inst = p.inst /\ DOMAIN r.threads = DOMAIN p.threads
      /\ \A u \in DOMAIN p.threads :
           /\ Similar(p.threads[u], r.threads[u])
           /\ r.threads[u].registered = (p.threads[u].registered /\ ~SameId(p, t, u))
  BY <1>2, <1>4, UnregisterFields
<1>6. PICK z : z = r.threads[t]
  OBVIOUS
<1>7. Similar(x, z) /\ z.registered = FALSE
  BY <1>1, <1>2, <1>5, <1>6 DEF SameId
<1>8. PICK timers \in Nat : timers = z.timers - 1
  <2>1. z.timers \in Nat /\ z.timers > 0
    BY <1>2, <1>7 DEF Similar, Thread
  <2> QED BY <2>1
<1>9. PICK y : y = [z EXCEPT !.timers = timers, !.late = TRUE]
  OBVIOUS
<1>10. /\ y \in Thread /\ y.registered = FALSE /\ y.late
       /\ y.name = x.name /\ y.alive = x.alive /\ y.isClosing = x.isClosing
       /\ y.cleanUp = x.cleanUp /\ y.process = x.process /\ y.members = x.members
       /\ y.restart = x.restart /\ y.usage = z.usage /\ y.name = z.name
       /\ y.members = z.members
       /\ y.disputed = x.disputed /\ y.restarted = x.restarted
  BY <1>7, <1>8, <1>9 DEF Thread, Similar
<1>11. q = SetThread(r, t, y)
  BY <1>4, <1>6, <1>8, <1>9 DEF TimedOut, SetThread
<1>12. /\ q \in Pool /\ q.inst = r.inst /\ DOMAIN q.threads = DOMAIN r.threads
       /\ q.threads[t] = y
       /\ \A u \in DOMAIN r.threads : u # t => q.threads[u] = r.threads[u]
  BY <1>2, <1>5, <1>10, <1>11, SetThreadFields
<1>13. \A u \in DOMAIN p.threads : u # t =>
         /\ Similar(p.threads[u], q.threads[u])
         /\ q.threads[u].registered = (p.threads[u].registered /\ ~SameId(p, t, u))
  BY <1>5, <1>12
<1>14. Frame(p, q, t)
  <2>1. \A u \in DOMAIN p.threads :
          /\ q.threads[u].name = p.threads[u].name
          /\ q.threads[u].registered => p.threads[u].registered
          /\ p.threads[u].late => q.threads[u].late
    BY <1>1, <1>10, <1>12, <1>13 DEF Similar
  <2> QED BY <1>5, <1>12, <1>13, <2>1 DEF Frame
<1>15. ThreadOk(q, t)
  BY <1>2, <1>3, <1>5, <1>10, <1>12 DEF ThreadOk
<1>16. ASSUME NEW i \in DOMAIN p.inst, p.inst[i].thread = t PROVE InstOk(q, m, i)
  <2>1. InstOk(p, m, i)
    BY DEF Good
  <2>2. /\ CanSend(y) => CanSend(x)
        /\ y.process = x.process /\ y.members \subseteq x.members
        /\ y.restart = x.restart /\ (x.restarted => y.restarted)
    BY <1>10 DEF CanSend
  <2>3. q.inst[i] = p.inst[i] /\ q.threads[t] = y
    BY <1>5, <1>12
  <2> QED BY <1>1, <1>16, <2>1, <2>2, <2>3, InstStays
<1>17. ASSUME NEW u \in Threads(p), Stray(q.threads[u])
       PROVE  \/ Stray(p.threads[u])
              \/ \E w \in Threads(p) : SameId(p, u, w) /\ q.threads[w].late
  <2>1. q.threads[t].late
    BY <1>10, <1>12
  <2>2. CASE SameId(p, u, t)
    BY <2>1, <2>2
  <2>3. CASE ~SameId(p, u, t)
    <3>1. u # t /\ ~SameId(p, t, u)
      BY <2>3 DEF SameId
    <3>2. Similar(p.threads[u], q.threads[u]) /\ ~p.threads[u].registered
      BY <1>13, <1>17, <3>1 DEF Threads, Stray
    <3> QED BY <1>17, <3>2 DEF Similar, Stray
  <2> QED BY <2>2, <2>3
<1>18. Good(q, m)
  BY <1>14, <1>15, <1>16, <1>17, StepGood
<1>19. KeepUsages(p, q)
  <2>1. KeepUsages(p, r)
    BY <1>2, <1>5, SimilarKeeps
  <2>2. KeepUsages(r, q)
    BY <1>2, <1>5, <1>6, <1>10, <1>11, SetThreadKeeps
  <2> QED BY <1>2, <2>1, <2>2, KeepUsagesTwice
<1> QED BY <1>5, <1>12, <1>18, <1>19

StoppedAnswering(p, t) == [p EXCEPT !.threads[t].frozen = TRUE]

LEMMA FreezeGood ==
  ASSUME NEW p, NEW m, Good(p, m), NEW t \in Threads(p), NEW q, q = StoppedAnswering(p, t)
  PROVE  Good(q, m) /\ DOMAIN q.inst = DOMAIN p.inst /\ KeepUsages(p, q)
<1>1. PICK x : x = p.threads[t]
  OBVIOUS
<1>2. /\ p \in Pool /\ t \in DOMAIN p.threads /\ x \in Thread /\ ThreadOk(p, t)
  BY <1>1, PoolTyped DEF Good, Threads
<1>3. PICK y : y = [x EXCEPT !.frozen = TRUE]
  OBVIOUS
<1>4. /\ y \in Thread /\ y.overlapped = x.overlapped
      /\ y.name = x.name /\ y.registered = x.registered /\ y.alive = x.alive
      /\ y.isClosing = x.isClosing /\ y.cleanUp = x.cleanUp
      /\ y.timers = x.timers /\ y.process = x.process /\ y.members = x.members
      /\ y.restart = x.restart /\ y.late = x.late /\ y.usage = x.usage
      /\ y.disputed = x.disputed /\ y.restarted = x.restarted
  BY <1>2, <1>3 DEF Thread
<1>5. q = SetThread(p, t, y)
  BY <1>1, <1>3 DEF StoppedAnswering, SetThread
<1>6. q.threads[t] = y /\ q.inst = p.inst
  BY <1>2, <1>4, <1>5, SetThreadFields
<1>7. ThreadOk(q, t)
  <2>1. /\ \A i \in x.members \cup x.restart : i \in DOMAIN p.inst /\ p.inst[i].thread = t
        /\ x.process > 0
        /\ x.timers > 0 => x.cleanUp
        /\ x.cleanUp \/ x.restart # {} => x.alive /\ x.isClosing
        /\ x.restart # {} /\ x.cleanUp => x.disputed
        /\ x.late => ~x.registered /\ (x.cleanUp \/ ~x.alive \/ x.disputed)
        /\ (x.registered /\ \A i \in x.members : p.inst[i].detaching) => x.overlapped
    BY <1>1, <1>2 DEF ThreadOk
  <2> QED BY <1>4, <1>6, <2>1 DEF ThreadOk
<1>8. ASSUME NEW i \in DOMAIN p.inst, p.inst[i].thread = t PROVE InstOk(q, m, i)
  <2>1. InstOk(p, m, i)
    BY DEF Good
  <2>2. CanSend(y) <=> CanSend(x)
    BY <1>4 DEF CanSend
  <2> QED BY <1>1, <1>4, <1>6, <1>8, <2>1, <2>2, InstStays
<1>9. Good(q, m)
  <2>1. Stray(y) => Stray(x)
    BY <1>4 DEF Stray
  <2> QED BY <1>1, <1>2, <1>4, <1>5, <1>7, <1>8, <2>1, ThreadStepGood, SMTT(30)
<1>10. KeepUsages(p, q)
  BY <1>1, <1>2, <1>4, <1>5, SetThreadKeeps
<1> QED BY <1>6, <1>9, <1>10

\* threadedClass() waits for the reply to INIT.
Awaits(p, i) ==
  p.inst[i].init = "create" /\ i \in p.threads[p.inst[i].thread].members

Replied(p, i, promise) ==
  [p EXCEPT !.inst[i].init = "none",
            !.inst[i].promise = IF Awaits(p, i) THEN promise ELSE @]

LEMMA ReplyGood ==
  ASSUME NEW p, NEW m, Good(p, m), NEW i \in DOMAIN p.inst,
         NEW promise \in {"resolved", "rejected"}, NEW q, q = Replied(p, i, promise)
  PROVE  /\ Good(q, m) /\ DOMAIN q.inst = DOMAIN p.inst /\ KeepUsages(p, q)
         /\ q.inst[i].promise = IF Awaits(p, i) THEN promise ELSE p.inst[i].promise
         /\ q.inst[i].init = "none"
<1>1. PICK k : k = p.inst[i] /\ k \in Inst
  BY PoolTyped DEF Good
<1>2. PICK settled : settled = IF Awaits(p, i) THEN promise ELSE k.promise
  OBVIOUS
<1>3. /\ k.kill \/ k.detaching => k.destroys > 0
      /\ k.init = "create" => k.promise = "pending"
  BY <1>1 DEF Good, InstOk, LoopOk
<1>4. /\ settled \in {"pending", "resolved", "rejected"}
      /\ settled # "rejected" => k.promise # "rejected"
      /\ k.promise = "resolved" => settled = "resolved"
  BY <1>1, <1>2, <1>3 DEF Inst, Awaits
<1>5. PICK n : n = [k EXCEPT !.init = "none", !.promise = settled]
  OBVIOUS
<1>6. /\ n \in Inst /\ n.thread = k.thread /\ n.config = k.config
      /\ n.initialized = k.initialized /\ n.initGen = k.initGen
      /\ n.promise = settled /\ n.kill = k.kill /\ n.detaching = k.detaching
      /\ n.destroys = k.destroys /\ k.destroys \in Nat /\ n.init = "none"
  BY <1>1, <1>4, <1>5 DEF Inst
<1>7. q = SetInst(p, i, n)
  BY <1>1, <1>2, <1>5 DEF Replied, SetInst, Inst
<1>8. Good(q, m) /\ DOMAIN q.inst = DOMAIN p.inst /\ q.inst[i] = n
  BY <1>1, <1>3, <1>4, <1>6, <1>7, InstStepGood
<1>9. KeepUsages(p, q)
  <2>1. p \in Pool /\ k.destroys <= n.destroys
    BY <1>6 DEF Good
  <2> QED BY <1>1, <1>6, <1>7, <2>1, SetInstKeeps
<1> QED BY <1>1, <1>2, <1>6, <1>8, <1>9

\* restart() was called for one of the instances of the thread.
Marked(p, t) == [p EXCEPT !.threads[t].restarted = TRUE]

LEMMA MarkGood ==
  ASSUME NEW p, NEW m, Good(p, m), NEW t \in Threads(p), NEW q, q = Marked(p, t)
  PROVE  /\ Good(q, m) /\ q.inst = p.inst /\ KeepUsages(p, q)
         /\ q.threads[t].restarted
         /\ q.threads[t].registered = p.threads[t].registered
         /\ q.threads[t].alive = p.threads[t].alive
         /\ q.threads[t].members = p.threads[t].members
<1>1. PICK x : x = p.threads[t]
  OBVIOUS
<1>2. /\ p \in Pool /\ t \in DOMAIN p.threads /\ x \in Thread /\ ThreadOk(p, t)
  BY <1>1, PoolTyped DEF Good, Threads
<1>3. PICK y : y = [x EXCEPT !.restarted = TRUE]
  OBVIOUS
<1>4. /\ y \in Thread /\ y.overlapped = x.overlapped
      /\ y.name = x.name /\ y.registered = x.registered /\ y.alive = x.alive
      /\ y.isClosing = x.isClosing /\ y.cleanUp = x.cleanUp
      /\ y.timers = x.timers /\ y.process = x.process /\ y.members = x.members
      /\ y.restart = x.restart /\ y.late = x.late /\ y.usage = x.usage
      /\ y.disputed = x.disputed /\ y.restarted
  BY <1>2, <1>3 DEF Thread
<1>5. q = SetThread(p, t, y)
  BY <1>1, <1>3 DEF Marked, SetThread
<1>6. q.threads[t] = y /\ q.inst = p.inst
  BY <1>2, <1>4, <1>5, SetThreadFields
<1>7. ThreadOk(q, t)
  <2>1. /\ \A i \in x.members \cup x.restart : i \in DOMAIN p.inst /\ p.inst[i].thread = t
        /\ x.process > 0
        /\ x.timers > 0 => x.cleanUp
        /\ x.cleanUp \/ x.restart # {} => x.alive /\ x.isClosing
        /\ x.restart # {} /\ x.cleanUp => x.disputed
        /\ x.late => ~x.registered /\ (x.cleanUp \/ ~x.alive \/ x.disputed)
        /\ (x.registered /\ \A i \in x.members : p.inst[i].detaching) => x.overlapped
    BY <1>1, <1>2 DEF ThreadOk
  <2> QED BY <1>4, <1>6, <2>1 DEF ThreadOk
<1>8. ASSUME NEW i \in DOMAIN p.inst, p.inst[i].thread = t PROVE InstOk(q, m, i)
  <2>1. InstOk(p, m, i)
    BY DEF Good
  <2>2. CanSend(y) <=> CanSend(x)
    BY <1>4 DEF CanSend
  <2> QED BY <1>1, <1>4, <1>6, <1>8, <2>1, <2>2, InstStays
<1>9. Good(q, m)
  <2>1. Stray(y) => Stray(x)
    BY <1>4 DEF Stray
  <2> QED BY <1>1, <1>2, <1>4, <1>5, <1>7, <1>8, <2>1, ThreadStepGood, SMTT(30)
<1>10. KeepUsages(p, q)
  BY <1>1, <1>2, <1>4, <1>5, SetThreadKeeps
<1> QED BY <1>1, <1>4, <1>6, <1>9, <1>10

\* A restart of one instance in a new process leaves the other ones out.
LEMMA RestartForksGood ==
  ASSUME NEW p, NEW m, Good(p, m), NEW t \in Threads(p), p.threads[t].registered,
         ~p.threads[t].alive, p.threads[t].restarted,
         NEW i \in p.threads[t].members, NEW targets, targets = {i},
         NEW q, q = Fork(p, t, targets)
  PROVE  Good(q, m) /\ DOMAIN q.inst = DOMAIN p.inst /\ KeepUsages(p, q)
<1>1. PICK x : x = p.threads[t]
  OBVIOUS
<1>2. PICK y : y = q.threads[t]
  OBVIOUS
<1>3. /\ p \in Pool /\ t \in DOMAIN p.threads /\ x \in Thread /\ ThreadOk(p, t)
      /\ x.registered /\ ~x.alive /\ x.restarted /\ i \in x.members
      /\ \A u \in DOMAIN p.threads : p.threads[u] \in Thread
  BY <1>1, PoolTyped DEF Good, Threads
<1>4. /\ q \in Pool
      /\ DOMAIN q.threads = DOMAIN p.threads /\ DOMAIN q.inst = DOMAIN p.inst
      /\ Forked(x, y)
      /\ \A u \in DOMAIN p.threads : u # t => q.threads[u] = p.threads[u]
      /\ \A j \in DOMAIN p.inst :
           /\ SameInst(p.inst[j], q.inst[j])
           /\ SamePromise(p.inst[j], q.inst[j])
           /\ q.inst[j].kill => p.inst[j].kill
           /\ j \in targets => /\ q.inst[j].initialized
                           /\ q.inst[j].initGen = x.process + 1
           /\ j \notin targets => q.inst[j].initGen = p.inst[j].initGen
           /\ j \in x.members \ targets => ~q.inst[j].initialized
           /\ j \notin x.members \cup targets => q.inst[j] = p.inst[j]
  BY <1>1, <1>2, <1>3, ForkFields
<1>5. /\ y \in Thread /\ y.alive /\ ~y.isClosing /\ y.process = x.process + 1
      /\ y.restart = {} /\ y.name = x.name /\ y.registered /\ y.cleanUp = x.cleanUp
      /\ y.timers = x.timers /\ y.members = x.members /\ y.late = x.late
      /\ y.overlapped = x.overlapped /\ y.usage = x.usage /\ y.restarted
  BY <1>3, <1>4 DEF Forked
<1>6. /\ \A j \in x.members : j \in DOMAIN p.inst /\ p.inst[j].thread = t
      /\ x.process > 0
      /\ x.timers > 0 => x.cleanUp
      /\ ~x.cleanUp /\ ~x.late
      /\ (\A j \in x.members : p.inst[j].detaching) => x.overlapped
  BY <1>1, <1>3 DEF ThreadOk
<1>7. Frame(p, q, t)
  <2>1. \A u \in DOMAIN p.threads : u # t => Similar(p.threads[u], q.threads[u])
    BY <1>3, <1>4, SimilarSelf
  <2>2. \A u \in DOMAIN p.threads :
          /\ q.threads[u].name = p.threads[u].name
          /\ q.threads[u].registered => p.threads[u].registered
          /\ p.threads[u].late => q.threads[u].late
    BY <1>1, <1>2, <1>3, <1>4, <1>5
  <2>3. \A j \in DOMAIN p.inst :
          /\ q.inst[j].thread = p.inst[j].thread
          /\ p.inst[j].thread # t => q.inst[j] = p.inst[j]
    <3> SUFFICES ASSUME NEW j \in DOMAIN p.inst
                 PROVE  /\ q.inst[j].thread = p.inst[j].thread
                        /\ p.inst[j].thread # t => q.inst[j] = p.inst[j]
      OBVIOUS
    <3>1. p.inst[j].thread # t => j \notin x.members \cup targets
      BY <1>3, <1>6
    <3> QED BY <1>4, <3>1 DEF SameInst
  <2> QED BY <1>4, <2>1, <2>2, <2>3 DEF Frame
<1>8. ThreadOk(q, t)
  <2>1. \A j \in x.members :
          /\ j \in DOMAIN q.inst /\ q.inst[j].thread = t
          /\ q.inst[j].detaching = p.inst[j].detaching
    <3> SUFFICES ASSUME NEW j \in x.members
                 PROVE  /\ j \in DOMAIN q.inst /\ q.inst[j].thread = t
                        /\ q.inst[j].detaching = p.inst[j].detaching
      OBVIOUS
    <3>1. j \in DOMAIN p.inst /\ p.inst[j].thread = t
      BY <1>6
    <3>2. j \in DOMAIN q.inst /\ SameInst(p.inst[j], q.inst[j])
      BY <1>4, <3>1
    <3> QED BY <3>1, <3>2 DEF SameInst
  <2>2. (\A j \in y.members : q.inst[j].detaching) => y.overlapped
    BY <1>5, <1>6, <2>1
  <2>3. y.process > 0 /\ (y.timers > 0 => y.cleanUp) /\ ~y.cleanUp /\ ~y.late
    BY <1>3, <1>5, <1>6 DEF Thread
  <2>4. y.members \cup y.restart = x.members
    BY <1>5
  <2> QED BY <1>2, <1>5, <2>1, <2>2, <2>3, <2>4 DEF ThreadOk
<1>9. ASSUME NEW j \in DOMAIN p.inst, p.inst[j].thread = t PROVE InstOk(q, m, j)
  <2>1. PICK k : k = p.inst[j] /\ k \in Inst
    BY <1>3, PoolTyped
  <2>2. PICK n : n = q.inst[j]
    OBVIOUS
  <2>3. LoopOk(x, k, m[j], j)
    BY <1>1, <1>9, <2>1 DEF Good, InstOk
  <2>4. /\ n.thread = t /\ n.config = k.config /\ n.detaching = k.detaching
        /\ n.destroys = k.destroys /\ n.promise = k.promise
        /\ n.init = "create" => k.init = "create"
        /\ n.kill => k.kill
        /\ j = i => n.initialized /\ n.initGen = y.process
        /\ j # i => n.initGen = k.initGen
        /\ j \in y.members /\ j # i => ~n.initialized
    BY <1>4, <1>5, <1>9, <2>1, <2>2 DEF SameInst, SamePromise
  <2>5. k.initGen < y.process /\ k.initGen \in Nat /\ y.process \in Nat
    BY <1>3, <1>5, <2>1, <2>3 DEF LoopOk, Inst, Thread
  <2>6. n.initGen <= y.process /\ (j # i => n.initGen # y.process)
    BY <2>4, <2>5
  <2>7. LoopOk(y, n, m[j], j)
    BY <1>5, <2>3, <2>4, <2>6 DEF LoopOk
  <2>8. j \in y.members => InProcess(y, n, j)
    BY <1>5, <2>4, <2>6 DEF InProcess
  <2>9. Counts(q, j) => j \in y.members
    BY <1>2, <2>2, <2>4 DEF Counts
  <2> QED BY <1>2, <2>2, <2>4, <2>7, <2>8, <2>9 DEF InstOk
<1>10. \A u \in Threads(p) : Stray(q.threads[u]) => Stray(p.threads[u])
  <2>1. ~Stray(y)
    BY <1>5 DEF Stray
  <2> QED BY <1>2, <1>4, <2>1 DEF Threads
<1>11. Good(q, m)
  BY <1>7, <1>8, <1>9, <1>10, StepGood
<1>12. KeepUsages(p, q)
  <2>1. ASSUME NEW u \in DOMAIN p.threads PROVE KeepsUsage(p, q, u)
    <3>1. /\ q.threads[u].usage = p.threads[u].usage /\ q.threads[u].name = p.threads[u].name
          /\ q.threads[u].members \subseteq p.threads[u].members
      BY <1>1, <1>2, <1>4, <1>5, ZenonT(30)
    <3> QED BY <1>3, <1>4, <3>1, KeepsUsageSame
  <2> QED BY <1>4, <2>1 DEF KeepUsages
<1> QED BY <1>4, <1>11, <1>12

\* A restart of one instance in the process that runs.
LEMMA RestartInitsGood ==
  ASSUME NEW p, NEW m, Good(p, m), NEW t \in Threads(p),
         NEW i \in p.threads[t].members, NEW q, q = SendInits(p, t, {i}, "restart")
  PROVE  Good(q, m) /\ DOMAIN q.inst = DOMAIN p.inst /\ KeepUsages(p, q)
<1>1. PICK x : x = p.threads[t]
  OBVIOUS
<1>2. /\ p \in Pool /\ t \in DOMAIN p.threads /\ x \in Thread /\ ThreadOk(p, t)
      /\ i \in x.members
      /\ \A u \in DOMAIN p.threads : p.threads[u] \in Thread
  BY <1>1, PoolTyped DEF Good, Threads
<1>3. /\ q \in Pool /\ q.threads = p.threads /\ DOMAIN q.inst = DOMAIN p.inst
      /\ \A j \in DOMAIN p.inst :
           /\ j \notin {i} => q.inst[j] = p.inst[j]
           /\ j \in {i} => InitSent(x, "restart", p.inst[j], q.inst[j])
  BY <1>1, <1>2, SendInitsFields
<1>4. PICK k : k = p.inst[i]
  OBVIOUS
<1>5. PICK n : n = q.inst[i]
  OBVIOUS
<1>6. i \in DOMAIN p.inst /\ k.thread = t
  BY <1>1, <1>2, <1>4 DEF ThreadOk
<1>7. InitSent(x, "restart", k, n)
  BY <1>3, <1>4, <1>5, <1>6
<1>8. /\ n.thread = t /\ n.config = k.config /\ n.detaching = k.detaching
      /\ n.destroys = k.destroys /\ n.promise = k.promise /\ n.initialized
      /\ n.init = "create" => k.init = "create"
      /\ n.kill => k.kill
      /\ CanSend(x) => n.initGen = x.process
      /\ ~CanSend(x) => n.initGen = k.initGen
  BY <1>6, <1>7 DEF InitSent, SameInst
<1>9. Frame(p, q, t)
  <2>1. \A u \in DOMAIN p.threads : Similar(p.threads[u], q.threads[u])
    BY <1>2, <1>3, SimilarSelf
  <2>2. \A j \in DOMAIN p.inst :
          /\ q.inst[j].thread = p.inst[j].thread
          /\ p.inst[j].thread # t => q.inst[j] = p.inst[j]
    BY <1>3, <1>4, <1>5, <1>6, <1>8
  <2> QED BY <1>3, <2>1, <2>2 DEF Frame
<1>10. ThreadOk(q, t)
  <2>1. /\ \A j \in x.members \cup x.restart : j \in DOMAIN p.inst /\ p.inst[j].thread = t
        /\ x.process > 0
        /\ x.timers > 0 => x.cleanUp
        /\ x.cleanUp \/ x.restart # {} => x.alive /\ x.isClosing
        /\ x.restart # {} /\ x.cleanUp => x.disputed
        /\ x.late => ~x.registered /\ (x.cleanUp \/ ~x.alive \/ x.disputed)
        /\ (x.registered /\ \A j \in x.members : p.inst[j].detaching) => x.overlapped
    BY <1>1, <1>2 DEF ThreadOk
  <2>2. \A j \in DOMAIN p.inst :
          q.inst[j].thread = p.inst[j].thread /\ q.inst[j].detaching = p.inst[j].detaching
    BY <1>3, <1>4, <1>5, <1>6, <1>8
  <2>3. (x.registered /\ \A j \in x.members : q.inst[j].detaching) => x.overlapped
    BY <2>1, <2>2
  <2>4. \A j \in x.members \cup x.restart : j \in DOMAIN q.inst /\ q.inst[j].thread = t
    BY <1>3, <2>1, <2>2
  <2>5. q.threads[t] = x
    BY <1>1, <1>3
  <2> QED BY <2>1, <2>3, <2>4, <2>5 DEF ThreadOk
<1>11. ASSUME NEW j \in DOMAIN p.inst, p.inst[j].thread = t PROVE InstOk(q, m, j)
  <2>1. InstOk(p, m, j)
    BY DEF Good
  <2>2. CASE j # i
    <3>1. q.inst[j] = p.inst[j] /\ q.threads[t] = x
      BY <1>1, <1>3, <2>2
    <3> QED BY <1>1, <1>11, <2>1, <3>1, InstStays
  <2>3. CASE j = i
    <3>1. LoopOk(x, k, m[i], i) /\ (Counts(p, i) => InProcess(x, k, i))
      BY <1>1, <1>4, <1>6, <2>1, <2>3 DEF InstOk
    <3>2. x.process <= x.process
      BY <1>2 DEF Thread
    <3>3. LoopOk(x, n, m[i], i)
      BY <1>8, <3>1, <3>2 DEF LoopOk
    <3>4. InProcess(x, k, i) => InProcess(x, n, i)
      BY <1>8 DEF InProcess
    <3>5. Counts(q, i) => Counts(p, i)
      BY <1>3, <1>4, <1>5, <1>6, <1>8 DEF Counts
    <3>6. q.inst[i] = n /\ q.threads[n.thread] = x
      BY <1>1, <1>3, <1>5, <1>8
    <3> QED BY <2>3, <3>1, <3>3, <3>4, <3>5, <3>6 DEF InstOk
  <2> QED BY <2>2, <2>3
<1>12. Good(q, m)
  BY <1>3, <1>9, <1>10, <1>11, StepGood
<1>13. KeepUsages(p, q)
  <2>1. ASSUME NEW u \in DOMAIN p.threads PROVE KeepsUsage(p, q, u)
    <3>1. \A j \in DOMAIN p.inst : q.inst[j] = p.inst[j] \/ SameInst(p.inst[j], q.inst[j])
      BY <1>3 DEF InitSent
    <3> QED BY <1>2, <1>3, <3>1, KeepsUsageSame
  <2> QED BY <1>3, <2>1 DEF KeepUsages
<1> QED BY <1>3, <1>12, <1>13

\* restart(), with or without forceRestart.
Restarted(p, q, t, i) ==
  \/ ~p.threads[t].alive /\ q = Fork(p, t, {i})
  \/ /\ p.threads[t].alive
     /\ q = KillAlive(p, t, {i}, FALSE) \/ q = SendInits(p, t, {i}, "restart")

LEMMA RestartGood ==
  ASSUME NEW p, NEW m, Good(p, m), NEW t \in Threads(p), p.threads[t].registered,
         NEW i \in p.threads[t].members, NEW r, r = Marked(p, t),
         NEW q, Restarted(r, q, t, i)
  PROVE  Good(q, m) /\ DOMAIN q.inst = DOMAIN p.inst /\ KeepUsages(p, q)
<1>1. /\ Good(r, m) /\ r.inst = p.inst /\ KeepUsages(p, r)
      /\ r.threads[t].restarted /\ r.threads[t].registered /\ i \in r.threads[t].members
  BY MarkGood
<1>2. p \in Pool /\ t \in Threads(r)
  BY <1>1 DEF Good, KeepUsages, Threads
<1>3. Good(q, m) /\ DOMAIN q.inst = DOMAIN r.inst /\ KeepUsages(r, q)
  <2>1. CASE ~r.threads[t].alive /\ q = Fork(r, t, {i})
    <3>1. PICK targets : targets = {i}
      OBVIOUS
    <3>2. q = Fork(r, t, targets) /\ ~r.threads[t].alive
      BY <2>1, <3>1
    <3> QED BY <1>1, <1>2, <3>1, <3>2, RestartForksGood
  <2>2. CASE r.threads[t].alive /\ q = KillAlive(r, t, {i}, FALSE)
    <3>1. MayRestart(r, t, {i})
      BY <1>1 DEF MayRestart
    <3> QED BY <1>1, <1>2, <2>2, <3>1, KillToRestartGood
  <2>3. CASE r.threads[t].alive /\ q = SendInits(r, t, {i}, "restart")
    BY <1>1, <1>2, <2>3, RestartInitsGood
  <2> QED BY <2>1, <2>2, <2>3 DEF Restarted
<1> QED BY <1>1, <1>2, <1>3, KeepUsagesTwice

-----------------------------------------------------------------------------
(***************************************************************************)
(* threadedClass(): a new instance, and perhaps a new thread.              *)
(***************************************************************************)
LEMMA MinOfNaturals ==
  ASSUME NEW S \in SUBSET Nat, S # {}
  PROVE  Min(S) \in S
<1>1. PICK R : R = OpToRel(<, Nat)
  BY Zenon
<1>2. IsWellFoundedOn(R, Nat)
  BY <1>1, NatLessThanWellFounded, Zenon
<1>3. \A x, y \in Nat : x < y => <<x, y>> \in R
  BY <1>1 DEF OpToRel
<1>4. PICK x \in S : \A y \in S : ~(<<y, x>> \in R)
  BY <1>2, WFMin
<1>5. \A y \in S : x <= y
  <2> SUFFICES ASSUME NEW y \in S PROVE x <= y
    OBVIOUS
  <2>1. x \in Nat /\ y \in Nat /\ ~(y < x)
    BY <1>3, <1>4
  <2> QED BY <2>1
<1> QED BY <1>5 DEF Min

\* y is x, the thread that was found, or a new one.
FoundOld(config, x, y) ==
  /\ y \in Thread /\ x.registered /\ y.registered
  /\ y.name = x.name /\ y.alive = x.alive /\ y.isClosing = x.isClosing
  /\ y.cleanUp = x.cleanUp /\ y.timers = x.timers /\ y.process = x.process
  /\ y.members = x.members /\ y.restart = x.restart
  /\ y.late = x.late /\ y.overlapped = x.overlapped
  /\ y.disputed = x.disputed /\ y.restarted = x.restarted
  /\ \/ config.name # NoName /\ x.name = config.name /\ y.usage = x.usage
     \/ config.usage > 0 /\ y.usage = x.usage + config.usage /\ y.usage <= Full
IsNew(config, y) ==
  /\ y \in Thread /\ y.name = config.name /\ y.usage = UsageOf(config)
  /\ y.registered /\ y.alive /\ ~y.isClosing /\ ~y.cleanUp /\ y.timers = 0
  /\ y.process = 1 /\ y.members = {} /\ y.restart = {} /\ ~y.late

\* No thread of that name is registered, if the config has one.
NameIsFree(p, name) ==
  name # NoName =>
    \A u \in Threads(p) : p.threads[u].registered => p.threads[u].name # name

LEMMA FoundFields ==
  ASSUME NEW p \in Pool, NEW config \in Configs, NEW a, a = Found(p, config),
         NEW t, t = FoundThread(p, config)
  PROVE  /\ a \in Pool /\ a.inst = p.inst /\ t \in DOMAIN a.threads
         /\ \A u \in DOMAIN p.threads : u # t => a.threads[u] = p.threads[u]
         /\ \/ /\ t \in DOMAIN p.threads /\ DOMAIN a.threads = DOMAIN p.threads
               /\ FoundOld(config, p.threads[t], a.threads[t])
            \/ /\ t \notin DOMAIN p.threads /\ DOMAIN a.threads = DOMAIN p.threads \cup {t}
               /\ IsNew(config, a.threads[t])
               /\ NameIsFree(p, config.name)
<1>1. /\ config.usage \in Int /\ config.name \in STRING /\ Full \in Int
  BY ConfigsAssumption, FullAssumption
<1>2. PICK free : free = Free(p, config)
  OBVIOUS
<1>3. free \in SUBSET Nat /\ free \subseteq DOMAIN p.threads
  BY <1>2, PoolTyped DEF Free, Threads
<1>4. CASE free = {}
  <2>1. PICK y : y = NewThread(config)
    OBVIOUS
  <2>2. IsNew(config, y)
    BY <1>1, <2>1, UsageOfConfig DEF NewThread, Thread, IsNew
  <2>3. PICK s : s = Append(p.threads, y)
    OBVIOUS
  <2>4. t = Len(p.threads) + 1
    BY <1>2, <1>4 DEF FoundThread
  <2>5. /\ s \in Seq(Thread) /\ DOMAIN s = 1..t /\ DOMAIN p.threads = 1..(t - 1)
        /\ t \in Nat /\ t > 0
        /\ \A u \in DOMAIN p.threads : s[u] = p.threads[u]
        /\ s[t] = y
    <3>1. p.threads \in Seq(Thread) /\ y \in Thread
      BY <2>2, PoolTyped DEF IsNew
    <3>2. Len(p.threads) \in Nat /\ DOMAIN p.threads = 1..Len(p.threads)
      BY PoolTyped
    <3>3. /\ s \in Seq(Thread) /\ Len(s) = Len(p.threads) + 1
          /\ \A u \in 1..Len(p.threads) : s[u] = p.threads[u]
          /\ s[Len(p.threads) + 1] = y
      BY <2>3, <3>1, AppendProperties
    <3>4. DOMAIN s = 1..Len(s)
      BY <3>3, LenProperties
    <3> QED BY <2>4, <3>2, <3>3, <3>4
  <2>6. a = [p EXCEPT !.threads = s]
    BY <1>2, <1>4, <2>1, <2>3 DEF Found
  <2>7. a \in Pool /\ a.inst = p.inst /\ a.threads = s
    BY <2>5, <2>6 DEF Pool
  <2>8. NameIsFree(p, config.name)
    BY <1>2, <1>4 DEF NameIsFree, Free
  <2>9. t \in 1..t /\ t \notin 1..(t - 1) /\ 1..t = 1..(t - 1) \cup {t}
    BY <2>5
  <2> QED BY <2>2, <2>5, <2>7, <2>8, <2>9
<1>5. CASE free # {}
  <2>1. t \in free /\ t \in DOMAIN p.threads /\ p.threads[t].registered
    <3>1. t = Min(free)
      BY <1>2, <1>5 DEF FoundThread
    <3>2. t \in free
      BY <1>3, <1>5, <3>1, MinOfNaturals
    <3> QED BY <1>2, <1>3, <3>2 DEF Free
  <2>2. PICK x : x = p.threads[t] /\ x \in Thread
    BY <2>1, PoolTyped
  <2>3. CASE config.name # NoName
    <3>1. a = p
      BY <1>2, <1>5, <2>3 DEF Found
    <3>2. x.name = config.name
      BY <1>2, <2>1, <2>2, <2>3 DEF Free
    <3> QED BY <2>1, <2>2, <2>3, <3>1, <3>2 DEF FoundOld
  <2>4. CASE config.name = NoName
    <3>1. PICK usage \in Int : usage = x.usage + config.usage
      <4>1. x.usage \in Int
        BY <2>2 DEF Thread
      <4> QED BY <1>1, <4>1
    <3>2. PICK y : y = [x EXCEPT !.usage = usage]
      OBVIOUS
    <3>3. y \in Thread /\ FoundOld(config, x, y)
      <4>1. config.usage > 0 /\ x.usage + config.usage <= Full
        BY <1>2, <2>1, <2>2, <2>4 DEF Free, HasRoom
      <4> QED BY <2>1, <2>2, <3>1, <3>2, <4>1 DEF Thread, FoundOld
    <3>4. a = SetThread(p, t, y)
      <4>1. t = Min(Free(p, config)) /\ Free(p, config) # {}
        BY <1>2, <1>5 DEF FoundThread
      <4>2. a = [p EXCEPT !.threads[t].usage = @ + config.usage]
        BY <2>4, <4>1 DEF Found
      <4> QED BY <2>2, <3>1, <3>2, <4>2 DEF SetThread
    <3>5. /\ a \in Pool /\ a.inst = p.inst /\ DOMAIN a.threads = DOMAIN p.threads
          /\ a.threads[t] = y
          /\ \A u \in DOMAIN p.threads : u # t => a.threads[u] = p.threads[u]
      BY <2>1, <3>3, <3>4, SetThreadFields
    <3> QED BY <2>1, <2>2, <3>3, <3>5
  <2> QED BY <2>3, <2>4
<1> QED BY <1>4, <1>5

\* The thread with one more instance.
ThreadGets(z, y, i) ==
  /\ y \in Thread /\ y.members = z.members \cup {i} /\ y.overlapped = z.overlapped
  /\ y.name = z.name /\ y.registered = z.registered /\ y.alive = z.alive
  /\ y.isClosing = z.isClosing /\ y.cleanUp = z.cleanUp
  /\ y.timers = z.timers /\ y.process = z.process
  /\ y.restart = z.restart /\ y.late = z.late /\ y.usage = z.usage
  /\ y.disputed = z.disputed /\ y.restarted = z.restarted

\* The pool with a new instance of config in the thread t of the pool a.
Joined(a, config, t) ==
  [a EXCEPT !.threads[t].members = @ \cup {Len(a.inst) + 1},
            !.inst = Append(@, NewInst(config, t))]

LEMMA JoinedFields ==
  ASSUME NEW a \in Pool, NEW config \in Configs, NEW t \in DOMAIN a.threads,
         NEW i, i = Len(a.inst) + 1, i \in Instances,
         NEW b, b = Joined(a, config, t)
  PROVE  /\ b \in Pool /\ DOMAIN b.threads = DOMAIN a.threads
         /\ ThreadGets(a.threads[t], b.threads[t], i)
         /\ \A u \in DOMAIN a.threads : u # t => b.threads[u] = a.threads[u]
         /\ DOMAIN b.inst = DOMAIN a.inst \cup {i} /\ i \notin DOMAIN a.inst
         /\ \A j \in DOMAIN a.inst : b.inst[j] = a.inst[j]
         /\ b.inst[i] = NewInst(config, t) /\ b.inst[i] \in Inst
<1>1. PICK x : x = a.threads[t] /\ x \in Thread
  BY PoolTyped
<1>2. PICK y : y = [x EXCEPT !.members = @ \cup {i}]
  OBVIOUS
<1>3. y \in Thread /\ ThreadGets(x, y, i)
  BY <1>1, <1>2 DEF Thread, ThreadGets
<1>4. PICK c : c = SetThread(a, t, y)
  OBVIOUS
<1>5. /\ c \in Pool /\ c.inst = a.inst /\ DOMAIN c.threads = DOMAIN a.threads
      /\ c.threads[t] = y
      /\ \A u \in DOMAIN a.threads : u # t => c.threads[u] = a.threads[u]
  BY <1>3, <1>4, SetThreadFields
<1>6. PICK n : n = NewInst(config, t)
  OBVIOUS
<1>7. n \in Inst
  <2>1. t \in Nat \ {0}
    BY PoolTyped
  <2> QED BY <1>6, <2>1 DEF NewInst, Inst
<1>8. PICK s : s = Append(a.inst, n)
  OBVIOUS
<1>9. /\ s \in Seq(Inst) /\ DOMAIN s = 1..i /\ DOMAIN a.inst = 1..(i - 1) /\ i \in Nat /\ i > 0
      /\ \A j \in DOMAIN a.inst : s[j] = a.inst[j]
      /\ s[i] = n
  <2>1. Len(a.inst) \in Nat /\ DOMAIN a.inst = 1..Len(a.inst) /\ a.inst \in Seq(Inst)
    BY PoolTyped
  <2>2. /\ s \in Seq(Inst) /\ Len(s) = Len(a.inst) + 1
        /\ \A j \in 1..Len(a.inst) : s[j] = a.inst[j]
        /\ s[Len(a.inst) + 1] = n
    BY <1>7, <1>8, <2>1, AppendProperties
  <2>3. DOMAIN s = 1..Len(s)
    BY <2>2, LenProperties
  <2> QED BY <2>1, <2>2, <2>3
<1>10. b = [c EXCEPT !.inst = s]
  BY <1>1, <1>2, <1>4, <1>6, <1>8 DEF Joined, SetThread, Pool
<1>11. b \in Pool /\ b.threads = c.threads /\ b.inst = s
  BY <1>5, <1>9, <1>10 DEF Pool
<1>12. i \notin 1..(i - 1) /\ 1..i = 1..(i - 1) \cup {i}
  BY <1>9
<1>13. DOMAIN b.inst = DOMAIN a.inst \cup {i} /\ i \notin DOMAIN a.inst
  BY <1>9, <1>11, <1>12
<1> QED BY <1>1, <1>3, <1>5, <1>6, <1>7, <1>9, <1>11, <1>13

\* n is a new instance of the thread y.
Newcomer(config, y, n, t) ==
  /\ n.config = config /\ n.thread = t /\ ~n.detaching /\ ~n.kill /\ n.destroys = 0 /\ n.initialized
  /\ CanSend(y) => n.initGen = y.process
  /\ ~CanSend(y) => n.initGen = 0 /\ n.promise = "rejected"
  /\ n.init = "create" => n.promise = "pending"

JoinedTo(p, q, config, t, i) ==
  /\ q \in Pool /\ i \notin DOMAIN p.inst
  /\ \A u \in DOMAIN p.threads : u # t => q.threads[u] = p.threads[u]
  /\ \A j \in DOMAIN p.inst : q.inst[j] = p.inst[j]
  /\ DOMAIN q.inst = DOMAIN p.inst \cup {i}
  /\ DOMAIN q.threads = DOMAIN p.threads \cup {t}
  /\ Newcomer(config, q.threads[t], q.inst[i], t)
  /\ \E z \in Thread :
       /\ ThreadGets(z, q.threads[t], i)
       /\ \/ t \in DOMAIN p.threads /\ FoundOld(config, p.threads[t], z)
          \/ t \notin DOMAIN p.threads /\ IsNew(config, z) /\ NameIsFree(p, config.name)

LEMMA ThreadedClassJoins ==
  ASSUME NEW p \in Pool, NEW config \in Configs,
         NEW i, i = Len(p.inst) + 1, i \in Instances,
         NEW t, t = FoundThread(p, config), NEW b, b = Joined(Found(p, config), config, t),
         NEW q, q = SendInits(b, t, {i}, "create")
  PROVE  JoinedTo(p, q, config, t, i)
<1>2. PICK a : a = Found(p, config)
  OBVIOUS
<1>3. /\ a \in Pool /\ a.inst = p.inst /\ t \in DOMAIN a.threads
      /\ \A u \in DOMAIN p.threads : u # t => a.threads[u] = p.threads[u]
      /\ \/ /\ t \in DOMAIN p.threads /\ DOMAIN a.threads = DOMAIN p.threads
            /\ FoundOld(config, p.threads[t], a.threads[t])
         \/ /\ t \notin DOMAIN p.threads /\ DOMAIN a.threads = DOMAIN p.threads \cup {t}
            /\ IsNew(config, a.threads[t])
            /\ NameIsFree(p, config.name)
  BY <1>2, FoundFields
<1>4. /\ b \in Pool /\ DOMAIN b.threads = DOMAIN a.threads
      /\ ThreadGets(a.threads[t], b.threads[t], i)
      /\ \A u \in DOMAIN a.threads : u # t => b.threads[u] = a.threads[u]
      /\ DOMAIN b.inst = DOMAIN p.inst \cup {i} /\ i \notin DOMAIN p.inst
      /\ \A j \in DOMAIN p.inst : b.inst[j] = p.inst[j]
      /\ b.inst[i] = NewInst(config, t) /\ b.inst[i] \in Inst
  <2>1. i = Len(a.inst) + 1 /\ a \in Pool /\ t \in DOMAIN a.threads
    BY <1>3
  <2>2. b = Joined(a, config, t)
    BY <1>2
  <2>3. /\ b \in Pool /\ DOMAIN b.threads = DOMAIN a.threads
        /\ ThreadGets(a.threads[t], b.threads[t], i)
        /\ \A u \in DOMAIN a.threads : u # t => b.threads[u] = a.threads[u]
        /\ DOMAIN b.inst = DOMAIN a.inst \cup {i} /\ i \notin DOMAIN a.inst
        /\ \A j \in DOMAIN a.inst : b.inst[j] = a.inst[j]
        /\ b.inst[i] = NewInst(config, t) /\ b.inst[i] \in Inst
    BY <2>1, <2>2, JoinedFields
  <2> QED BY <1>3, <2>3
<1>6. /\ q \in Pool /\ q.threads = b.threads /\ DOMAIN q.inst = DOMAIN b.inst
      /\ \A j \in DOMAIN b.inst :
           /\ j \notin {i} => q.inst[j] = b.inst[j]
           /\ j \in {i} => InitSent(b.threads[t], "create", b.inst[j], q.inst[j])
  BY <1>3, <1>4, SendInitsFields
<1>7. PICK z : z = a.threads[t] /\ z \in Thread
  BY <1>3, PoolTyped
<1>8. PICK y : y = q.threads[t]
  OBVIOUS
<1>9. ThreadGets(z, y, i)
  BY <1>4, <1>6, <1>7, <1>8
<1>10. PICK n : n = q.inst[i]
  OBVIOUS
<1>11. Newcomer(config, y, n, t)
  <2>1. PICK k : k = NewInst(config, t)
    OBVIOUS
  <2>2. /\ k.config = config /\ k.thread = t /\ k.detaching = FALSE /\ k.kill = FALSE
        /\ k.destroys = 0 /\ k.initGen = 0 /\ k.init = "none" /\ k.promise = "pending"
    BY <2>1 DEF NewInst
  <2>3. InitSent(y, "create", k, n)
    BY <1>4, <1>6, <1>8, <1>10, <2>1, ZenonT(30)
  <2> QED BY <2>2, <2>3 DEF InitSent, SameInst, Newcomer
<1>12. \A u \in DOMAIN p.threads : u # t => q.threads[u] = p.threads[u]
  BY <1>3, <1>4, <1>6
<1>13. \A j \in DOMAIN p.inst : q.inst[j] = p.inst[j]
  <2> SUFFICES ASSUME NEW j \in DOMAIN p.inst PROVE q.inst[j] = p.inst[j]
    OBVIOUS
  <2>1. j \in DOMAIN b.inst /\ j # i
    BY <1>4
  <2> QED BY <1>4, <1>6, <2>1
<1>14. DOMAIN q.threads = DOMAIN p.threads \cup {t} /\ DOMAIN q.inst = DOMAIN p.inst \cup {i}
  BY <1>3, <1>4, <1>6
<1> QED BY <1>3, <1>4, <1>6, <1>7, <1>8, <1>9, <1>10, <1>11, <1>12, <1>13, <1>14 DEF JoinedTo

LEMMA JoinedGood ==
  ASSUME NEW p, NEW m, Good(p, m), NEW q, NEW config, NEW t, NEW i,
         JoinedTo(p, q, config, t, i), m[i].state = "none"
  PROVE  Good(q, m)
<1>6. q \in Pool
  BY DEF JoinedTo
<1>8. PICK y : y = q.threads[t]
  OBVIOUS
<1>10. PICK n : n = q.inst[i]
  OBVIOUS
<1>11. /\ n.thread = t /\ ~n.detaching /\ ~n.kill /\ n.destroys = 0 /\ n.initialized
       /\ CanSend(y) => n.initGen = y.process
       /\ ~CanSend(y) => n.initGen = 0 /\ n.promise = "rejected"
       /\ n.init = "create" => n.promise = "pending"
  BY <1>8, <1>10 DEF JoinedTo, Newcomer
<1>12. /\ \A u \in DOMAIN p.threads : u # t => q.threads[u] = p.threads[u]
       /\ \A j \in DOMAIN p.inst : q.inst[j] = p.inst[j]
       /\ DOMAIN q.inst = DOMAIN p.inst \cup {i}
       /\ DOMAIN q.threads = DOMAIN p.threads \cup {t}
  BY DEF JoinedTo
<1>7. PICK z \in Thread :
        /\ ThreadGets(z, y, i)
        /\ \/ t \in DOMAIN p.threads /\ FoundOld(config, p.threads[t], z)
           \/ t \notin DOMAIN p.threads /\ IsNew(config, z) /\ NameIsFree(p, config.name)
  BY <1>8 DEF JoinedTo
<1>9. /\ y \in Thread /\ y.members = z.members \cup {i} /\ y.overlapped = z.overlapped
      /\ y.name = z.name /\ y.registered = z.registered /\ y.alive = z.alive
      /\ y.isClosing = z.isClosing /\ y.cleanUp = z.cleanUp
      /\ y.timers = z.timers /\ y.process = z.process
      /\ y.restart = z.restart /\ y.late = z.late
      /\ y.disputed = z.disputed /\ y.restarted = z.restarted
  BY <1>7 DEF ThreadGets
<1>13. \/ t \in DOMAIN p.threads /\ FoundOld(config, p.threads[t], z)
       \/ t \notin DOMAIN p.threads /\ IsNew(config, z) /\ NameIsFree(p, config.name)
  BY <1>7
<1>14. \A u \in Threads(p) : ThreadOk(p, u)
  BY DEF Good
<1>15. ThreadOk(q, t)
  <2>1. \A j \in y.members \cup y.restart : j \in DOMAIN q.inst /\ q.inst[j].thread = t
    <3>1. \A j \in z.members \cup z.restart : j \in DOMAIN p.inst /\ p.inst[j].thread = t
      BY <1>13, <1>14 DEF ThreadOk, FoundOld, IsNew, Threads
    <3> QED BY <1>9, <1>10, <1>11, <1>12, <3>1
  <2>2. /\ y.process > 0
        /\ y.timers > 0 => y.cleanUp
        /\ y.cleanUp \/ y.restart # {} => y.alive /\ y.isClosing
        /\ y.restart # {} /\ y.cleanUp => y.disputed
        /\ ~y.late
    BY <1>9, <1>13, <1>14 DEF ThreadOk, FoundOld, IsNew, Threads
  <2>3. ~\A j \in y.members : q.inst[j].detaching
    BY <1>9, <1>10, <1>11
  <2> QED BY <1>8, <2>1, <2>2, <2>3 DEF ThreadOk
<1>16. ASSUME NEW u \in DOMAIN p.threads, u # t PROVE ThreadOk(q, u)
  <2>1. ThreadOk(p, u) /\ q.threads[u] = p.threads[u]
    BY <1>12, <1>14, <1>16 DEF Threads
  <2>2. \A j \in p.threads[u].members \cup p.threads[u].restart :
          j \in DOMAIN p.inst /\ q.inst[j] = p.inst[j]
    BY <1>12, <2>1 DEF ThreadOk
  <2> QED BY <1>12, <2>1, <2>2 DEF ThreadOk
<1>17. InstOk(q, m, i)
  <2>1. CanSend(y) => y.restart = {}
    BY <1>8, <1>15 DEF ThreadOk, CanSend
  <2>2. Counts(q, i) => CanSend(y)
    BY <1>10, <1>11 DEF Counts
  <2>3. n.initGen <= y.process
    BY <1>9, <1>11 DEF Thread
  <2>4. LoopOk(y, n, m[i], i)
    BY <1>11, <2>3 DEF LoopOk
  <2>5. CanSend(y) => InProcess(y, n, i)
    BY <1>11, <2>1 DEF InProcess
  <2>6. q.inst[i] = n /\ q.threads[n.thread] = y
    BY <1>8, <1>10, <1>11
  <2> QED BY <2>2, <2>4, <2>5, <2>6 DEF InstOk
<1>18. ASSUME NEW j \in DOMAIN p.inst PROVE InstOk(q, m, j)
  <2>1. PICK u \in DOMAIN p.threads : u = p.inst[j].thread
    BY DEF Good, Threads
  <2>2. PICK x : x = p.threads[u]
    OBVIOUS
  <2>3. PICK w : w = q.threads[u]
    OBVIOUS
  <2>4. PICK k : k = p.inst[j]
    OBVIOUS
  <2>5. k.thread = u /\ q.inst[j] = k /\ j # i
    BY <1>12, <2>1, <2>4 DEF JoinedTo
  <2>6. /\ j \in w.members <=> j \in x.members
        /\ w.process = x.process /\ w.restart = x.restart /\ w.restarted = x.restarted
        /\ CanSend(w) <=> CanSend(x)
    <3>1. CASE u = t
      BY <1>8, <1>9, <1>13, <2>1, <2>2, <2>3, <2>5, <3>1 DEF FoundOld, CanSend
    <3>2. CASE u # t
      BY <1>12, <2>2, <2>3, <3>2
    <3> QED BY <3>1, <3>2
  <2>7. LoopOk(x, k, m[j], j) /\ (Counts(p, j) => InProcess(x, k, j))
    BY <2>1, <2>2, <2>4 DEF Good, InstOk
  <2>8. Counts(q, j) => Counts(p, j)
    BY <2>1, <2>2, <2>3, <2>4, <2>5, <2>6 DEF Counts
  <2>9. LoopOk(w, k, m[j], j)
    BY <2>6, <2>7 DEF LoopOk
  <2>10. InProcess(x, k, j) => InProcess(w, k, j)
    BY <2>6 DEF InProcess
  <2>11. q.threads[k.thread] = w
    BY <2>3, <2>5
  <2> QED BY <2>5, <2>7, <2>8, <2>9, <2>10, <2>11 DEF InstOk
<1>19. \A u, w \in Threads(p) : SameId(q, u, w) <=> SameId(p, u, w)
  <2>1. \A u \in Threads(p) : q.threads[u].name = p.threads[u].name
    BY <1>8, <1>9, <1>12, <1>13 DEF FoundOld, Threads
  <2> QED BY <2>1 DEF SameId
<1>20. OneRegistered(q)
  <2>1. \A u \in Threads(p) :
          q.threads[u].registered /\ t \in Threads(p) => p.threads[u].registered
    BY <1>12, <1>13 DEF FoundOld, Threads
  <2>2. CASE t \in DOMAIN p.threads
    <3>1. Threads(q) = Threads(p)
      BY <1>12, <2>2 DEF Threads
    <3> QED BY <1>19, <2>1, <2>2, <3>1 DEF Good, OneRegistered, Threads
  <2>3. CASE t \notin DOMAIN p.threads
    <3>1. \A u \in Threads(p) : q.threads[u] = p.threads[u]
      BY <1>12, <2>3 DEF Threads
    <3>2. \A u \in Threads(p) : q.threads[u].registered => ~SameId(q, u, t) /\ ~SameId(q, t, u)
      <4>1. z.name = config.name /\ NameIsFree(p, config.name)
        BY <1>13, <2>3 DEF IsNew
      <4> QED BY <1>8, <1>9, <2>3, <3>1, <4>1 DEF NameIsFree, SameId, Threads
    <3> SUFFICES ASSUME NEW u \in Threads(q), NEW w \in Threads(q),
                        q.threads[u].registered, q.threads[w].registered, SameId(q, u, w)
                 PROVE  u = w
      BY DEF OneRegistered
    <3>3. CASE u \in Threads(p) /\ w \in Threads(p)
      BY <1>19, <3>1, <3>3 DEF Good, OneRegistered
    <3>4. u \in Threads(p) \cup {t} /\ w \in Threads(p) \cup {t}
      BY <1>12 DEF Threads
    <3> QED BY <3>2, <3>3, <3>4
  <2> QED BY <2>2, <2>3
<1>21. LostToLate(q)
  <2> SUFFICES ASSUME NEW u \in Threads(q), Stray(q.threads[u])
               PROVE  \E w \in Threads(q) : SameId(q, u, w) /\ q.threads[w].late
    BY DEF LostToLate
  <2>1. u # t
    <3>1. y.registered
      BY <1>9, <1>13 DEF FoundOld, IsNew
    <3> QED BY <1>8, <3>1 DEF Stray
  <2>2. u \in Threads(p) /\ q.threads[u] = p.threads[u]
    BY <1>12, <2>1 DEF Threads
  <2>3. PICK w \in Threads(p) : SameId(p, u, w) /\ p.threads[w].late
    BY <2>2 DEF Good, LostToLate
  <2>4. q.threads[w].late
    BY <1>8, <1>9, <1>12, <1>13, <2>3 DEF FoundOld, Threads
  <2>5. w \in Threads(q)
    BY <1>12 DEF Threads
  <2> QED BY <1>19, <2>2, <2>3, <2>4, <2>5
<1>22. \A j \in DOMAIN q.inst : q.inst[j].thread \in Threads(q)
  BY <1>10, <1>11, <1>12 DEF Good, Threads
<1>23. /\ \A u \in Threads(q) : ThreadOk(q, u)
       /\ \A j \in DOMAIN q.inst : InstOk(q, m, j)
  BY <1>12, <1>15, <1>16, <1>17, <1>18 DEF Threads
<1> QED BY <1>6, <1>12, <1>20, <1>21, <1>22, <1>23 DEF Good

-----------------------------------------------------------------------------
(***************************************************************************)
(* Every step keeps the invariant.                                         *)
(***************************************************************************)
LEMMA InitGood ==
  ASSUME Init
  PROVE  IInv
<1>1. /\ pool = [threads |-> <<>>, inst |-> <<>>] /\ faults = 0 /\ commands = 0
      /\ monitor = [i \in Instances |-> NotStarted]
  BY DEF Init, PoolInit
<1>2. /\ pool \in Pool /\ Threads(pool) = {} /\ DOMAIN pool.inst = {}
  BY <1>1 DEF Pool, Threads
<1>3. Good(pool, monitor)
  BY <1>2 DEF Good, OneRegistered, LostToLate
<1>4. NotStarted \in Monitor /\ NotStarted.state = "none"
  BY DEF NotStarted, Monitor
<1>5. monitor \in [Instances -> Monitor] /\ \A i \in Instances : monitor[i].state = "none"
  BY <1>1, <1>4
<1> QED BY <1>1, <1>2, <1>3, <1>5 DEF IInv, Created

\* What a step of the pool that creates no instance leaves as it is.
LEMMA PoolStep ==
  ASSUME IInv, DOMAIN pool'.inst = DOMAIN pool.inst, Good(pool', monitor),
         faults' \in {faults, faults + 1}, commands' \in {commands, commands + 1},
         UNCHANGED monitor
  PROVE  IInv'
<1>1. Created' = Created /\ faults' \in Nat /\ commands' \in Nat
  BY DEF IInv, Created
<1>2. Good(pool', monitor')
  <2>1. PICK m : m = monitor
    OBVIOUS
  <2>2. m = monitor'
    BY <2>1
  <2>3. Good(pool', m)
    BY <2>1
  <2> QED BY <2>2, <2>3
<1> QED BY <1>1, <1>2 DEF IInv

\* What a step of one loop leaves as it is.
LEMMA LoopStep ==
  ASSUME IInv, NEW i \in Created, NEW x \in Monitor, monitor' = [monitor EXCEPT ![i] = x],
         DOMAIN pool'.inst = DOMAIN pool.inst, Good(pool', monitor'), Step
  PROVE  IInv'
<1>1. Created' = Created /\ faults' \in Nat /\ commands' \in Nat
  BY DEF IInv, Created, Step
<1>2. monitor' \in [Instances -> Monitor]
  BY DEF IInv
<1>3. \A j \in Instances \ Created : monitor'[j].state = "none"
  BY DEF IInv
<1> QED BY <1>1, <1>2, <1>3 DEF IInv

\* A loop that goes on or ends.
LEMMA LoopGood ==
  ASSUME NEW p, NEW m \in [Instances -> Monitor], Good(p, m), DOMAIN p.inst \subseteq Instances,
         NEW i \in DOMAIN p.inst, NEW x \in Monitor, NEW k, k = p.inst[i],
         \/ x.state = "ended"
         \/ /\ x.state \in {"sleeping", "pinging"} /\ k.promise = "resolved"
            /\ x.state = "pinging" /\ ~x.received =>
                 k.destroys > 0 \/ i \notin p.threads[k.thread].members,
         NEW n, n = [m EXCEPT ![i] = x]
  PROVE  Good(p, n)
<1>1. n[i] = x /\ \A j \in DOMAIN p.inst : j # i => n[j] = m[j]
  OBVIOUS
<1>2. ASSUME NEW j \in DOMAIN p.inst
      PROVE  LoopOk(p.threads[p.inst[j].thread], p.inst[j], n[j], j)
  <2>1. LoopOk(p.threads[p.inst[j].thread], p.inst[j], m[j], j)
    BY DEF Good, InstOk
  <2>2. PICK th : th = p.threads[p.inst[j].thread]
    OBVIOUS
  <2>3. CASE j = i
    <3>1. LoopOk(th, k, m[i], i) /\ k = p.inst[j]
      BY <2>1, <2>2, <2>3
    <3>2. x.state = "pinging" /\ ~x.received => k.destroys > 0 \/ i \notin th.members
      BY <2>2, <2>3
    <3>3. x.state \in {"sleeping", "pinging"} => k.promise = "resolved"
      OBVIOUS
    <3>4. LoopOk(th, k, x, i)
      BY <3>1, <3>2, <3>3 DEF LoopOk
    <3> QED BY <1>1, <2>2, <2>3, <3>1, <3>4
  <2>4. CASE j # i
    BY <1>1, <2>1, <2>4
  <2> QED BY <2>3, <2>4
<1> QED BY <1>2, MonitorStepGood

LEMMA FailsStep ==
  ASSUME IInv, NEW i \in Created, Fails(i), Step
  PROVE  IInv'
<1>1. PICK p : p = pool
  OBVIOUS
<1>2. PICK m : m = monitor
  OBVIOUS
<1>3. PICK q : q = IF CanSend(ThreadOf(i)) THEN ChildHasCrashed(pool, pool.inst[i].thread)
                   ELSE pool
  OBVIOUS
<1>4. q = pool'
  BY <1>3 DEF Fails
<1>5. /\ Good(p, m) /\ DOMAIN p.inst \subseteq Instances /\ i \in DOMAIN p.inst
      /\ m \in [Instances -> Monitor] /\ p.inst[i].thread \in Threads(p)
  BY <1>1, <1>2 DEF IInv, Created, Good
<1>6. Good(q, m) /\ q.inst = p.inst
  <2>1. PICK t : t = p.inst[i].thread
    OBVIOUS
  <2>2. CASE CanSend(p.threads[t])
    <3>1. q = ChildHasCrashed(p, t)
      BY <1>1, <1>3, <2>1, <2>2 DEF ThreadOf
    <3> QED BY <1>5, <2>1, <2>2, <3>1, CrashKillsGood
  <2>3. CASE ~CanSend(p.threads[t])
    <3>1. q = p
      BY <1>1, <1>3, <2>1, <2>3 DEF ThreadOf
    <3> QED BY <1>5, <3>1
  <2> QED BY <2>2, <2>3
<1>7. Ended \in Monitor /\ Ended.state = "ended"
  BY DEF Ended, Monitor
<1>8. PICK n : n = [m EXCEPT ![i] = Ended]
  OBVIOUS
<1>9. Good(q, n)
  BY <1>5, <1>6, <1>7, <1>8, LoopGood
<1>10. n = monitor'
  BY <1>2, <1>8 DEF Fails
<1>11. Good(pool', monitor')
  BY <1>4, <1>9, <1>10
<1>12. DOMAIN pool'.inst = DOMAIN pool.inst
  BY <1>1, <1>4, <1>6
<1> QED BY <1>7, <1>11, <1>12, LoopStep DEF Fails

LEMMA ThreadedClassStep ==
  ASSUME IInv, NEW config \in Configs, ThreadedClass(config), Unwatched
  PROVE  IInv'
<1>1. PICK p : p = pool
  OBVIOUS
<1>2. PICK m : m = monitor
  OBVIOUS
<1>3. PICK i : i = Len(p.inst) + 1
  OBVIOUS
<1>4. PICK t : t = FoundThread(p, config)
  OBVIOUS
<1>5. PICK b : b = Joined(Found(p, config), config, t)
  OBVIOUS
<1>6. PICK q : q = SendInits(b, t, {i}, "create")
  OBVIOUS
<1>7. /\ Good(p, m) /\ p \in Pool /\ DOMAIN p.inst \subseteq Instances
      /\ m \in [Instances -> Monitor]
      /\ \A j \in Instances \ DOMAIN p.inst : m[j].state = "none"
  BY <1>1, <1>2 DEF IInv, Created, Good
<1>8. i \in Instances /\ q = pool' /\ Step
  <2>1. PICK a : a = Found(p, config)
    OBVIOUS
  <2>2. a.inst = p.inst
    BY <1>4, <1>7, <2>1, FoundFields
  <2>3. b = [a EXCEPT !.threads[t].members = @ \cup {i}, !.inst = Append(@, NewInst(config, t))]
    BY <1>3, <1>5, <2>1, <2>2 DEF Joined
  <2> QED BY <1>1, <1>3, <1>4, <1>6, <2>1, <2>3, Zenon DEF ThreadedClass
<1>9. JoinedTo(p, q, config, t, i)
  BY <1>3, <1>4, <1>5, <1>6, <1>7, <1>8, ThreadedClassJoins
<1>10. DOMAIN q.inst = DOMAIN p.inst \cup {i} /\ i \notin DOMAIN p.inst
  BY <1>9 DEF JoinedTo
<1>11. Good(q, m)
  BY <1>7, <1>8, <1>9, <1>10, JoinedGood
<1>12. Good(pool', monitor')
  <2>1. m = monitor'
    BY <1>2 DEF Unwatched
  <2> QED BY <1>8, <1>11, <2>1
<1>13. Created' = Created \cup {i}
  BY <1>1, <1>8, <1>10 DEF Created
<1>14. /\ Created' \subseteq Instances
       /\ \A j \in Instances \ Created' : monitor'[j].state = "none"
       /\ monitor' \in [Instances -> Monitor]
  BY <1>8, <1>13 DEF IInv, Unwatched
<1>15. faults' \in Nat /\ commands' \in Nat
  BY <1>8 DEF IInv, Step
<1> QED BY <1>12, <1>14, <1>15 DEF IInv

\* A step of the pool.
LEMMA PoolSteps ==
  ASSUME IInv, Unwatched,
         \/ \E i \in Created : ConstructorThrows(i)
         \/ \E i \in Created : Destroy(i)
         \/ DestroyAll
         \/ \E i \in Created, forceRestart \in BOOLEAN : Restart(i, forceRestart)
         \/ \E t \in Threads(pool) : KillTimeout(t)
         \/ \E t \in Threads(pool) : Terminated(t)
         \/ \E t \in Threads(pool) : Crash(t)
         \/ \E t \in Threads(pool) : Freeze(t)
  PROVE  IInv'
<1>1. PICK p : p = pool
  OBVIOUS
<1>2. PICK m : m = monitor
  OBVIOUS
<1>3. Good(p, m) /\ Created = DOMAIN p.inst
  BY <1>1, <1>2 DEF IInv, Created
<1> SUFFICES /\ \E q : q = pool' /\ Good(q, m) /\ DOMAIN q.inst = DOMAIN p.inst
             /\ faults' \in {faults, faults + 1} /\ commands' \in {commands, commands + 1}
  <2>1. ASSUME NEW q, q = pool', Good(q, m), DOMAIN q.inst = DOMAIN p.inst
        PROVE  Good(pool', monitor) /\ DOMAIN pool'.inst = DOMAIN pool.inst
    BY <1>1, <1>2, <2>1
  <2> QED BY <2>1, PoolStep DEF Unwatched
<1>4. ASSUME NEW i \in Created, ConstructorThrows(i)
      PROVE  \E q : q = pool' /\ Good(q, m) /\ DOMAIN q.inst = DOMAIN p.inst
  <2>1. PICK q : q = Replied(p, i, "rejected")
    OBVIOUS
  <2>2. q = pool'
    BY <1>1, <1>4, <2>1, Zenon DEF ConstructorThrows, InitReply, Replied, Creates, Awaits
  <2>3. Good(q, m) /\ DOMAIN q.inst = DOMAIN p.inst
    BY <1>3, <2>1, ReplyGood
  <2> QED BY <2>2, <2>3
<1>5. ASSUME NEW i \in Created, Destroy(i)
      PROVE  \E q : q = pool' /\ Good(q, m) /\ DOMAIN q.inst = DOMAIN p.inst
  <2>1. PICK t : t = p.inst[i].thread
    OBVIOUS
  <2>2. PICK q : q = IF IsLast(p.threads[t]) THEN KillChild(DestroyedOnce(p, i), t)
                     ELSE Leave(DestroyedOnce(p, i), t, i)
    OBVIOUS
  <2>3. DestroyedOnce(p, i) = [p EXCEPT !.inst[i].destroys = @ + 1]
    BY DEF DestroyedOnce, SetInst
  <2>4. /\ p.threads[t].registered /\ i \in p.threads[t].members
        /\ q = pool'
    BY <1>1, <1>5, <2>1, <2>2, <2>3, Zenon DEF Destroy
  <2>5. Good(q, m) /\ DOMAIN q.inst = DOMAIN p.inst
    BY <1>3, <2>1, <2>2, <2>4, DestroyGood
  <2> QED BY <2>4, <2>5
<1>6. ASSUME NEW t \in Threads(pool), KillTimeout(t)
      PROVE  \E q : q = pool' /\ Good(q, m) /\ DOMAIN q.inst = DOMAIN p.inst
  <2>1. PICK q : q = TimedOut(p, t)
    OBVIOUS
  <2>2. q = pool' /\ p.threads[t].timers > 0
    BY <1>1, <1>6, <2>1, Zenon DEF KillTimeout, TimedOut
  <2>3. Good(q, m) /\ DOMAIN q.inst = DOMAIN p.inst
    BY <1>1, <1>3, <2>1, <2>2, KillTimeoutGood
  <2> QED BY <2>2, <2>3
<1>7. ASSUME NEW t \in Threads(pool), Terminated(t) \/ Crash(t)
      PROVE  \E q : q = pool' /\ Good(q, m) /\ DOMAIN q.inst = DOMAIN p.inst
  <2>1. PICK q : q = Closed(p, t)
    OBVIOUS
  <2>2. q = pool' /\ p.threads[t].alive
    BY <1>1, <1>7, <2>1 DEF Terminated, Crash, CanSend
  <2>3. Good(q, m) /\ DOMAIN q.inst = DOMAIN p.inst
    BY <1>1, <1>3, <2>1, <2>2, ClosedGood
  <2> QED BY <2>2, <2>3
<1>8. ASSUME NEW t \in Threads(pool), Freeze(t)
      PROVE  \E q : q = pool' /\ Good(q, m) /\ DOMAIN q.inst = DOMAIN p.inst
  <2>1. PICK q : q = StoppedAnswering(p, t)
    OBVIOUS
  <2>2. q = pool'
    BY <1>1, <1>8, <2>1 DEF Freeze, StoppedAnswering
  <2>3. Good(q, m) /\ DOMAIN q.inst = DOMAIN p.inst
    BY <1>1, <1>3, <2>1, FreezeGood
  <2> QED BY <2>2, <2>3
<1>9. ASSUME DestroyAll
      PROVE  \E q : q = pool' /\ Good(q, m) /\ DOMAIN q.inst = DOMAIN p.inst
  <2>1. PICK q : q = KillAll(p)
    OBVIOUS
  <2>2. q = pool'
    BY <1>1, <1>9, <2>1, Zenon DEF DestroyAll, KillAll
  <2>3. Good(q, m) /\ DOMAIN q.inst = DOMAIN p.inst
    BY <1>3, <2>1, KillAllGood
  <2> QED BY <2>2, <2>3
<1>10. ASSUME NEW i \in Created, NEW forceRestart \in BOOLEAN, Restart(i, forceRestart)
       PROVE  \E q : q = pool' /\ Good(q, m) /\ DOMAIN q.inst = DOMAIN p.inst
  <2>1. PICK t : t = p.inst[i].thread
    OBVIOUS
  <2>2. PICK r : r = Marked(p, t)
    OBVIOUS
  <2>3. PICK q : q = pool'
    OBVIOUS
  <2>4. /\ p.threads[t].registered /\ i \in p.threads[t].members
        /\ Restarted(r, q, t, i)
    BY <1>1, <1>10, <2>1, <2>2, <2>3, Zenon DEF Restart, Restarted, Marked
  <2>5. t \in Threads(p)
    BY <1>3, <2>1 DEF Good
  <2>6. Good(q, m) /\ DOMAIN q.inst = DOMAIN p.inst
    BY <1>3, <2>2, <2>4, <2>5, RestartGood
  <2> QED BY <2>3, <2>6
<1>11. faults' \in {faults, faults + 1} /\ commands' \in {commands, commands + 1}
  <2>1. Step \/ (\E f : Fault(f)) \/ (\E name : Command(name))
    BY Zenon DEF ConstructorThrows, Destroy, DestroyAll, Restart, KillTimeout, Terminated,
                 Crash, Freeze
  <2> QED BY <2>1 DEF Step, Fault, Command
<1> QED BY <1>4, <1>5, <1>6, <1>7, <1>8, <1>9, <1>10, <1>11

LEMMA InitOkStep ==
  ASSUME IInv, NEW i \in Created, InitOkStartsMonitor(i)
  PROVE  IInv'
<1>1. PICK p : p = pool
  OBVIOUS
<1>2. PICK m : m = monitor
  OBVIOUS
<1>3. PICK q : q = Replied(p, i, "resolved")
  OBVIOUS
<1>4. /\ Good(p, m) /\ DOMAIN p.inst \subseteq Instances /\ i \in DOMAIN p.inst
      /\ m \in [Instances -> Monitor]
  BY <1>1, <1>2 DEF IInv, Created
<1>5. q = pool'
  BY <1>1, <1>3, Zenon DEF InitOkStartsMonitor, InitOk, InitReply, Replied, Creates, Awaits
<1>6. Step
  BY DEF InitOkStartsMonitor, InitOk
<1>7. CASE Creates(i) /\ SleepsAgain(i)
  <2>1. PICK n : n = [m EXCEPT ![i] = Sleeping]
    OBVIOUS
  <2>2. Sleeping \in Monitor /\ Sleeping.state = "sleeping"
    BY DEF Sleeping, Monitor
  <2>3. Awaits(p, i)
    BY <1>1, <1>7 DEF Creates, Awaits
  <2>4. Good(q, m) /\ DOMAIN q.inst = DOMAIN p.inst /\ q.inst[i].promise = "resolved"
    BY <1>3, <1>4, <2>3, ReplyGood
  <2>5. Good(q, n)
    BY <1>4, <2>1, <2>2, <2>4, LoopGood
  <2>6. n = monitor'
    BY <1>2, <1>7, <2>1 DEF SleepsAgain
  <2>7. Good(pool', monitor') /\ DOMAIN pool'.inst = DOMAIN pool.inst
    BY <1>1, <1>5, <2>4, <2>5, <2>6
  <2> QED BY <1>6, <1>7, <2>2, <2>7, LoopStep DEF SleepsAgain
<1>8. CASE Unwatched
  <2>1. Good(q, m) /\ DOMAIN q.inst = DOMAIN p.inst
    BY <1>3, <1>4, ReplyGood
  <2>2. Good(pool', monitor) /\ DOMAIN pool'.inst = DOMAIN pool.inst
    BY <1>1, <1>2, <1>5, <2>1
  <2> QED BY <1>6, <1>8, <2>2, PoolStep DEF Step, Unwatched
<1> QED BY <1>7, <1>8 DEF InitOkStartsMonitor

LEMMA DetachStep ==
  ASSUME IInv, NEW i \in Created, DetachInOrder(i)
  PROVE  IInv'
<1>1. PICK p : p = pool
  OBVIOUS
<1>2. PICK m : m = monitor
  OBVIOUS
<1>3. PICK t : t = p.inst[i].thread
  OBVIOUS
<1>4. PICK q : q = Detached(p, t, i)
  OBVIOUS
<1>5. Good(p, m) /\ i \in DOMAIN p.inst
  BY <1>1, <1>2 DEF IInv, Created
<1>6. q = pool' /\ p.inst[i].detaching
  BY <1>1, <1>3, <1>4, Zenon DEF DetachInOrder, Detach, Detached
<1>7. Good(q, m) /\ DOMAIN q.inst = DOMAIN p.inst
  <2>1. p.inst[i].detaching /\ i \in DOMAIN p.inst
    BY <1>5, <1>6
  <2> QED BY <1>3, <1>4, <1>5, <2>1, DetachGood
<1>8. Good(pool', monitor) /\ DOMAIN pool'.inst = DOMAIN pool.inst
  BY <1>1, <1>2, <1>6, <1>7
<1>9. UNCHANGED monitor /\ Step
  BY DEF DetachInOrder, Detach, Unwatched
<1> QED BY <1>8, <1>9, PoolStep DEF Step

LEMMA PongStep ==
  ASSUME IInv, NEW i \in Created, Pong(i)
  PROVE  IInv'
<1>1. PICK p : p = pool
  OBVIOUS
<1>2. PICK m : m = monitor
  OBVIOUS
<1>3. /\ Good(p, m) /\ DOMAIN p.inst \subseteq Instances /\ i \in DOMAIN p.inst
      /\ m \in [Instances -> Monitor] /\ m[i].state = "pinging"
  BY <1>1, <1>2 DEF IInv, Created, Pong, Answerable, Pinging
<1>4. PICK n : n = [m EXCEPT ![i] = Sleeping]
  OBVIOUS
<1>5. Sleeping \in Monitor /\ Sleeping.state = "sleeping"
  BY DEF Sleeping, Monitor
<1>6. Good(p, n)
  <2>1. p.inst[i].promise = "resolved"
    BY <1>3 DEF Good, InstOk, LoopOk
  <2> QED BY <1>3, <1>4, <1>5, <2>1, LoopGood
<1>7. n = monitor'
  BY <1>2, <1>4 DEF Pong, SleepsAgain
<1>8. Good(pool', monitor') /\ DOMAIN pool'.inst = DOMAIN pool.inst
  BY <1>1, <1>6, <1>7 DEF Pong
<1> QED BY <1>5, <1>8, LoopStep DEF Pong, SleepsAgain

\* A ping that is sent reaches the handle, unless the instance was destroyed.
LEMMA PingStep ==
  ASSUME IInv, NEW i \in Created, Ping(i)
  PROVE  IInv'
<1>1. PICK p : p = pool
  OBVIOUS
<1>2. PICK m : m = monitor
  OBVIOUS
<1>3. /\ Good(p, m) /\ DOMAIN p.inst \subseteq Instances /\ i \in DOMAIN p.inst
      /\ m \in [Instances -> Monitor] /\ m[i].state = "sleeping" /\ Step
  BY <1>1, <1>2 DEF IInv, Created, Ping
<1>4. CASE Fails(i)
  BY <1>3, <1>4, FailsStep
<1>5. CASE /\ CanSend(ThreadOf(i)) /\ pool.inst[i].initialized
           /\ monitor' = [monitor EXCEPT ![i] =
                [state |-> "pinging", process |-> ThreadOf(i).process, received |-> Receives(i)]]
           /\ UNCHANGED pool
  <2>1. PICK k : k = p.inst[i] /\ k \in Inst
    BY <1>3, PoolTyped DEF Good
  <2>2. PICK th : th = p.threads[k.thread] /\ th \in Thread
    BY <1>3, <2>1, PoolTyped DEF Good, Threads
  <2>3. PICK received \in BOOLEAN : received = Receives(i)
    <3>1. Receives(i) \in BOOLEAN
      BY DEF Receives
    <3> QED BY <3>1
  <2>4. PICK x : x = [state |-> "pinging", process |-> th.process, received |-> received]
    OBVIOUS
  <2>5. x \in Monitor /\ x.state = "pinging" /\ x.received = received
    BY <2>2, <2>3, <2>4 DEF Thread, Monitor
  <2>6. k.promise = "resolved" /\ (k.kill => k.destroys > 0)
    BY <1>3, <2>1 DEF Good, InstOk, LoopOk
  <2>7. ~received => k.destroys > 0 \/ i \notin th.members
    <3>1. i \in th.members => Counts(p, i)
      BY <2>1, <2>2, <2>6 DEF Counts
    <3>2. k.initialized /\ CanSend(th)
      BY <1>1, <1>5, <2>1, <2>2 DEF ThreadOf
    <3>3. i \in th.members => k.initGen = th.process
      BY <1>3, <2>1, <2>2, <3>1, <3>2 DEF Good, InstOk, InProcess
    <3>4. received <=> (k.initGen = th.process /\ ~k.kill)
      BY <1>1, <2>1, <2>2, <2>3 DEF Receives, ThreadOf
    <3> QED BY <2>6, <3>3, <3>4
  <2>8. PICK n : n = [m EXCEPT ![i] = x]
    OBVIOUS
  <2>9. Good(p, n)
    BY <1>3, <2>1, <2>2, <2>5, <2>6, <2>7, <2>8, LoopGood
  <2>10. monitor' = [monitor EXCEPT ![i] = x] /\ n = monitor'
    BY <1>1, <1>2, <1>5, <2>1, <2>2, <2>3, <2>4, <2>8 DEF ThreadOf
  <2>11. Good(pool', monitor') /\ DOMAIN pool'.inst = DOMAIN pool.inst
    BY <1>1, <1>5, <2>9, <2>10
  <2> QED BY <1>3, <2>5, <2>10, <2>11, LoopStep
<1> QED BY <1>4, <1>5 DEF Ping

LEMMA NextStep ==
  ASSUME IInv, [Next]_vars
  PROVE  IInv'
<1>1. ASSUME NEW config \in Configs, ThreadedClass(config), Unwatched PROVE IInv'
  BY <1>1, ThreadedClassStep
<1>2. ASSUME NEW i \in Created, InitOkStartsMonitor(i) PROVE IInv'
  BY <1>2, InitOkStep
<1>3. ASSUME NEW i \in Created, ConstructorThrows(i), Unwatched PROVE IInv'
  BY <1>3, PoolSteps
<1>4. ASSUME NEW i \in Created, Destroy(i), Unwatched PROVE IInv'
  BY <1>4, PoolSteps
<1>5. ASSUME NEW i \in Created, DetachInOrder(i) PROVE IInv'
  BY <1>5, DetachStep
<1>6. ASSUME NEW t \in Threads(pool), KillTimeout(t), Unwatched PROVE IInv'
  BY <1>6, PoolSteps
<1>7. ASSUME NEW t \in Threads(pool), Terminated(t), Unwatched PROVE IInv'
  BY <1>7, PoolSteps
<1>8. ASSUME NEW t \in Threads(pool), Crash(t), Unwatched PROVE IInv'
  BY <1>8, PoolSteps
<1>9. ASSUME NEW t \in Threads(pool), Freeze(t), Unwatched PROVE IInv'
  BY <1>9, PoolSteps
<1>10. ASSUME NEW i \in Created, Ping(i) PROVE IInv'
  BY <1>10, PingStep
<1>11. ASSUME NEW i \in Created, Pong(i) PROVE IInv'
  BY <1>11, PongStep
<1>12. ASSUME NEW i \in Created, PingTimeout(i) PROVE IInv'
  BY <1>12, FailsStep DEF PingTimeout
<1>13. ASSUME DestroyAll, Unwatched PROVE IInv'
  BY <1>13, PoolSteps
<1>14. ASSUME NEW i \in Created, NEW forceRestart \in BOOLEAN, Restart(i, forceRestart),
              Unwatched
       PROVE  IInv'
  BY <1>14, PoolSteps
<1>15. CASE UNCHANGED vars
  BY <1>15 DEF vars, IInv, Good, Created, ThreadOk, InstOk, LoopOk, InProcess, Counts,
               OneRegistered, LostToLate, Stray, SameId, Threads, CanSend
<1> QED BY <1>1, <1>2, <1>3, <1>4, <1>5, <1>6, <1>7, <1>8, <1>9, <1>10, <1>11, <1>12, <1>13,
           <1>14, <1>15
        DEF Next

-----------------------------------------------------------------------------
(***************************************************************************)
(* Every step keeps the usages.                                            *)
(***************************************************************************)
\* An instance leaves with its units, or comes with them.
LEMMA WithoutRow ==
  ASSUME NEW S, IsFiniteSet(S), NEW i, NEW n \in Nat, {i} \X (1..n) \subseteq S,
         NEW T \in SUBSET (S \ ({i} \X (1..n)))
  PROVE  Cardinality(T) <= Cardinality(S) - n
<1>1. PICK row : row = {i} \X (1..n)
  OBVIOUS
<1>2. IsFiniteSet(row) /\ Cardinality(row) = n
  BY <1>1, RowOfUnits
<1>3. S \cap row = row
  BY <1>1
<1>4. IsFiniteSet(S \ row) /\ Cardinality(S \ row) = Cardinality(S) - n
  BY <1>2, <1>3, FS_Difference
<1>5. Cardinality(T) <= Cardinality(S \ row)
  BY <1>1, <1>4, FS_Subset
<1> QED BY <1>4, <1>5

LEMMA WithRow ==
  ASSUME NEW S, IsFiniteSet(S), NEW i, NEW n \in Nat,
         NEW T \in SUBSET (S \cup ({i} \X (1..n)))
  PROVE  Cardinality(T) <= Cardinality(S) + n
<1>1. PICK row : row = {i} \X (1..n)
  OBVIOUS
<1>2. IsFiniteSet(row) /\ Cardinality(row) = n
  BY <1>1, RowOfUnits
<1>3. /\ IsFiniteSet(S \cup row)
      /\ Cardinality(S \cup row) = Cardinality(S) + n - Cardinality(S \cap row)
  BY <1>2, FS_Union
<1>4. IsFiniteSet(S \cap row)
  BY FS_Subset
<1>5. Cardinality(S \cap row) \in Nat /\ Cardinality(S) \in Nat
  BY <1>4, FS_CardinalityType
<1>6. Cardinality(T) <= Cardinality(S \cup row) /\ IsFiniteSet(T)
  BY <1>1, <1>3, FS_Subset
<1>7. Cardinality(T) \in Nat
  BY <1>6, FS_CardinalityType
<1> QED BY <1>3, <1>5, <1>6, <1>7

\* What destroy changes when other instances stay.
LEMMA LeaveFields ==
  ASSUME NEW p \in Pool, NEW i \in DOMAIN p.inst, NEW t \in DOMAIN p.threads,
         NEW q, q = Leave(p, t, i)
  PROVE  /\ q \in Pool
         /\ DOMAIN q.threads = DOMAIN p.threads /\ DOMAIN q.inst = DOMAIN p.inst
         /\ q.threads[t].usage = p.threads[t].usage - p.inst[i].config.usage
         /\ q.threads[t].name = p.threads[t].name
         /\ q.threads[t].members \subseteq p.threads[t].members
         /\ \A u \in DOMAIN p.threads : u # t => q.threads[u] = p.threads[u]
         /\ \A j \in DOMAIN p.inst :
              /\ q.inst[j].config = p.inst[j].config /\ q.inst[j].thread = p.inst[j].thread
              /\ q.inst[j].destroys = p.inst[j].destroys
<1>1. PICK x : x = p.threads[t] /\ x \in Thread
  BY PoolTyped
<1>2. PICK k : k = p.inst[i] /\ k \in Inst
  BY PoolTyped
<1>3. PICK over \in BOOLEAN : over = (x.overlapped \/ Detaching(p, t) \ {i} # {})
  <2>1. (x.overlapped \/ Detaching(p, t) \ {i} # {}) \in BOOLEAN
    OBVIOUS
  <2> QED BY <2>1
<1>4. PICK usage \in Int : usage = x.usage - k.config.usage
  <2>1. x.usage \in Int /\ k.config.usage \in Int
    BY <1>1, <1>2, UsageOfConfig DEF Thread, Inst
  <2> QED BY <2>1
<1>5. PICK z : z = [x EXCEPT !.usage = usage, !.overlapped = over]
  OBVIOUS
<1>6. z \in Thread /\ z.usage = usage /\ z.name = x.name /\ z.members = x.members
  BY <1>1, <1>5 DEF Thread
<1>7. z = [p.threads[t] EXCEPT
             !.usage = p.threads[t].usage - p.inst[i].config.usage,
             !.overlapped = p.threads[t].overlapped \/ Detaching(p, t) \ {i} # {}]
  BY <1>1, <1>2, <1>3, <1>4, <1>5, Zenon
<1>8. CASE CanSend(x) /\ k.initialized
  <2>1. PICK n : n = [k EXCEPT !.kill = TRUE, !.detaching = TRUE]
    OBVIOUS
  <2>2. PICK r : r = SetThread(p, t, z)
    OBVIOUS
  <2>3. /\ r \in Pool /\ r.inst = p.inst /\ DOMAIN r.threads = DOMAIN p.threads
        /\ r.threads[t] = z
        /\ \A u \in DOMAIN p.threads : u # t => r.threads[u] = p.threads[u]
    BY <1>6, <2>2, SetThreadFields
  <2>4. n \in Inst /\ n.config = k.config /\ n.thread = k.thread /\ n.destroys = k.destroys
    BY <1>2, <2>1 DEF Inst
  <2>5. q = SetInst(r, i, n)
    <3>1. q = [p EXCEPT !.threads[t] = z, !.inst[i] = n]
      BY <1>1, <1>2, <1>7, <1>8, <2>1 DEF Leave
    <3> QED BY <2>2, <3>1, SMTT(30) DEF SetThread, SetInst
  <2>6. /\ q \in Pool /\ q.threads = r.threads /\ DOMAIN q.inst = DOMAIN r.inst
        /\ q.inst[i] = n
        /\ \A j \in DOMAIN r.inst : j # i => q.inst[j] = r.inst[j]
    BY <2>3, <2>4, <2>5, SetInstFields
  <2> QED BY <1>1, <1>2, <1>4, <1>6, <2>3, <2>4, <2>6
<1>9. CASE ~(CanSend(x) /\ k.initialized)
  <2>1. PICK left : left = [z EXCEPT !.members = z.members \ {i}]
    BY Zenon
  <2>2. /\ left \in Thread /\ left.usage = usage /\ left.name = x.name
        /\ left.members \subseteq x.members
    BY <1>6, <2>1 DEF Thread
  <2>3. q = SetThread(p, t, left)
    <3>1. ~(CanSend(p.threads[t]) /\ p.inst[i].initialized)
      BY <1>1, <1>2, <1>9
    <3> QED BY <1>7, <2>1, <3>1, Zenon DEF Leave, SetThread
  <2>4. /\ q \in Pool /\ q.inst = p.inst /\ DOMAIN q.threads = DOMAIN p.threads
        /\ q.threads[t] = left
        /\ \A u \in DOMAIN p.threads : u # t => q.threads[u] = p.threads[u]
    BY <2>2, <2>3, SetThreadFields
  <2> QED BY <1>1, <1>2, <1>4, <2>2, <2>4
<1> QED BY <1>8, <1>9

LEMMA KeepUsagesOk ==
  ASSUME NEW p, NEW m, Good(p, m), UsagesOk(p), NEW q, KeepUsages(p, q)
  PROVE  UsagesOk(q)
<1>1. p \in Pool /\ q \in Pool /\ Threads(q) = Threads(p)
  BY DEF Good, KeepUsages, Threads
<1>2. ASSUME NEW t \in Threads(p) PROVE UsageOk(q, t)
  <2>1. /\ t \in DOMAIN p.threads /\ t \in DOMAIN q.threads /\ ThreadOk(p, t)
        /\ UsageOk(p, t) /\ KeepsUsage(p, q, t)
    BY <1>1 DEF Good, UsagesOk, KeepUsages, Threads
  <2> QED BY <1>1, <2>1, KeepsUsageOk
<1> QED BY <1>1, <1>2 DEF UsagesOk

\* An instance that is destroyed gives back no more than the units it had, unless
\* it had given them back before.
LEMMA LeaveUsage ==
  ASSUME NEW p, NEW m, Good(p, m), UsagesOk(p), NEW i \in DOMAIN p.inst,
         NEW t, t = p.inst[i].thread, i \in p.threads[t].members,
         NEW q, q = Leave(DestroyedOnce(p, i), t, i)
  PROVE  UsagesOk(q)
<1>1. /\ p \in Pool /\ t \in Threads(p) /\ t \in DOMAIN p.threads
      /\ ThreadOk(p, t) /\ UsageOk(p, t)
  BY DEF Good, Threads, UsagesOk
<1>2. PICK k : k = p.inst[i] /\ k \in Inst
  BY <1>1, PoolTyped
<1>3. PICK x : x = p.threads[t] /\ x \in Thread
  BY <1>1, PoolTyped
<1>4. PICK n : n = [k EXCEPT !.destroys = @ + 1]
  OBVIOUS
<1>5. /\ n \in Inst /\ n.thread = k.thread /\ n.config = k.config
      /\ n.destroys = k.destroys + 1 /\ k.destroys \in Nat
  BY <1>2, <1>4 DEF Inst
<1>6. PICK r : r = DestroyedOnce(p, i)
  OBVIOUS
<1>7. /\ r \in Pool /\ r.threads = p.threads /\ DOMAIN r.inst = DOMAIN p.inst
      /\ r.inst[i] = n
      /\ \A j \in DOMAIN p.inst : j # i => r.inst[j] = p.inst[j]
  <2>1. r = SetInst(p, i, n)
    BY <1>2, <1>4, <1>6 DEF DestroyedOnce
  <2> QED BY <1>1, <1>5, <2>1, SetInstFields
<1>8. PICK c : c = k.config.usage
  OBVIOUS
<1>9. /\ q \in Pool
      /\ DOMAIN q.threads = DOMAIN p.threads /\ DOMAIN q.inst = DOMAIN p.inst
      /\ q.threads[t].usage = x.usage - c
      /\ q.threads[t].name = x.name
      /\ q.threads[t].members \subseteq x.members
      /\ \A u \in DOMAIN p.threads : u # t => q.threads[u] = p.threads[u]
      /\ \A j \in DOMAIN p.inst :
           /\ q.inst[j].config = r.inst[j].config /\ q.inst[j].thread = r.inst[j].thread
           /\ q.inst[j].destroys = r.inst[j].destroys
  <2>1. i \in DOMAIN r.inst /\ t \in DOMAIN r.threads /\ r.inst[i].config.usage = c
    BY <1>1, <1>5, <1>7, <1>8
  <2> QED BY <1>3, <1>6, <1>7, <2>1, LeaveFields
<1>10. \A j \in DOMAIN p.inst :
         /\ q.inst[j].config = p.inst[j].config /\ q.inst[j].thread = p.inst[j].thread
         /\ p.inst[j].destroys <= q.inst[j].destroys
         /\ j = i => q.inst[j].destroys = k.destroys + 1
  <2> SUFFICES ASSUME NEW j \in DOMAIN p.inst
               PROVE  /\ q.inst[j].config = p.inst[j].config
                      /\ q.inst[j].thread = p.inst[j].thread
                      /\ p.inst[j].destroys <= q.inst[j].destroys
                      /\ j = i => q.inst[j].destroys = k.destroys + 1
    OBVIOUS
  <2>1. p.inst[j].destroys \in Nat /\ p.inst[j].destroys <= p.inst[j].destroys
    BY <1>1, PoolTyped DEF Inst
  <2>2. k.destroys <= k.destroys + 1
    BY <1>5
  <2> QED BY <1>2, <1>5, <1>7, <1>9, <2>1, <2>2
<1>11. ASSUME NEW u \in DOMAIN p.threads, u # t PROVE UsageOk(q, u)
  <2>1. ThreadOk(p, u) /\ UsageOk(p, u)
    BY Zenon DEF Good, UsagesOk, Threads
  <2>2. KeepsUsage(p, q, u)
    BY <1>9, <1>10, <1>11, Zenon DEF KeepsUsage
  <2> QED BY <1>1, <1>9, <2>1, <2>2, KeepsUsageOk
<1>12. UsageOk(q, t)
  <2>1. c \in Nat /\ c <= Full /\ c <= UsageOf(k.config) /\ UsageOf(k.config) \in Nat
    BY <1>2, <1>8, UsageOfConfig, FullAssumption DEF Inst
  <2>2. x.usage \in Int /\ x.usage <= Full
    BY <1>1, <1>3 DEF Thread, UsageOk
  <2>3. q.threads[t].usage <= Full
    BY <1>9, <2>1, <2>2, FullAssumption
  <2>4. ASSUME q.threads[t].name = NoName, DestroyedOnceAtMost(q, t)
        PROVE  Cardinality(Units(q, t)) <= q.threads[t].usage
    <3>1. PICK s : s = Units(p, t)
      OBVIOUS
    <3>2. PICK row : row = {i} \X (1..c)
      OBVIOUS
    <3>3. k.destroys = 0
      <4>1. i \in DOMAIN q.inst /\ q.inst[i].thread = t
        BY <1>9, <1>10
      <4>2. q.inst[i].destroys <= 1 /\ q.inst[i].destroys = k.destroys + 1
        BY <1>10, <2>4, <4>1 DEF DestroyedOnceAtMost
      <4> QED BY <1>5, <4>2
    <3>4. /\ DestroyedOnceAtMost(p, t)
          /\ \A u \in Units(q, t) : u \in s
          /\ i \notin {u[1] : u \in Units(q, t)}
      <4>1. \A j \in DOMAIN p.inst : p.inst[j].thread = t => p.inst[j].destroys <= 1
        <5>1. \A j \in DOMAIN p.inst : p.inst[j].thread = t => q.inst[j].destroys <= 1
          BY <1>9, <1>10, <2>4 DEF DestroyedOnceAtMost
        <5>2. \A j \in DOMAIN p.inst :
                p.inst[j].destroys \in Nat /\ q.inst[j].destroys \in Nat
          BY <1>1, <1>9, PoolTyped DEF Inst
        <5> QED BY <1>10, <5>1, <5>2
      <4>2. ASSUME NEW u \in Units(q, t) PROVE u \in s /\ u[1] # i
        <5>1. /\ u \in q.threads[t].members \X (1..Full)
              /\ q.inst[u[1]].destroys = 0 /\ u[2] <= UsageOf(q.inst[u[1]].config)
          BY DEF Units
        <5>2. u \in x.members \X (1..Full) /\ u[1] \in x.members
          BY <1>9, <5>1
        <5>3. u[1] \in DOMAIN p.inst
          BY <1>1, <1>3, <5>2 DEF ThreadOk
        <5>4. u[1] # i
          BY <1>2, <1>5, <1>10, <5>1
        <5>5. p.inst[u[1]].destroys = 0
          <6>1. q.inst[u[1]].destroys = r.inst[u[1]].destroys /\ r.inst[u[1]] = p.inst[u[1]]
            BY <1>7, <1>9, <5>3, <5>4
          <6> QED BY <5>1, <6>1
        <5>6. u[2] <= UsageOf(p.inst[u[1]].config)
          BY <1>10, <5>1, <5>3
        <5> QED BY <1>3, <3>1, <5>2, <5>4, <5>5, <5>6 DEF Units
      <4> QED BY <4>1, <4>2 DEF DestroyedOnceAtMost
    <3>5. row \subseteq s
      <4>1. ASSUME NEW a \in 1..c PROVE <<i, a>> \in s
        <5>1. a \in 1..Full /\ a <= UsageOf(k.config)
          BY <2>1, FullAssumption
        <5>2. <<i, a>> \in p.threads[t].members \X (1..Full)
          BY <5>1
        <5> QED BY <1>2, <3>1, <3>3, <5>1, <5>2 DEF Units
      <4> QED BY <3>2, <4>1
    <3>6. Units(q, t) \in SUBSET (s \ row)
      <4>1. \A u \in row : u[1] = i
        BY <3>2
      <4> QED BY <3>4, <4>1
    <3>7. IsFiniteSet(s) /\ Cardinality(s) \in Nat /\ Cardinality(Units(q, t)) \in Nat
      BY <1>1, <1>9, <3>1, UnitsAreFinite
    <3>8. Cardinality(Units(q, t)) <= Cardinality(s) - c
      BY <2>1, <3>2, <3>5, <3>6, <3>7, WithoutRow
    <3>9. Cardinality(s) <= x.usage
      BY <1>1, <1>3, <1>9, <2>4, <3>1, <3>4 DEF UsageOk
    <3> QED BY <1>9, <2>1, <2>2, <3>7, <3>8, <3>9
  <2> QED BY <2>3, <2>4 DEF UsageOk
<1> QED BY <1>9, <1>11, <1>12 DEF UsagesOk, Threads

\* A new instance comes to a thread that has room for its units, or to a new one.
LEMMA JoinedUsage ==
  ASSUME NEW p, NEW m, Good(p, m), UsagesOk(p), NEW config \in Configs,
         NEW q, NEW t, NEW i, JoinedTo(p, q, config, t, i)
  PROVE  UsagesOk(q)
<1>1. /\ p \in Pool /\ q \in Pool /\ i \notin DOMAIN p.inst
      /\ \A u \in DOMAIN p.threads : u # t => q.threads[u] = p.threads[u]
      /\ \A j \in DOMAIN p.inst : q.inst[j] = p.inst[j]
      /\ DOMAIN q.inst = DOMAIN p.inst \cup {i}
      /\ DOMAIN q.threads = DOMAIN p.threads \cup {t}
  BY DEF Good, JoinedTo
<1>2. PICK n : n = q.inst[i] /\ n.config = config
  BY DEF JoinedTo, Newcomer
<1>3. PICK y : y = q.threads[t]
  OBVIOUS
<1>4. PICK z \in Thread :
        /\ ThreadGets(z, y, i)
        /\ \/ t \in DOMAIN p.threads /\ FoundOld(config, p.threads[t], z)
           \/ t \notin DOMAIN p.threads /\ IsNew(config, z) /\ NameIsFree(p, config.name)
  BY <1>3 DEF JoinedTo
<1>5. y.members = z.members \cup {i} /\ y.name = z.name /\ y.usage = z.usage
  BY <1>4 DEF ThreadGets
<1>6. PICK need : need = UsageOf(config)
  OBVIOUS
<1>7. need \in 1..Full /\ need \in Nat /\ (config.usage > 0 => need = config.usage)
  BY <1>6, UsageOfConfig, FullAssumption
<1>8. ASSUME NEW u \in DOMAIN p.threads, u # t PROVE UsageOk(q, u)
  <2>1. ThreadOk(p, u) /\ UsageOk(p, u)
    BY DEF Good, UsagesOk, Threads
  <2>2. KeepsUsage(p, q, u)
    <3>1. \A j \in DOMAIN p.inst : p.inst[j].destroys <= p.inst[j].destroys
      BY <1>1, PoolTyped DEF Inst
    <3> QED BY <1>1, <1>8, <3>1 DEF KeepsUsage
  <2> QED BY <1>1, <2>1, <2>2, KeepsUsageOk
<1>9. PICK row : row = {i} \X (1..need)
  OBVIOUS
<1>10. ASSUME NEW u \in Units(q, t)
       PROVE  \/ u \in row
              \/ /\ u \in z.members \X (1..Full) /\ u[1] # i
                 /\ q.inst[u[1]].destroys = 0 /\ u[2] <= UsageOf(q.inst[u[1]].config)
  <2>1. /\ u \in y.members \X (1..Full)
        /\ q.inst[u[1]].destroys = 0 /\ u[2] <= UsageOf(q.inst[u[1]].config)
    BY <1>3 DEF Units
  <2>2. CASE u[1] = i
    <3>1. u[2] <= need /\ u[2] \in 1..Full
      BY <1>2, <1>6, <2>1, <2>2
    <3>2. u[2] \in 1..need /\ u = <<i, u[2]>>
      BY <1>7, <2>1, <2>2, <3>1
    <3> QED BY <1>9, <3>2
  <2>3. CASE u[1] # i
    <3>1. u \in z.members \X (1..Full)
      BY <1>5, <2>1, <2>3
    <3> QED BY <2>1, <2>3, <3>1
  <2> QED BY <2>2, <2>3
<1>11. t \in DOMAIN q.threads /\ y \in Thread /\ Cardinality(Units(q, t)) \in Nat
  BY <1>1, <1>3, PoolTyped, UnitsAreFinite
<1>12. UsageOk(q, t)
  <2>1. CASE t \in DOMAIN p.threads /\ FoundOld(config, p.threads[t], z)
    <3>1. PICK x : x = p.threads[t] /\ x \in Thread
      BY <1>1, <2>1, PoolTyped
    <3>2. /\ z.name = x.name /\ z.members = x.members
          /\ \/ config.name # NoName /\ x.name = config.name /\ z.usage = x.usage
             \/ config.usage > 0 /\ z.usage = x.usage + config.usage /\ z.usage <= Full
      BY <2>1, <3>1 DEF FoundOld
    <3>3. ThreadOk(p, t) /\ UsageOk(p, t)
      BY <2>1 DEF Good, UsagesOk, Threads
    <3>4. CASE config.name # NoName /\ x.name = config.name /\ z.usage = x.usage
      BY <1>3, <1>5, <3>1, <3>2, <3>3, <3>4 DEF UsageOk
    <3>5. CASE config.usage > 0 /\ z.usage = x.usage + config.usage /\ z.usage <= Full
      <4>1. \A u \in Units(q, t) : u \in Units(p, t) \cup row
        <5> SUFFICES ASSUME NEW u \in Units(q, t), u \notin row PROVE u \in Units(p, t)
          OBVIOUS
        <5>1. /\ u \in p.threads[t].members \X (1..Full)
              /\ q.inst[u[1]].destroys = 0 /\ u[2] <= UsageOf(q.inst[u[1]].config)
          BY <1>10, <3>1, <3>2
        <5>2. u[1] \in DOMAIN p.inst
          BY <3>3, <5>1 DEF ThreadOk
        <5> QED BY <1>1, <5>1, <5>2 DEF Units
      <4>2. IsFiniteSet(Units(p, t)) /\ Cardinality(Units(p, t)) \in Nat
        BY <1>1, <2>1, UnitsAreFinite
      <4>3. Cardinality(Units(q, t)) <= Cardinality(Units(p, t)) + need
        <5>1. Units(q, t) \in SUBSET (Units(p, t) \cup ({i} \X (1..need)))
          BY <1>9, <4>1
        <5> QED BY <1>7, <4>2, <5>1, WithRow
      <4>4. DestroyedOnceAtMost(q, t) => DestroyedOnceAtMost(p, t)
        BY <1>1 DEF DestroyedOnceAtMost
      <4>5. (x.name = NoName /\ DestroyedOnceAtMost(p, t)) =>
              Cardinality(Units(p, t)) <= x.usage
        BY <3>1, <3>3 DEF UsageOk
      <4>6. x.usage \in Int /\ y.usage = x.usage + need /\ y.usage <= Full
        BY <1>5, <1>7, <3>1, <3>5 DEF Thread
      <4>7. (y.name = NoName /\ DestroyedOnceAtMost(q, t)) =>
              Cardinality(Units(q, t)) <= y.usage
        BY <1>5, <1>7, <1>11, <3>2, <4>2, <4>3, <4>4, <4>5, <4>6
      <4> QED BY <1>3, <4>6, <4>7 DEF UsageOk
    <3> QED BY <3>2, <3>4, <3>5
  <2>2. CASE IsNew(config, z)
    <3>1. z.members = {} /\ y.usage = need
      BY <1>5, <1>6, <2>2 DEF IsNew
    <3>2. Units(q, t) \in SUBSET ({} \cup ({i} \X (1..need)))
      BY <1>9, <1>10, <3>1
    <3>3. IsFiniteSet({}) /\ Cardinality({}) = 0
      BY FS_EmptySet
    <3>4. Cardinality(Units(q, t)) <= 0 + need
      BY <1>7, <3>2, <3>3, WithRow
    <3> QED BY <1>3, <1>7, <1>11, <3>1, <3>4, FullAssumption DEF UsageOk
  <2> QED BY <1>4, <2>1, <2>2
<1> QED BY <1>1, <1>8, <1>12 DEF UsagesOk, Threads

\* A step of the pool that creates no instance.
LEMMA UsageSteps ==
  ASSUME IInv, UsagesOk(pool),
         \/ \E i \in Created : InitReply(i, "resolved") \/ InitReply(i, "rejected")
         \/ \E i \in Created : Destroy(i)
         \/ DestroyAll
         \/ \E i \in Created, forceRestart \in BOOLEAN : Restart(i, forceRestart)
         \/ \E i \in Created : Detach(i)
         \/ \E t \in Threads(pool) : KillTimeout(t)
         \/ \E t \in Threads(pool) : Terminated(t)
         \/ \E t \in Threads(pool) : Crash(t)
         \/ \E t \in Threads(pool) : Freeze(t)
         \/ \E i \in Created : Fails(i)
  PROVE  \E q : q = pool' /\ UsagesOk(q)
<1>1. PICK p : p = pool
  OBVIOUS
<1>2. PICK m : m = monitor
  OBVIOUS
<1>3. Good(p, m) /\ UsagesOk(p) /\ Created = DOMAIN p.inst /\ p \in Pool
  BY <1>1, <1>2 DEF IInv, Created, Good
<1>4. ASSUME NEW i \in Created, NEW promise \in {"resolved", "rejected"}, InitReply(i, promise)
      PROVE  \E q : q = pool' /\ UsagesOk(q)
  <2>1. PICK q : q = Replied(p, i, promise)
    OBVIOUS
  <2>2. q = pool'
    BY <1>1, <1>4, <2>1, Zenon DEF InitReply, Replied, Creates, Awaits
  <2>3. KeepUsages(p, q)
    BY <1>3, <2>1, ReplyGood
  <2> QED BY <1>3, <2>2, <2>3, KeepUsagesOk
<1>5. ASSUME NEW i \in Created, Destroy(i) PROVE \E q : q = pool' /\ UsagesOk(q)
  <2>1. PICK t : t = p.inst[i].thread
    OBVIOUS
  <2>2. PICK q : q = IF IsLast(p.threads[t]) THEN KillChild(DestroyedOnce(p, i), t)
                     ELSE Leave(DestroyedOnce(p, i), t, i)
    OBVIOUS
  <2>3. DestroyedOnce(p, i) = [p EXCEPT !.inst[i].destroys = @ + 1]
    BY DEF DestroyedOnce, SetInst
  <2>4. /\ p.threads[t].registered /\ i \in p.threads[t].members
        /\ q = pool'
    BY <1>1, <1>5, <2>1, <2>2, <2>3, Zenon DEF Destroy
  <2>5. CASE IsLast(p.threads[t])
    <3>1. KeepUsages(p, q)
      BY <1>3, <2>1, <2>2, <2>4, <2>5, DestroyGood
    <3> QED BY <1>3, <2>4, <3>1, KeepUsagesOk
  <2>6. CASE ~IsLast(p.threads[t])
    <3>1. q = Leave(DestroyedOnce(p, i), t, i)
      BY <2>2, <2>6
    <3>2. UsagesOk(q)
      BY <1>3, <2>1, <2>4, <3>1, LeaveUsage
    <3> QED BY <2>4, <3>2
  <2> QED BY <2>5, <2>6
<1>6. ASSUME NEW i \in Created, Detach(i) PROVE \E q : q = pool' /\ UsagesOk(q)
  <2>1. PICK t : t = p.inst[i].thread
    OBVIOUS
  <2>2. PICK q : q = Detached(p, t, i)
    OBVIOUS
  <2>3. q = pool' /\ p.inst[i].detaching
    BY <1>1, <1>6, <2>1, <2>2, Zenon DEF Detach, Detached
  <2>4. KeepUsages(p, q)
    <3>1. p.inst[i].detaching /\ i \in DOMAIN p.inst
      BY <1>3, <2>3
    <3> QED BY <1>3, <2>1, <2>2, <3>1, DetachGood
  <2> QED BY <1>3, <2>3, <2>4, KeepUsagesOk
<1>7. ASSUME NEW t \in Threads(pool), KillTimeout(t) PROVE \E q : q = pool' /\ UsagesOk(q)
  <2>1. PICK q : q = TimedOut(p, t)
    OBVIOUS
  <2>2. q = pool' /\ p.threads[t].timers > 0
    BY <1>1, <1>7, <2>1, Zenon DEF KillTimeout, TimedOut
  <2>3. KeepUsages(p, q)
    BY <1>1, <1>3, <2>1, <2>2, KillTimeoutGood
  <2> QED BY <1>3, <2>2, <2>3, KeepUsagesOk
<1>8. ASSUME NEW t \in Threads(pool), Terminated(t) \/ Crash(t)
      PROVE  \E q : q = pool' /\ UsagesOk(q)
  <2>1. PICK q : q = Closed(p, t)
    OBVIOUS
  <2>2. q = pool' /\ p.threads[t].alive
    BY <1>1, <1>8, <2>1 DEF Terminated, Crash, CanSend
  <2>3. KeepUsages(p, q)
    BY <1>1, <1>3, <2>1, <2>2, ClosedGood
  <2> QED BY <1>3, <2>2, <2>3, KeepUsagesOk
<1>9. ASSUME NEW t \in Threads(pool), Freeze(t) PROVE \E q : q = pool' /\ UsagesOk(q)
  <2>1. PICK q : q = StoppedAnswering(p, t)
    OBVIOUS
  <2>2. q = pool'
    BY <1>1, <1>9, <2>1 DEF Freeze, StoppedAnswering
  <2>3. KeepUsages(p, q)
    BY <1>1, <1>3, <2>1, FreezeGood
  <2> QED BY <1>3, <2>2, <2>3, KeepUsagesOk
<1>10. ASSUME NEW i \in Created, Fails(i) PROVE \E q : q = pool' /\ UsagesOk(q)
  <2>1. PICK t : t = p.inst[i].thread
    OBVIOUS
  <2>2. t \in Threads(p)
    BY <1>3, <2>1 DEF Good
  <2>3. CASE CanSend(p.threads[t])
    <3>1. PICK q : q = ChildHasCrashed(p, t)
      OBVIOUS
    <3>2. q = pool'
      BY <1>1, <1>10, <2>1, <2>3, <3>1 DEF Fails, ThreadOf
    <3>3. KeepUsages(p, q)
      BY <1>3, <2>2, <2>3, <3>1, CrashKillsGood
    <3> QED BY <1>3, <3>2, <3>3, KeepUsagesOk
  <2>4. CASE ~CanSend(p.threads[t])
    <3>1. p = pool'
      BY <1>1, <1>10, <2>1, <2>4 DEF Fails, ThreadOf
    <3> QED BY <1>3, <3>1
  <2> QED BY <2>3, <2>4
<1>11. ASSUME DestroyAll PROVE \E q : q = pool' /\ UsagesOk(q)
  <2>1. PICK q : q = KillAll(p)
    OBVIOUS
  <2>2. q = pool'
    BY <1>1, <1>11, <2>1, Zenon DEF DestroyAll, KillAll
  <2>3. KeepUsages(p, q)
    BY <1>3, <2>1, KillAllGood
  <2> QED BY <1>3, <2>2, <2>3, KeepUsagesOk
<1>12. ASSUME NEW i \in Created, NEW forceRestart \in BOOLEAN, Restart(i, forceRestart)
       PROVE  \E q : q = pool' /\ UsagesOk(q)
  <2>1. PICK t : t = p.inst[i].thread
    OBVIOUS
  <2>2. PICK r : r = Marked(p, t)
    OBVIOUS
  <2>3. PICK q : q = pool'
    OBVIOUS
  <2>4. /\ p.threads[t].registered /\ i \in p.threads[t].members
        /\ Restarted(r, q, t, i)
    BY <1>1, <1>12, <2>1, <2>2, <2>3, Zenon DEF Restart, Restarted, Marked
  <2>5. t \in Threads(p)
    BY <1>3, <2>1 DEF Good
  <2>6. KeepUsages(p, q)
    BY <1>3, <2>2, <2>4, <2>5, RestartGood
  <2> QED BY <1>3, <2>3, <2>6, KeepUsagesOk
<1> QED BY <1>4, <1>5, <1>6, <1>7, <1>8, <1>9, <1>10, <1>11, <1>12

LEMMA ThreadedClassUsage ==
  ASSUME IInv, UsagesOk(pool), NEW config \in Configs, ThreadedClass(config)
  PROVE  \E q : q = pool' /\ UsagesOk(q)
<1>1. PICK p : p = pool
  OBVIOUS
<1>2. PICK m : m = monitor
  OBVIOUS
<1>3. PICK i : i = Len(p.inst) + 1
  OBVIOUS
<1>4. PICK t : t = FoundThread(p, config)
  OBVIOUS
<1>5. PICK b : b = Joined(Found(p, config), config, t)
  OBVIOUS
<1>6. PICK q : q = SendInits(b, t, {i}, "create")
  OBVIOUS
<1>7. Good(p, m) /\ UsagesOk(p) /\ p \in Pool
  BY <1>1, <1>2 DEF IInv, Good
<1>8. i \in Instances /\ q = pool'
  <2>1. PICK a : a = Found(p, config)
    OBVIOUS
  <2>2. a.inst = p.inst
    BY <1>4, <1>7, <2>1, FoundFields
  <2>3. b = [a EXCEPT !.threads[t].members = @ \cup {i}, !.inst = Append(@, NewInst(config, t))]
    BY <1>3, <1>5, <2>1, <2>2 DEF Joined
  <2> QED BY <1>1, <1>3, <1>4, <1>6, <2>1, <2>3, Zenon DEF ThreadedClass
<1>9. JoinedTo(p, q, config, t, i)
  BY <1>3, <1>4, <1>5, <1>6, <1>7, <1>8, ThreadedClassJoins
<1>10. UsagesOk(q)
  BY <1>7, <1>9, JoinedUsage
<1> QED BY <1>8, <1>10

LEMMA UsageStep ==
  ASSUME IInv, UsagesOk(pool), [Next]_vars
  PROVE  UsagesOk(pool)'
<1> SUFFICES \E q : q = pool' /\ UsagesOk(q)
  <2>1. ASSUME NEW q, q = pool', UsagesOk(q) PROVE UsagesOk(pool)'
    BY <2>1 DEF UsagesOk, UsageOk, Threads, Units, DestroyedOnceAtMost
  <2> QED BY <2>1
<1>1. ASSUME NEW config \in Configs, ThreadedClass(config) PROVE \E q : q = pool' /\ UsagesOk(q)
  BY <1>1, ThreadedClassUsage
<1>2. ASSUME NEW i \in Created, InitOkStartsMonitor(i) \/ ConstructorThrows(i)
      PROVE  \E q : q = pool' /\ UsagesOk(q)
  <2>1. InitReply(i, "resolved") \/ InitReply(i, "rejected")
    BY <1>2 DEF InitOkStartsMonitor, InitOk, ConstructorThrows
  <2> QED BY <2>1, UsageSteps
<1>3. ASSUME NEW i \in Created, Destroy(i) PROVE \E q : q = pool' /\ UsagesOk(q)
  BY <1>3, UsageSteps
<1>4. ASSUME NEW i \in Created, DetachInOrder(i) PROVE \E q : q = pool' /\ UsagesOk(q)
  BY <1>4, UsageSteps DEF DetachInOrder
<1>5. ASSUME NEW t \in Threads(pool), KillTimeout(t) PROVE \E q : q = pool' /\ UsagesOk(q)
  BY <1>5, UsageSteps
<1>6. ASSUME NEW t \in Threads(pool), Terminated(t) PROVE \E q : q = pool' /\ UsagesOk(q)
  BY <1>6, UsageSteps
<1>7. ASSUME NEW t \in Threads(pool), Crash(t) PROVE \E q : q = pool' /\ UsagesOk(q)
  BY <1>7, UsageSteps
<1>8. ASSUME NEW t \in Threads(pool), Freeze(t) PROVE \E q : q = pool' /\ UsagesOk(q)
  BY <1>8, UsageSteps
<1>9. ASSUME UNCHANGED pool PROVE \E q : q = pool' /\ UsagesOk(q)
  <2>1. PICK p : p = pool
    OBVIOUS
  <2>2. p = pool' /\ UsagesOk(p)
    BY <1>9, <2>1
  <2> QED BY <2>2
<1>10. ASSUME NEW i \in Created, Ping(i) \/ PingTimeout(i)
       PROVE  \E q : q = pool' /\ UsagesOk(q)
  <2>1. Fails(i) \/ UNCHANGED pool
    BY <1>10 DEF Ping, PingTimeout
  <2> QED BY <1>9, <2>1, UsageSteps
<1>11. ASSUME NEW i \in Created, Pong(i) PROVE \E q : q = pool' /\ UsagesOk(q)
  BY <1>9, <1>11 DEF Pong
<1>12. ASSUME DestroyAll PROVE \E q : q = pool' /\ UsagesOk(q)
  BY <1>12, UsageSteps
<1>13. ASSUME NEW i \in Created, NEW forceRestart \in BOOLEAN, Restart(i, forceRestart)
       PROVE  \E q : q = pool' /\ UsagesOk(q)
  BY <1>13, UsageSteps
<1> QED BY <1>1, <1>2, <1>3, <1>4, <1>5, <1>6, <1>7, <1>8, <1>9, <1>10, <1>11, <1>12, <1>13
        DEF Next, vars

-----------------------------------------------------------------------------
(***************************************************************************)
(* Theorems.                                                               *)
(***************************************************************************)
\* What holds of every thread and every instance, whatever the order in which
\* instances are created and destroyed, threads close, and pings fail.
THEOREM Invariance == Spec => []IInv
<1>1. Init => IInv
  BY InitGood
<1>2. IInv /\ [Next]_vars => IInv'
  BY NextStep
<1> QED BY <1>1, <1>2, PTL DEF Spec

\* The children, the instances and the loops keep their types.
THEOREM TypeCorrect == Spec => []TypeOK
<1>1. IInv => TypeOK
  <2>1. IInv => pool \in Pool /\ monitor \in [Instances -> Monitor]
    BY DEF IInv, Good
  <2>2. IInv => \A i \in Created : pool.inst[i].thread \in Threads(pool)
    BY DEF IInv, Good, Created
  <2>3. IInv => faults \in Nat /\ commands \in Nat
    BY DEF IInv
  <2> QED BY <2>1, <2>2, <2>3, PoolTyped DEF TypeOK, PoolTypeOK
<1> QED BY <1>1, Invariance, PTL

\* A thread that is kept without instances is one whose instances were destroyed
\* while another was still being detached (killProxy).
THEOREM IdleThreadsOverlapped == Spec => []IdleOnlyAfterOverlap
<1>1. IInv => IdleOnlyAfterOverlap
  BY DEF IInv, Good, ThreadOk, IdleOnlyAfterOverlap, Members, Threads
<1> QED BY <1>1, Invariance, PTL

\* A thread that runs, and is not being killed, can be found by destroy, restart
\* and destroyAll, but for the two that are lost: the successor of a named thread
\* that closed after its killTimeout (killChild), and the process of a restart
\* that waited for the same close event as a cleanup (restartChild).
THEOREM ThreadsAreFound == Spec => []NoLostThread
<1>1. IInv => NoLostThread
  <2> SUFFICES ASSUME IInv, NEW t \in Threads(pool), CanSend(pool.threads[t]),
                      ~pool.threads[t].registered, ~pool.threads[t].disputed
               PROVE  \E u \in Threads(pool) :
                        u # t /\ SameId(pool, t, u) /\ pool.threads[u].late
    BY DEF NoLostThread
  <2>1. Stray(pool.threads[t])
    BY DEF Stray, CanSend
  <2>2. PICK u \in Threads(pool) : SameId(pool, t, u) /\ pool.threads[u].late
    BY <2>1 DEF IInv, Good, LostToLate
  <2>3. ThreadOk(pool, t)
    BY DEF IInv, Good
  <2>4. ~pool.threads[t].late
    BY <2>3 DEF ThreadOk, CanSend
  <2> QED BY <2>2, <2>4
<1> QED BY <1>1, Invariance, PTL

\* The usage of a thread covers what its instances need of it, and is never more
\* than the whole of it, unless one of them was destroyed twice (_findFreeChild,
\* killProxy).
THEOREM UsagesAreKept == Spec => []UsagesOk(pool)
<1>1. Init => UsagesOk(pool)
  BY DEF Init, PoolInit, UsagesOk, Threads
<1>2. IInv /\ UsagesOk(pool) /\ [Next]_vars => UsagesOk(pool)'
  BY UsageStep
<1> QED BY <1>1, <1>2, Invariance, PTL DEF Spec

\* The instances of a thread that is shared by usage never need more than the
\* whole of it, however they come and go (_findFreeChild, killProxy).
THEOREM ThreadsAreNotOverfilled == Spec => []NoOverfill
<1>1. IInv /\ UsagesOk(pool) => NoOverfill
  <2> SUFFICES ASSUME IInv, UsagesOk(pool), NEW t \in Threads(pool),
                      pool.threads[t].name = NoName,
                      \A i \in Created : pool.inst[i].thread = t => pool.inst[i].destroys <= 1
               PROVE  Cardinality(Units(pool, t)) <= Full
    BY DEF NoOverfill
  <2>1. /\ pool.threads[t].usage <= Full
        /\ Cardinality(Units(pool, t)) <= pool.threads[t].usage
    BY DEF UsagesOk, UsageOk, DestroyedOnceAtMost, Created
  <2>2. pool.threads[t].usage \in Int /\ Cardinality(Units(pool, t)) \in Nat
    BY PoolTyped, UnitsAreFinite DEF IInv, Good, Threads, Thread
  <2> QED BY <2>1, <2>2, FullAssumption
<1> QED BY <1>1, Invariance, UsagesAreKept, PTL

\* A ping kills a thread that is not frozen only if it asked for an instance that
\* is gone or about to leave, or that was left out when the process was forked, or
\* if it had been sent to an earlier process (startMonitoringChild, restartChild).
THEOREM OnlyFrozenThreadsAreKilled == Spec => OnlyFrozenKilled
<1> DEFINE Allowed(i) ==
      \/ ThreadOf(i).frozen
      \/ Gone(i)
      \/ LeftOut(i)
      \/ Pinging(i) /\ monitor[i].process # ThreadOf(i).process
<1>1. ASSUME IInv, NEW i \in Created, KilledByPing(i), Fails(i), ~Allowed(i)
      PROVE  /\ CanSend(ThreadOf(i)) /\ pool.inst[i].initialized /\ i \in ThreadOf(i).members
             /\ monitor[i].state = "pinging" =>
                  monitor[i].received /\ monitor[i].process = ThreadOf(i).process
  <2>1. CanSend(ThreadOf(i))
    BY <1>1 DEF KilledByPing, Fails, ThreadOf
  <2>2. ~(pool.inst[i].destroys > 0) /\ i \in ThreadOf(i).members /\ ~LeftOut(i)
    BY <1>1 DEF Gone
  <2>3. /\ LoopOk(ThreadOf(i), pool.inst[i], monitor[i], i)
        /\ Counts(pool, i) => InProcess(ThreadOf(i), pool.inst[i], i)
    BY <1>1 DEF IInv, Good, InstOk, Created, ThreadOf
  <2>4. pool.inst[i].promise = "resolved"
    BY <1>1, <2>3 DEF LoopOk, KilledByPing
  <2>5. InProcess(ThreadOf(i), pool.inst[i], i)
    BY <2>2, <2>3, <2>4 DEF Counts, ThreadOf
  <2>6. pool.inst[i].initialized
    BY <2>2, <2>5 DEF InProcess, LeftOut
  <2>7. monitor[i].state = "pinging" => monitor[i].received
    BY <2>2, <2>3 DEF LoopOk
  <2> QED BY <1>1, <2>1, <2>2, <2>6, <2>7, SMTT(30) DEF Pinging
<1>2. ASSUME IInv, NEW i \in Created, KilledByPing(i), Ping(i) PROVE Allowed(i)
  <2> SUFFICES ASSUME ~Allowed(i) PROVE FALSE
    OBVIOUS
  <2>1. ~(CanSend(ThreadOf(i)) /\ pool.inst[i].initialized) /\ Fails(i)
    BY <1>2 DEF Ping, KilledByPing, ThreadOf
  <2> QED BY <1>1, <1>2, <2>1
<1>3. ASSUME IInv, NEW i \in Created, KilledByPing(i), PingTimeout(i) PROVE Allowed(i)
  <2> SUFFICES ASSUME ~Allowed(i) PROVE FALSE
    OBVIOUS
  <2>1. Fails(i) /\ Pinging(i) /\ ~Answerable(i)
    BY <1>3 DEF PingTimeout
  <2>2. monitor[i].state = "pinging"
    BY <2>1 DEF Pinging
  <2>3. ~ThreadOf(i).alive \/ ThreadOf(i).frozen
    BY <1>1, <1>3, <2>1, <2>2 DEF Answerable
  <2> QED BY <1>1, <1>3, <2>1, <2>3 DEF CanSend
<1>4. ASSUME IInv, NEW i \in Created, KilledByPing(i), [Next]_vars
      PROVE  Ping(i) \/ PingTimeout(i)
  <2>1. i \in Instances /\ monitor \in [Instances -> Monitor]
    BY <1>4 DEF IInv
  <2>2. monitor[i].state # "ended" /\ monitor'[i].state = "ended"
    BY <1>4 DEF KilledByPing
  <2>3. ~UNCHANGED monitor
    BY <2>2
  <2>4. Sleeping.state # "ended"
    BY DEF Sleeping
  <2>5. ASSUME NEW j \in Created, InitOkStartsMonitor(j) \/ Pong(j) PROVE FALSE
    BY <2>1, <2>2, <2>3, <2>4, <2>5 DEF InitOkStartsMonitor, Pong, SleepsAgain, Unwatched
  <2>6. ASSUME NEW j \in Created, Ping(j) \/ PingTimeout(j) PROVE j = i
    BY <2>1, <2>2, <2>6 DEF Ping, PingTimeout, Fails
  <2> QED BY <1>4, <2>3, <2>5, <2>6 DEF Next, vars, Unwatched, DetachInOrder
<1>5. IInv /\ [Next]_vars => [\A i \in Created : KilledByPing(i) => Allowed(i)]_vars
  BY <1>2, <1>3, <1>4
<1> QED BY <1>5, Invariance, PTL DEF Spec, OnlyFrozenKilled
=============================================================================
