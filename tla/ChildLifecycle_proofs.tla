------------------------ MODULE ChildLifecycle_proofs ------------------------
(***************************************************************************)
(* Proofs about ChildLifecycle, for every set of instances, every           *)
(* configuration and any number of faults and calls.                        *)
(*                                                                         *)
(* An action is a composition of the manager's methods, which are operators*)
(* from a child record to a child record.  So the inductive invariant is   *)
(* stated of a record, Good(c), there is one lemma per method that it       *)
(* preserves Good, and an action's proof composes them.                     *)
(***************************************************************************)
EXTENDS ChildLifecycle, SequenceTheorems, TLAPS

\* The conjuncts of the inductive invariant, for a child record.
RefsInv(c) ==
  /\ \A m \in c.pendingInit : m.by \in 0..Len(c.restarts)
  /\ RefersTo(c.kills, c.restarts)
  /\ RefersTo(c.microtasks, c.restarts)

ProcessInv(c) ==
  /\ c.processes # <<>>
  /\ \A p \in 1..(Current(c) - 1) : c.processes[p] = "closed"
  /\ c.alive <=> ProcessState(c) # "closed"
  /\ c.isClosing <=> ProcessState(c) = "terminating"

KillsInv(c) == c.kills # <<>> <=> c.isClosing

UseInv(c) ==
  (c.alive /\ ~c.isClosing) =>
    \A i \in c.instances : c.initialized[i] => c.initGen[i] = Current(c)

Good(c) == c \in Child /\ RefsInv(c) /\ ProcessInv(c) /\ KillsInv(c) /\ UseInv(c)

-----------------------------------------------------------------------------
(***************************************************************************)
(* Killing.                                                                *)
(***************************************************************************)
LEMMA ClearRestartTimeoutGood ==
  ASSUME NEW c, Good(c)
  PROVE  Good(ClearRestartTimeout(c))
<1>1. ClearRestartTimeout(c) \in Child
  BY DEF ClearRestartTimeout, Good, Child
<1> QED
  BY <1>1 DEF ClearRestartTimeout, Good, Child, RefsInv, ProcessInv, KillsInv, UseInv,
              Current, ProcessState

\* The continuation of a kill joins the microtasks.
LEMMA KillDeadGood ==
  ASSUME NEW c, Good(c), ~c.alive, NEW k \in Kill,
         k.goal = "restart" => k.restart \in 1..Len(c.restarts)
  PROVE  Good(KillDead(c, k))
<1> DEFINE d == KillDead(c, k)
<1>1. Append(c.microtasks, k) \in Seq(Kill)
  BY DEF Good, Child
<1>2. d \in Child
  BY <1>1 DEF KillDead, Good, Child, Kill
<1>3. RefsInv(d)
  <2>1. c.microtasks \in Seq(Kill) BY DEF Good, Child
  <2>2. RefersTo(Append(c.microtasks, k), c.restarts)
    BY <2>1, AppendProperties DEF Good, RefsInv, RefersTo
  <2> QED BY <2>2 DEF KillDead, Good, Child, RefsInv
<1>4. ~c.isClosing /\ c.kills = <<>>
  BY DEF Good, ProcessInv, KillsInv
<1> QED
  BY <1>2, <1>3, <1>4 DEF KillDead, Good, Child, ProcessInv, KillsInv, UseInv, Current, ProcessState

\* A close handler joins the kills, and the process is told to terminate.
LEMMA KillAliveGood ==
  ASSUME NEW c, Good(c), c.alive, NEW k \in Kill,
         k.goal = "restart" => k.restart \in 1..Len(c.restarts)
  PROVE  Good(KillAlive(c, k))
<1> DEFINE d == KillAlive(c, k)
           n == Len(c.processes)
           terminating == [c.processes EXCEPT ![n] = "terminating"]
<1>1. /\ c \in Child /\ c.kills \in Seq(Kill) /\ c.processes \in Seq({"running", "terminating", "closed"})
      /\ n \in Nat \ {0}
  BY EmptySeq DEF Good, Child, ProcessInv
<1>2. /\ Append(c.kills, k) \in Seq(Kill)
      /\ Append(c.kills, k) # <<>>
      /\ RefersTo(Append(c.kills, k), c.restarts)
  BY <1>1, AppendProperties DEF Good, RefsInv, RefersTo
<1>3. /\ terminating \in Seq({"running", "terminating", "closed"})
      /\ Len(terminating) = n
      /\ \A j \in 1..n : terminating[j] = IF j = n THEN "terminating" ELSE c.processes[j]
  BY <1>1, ExceptSeq
<1>4. d \in Child
  BY <1>1, <1>2, <1>3 DEF KillAlive, Child
<1>5. /\ d.kills = Append(c.kills, k) /\ d.isClosing /\ d.alive
      /\ d.processes = IF c.isClosing THEN c.processes ELSE terminating
      /\ d.restarts = c.restarts /\ d.pendingInit = c.pendingInit /\ d.microtasks = c.microtasks
  BY <1>1 DEF KillAlive, Child
<1>6. RefsInv(d)
  BY <1>2, <1>5 DEF Good, RefsInv
<1>7. ProcessInv(d)
  <2>1. CASE c.isClosing
    BY <1>5, <2>1 DEF Good, ProcessInv, Current, ProcessState
  <2>2. CASE ~c.isClosing
    <3>1. d.processes # <<>> /\ Len(d.processes) = n
      BY <1>1, <1>3, <1>5, <2>2, EmptySeq
    <3>2. \A p \in 1..(n - 1) : d.processes[p] = "closed"
      BY <1>1, <1>3, <1>5, <2>2 DEF Good, ProcessInv, Current
    <3>3. d.processes[n] = "terminating"
      BY <1>1, <1>3, <1>5, <2>2
    <3> QED BY <1>5, <3>1, <3>2, <3>3 DEF ProcessInv, Current, ProcessState
  <2> QED BY <2>1, <2>2
<1> QED
  BY <1>2, <1>4, <1>5, <1>6, <1>7 DEF Good, KillsInv, UseInv

\* killChild adds a kill, or only cleans up, and keeps a child good.
LEMMA KillChildGood ==
  ASSUME NEW c, Good(c), NEW goal \in Goals, NEW r \in Nat, NEW cleanUp \in BOOLEAN,
         goal = "restart" => r \in 1..Len(c.restarts)
  PROVE  Good(KillChild(c, goal, r, cleanUp))
<1> DEFINE k == NewKill(goal, r, cleanUp)
           d == IF cleanUp THEN ClearRestartTimeout(c) ELSE c
<1>1. k \in Kill /\ k.goal = goal /\ k.restart = r
  BY DEF NewKill, Kill
<1>2. Good(d)
  BY ClearRestartTimeoutGood
<1>3. d.alive = c.alive /\ d.restarts = c.restarts
  BY DEF ClearRestartTimeout, Good, Child
<1>4. CASE c.alive
  BY <1>1, <1>2, <1>3, <1>4, KillAliveGood DEF KillChild
<1>5. CASE ~c.alive
  BY <1>1, <1>2, <1>3, <1>5, KillDeadGood DEF KillChild
<1> QED BY <1>4, <1>5

-----------------------------------------------------------------------------
(***************************************************************************)
(* Restarting.                                                             *)
(***************************************************************************)
\* What a change of restarts alone must respect.
LEMMA RestartsGood ==
  ASSUME NEW c, Good(c), NEW rs \in Seq(Restart), Len(rs) = Len(c.restarts)
  PROVE  Good([c EXCEPT !.restarts = rs])
<1>1. [c EXCEPT !.restarts = rs] \in Child
  BY DEF Good, Child
<1> QED
  BY <1>1 DEF Good, Child, RefsInv, RefersTo, ProcessInv, KillsInv, UseInv, Current, ProcessState

\* Replacing one restart keeps the sequence one of restarts.
LEMMA SetRestart ==
  ASSUME NEW rs \in Seq(Restart), NEW r \in 1..Len(rs), NEW x \in Restart
  PROVE  /\ [rs EXCEPT ![r] = x] \in Seq(Restart)
         /\ Len([rs EXCEPT ![r] = x]) = Len(rs)
BY ExceptSeq

\* The count of failed restarts is not part of what is kept.
LEMMA FailCountGood ==
  ASSUME NEW c, Good(c)
  PROVE  Good([c EXCEPT !.failCount = @ + 1])
<1>1. c.failCount + 1 \in Nat
  BY DEF Good, Child
<1>2. [c EXCEPT !.failCount = @ + 1] \in Child
  BY <1>1 DEF Good, Child
<1> QED
  BY <1>2 DEF Good, Child, RefsInv, RefersTo, ProcessInv, KillsInv, UseInv, Current, ProcessState

\* A restart that failed kills the process and counts the failure.
LEMMA FailRestartGood ==
  ASSUME NEW c, Good(c), NEW r \in 1..Len(c.restarts)
  PROVE  Good(FailRestart(c, r))
<1> DEFINE d == [c EXCEPT !.restarts[r].state = "failed"]
           e == [d EXCEPT !.failCount = @ + 1]
<1>1. c \in Child /\ c.restarts \in Seq(Restart)
  BY DEF Good, Child
<1>2. c.restarts[r] \in Restart
  BY <1>1, ElementOfSeq
<1>3. [c.restarts[r] EXCEPT !.state = "failed"] \in Restart
  BY <1>2 DEF Restart, RestartStates
<1>4. Good(d)
  BY <1>1, <1>3, SetRestart, RestartsGood
<1>5. Good(e)
  <2> HIDE DEF d
  <2> QED BY <1>4, FailCountGood
<1>6. Good(KillChild(e, "retry", 0, FALSE)) /\ Good(KillChild(e, "report", 0, TRUE))
  BY <1>5, KillChildGood DEF Goals
<1>7. FailRestart(c, r) = IF ~c.restarts[r].auto THEN d
                          ELSE IF CanRetryRestart(e) THEN KillChild(e, "retry", 0, FALSE)
                          ELSE KillChild(e, "report", 0, TRUE)
  BY SMT DEF FailRestart
<1> HIDE DEF d, e
<1> QED BY <1>4, <1>6, <1>7

\* A function on 1..n is a sequence of length n.
LEMMA FunctionIsSeq ==
  ASSUME NEW S, NEW n \in Nat, NEW f \in [1..n -> S]
  PROVE  f \in Seq(S) /\ Len(f) = n
<1>1. f \in Seq(S)
  OBVIOUS
<1>2. DOMAIN f = 1..Len(f) /\ Len(f) \in Nat
  BY <1>1, LenProperties
<1> QED BY <1>1, <1>2

\* Restarts that are mapped one by one stay restarts.
LEMMA MapRestarts ==
  ASSUME NEW rs \in Seq(Restart), NEW f \in [DOMAIN rs -> Restart]
  PROVE  f \in Seq(Restart) /\ Len(f) = Len(rs)
BY LenProperties, FunctionIsSeq

\* Settling an instance's INIT leaves a good child.
LEMMA SettleGood ==
  ASSUME NEW c, Good(c)
  PROVE  Good(Settle(c))
<1> DEFINE rs == [r \in DOMAIN c.restarts |->
                    IF Completed(c, r) THEN [c.restarts[r] EXCEPT !.state = "ok"]
                    ELSE c.restarts[r]]
           d == [c EXCEPT !.restarts = rs]
<1>1. c \in Child /\ c.restarts \in Seq(Restart)
  BY DEF Good, Child
<1>2. \A r \in DOMAIN c.restarts : c.restarts[r] \in Restart
  BY <1>1, LenProperties, ElementOfSeq
<1>3. \A r \in DOMAIN c.restarts : rs[r] \in Restart
  BY <1>2 DEF Restart, RestartStates
<1>4. rs \in Seq(Restart) /\ Len(rs) = Len(c.restarts)
  <2>1. rs \in [DOMAIN c.restarts -> Restart] BY <1>3
  <2> QED BY <1>1, <2>1, MapRestarts
<1>5. Good(d)
  BY <1>4, RestartsGood
<1>6. Settle(c) \in Child
  BY <1>4, <1>1 DEF Settle, Child
<1>7. /\ Settle(c).processes = d.processes /\ Settle(c).alive = d.alive
      /\ Settle(c).isClosing = d.isClosing /\ Settle(c).kills = d.kills
      /\ Settle(c).microtasks = d.microtasks /\ Settle(c).pendingInit = d.pendingInit
      /\ Settle(c).restarts = d.restarts /\ Settle(c).instances = d.instances
      /\ Settle(c).initialized = d.initialized /\ Settle(c).initGen = d.initGen
  BY <1>1 DEF Settle, Child
<1> QED
  BY <1>5, <1>6, <1>7 DEF Good, RefsInv, RefersTo, ProcessInv, KillsInv, UseInv, Current, ProcessState

\* The instances that a restart skips are instances.
LEMMA SkippedTyped ==
  ASSUME NEW s \in Seq(Nat)
  PROVE  Skipped(s) \in Seq(Nat)
<1>1. Len(s) \in Nat /\ \A k \in 1..Len(s) : s[k] \in Nat
  BY LenProperties, ElementOfSeq
<1>2. (Len(s) \div 2) \in Nat /\ \A k \in 1..(Len(s) \div 2) : 2 * k \in 1..Len(s)
  BY <1>1
<1>3. Skipped(s) \in [1..(Len(s) \div 2) -> Nat]
  BY <1>1, <1>2 DEF Skipped
<1> QED BY <1>2, <1>3, FunctionIsSeq

\* Sending the INITs of a restart keeps a child good.
LEMMA NotifyInitializedGood ==
  ASSUME NEW c, Good(c)
  PROVE  Good(NotifyInitialized(c)) /\ Len(NotifyInitialized(c).restarts) = Len(c.restarts)
<1> DEFINE rs == [r \in DOMAIN c.restarts |->
                    IF r \in Visited(c.initListeners)
                    THEN [c.restarts[r] EXCEPT !.heard = TRUE, !.timer = FALSE]
                    ELSE c.restarts[r]]
           d == [c EXCEPT !.restarts = rs]
           e == [d EXCEPT !.initListeners = Skipped(c.initListeners)]
<1>1. c \in Child /\ c.restarts \in Seq(Restart) /\ c.initListeners \in Seq(Nat)
  BY DEF Good, Child
<1>2. \A r \in DOMAIN c.restarts : c.restarts[r] \in Restart
  BY <1>1, LenProperties, ElementOfSeq
<1>3. \A r \in DOMAIN c.restarts : rs[r] \in Restart
  BY <1>2 DEF Restart
<1>4. rs \in Seq(Restart) /\ Len(rs) = Len(c.restarts)
  <2>1. rs \in [DOMAIN c.restarts -> Restart] BY <1>3
  <2> QED BY <1>1, <2>1, MapRestarts
<1>5. Good(d)
  BY <1>4, RestartsGood
<1>6. Good(e)
  <2>1. e \in Child BY <1>1, <1>5, SkippedTyped DEF Good, Child
  <2> QED BY <1>5, <2>1 DEF Good, Child, RefsInv, RefersTo, ProcessInv, KillsInv, UseInv, Current, ProcessState
<1>7. NotifyInitialized(c) = Settle(e)
  BY <1>1 DEF NotifyInitialized, Child
<1>8. Len(Settle(e).restarts) = Len(c.restarts)
  <2>1. e.restarts = rs BY <1>1 DEF Child
  <2>2. e \in Child BY <1>6 DEF Good
  <2>3. \A r \in DOMAIN rs : rs[r] \in Restart BY <1>3
  <2> DEFINE ss == [r \in DOMAIN rs |-> IF Completed(e, r) THEN [rs[r] EXCEPT !.state = "ok"] ELSE rs[r]]
  <2>4. Settle(e).restarts = ss BY <2>1, <2>2 DEF Settle, Child
  <2> HIDE DEF rs
  <2>5. \A r \in DOMAIN rs : ss[r] \in Restart
    BY <2>3 DEF Restart, RestartStates
  <2>6. Len(ss) = Len(rs)
    <3>1. ss \in [DOMAIN rs -> Restart] BY <2>5
    <3> QED BY <1>4, <3>1, MapRestarts
  <2> QED BY <1>4, <2>4, <2>6
<1> QED BY <1>6, <1>7, <1>8, SettleGood

\* A fork: the last process has closed, and nothing waits for its close.
LEMMA ForkGood ==
  ASSUME NEW c, Good(c), ~c.alive
  PROVE  Good(Fork(c)) /\ Fork(c).alive /\ ~Fork(c).isClosing /\ Fork(c).restarts = c.restarts
<1> DEFINE d == Fork(c)
           n == Len(c.processes)
           forked == Append(c.processes, "running")
<1>1. /\ c \in Child /\ c.processes \in Seq({"running", "terminating", "closed"})
      /\ n \in Nat \ {0}
  BY EmptySeq DEF Good, Child, ProcessInv
<1>2. /\ forked \in Seq({"running", "terminating", "closed"})
      /\ Len(forked) = n + 1 /\ forked # <<>>
      /\ forked[n + 1] = "running"
      /\ \A j \in 1..n : forked[j] = c.processes[j]
  BY <1>1, AppendProperties
<1>3. d \in Child
  BY <1>1, <1>2 DEF Fork, Child
<1>4. /\ d.alive /\ ~d.isClosing /\ d.processes = forked
      /\ d.restarts = c.restarts /\ d.pendingInit = c.pendingInit
      /\ d.kills = c.kills /\ d.microtasks = c.microtasks /\ d.instances = c.instances
      /\ d.initialized = [i \in Instances |-> c.initialized[i] /\ i \notin c.instances]
  BY <1>1 DEF Fork, Child
<1>5. RefsInv(d)
  BY <1>4 DEF Good, RefsInv
<1>6. ProcessInv(d)
  BY <1>1, <1>2, <1>4 DEF Good, ProcessInv, Current, ProcessState
<1>7. KillsInv(d)
  BY <1>4 DEF Good, KillsInv, ProcessInv
<1>8. UseInv(d)
  BY <1>1, <1>4 DEF UseInv, Child
<1> QED BY <1>3, <1>4, <1>5, <1>6, <1>7, <1>8 DEF Good

\* Going on to the next INIT, or to the end of a restart, keeps a child good.
LEMMA AwaitInitGood ==
  ASSUME NEW c, Good(c), NEW r \in 1..Len(c.restarts)
  PROVE  /\ Good(AwaitInit(c, r))
         /\ Len(AwaitInit(c, r).restarts) = Len(c.restarts)
<1> DEFINE x == [c.restarts[r] EXCEPT !.state = "waiting", !.timer = HasRestartTimeout]
           rs == [c.restarts EXCEPT ![r] = x]
           d == [c EXCEPT !.restarts = rs]
           e == [d EXCEPT !.initListeners = Append(c.initListeners, r)]
<1>1. /\ c \in Child /\ c.restarts \in Seq(Restart) /\ c.initListeners \in Seq(Nat)
      /\ r \in Nat
  BY LenProperties DEF Good, Child
<1>2. c.restarts[r] \in Restart
  BY <1>1, ElementOfSeq
<1>3. x \in Restart
  BY <1>2, ConfigAssumption DEF Restart, RestartStates
<1>4. rs \in Seq(Restart) /\ Len(rs) = Len(c.restarts)
  BY <1>1, <1>3, SetRestart
<1>5. Good(d)
  BY <1>4, RestartsGood
<1>6. Good(e) /\ e.restarts = rs
  <2>1. Append(c.initListeners, r) \in Seq(Nat) BY <1>1
  <2>2. d.restarts = rs BY <1>1 DEF Child
  <2> HIDE DEF d
  <2>3. e \in Child BY <1>5, <2>1 DEF Good, Child
  <2> QED BY <1>5, <2>2, <2>3 DEF Good, Child, RefsInv, RefersTo, ProcessInv, KillsInv, UseInv, Current, ProcessState
<1>7. AwaitInit(c, r) = e
  BY <1>1 DEF AwaitInit, Child
<1> QED BY <1>4, <1>6, <1>7

\* Either the sends fail, on a closing child, or each target is initialised on
\* the current process.
LEMMA SendInitsGood ==
  ASSUME NEW c, Good(c), NEW r \in 1..Len(c.restarts)
  PROVE  Good(SendInits(c, r))
<1> DEFINE targets == c.restarts[r].targets
           x == [c.restarts[r] EXCEPT !.awaiting = targets, !.process = Current(c)]
           rs == [c.restarts EXCEPT ![r] = x]
           b == [c EXCEPT !.restarts = rs]
           init == [i \in Instances |-> c.initialized[i] \/ i \in targets]
           gen == [i \in Instances |-> IF i \in targets THEN Current(c) ELSE c.initGen[i]]
           sent == c.pendingInit \cup [by : {r}, inst : targets]
           d == [b EXCEPT !.initialized = init]
           e == [d EXCEPT !.initGen = gen, !.pendingInit = sent]
<1>1. /\ c \in Child /\ c.restarts \in Seq(Restart) /\ r \in Nat /\ Current(c) \in Nat
      /\ c.initialized \in [Instances -> BOOLEAN] /\ c.initGen \in [Instances -> Nat]
      /\ c.pendingInit \subseteq Init_Message
  BY LenProperties DEF Good, Child, Current
<1>2. c.restarts[r] \in Restart /\ targets \subseteq Instances
  <2>1. c.restarts[r] \in Restart BY <1>1, ElementOfSeq
  <2> QED BY <2>1 DEF Restart
<1>3. x \in Restart
  BY <1>1, <1>2 DEF Restart
<1>4. rs \in Seq(Restart) /\ Len(rs) = Len(c.restarts)
  BY <1>1, <1>3, SetRestart
<1>5. /\ Good(b) /\ b.restarts = rs /\ b.isClosing = c.isClosing /\ b.alive = c.alive
      /\ b.instances = c.instances /\ b.pendingInit = c.pendingInit
      /\ b.processes = c.processes
  BY <1>1, <1>4, RestartsGood DEF Child
<1>6. init \in [Instances -> BOOLEAN] /\ gen \in [Instances -> Nat]
  BY <1>1
<1>7. sent \subseteq Init_Message
  BY <1>1, <1>2 DEF Init_Message
<1> HIDE DEF rs, x
<1>8. SendInits(c, r) = IF c.isClosing THEN FailRestart(NotifyInitialized(d), r) ELSE e
  BY <1>1 DEF SendInits, Child, rs, x
<1>9. CASE c.isClosing
  <2> HIDE DEF b
  <2>1. d \in Child
    BY <1>5, <1>6 DEF Good, Child
  <2>2. Good(d) /\ Len(d.restarts) = Len(c.restarts)
    BY <1>4, <1>5, <1>9, <2>1 DEF Good, Child, RefsInv, RefersTo, ProcessInv, KillsInv, UseInv,
                        Current, ProcessState
  <2> HIDE DEF d
  <2>3. Good(FailRestart(NotifyInitialized(d), r))
    BY <2>2, NotifyInitializedGood, FailRestartGood
  <2> QED BY <1>8, <1>9, <2>3
<1>10. CASE ~c.isClosing
  <2> HIDE DEF b, init, gen, sent
  <2>1. e \in Child
    BY <1>5, <1>6, <1>7 DEF Good, Child
  <2>2. /\ e.pendingInit = sent /\ e.initialized = init /\ e.initGen = gen
        /\ e.processes = b.processes /\ e.alive = b.alive /\ e.isClosing = b.isClosing
        /\ e.kills = b.kills /\ e.microtasks = b.microtasks /\ e.restarts = b.restarts
        /\ e.instances = b.instances
    BY <1>5 DEF Good, Child
  <2>3. \A m \in sent : m.by \in 0..Len(e.restarts)
    BY <1>1, <1>4, <1>5, <2>2 DEF Good, RefsInv, sent
  <2>4. RefsInv(e)
    BY <1>5, <2>2, <2>3 DEF Good, RefsInv
  <2>5. ProcessInv(e) /\ KillsInv(e)
    BY <1>5, <2>2 DEF Good, ProcessInv, KillsInv, Current, ProcessState
  <2>6. UseInv(e)
    <3> SUFFICES ASSUME e.alive, ~e.isClosing, NEW i \in e.instances, e.initialized[i]
                 PROVE  e.initGen[i] = Current(e)
      BY DEF UseInv
    <3>1. i \in Instances BY <2>1 DEF Child
    <3>2. CASE i \in targets
      BY <1>5, <2>2, <3>1, <3>2 DEF gen, Current
    <3>3. CASE i \notin targets
      <4>1. init[i] = (c.initialized[i] \/ i \in targets) /\ gen[i] = c.initGen[i]
        BY <3>1, <3>3 DEF init, gen
      <4> HIDE DEF d, e, targets
      <4>2. c.initialized[i] /\ c.alive /\ ~c.isClosing /\ i \in c.instances
        BY <1>5, <2>2, <3>3, <4>1
      <4>3. c.initGen[i] = Current(c)
        BY <4>2 DEF Good, UseInv
      <4> QED BY <1>5, <2>2, <4>1, <4>3 DEF Current
    <3> QED BY <3>2, <3>3
  <2> QED BY <1>8, <1>10, <2>1, <2>4, <2>5, <2>6 DEF Good
<1> QED BY <1>9, <1>10

\* A killing restart that goes on forks the process.
LEMMA ContinueRestartGood ==
  ASSUME NEW c, Good(c), NEW r \in 1..Len(c.restarts)
  PROVE  Good(ContinueRestart(c, r))
<1> DEFINE d == ClearRestartTimeout(c)
           e == IF c.alive THEN d ELSE Fork(d)
<1>1. Good(d) /\ d.alive = c.alive /\ d.restarts = c.restarts
  BY ClearRestartTimeoutGood DEF ClearRestartTimeout, Good, Child
<1>2. Good(e) /\ e.restarts = c.restarts
  <2> HIDE DEF d
  <2> QED BY <1>1, ForkGood
<1>3. ContinueRestart(c, r) = SendInits(AwaitInit(e, r), r)
  BY DEF ContinueRestart
<1> HIDE DEF e
<1>4. Good(AwaitInit(e, r)) /\ Len(AwaitInit(e, r).restarts) = Len(c.restarts)
  BY <1>2, AwaitInitGood
<1> QED BY <1>3, <1>4, SendInitsGood

\* restartChild, from wherever it is called, keeps a child good.
LEMMA RestartChildGood ==
  ASSUME NEW c, Good(c), NEW targets \in SUBSET Instances,
         NEW auto \in BOOLEAN, NEW force \in BOOLEAN
  PROVE  Good(RestartChild(c, targets, auto, force))
<1> DEFINE r == Len(c.restarts) + 1
           rs == [q \in 1..r |-> IF q < r THEN c.restarts[q] ELSE NewRestart(targets, auto)]
           d == [c EXCEPT !.restarts = rs]
<1>1. /\ c \in Child /\ c.restarts \in Seq(Restart) /\ Len(c.restarts) \in Nat /\ r \in Nat
      /\ \A q \in 1..Len(c.restarts) : c.restarts[q] \in Restart
  BY LenProperties, ElementOfSeq DEF Good, Child
<1>2. NewRestart(targets, auto) \in Restart
  BY DEF NewRestart, Restart, RestartStates
<1>3. rs \in Seq(Restart) /\ Len(rs) = r
  <2>1. rs \in [1..r -> Restart] BY <1>1, <1>2
  <2> QED BY <1>1, <2>1, FunctionIsSeq
<1>4. RestartChild(c, targets, auto, force) =
        IF c.alive /\ force THEN KillChild(d, "restart", r, FALSE) ELSE ContinueRestart(d, r)
  BY DEF RestartChild
<1> HIDE DEF rs
<1>5. /\ d \in Child /\ d.restarts = rs
      /\ d.processes = c.processes /\ d.alive = c.alive /\ d.isClosing = c.isClosing
      /\ d.kills = c.kills /\ d.microtasks = c.microtasks /\ d.pendingInit = c.pendingInit
      /\ d.instances = c.instances /\ d.initialized = c.initialized /\ d.initGen = c.initGen
  BY <1>1, <1>3 DEF Child
<1> HIDE DEF d
<1>6. RefsInv(d)
  <2>1. 0..Len(c.restarts) \subseteq 0..r /\ 1..Len(c.restarts) \subseteq 1..r
    BY <1>1
  <2> HIDE DEF r
  <2> QED BY <1>3, <1>5, <2>1 DEF Good, RefsInv, RefersTo
<1>7. Good(d) /\ r \in 1..Len(d.restarts)
  <2>1. ProcessInv(d) /\ KillsInv(d) /\ UseInv(d)
    BY <1>5 DEF Good, ProcessInv, KillsInv, UseInv, Current, ProcessState
  <2> QED BY <1>1, <1>3, <1>5, <1>6, <2>1 DEF Good
<1> HIDE DEF r
<1>8. Good(KillChild(d, "restart", r, FALSE))
  BY <1>1, <1>7, KillChildGood DEF Goals
<1> QED BY <1>4, <1>7, <1>8, ContinueRestartGood

\* childHasCrashed, with or without a retry, keeps a child good.
LEMMA ChildHasCrashedGood ==
  ASSUME NEW c, Good(c)
  PROVE  Good(ChildHasCrashed(c))
<1>1. (c.instances \cap AutoRestart) \in SUBSET Instances
  BY InstancesAssumption
<1>2. Good(RestartChild(c, c.instances \cap AutoRestart, TRUE, TRUE))
  BY <1>1, RestartChildGood
<1>3. Good(KillChild(c, "report", 0, FALSE))
  BY KillChildGood DEF Goals
<1> QED BY <1>2, <1>3 DEF ChildHasCrashed

-----------------------------------------------------------------------------
(***************************************************************************)
(* The close event.                                                        *)
(***************************************************************************)
LEMMA MarkClosedFields ==
  ASSUME NEW c, Good(c), c.alive
  PROVE  LET d == MarkClosed(c) IN
         /\ d \in Child /\ RefsInv(d) /\ UseInv(d)
         /\ ~d.alive /\ d.isClosing = c.isClosing
         /\ d.kills = c.kills /\ d.microtasks = c.microtasks /\ d.restarts = c.restarts
         /\ d.instances = c.instances /\ d.pendingInit = {}
         /\ d.processes # <<>>
         /\ \A p \in 1..Current(d) : d.processes[p] = "closed"
<1> DEFINE d == MarkClosed(c)
           n == Len(c.processes)
           closed == [c.processes EXCEPT ![n] = "closed"]
<1>1. /\ c \in Child /\ c.processes \in Seq({"running", "terminating", "closed"})
      /\ n \in Nat \ {0}
      /\ \A p \in 1..(n - 1) : c.processes[p] = "closed"
  BY EmptySeq DEF Good, Child, ProcessInv, Current
<1>2. /\ closed \in Seq({"running", "terminating", "closed"})
      /\ Len(closed) = n
      /\ \A j \in 1..n : closed[j] = IF j = n THEN "closed" ELSE c.processes[j]
  BY <1>1, ExceptSeq
<1>3. closed # <<>> /\ \A j \in 1..n : closed[j] = "closed"
  BY <1>1, <1>2, EmptySeq
<1> HIDE DEF closed
<1>4. MarkClosed(c) = [c EXCEPT !.alive = FALSE, !.processes = closed, !.pendingInit = {}]
  BY DEF MarkClosed, closed
<1>5. d \in Child
  BY <1>1, <1>2, <1>4 DEF Child
<1>6. /\ ~d.alive /\ d.isClosing = c.isClosing /\ d.processes = closed
      /\ d.kills = c.kills /\ d.microtasks = c.microtasks /\ d.restarts = c.restarts
      /\ d.instances = c.instances /\ d.pendingInit = {}
  BY <1>1, <1>4 DEF Child
<1> HIDE DEF d
<1>7. RefsInv(d) /\ UseInv(d)
  BY <1>6 DEF Good, RefsInv, UseInv
<1> QED BY <1>2, <1>3, <1>5, <1>6, <1>7 DEF Current, d

\* The close of a process nobody was killing.
LEMMA CrashGood ==
  ASSUME NEW c, Good(c), c.alive, ~c.isClosing
  PROVE  Good(CloseHandlers(ChildHasCrashed(MarkClosed(c)), c.kills))
<1> DEFINE d == MarkClosed(c)
<1>1. c.kills = <<>>
  BY DEF Good, KillsInv
<1>2. Good(d)
  <2>1. /\ d \in Child /\ RefsInv(d) /\ UseInv(d) /\ ~d.alive /\ ~d.isClosing
        /\ d.kills = <<>> /\ d.processes # <<>>
        /\ \A p \in 1..Current(d) : d.processes[p] = "closed"
    BY <1>1, MarkClosedFields
  <2> HIDE DEF d
  <2>2. Current(d) \in Nat \ {0} /\ ProcessState(d) = "closed"
    BY <2>1, EmptySeq DEF Child, Current, ProcessState
  <2> QED BY <2>1, <2>2 DEF Good, ProcessInv, KillsInv
<1> HIDE DEF d
<1>3. Good(ChildHasCrashed(d))
  BY <1>2, ChildHasCrashedGood
<1> QED BY <1>1, <1>3 DEF CloseHandlers, d

\* Concatenation preserves the ids that the kills refer to.
LEMMA ConcatKills ==
  ASSUME NEW s \in Seq(Kill), NEW t \in Seq(Kill), NEW rs, RefersTo(s, rs), RefersTo(t, rs)
  PROVE  s \o t \in Seq(Kill) /\ RefersTo(s \o t, rs)
<1>1. Len(s) \in Nat /\ Len(t) \in Nat
  BY LenProperties
<1>2. s \o t \in Seq(Kill) /\ Len(s \o t) = Len(s) + Len(t)
  OBVIOUS
<1>3. ASSUME NEW k \in 1..Len(s \o t)
      PROVE  \/ k \in 1..Len(s) /\ (s \o t)[k] = s[k]
             \/ k - Len(s) \in 1..Len(t) /\ (s \o t)[k] = t[k - Len(s)]
  BY <1>1, <1>2
<1> QED BY <1>2, <1>3 DEF RefersTo

\* The close of a killed process: every pending kill settles.
LEMMA TerminatedGood ==
  ASSUME NEW c, Good(c), c.alive, c.isClosing
  PROVE  Good(CloseHandlers(ChildHasCrashed(MarkClosed(c)), c.kills))
<1> DEFINE d == MarkClosed(c)
           cleanUp == \E k \in 1..Len(c.kills) : c.kills[k].cleanUp
           e == CloseHandlers(d, c.kills)
<1>1. /\ d \in Child /\ RefsInv(d) /\ ~d.alive /\ d.isClosing
      /\ d.kills = c.kills /\ d.processes # <<>> /\ d.microtasks \in Seq(Kill)
      /\ \A p \in 1..Current(d) : d.processes[p] = "closed"
  <2>1. /\ d \in Child /\ RefsInv(d) /\ ~d.alive /\ d.isClosing
        /\ d.kills = c.kills /\ d.processes # <<>>
        /\ \A p \in 1..Current(d) : d.processes[p] = "closed"
    BY MarkClosedFields
  <2> HIDE DEF d
  <2> QED BY <2>1 DEF Child
<1>2. ChildHasCrashed(d) = d
  BY <1>1 DEF ChildHasCrashed
<1>3. c.kills \in Seq(Kill) /\ c.kills # <<>>
  BY DEF Good, Child, KillsInv
<1> HIDE DEF d
<1>4. Current(d) \in Nat \ {0} /\ ProcessState(d) = "closed"
  BY <1>1, EmptySeq DEF Child, Current, ProcessState
<1>5. /\ d.microtasks \o c.kills \in Seq(Kill)
      /\ RefersTo(d.microtasks \o c.kills, d.restarts)
  <2>1. RefersTo(d.microtasks, d.restarts) /\ RefersTo(c.kills, d.restarts)
    BY <1>1 DEF RefsInv
  <2> QED BY <1>1, <1>3, <2>1, ConcatKills
<1> HIDE DEF cleanUp
<1>6. e = [d EXCEPT !.instances = IF cleanUp THEN {} ELSE @,
                    !.registered = @ /\ ~cleanUp,
                    !.isClosing = FALSE,
                    !.kills = <<>>,
                    !.microtasks = @ \o c.kills]
  BY <1>3 DEF CloseHandlers, cleanUp
<1>7. e \in Child
  <2>1. (d.registered /\ ~cleanUp) \in BOOLEAN /\ <<>> \in Seq(Kill)
    BY EmptySeq
  <2>2. (IF cleanUp THEN {} ELSE d.instances) \in SUBSET Instances
    BY <1>1 DEF Child
  <2> HIDE DEF e
  <2> QED BY <1>1, <1>5, <1>6, <2>1, <2>2 DEF Child
<1>8. /\ e.processes = d.processes /\ e.alive = d.alive /\ ~e.isClosing /\ e.kills = <<>>
      /\ e.microtasks = d.microtasks \o c.kills /\ e.restarts = d.restarts
      /\ e.pendingInit = d.pendingInit
  BY <1>1, <1>6 DEF Child
<1> HIDE DEF e
<1>9. RefsInv(e)
  <2>1. RefersTo(<<>>, e.restarts)
    BY DEF RefersTo
  <2>2. d.pendingInit = {}
    BY MarkClosedFields DEF d
  <2> QED BY <1>5, <1>8, <2>1, <2>2 DEF RefsInv
<1>10. ProcessInv(e) /\ KillsInv(e) /\ UseInv(e)
  BY <1>1, <1>4, <1>8 DEF ProcessInv, KillsInv, UseInv, Current, ProcessState
<1>11. Good(e)
  BY <1>7, <1>9, <1>10 DEF Good
<1> QED BY <1>2, <1>11 DEF d, e

-----------------------------------------------------------------------------
(***************************************************************************)
(* The actions.  IInv is Good of the state's child record.                 *)
(***************************************************************************)
IInv == Good(child) /\ faults \in Nat /\ ops \in Nat

\* A change that leaves the process, the kills and the restarts alone.
LEMMA FrameGood ==
  ASSUME NEW c, Good(c), NEW d \in Child,
         d.processes = c.processes, d.alive = c.alive, d.isClosing = c.isClosing,
         d.kills = c.kills, d.microtasks = c.microtasks, d.restarts = c.restarts,
         d.pendingInit \subseteq c.pendingInit, d.instances \subseteq c.instances,
         d.initialized = c.initialized, d.initGen = c.initGen
  PROVE  Good(d)
BY DEF Good, RefsInv, ProcessInv, KillsInv, UseInv, Current, ProcessState

\* The bounds of the exploration leave numbers.
LEMMA BudgetTyped ==
  ASSUME IInv, NEW f, NEW o, Step \/ Fault(f) \/ UserOp(o)
  PROVE  faults' \in Nat /\ ops' \in Nat
BY DEF IInv, Step, Fault, UserOp

\* A retry timer is set or left.
LEMMA SetRetryTimeoutGood ==
  ASSUME NEW c, Good(c)
  PROVE  Good(SetRetryTimeout(c))
<1>1. c.strayRetries + 1 \in Nat
  BY DEF Good, Child
<1>2. SetRetryTimeout(c) \in Child
  BY <1>1 DEF SetRetryTimeout, Good, Child
<1>3. PICK d : d = SetRetryTimeout(c)
  OBVIOUS
<1>4. /\ d.processes = c.processes /\ d.alive = c.alive /\ d.isClosing = c.isClosing
      /\ d.kills = c.kills /\ d.microtasks = c.microtasks /\ d.restarts = c.restarts
      /\ d.pendingInit = c.pendingInit /\ d.instances = c.instances
      /\ d.initialized = c.initialized /\ d.initGen = c.initGen
  BY <1>3 DEF SetRetryTimeout, Good, Child
<1> QED BY <1>2, <1>3, <1>4, FrameGood

\* The close event of the process.
LEMMA CloseStep ==
  ASSUME IInv, Crash \/ Terminated
  PROVE  IInv'
<1>1. Good(child) /\ child.alive
  BY DEF IInv, Crash, Terminated
<1>2. child' = CloseHandlers(ChildHasCrashed(MarkClosed(child)), child.kills)
  BY DEF Crash, Terminated, Close
<1>3. Good(child')
  <2>1. CASE child.isClosing BY <1>1, <1>2, <2>1, TerminatedGood
  <2>2. CASE ~child.isClosing BY <1>1, <1>2, <2>2, CrashGood
  <2> QED BY <2>1, <2>2
<1>4. faults' \in Nat /\ ops' \in Nat
  BY BudgetTyped DEF Crash, Terminated
<1> QED BY <1>3, <1>4 DEF IInv

\* A ping that is not answered.
LEMMA PingTimeoutStep ==
  ASSUME IInv, PingTimeout
  PROVE  IInv'
BY ChildHasCrashedGood, BudgetTyped DEF IInv, PingTimeout

\* A continuation of a promise.
LEMMA RunMicrotaskStep ==
  ASSUME IInv, RunMicrotask
  PROVE  IInv'
<1> DEFINE k == Head(child.microtasks)
           c == [child EXCEPT !.microtasks = Tail(@)]
<1>1. child \in Child /\ child.microtasks \in Seq(Kill) /\ child.microtasks # <<>>
  BY DEF IInv, Good, Child, RunMicrotask
<1>2. /\ k \in Kill /\ Tail(child.microtasks) \in Seq(Kill)
      /\ Len(child.microtasks) \in Nat \ {0}
      /\ Len(Tail(child.microtasks)) = Len(child.microtasks) - 1
      /\ \A i \in 1..Len(Tail(child.microtasks)) : Tail(child.microtasks)[i] = child.microtasks[i + 1]
      /\ k = child.microtasks[1]
  BY <1>1, HeadTailProperties, EmptySeq
<1>3. RefersTo(child.microtasks, child.restarts)
  BY DEF IInv, Good, RefsInv
<1>4. RefersTo(Tail(child.microtasks), child.restarts)
  BY <1>2, <1>3 DEF RefersTo
<1>5. k.goal = "restart" => k.restart \in 1..Len(child.restarts)
  BY <1>2, <1>3 DEF RefersTo
<1>6. c \in Child
  BY <1>1, <1>2 DEF Child
<1>7. /\ c.processes = child.processes /\ c.alive = child.alive /\ c.isClosing = child.isClosing
      /\ c.kills = child.kills /\ c.microtasks = Tail(child.microtasks)
      /\ c.restarts = child.restarts /\ c.pendingInit = child.pendingInit
      /\ c.instances = child.instances
      /\ c.initialized = child.initialized /\ c.initGen = child.initGen
  BY <1>1 DEF Child
<1>8. \/ child' = c
      \/ child' = ContinueRestart(c, k.restart) /\ k.goal = "restart"
      \/ child' = SetRetryTimeout(c)
  BY <1>2 DEF RunMicrotask, Kill, Goals
<1> HIDE DEF c, k
<1>9. Good(c)
  BY <1>4, <1>6, <1>7 DEF IInv, Good, RefsInv, ProcessInv, KillsInv, UseInv, Current, ProcessState
<1>10. Good(child')
  BY <1>5, <1>7, <1>8, <1>9, ContinueRestartGood, SetRetryTimeoutGood
<1> QED BY <1>10, BudgetTyped DEF IInv, RunMicrotask

\* The timer of a kill.
LEMMA KillTimeoutStep ==
  ASSUME IInv, KillTimeout
  PROVE  IInv'
<1> PICK n \in 1..Len(child.kills) :
      LET k == child.kills[n]
          c == [child EXCEPT !.kills[n].timedOut = TRUE,
                             !.registered = @ /\ ~k.cleanUp]
      IN child' = CASE k.goal = "restart" -> FailRestart(c, k.restart)
                    [] k.goal = "retry" -> SetRetryTimeout(c)
                    [] k.goal \in {"destroy", "report"} -> c
  BY DEF KillTimeout
<1> DEFINE k == child.kills[n]
           x == [k EXCEPT !.timedOut = TRUE]
           ks == [child.kills EXCEPT ![n] = x]
           c == [child EXCEPT !.kills = ks, !.registered = @ /\ ~k.cleanUp]
<1>1. child \in Child /\ child.kills \in Seq(Kill) /\ RefersTo(child.kills, child.restarts)
  BY DEF IInv, Good, Child, RefsInv
<1>2. k \in Kill
  BY <1>1, ElementOfSeq
<1>3. x \in Kill /\ x.goal = k.goal /\ x.restart = k.restart
  BY <1>2 DEF Kill
<1>4. /\ ks \in Seq(Kill) /\ Len(ks) = Len(child.kills)
      /\ \A j \in 1..Len(child.kills) : ks[j] = IF j = n THEN x ELSE child.kills[j]
  BY <1>1, <1>3, ExceptSeq
<1>5. RefersTo(ks, child.restarts) /\ ks # <<>> /\ child.kills # <<>>
  BY <1>1, <1>3, <1>4, EmptySeq DEF RefersTo
<1>6. k.goal = "restart" => k.restart \in 1..Len(child.restarts)
  BY <1>1 DEF RefersTo
<1>7. \/ child' = c
      \/ child' = FailRestart(c, k.restart) /\ k.goal = "restart"
      \/ child' = SetRetryTimeout(c)
  BY <1>2 DEF Kill, Goals
<1> HIDE DEF ks, x
<1>8. c \in Child
  BY <1>1, <1>2, <1>4 DEF Child, Kill
<1>9. /\ c.processes = child.processes /\ c.alive = child.alive /\ c.isClosing = child.isClosing
      /\ c.kills = ks /\ c.microtasks = child.microtasks
      /\ c.restarts = child.restarts /\ c.pendingInit = child.pendingInit
      /\ c.instances = child.instances
      /\ c.initialized = child.initialized /\ c.initGen = child.initGen
  BY <1>1 DEF Child
<1> HIDE DEF c, k
<1>10. Good(c)
  BY <1>5, <1>8, <1>9 DEF IInv, Good, RefsInv, ProcessInv, KillsInv, UseInv, Current, ProcessState
<1>11. Good(child')
  BY <1>6, <1>7, <1>9, <1>10, FailRestartGood, SetRetryTimeoutGood
<1> QED BY <1>11, BudgetTyped DEF IInv, KillTimeout

\* The retry timer.
LEMMA RetryStep ==
  ASSUME IInv, RetryFires \/ StrayRetryFires
  PROVE  IInv'
<1>1. CASE RetryFires
  BY <1>1, ClearRestartTimeoutGood, ChildHasCrashedGood, BudgetTyped DEF IInv, RetryFires
<1>2. CASE StrayRetryFires
  <2> DEFINE c == [child EXCEPT !.strayRetries = @ - 1]
  <2>1. child \in Child /\ child.strayRetries - 1 \in Nat
    BY <1>2 DEF IInv, Good, Child, StrayRetryFires
  <2>2. c \in Child
    BY <2>1 DEF Child
  <2>3. Good(c)
    BY <2>1, <2>2, FrameGood DEF IInv, Child
  <2>4. Good(child')
    BY <1>2, <2>3, ChildHasCrashedGood DEF StrayRetryFires
  <2> QED BY <1>2, <2>4, BudgetTyped DEF IInv, StrayRetryFires
<1> QED BY <1>1, <1>2

\* A restart without its listener is a restart.
LEMMA RemoveListenerTyped ==
  ASSUME NEW s \in Seq(Nat), NEW r
  PROVE  RemoveListener(s, r) \in Seq(Nat)
<1> DEFINE i == CHOOSE k \in 1..Len(s) : s[k] = r
<1>1. Len(s) \in Nat /\ \A j \in 1..Len(s) : s[j] \in Nat
  BY LenProperties, ElementOfSeq
<1>2. CASE ~(\E k \in 1..Len(s) : s[k] = r)
  BY <1>2 DEF RemoveListener
<1>3. CASE \E k \in 1..Len(s) : s[k] = r
  <2>1. i \in 1..Len(s)
    BY <1>3
  <2> HIDE DEF i
  <2>2. SubSeq(s, 1, i - 1) \in Seq(Nat) /\ SubSeq(s, i + 1, Len(s)) \in Seq(Nat)
    BY <1>1, <2>1, SubSeqProperties
  <2>3. RemoveListener(s, r) = SubSeq(s, 1, i - 1) \o SubSeq(s, i + 1, Len(s))
    BY <1>3 DEF RemoveListener, RemoveAt, i
  <2> QED BY <2>2, <2>3
<1> QED BY <1>2, <1>3

\* The timer of a restart.
LEMMA RestartTimeoutStep ==
  ASSUME IInv, RestartTimeout
  PROVE  IInv'
<1> PICK r \in 1..Len(child.restarts) :
      LET c == [child EXCEPT
                  !.restarts[r].timer = FALSE,
                  !.initListeners = RemoveListener(@, r)]
      IN child' = IF child.restarts[r].state = "waiting" THEN FailRestart(c, r) ELSE c
  BY DEF RestartTimeout
<1> DEFINE x == [child.restarts[r] EXCEPT !.timer = FALSE]
           rs == [child.restarts EXCEPT ![r] = x]
           ls == RemoveListener(child.initListeners, r)
           b == [child EXCEPT !.restarts = rs]
           c == [b EXCEPT !.initListeners = ls]
<1>1. child \in Child /\ child.restarts \in Seq(Restart) /\ child.initListeners \in Seq(Nat)
  BY DEF IInv, Good, Child
<1>2. x \in Restart
  <2>1. child.restarts[r] \in Restart BY <1>1, ElementOfSeq
  <2> QED BY <2>1 DEF Restart
<1>3. rs \in Seq(Restart) /\ Len(rs) = Len(child.restarts)
  BY <1>1, <1>2, SetRestart
<1>4. ls \in Seq(Nat)
  BY <1>1, RemoveListenerTyped
<1>5. child' = IF child.restarts[r].state = "waiting" THEN FailRestart(c, r) ELSE c
  BY <1>1 DEF Child
<1>6. Good(b) /\ b.restarts = rs
  BY <1>1, <1>3, RestartsGood DEF IInv, Child
<1> HIDE DEF b, rs, ls
<1>7. c \in Child
  BY <1>4, <1>6 DEF Good, Child
<1>8. Good(c) /\ c.restarts = rs
  BY <1>6, <1>7, FrameGood DEF Good, Child
<1> HIDE DEF c
<1>9. Good(child')
  BY <1>3, <1>5, <1>8, FailRestartGood
<1> QED BY <1>9, BudgetTyped DEF IInv, RestartTimeout

\* Taking a pending INIT out of the queue.
LEMMA TakeInit ==
  ASSUME IInv, NEW m \in child.pendingInit
  PROVE  LET c == [child EXCEPT !.pendingInit = @ \ {m}] IN
         /\ Good(c) /\ c.restarts = child.restarts
         /\ m.inst \in Instances
         /\ m.by # 0 => m.by \in 1..Len(child.restarts)
<1> DEFINE c == [child EXCEPT !.pendingInit = @ \ {m}]
<1>1. child \in Child /\ m \in Init_Message /\ m.by \in 0..Len(child.restarts)
  BY DEF IInv, Good, Child, RefsInv
<1>2. c \in Child
  BY <1>1 DEF Child
<1>3. Good(c) /\ c.restarts = child.restarts
  BY <1>1, <1>2, FrameGood DEF IInv, Child
<1> QED BY <1>1, <1>3 DEF Init_Message, Child

\* The reply to an INIT that constructed the instance.
LEMMA InitOkStep ==
  ASSUME IInv, InitOk
  PROVE  IInv'
<1> PICK m \in child.pendingInit :
      LET c == [child EXCEPT !.pendingInit = @ \ {m}]
      IN child' = CASE m.inst \notin child.instances -> c
                    [] m.inst \in child.instances /\ m.by = 0 ->
                         NotifyInitialized([c EXCEPT !.created = @ \cup {m.inst}])
                    [] m.inst \in child.instances /\ m.by # 0 ->
                         NotifyInitialized([c EXCEPT !.restarts[m.by].awaiting = @ \ {m.inst}])
  BY DEF InitOk
<1> DEFINE c == [child EXCEPT !.pendingInit = @ \ {m}]
           created == [c EXCEPT !.created = @ \cup {m.inst}]
           x == [c.restarts[m.by] EXCEPT !.awaiting = @ \ {m.inst}]
           resolved == [c EXCEPT !.restarts[m.by].awaiting = @ \ {m.inst}]
<1>1. /\ Good(c) /\ c.restarts = child.restarts
      /\ m.inst \in Instances
      /\ m.by # 0 => m.by \in 1..Len(child.restarts)
  BY TakeInit
<1>2. \/ child' = c
      \/ child' = NotifyInitialized(created)
      \/ child' = NotifyInitialized(resolved) /\ m.by # 0
  OBVIOUS
<1> HIDE DEF c
<1>3. Good(created)
  <2>1. created \in Child BY <1>1 DEF Good, Child
  <2> QED BY <1>1, <2>1, FrameGood DEF Good, Child
<1>4. ASSUME m.by # 0 PROVE Good(resolved)
  <2>1. c.restarts \in Seq(Restart) /\ m.by \in 1..Len(c.restarts)
    BY <1>1, <1>4 DEF Good, Child
  <2>2. c.restarts[m.by] \in Restart BY <2>1, ElementOfSeq
  <2>3. x \in Restart BY <2>2 DEF Restart
  <2>4. /\ [c.restarts EXCEPT ![m.by] = x] \in Seq(Restart)
        /\ Len([c.restarts EXCEPT ![m.by] = x]) = Len(c.restarts)
    BY <2>1, <2>3, SetRestart
  <2>5. resolved = [c EXCEPT !.restarts = [c.restarts EXCEPT ![m.by] = x]]
    BY SMT
  <2> QED BY <1>1, <2>4, <2>5, RestartsGood
<1>5. Good(child')
  BY <1>1, <1>2, <1>3, <1>4, NotifyInitializedGood
<1> QED BY <1>5, BudgetTyped DEF IInv, InitOk

\* The reply to an INIT that failed.
LEMMA InitErrorStep ==
  ASSUME IInv, InitError
  PROVE  IInv'
<1> PICK m \in child.pendingInit :
      LET c == [child EXCEPT !.pendingInit = @ \ {m}]
          d == NotifyInitialized(c)
      IN child' = CASE m.inst \notin child.instances \/ m.by = 0 -> c
                    [] m.inst \in child.instances /\ m.by # 0 ->
                         IF child.restarts[m.by].state = "waiting" THEN FailRestart(d, m.by)
                         ELSE d
  BY DEF InitError
<1> DEFINE c == [child EXCEPT !.pendingInit = @ \ {m}]
           d == NotifyInitialized(c)
<1>1. /\ Good(c) /\ c.restarts = child.restarts
      /\ m.by # 0 => m.by \in 1..Len(child.restarts)
  BY TakeInit
<1>2. child' = c \/ child' = d \/ (child' = FailRestart(d, m.by) /\ m.by # 0)
  OBVIOUS
<1> HIDE DEF c
<1>3. Good(d) /\ Len(d.restarts) = Len(child.restarts)
  BY <1>1, NotifyInitializedGood
<1> HIDE DEF d
<1>4. ASSUME m.by # 0 PROVE Good(FailRestart(d, m.by))
  BY <1>1, <1>3, <1>4, FailRestartGood
<1>5. Good(child')
  BY <1>1, <1>2, <1>3, <1>4
<1> QED BY <1>5, BudgetTyped DEF IInv, InitError

-----------------------------------------------------------------------------
\* The calls of the program.
LEMMA SendCreateInitGood ==
  ASSUME NEW c, Good(c), c.alive, NEW i \in Instances
  PROVE  Good(SendCreateInit(c, i))
<1> DEFINE d == SendCreateInit(c, i)
           m == [by |-> 0, inst |-> i]
<1>1. /\ c \in Child /\ Current(c) \in Nat /\ m \in Init_Message
      /\ c.initialized \in [Instances -> BOOLEAN] /\ c.initGen \in [Instances -> Nat]
      /\ Len(c.restarts) \in Nat
  BY LenProperties DEF Good, Child, Current, Init_Message
<1>2. /\ [c.initialized EXCEPT ![i] = TRUE] \in [Instances -> BOOLEAN]
      /\ [c.initGen EXCEPT ![i] = Current(c)] \in [Instances -> Nat]
  BY <1>1
<1>3. d \in Child
  BY <1>1, <1>2 DEF SendCreateInit, Child
<1>4. /\ d.processes = c.processes /\ d.alive = c.alive /\ d.isClosing = c.isClosing
      /\ d.kills = c.kills /\ d.microtasks = c.microtasks /\ d.restarts = c.restarts
      /\ d.pendingInit = c.pendingInit \cup {m} /\ d.instances = c.instances \cup {i}
      /\ d.initialized = [c.initialized EXCEPT ![i] = TRUE]
      /\ d.initGen = [c.initGen EXCEPT ![i] = Current(c)]
  BY <1>1 DEF SendCreateInit, Child
<1> HIDE DEF d
<1>5. RefsInv(d)
  <2>1. m.by \in 0..Len(c.restarts) BY <1>1
  <2> HIDE DEF m
  <2> QED BY <1>4, <2>1 DEF Good, RefsInv
<1>6. ProcessInv(d) /\ KillsInv(d)
  BY <1>4 DEF Good, ProcessInv, KillsInv, Current, ProcessState
<1>7. UseInv(d)
  <2> SUFFICES ASSUME d.alive, ~d.isClosing, NEW j \in d.instances, d.initialized[j]
               PROVE  d.initGen[j] = Current(d)
    BY DEF UseInv
  <2>1. j \in Instances BY <1>3 DEF Child
  <2>2. CASE j = i BY <1>1, <1>4, <2>2 DEF Current
  <2>3. CASE j # i
    <3>1. c.initialized[j] /\ j \in c.instances /\ c.alive /\ ~c.isClosing
      BY <1>1, <1>4, <2>1, <2>3
    <3>2. c.initGen[j] = Current(c)
      BY <3>1 DEF Good, UseInv
    <3> QED BY <1>1, <1>4, <2>1, <2>3, <3>2 DEF Current
  <2> QED BY <2>2, <2>3
<1> QED BY <1>3, <1>5, <1>6, <1>7 DEF Good, d

\* threadedClass() that finds the child.
LEMMA AttachStep ==
  ASSUME IInv, Attach
  PROVE  IInv'
<1> PICK i \in Instances \ child.attached :
      child' = IF child.alive /\ ~child.isClosing THEN SendCreateInit(child, i)
               ELSE [child EXCEPT !.instances = @ \cup {i}, !.attached = @ \cup {i},
                                  !.initialized[i] = TRUE]
  BY DEF Attach
<1>1. Good(child)
  BY DEF IInv
<1>2. CASE child.alive /\ ~child.isClosing
  BY <1>1, <1>2, SendCreateInitGood, BudgetTyped DEF IInv, Attach
<1>3. CASE ~(child.alive /\ ~child.isClosing)
  <2> DEFINE d == [child EXCEPT !.instances = @ \cup {i}, !.attached = @ \cup {i},
                                !.initialized[i] = TRUE]
  <2>1. child \in Child /\ child.initialized \in [Instances -> BOOLEAN]
    BY <1>1 DEF Good, Child
  <2>2. [child.initialized EXCEPT ![i] = TRUE] \in [Instances -> BOOLEAN]
    BY <2>1
  <2>3. d \in Child
    BY <2>1, <2>2 DEF Child
  <2>4. Good(d)
    BY <1>1, <1>3, <2>1, <2>3 DEF Good, Child, RefsInv, RefersTo, ProcessInv, KillsInv, UseInv,
                                  Current, ProcessState
  <2> QED BY <1>3, <2>4, BudgetTyped DEF IInv, Attach
<1> QED BY <1>2, <1>3

\* killProxy.
LEMMA DestroyStep ==
  ASSUME IInv, Destroy \/ DestroyAll
  PROVE  IInv'
<1>1. Good(child) /\ child \in Child
  BY DEF IInv, Good
<1>2. Good(KillChild(child, "destroy", 0, TRUE))
  BY <1>1, KillChildGood DEF Goals
<1>3. CASE DestroyAll
  BY <1>2, <1>3, BudgetTyped DEF IInv, DestroyAll
<1>4. CASE Destroy
  <2> PICK i \in child.instances :
        child' = IF Cardinality(child.instances) = 1 THEN KillChild(child, "destroy", 0, TRUE)
                 ELSE IF child.alive /\ ~child.isClosing /\ child.initialized[i]
                 THEN [child EXCEPT !.detaching = @ \cup {i}]
                 ELSE [child EXCEPT !.instances = @ \ {i}]
    BY <1>4 DEF Destroy
  <2> DEFINE d == [child EXCEPT !.detaching = @ \cup {i}]
             e == [child EXCEPT !.instances = @ \ {i}]
  <2>1. Good(d)
    <3>1. d \in Child BY <1>1 DEF Child
    <3> QED BY <1>1, <3>1, FrameGood DEF Child
  <2>2. Good(e)
    <3>1. e \in Child BY <1>1 DEF Child
    <3> QED BY <1>1, <3>1, FrameGood DEF Child
  <2> QED BY <1>2, <1>4, <2>1, <2>2, BudgetTyped DEF IInv, Destroy
<1> QED BY <1>3, <1>4

\* The reply, or the timer, of an instance's KILL.
LEMMA DetachedStep ==
  ASSUME IInv, Detached
  PROVE  IInv'
<1> PICK i \in child.detaching :
      child' = [child EXCEPT !.detaching = @ \ {i}, !.instances = @ \ {i}]
  BY DEF Detached
<1>1. Good(child) /\ child \in Child
  BY DEF IInv, Good
<1>2. child' \in Child
  BY <1>1 DEF Child
<1>3. Good(child')
  BY <1>1, <1>2, FrameGood DEF Child
<1> QED BY <1>3, BudgetTyped DEF IInv, Detached

\* restart() of the program, forced or not.
LEMMA UserRestartStep ==
  ASSUME IInv, NEW force \in BOOLEAN, UserRestart(force)
  PROVE  IInv'
<1> PICK i \in child.instances : child' = RestartChild(child, {i}, FALSE, force)
  BY DEF UserRestart
<1>1. Good(child) /\ {i} \in SUBSET Instances
  BY DEF IInv, Good, Child
<1>2. Good(child')
  BY <1>1, RestartChildGood
<1> QED BY <1>2, BudgetTyped DEF IInv, UserRestart

-----------------------------------------------------------------------------
(***************************************************************************)
(* The invariant, and the theorems.                                        *)
(***************************************************************************)
LEMMA InitGood ==
  ASSUME Init
  PROVE  IInv
<1> PICK i \in Instances : child = SendCreateInit(NewChild, i)
  BY DEF Init
<1>1. /\ <<>> \in Seq(Nat) /\ <<>> \in Seq(Restart) /\ <<>> \in Seq(Kill)
      /\ <<"running">> \in Seq({"running", "terminating", "closed"})
      /\ Len(<<"running">>) = 1 /\ <<"running">>[1] = "running"
  OBVIOUS
<1>2. NewChild \in Child
  BY <1>1 DEF NewChild, Child
<1>3. RefsInv(NewChild)
  BY DEF NewChild, RefsInv, RefersTo
<1>4. ProcessInv(NewChild)
  BY <1>1 DEF NewChild, ProcessInv, Current, ProcessState
<1>5. KillsInv(NewChild) /\ UseInv(NewChild) /\ NewChild.alive
  BY DEF NewChild, KillsInv, UseInv
<1>6. Good(SendCreateInit(NewChild, i))
  BY <1>2, <1>3, <1>4, <1>5, SendCreateInitGood DEF Good
<1> QED BY <1>6 DEF IInv, Init

\* Every step keeps what the invariant says.
LEMMA NextGood ==
  ASSUME IInv, [Next]_vars
  PROVE  IInv'
<1>1. CASE UNCHANGED vars
  BY <1>1 DEF IInv, vars
<1>2. CASE Next
  BY <1>2, RunMicrotaskStep, CloseStep, KillTimeoutStep, RetryStep, RestartTimeoutStep,
     InitOkStep, InitErrorStep, DetachedStep, PingTimeoutStep, AttachStep, DestroyStep,
     UserRestartStep DEF Next
<1> QED BY <1>1, <1>2

\* Every reachable state satisfies the inductive invariant.
THEOREM Invariance == Spec => []IInv
<1>1. Init => IInv BY InitGood
<1>2. IInv /\ [Next]_vars => IInv' BY NextGood
<1> QED BY <1>1, <1>2, PTL DEF Spec

\* The fields of a child keep their types, and the INIT callbacks and killChild
\* promises refer to existing restarts, in every run of the manager.
THEOREM TypeCorrect == Spec => []TypeOK
<1>1. IInv => TypeOK BY DEF IInv, Good, RefsInv, TypeOK
<1> QED BY <1>1, Invariance, PTL

\* A child never has two live processes, and alive says whether it has one:
\* restartChild forks only after the close event.
THEOREM NeverTwoProcesses == Spec => []SingleProcess
<1>1. IInv => SingleProcess BY DEF IInv, Good, ProcessInv, SingleProcess
<1> QED BY <1>1, Invariance, PTL

\* isClosing is set exactly while the live process has been told to terminate.
THEOREM ClosingFlagIsExact == Spec => []ClosingIsTerminating
<1>1. IInv => ClosingIsTerminating BY DEF IInv, Good, ProcessInv, ClosingIsTerminating
<1> QED BY <1>1, Invariance, PTL

\* No killChild promise waits for a close event that has already fired.
THEOREM NoKillIsForgotten == Spec => []KillsAwaitClose
<1>1. IInv => KillsAwaitClose BY DEF IInv, Good, KillsInv, KillsAwaitClose
<1> QED BY <1>1, Invariance, PTL

\* An instance that may be used has been sent its INIT by the current process:
\* no message reaches a fresh process before INIT, whatever restarts overlap.
THEOREM NoUseBeforeInit == Spec => []InitBeforeUse
<1>1. IInv => InitBeforeUse BY DEF IInv, Good, UseInv, InitBeforeUse
<1> QED BY <1>1, Invariance, PTL
=============================================================================
