------------------------- MODULE ChildRestarts_proofs -------------------------
(***************************************************************************)
(* Proofs about the promises of ChildLifecycle: the restarts, the kills    *)
(* they wait for, and the listeners and timers that end them.  As in       *)
(* ChildLifecycle_proofs the invariant is stated of a child record, and    *)
(* each of the manager's methods preserves it.                             *)
(***************************************************************************)
EXTENDS ChildLifecycle_proofs

\* The kill will continue the restart it refers to.
Live(k) == k.goal = "restart" /\ ~k.timedOut

\* One of the two lists holds the kill that restart q waits for.
Resumed(c, q) ==
  \/ \E k \in 1..Len(c.kills) : Live(c.kills[k]) /\ c.kills[k].restart = q
  \/ \E k \in 1..Len(c.microtasks) : Live(c.microtasks[k]) /\ c.microtasks[k].restart = q

\* Every restart that waits for its kill has it.  r is the restart that the
\* manager is working at, 0 between the tasks: its kill has been taken.
ResumeInv(c, r) ==
  \A q \in 1..Len(c.restarts) :
    q # r /\ c.restarts[q].state = "killing" => Resumed(c, q)

\* The restart q waits for a listener call that can still come, and so can its
\* timer; of the restart that the manager is working at it may have removed them.
Listens(c, q) ==
  c.restarts[q].state = "waiting" /\ ~c.restarts[q].heard =>
    /\ \E l \in 1..Len(c.initListeners) : c.initListeners[l] = q
    /\ HasRestartTimeout => c.restarts[q].timer
ListenInv(c, r) == \A q \in 1..Len(c.restarts) : q # r => Listens(c, q)

\* While continuations are left no process is being killed.
MicrotasksInv(c) == c.microtasks # <<>> => ~c.isClosing

OneAutoInv(c) ==
  \A q, r \in 1..Len(c.restarts) :
    (/\ c.restarts[q].auto /\ c.restarts[q].state = "killing"
     /\ c.restarts[r].auto /\ c.restarts[r].state = "killing") => q = r

Waits(c, r) == ResumeInv(c, r) /\ ListenInv(c, r) /\ MicrotasksInv(c) /\ OneAutoInv(c)

WaitsInv == Waits(child, 0)

-----------------------------------------------------------------------------
(***************************************************************************)
(* What a method may do to the restarts.                                   *)
(***************************************************************************)
\* d has the restarts of c, none of them begins to wait for a kill, and none
\* loses the kill that it waits for.
Keeps(c, d) ==
  /\ Len(d.restarts) = Len(c.restarts)
  /\ \A q \in 1..Len(c.restarts) :
       /\ d.restarts[q].auto = c.restarts[q].auto
       /\ d.restarts[q].state = "killing" => c.restarts[q].state = "killing"
       /\ Resumed(c, q) => Resumed(d, q)

\* A method that keeps the restarts, and leaves s to be worked at.
LEMMA KeepsWaits ==
  ASSUME NEW c, NEW d, NEW r, NEW s, Waits(c, r), Keeps(c, d),
         MicrotasksInv(d), ListenInv(d, s),
         s = r \/ (r \in 1..Len(d.restarts) => d.restarts[r].state # "killing")
  PROVE  Waits(d, s)
<1>1. ResumeInv(d, s)
  BY DEF Waits, Keeps, ResumeInv
<1>2. OneAutoInv(d)
  BY DEF Waits, Keeps, OneAutoInv
<1> QED BY <1>1, <1>2 DEF Waits

\* A method that leaves the restarts and the listeners alone leaves the waiting.
LEMMA SameListens ==
  ASSUME NEW c, NEW d, NEW r, ListenInv(c, r),
         d.restarts = c.restarts, d.initListeners = c.initListeners
  PROVE  ListenInv(d, r)
BY DEF ListenInv, Listens

\* The lists of c are those of d.
LEMMA SameResumed ==
  ASSUME NEW c, NEW d, d.kills = c.kills, d.microtasks = c.microtasks, NEW q
  PROVE  Resumed(d, q) <=> Resumed(c, q)
BY DEF Resumed

-----------------------------------------------------------------------------
(***************************************************************************)
(* Killing.                                                                *)
(***************************************************************************)
\* d is c after a killChild that left the kill k.
Killed(d, c, k) ==
  /\ d.restarts = c.restarts /\ d.initListeners = c.initListeners
  /\ d.alive = c.alive /\ d.failCount = c.failCount /\ d.strayRetries = c.strayRetries
  /\ d.retryTimeout = (c.retryTimeout /\ ~k.cleanUp)
  /\ c.alive => /\ d.kills = Append(c.kills, k) /\ d.microtasks = c.microtasks
                /\ d.isClosing /\ d.registered = c.registered
  /\ ~c.alive => /\ d.kills = c.kills /\ d.microtasks = Append(c.microtasks, k)
                 /\ ~d.isClosing /\ d.registered = (c.registered /\ ~k.cleanUp)

\* What killChild changes, and what it leaves.
LEMMA KillChildKilled ==
  ASSUME NEW c \in Child, NEW goal, NEW r, NEW cleanUp \in BOOLEAN
  PROVE  Killed(KillChild(c, goal, r, cleanUp), c, NewKill(goal, r, cleanUp))
<1>1. PICK k : k = NewKill(goal, r, cleanUp)
  OBVIOUS
<1>2. k.cleanUp = cleanUp
  BY <1>1 DEF NewKill
<1>3. PICK b : b = IF cleanUp THEN ClearRestartTimeout(c) ELSE c
  OBVIOUS
<1>4. /\ b \in Child /\ b.restarts = c.restarts /\ b.initListeners = c.initListeners
      /\ b.alive = c.alive /\ b.failCount = c.failCount /\ b.strayRetries = c.strayRetries
      /\ b.kills = c.kills /\ b.microtasks = c.microtasks /\ b.isClosing = c.isClosing
      /\ b.registered = c.registered /\ b.retryTimeout \in BOOLEAN
  BY <1>3 DEF ClearRestartTimeout, Child
<1>5. b.retryTimeout = (c.retryTimeout /\ ~cleanUp)
  BY <1>3 DEF ClearRestartTimeout, Child
<1>6. PICK d : d = KillChild(c, goal, r, cleanUp)
  OBVIOUS
<1>7. d = IF c.alive THEN KillAlive(b, k) ELSE KillDead(b, k)
  BY <1>1, <1>3, <1>6 DEF KillChild
<1>8. CASE c.alive
  <2>1. /\ d.restarts = b.restarts /\ d.initListeners = b.initListeners
        /\ d.alive = b.alive /\ d.failCount = b.failCount /\ d.strayRetries = b.strayRetries
        /\ d.retryTimeout = b.retryTimeout
        /\ d.kills = Append(b.kills, k) /\ d.microtasks = b.microtasks
        /\ d.isClosing /\ d.registered = b.registered
    BY <1>4, <1>7, <1>8 DEF KillAlive, Child
  <2> QED BY <1>1, <1>2, <1>4, <1>5, <1>6, <1>8, <2>1 DEF Killed
<1>9. CASE ~c.alive
  <2>1. PICK x : x = (b.registered /\ ~k.cleanUp)
    OBVIOUS
  <2>2. d = [b EXCEPT !.registered = x, !.isClosing = FALSE, !.microtasks = Append(@, k)]
    BY <1>7, <1>9, <2>1 DEF KillDead
  <2>3. /\ d.restarts = b.restarts /\ d.initListeners = b.initListeners
        /\ d.alive = b.alive /\ d.failCount = b.failCount /\ d.strayRetries = b.strayRetries
        /\ d.retryTimeout = b.retryTimeout
        /\ d.kills = b.kills /\ d.microtasks = Append(b.microtasks, k)
        /\ ~d.isClosing /\ d.registered = x
    BY <1>4, <2>2 DEF Child
  <2> QED BY <1>1, <1>2, <1>4, <1>5, <1>6, <1>9, <2>1, <2>3, Zenon DEF Killed
<1> QED BY <1>4, <1>8, <1>9 DEF Child

\* A kill in s that continues restart q.
Holds(s, q) == \E k \in 1..Len(s) : Live(s[k]) /\ s[k].restart = q

\* A list that gets one more kill holds it and those it held.
LEMMA AppendHolds ==
  ASSUME NEW s \in Seq(Kill), NEW k \in Kill, NEW q
  PROVE  /\ Holds(s, q) => Holds(Append(s, k), q)
         /\ Live(k) /\ k.restart = q => Holds(Append(s, k), q)
<1>1. PICK t : t = Append(s, k)
  OBVIOUS
<1>2. /\ Len(s) \in Nat /\ Len(t) = Len(s) + 1 /\ t[Len(s) + 1] = k
      /\ \A j \in 1..Len(s) : t[j] = s[j]
  BY <1>1, AppendProperties, LenProperties
<1>3. Holds(s, q) => Holds(t, q)
  BY <1>2 DEF Holds
<1>4. Live(k) /\ k.restart = q => Holds(t, q)
  BY <1>2 DEF Holds
<1> QED BY <1>1, <1>3, <1>4

\* A killChild takes no kill away.
LEMMA KilledResumed ==
  ASSUME NEW c \in Child, NEW d, NEW k \in Kill, Killed(d, c, k), NEW q
  PROVE  /\ Resumed(c, q) => Resumed(d, q)
         /\ Live(k) /\ k.restart = q => Resumed(d, q)
<1>1. c.kills \in Seq(Kill) /\ c.microtasks \in Seq(Kill)
  BY DEF Child
<1>2. /\ Holds(c.kills, q) => Holds(Append(c.kills, k), q)
      /\ Live(k) /\ k.restart = q => Holds(Append(c.kills, k), q)
      /\ Holds(c.microtasks, q) => Holds(Append(c.microtasks, k), q)
      /\ Live(k) /\ k.restart = q => Holds(Append(c.microtasks, k), q)
  BY <1>1, AppendHolds
<1>3. /\ Resumed(c, q) <=> Holds(c.kills, q) \/ Holds(c.microtasks, q)
      /\ Resumed(d, q) <=> Holds(d.kills, q) \/ Holds(d.microtasks, q)
  BY DEF Resumed, Holds
<1>4. CASE c.alive
  BY <1>2, <1>3, <1>4 DEF Killed
<1>5. CASE ~c.alive
  BY <1>2, <1>3, <1>5 DEF Killed
<1> QED BY <1>4, <1>5

\* killChild adds a kill; it kills a process only between the continuations.
LEMMA KillChildWaits ==
  ASSUME NEW c \in Child, NEW r, Waits(c, r), c.alive => c.microtasks = <<>>,
         NEW goal \in Goals, NEW n \in Nat, NEW cleanUp \in BOOLEAN
  PROVE  /\ Waits(KillChild(c, goal, n, cleanUp), r)
         /\ goal = "restart" => Resumed(KillChild(c, goal, n, cleanUp), n)
         /\ KillChild(c, goal, n, cleanUp).restarts = c.restarts
<1>1. PICK k : k = NewKill(goal, n, cleanUp)
  OBVIOUS
<1>2. k \in Kill /\ k.goal = goal /\ k.restart = n /\ ~k.timedOut
  BY <1>1 DEF NewKill, Kill
<1>3. PICK d : d = KillChild(c, goal, n, cleanUp)
  OBVIOUS
<1>4. Killed(d, c, k)
  BY <1>1, <1>3, KillChildKilled
<1>5. Keeps(c, d)
  <2>1. \A q : Resumed(c, q) => Resumed(d, q)
    BY <1>2, <1>4, KilledResumed
  <2>2. d.restarts = c.restarts
    BY <1>4 DEF Killed
  <2> QED BY <2>1, <2>2 DEF Keeps
<1>6. MicrotasksInv(d)
  <2>1. CASE c.alive
    BY <1>4, <2>1 DEF Killed, MicrotasksInv
  <2>2. CASE ~c.alive
    BY <1>4, <2>2 DEF Killed, MicrotasksInv
  <2> QED BY <2>1, <2>2
<1>7. ListenInv(d, r)
  BY <1>4, SameListens DEF Killed, Waits
<1>8. Waits(d, r)
  BY <1>5, <1>6, <1>7, KeepsWaits
<1>9. goal = "restart" => Resumed(d, n)
  BY <1>2, <1>4, KilledResumed DEF Live
<1>10. d.restarts = c.restarts
  BY <1>4 DEF Killed
<1> QED BY <1>3, <1>8, <1>9, <1>10

-----------------------------------------------------------------------------
(***************************************************************************)
(* Restarting.                                                             *)
(***************************************************************************)
\* A change of other fields leaves the waiting.
LEMMA FrameWaits ==
  ASSUME NEW c, NEW d, NEW r, Waits(c, r),
         d.restarts = c.restarts, d.initListeners = c.initListeners,
         d.kills = c.kills, d.microtasks = c.microtasks, d.isClosing = c.isClosing
  PROVE  Waits(d, r)
<1>1. \A q : Resumed(c, q) => Resumed(d, q)
  BY SameResumed
<1>2. Keeps(c, d)
  BY <1>1 DEF Keeps
<1>3. MicrotasksInv(d) /\ ListenInv(d, r)
  BY SameListens DEF Waits, MicrotasksInv
<1> QED BY <1>2, <1>3, KeepsWaits

\* A restart that failed waits for nothing, and its retry or its giving up
\* kills the child.
LEMMA FailRestartWaits ==
  ASSUME NEW c, Good(c), NEW r \in 1..Len(c.restarts), Waits(c, r),
         c.alive => c.microtasks = <<>>
  PROVE  Waits(FailRestart(c, r), 0)
<1>1. c \in Child /\ c.restarts \in Seq(Restart) /\ c.failCount + 1 \in Nat /\ Len(c.restarts) \in Nat
  BY LenProperties DEF Good, Child
<1>2. c.restarts[r] \in Restart
  BY <1>1, ElementOfSeq
<1>3. PICK x : x = [c.restarts[r] EXCEPT !.state = "failed"]
  OBVIOUS
<1>4. x \in Restart /\ x.state = "failed" /\ x.auto = c.restarts[r].auto
  BY <1>2, <1>3 DEF Restart, RestartStates
<1>5. PICK rs : rs = [c.restarts EXCEPT ![r] = x]
  OBVIOUS
<1>6. /\ rs \in Seq(Restart) /\ Len(rs) = Len(c.restarts)
      /\ \A q \in 1..Len(c.restarts) : rs[q] = IF q = r THEN x ELSE c.restarts[q]
  BY <1>1, <1>4, <1>5, ExceptSeq
<1>7. PICK d : d = [c EXCEPT !.restarts = rs]
  OBVIOUS
<1>8. /\ d \in Child /\ d.restarts = rs /\ d.initListeners = c.initListeners
      /\ d.kills = c.kills /\ d.microtasks = c.microtasks /\ d.isClosing = c.isClosing
      /\ d.alive = c.alive /\ d.failCount = c.failCount
  BY <1>1, <1>6, <1>7 DEF Child
<1>9. Waits(d, 0)
  <2>1. \A q : Resumed(c, q) => Resumed(d, q)
    BY <1>8, SameResumed
  <2>2. Keeps(c, d)
    BY <1>4, <1>6, <1>8, <2>1 DEF Keeps
  <2>3. MicrotasksInv(d)
    BY <1>8 DEF Waits, MicrotasksInv
  <2>4. ListenInv(d, 0)
    <3> SUFFICES ASSUME NEW q \in 1..Len(d.restarts) PROVE Listens(d, q)
      BY DEF ListenInv
    <3>1. CASE q = r
      BY <1>4, <1>6, <1>8, <3>1 DEF Listens
    <3>2. CASE q # r
      <4>1. Listens(c, q) /\ d.restarts[q] = c.restarts[q]
        BY <1>6, <1>8, <3>2 DEF Waits, ListenInv
      <4> QED BY <1>8, <4>1 DEF Listens
    <3> QED BY <3>1, <3>2
  <2>5. d.restarts[r].state # "killing"
    BY <1>4, <1>6, <1>8
  <2> QED BY <2>2, <2>3, <2>4, <2>5, KeepsWaits
<1>10. PICK e : e = [d EXCEPT !.failCount = @ + 1]
  OBVIOUS
<1>11. /\ e \in Child /\ e.restarts = d.restarts /\ e.initListeners = d.initListeners
       /\ e.kills = d.kills /\ e.microtasks = d.microtasks /\ e.isClosing = d.isClosing
       /\ e.alive = d.alive
  BY <1>1, <1>8, <1>10 DEF Child
<1>12. Waits(e, 0) /\ (e.alive => e.microtasks = <<>>)
  BY <1>8, <1>9, <1>11, FrameWaits
<1>13. Waits(KillChild(e, "retry", 0, FALSE), 0) /\ Waits(KillChild(e, "report", 0, TRUE), 0)
  BY <1>11, <1>12, KillChildWaits DEF Goals
<1>14. FailRestart(c, r) = IF ~c.restarts[r].auto THEN d
                           ELSE IF CanRetryRestart(e) THEN KillChild(e, "retry", 0, FALSE)
                           ELSE KillChild(e, "report", 0, TRUE)
  BY <1>3, <1>5, <1>7, <1>10, SMT DEF FailRestart
<1> QED BY <1>9, <1>13, <1>14

\* d is c after the listeners were called: those that the loop visits are heard,
\* the others stay, and the restarts that wait for nothing more have settled.
Notified(d, c) ==
  /\ d \in Child
  /\ Len(d.restarts) = Len(c.restarts)
  /\ \A q \in 1..Len(c.restarts) :
       /\ d.restarts[q].auto = c.restarts[q].auto
       /\ \/ d.restarts[q].state = c.restarts[q].state
          \/ c.restarts[q].state = "waiting" /\ d.restarts[q].state = "ok"
       /\ q \in Visited(c.initListeners) => d.restarts[q].heard
       /\ q \notin Visited(c.initListeners) => /\ d.restarts[q].heard = c.restarts[q].heard
                                               /\ d.restarts[q].timer = c.restarts[q].timer
  /\ d.initListeners = Skipped(c.initListeners)
  /\ d.kills = c.kills /\ d.microtasks = c.microtasks
  /\ d.isClosing = c.isClosing /\ d.alive = c.alive /\ d.registered = c.registered
  /\ d.failCount <= c.failCount
  /\ d.retryTimeout = c.retryTimeout /\ d.strayRetries = c.strayRetries

\* What Settle changes, and what it leaves.
LEMMA SettleFields ==
  ASSUME NEW c \in Child, Settle(c) \in Child
  PROVE  /\ Len(Settle(c).restarts) = Len(c.restarts)
         /\ \A q \in 1..Len(c.restarts) :
              /\ Settle(c).restarts[q].auto = c.restarts[q].auto
              /\ \/ Settle(c).restarts[q].state = c.restarts[q].state
                 \/ c.restarts[q].state = "waiting" /\ Settle(c).restarts[q].state = "ok"
              /\ Settle(c).restarts[q].heard = c.restarts[q].heard
              /\ Settle(c).restarts[q].timer = c.restarts[q].timer
         /\ Settle(c).failCount <= c.failCount
<1>1. /\ c.restarts \in Seq(Restart) /\ c.failCount \in Nat
      /\ Len(c.restarts) \in Nat /\ DOMAIN c.restarts = 1..Len(c.restarts)
  BY LenProperties DEF Child
<1>2. PICK f : f = [r \in DOMAIN c.restarts |->
                      IF Completed(c, r) THEN [c.restarts[r] EXCEPT !.state = "ok"]
                      ELSE c.restarts[r]]
  OBVIOUS
<1>3. Settle(c).restarts = f
  BY <1>2 DEF Settle, Child
<1>4. f \in Seq(Restart)
  BY <1>3 DEF Child
<1>5. DOMAIN f = 1..Len(f) /\ Len(f) \in Nat
  BY <1>4, LenProperties
<1>6. Len(f) = Len(c.restarts)
  BY <1>1, <1>2, <1>5
<1>7. ASSUME NEW q \in 1..Len(c.restarts)
      PROVE  /\ f[q].auto = c.restarts[q].auto
             /\ \/ f[q].state = c.restarts[q].state
                \/ c.restarts[q].state = "waiting" /\ f[q].state = "ok"
             /\ f[q].heard = c.restarts[q].heard
             /\ f[q].timer = c.restarts[q].timer
  <2>1. c.restarts[q] \in Restart
    BY <1>1, ElementOfSeq
  <2>2. CASE Completed(c, q)
    <3>1. f[q] = [c.restarts[q] EXCEPT !.state = "ok"]
      BY <1>1, <1>2, <2>2
    <3>2. c.restarts[q].state = "waiting"
      BY <2>2 DEF Completed
    <3> QED BY <2>1, <3>1, <3>2 DEF Restart
  <2>3. CASE ~Completed(c, q)
    BY <1>1, <1>2, <2>3
  <2> QED BY <2>2, <2>3
<1>8. Settle(c).failCount = IF \E r \in DOMAIN c.restarts : Completed(c, r) /\ c.restarts[r].auto
                            THEN 0 ELSE c.failCount
  BY DEF Settle, Child
<1>9. Settle(c).failCount <= c.failCount
  BY <1>1, <1>8
<1> QED BY <1>3, <1>6, <1>7, <1>9

\* A call of the listeners.
LEMMA NotifyInitializedNotified ==
  ASSUME NEW c, Good(c)
  PROVE  Notified(NotifyInitialized(c), c)
<1>1. /\ c \in Child /\ c.restarts \in Seq(Restart) /\ c.initListeners \in Seq(Nat)
      /\ Len(c.restarts) \in Nat /\ DOMAIN c.restarts = 1..Len(c.restarts)
  BY LenProperties DEF Good, Child
<1>2. PICK rs : rs = [r \in DOMAIN c.restarts |->
                        IF r \in Visited(c.initListeners)
                        THEN [c.restarts[r] EXCEPT !.heard = TRUE, !.timer = FALSE]
                        ELSE c.restarts[r]]
  OBVIOUS
<1>3. \A r \in 1..Len(c.restarts) :
        /\ rs[r] \in Restart /\ rs[r].auto = c.restarts[r].auto
        /\ rs[r].state = c.restarts[r].state
        /\ r \in Visited(c.initListeners) => rs[r].heard
        /\ r \notin Visited(c.initListeners) => rs[r] = c.restarts[r]
  <2> TAKE r \in 1..Len(c.restarts)
  <2>1. c.restarts[r] \in Restart
    BY <1>1, ElementOfSeq
  <2>2. CASE r \in Visited(c.initListeners)
    <3>1. rs[r] = [c.restarts[r] EXCEPT !.heard = TRUE, !.timer = FALSE]
      BY <1>1, <1>2, <2>2
    <3> QED BY <2>1, <2>2, <3>1 DEF Restart
  <2>3. CASE r \notin Visited(c.initListeners)
    BY <1>1, <1>2, <2>1, <2>3
  <2> QED BY <2>2, <2>3
<1>4. rs \in Seq(Restart) /\ Len(rs) = Len(c.restarts)
  <2>1. rs \in [DOMAIN c.restarts -> Restart]
    BY <1>1, <1>2, <1>3
  <2> QED BY <1>1, <2>1, MapRestarts
<1>5. PICK e : e = [c EXCEPT !.restarts = rs, !.initListeners = Skipped(c.initListeners)]
  OBVIOUS
<1>6. /\ e \in Child /\ e.restarts = rs /\ e.initListeners = Skipped(c.initListeners)
      /\ e.kills = c.kills /\ e.microtasks = c.microtasks
      /\ e.isClosing = c.isClosing /\ e.alive = c.alive /\ e.registered = c.registered
      /\ e.failCount = c.failCount
      /\ e.retryTimeout = c.retryTimeout /\ e.strayRetries = c.strayRetries
  BY <1>1, <1>4, <1>5, SkippedTyped DEF Child
<1>7. NotifyInitialized(c) = Settle(e)
  BY <1>1, <1>2, <1>5 DEF NotifyInitialized, Child
<1>8. PICK d : d = Settle(e)
  OBVIOUS
<1>9. d \in Child
  BY <1>7, <1>8, NotifyInitializedGood DEF Good
<1>10. /\ d.initListeners = e.initListeners
       /\ d.kills = e.kills /\ d.microtasks = e.microtasks
       /\ d.isClosing = e.isClosing /\ d.alive = e.alive /\ d.registered = e.registered
       /\ d.retryTimeout = e.retryTimeout /\ d.strayRetries = e.strayRetries
  BY <1>6, <1>8 DEF Settle, Child
<1>11. /\ Len(d.restarts) = Len(rs)
       /\ \A q \in 1..Len(rs) :
            /\ d.restarts[q].auto = rs[q].auto
            /\ \/ d.restarts[q].state = rs[q].state
               \/ rs[q].state = "waiting" /\ d.restarts[q].state = "ok"
            /\ d.restarts[q].heard = rs[q].heard
            /\ d.restarts[q].timer = rs[q].timer
       /\ d.failCount <= e.failCount
  BY <1>6, <1>8, <1>9, SettleFields
<1>12. Notified(d, c)
  <2>1. Len(d.restarts) = Len(c.restarts)
    BY <1>4, <1>11
  <2>2. ASSUME NEW q \in 1..Len(c.restarts)
        PROVE  /\ d.restarts[q].auto = c.restarts[q].auto
               /\ \/ d.restarts[q].state = c.restarts[q].state
                  \/ c.restarts[q].state = "waiting" /\ d.restarts[q].state = "ok"
               /\ q \in Visited(c.initListeners) => d.restarts[q].heard
               /\ q \notin Visited(c.initListeners) =>
                    /\ d.restarts[q].heard = c.restarts[q].heard
                    /\ d.restarts[q].timer = c.restarts[q].timer
    BY <1>3, <1>4, <1>11
  <2> QED BY <1>6, <1>9, <1>10, <1>11, <2>1, <2>2 DEF Notified
<1> QED BY <1>7, <1>8, <1>12

\* The listeners that a call skips are those of the restarts it does not reach.
LEMMA SkippedStay ==
  ASSUME NEW s \in Seq(Nat), NEW l \in 1..Len(s), s[l] \notin Visited(s)
  PROVE  \E k \in 1..Len(Skipped(s)) : Skipped(s)[k] = s[l]
<1>1. Len(s) \in Nat
  BY LenProperties
<1>2. l % 2 # 1
  BY DEF Visited
<1>3. PICK k \in 1..(Len(s) \div 2) : l = 2 * k
  <2>1. l = 2 * (l \div 2) /\ (l \div 2) \in 1..(Len(s) \div 2)
    BY <1>1, <1>2
  <2> QED BY <2>1
<1>4. PICK n \in Nat : n = Len(s) \div 2
  BY <1>1
<1>5. Skipped(s) \in [1..n -> Nat] /\ Skipped(s)[k] = s[2 * k]
  <2>1. \A j \in 1..n : 2 * j \in 1..Len(s)
    BY <1>1, <1>4
  <2>2. \A j \in 1..n : s[2 * j] \in Nat
    BY <2>1, ElementOfSeq
  <2> QED BY <1>3, <1>4, <2>2 DEF Skipped
<1>6. Len(Skipped(s)) = n
  BY <1>4, <1>5, FunctionIsSeq
<1> QED BY <1>3, <1>4, <1>5, <1>6

\* A call of the listeners ends waits, and takes from no other the listener.
LEMMA NotifyInitializedWaits ==
  ASSUME NEW c, Good(c), NEW r, Waits(c, r)
  PROVE  Waits(NotifyInitialized(c), r)
<1>1. PICK d : d = NotifyInitialized(c)
  OBVIOUS
<1>2. Notified(d, c)
  BY <1>1, NotifyInitializedNotified
<1>3. c.initListeners \in Seq(Nat)
  BY DEF Good, Child
<1>4. Keeps(c, d)
  <2>1. \A q : Resumed(c, q) => Resumed(d, q)
    BY <1>2, SameResumed DEF Notified
  <2> QED BY <1>2, <2>1 DEF Keeps, Notified
<1>5. ListenInv(d, r)
  <2> SUFFICES ASSUME NEW q \in 1..Len(c.restarts), q # r,
                      d.restarts[q].state = "waiting", ~d.restarts[q].heard
               PROVE  /\ \E l \in 1..Len(d.initListeners) : d.initListeners[l] = q
                      /\ HasRestartTimeout => d.restarts[q].timer
    BY <1>2 DEF ListenInv, Listens, Notified
  <2>1. q \notin Visited(c.initListeners)
    BY <1>2 DEF Notified
  <2>2. /\ c.restarts[q].state = "waiting" /\ ~c.restarts[q].heard
        /\ d.restarts[q].timer = c.restarts[q].timer
    BY <1>2, <2>1 DEF Notified
  <2>3. /\ \E l \in 1..Len(c.initListeners) : c.initListeners[l] = q
        /\ HasRestartTimeout => c.restarts[q].timer
    BY <2>2 DEF Waits, ListenInv, Listens
  <2>4. \E l \in 1..Len(d.initListeners) : d.initListeners[l] = q
    BY <1>2, <1>3, <2>1, <2>3, SkippedStay DEF Notified
  <2> QED BY <2>2, <2>3, <2>4
<1>6. MicrotasksInv(d)
  BY <1>2 DEF Notified, Waits, MicrotasksInv
<1> QED BY <1>1, <1>4, <1>5, <1>6, KeepsWaits

\* A fork changes no restart and no kill, and the new process is not killed.
LEMMA ForkWaits ==
  ASSUME NEW c, Good(c), NEW r, Waits(c, r)
  PROVE  Waits(Fork(c), r)
<1>1. PICK d : d = Fork(c)
  OBVIOUS
<1>2. /\ d.restarts = c.restarts /\ d.initListeners = c.initListeners
      /\ d.kills = c.kills /\ d.microtasks = c.microtasks /\ ~d.isClosing
  BY <1>1 DEF Fork, Good, Child
<1>3. \A q : Resumed(c, q) => Resumed(d, q)
  BY <1>2, SameResumed
<1>4. Keeps(c, d)
  BY <1>2, <1>3 DEF Keeps
<1>5. MicrotasksInv(d) /\ ListenInv(d, r)
  BY <1>2, SameListens DEF Waits, MicrotasksInv
<1> QED BY <1>1, <1>4, <1>5, KeepsWaits

\* The restart leaves the kill behind: it has its listener, and its timer.
LEMMA AwaitInitWaits ==
  ASSUME NEW c, Good(c), NEW r \in 1..Len(c.restarts), Waits(c, r)
  PROVE  /\ Waits(AwaitInit(c, r), 0)
         /\ Len(AwaitInit(c, r).restarts) = Len(c.restarts)
<1>1. /\ c \in Child /\ c.restarts \in Seq(Restart) /\ c.initListeners \in Seq(Nat)
      /\ r \in Nat /\ Len(c.restarts) \in Nat
  BY LenProperties DEF Good, Child
<1>2. c.restarts[r] \in Restart
  BY <1>1, ElementOfSeq
<1>3. PICK x : x = [c.restarts[r] EXCEPT !.state = "waiting", !.timer = HasRestartTimeout]
  OBVIOUS
<1>4. /\ x \in Restart /\ x.state = "waiting" /\ x.timer = HasRestartTimeout
      /\ x.auto = c.restarts[r].auto
  BY <1>2, <1>3, ConfigAssumption DEF Restart, RestartStates
<1>5. PICK rs : rs = [c.restarts EXCEPT ![r] = x]
  OBVIOUS
<1>6. /\ rs \in Seq(Restart) /\ Len(rs) = Len(c.restarts)
      /\ \A q \in 1..Len(c.restarts) : rs[q] = IF q = r THEN x ELSE c.restarts[q]
  BY <1>1, <1>4, <1>5, ExceptSeq
<1>7. PICK ls : ls = Append(c.initListeners, r)
  OBVIOUS
<1>8. /\ ls \in Seq(Nat) /\ Len(c.initListeners) \in Nat
      /\ Len(ls) = Len(c.initListeners) + 1 /\ ls[Len(c.initListeners) + 1] = r
      /\ \A l \in 1..Len(c.initListeners) : ls[l] = c.initListeners[l]
  BY <1>1, <1>7, AppendProperties, LenProperties
<1>9. PICK d : d = AwaitInit(c, r)
  OBVIOUS
<1>10. d = [c EXCEPT !.restarts = rs, !.initListeners = ls]
  BY <1>1, <1>3, <1>5, <1>7, <1>9 DEF AwaitInit, Child
<1>11. /\ d.restarts = rs /\ d.initListeners = ls
       /\ d.kills = c.kills /\ d.microtasks = c.microtasks /\ d.isClosing = c.isClosing
  BY <1>1, <1>10 DEF Child
<1>12. \A q : Resumed(c, q) => Resumed(d, q)
  BY <1>11, SameResumed
<1>13. Keeps(c, d)
  BY <1>4, <1>6, <1>11, <1>12 DEF Keeps
<1>14. ListenInv(d, 0)
  <2> SUFFICES ASSUME NEW q \in 1..Len(c.restarts) PROVE Listens(d, q)
    BY <1>6, <1>11 DEF ListenInv
  <2>1. CASE q = r
    <3>1. \E l \in 1..Len(ls) : ls[l] = q
      BY <1>8, <2>1
    <3> QED BY <1>4, <1>6, <1>11, <2>1, <3>1 DEF Listens
  <2>2. CASE q # r
    <3>1. Listens(c, q) /\ d.restarts[q] = c.restarts[q]
      BY <1>6, <1>11, <2>2 DEF Waits, ListenInv
    <3>2. \A l \in 1..Len(c.initListeners) : l \in 1..Len(ls) /\ ls[l] = c.initListeners[l]
      BY <1>8
    <3> QED BY <1>11, <3>1, <3>2 DEF Listens
  <2> QED BY <2>1, <2>2
<1>15. MicrotasksInv(d)
  BY <1>11 DEF Waits, MicrotasksInv
<1>16. d.restarts[r].state # "killing"
  BY <1>4, <1>6, <1>11
<1> QED BY <1>6, <1>9, <1>11, <1>13, <1>14, <1>15, <1>16, KeepsWaits

\* What a restart waits for changes no wait for a kill, a listener or a timer.
LEMMA SetRestartWaits ==
  ASSUME NEW c \in Child, NEW s, Waits(c, s), NEW r \in 1..Len(c.restarts), NEW x \in Restart,
         x.state = c.restarts[r].state, x.auto = c.restarts[r].auto,
         x.heard = c.restarts[r].heard, x.timer = c.restarts[r].timer
  PROVE  Waits([c EXCEPT !.restarts = [@ EXCEPT ![r] = x]], s)
<1>1. c.restarts \in Seq(Restart) /\ Len(c.restarts) \in Nat
  BY LenProperties DEF Child
<1>2. PICK rs : rs = [c.restarts EXCEPT ![r] = x]
  OBVIOUS
<1>3. /\ rs \in Seq(Restart) /\ Len(rs) = Len(c.restarts)
      /\ \A q \in 1..Len(c.restarts) : rs[q] = IF q = r THEN x ELSE c.restarts[q]
  BY <1>1, <1>2, ExceptSeq
<1>4. PICK d : d = [c EXCEPT !.restarts = [@ EXCEPT ![r] = x]]
  OBVIOUS
<1>5. /\ d.restarts = rs /\ d.initListeners = c.initListeners
      /\ d.kills = c.kills /\ d.microtasks = c.microtasks /\ d.isClosing = c.isClosing
  BY <1>2, <1>4 DEF Child
<1>6. \A q : Resumed(c, q) => Resumed(d, q)
  BY <1>5, SameResumed
<1>7. Keeps(c, d)
  BY <1>3, <1>5, <1>6 DEF Keeps
<1>8. ListenInv(d, s)
  BY <1>3, <1>5 DEF Waits, ListenInv, Listens
<1>9. MicrotasksInv(d)
  BY <1>5 DEF Waits, MicrotasksInv
<1> QED BY <1>4, <1>7, <1>8, <1>9, KeepsWaits

\* The INITs are sent, or refused while the child is closing.
LEMMA SendInitsWaits ==
  ASSUME NEW c, Good(c), NEW r \in 1..Len(c.restarts), Waits(c, 0)
  PROVE  Waits(SendInits(c, r), 0)
<1>1. /\ c \in Child /\ c.restarts \in Seq(Restart) /\ r \in Nat /\ Current(c) \in Nat
      /\ c.initialized \in [Instances -> BOOLEAN]
  BY LenProperties DEF Good, Child, Current
<1>2. c.restarts[r] \in Restart
  BY <1>1, ElementOfSeq
<1>3. PICK targets : targets = c.restarts[r].targets
  OBVIOUS
<1>4. PICK x : x = [c.restarts[r] EXCEPT !.awaiting = targets, !.process = Current(c)]
  OBVIOUS
<1>5. /\ x \in Restart /\ x.state = c.restarts[r].state /\ x.auto = c.restarts[r].auto
      /\ x.heard = c.restarts[r].heard /\ x.timer = c.restarts[r].timer
  BY <1>1, <1>2, <1>3, <1>4 DEF Restart
<1>6. PICK b : b = [c EXCEPT !.restarts = [@ EXCEPT ![r] = x]]
  OBVIOUS
<1>7. Waits(b, 0)
  BY <1>1, <1>5, <1>6, SetRestartWaits
<1>8. [c.restarts EXCEPT ![r] = x] \in Seq(Restart)
      /\ Len([c.restarts EXCEPT ![r] = x]) = Len(c.restarts)
  BY <1>1, <1>5, SetRestart
<1>9. Good(b) /\ Len(b.restarts) = Len(c.restarts) /\ b.isClosing = c.isClosing
  <2>1. b = [c EXCEPT !.restarts = [c.restarts EXCEPT ![r] = x]]
    BY <1>6
  <2>2. b.restarts = [c.restarts EXCEPT ![r] = x] /\ b.isClosing = c.isClosing
    BY <1>1, <2>1 DEF Child
  <2> QED BY <1>8, <2>1, <2>2, RestartsGood
<1>10. PICK init : init = [i \in Instances |-> c.initialized[i] \/ i \in targets]
  OBVIOUS
<1>11. init \in [Instances -> BOOLEAN]
  BY <1>1, <1>10
<1>12. PICK d : d = [b EXCEPT !.initialized = init]
  OBVIOUS
<1>13. /\ d \in Child /\ d.restarts = b.restarts /\ d.initListeners = b.initListeners
       /\ d.kills = b.kills /\ d.microtasks = b.microtasks /\ d.isClosing = b.isClosing
       /\ d.alive = b.alive /\ d.processes = b.processes /\ d.pendingInit = b.pendingInit
       /\ d.instances = b.instances
  BY <1>9, <1>11, <1>12 DEF Good, Child
<1>14. Waits(d, 0)
  BY <1>7, <1>13, FrameWaits
<1> DEFINE to == c.restarts[r].targets
           D == [c EXCEPT !.initialized = [i \in Instances |-> @[i] \/ i \in to],
                          !.restarts[r] = [@ EXCEPT !.awaiting = to, !.process = Current(c)]]
           E == [D EXCEPT
                   !.initGen = [i \in Instances |-> IF i \in to THEN Current(c) ELSE @[i]],
                   !.pendingInit = @ \cup [by : {r}, inst : to]]
<1>14a. SendInits(c, r) = IF c.isClosing THEN FailRestart(NotifyInitialized(D), r) ELSE E
  BY DEF SendInits
<1>14b. D = d
  <2>1. d = [c EXCEPT !.initialized = init, !.restarts[r] = x]
    BY <1>1, <1>6, <1>12 DEF Child
  <2> QED BY <1>3, <1>4, <1>10, <2>1
<1> HIDE DEF D
<1>15. CASE c.isClosing
  <2>1. SendInits(c, r) = FailRestart(NotifyInitialized(d), r)
    BY <1>14a, <1>14b, <1>15
  <2>2. Good(d)
    BY <1>9, <1>13, <1>15 DEF Good, RefsInv, ProcessInv, KillsInv, UseInv, Current, ProcessState
  <2>3. PICK n : n = NotifyInitialized(d)
    OBVIOUS
  <2>4. Good(n) /\ Len(n.restarts) = Len(c.restarts) /\ Waits(n, 0)
    BY <1>9, <1>13, <1>14, <2>2, <2>3, NotifyInitializedGood, NotifyInitializedWaits
  <2>5. n.microtasks = <<>>
    <3>1. n.microtasks = d.microtasks
      BY <2>2, <2>3, NotifyInitializedNotified DEF Notified
    <3> QED BY <1>9, <1>13, <1>14, <1>15, <3>1 DEF Waits, MicrotasksInv
  <2>6. Waits(n, r)
    BY <2>4 DEF Waits, ResumeInv, ListenInv
  <2> QED BY <2>1, <2>3, <2>4, <2>5, <2>6, FailRestartWaits
<1>16. CASE ~c.isClosing
  <2>1. PICK e : e = SendInits(c, r)
    OBVIOUS
  <2>2. e = E
    BY <1>14a, <1>16, <2>1
  <2>3. /\ e.restarts = d.restarts /\ e.initListeners = d.initListeners
        /\ e.kills = d.kills /\ e.microtasks = d.microtasks /\ e.isClosing = d.isClosing
    BY <1>13, <1>14b, <2>2 DEF Child
  <2> QED BY <1>14, <2>1, <2>3, FrameWaits
<1> QED BY <1>15, <1>16

\* restartChild goes on after its kill.
LEMMA ContinueRestartWaits ==
  ASSUME NEW c, Good(c), NEW r \in 1..Len(c.restarts), Waits(c, r)
  PROVE  Waits(ContinueRestart(c, r), 0)
<1>1. PICK d : d = ClearRestartTimeout(c)
  OBVIOUS
<1>2. /\ Good(d) /\ d.restarts = c.restarts /\ d.initListeners = c.initListeners
      /\ d.kills = c.kills /\ d.microtasks = c.microtasks /\ d.isClosing = c.isClosing
      /\ d.alive = c.alive
  BY <1>1, ClearRestartTimeoutGood DEF ClearRestartTimeout, Good, Child
<1>3. Waits(d, r)
  BY <1>2, FrameWaits
<1>4. PICK e : e = IF c.alive THEN d ELSE Fork(d)
  OBVIOUS
<1>5. Good(e) /\ e.restarts = c.restarts /\ Waits(e, r)
  BY <1>2, <1>3, <1>4, ForkGood, ForkWaits
<1>6. Good(AwaitInit(e, r)) /\ Waits(AwaitInit(e, r), 0)
      /\ Len(AwaitInit(e, r).restarts) = Len(c.restarts)
  BY <1>5, AwaitInitGood, AwaitInitWaits
<1>7. ContinueRestart(c, r) = SendInits(AwaitInit(e, r), r)
  BY <1>1, <1>4 DEF ContinueRestart
<1> QED BY <1>6, <1>7, SendInitsWaits

\* Between the tasks, no restart of a child that is not closing waits for a kill.
LEMMA NoneKilling ==
  ASSUME NEW c, Good(c), Waits(c, 0), c.microtasks = <<>>, ~c.isClosing,
         NEW q \in 1..Len(c.restarts)
  PROVE  c.restarts[q].state # "killing"
<1>1. c.kills = <<>>
  BY DEF Good, KillsInv
<1>2. Len(c.kills) = 0 /\ Len(c.microtasks) = 0
  BY <1>1, EmptySeq
<1>3. ~Resumed(c, q)
  BY <1>2 DEF Resumed
<1>4. q # 0
  OBVIOUS
<1> QED BY <1>3, <1>4 DEF Waits, ResumeInv

\* restartChild: the new restart waits for the kill that it has asked for, or
\* goes on at once.
LEMMA RestartChildWaits ==
  ASSUME NEW c, Good(c), Waits(c, 0), c.microtasks = <<>>,
         NEW targets \in SUBSET Instances, NEW auto \in BOOLEAN, NEW force \in BOOLEAN,
         auto => ~c.isClosing
  PROVE  Waits(RestartChild(c, targets, auto, force), 0)
<1>1. /\ c \in Child /\ c.restarts \in Seq(Restart) /\ Len(c.restarts) \in Nat
      /\ \A q \in 1..Len(c.restarts) : c.restarts[q] \in Restart
  BY LenProperties, ElementOfSeq DEF Good, Child
<1> DEFINE r == Len(c.restarts) + 1
           rs == [q \in 1..r |-> IF q < r THEN c.restarts[q] ELSE NewRestart(targets, auto)]
           d == [c EXCEPT !.restarts = rs]
<1>2. /\ NewRestart(targets, auto) \in Restart /\ NewRestart(targets, auto).auto = auto
      /\ NewRestart(targets, auto).state = "killing"
  BY DEF NewRestart, Restart, RestartStates
<1>3. rs \in Seq(Restart) /\ Len(rs) = r
  <2>1. rs \in [1..r -> Restart] BY <1>1, <1>2
  <2> QED BY <1>1, <2>1, FunctionIsSeq
<1>4. RestartChild(c, targets, auto, force) =
        IF c.alive /\ force THEN KillChild(d, "restart", r, FALSE) ELSE ContinueRestart(d, r)
  BY DEF RestartChild
<1>5. /\ rs[r].auto = auto /\ rs[r].state = "killing"
      /\ \A q \in 1..Len(c.restarts) : q # r /\ rs[q] = c.restarts[q]
      /\ \A q \in 1..r : q # r => q \in 1..Len(c.restarts)
      /\ r \in 1..r /\ r \in Nat
  BY <1>1, <1>2
<1> HIDE DEF rs, r
<1>6. /\ d \in Child /\ d.restarts = rs
      /\ d.processes = c.processes /\ d.alive = c.alive /\ d.isClosing = c.isClosing
      /\ d.kills = c.kills /\ d.microtasks = c.microtasks /\ d.pendingInit = c.pendingInit
      /\ d.instances = c.instances /\ d.initialized = c.initialized /\ d.initGen = c.initGen
      /\ d.initListeners = c.initListeners
  BY <1>1, <1>3 DEF Child
<1> HIDE DEF d
<1>7. Good(d)
  <2>1. 0..Len(c.restarts) \subseteq 0..r /\ 1..Len(c.restarts) \subseteq 1..r
    BY <1>1 DEF r
  <2>2. RefsInv(d)
    BY <1>3, <1>6, <2>1 DEF Good, RefsInv, RefersTo
  <2>3. ProcessInv(d) /\ KillsInv(d) /\ UseInv(d)
    BY <1>6 DEF Good, ProcessInv, KillsInv, UseInv, Current, ProcessState
  <2> QED BY <1>6, <2>2, <2>3 DEF Good
<1>8. Waits(d, r)
  <2>1. ResumeInv(d, r)
    <3> SUFFICES ASSUME NEW q \in 1..r, q # r, rs[q].state = "killing" PROVE Resumed(d, q)
      BY <1>3, <1>6 DEF ResumeInv
    <3>1. q \in 1..Len(c.restarts) /\ c.restarts[q].state = "killing" /\ q # 0
      BY <1>5
    <3>2. Resumed(c, q)
      BY <3>1 DEF Waits, ResumeInv
    <3> QED BY <1>6, <3>2, SameResumed
  <2>2. ListenInv(d, r)
    <3> SUFFICES ASSUME NEW q \in 1..r, q # r PROVE Listens(d, q)
      BY <1>3, <1>6 DEF ListenInv
    <3>1. q \in 1..Len(c.restarts) /\ rs[q] = c.restarts[q] /\ q # 0
      BY <1>5
    <3>2. Listens(c, q)
      BY <3>1 DEF Waits, ListenInv
    <3> QED BY <1>6, <3>1, <3>2 DEF Listens
  <2>3. OneAutoInv(d)
    <3> SUFFICES ASSUME NEW p \in 1..r, NEW q \in 1..r, rs[p].auto, rs[p].state = "killing",
                        rs[q].auto, rs[q].state = "killing"
                 PROVE  p = q
      BY <1>3, <1>6 DEF OneAutoInv
    <3>1. CASE auto
      BY <1>5, <3>1, NoneKilling
    <3>2. CASE ~auto
      <4>1. p \in 1..Len(c.restarts) /\ q \in 1..Len(c.restarts)
        BY <1>5, <3>2
      <4> QED BY <1>5, <4>1 DEF Waits, OneAutoInv
    <3> QED BY <3>1, <3>2
  <2> QED BY <1>6, <2>1, <2>2, <2>3 DEF Waits, MicrotasksInv
<1>9. ASSUME c.alive, force PROVE Waits(KillChild(d, "restart", r, FALSE), 0)
  <2>1. PICK e : e = KillChild(d, "restart", r, FALSE)
    OBVIOUS
  <2>2. Waits(e, r) /\ Resumed(e, r) /\ e.restarts = rs
    BY <1>5, <1>6, <1>8, <2>1, KillChildWaits DEF Goals
  <2>3. ResumeInv(e, 0)
    BY <2>2 DEF Waits, ResumeInv
  <2>4. ListenInv(e, 0)
    BY <1>5, <2>2 DEF Waits, ListenInv, Listens
  <2> QED BY <2>1, <2>2, <2>3, <2>4 DEF Waits
<1>10. Waits(ContinueRestart(d, r), 0)
  BY <1>3, <1>5, <1>6, <1>7, <1>8, ContinueRestartWaits
<1> QED BY <1>4, <1>9, <1>10

\* _childHasCrashed between the continuations.
LEMMA ChildHasCrashedWaits ==
  ASSUME NEW c, Good(c), Waits(c, 0), c.microtasks = <<>>
  PROVE  Waits(ChildHasCrashed(c), 0)
<1>1. (c.instances \cap AutoRestart) \in SUBSET Instances /\ c \in Child
  BY InstancesAssumption DEF Good
<1>2. ~c.isClosing => Waits(RestartChild(c, c.instances \cap AutoRestart, TRUE, TRUE), 0)
  BY <1>1, RestartChildWaits
<1>3. Waits(KillChild(c, "report", 0, FALSE), 0)
  BY <1>1, KillChildWaits DEF Goals
<1> QED BY <1>2, <1>3 DEF ChildHasCrashed

-----------------------------------------------------------------------------
(***************************************************************************)
(* The actions.                                                            *)
(***************************************************************************)
\* A kill of the closed process is settled: its continuation is to run.
LEMMA CloseWaits ==
  ASSUME IInv, WaitsInv, Crash \/ Terminated
  PROVE  WaitsInv'
<1>1. /\ Good(child) /\ child.alive /\ child.microtasks = <<>> /\ Waits(child, 0)
      /\ child' = CloseHandlers(ChildHasCrashed(MarkClosed(child)), child.kills)
      /\ child.kills \in Seq(Kill)
  BY DEF IInv, WaitsInv, Crash, Terminated, Task, Close, Good, Child
<1>2. PICK d : d = MarkClosed(child)
  OBVIOUS
<1>3. /\ d \in Child /\ RefsInv(d) /\ UseInv(d)
      /\ ~d.alive /\ d.isClosing = child.isClosing
      /\ d.kills = child.kills /\ d.microtasks = child.microtasks /\ d.restarts = child.restarts
      /\ d.processes # <<>>
      /\ \A p \in 1..Current(d) : d.processes[p] = "closed"
  BY <1>1, <1>2, MarkClosedFields
<1>4. d.initListeners = child.initListeners
  BY <1>1, <1>2 DEF MarkClosed, Good, Child
<1>5. Waits(d, 0)
  BY <1>1, <1>3, <1>4, FrameWaits
<1>6. CASE child.isClosing
  <2>1. ChildHasCrashed(d) = d
    BY <1>3, <1>6 DEF ChildHasCrashed
  <2>2. child.kills # <<>>
    BY <1>1, <1>6 DEF Good, KillsInv
  <2>3. PICK cleanUp : cleanUp = (\E k \in 1..Len(child.kills) : child.kills[k].cleanUp)
    OBVIOUS
  <2>4. child' = [d EXCEPT !.instances = IF cleanUp THEN {} ELSE @,
                           !.registered = @ /\ ~cleanUp,
                           !.isClosing = FALSE,
                           !.kills = <<>>,
                           !.microtasks = @ \o child.kills]
    BY <1>1, <1>2, <2>1, <2>2, <2>3 DEF CloseHandlers
  <2>5. d.microtasks \o child.kills = child.kills
    BY <1>1, <1>3
  <2>6. /\ child'.restarts = child.restarts /\ child'.initListeners = child.initListeners
        /\ child'.microtasks = child.kills /\ ~child'.isClosing
    BY <1>3, <1>4, <2>4, <2>5 DEF Child
  <2>7. \A q : Resumed(child, q) => Resumed(child', q)
    <3>1. Len(child.microtasks) = 0
      BY <1>1, EmptySeq
    <3> QED BY <2>6, <3>1 DEF Resumed
  <2>8. Keeps(child, child')
    BY <2>6, <2>7 DEF Keeps
  <2>9. MicrotasksInv(child') /\ ListenInv(child', 0)
    BY <1>1, <2>6, SameListens DEF MicrotasksInv, Waits
  <2>10. Waits(child', 0)
    BY <1>1, <2>8, <2>9, KeepsWaits
  <2> QED BY <2>10 DEF WaitsInv
<1>7. CASE ~child.isClosing
  <2>1. child.kills = <<>>
    BY <1>1, <1>7 DEF Good, KillsInv
  <2>2. child' = ChildHasCrashed(d)
    BY <1>1, <1>2, <2>1 DEF CloseHandlers
  <2>3. Good(d)
    <3>1. Current(d) \in Nat \ {0} /\ ProcessState(d) = "closed"
      BY <1>3, EmptySeq DEF Child, Current, ProcessState
    <3> QED BY <1>3, <1>7, <2>1, <3>1 DEF Good, ProcessInv, KillsInv
  <2>4. Waits(child', 0)
    BY <1>1, <1>3, <1>5, <2>2, <2>3, ChildHasCrashedWaits
  <2> QED BY <2>4 DEF WaitsInv
<1> QED BY <1>6, <1>7

\* The first continuation is taken; only that of its own restart was its.
LEMMA RunMicrotaskWaits ==
  ASSUME IInv, WaitsInv, RunMicrotask
  PROVE  WaitsInv'
<1>1. /\ Good(child) /\ Waits(child, 0) /\ child \in Child
      /\ child.microtasks \in Seq(Kill) /\ child.microtasks # <<>>
  BY DEF IInv, WaitsInv, Good, Child, RunMicrotask
<1>2. PICK k : k = Head(child.microtasks)
  OBVIOUS
<1>3. PICK ms : ms = Tail(child.microtasks)
  OBVIOUS
<1>4. /\ k \in Kill /\ ms \in Seq(Kill)
      /\ Len(child.microtasks) \in Nat \ {0}
      /\ Len(ms) = Len(child.microtasks) - 1
      /\ \A i \in 1..Len(ms) : ms[i] = child.microtasks[i + 1]
      /\ k = child.microtasks[1]
  BY <1>1, <1>2, <1>3, HeadTailProperties, EmptySeq
<1>5. PICK c : c = [child EXCEPT !.microtasks = ms]
  OBVIOUS
<1>6. /\ c \in Child
      /\ c.processes = child.processes /\ c.alive = child.alive /\ c.isClosing = child.isClosing
      /\ c.kills = child.kills /\ c.microtasks = ms
      /\ c.restarts = child.restarts /\ c.pendingInit = child.pendingInit
      /\ c.instances = child.instances /\ c.initListeners = child.initListeners
      /\ c.initialized = child.initialized /\ c.initGen = child.initGen
  BY <1>1, <1>4, <1>5 DEF Child
<1>7. RefersTo(child.microtasks, child.restarts)
  BY <1>1 DEF Good, RefsInv
<1>8. Good(c)
  <2>1. RefersTo(ms, child.restarts)
    BY <1>4, <1>7 DEF RefersTo
  <2> QED BY <1>1, <1>6, <2>1 DEF Good, RefsInv, ProcessInv, KillsInv, UseInv, Current, ProcessState
<1>9. \A q : Resumed(child, q) => Resumed(c, q) \/ (Live(k) /\ k.restart = q)
  <2> SUFFICES ASSUME NEW q, NEW j \in 1..Len(child.microtasks),
                      Live(child.microtasks[j]), child.microtasks[j].restart = q
               PROVE  Resumed(c, q) \/ (Live(k) /\ k.restart = q)
    BY <1>6 DEF Resumed
  <2>1. CASE j = 1
    BY <1>4, <2>1
  <2>2. CASE j # 1
    <3>1. j - 1 \in 1..Len(ms) /\ ms[j - 1] = child.microtasks[j]
      BY <1>4, <2>2
    <3> QED BY <1>6, <3>1 DEF Resumed
  <2> QED BY <2>1, <2>2
<1>10. MicrotasksInv(c)
  BY <1>1, <1>6 DEF Waits, MicrotasksInv
<1>11. \A r : ListenInv(c, r)
  BY <1>1, <1>6 DEF Waits, ListenInv, Listens
<1>12. OneAutoInv(c)
  BY <1>1, <1>6 DEF Waits, OneAutoInv
<1>13. ~Live(k) => Waits(c, 0)
  BY <1>1, <1>6, <1>9, <1>10, <1>11, <1>12 DEF Waits, ResumeInv
<1>14. Live(k) => Waits(c, k.restart) /\ k.restart \in 1..Len(c.restarts)
  <2>1. Live(k) => k.restart \in 1..Len(child.restarts)
    BY <1>4, <1>7 DEF RefersTo, Live
  <2> QED BY <1>1, <1>6, <1>9, <1>10, <1>11, <1>12, <2>1 DEF Waits, ResumeInv
<1>15. \/ child' = c /\ ~Live(k)
       \/ child' = ContinueRestart(c, k.restart) /\ Live(k)
       \/ child' = SetRetryTimeout(c) /\ ~Live(k)
       \/ child' = c /\ k.timedOut
  BY <1>2, <1>3, <1>4, <1>5 DEF RunMicrotask, Kill, Goals, Live
<1>16. Waits(c, 0) => Waits(SetRetryTimeout(c), 0)
  <2>1. PICK d : d = SetRetryTimeout(c)
    OBVIOUS
  <2>2. /\ d.restarts = c.restarts /\ d.initListeners = c.initListeners
        /\ d.kills = c.kills /\ d.microtasks = c.microtasks /\ d.isClosing = c.isClosing
    BY <1>6, <2>1 DEF SetRetryTimeout, Child
  <2> QED BY <2>1, <2>2, FrameWaits
<1>17. Waits(child', 0)
  BY <1>8, <1>13, <1>14, <1>15, <1>16, ContinueRestartWaits DEF Live
<1> QED BY <1>17 DEF WaitsInv

\* A kill that runs out no longer continues its restart, which fails.
LEMMA KillTimeoutWaits ==
  ASSUME IInv, WaitsInv, KillTimeout
  PROVE  WaitsInv'
<1>1. /\ Good(child) /\ Waits(child, 0) /\ child \in Child /\ child.microtasks = <<>>
      /\ child.kills \in Seq(Kill) /\ RefersTo(child.kills, child.restarts)
  BY DEF IInv, WaitsInv, Good, Child, KillTimeout, Task, RefsInv
<1>2. PICK n \in 1..Len(child.kills) :
        LET k == child.kills[n]
            c == [child EXCEPT !.kills[n].timedOut = TRUE,
                               !.registered = @ /\ ~k.cleanUp]
        IN /\ ~k.timedOut
           /\ child' = CASE k.goal = "restart" -> FailRestart(c, k.restart)
                         [] k.goal = "retry" -> SetRetryTimeout(c)
                         [] k.goal \in {"destroy", "report"} -> c
  BY DEF KillTimeout
<1>3. PICK k : k = child.kills[n]
  OBVIOUS
<1>4. k \in Kill
  BY <1>1, <1>3, ElementOfSeq
<1>5. PICK x : x = [k EXCEPT !.timedOut = TRUE]
  OBVIOUS
<1>6. x \in Kill /\ x.goal = k.goal /\ x.restart = k.restart /\ x.timedOut
  BY <1>4, <1>5 DEF Kill
<1>7. PICK ks : ks = [child.kills EXCEPT ![n] = x]
  OBVIOUS
<1>8. /\ ks \in Seq(Kill) /\ Len(ks) = Len(child.kills)
      /\ \A j \in 1..Len(child.kills) : ks[j] = IF j = n THEN x ELSE child.kills[j]
  BY <1>1, <1>6, <1>7, ExceptSeq
<1>9. PICK b : b = (child.registered /\ ~k.cleanUp)
  OBVIOUS
<1>10. b \in BOOLEAN
  BY <1>9
<1>11. PICK c : c = [child EXCEPT !.kills = ks, !.registered = b]
  OBVIOUS
<1>12. c = [child EXCEPT !.kills[n].timedOut = TRUE, !.registered = @ /\ ~child.kills[n].cleanUp]
  BY <1>1, <1>3, <1>5, <1>7, <1>9, <1>11 DEF Child
<1>13. /\ c \in Child
       /\ c.processes = child.processes /\ c.alive = child.alive /\ c.isClosing = child.isClosing
       /\ c.kills = ks /\ c.microtasks = child.microtasks
       /\ c.restarts = child.restarts /\ c.pendingInit = child.pendingInit
       /\ c.instances = child.instances /\ c.initListeners = child.initListeners
       /\ c.initialized = child.initialized /\ c.initGen = child.initGen
  BY <1>1, <1>8, <1>10, <1>11 DEF Child
<1>14. Good(c)
  <2>1. RefersTo(ks, child.restarts) /\ ks # <<>> /\ child.kills # <<>>
    BY <1>1, <1>3, <1>6, <1>8, EmptySeq DEF RefersTo
  <2> QED BY <1>1, <1>13, <2>1 DEF Good, RefsInv, ProcessInv, KillsInv, UseInv, Current, ProcessState
<1>15. \A q : Resumed(child, q) => Resumed(c, q) \/ (k.goal = "restart" /\ k.restart = q)
  <2> SUFFICES ASSUME NEW q, NEW j \in 1..Len(child.kills),
                      Live(child.kills[j]), child.kills[j].restart = q
               PROVE  Resumed(c, q) \/ (k.goal = "restart" /\ k.restart = q)
    BY <1>13 DEF Resumed
  <2>1. CASE j = n
    BY <1>3, <2>1 DEF Live
  <2>2. CASE j # n
    BY <1>8, <1>13, <2>2 DEF Resumed
  <2> QED BY <2>1, <2>2
<1>16. MicrotasksInv(c)
  BY <1>1, <1>13 DEF Waits, MicrotasksInv
<1>17. \A r : ListenInv(c, r)
  BY <1>1, <1>13 DEF Waits, ListenInv, Listens
<1>18. OneAutoInv(c)
  BY <1>1, <1>13 DEF Waits, OneAutoInv
<1>19. k.goal # "restart" => Waits(c, 0)
  BY <1>1, <1>13, <1>15, <1>16, <1>17, <1>18 DEF Waits, ResumeInv
<1>20. k.goal = "restart" => Waits(c, k.restart) /\ k.restart \in 1..Len(c.restarts)
  <2>1. k.goal = "restart" => k.restart \in 1..Len(child.restarts)
    BY <1>1, <1>3 DEF RefersTo
  <2> QED BY <1>1, <1>13, <1>15, <1>16, <1>17, <1>18, <2>1 DEF Waits, ResumeInv
<1>21. \/ child' = c /\ k.goal # "restart"
       \/ child' = FailRestart(c, k.restart) /\ k.goal = "restart"
       \/ child' = SetRetryTimeout(c) /\ k.goal # "restart"
  BY <1>2, <1>3, <1>4, <1>12 DEF Kill, Goals
<1>22. Waits(c, 0) => Waits(SetRetryTimeout(c), 0)
  <2>1. PICK d : d = SetRetryTimeout(c)
    OBVIOUS
  <2>2. /\ d.restarts = c.restarts /\ d.initListeners = c.initListeners
        /\ d.kills = c.kills /\ d.microtasks = c.microtasks /\ d.isClosing = c.isClosing
    BY <1>13, <2>1 DEF SetRetryTimeout, Child
  <2> QED BY <2>1, <2>2, FrameWaits
<1>23. Waits(child', 0)
  BY <1>1, <1>13, <1>14, <1>19, <1>20, <1>21, <1>22, FailRestartWaits
<1> QED BY <1>23 DEF WaitsInv

\* The delay of a retry has passed.
LEMMA RetryWaits ==
  ASSUME IInv, WaitsInv, RetryFires \/ StrayRetryFires \/ PingTimeout
  PROVE  WaitsInv'
<1>1. /\ Good(child) /\ Waits(child, 0) /\ child \in Child /\ child.microtasks = <<>>
      /\ child.strayRetries \in Int
  BY DEF IInv, WaitsInv, Good, Child, RetryFires, StrayRetryFires, PingTimeout, Task
<1>2. CASE RetryFires
  <2>1. PICK c : c = ClearRestartTimeout(child)
    OBVIOUS
  <2>2. /\ Good(c) /\ c.restarts = child.restarts /\ c.initListeners = child.initListeners
        /\ c.kills = child.kills /\ c.microtasks = child.microtasks
        /\ c.isClosing = child.isClosing
    BY <1>1, <2>1, ClearRestartTimeoutGood DEF ClearRestartTimeout, Child
  <2>3. Waits(c, 0)
    BY <1>1, <2>2, FrameWaits
  <2> QED BY <1>1, <1>2, <2>1, <2>2, <2>3, ChildHasCrashedWaits DEF RetryFires, WaitsInv
<1>3. CASE StrayRetryFires
  <2>1. child.strayRetries - 1 \in Nat
    BY <1>1, <1>3 DEF StrayRetryFires, Child
  <2>2. PICK c : c = [child EXCEPT !.strayRetries = @ - 1]
    OBVIOUS
  <2>3. /\ c \in Child /\ c.restarts = child.restarts /\ c.initListeners = child.initListeners
        /\ c.kills = child.kills /\ c.microtasks = child.microtasks
        /\ c.isClosing = child.isClosing /\ c.processes = child.processes
        /\ c.alive = child.alive /\ c.pendingInit = child.pendingInit
        /\ c.instances = child.instances
        /\ c.initialized = child.initialized /\ c.initGen = child.initGen
    BY <1>1, <2>1, <2>2 DEF Child
  <2>4. Good(c) /\ Waits(c, 0)
    BY <1>1, <2>3, FrameGood, FrameWaits
  <2> QED BY <1>1, <1>3, <2>2, <2>3, <2>4, ChildHasCrashedWaits DEF StrayRetryFires, WaitsInv
<1>4. CASE PingTimeout
  BY <1>1, <1>4, ChildHasCrashedWaits DEF PingTimeout, WaitsInv
<1> QED BY <1>2, <1>3, <1>4

\* The removal of a restart's listener leaves those of the others.
LEMMA RemoveListenerOthers ==
  ASSUME NEW s \in Seq(Nat), NEW r, NEW l \in 1..Len(s), s[l] # r
  PROVE  \E k \in 1..Len(RemoveListener(s, r)) : RemoveListener(s, r)[k] = s[l]
<1>1. Len(s) \in Nat
  BY LenProperties
<1>2. CASE ~(\E k \in 1..Len(s) : s[k] = r)
  BY <1>2 DEF RemoveListener
<1>3. CASE \E k \in 1..Len(s) : s[k] = r
  <2>1. PICK i : i = CHOOSE k \in 1..Len(s) : s[k] = r
    OBVIOUS
  <2>2. i \in 1..Len(s) /\ s[i] = r
    BY <1>3, <2>1
  <2>3. PICK before : before = SubSeq(s, 1, i - 1)
    OBVIOUS
  <2>4. PICK after : after = SubSeq(s, i + 1, Len(s))
    OBVIOUS
  <2>5. /\ before \in Seq(Nat) /\ Len(before) = i - 1
        /\ \A k \in 1..(i - 1) : before[k] = s[k]
    <3>1. 1 \in 1..(Len(s) + 1) /\ i - 1 \in 0..Len(s) /\ \A k \in 1..(i - 1) : k \in 1..Len(s)
      BY <1>1, <2>2
    <3> QED BY <1>1, <2>2, <2>3, <3>1, SubSeqProperties
  <2>6. /\ after \in Seq(Nat) /\ Len(after) = Len(s) - i
        /\ \A k \in 1..(Len(s) - i) : after[k] = s[i + k]
    BY <1>1, <2>2, <2>4, SubSeqProperties
  <2>7. PICK t : t = RemoveListener(s, r)
    OBVIOUS
  <2>8. t = before \o after
    BY <1>3, <2>1, <2>3, <2>4, <2>7 DEF RemoveListener, RemoveAt
  <2>8a. \A j \in 1..(Len(before) + Len(after)) :
           t[j] = IF j <= Len(before) THEN before[j] ELSE after[j - Len(before)]
    BY <2>5, <2>6, <2>8, ConcatProperties
  <2>9. Len(t) = Len(s) - 1
    BY <1>1, <2>2, <2>5, <2>6, <2>8
  <2>10. CASE l < i
    <3>1. /\ l \in 1..Len(t) /\ l <= Len(before)
          /\ l \in 1..(Len(before) + Len(after))
      <4>1. l \in Nat /\ i \in Nat /\ Len(s) \in Nat /\ 1 <= l /\ l <= i - 1 /\ i <= Len(s)
        BY <1>1, <2>2, <2>10
      <4>2. Len(before) = i - 1 /\ Len(after) = Len(s) - i
        BY <2>5, <2>6
      <4> QED BY <2>9, <4>1, <4>2
    <3>2. t[l] = before[l]
      BY <2>8a, <3>1
    <3> QED BY <1>1, <2>2, <2>5, <2>7, <2>10, <3>1, <3>2
  <2>11. CASE ~(l < i)
    <3>1. l # i
      BY <2>2
    <3>2. l - 1 \in 1..Len(t) /\ l - i \in 1..(Len(s) - i)
      BY <1>1, <2>2, <2>9, <2>11, <3>1
    <3>3. t[l - 1] = after[l - i]
      <4>1. /\ l - 1 \in 1..(Len(before) + Len(after)) /\ ~(l - 1 <= Len(before))
            /\ (l - 1) - Len(before) = l - i
        BY <1>1, <2>2, <2>5, <2>6, <3>2
      <4>2. t[l - 1] = after[(l - 1) - Len(before)]
        BY <2>8a, <4>1
      <4> QED BY <4>1, <4>2
    <3>4. after[l - i] = s[l]
      <4>1. i + (l - i) = l
        BY <1>1, <2>2
      <4>2. after[l - i] = s[i + (l - i)]
        BY <2>6, <3>2
      <4> QED BY <4>1, <4>2
    <3> QED BY <2>7, <3>2, <3>3, <3>4
  <2> QED BY <2>10, <2>11
<1> QED BY <1>2, <1>3

\* The timer of a restart runs out: it gives up the listener, and fails if it
\* still waits.
LEMMA RestartTimeoutWaits ==
  ASSUME IInv, WaitsInv, RestartTimeout
  PROVE  WaitsInv'
<1>1. /\ Good(child) /\ Waits(child, 0) /\ child \in Child /\ child.microtasks = <<>>
      /\ child.restarts \in Seq(Restart) /\ child.initListeners \in Seq(Nat)
  BY DEF IInv, WaitsInv, Good, Child, RestartTimeout, Task
<1>2. PICK r \in 1..Len(child.restarts) :
        LET c == [child EXCEPT
                    !.restarts[r].timer = FALSE,
                    !.initListeners = RemoveListener(@, r)]
        IN child' = IF child.restarts[r].state = "waiting" THEN FailRestart(c, r) ELSE c
  BY DEF RestartTimeout
<1>3. child.restarts[r] \in Restart
  BY <1>1, ElementOfSeq
<1>4. PICK x : x = [child.restarts[r] EXCEPT !.timer = FALSE]
  OBVIOUS
<1>5. x \in Restart /\ x.state = child.restarts[r].state /\ x.auto = child.restarts[r].auto
  BY <1>3, <1>4 DEF Restart
<1>6. PICK rs : rs = [child.restarts EXCEPT ![r] = x]
  OBVIOUS
<1>7. /\ rs \in Seq(Restart) /\ Len(rs) = Len(child.restarts)
      /\ \A q \in 1..Len(child.restarts) : rs[q] = IF q = r THEN x ELSE child.restarts[q]
  BY <1>1, <1>5, <1>6, ExceptSeq
<1>8. PICK ls : ls = RemoveListener(child.initListeners, r)
  OBVIOUS
<1>9. ls \in Seq(Nat)
  BY <1>1, <1>8, RemoveListenerTyped
<1>10. PICK c : c = [child EXCEPT !.restarts = rs, !.initListeners = ls]
  OBVIOUS
<1>11. child' = IF child.restarts[r].state = "waiting" THEN FailRestart(c, r) ELSE c
  BY <1>1, <1>2, <1>4, <1>6, <1>8, <1>10 DEF Child
<1>12. /\ c \in Child /\ c.restarts = rs /\ c.initListeners = ls
       /\ c.kills = child.kills /\ c.microtasks = child.microtasks
       /\ c.isClosing = child.isClosing /\ c.processes = child.processes
       /\ c.alive = child.alive /\ c.pendingInit = child.pendingInit
       /\ c.instances = child.instances
       /\ c.initialized = child.initialized /\ c.initGen = child.initGen
  BY <1>1, <1>7, <1>9, <1>10 DEF Child
<1>13. Good(c)
  BY <1>1, <1>7, <1>12 DEF Good, RefsInv, RefersTo, ProcessInv, KillsInv, UseInv, Current, ProcessState
<1>14. Keeps(child, c)
  <2>1. \A q : Resumed(child, q) => Resumed(c, q)
    BY <1>12, SameResumed
  <2> QED BY <1>5, <1>7, <1>12, <2>1 DEF Keeps
<1>15. ASSUME NEW q \in 1..Len(child.restarts), q # r PROVE Listens(c, q)
  <2>1. Listens(child, q) /\ c.restarts[q] = child.restarts[q]
    BY <1>1, <1>7, <1>12, <1>15 DEF Waits, ListenInv
  <2>2. \A l \in 1..Len(child.initListeners) : child.initListeners[l] = q =>
          \E k \in 1..Len(ls) : ls[k] = q
    BY <1>1, <1>8, <1>15, RemoveListenerOthers
  <2> QED BY <1>12, <2>1, <2>2 DEF Listens
<1>16. MicrotasksInv(c) /\ ResumeInv(c, 0) /\ OneAutoInv(c)
  BY <1>1, <1>12, <1>14 DEF Waits, MicrotasksInv, ResumeInv, OneAutoInv, Keeps
<1>17. CASE child.restarts[r].state = "waiting"
  <2>1. Waits(c, r)
    BY <1>7, <1>12, <1>15, <1>16 DEF Waits, ListenInv, ResumeInv
  <2>2. Waits(FailRestart(c, r), 0)
    BY <1>1, <1>7, <1>12, <1>13, <2>1, FailRestartWaits
  <2> QED BY <1>11, <1>17, <2>2 DEF WaitsInv
<1>18. CASE child.restarts[r].state # "waiting"
  <2>1. Listens(c, r)
    BY <1>5, <1>7, <1>12, <1>18 DEF Listens
  <2>2. Waits(c, 0)
    BY <1>7, <1>12, <1>15, <1>16, <2>1 DEF Waits, ListenInv
  <2> QED BY <1>11, <1>18, <2>2 DEF WaitsInv
<1> QED BY <1>17, <1>18

\* An INIT callback is called.
LEMMA InitWaits ==
  ASSUME IInv, WaitsInv, InitOk \/ InitError
  PROVE  WaitsInv'
<1>1. /\ Good(child) /\ Waits(child, 0) /\ child \in Child /\ child.microtasks = <<>>
  BY DEF IInv, WaitsInv, Good, InitOk, InitError, Task
<1>2. ASSUME NEW m \in child.pendingInit, NEW c, c = [child EXCEPT !.pendingInit = @ \ {m}]
      PROVE  /\ Good(c) /\ Waits(c, 0) /\ c.microtasks = <<>>
             /\ c.restarts = child.restarts
             /\ m.inst \in Instances
             /\ m.by # 0 => m.by \in 1..Len(child.restarts)
  <2>1. /\ Good(c) /\ c.restarts = child.restarts /\ m.inst \in Instances
        /\ m.by # 0 => m.by \in 1..Len(child.restarts)
    BY <1>2, TakeInit
  <2>2. /\ c.initListeners = child.initListeners
        /\ c.kills = child.kills /\ c.microtasks = child.microtasks
        /\ c.isClosing = child.isClosing
    BY <1>1, <1>2 DEF Child
  <2> QED BY <1>1, <2>1, <2>2, FrameWaits
<1>3. CASE InitOk
  <2>1. PICK m \in child.pendingInit :
          LET c == [child EXCEPT !.pendingInit = @ \ {m}]
          IN child' = CASE m.inst \notin child.instances -> c
                        [] m.inst \in child.instances /\ m.by = 0 ->
                             NotifyInitialized([c EXCEPT !.created = @ \cup {m.inst}])
                        [] m.inst \in child.instances /\ m.by # 0 ->
                             NotifyInitialized([c EXCEPT !.restarts[m.by].awaiting = @ \ {m.inst}])
    BY <1>3 DEF InitOk
  <2>2. PICK c : c = [child EXCEPT !.pendingInit = @ \ {m}]
    OBVIOUS
  <2>3. /\ Good(c) /\ Waits(c, 0) /\ c.restarts = child.restarts
        /\ m.inst \in Instances
        /\ m.by # 0 => m.by \in 1..Len(c.restarts)
    BY <1>2, <2>2
  <2>4. PICK created : created = [c EXCEPT !.created = @ \cup {m.inst}]
    OBVIOUS
  <2>5. PICK resolved : resolved = [c EXCEPT !.restarts[m.by].awaiting = @ \ {m.inst}]
    OBVIOUS
  <2>6. \/ child' = c
        \/ child' = NotifyInitialized(created)
        \/ child' = NotifyInitialized(resolved) /\ m.by # 0
    BY <2>1, <2>2, <2>4, <2>5
  <2>7. Good(created) /\ Waits(created, 0)
    <3>1. /\ created \in Child /\ created.restarts = c.restarts
          /\ created.initListeners = c.initListeners
          /\ created.kills = c.kills /\ created.microtasks = c.microtasks
          /\ created.isClosing = c.isClosing /\ created.processes = c.processes
          /\ created.alive = c.alive /\ created.pendingInit = c.pendingInit
          /\ created.instances = c.instances
          /\ created.initialized = c.initialized /\ created.initGen = c.initGen
      BY <2>3, <2>4 DEF Good, Child
    <3> QED BY <2>3, <3>1, FrameGood, FrameWaits
  <2>8. ASSUME m.by # 0 PROVE Good(resolved) /\ Waits(resolved, 0)
    <3>1. c \in Child /\ c.restarts \in Seq(Restart) /\ m.by \in 1..Len(c.restarts)
      BY <2>3, <2>8 DEF Good, Child
    <3>2. c.restarts[m.by] \in Restart
      BY <3>1, ElementOfSeq
    <3>3. PICK x : x = [c.restarts[m.by] EXCEPT !.awaiting = @ \ {m.inst}]
      OBVIOUS
    <3>4. /\ x \in Restart /\ x.state = c.restarts[m.by].state /\ x.auto = c.restarts[m.by].auto
          /\ x.heard = c.restarts[m.by].heard /\ x.timer = c.restarts[m.by].timer
      BY <3>2, <3>3 DEF Restart
    <3>5. /\ [c.restarts EXCEPT ![m.by] = x] \in Seq(Restart)
          /\ Len([c.restarts EXCEPT ![m.by] = x]) = Len(c.restarts)
      BY <3>1, <3>4, SetRestart
    <3>6. resolved = [c EXCEPT !.restarts = [@ EXCEPT ![m.by] = x]]
      BY <2>5, <3>3
    <3>7. Waits(resolved, 0)
      BY <2>3, <3>1, <3>4, <3>6, SetRestartWaits
    <3>8. resolved = [c EXCEPT !.restarts = [c.restarts EXCEPT ![m.by] = x]]
      BY <3>6
    <3>9. Good(resolved)
      BY <2>3, <3>5, <3>8, RestartsGood
    <3> QED BY <3>7, <3>9
  <2>9. Waits(child', 0)
    BY <2>3, <2>6, <2>7, <2>8, NotifyInitializedWaits
  <2> QED BY <2>9 DEF WaitsInv
<1>4. CASE InitError
  <2>1. PICK m \in child.pendingInit :
          LET c == [child EXCEPT !.pendingInit = @ \ {m}]
              d == NotifyInitialized(c)
          IN child' = CASE m.inst \notin child.instances \/ m.by = 0 -> c
                        [] m.inst \in child.instances /\ m.by # 0 ->
                             IF child.restarts[m.by].state = "waiting" THEN FailRestart(d, m.by)
                             ELSE d
    BY <1>4 DEF InitError
  <2>2. PICK c : c = [child EXCEPT !.pendingInit = @ \ {m}]
    OBVIOUS
  <2>3. PICK d : d = NotifyInitialized(c)
    OBVIOUS
  <2>4. /\ Good(c) /\ Waits(c, 0) /\ c.microtasks = <<>> /\ c.restarts = child.restarts
        /\ m.by # 0 => m.by \in 1..Len(child.restarts)
    BY <1>2, <2>2
  <2>5. \/ child' = c \/ child' = d \/ (child' = FailRestart(d, m.by) /\ m.by # 0)
    BY <2>1, <2>2, <2>3
  <2>6. Notified(d, c) /\ Good(d) /\ Waits(d, 0)
    BY <2>3, <2>4, NotifyInitializedNotified, NotifyInitializedGood, NotifyInitializedWaits
  <2>7. d.microtasks = <<>> /\ Len(d.restarts) = Len(child.restarts)
    BY <2>4, <2>6 DEF Notified
  <2>8. Waits(d, m.by)
    BY <2>6 DEF Waits, ResumeInv, ListenInv
  <2>9. ASSUME m.by # 0
        PROVE  Waits(FailRestart(d, m.by), 0)
    <3>1. m.by \in 1..Len(d.restarts)
      BY <2>4, <2>7, <2>9
    <3> QED BY <2>6, <2>7, <2>8, <3>1, FailRestartWaits
  <2>10. Waits(child', 0)
    BY <2>4, <2>5, <2>6, <2>9
  <2> QED BY <2>10 DEF WaitsInv
<1> QED BY <1>3, <1>4

\* The program attaches and destroys instances, and restarts them.
LEMMA ProgramWaits ==
  ASSUME IInv, WaitsInv,
         Attach \/ Destroy \/ DestroyAll \/ Detached \/ \E force \in BOOLEAN : UserRestart(force)
  PROVE  WaitsInv'
<1>1. /\ Good(child) /\ Waits(child, 0) /\ child \in Child /\ child.microtasks = <<>>
  BY DEF IInv, WaitsInv, Good, Attach, Destroy, DestroyAll, Detached, UserRestart, Task
<1>2. ASSUME child'.restarts = child.restarts, child'.initListeners = child.initListeners,
             child'.kills = child.kills, child'.microtasks = child.microtasks,
             child'.isClosing = child.isClosing
      PROVE  WaitsInv'
  <2>1. Waits(child', 0)
    BY <1>1, <1>2, FrameWaits
  <2> QED BY <2>1 DEF WaitsInv
<1>3. child' = KillChild(child, "destroy", 0, TRUE) => WaitsInv'
  BY <1>1, KillChildWaits DEF WaitsInv, Goals
<1>4. CASE Attach
  <2>1. /\ child'.restarts = child.restarts /\ child'.initListeners = child.initListeners
        /\ child'.kills = child.kills /\ child'.microtasks = child.microtasks
        /\ child'.isClosing = child.isClosing
    BY <1>1, <1>4 DEF Attach, SendCreateInit, Child
  <2> QED BY <1>2, <2>1
<1>5. CASE DestroyAll
  BY <1>3, <1>5 DEF DestroyAll
<1>6. CASE Destroy
  <2>1. PICK i \in child.instances :
          child' = IF Cardinality(child.instances) = 1 THEN KillChild(child, "destroy", 0, TRUE)
                   ELSE IF child.alive /\ ~child.isClosing /\ child.initialized[i]
                   THEN [child EXCEPT !.detaching = @ \cup {i}]
                   ELSE [child EXCEPT !.instances = @ \ {i}]
    BY <1>6 DEF Destroy
  <2>2. \/ child' = KillChild(child, "destroy", 0, TRUE)
        \/ child' = [child EXCEPT !.detaching = @ \cup {i}]
        \/ child' = [child EXCEPT !.instances = @ \ {i}]
    BY <2>1
  <2>3. CASE \/ child' = [child EXCEPT !.detaching = @ \cup {i}]
             \/ child' = [child EXCEPT !.instances = @ \ {i}]
    <3>1. /\ child'.restarts = child.restarts /\ child'.initListeners = child.initListeners
          /\ child'.kills = child.kills /\ child'.microtasks = child.microtasks
          /\ child'.isClosing = child.isClosing
      BY <1>1, <2>3 DEF Child
    <3> QED BY <1>2, <3>1
  <2> QED BY <1>3, <2>2, <2>3
<1>7. CASE Detached
  <2>1. /\ child'.restarts = child.restarts /\ child'.initListeners = child.initListeners
        /\ child'.kills = child.kills /\ child'.microtasks = child.microtasks
        /\ child'.isClosing = child.isClosing
    BY <1>1, <1>7 DEF Detached, Child
  <2> QED BY <1>2, <2>1
<1>8. CASE \E force \in BOOLEAN : UserRestart(force)
  <2>1. PICK force \in BOOLEAN, i \in child.instances :
          child' = RestartChild(child, {i}, FALSE, force)
    BY <1>8 DEF UserRestart
  <2>2. {i} \in SUBSET Instances
    BY <1>1 DEF Child
  <2> QED BY <1>1, <2>1, <2>2, RestartChildWaits DEF WaitsInv
<1> QED BY <1>4, <1>5, <1>6, <1>7, <1>8

\* At first nothing is restarted or killed.
LEMMA InitNothingWaits ==
  ASSUME Init
  PROVE  WaitsInv
<1>1. PICK i \in Instances : child = SendCreateInit(NewChild, i)
  BY DEF Init
<1>2. child.restarts = <<>> /\ child.microtasks = <<>>
  BY <1>1 DEF SendCreateInit, NewChild
<1>3. Len(child.restarts) = 0
  BY <1>2
<1> QED BY <1>2, <1>3 DEF WaitsInv, Waits, ResumeInv, ListenInv, MicrotasksInv, OneAutoInv

\* Every step keeps what the invariant says of waiting.
LEMMA NextWaits ==
  ASSUME IInv, WaitsInv, [Next]_vars
  PROVE  WaitsInv'
<1>1. CASE UNCHANGED vars
  BY <1>1 DEF WaitsInv, vars
<1>2. CASE Next
  BY <1>2, RunMicrotaskWaits, CloseWaits, KillTimeoutWaits, RetryWaits, RestartTimeoutWaits,
     InitWaits, ProgramWaits DEF Next
<1> QED BY <1>1, <1>2

\* Every reachable state satisfies the invariant about waiting.
THEOREM Waiting == Spec => []WaitsInv
<1>1. Init => WaitsInv BY InitNothingWaits
<1>2. IInv /\ WaitsInv /\ [Next]_vars => WaitsInv' BY NextWaits
<1> QED BY <1>1, <1>2, Invariance, PTL DEF Spec

\* A restart that waits for its kill still has the kill, pending or settled: the
\* promise of restart() does not depend on a lost continuation, whichever kills,
\* timeouts and closes overlap.
THEOREM KillsAreResumed == Spec => []KillingRestartIsResumed
<1>1. WaitsInv => KillingRestartIsResumed
  <2> SUFFICES ASSUME WaitsInv, NEW r \in 1..Len(child.restarts),
                      child.restarts[r].state = "killing"
               PROVE  \E s \in {child.kills, child.microtasks} : \E k \in 1..Len(s) :
                        s[k].goal = "restart" /\ s[k].restart = r /\ ~s[k].timedOut
    BY DEF KillingRestartIsResumed
  <2>1. r # 0
    OBVIOUS
  <2>2. Resumed(child, r)
    BY <2>1 DEF WaitsInv, Waits, ResumeInv
  <2> QED BY <2>2 DEF Resumed, Live
<1> QED BY <1>1, Waiting, PTL

\* The continuation of a restart's kill never finds the child closing again.
THEOREM ResumedRestartsSend == Spec => []ResumedRestartCanSend
<1>1. WaitsInv => ResumedRestartCanSend
  <2>1. ASSUME NEW k \in 1..Len(child.microtasks) PROVE child.microtasks # <<>>
    <3>1. child.microtasks = <<>> => Len(child.microtasks) = 0
      OBVIOUS
    <3> QED BY <2>1, <3>1
  <2> QED BY <2>1 DEF WaitsInv, Waits, MicrotasksInv, ResumedRestartCanSend
<1> QED BY <1>1, Waiting, PTL

\* A restart that waits for a listener call can still be called, and its timer
\* runs: although each call of the listeners skips every other of them.
THEOREM ListenersOrTimers == Spec => []ListenerOrTimer
<1>1. WaitsInv => ListenerOrTimer
  <2> SUFFICES ASSUME WaitsInv, NEW r \in 1..Len(child.restarts) PROVE Listens(child, r)
    BY DEF ListenerOrTimer, Listens
  <2>1. r # 0
    OBVIOUS
  <2> QED BY <2>1 DEF WaitsInv, Waits, ListenInv
<1> QED BY <1>1, Waiting, PTL

\* At most one automatic restart awaits its kill.
THEOREM NoSecondAutomaticKill == Spec => []OneAutomaticKill
<1>1. WaitsInv => OneAutomaticKill
  BY DEF WaitsInv, Waits, OneAutoInv, OneAutomaticKill
<1> QED BY <1>1, Waiting, PTL
=============================================================================
