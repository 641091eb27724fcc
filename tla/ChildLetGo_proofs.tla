------------------------- MODULE ChildLetGo_proofs --------------------------
(***************************************************************************)
(* Proofs about how the manager lets go of a child of ChildLifecycle: that *)
(* it gives up only after enough failures, and that a child it let go of   *)
(* while nothing was under way stays down.  Both need an account of the    *)
(* restarts that have failed, and of the kills that are still awaited.     *)
(***************************************************************************)
EXTENDS ChildRestarts_proofs, FiniteSetTheorems

\* Each live kill in s continues a restart that waits for it, no two of them the
\* same one, and none of them r.
Owned(s, rs, r) ==
  /\ \A j \in 1..Len(s) : Live(s[j]) =>
       s[j].restart \in 1..Len(rs) \ {r} /\ rs[s[j].restart].state = "killing"
  /\ \A j, k \in 1..Len(s) :
       (Live(s[j]) /\ Live(s[k]) /\ s[j].restart = s[k].restart) => j = k

Failures(c) == Cardinality(FailedAutoRestarts(c))

\* Enough automatic restarts have failed for the manager to give up.
Gave(c) == RetryCount > 0 /\ Failures(c) >= RetryCount

\* A kill that cleans up is that of a destroy, or of giving up.
CleanUpInv(c) ==
  \A k \in 1..Len(c.kills) : c.kills[k].cleanUp =>
    \/ c.kills[k].goal = "destroy"
    \/ c.kills[k].goal = "report" /\ Gave(c)

\* Such a kill has cleared the retry timer; only a retry whose own kill timed
\* out has set it again, and that kill is still there.
TimerInv(c) ==
  (c.retryTimeout /\ \E k \in 1..Len(c.kills) : c.kills[k].cleanUp) =>
    \E k \in 1..Len(c.kills) : c.kills[k].goal = "retry"

\* As in Waits, r is the restart that the manager is working at.
Ends(c, r) ==
  /\ Owned(c.kills, c.restarts, r)
  /\ Owned(c.microtasks, c.restarts, r)
  /\ c.failCount <= Failures(c)
  /\ CleanUpInv(c)
  /\ TimerInv(c)

EndsInv == Ends(child, 0)

-----------------------------------------------------------------------------
(***************************************************************************)
(* What a method may do to the restarts and to the hold on the child.      *)
(***************************************************************************)
\* Restarts that failed have failed, and those that wait for a kill, but for r,
\* still do.
Stays(c, d, r) ==
  /\ Len(c.restarts) <= Len(d.restarts)
  /\ \A q \in 1..Len(c.restarts) :
       /\ d.restarts[q].auto = c.restarts[q].auto
       /\ c.restarts[q].state = "failed" => d.restarts[q].state = "failed"
       /\ q # r /\ c.restarts[q].state = "killing" => d.restarts[q].state = "killing"

\* d sets no timer, and it lets go of the child only by giving up.
Firm(c, d) ==
  /\ Failures(c) <= Failures(d)
  /\ d.retryTimeout => c.retryTimeout
  /\ c.registered /\ ~d.registered => Gave(d) /\ ~d.retryTimeout

LEMMA FailuresFinite ==
  ASSUME NEW c \in Child
  PROVE  /\ IsFiniteSet(FailedAutoRestarts(c)) /\ Failures(c) \in Nat
         /\ Len(c.restarts) \in Nat
<1>1. Len(c.restarts) \in Nat
  BY LenProperties DEF Child
<1>2. FailedAutoRestarts(c) \in SUBSET (1..Len(c.restarts))
  BY DEF FailedAutoRestarts
<1>3. IsFiniteSet(1..Len(c.restarts))
  BY <1>1, FS_Interval
<1>4. IsFiniteSet(FailedAutoRestarts(c))
  BY <1>2, <1>3, FS_Subset
<1> QED BY <1>1, <1>4, FS_CardinalityType DEF Failures

\* Failures are not taken back.
LEMMA StaysFailures ==
  ASSUME NEW c \in Child, NEW d \in Child, NEW r, Stays(c, d, r)
  PROVE  Failures(c) <= Failures(d) /\ (Gave(c) => Gave(d))
<1>1. FailedAutoRestarts(c) \in SUBSET FailedAutoRestarts(d)
  <2> SUFFICES ASSUME NEW q \in FailedAutoRestarts(c) PROVE q \in FailedAutoRestarts(d)
    OBVIOUS
  <2>1. q \in 1..Len(c.restarts) /\ q \in 1..Len(d.restarts)
    BY FailuresFinite DEF FailedAutoRestarts, Stays
  <2> QED BY <2>1 DEF FailedAutoRestarts, Stays
<1>2. Failures(c) <= Failures(d)
  BY <1>1, FailuresFinite, FS_Subset DEF Failures
<1> QED BY <1>2, FailuresFinite, ConfigAssumption DEF Gave

LEMMA StaysOwned ==
  ASSUME NEW c \in Child, NEW d \in Child, NEW r, Stays(c, d, r), NEW s, Owned(s, c.restarts, r)
  PROVE  Owned(s, d.restarts, r)
<1>1. \A q \in 1..Len(c.restarts) : q \in 1..Len(d.restarts)
  BY FailuresFinite DEF Stays
<1> QED BY <1>1 DEF Owned, Stays

\* A method that sets no timer and adds no kill and no failure.
LEMMA StaysEnds ==
  ASSUME NEW c \in Child, NEW d \in Child, NEW r, Ends(c, r), Stays(c, d, r),
         d.kills = c.kills, d.microtasks = c.microtasks, d.failCount <= c.failCount,
         d.retryTimeout => c.retryTimeout, d.registered = c.registered
  PROVE  Ends(d, r) /\ Firm(c, d)
<1>1. Failures(c) <= Failures(d) /\ (Gave(c) => Gave(d))
  BY StaysFailures
<1>2. Owned(d.kills, d.restarts, r) /\ Owned(d.microtasks, d.restarts, r)
  BY StaysOwned DEF Ends
<1>3. d.failCount <= Failures(d)
  <2>1. c.failCount \in Nat /\ d.failCount \in Nat /\ Failures(c) \in Nat /\ Failures(d) \in Nat
    BY FailuresFinite DEF Child
  <2> QED BY <1>1, <2>1 DEF Ends
<1>4. CleanUpInv(d) /\ TimerInv(d)
  BY <1>1 DEF Ends, CleanUpInv, TimerInv
<1> QED BY <1>1, <1>2, <1>3, <1>4 DEF Ends, Firm

\* The same restarts.
LEMMA SameStays ==
  ASSUME NEW c \in Child, NEW d \in Child, NEW r, d.restarts = c.restarts
  PROVE  Stays(c, d, r)
<1>1. Len(c.restarts) \in Nat
  BY FailuresFinite
<1> QED BY <1>1 DEF Stays

\* One method after the other.
LEMMA FirmTransitive ==
  ASSUME NEW c \in Child, NEW d \in Child, NEW e \in Child, Firm(c, d), Firm(d, e)
  PROVE  Firm(c, e)
<1>1. Failures(c) \in Nat /\ Failures(d) \in Nat /\ Failures(e) \in Nat /\ RetryCount \in Nat
  BY FailuresFinite, ConfigAssumption
<1>2. Gave(d) => Gave(e)
  BY <1>1 DEF Firm, Gave
<1>3. Failures(c) <= Failures(e)
  BY <1>1 DEF Firm
<1> QED BY <1>2, <1>3 DEF Firm

\* A restart that does not wait for a kill may be worked at.
LEMMA NotKillingEnds ==
  ASSUME NEW c, Ends(c, 0), NEW r, c.restarts[r].state # "killing"
  PROVE  Ends(c, r)
<1>1. Owned(c.kills, c.restarts, r) /\ Owned(c.microtasks, c.restarts, r)
  BY DEF Ends, Owned
<1> QED BY <1>1 DEF Ends

\* No restart is worked at any longer.
LEMMA EndsAfter ==
  ASSUME NEW c, NEW r, Ends(c, r)
  PROVE  Ends(c, 0)
<1>1. \A s : Owned(s, c.restarts, r) => Owned(s, c.restarts, 0)
  BY DEF Owned
<1> QED BY <1>1 DEF Ends

-----------------------------------------------------------------------------
(***************************************************************************)
(* The methods.                                                            *)
(***************************************************************************)

\* A list that gets the kill of r.
LEMMA AppendOwned ==
  ASSUME NEW s \in Seq(Kill), NEW k \in Kill, NEW rs, NEW r, Owned(s, rs, r),
         Live(k) => k.restart = r /\ r \in 1..Len(rs) /\ rs[r].state = "killing"
  PROVE  Owned(Append(s, k), rs, 0)
<1>1. PICK t : t = Append(s, k)
  OBVIOUS
<1>2. /\ Len(s) \in Nat /\ Len(t) = Len(s) + 1 /\ t[Len(s) + 1] = k
      /\ \A j \in 1..Len(s) : t[j] = s[j]
  BY <1>1, AppendProperties, LenProperties
<1>3. ASSUME NEW j \in 1..Len(t), Live(t[j])
      PROVE  /\ t[j].restart \in 1..Len(rs) \ {0} /\ rs[t[j].restart].state = "killing"
             /\ j \in 1..Len(s) => t[j] = s[j] /\ s[j].restart # r
             /\ j \notin 1..Len(s) => j = Len(s) + 1 /\ t[j].restart = r
  BY <1>2, <1>3 DEF Owned
<1>4. ASSUME NEW j \in 1..Len(t), NEW i \in 1..Len(t), Live(t[j]), Live(t[i]),
             t[j].restart = t[i].restart
      PROVE  j = i
  <2>1. j \in 1..Len(s) <=> i \in 1..Len(s)
    BY <1>3, <1>4
  <2>2. CASE j \in 1..Len(s)
    BY <1>3, <1>4, <2>1, <2>2 DEF Owned
  <2>3. CASE j \notin 1..Len(s)
    BY <1>3, <1>4, <2>1, <2>3
  <2> QED BY <2>2, <2>3
<1>5. Owned(t, rs, 0)
  BY <1>3, <1>4 DEF Owned
<1> QED BY <1>1, <1>5

\* killChild for r, or for a retry, a report or a destroy.
LEMMA KillChildEnds ==
  ASSUME NEW c \in Child, NEW r, Ends(c, r),
         NEW goal \in Goals, NEW n \in Nat, NEW cleanUp \in BOOLEAN,
         goal = "restart" => n = r /\ r \in 1..Len(c.restarts) /\ c.restarts[r].state = "killing",
         cleanUp => goal = "destroy" \/ (goal = "report" /\ Gave(c))
  PROVE  LET d == KillChild(c, goal, n, cleanUp)
         IN Ends(d, 0) /\ (goal # "destroy" => Firm(c, d)) /\ (cleanUp => ~d.retryTimeout)
<1>1. PICK k : k = NewKill(goal, n, cleanUp)
  OBVIOUS
<1>2. k \in Kill /\ k.goal = goal /\ k.restart = n /\ k.cleanUp = cleanUp
  BY <1>1 DEF NewKill, Kill
<1>3. PICK d : d = KillChild(c, goal, n, cleanUp)
  OBVIOUS
<1>4. Killed(d, c, k)
  BY <1>1, <1>3, KillChildKilled
<1>5. /\ c.kills \in Seq(Kill) /\ c.microtasks \in Seq(Kill) /\ d.restarts = c.restarts
      /\ d.failCount = c.failCount
      /\ Failures(d) = Failures(c) /\ (Gave(d) <=> Gave(c))
      /\ Failures(c) \in Nat
  BY <1>4, FailuresFinite DEF Child, Killed, Failures, FailedAutoRestarts, Gave
<1>6. Ends(c, 0)
  BY EndsAfter
<1>7. Owned(d.kills, d.restarts, 0) /\ Owned(d.microtasks, d.restarts, 0)
  <2>1. Live(k) => k.restart = r /\ r \in 1..Len(c.restarts) /\ c.restarts[r].state = "killing"
    BY <1>2 DEF Live
  <2>2. Owned(Append(c.kills, k), c.restarts, 0) /\ Owned(Append(c.microtasks, k), c.restarts, 0)
    BY <1>2, <1>5, <2>1, AppendOwned DEF Ends
  <2>3. CASE c.alive
    BY <1>4, <1>5, <1>6, <2>2, <2>3 DEF Killed, Ends
  <2>4. CASE ~c.alive
    BY <1>4, <1>5, <1>6, <2>2, <2>4 DEF Killed, Ends
  <2> QED BY <2>3, <2>4
<1>8. PICK t : t = Append(c.kills, k)
  OBVIOUS
<1>9. /\ Len(c.kills) \in Nat /\ Len(t) = Len(c.kills) + 1 /\ t[Len(c.kills) + 1] = k
      /\ \A j \in 1..Len(c.kills) : t[j] = c.kills[j]
  BY <1>2, <1>5, <1>8, AppendProperties, LenProperties
<1>10. d.kills = c.kills \/ d.kills = t
  BY <1>4, <1>8 DEF Killed
<1>11. CleanUpInv(d)
  <2>1. ASSUME NEW j \in 1..Len(t), t[j].cleanUp
        PROVE  t[j].goal = "destroy" \/ (t[j].goal = "report" /\ Gave(c))
    <3>1. CASE j \in 1..Len(c.kills)
      BY <1>9, <2>1, <3>1 DEF Ends, CleanUpInv
    <3>2. CASE j \notin 1..Len(c.kills)
      BY <1>2, <1>9, <2>1, <3>2
    <3> QED BY <3>1, <3>2
  <2>2. CASE d.kills = t
    BY <1>5, <2>1, <2>2 DEF CleanUpInv
  <2>3. CASE d.kills = c.kills
    BY <1>5, <2>3 DEF Ends, CleanUpInv
  <2> QED BY <1>10, <2>2, <2>3
<1>12. TimerInv(d)
  <2>1. d.retryTimeout = (c.retryTimeout /\ ~cleanUp)
    BY <1>2, <1>4 DEF Killed
  <2>2. CASE d.kills = c.kills
    BY <2>1, <2>2 DEF Ends, TimerInv
  <2>3. CASE d.kills = t
    <3> SUFFICES ASSUME c.retryTimeout, ~cleanUp, NEW j \in 1..Len(t), t[j].cleanUp
                 PROVE  \E i \in 1..Len(t) : t[i].goal = "retry"
      BY <2>1, <2>3 DEF TimerInv
    <3>1. j \in 1..Len(c.kills)
      BY <1>2, <1>9
    <3>2. PICK i \in 1..Len(c.kills) : c.kills[i].goal = "retry"
      BY <1>9, <3>1 DEF Ends, TimerInv
    <3>3. i \in 1..Len(t)
      BY <1>9
    <3> QED BY <1>9, <3>2, <3>3
  <2> QED BY <1>10, <2>2, <2>3
<1>13. Ends(d, 0)
  BY <1>5, <1>7, <1>11, <1>12 DEF Ends
<1>14. cleanUp => ~d.retryTimeout
  BY <1>2, <1>4 DEF Killed
<1>15. goal # "destroy" => Firm(c, d)
  <2>1. d.retryTimeout => c.retryTimeout
    BY <1>4 DEF Killed
  <2>2. c.registered /\ ~d.registered => cleanUp
    BY <1>2, <1>4 DEF Killed
  <2> QED BY <1>5, <1>14, <2>1, <2>2 DEF Firm
<1> QED BY <1>3, <1>13, <1>14, <1>15

\* A failure is counted.
LEMMA FailRestartEnds ==
  ASSUME NEW c, Good(c), NEW r \in 1..Len(c.restarts), Ends(c, r),
         c.restarts[r].state # "failed"
  PROVE  Ends(FailRestart(c, r), 0) /\ Firm(c, FailRestart(c, r))
<1>1. /\ c \in Child /\ c.restarts \in Seq(Restart) /\ c.failCount \in Nat
      /\ Len(c.restarts) \in Nat
  BY LenProperties DEF Good, Child
<1>2. c.restarts[r] \in Restart
  BY <1>1, ElementOfSeq
<1>3. PICK x : x = [c.restarts[r] EXCEPT !.state = "failed"]
  OBVIOUS
<1>4. x \in Restart /\ x.state = "failed" /\ x.auto = c.restarts[r].auto
  BY <1>2, <1>3 DEF Restart, RestartStates
<1>5. PICK rs : rs = [c.restarts EXCEPT ![r] = x]
  OBVIOUS
<1>6. /\ rs \in Seq(Restart) /\ Len(rs) = Len(c.restarts)
      /\ \A q \in 1..Len(c.restarts) : rs[q] = IF q = r THEN x ELSE c.restarts[q]
  BY <1>1, <1>4, <1>5, ExceptSeq
<1>7. PICK d : d = [c EXCEPT !.restarts = rs]
  OBVIOUS
<1>8. /\ d \in Child /\ d.restarts = rs /\ d.kills = c.kills /\ d.microtasks = c.microtasks
      /\ d.failCount = c.failCount /\ d.retryTimeout = c.retryTimeout
      /\ d.registered = c.registered
  BY <1>1, <1>6, <1>7 DEF Child
<1>9. Stays(c, d, r)
  BY <1>1, <1>4, <1>6, <1>8 DEF Stays
<1>10. Ends(d, r) /\ Firm(c, d)
  BY <1>1, <1>8, <1>9, StaysEnds
<1>11. PICK e : e = [d EXCEPT !.failCount = @ + 1]
  OBVIOUS
<1>12. /\ e \in Child /\ e.restarts = d.restarts /\ e.kills = d.kills
       /\ e.microtasks = d.microtasks /\ e.failCount = c.failCount + 1
       /\ e.retryTimeout = d.retryTimeout /\ e.registered = d.registered
  <2>1. PICK n \in Nat : n = c.failCount + 1
    BY <1>1
  <2>2. e = [d EXCEPT !.failCount = n]
    BY <1>8, <1>11, <2>1
  <2> QED BY <1>8, <2>1, <2>2 DEF Child
<1>13. /\ Failures(e) = Failures(d) /\ (Gave(e) <=> Gave(d)) /\ Failures(e) \in Nat
  BY <1>12, FailuresFinite DEF Failures, FailedAutoRestarts, Gave
<1>14. ASSUME c.restarts[r].auto PROVE e.failCount <= Failures(e)
  <2>1. FailedAutoRestarts(d) = FailedAutoRestarts(c) \cup {r} /\ r \notin FailedAutoRestarts(c)
    BY <1>1, <1>4, <1>6, <1>8, <1>14 DEF FailedAutoRestarts
  <2>2. Failures(d) = Failures(c) + 1
    BY <1>1, <2>1, FailuresFinite, FS_AddElement DEF Failures
  <2>3. Failures(c) \in Nat
    BY <1>1, FailuresFinite
  <2> QED BY <1>1, <1>12, <1>13, <2>2, <2>3 DEF Ends
<1>15. ASSUME c.restarts[r].auto PROVE Ends(e, r) /\ Firm(c, e)
  <2>1. Ends(e, r)
    BY <1>10, <1>12, <1>13, <1>14, <1>15 DEF Ends, CleanUpInv, TimerInv
  <2> QED BY <1>10, <1>12, <1>13, <2>1 DEF Firm
<1>16. ASSUME c.restarts[r].auto
       PROVE  LET k == KillChild(e, "retry", 0, FALSE) IN Ends(k, 0) /\ Firm(e, k)
  BY <1>12, <1>15, <1>16, KillChildEnds DEF Goals
<1>17. ASSUME c.restarts[r].auto, ~CanRetryRestart(e)
       PROVE  LET k == KillChild(e, "report", 0, TRUE) IN Ends(k, 0) /\ Firm(e, k)
  <2>1. Gave(e)
    <3>1. RetryCount > 0 /\ e.failCount >= RetryCount
      BY <1>1, <1>12, <1>17, ConfigAssumption DEF CanRetryRestart
    <3> QED BY <1>1, <1>12, <1>13, <1>14, <1>17, <3>1, ConfigAssumption DEF Gave
  <2> QED BY <1>12, <1>15, <1>17, <2>1, KillChildEnds DEF Goals
<1>18. FailRestart(c, r) = IF ~c.restarts[r].auto THEN d
                           ELSE IF CanRetryRestart(e) THEN KillChild(e, "retry", 0, FALSE)
                           ELSE KillChild(e, "report", 0, TRUE)
  BY <1>3, <1>5, <1>7, <1>11, SMT DEF FailRestart
<1>19. FailRestart(c, r) \in Child
  BY FailRestartGood DEF Good
<1>20. CASE ~c.restarts[r].auto
  BY <1>10, <1>18, <1>20, EndsAfter
<1>21. CASE c.restarts[r].auto
  BY <1>1, <1>12, <1>15, <1>16, <1>17, <1>18, <1>19, <1>21, FirmTransitive
<1> QED BY <1>20, <1>21

\* A call of the listeners sets no timer, and lets nothing fail.
LEMMA NotifyInitializedEnds ==
  ASSUME NEW c, Good(c), NEW r, Ends(c, r)
  PROVE  Ends(NotifyInitialized(c), r) /\ Firm(c, NotifyInitialized(c))
<1>1. PICK d : d = NotifyInitialized(c)
  OBVIOUS
<1>2. c \in Child /\ Notified(d, c)
  BY <1>1, NotifyInitializedNotified DEF Good
<1>3. d \in Child /\ Len(c.restarts) \in Nat
  BY <1>2, FailuresFinite DEF Notified
<1>4. Stays(c, d, r)
  BY <1>2, <1>3 DEF Notified, Stays
<1>5. Ends(d, r) /\ Firm(c, d)
  BY <1>2, <1>3, <1>4, StaysEnds DEF Notified
<1> QED BY <1>1, <1>5

\* A restart that has been changed, but not from or to a failure or a wait.
LEMMA SetRestartEnds ==
  ASSUME NEW c \in Child, NEW s, Ends(c, s), NEW r \in 1..Len(c.restarts), NEW x \in Restart,
         x.auto = c.restarts[r].auto,
         x.state = c.restarts[r].state \/ (s = r /\ c.restarts[r].state # "failed"),
         NEW d \in Child, d.restarts = [c.restarts EXCEPT ![r] = x],
         d.kills = c.kills, d.microtasks = c.microtasks, d.failCount = c.failCount,
         d.retryTimeout = c.retryTimeout, d.registered = c.registered
  PROVE  Ends(d, s) /\ Firm(c, d)
<1>1. c.restarts \in Seq(Restart) /\ Len(c.restarts) \in Nat /\ c.failCount \in Nat
  BY LenProperties DEF Child
<1>2. /\ Len(d.restarts) = Len(c.restarts)
      /\ \A q \in 1..Len(c.restarts) : d.restarts[q] = IF q = r THEN x ELSE c.restarts[q]
  BY <1>1, ExceptSeq
<1>3. Stays(c, d, s)
  BY <1>1, <1>2 DEF Stays
<1> QED BY <1>1, <1>3, StaysEnds

\* The restart leaves the kill behind.
LEMMA AwaitInitEnds ==
  ASSUME NEW c, Good(c), NEW r \in 1..Len(c.restarts), Ends(c, r),
         c.restarts[r].state # "failed"
  PROVE  LET d == AwaitInit(c, r)
         IN Ends(d, r) /\ Firm(c, d) /\ d.restarts[r].state = "waiting"
<1>1. c \in Child /\ c.restarts \in Seq(Restart) /\ r \in Nat
  BY LenProperties DEF Good, Child
<1>2. c.restarts[r] \in Restart
  BY <1>1, ElementOfSeq
<1>3. PICK x : x = [c.restarts[r] EXCEPT !.state = "waiting", !.timer = HasRestartTimeout]
  OBVIOUS
<1>4. x \in Restart /\ x.state = "waiting" /\ x.auto = c.restarts[r].auto
  BY <1>2, <1>3, ConfigAssumption DEF Restart, RestartStates
<1>5. PICK ls : ls = Append(c.initListeners, r)
  OBVIOUS
<1>6. PICK d : d = AwaitInit(c, r)
  OBVIOUS
<1>7. PICK rs : rs = [c.restarts EXCEPT ![r] = x]
  OBVIOUS
<1>8. d = [c EXCEPT !.restarts = rs, !.initListeners = ls]
  BY <1>1, <1>3, <1>5, <1>6, <1>7 DEF AwaitInit, Child
<1>9. d \in Child
  BY <1>6, AwaitInitGood DEF Good
<1>10. /\ d.restarts = rs /\ d.kills = c.kills /\ d.microtasks = c.microtasks
       /\ d.failCount = c.failCount /\ d.retryTimeout = c.retryTimeout
       /\ d.registered = c.registered
  BY <1>1, <1>8 DEF Child
<1>11. Ends(d, r) /\ Firm(c, d)
  BY <1>1, <1>4, <1>7, <1>9, <1>10, SetRestartEnds
<1>12. d.restarts[r].state = "waiting"
  BY <1>1, <1>4, <1>7, <1>10, ExceptSeq
<1> QED BY <1>6, <1>11, <1>12

\* The INITs are sent, or refused while the child is closing.
LEMMA SendInitsEnds ==
  ASSUME NEW c, Good(c), NEW r \in 1..Len(c.restarts), Ends(c, r),
         c.restarts[r].state = "waiting"
  PROVE  Ends(SendInits(c, r), 0) /\ Firm(c, SendInits(c, r))
<1>1. /\ c \in Child /\ c.restarts \in Seq(Restart) /\ Current(c) \in Nat
      /\ c.initialized \in [Instances -> BOOLEAN]
  BY LenProperties DEF Good, Child, Current
<1>2. c.restarts[r] \in Restart
  BY <1>1, ElementOfSeq
<1>3. PICK targets : targets = c.restarts[r].targets
  OBVIOUS
<1>4. PICK x : x = [c.restarts[r] EXCEPT !.awaiting = targets, !.process = Current(c)]
  OBVIOUS
<1>5. /\ x \in Restart /\ x.state = "waiting" /\ x.auto = c.restarts[r].auto
  BY <1>1, <1>2, <1>3, <1>4 DEF Restart
<1>6. PICK rs : rs = [c.restarts EXCEPT ![r] = x]
  OBVIOUS
<1>7. rs \in Seq(Restart) /\ Len(rs) = Len(c.restarts) /\ rs[r] = x
  BY <1>1, <1>5, <1>6, ExceptSeq
<1>8. PICK init : init = [i \in Instances |-> c.initialized[i] \/ i \in targets]
  OBVIOUS
<1>9. init \in [Instances -> BOOLEAN]
  BY <1>1, <1>8
<1>10. PICK d : d = [c EXCEPT !.initialized = init, !.restarts = rs]
  OBVIOUS
<1>11. /\ d \in Child /\ d.restarts = rs /\ d.kills = c.kills /\ d.microtasks = c.microtasks
       /\ d.failCount = c.failCount /\ d.retryTimeout = c.retryTimeout
       /\ d.registered = c.registered /\ d.isClosing = c.isClosing /\ d.alive = c.alive
       /\ d.processes = c.processes /\ d.pendingInit = c.pendingInit
       /\ d.instances = c.instances /\ d.initGen = c.initGen
  BY <1>1, <1>7, <1>9, <1>10 DEF Child
<1>12. Ends(d, r) /\ Firm(c, d)
  BY <1>1, <1>5, <1>6, <1>11, SetRestartEnds
<1> DEFINE to == c.restarts[r].targets
           D == [c EXCEPT !.initialized = [i \in Instances |-> @[i] \/ i \in to],
                          !.restarts[r] = [@ EXCEPT !.awaiting = to, !.process = Current(c)]]
           E == [D EXCEPT
                   !.initGen = [i \in Instances |-> IF i \in to THEN Current(c) ELSE @[i]],
                   !.pendingInit = @ \cup [by : {r}, inst : to]]
<1>13. SendInits(c, r) = IF c.isClosing THEN FailRestart(NotifyInitialized(D), r) ELSE E
  BY DEF SendInits
<1>14. D = d
  BY <1>1, <1>3, <1>4, <1>6, <1>8, <1>10 DEF Child
<1> HIDE DEF D
<1>15. SendInits(c, r) \in Child
  BY SendInitsGood DEF Good
<1>16. CASE c.isClosing
  <2>1. SendInits(c, r) = FailRestart(NotifyInitialized(d), r)
    BY <1>13, <1>14, <1>16
  <2>2. Good(d)
    BY <1>7, <1>11, <1>16
       DEF Good, RefsInv, RefersTo, ProcessInv, KillsInv, UseInv, Current, ProcessState
  <2>3. PICK n : n = NotifyInitialized(d)
    OBVIOUS
  <2>4. Good(n) /\ Notified(n, d) /\ Ends(n, r) /\ Firm(d, n)
    BY <1>12, <2>2, <2>3, NotifyInitializedGood, NotifyInitializedNotified, NotifyInitializedEnds
  <2>5. r \in 1..Len(n.restarts) /\ n.restarts[r].state # "failed"
    BY <1>5, <1>7, <1>11, <2>4 DEF Notified
  <2>6. Ends(FailRestart(n, r), 0) /\ Firm(n, FailRestart(n, r))
    BY <2>4, <2>5, FailRestartEnds
  <2>7. n \in Child /\ FailRestart(n, r) \in Child
    BY <1>15, <2>1, <2>3, <2>4 DEF Good
  <2>8. Firm(c, n)
    BY <1>1, <1>11, <1>12, <2>4, <2>7, FirmTransitive
  <2>9. Firm(c, FailRestart(n, r))
    BY <1>1, <2>6, <2>7, <2>8, FirmTransitive
  <2> QED BY <2>1, <2>3, <2>6, <2>9
<1>17. CASE ~c.isClosing
  <2>1. PICK e : e = SendInits(c, r)
    OBVIOUS
  <2>2. e = E
    BY <1>13, <1>17, <2>1
  <2>3. /\ e.restarts = d.restarts /\ e.kills = d.kills /\ e.microtasks = d.microtasks
        /\ e.failCount = d.failCount /\ e.retryTimeout = d.retryTimeout
        /\ e.registered = d.registered
    BY <1>11, <1>14, <2>2 DEF Child
  <2>4. e \in Child
    BY <1>15, <2>1
  <2>5. Stays(d, e, r)
    BY <1>11, <2>3, <2>4, SameStays
  <2>6. d.failCount \in Nat
    BY <1>11 DEF Child
  <2>7. Ends(e, r) /\ Firm(d, e)
    BY <1>11, <1>12, <2>3, <2>4, <2>5, <2>6, StaysEnds
  <2>8. Firm(c, e)
    BY <1>1, <1>11, <1>12, <2>4, <2>7, FirmTransitive
  <2> QED BY <2>1, <2>7, <2>8, EndsAfter
<1> QED BY <1>16, <1>17

\* restartChild goes on after its kill, or without one.
LEMMA ContinueRestartEnds ==
  ASSUME NEW c, Good(c), NEW r \in 1..Len(c.restarts), Ends(c, r),
         c.restarts[r].state = "killing"
  PROVE  Ends(ContinueRestart(c, r), 0) /\ Firm(c, ContinueRestart(c, r))
<1>1. PICK d : d = ClearRestartTimeout(c)
  OBVIOUS
<1>2. /\ Good(d) /\ d \in Child /\ c \in Child /\ d.restarts = c.restarts
      /\ d.kills = c.kills /\ d.microtasks = c.microtasks /\ d.failCount = c.failCount
      /\ ~d.retryTimeout /\ d.registered = c.registered /\ d.alive = c.alive
      /\ c.failCount \in Nat
  BY <1>1, ClearRestartTimeoutGood DEF ClearRestartTimeout, Good, Child
<1>3. Ends(d, r) /\ Firm(c, d)
  BY <1>2, SameStays, StaysEnds
<1>4. PICK e : e = IF c.alive THEN d ELSE Fork(d)
  OBVIOUS
<1>5. /\ Good(e) /\ e \in Child /\ e.restarts = d.restarts
      /\ e.kills = d.kills /\ e.microtasks = d.microtasks /\ e.failCount = d.failCount
      /\ e.retryTimeout = d.retryTimeout /\ e.registered = d.registered
  <2>1. CASE c.alive
    BY <1>2, <1>4, <2>1
  <2>2. CASE ~c.alive
    <3>1. e = Fork(d) /\ Good(e) /\ e.restarts = d.restarts
      BY <1>2, <1>4, <2>2, ForkGood
    <3>2. /\ e.kills = d.kills /\ e.microtasks = d.microtasks /\ e.failCount = d.failCount
          /\ e.retryTimeout = d.retryTimeout /\ e.registered = d.registered
      BY <1>2, <3>1 DEF Fork, Child
    <3> QED BY <3>1, <3>2 DEF Good
  <2> QED BY <2>1, <2>2
<1>6. Ends(e, r) /\ Firm(d, e)
  BY <1>2, <1>3, <1>5, SameStays, StaysEnds
<1>7. PICK a : a = AwaitInit(e, r)
  OBVIOUS
<1>8. /\ Good(a) /\ r \in 1..Len(a.restarts)
      /\ Ends(a, r) /\ Firm(e, a) /\ a.restarts[r].state = "waiting"
  BY <1>2, <1>5, <1>6, <1>7, AwaitInitGood, AwaitInitEnds
<1>9. PICK s : s = SendInits(a, r)
  OBVIOUS
<1>10. Good(s) /\ Ends(s, 0) /\ Firm(a, s)
  BY <1>8, <1>9, SendInitsGood, SendInitsEnds
<1>11. a \in Child /\ s \in Child
  BY <1>8, <1>10 DEF Good
<1>12. Firm(c, e)
  BY <1>2, <1>3, <1>5, <1>6, FirmTransitive
<1>13. Firm(c, a)
  BY <1>2, <1>5, <1>8, <1>11, <1>12, FirmTransitive
<1>14. Firm(c, s)
  BY <1>2, <1>10, <1>11, <1>13, FirmTransitive
<1>15. ContinueRestart(c, r) = s
  BY <1>1, <1>4, <1>7, <1>9 DEF ContinueRestart
<1> QED BY <1>10, <1>14, <1>15

\* restartChild: nothing kills for the new restart yet.
LEMMA RestartChildEnds ==
  ASSUME NEW c, Good(c), Ends(c, 0),
         NEW targets \in SUBSET Instances, NEW auto \in BOOLEAN, NEW force \in BOOLEAN
  PROVE  LET d == RestartChild(c, targets, auto, force) IN Ends(d, 0) /\ Firm(c, d)
<1>1. /\ c \in Child /\ c.restarts \in Seq(Restart) /\ Len(c.restarts) \in Nat
      /\ c.failCount \in Nat
  BY LenProperties DEF Good, Child
<1> DEFINE r == Len(c.restarts) + 1
           rs == [q \in 1..r |-> IF q < r THEN c.restarts[q] ELSE NewRestart(targets, auto)]
           d == [c EXCEPT !.restarts = rs]
<1>2. NewRestart(targets, auto) \in Restart /\ NewRestart(targets, auto).state = "killing"
  BY DEF NewRestart, Restart, RestartStates
<1>3. rs \in Seq(Restart) /\ Len(rs) = r
  <2>1. \A q \in 1..Len(c.restarts) : c.restarts[q] \in Restart
    BY <1>1, ElementOfSeq
  <2>2. rs \in [1..r -> Restart] BY <1>1, <1>2, <2>1
  <2> QED BY <1>1, <2>2, FunctionIsSeq
<1>4. RestartChild(c, targets, auto, force) =
        IF c.alive /\ force THEN KillChild(d, "restart", r, FALSE) ELSE ContinueRestart(d, r)
  BY DEF RestartChild
<1>5. /\ rs[r].state = "killing" /\ r \in 1..r /\ r \in Nat
      /\ \A q \in 1..Len(c.restarts) : q # r /\ q \in 1..r /\ rs[q] = c.restarts[q]
      /\ Len(c.restarts) <= r
  BY <1>1, <1>2
<1>6. RestartChild(c, targets, auto, force) \in Child
  BY RestartChildGood DEF Good
<1> HIDE DEF rs, r
<1>7. /\ d \in Child /\ d.restarts = rs
      /\ d.processes = c.processes /\ d.alive = c.alive /\ d.isClosing = c.isClosing
      /\ d.kills = c.kills /\ d.microtasks = c.microtasks /\ d.pendingInit = c.pendingInit
      /\ d.instances = c.instances /\ d.initialized = c.initialized /\ d.initGen = c.initGen
      /\ d.failCount = c.failCount /\ d.retryTimeout = c.retryTimeout
      /\ d.registered = c.registered
  BY <1>1, <1>3 DEF Child
<1> HIDE DEF d
<1>8. Good(d)
  <2>1. 0..Len(c.restarts) \subseteq 0..r /\ 1..Len(c.restarts) \subseteq 1..r
    BY <1>1 DEF r
  <2>2. RefsInv(d)
    BY <1>3, <1>7, <2>1 DEF Good, RefsInv, RefersTo
  <2>3. ProcessInv(d) /\ KillsInv(d) /\ UseInv(d)
    BY <1>7 DEF Good, ProcessInv, KillsInv, UseInv, Current, ProcessState
  <2> QED BY <1>7, <2>2, <2>3 DEF Good
<1>9. Stays(c, d, 0) /\ Stays(c, d, r)
  BY <1>3, <1>5, <1>7 DEF Stays
<1>10. Ends(c, r)
  <2>1. Owned(c.kills, c.restarts, r) /\ Owned(c.microtasks, c.restarts, r)
    BY <1>5 DEF Ends, Owned
  <2> QED BY <2>1 DEF Ends
<1>11. Ends(d, r) /\ Firm(c, d)
  BY <1>1, <1>7, <1>9, <1>10, StaysEnds
<1>12. r \in 1..Len(d.restarts) /\ d.restarts[r].state = "killing"
  BY <1>3, <1>5, <1>7
<1>13. LET k == KillChild(d, "restart", r, FALSE) IN Ends(k, 0) /\ Firm(d, k)
  BY <1>5, <1>7, <1>11, <1>12, KillChildEnds DEF Goals
<1>14. LET k == ContinueRestart(d, r) IN Ends(k, 0) /\ Firm(d, k)
  BY <1>8, <1>11, <1>12, ContinueRestartEnds
<1> QED BY <1>1, <1>4, <1>6, <1>7, <1>11, <1>13, <1>14, FirmTransitive

\* _childHasCrashed.
LEMMA ChildHasCrashedEnds ==
  ASSUME NEW c, Good(c), Ends(c, 0)
  PROVE  Ends(ChildHasCrashed(c), 0) /\ Firm(c, ChildHasCrashed(c))
<1>1. (c.instances \cap AutoRestart) \in SUBSET Instances /\ c \in Child /\ c.failCount \in Nat
  BY InstancesAssumption DEF Good, Child
<1>2. LET d == RestartChild(c, c.instances \cap AutoRestart, TRUE, TRUE)
      IN Ends(d, 0) /\ Firm(c, d)
  BY <1>1, RestartChildEnds
<1>3. LET d == KillChild(c, "report", 0, FALSE) IN Ends(d, 0) /\ Firm(c, d)
  BY <1>1, KillChildEnds DEF Goals
<1>4. Firm(c, c)
  BY <1>1, SameStays, StaysEnds
<1> QED BY <1>2, <1>3, <1>4 DEF ChildHasCrashed
-----------------------------------------------------------------------------
(***************************************************************************)
(* The actions.                                                            *)
(***************************************************************************)
\* What a step may not do: the body of GivesUpOnlyAfterFailures, and the half of
\* LetGoStaysDown about letting go.
Justified ==
  LetGo => \/ Gave(child')
           \/ \E k \in 1..Len(child.kills) : child.kills[k].goal = "destroy"
           \/ ops' > ops
LeavesNoTimer == LetGo /\ ~UnderWay(child) => ~child'.retryTimeout

Orderly == EndsInv' /\ Justified /\ LeavesNoTimer

\* The other half of LetGoStaysDown.
StaysDown == NothingToCome(child) => ~child'.retryTimeout /\ ~child'.alive

\* A firm step needs no more than the account.
LEMMA FirmOrderly ==
  ASSUME Ends(child', 0), Firm(child, child')
  PROVE  Orderly
BY DEF Orderly, EndsInv, Justified, LeavesNoTimer, Firm, LetGo

\* A step that leaves restarts, kills and timers alone.
LEMMA FrameOrderly ==
  ASSUME IInv, EndsInv, child' \in Child,
         child'.restarts = child.restarts, child'.kills = child.kills,
         child'.microtasks = child.microtasks, child'.failCount = child.failCount,
         child'.retryTimeout = child.retryTimeout, child'.registered = child.registered
  PROVE  Orderly
<1>1. child \in Child /\ child.failCount \in Nat
  BY DEF IInv, Good, Child
<1>2. Ends(child', 0) /\ Firm(child, child')
  BY <1>1, SameStays, StaysEnds DEF EndsInv
<1> QED BY <1>2, FirmOrderly

\* The kills of the process that closed are settled.  One that cleans up lets go

\* of the child.
LEMMA CloseOrderly ==
  ASSUME IInv, EndsInv, WaitsInv, Crash \/ Terminated
  PROVE  Orderly
<1>1. /\ Good(child) /\ child \in Child /\ child.alive /\ child.microtasks = <<>>
      /\ Ends(child, 0)
      /\ child' = CloseHandlers(ChildHasCrashed(MarkClosed(child)), child.kills)
      /\ child.kills \in Seq(Kill)
  BY DEF IInv, EndsInv, Crash, Terminated, Task, Close, Good, Child
<1>2. PICK d : d = MarkClosed(child)
  OBVIOUS
<1>3. /\ d \in Child /\ RefsInv(d) /\ UseInv(d)
      /\ ~d.alive /\ d.isClosing = child.isClosing
      /\ d.kills = child.kills /\ d.microtasks = child.microtasks /\ d.restarts = child.restarts
      /\ d.processes # <<>>
      /\ \A p \in 1..Current(d) : d.processes[p] = "closed"
  BY <1>1, <1>2, MarkClosedFields
<1>4. /\ d.failCount = child.failCount /\ d.retryTimeout = child.retryTimeout
      /\ d.registered = child.registered /\ child.failCount \in Nat
  BY <1>1, <1>2 DEF MarkClosed, Child
<1>5. child' \in Child
  BY CloseStep DEF IInv, Good
<1>6. CASE child.isClosing
  <2>1. ChildHasCrashed(d) = d
    BY <1>3, <1>6 DEF ChildHasCrashed
  <2>2. child.kills # <<>>
    BY <1>1, <1>6 DEF Good, KillsInv
  <2>3. PICK cleanUp : cleanUp = (\E k \in 1..Len(child.kills) : child.kills[k].cleanUp)
    OBVIOUS
  <2>4. child' = [d EXCEPT !.instances = IF cleanUp THEN {} ELSE @,
                           !.registered = @ /\ ~cleanUp,
                           !.isClosing = FALSE,
                           !.kills = <<>>,
                           !.microtasks = @ \o child.kills]
    BY <1>1, <1>2, <2>1, <2>2, <2>3 DEF CloseHandlers
  <2>5. d.microtasks \o child.kills = child.kills
    BY <1>1, <1>3
  <2>6. /\ child'.restarts = child.restarts /\ child'.kills = <<>>
        /\ child'.microtasks = child.kills /\ child'.failCount = child.failCount
        /\ child'.retryTimeout = child.retryTimeout
    BY <1>3, <1>4, <2>4, <2>5 DEF Child
  <2>7. child.registered /\ ~child'.registered => cleanUp
    <3>1. PICK reg : reg = (child.registered /\ ~cleanUp)
      OBVIOUS
    <3>2. child'.registered = reg
      BY <1>3, <1>4, <2>4, <3>1 DEF Child
    <3> QED BY <3>1, <3>2
  <2>8. Failures(child') = Failures(child) /\ (Gave(child) <=> Gave(child'))
    BY <2>6 DEF Failures, FailedAutoRestarts, Gave
  <2>9. Len(child'.kills) = 0
    BY <2>6, EmptySeq
  <2>10. Ends(child', 0)
    BY <1>1, <2>6, <2>8, <2>9 DEF Ends, Owned, CleanUpInv, TimerInv
  <2>11. Justified
    BY <1>1, <2>3, <2>7, <2>8 DEF Justified, LetGo, Ends, CleanUpInv
  <2>12. LeavesNoTimer
    <3> SUFFICES ASSUME LetGo, child'.retryTimeout PROVE UnderWay(child)
      BY DEF LeavesNoTimer
    <3>1. \E k \in 1..Len(child.kills) : child.kills[k].goal = "retry"
      BY <1>1, <2>3, <2>6, <2>7 DEF LetGo, Ends, TimerInv
    <3> QED BY <3>1 DEF UnderWay
  <2> QED BY <2>10, <2>11, <2>12 DEF Orderly, EndsInv
<1>7. CASE ~child.isClosing
  <2>1. child.kills = <<>>
    BY <1>1, <1>7 DEF Good, KillsInv
  <2>2. child' = ChildHasCrashed(d)
    BY <1>1, <1>2, <2>1 DEF CloseHandlers
  <2>3. Good(d)
    <3>1. Current(d) \in Nat \ {0} /\ ProcessState(d) = "closed"
      BY <1>3, EmptySeq DEF Child, Current, ProcessState
    <3> QED BY <1>3, <1>7, <2>1, <3>1 DEF Good, ProcessInv, KillsInv
  <2>4. Ends(d, 0) /\ Firm(child, d)
    BY <1>1, <1>3, <1>4, SameStays, StaysEnds
  <2>5. Ends(child', 0) /\ Firm(d, child')
    BY <2>2, <2>3, <2>4, ChildHasCrashedEnds
  <2>6. Firm(child, child')
    BY <1>1, <1>3, <1>5, <2>4, <2>5, FirmTransitive
  <2> QED BY <2>5, <2>6, FirmOrderly
<1> QED BY <1>6, <1>7

\* The first continuation is taken, and with it the only kill of its restart.
LEMMA RunMicrotaskOrderly ==
  ASSUME IInv, EndsInv, WaitsInv, RunMicrotask
  PROVE  Orderly
<1>1. /\ Good(child) /\ Ends(child, 0) /\ child \in Child
      /\ child.microtasks \in Seq(Kill) /\ child.microtasks # <<>> /\ child.failCount \in Nat
      /\ RefersTo(child.microtasks, child.restarts)
  BY DEF IInv, EndsInv, Good, Child, RunMicrotask, RefsInv
<1>2. PICK k : k = Head(child.microtasks)
  OBVIOUS
<1>3. PICK ms : ms = Tail(child.microtasks)
  OBVIOUS
<1>4. /\ k \in Kill /\ ms \in Seq(Kill)
      /\ Len(child.microtasks) \in Nat \ {0}
      /\ Len(ms) = Len(child.microtasks) - 1
      /\ \A i \in 1..Len(ms) : ms[i] = child.microtasks[i + 1]
      /\ k = child.microtasks[1]
  BY <1>1, <1>2, <1>3, HeadTailProperties, EmptySeq
<1>5. PICK c : c = [child EXCEPT !.microtasks = ms]
  OBVIOUS
<1>6. /\ c \in Child
      /\ c.processes = child.processes /\ c.alive = child.alive /\ c.isClosing = child.isClosing
      /\ c.kills = child.kills /\ c.microtasks = ms
      /\ c.restarts = child.restarts /\ c.pendingInit = child.pendingInit
      /\ c.instances = child.instances /\ c.registered = child.registered
      /\ c.initialized = child.initialized /\ c.initGen = child.initGen
      /\ c.failCount = child.failCount /\ c.retryTimeout = child.retryTimeout
  BY <1>1, <1>4, <1>5 DEF Child
<1>7. Good(c)
  <2>1. RefersTo(ms, child.restarts)
    BY <1>1, <1>4 DEF RefersTo
  <2> QED BY <1>1, <1>6, <2>1 DEF Good, RefsInv, ProcessInv, KillsInv, UseInv, Current, ProcessState
<1>8. child.kills = <<>> /\ Len(child.kills) = 0
  <2>1. ~child.isClosing
    BY <1>1 DEF WaitsInv, Waits, MicrotasksInv
  <2> QED BY <1>1, <2>1, EmptySeq DEF Good, KillsInv
<1>9. Failures(c) = Failures(child)
  BY <1>6 DEF Failures, FailedAutoRestarts
<1>10. ASSUME NEW r, Live(k) => r = k.restart, ~Live(k) => r = 0
       PROVE  Ends(c, r)
  <2>1. \A j \in 1..Len(ms) : j + 1 \in 1..Len(child.microtasks) /\ j + 1 # 1
    BY <1>4
  <2>2. 1 \in 1..Len(child.microtasks)
    BY <1>4
  <2>3. ASSUME NEW j \in 1..Len(ms), Live(ms[j])
        PROVE  /\ ms[j].restart \in 1..Len(child.restarts) \ {r}
               /\ child.restarts[ms[j].restart].state = "killing"
    <3>1. /\ Live(child.microtasks[j + 1]) /\ ms[j] = child.microtasks[j + 1]
      BY <1>4, <2>3
    <3>2. Live(k) => child.microtasks[j + 1].restart # k.restart
      BY <1>1, <1>4, <2>1, <2>2, <3>1 DEF Ends, Owned
    <3>3. /\ ms[j].restart \in 1..Len(child.restarts) \ {0}
          /\ child.restarts[ms[j].restart].state = "killing"
      BY <1>1, <2>1, <3>1 DEF Ends, Owned
    <3> QED BY <1>10, <3>1, <3>2, <3>3
  <2>4. ASSUME NEW i \in 1..Len(ms), NEW j \in 1..Len(ms), Live(ms[i]), Live(ms[j]),
               ms[i].restart = ms[j].restart
        PROVE  i = j
    <3>1. /\ i + 1 \in 1..Len(child.microtasks) /\ j + 1 \in 1..Len(child.microtasks)
          /\ ms[i] = child.microtasks[i + 1] /\ ms[j] = child.microtasks[j + 1]
      BY <1>4, <2>1
    <3>2. i + 1 = j + 1
      BY <1>1, <2>4, <3>1 DEF Ends, Owned
    <3> QED BY <3>2
  <2>5. Owned(ms, child.restarts, r)
    BY <2>3, <2>4 DEF Owned
  <2>6. Owned(c.kills, c.restarts, r)
    BY <1>6, <1>8 DEF Owned
  <2> QED BY <1>1, <1>6, <1>8, <1>9, <2>5, <2>6 DEF Ends, CleanUpInv, TimerInv
<1>11. \/ child' = c /\ ~Live(k)
       \/ child' = ContinueRestart(c, k.restart) /\ Live(k)
       \/ child' = SetRetryTimeout(c) /\ ~Live(k)
  BY <1>2, <1>3, <1>4, <1>5 DEF RunMicrotask, Kill, Goals, Live
<1>12. CASE child' = c /\ ~Live(k)
  <2>1. Ends(c, 0)
    BY <1>10, <1>12
  <2>2. Justified /\ LeavesNoTimer
    BY <1>6, <1>12 DEF Justified, LeavesNoTimer, LetGo
  <2> QED BY <1>12, <2>1, <2>2 DEF Orderly, EndsInv
<1>13. CASE child' = ContinueRestart(c, k.restart) /\ Live(k)
  <2>1. Ends(c, k.restart)
    BY <1>10, <1>13
  <2>2. 1 \in 1..Len(child.microtasks)
    BY <1>4
  <2>3. k.restart \in 1..Len(c.restarts) /\ c.restarts[k.restart].state = "killing"
    BY <1>1, <1>4, <1>6, <1>13, <2>2 DEF Ends, Owned
  <2>4. Ends(child', 0) /\ Firm(c, child')
    BY <1>7, <1>13, <2>1, <2>3, ContinueRestartEnds
  <2>5. Firm(child, child')
    BY <1>6, <1>9, <2>4 DEF Firm
  <2> QED BY <2>4, <2>5, FirmOrderly
<1>14. CASE child' = SetRetryTimeout(c) /\ ~Live(k)
  <2>1. /\ child'.restarts = c.restarts /\ child'.kills = c.kills
        /\ child'.microtasks = c.microtasks /\ child'.failCount = c.failCount
        /\ child'.registered = c.registered
    BY <1>6, <1>14 DEF SetRetryTimeout, Child
  <2>2. Ends(c, 0)
    BY <1>10, <1>14
  <2>3. Failures(child') = Failures(c)
    BY <2>1 DEF Failures, FailedAutoRestarts
  <2>4. Ends(child', 0)
    BY <1>6, <1>8, <2>1, <2>2, <2>3 DEF Ends, CleanUpInv, TimerInv
  <2>5. Justified /\ LeavesNoTimer
    BY <1>6, <2>1 DEF Justified, LeavesNoTimer, LetGo
  <2> QED BY <2>4, <2>5 DEF Orderly, EndsInv
<1> QED BY <1>11, <1>12, <1>13, <1>14

\* A kill that timed out and cleans up lets go of the child; that of a restart

\* lets it fail, and that of a retry sets the timer.
LEMMA KillTimeoutOrderly ==
  ASSUME IInv, EndsInv, KillTimeout
  PROVE  Orderly
<1>1. /\ Good(child) /\ Ends(child, 0) /\ child \in Child /\ child.microtasks = <<>>
      /\ child.kills \in Seq(Kill) /\ Len(child.microtasks) = 0 /\ child.failCount \in Nat
      /\ RefersTo(child.kills, child.restarts)
  BY EmptySeq DEF IInv, EndsInv, Good, RefsInv, Child, KillTimeout, Task
<1>2. PICK n \in 1..Len(child.kills) :
        LET k == child.kills[n]
            c == [child EXCEPT !.kills[n].timedOut = TRUE,
                               !.registered = @ /\ ~k.cleanUp]
        IN /\ ~k.timedOut
           /\ child' = CASE k.goal = "restart" -> FailRestart(c, k.restart)
                         [] k.goal = "retry" -> SetRetryTimeout(c)
                         [] k.goal \in {"destroy", "report"} -> c
  BY DEF KillTimeout
<1>3. PICK k : k = child.kills[n]
  OBVIOUS
<1>4. k \in Kill /\ ~k.timedOut
  BY <1>1, <1>2, <1>3, ElementOfSeq
<1>5. PICK x : x = [k EXCEPT !.timedOut = TRUE]
  OBVIOUS
<1>6. x \in Kill /\ x.goal = k.goal /\ x.restart = k.restart /\ x.cleanUp = k.cleanUp
      /\ x.timedOut
  BY <1>4, <1>5 DEF Kill
<1>7. PICK ks : ks = [child.kills EXCEPT ![n] = x]
  OBVIOUS
<1>8. /\ ks \in Seq(Kill) /\ Len(ks) = Len(child.kills)
      /\ \A j \in 1..Len(child.kills) : ks[j] = IF j = n THEN x ELSE child.kills[j]
  BY <1>1, <1>6, <1>7, ExceptSeq
<1>9. PICK b : b = (child.registered /\ ~k.cleanUp)
  OBVIOUS
<1>10. b \in BOOLEAN
  BY <1>9
<1>11. PICK c : c = [child EXCEPT !.kills = ks, !.registered = b]
  OBVIOUS
<1>12. c = [child EXCEPT !.kills[n].timedOut = TRUE, !.registered = @ /\ ~child.kills[n].cleanUp]
  BY <1>1, <1>3, <1>5, <1>7, <1>9, <1>11 DEF Child
<1>13. /\ c \in Child
       /\ c.processes = child.processes /\ c.alive = child.alive /\ c.isClosing = child.isClosing
       /\ c.kills = ks /\ c.microtasks = child.microtasks
       /\ c.restarts = child.restarts /\ c.pendingInit = child.pendingInit
       /\ c.instances = child.instances /\ c.registered = b
       /\ c.initialized = child.initialized /\ c.initGen = child.initGen
       /\ c.failCount = child.failCount /\ c.retryTimeout = child.retryTimeout
  BY <1>1, <1>8, <1>10, <1>11 DEF Child
<1>14. Good(c)
  <2>1. RefersTo(ks, child.restarts) /\ ks # <<>> /\ child.kills # <<>>
    BY <1>1, <1>3, <1>6, <1>8, EmptySeq DEF RefersTo
  <2> QED BY <1>1, <1>13, <2>1 DEF Good, RefsInv, ProcessInv, KillsInv, UseInv, Current, ProcessState
<1>15. Failures(c) = Failures(child) /\ (Gave(c) <=> Gave(child))
  BY <1>13 DEF Failures, FailedAutoRestarts, Gave
<1>16. ~Live(x) /\ (k.goal = "restart" => Live(k))
  BY <1>4, <1>6 DEF Live
<1>17. ASSUME NEW r, k.goal = "restart" => r = k.restart, k.goal # "restart" => r = 0
       PROVE  Ends(c, r)
  <2>1. ASSUME NEW j \in 1..Len(ks), Live(ks[j])
        PROVE  /\ j # n /\ ks[j] = child.kills[j] /\ Live(child.kills[j])
               /\ ks[j].restart \in 1..Len(child.restarts) \ {r}
               /\ child.restarts[ks[j].restart].state = "killing"
    <3>1. j \in 1..Len(child.kills) /\ j # n /\ ks[j] = child.kills[j]
      BY <1>8, <1>16, <2>1
    <3>2. k.goal = "restart" => ks[j].restart # k.restart
      BY <1>1, <1>3, <1>16, <2>1, <3>1 DEF Ends, Owned
    <3>3. /\ ks[j].restart \in 1..Len(child.restarts) \ {0}
          /\ child.restarts[ks[j].restart].state = "killing"
      BY <1>1, <2>1, <3>1 DEF Ends, Owned
    <3> QED BY <1>17, <2>1, <3>1, <3>2, <3>3
  <2>2. Owned(ks, child.restarts, r)
    <3>1. \A i, j \in 1..Len(ks) :
            (Live(ks[i]) /\ Live(ks[j]) /\ ks[i].restart = ks[j].restart) => i = j
      BY <1>1, <1>8, <2>1 DEF Ends, Owned
    <3> QED BY <2>1, <3>1 DEF Owned
  <2>3. Owned(c.microtasks, c.restarts, r)
    BY <1>1, <1>13 DEF Owned
  <2>4. \A j \in 1..Len(ks) : ks[j].goal = child.kills[j].goal /\ ks[j].cleanUp = child.kills[j].cleanUp
    BY <1>3, <1>6, <1>8
  <2>5. CleanUpInv(c)
    BY <1>1, <1>8, <1>13, <1>15, <2>4 DEF Ends, CleanUpInv
  <2>6. TimerInv(c)
    BY <1>1, <1>8, <1>13, <2>4 DEF Ends, TimerInv
  <2> QED BY <1>1, <1>13, <1>15, <2>2, <2>3, <2>5, <2>6 DEF Ends
<1>18. k.cleanUp => k.goal = "destroy" \/ (k.goal = "report" /\ Gave(child))
  BY <1>1, <1>3 DEF Ends, CleanUpInv
<1>19. /\ k.goal \in Goals
       /\ k.goal = "restart" => child' = FailRestart(c, k.restart)
       /\ k.goal = "retry" => child' = SetRetryTimeout(c)
       /\ k.goal \in {"destroy", "report"} => child' = c
  BY <1>2, <1>3, <1>4, <1>12 DEF Kill, Goals
<1>20. CASE k.goal = "restart"
  <2>1. Ends(c, k.restart)
    BY <1>17, <1>20
  <2>2. k.restart \in 1..Len(c.restarts) /\ c.restarts[k.restart].state = "killing"
    BY <1>1, <1>3, <1>13, <1>16, <1>20 DEF Ends, Owned
  <2>3. Ends(child', 0) /\ Firm(c, child')
    BY <1>14, <1>19, <1>20, <2>1, <2>2, FailRestartEnds
  <2>4. c.registered <=> child.registered
    BY <1>9, <1>13, <1>18, <1>20
  <2>5. Firm(child, child')
    BY <1>13, <1>15, <2>3, <2>4 DEF Firm
  <2> QED BY <2>3, <2>5, FirmOrderly
<1>21. CASE k.goal = "retry"
  <2>1. child' = SetRetryTimeout(c)
    BY <1>19, <1>21
  <2>2. /\ child'.restarts = c.restarts /\ child'.kills = c.kills
        /\ child'.microtasks = c.microtasks /\ child'.failCount = c.failCount
        /\ child'.registered = c.registered
    BY <1>13, <2>1 DEF SetRetryTimeout, Child
  <2>3. Ends(c, 0)
    BY <1>17, <1>21
  <2>4. Failures(child') = Failures(c) /\ (Gave(child') <=> Gave(c))
    BY <2>2 DEF Failures, FailedAutoRestarts, Gave
  <2>5. n \in 1..Len(child'.kills) /\ child'.kills[n].goal = "retry"
    BY <1>6, <1>8, <1>13, <1>21, <2>2
  <2>6. Ends(child', 0)
    BY <2>2, <2>3, <2>4, <2>5 DEF Ends, CleanUpInv, TimerInv
  <2>7. child'.registered <=> child.registered
    BY <1>9, <1>13, <1>18, <1>21, <2>2
  <2>8. Justified /\ LeavesNoTimer
    BY <2>7 DEF Justified, LeavesNoTimer, LetGo
  <2> QED BY <2>6, <2>8 DEF Orderly, EndsInv
<1>22. CASE k.goal \in {"destroy", "report"}
  <2>1. child' = c /\ Ends(c, 0)
    BY <1>17, <1>19, <1>22
  <2>2. child.registered /\ ~child'.registered => k.cleanUp
    BY <1>9, <1>13, <2>1
  <2>3. Justified
    BY <1>3, <1>15, <1>18, <2>1, <2>2 DEF Justified, LetGo
  <2>4. LeavesNoTimer
    <3> SUFFICES ASSUME LetGo, child'.retryTimeout PROVE UnderWay(child)
      BY DEF LeavesNoTimer
    <3>1. \E j \in 1..Len(child.kills) : child.kills[j].goal = "retry"
      BY <1>1, <1>3, <1>13, <2>1, <2>2 DEF LetGo, Ends, TimerInv
    <3> QED BY <3>1 DEF UnderWay
  <2> QED BY <2>1, <2>3, <2>4 DEF Orderly, EndsInv
<1> QED BY <1>19, <1>20, <1>21, <1>22 DEF Goals

\* A retry, a stray retry or a ping timeout: _childHasCrashed, after the timer
\* that fired is gone.
LEMMA RetryOrderly ==
  ASSUME IInv, EndsInv, RetryFires \/ StrayRetryFires \/ PingTimeout
  PROVE  Orderly
<1>1. /\ Good(child) /\ Ends(child, 0) /\ child \in Child
      /\ child.failCount \in Nat /\ child.strayRetries \in Int
  BY DEF IInv, EndsInv, Good, Child
<1>2. ASSUME NEW c, Good(c), child' = ChildHasCrashed(c),
             c.restarts = child.restarts, c.kills = child.kills,
             c.microtasks = child.microtasks, c.failCount = child.failCount,
             c.retryTimeout => child.retryTimeout, c.registered = child.registered
      PROVE  Orderly
  <2>1. c \in Child /\ child' \in Child
    BY <1>2, ChildHasCrashedGood DEF Good
  <2>2. Ends(c, 0) /\ Firm(child, c)
    BY <1>1, <1>2, <2>1, SameStays, StaysEnds
  <2>3. Ends(child', 0) /\ Firm(c, child')
    BY <1>2, <2>2, ChildHasCrashedEnds
  <2>4. Firm(child, child')
    BY <1>1, <2>1, <2>2, <2>3, FirmTransitive
  <2> QED BY <2>3, <2>4, FirmOrderly
<1>3. CASE RetryFires
  <2>1. PICK c : c = ClearRestartTimeout(child)
    OBVIOUS
  <2>2. /\ Good(c) /\ c.restarts = child.restarts
        /\ c.kills = child.kills /\ c.microtasks = child.microtasks
        /\ c.failCount = child.failCount /\ ~c.retryTimeout /\ c.registered = child.registered
    BY <1>1, <2>1, ClearRestartTimeoutGood DEF ClearRestartTimeout, Child
  <2> QED BY <1>2, <1>3, <2>1, <2>2 DEF RetryFires
<1>4. CASE StrayRetryFires
  <2>1. child.strayRetries - 1 \in Nat
    BY <1>1, <1>4 DEF StrayRetryFires, Child
  <2>2. PICK c : c = [child EXCEPT !.strayRetries = @ - 1]
    OBVIOUS
  <2>3. /\ c \in Child /\ c.restarts = child.restarts
        /\ c.kills = child.kills /\ c.microtasks = child.microtasks
        /\ c.isClosing = child.isClosing /\ c.processes = child.processes
        /\ c.alive = child.alive /\ c.pendingInit = child.pendingInit
        /\ c.instances = child.instances
        /\ c.initialized = child.initialized /\ c.initGen = child.initGen
        /\ c.failCount = child.failCount /\ c.retryTimeout = child.retryTimeout
        /\ c.registered = child.registered
    BY <1>1, <2>1, <2>2 DEF Child
  <2>4. Good(c)
    BY <1>1, <2>3, FrameGood
  <2> QED BY <1>2, <1>4, <2>2, <2>3, <2>4 DEF StrayRetryFires
<1>5. CASE PingTimeout
  BY <1>1, <1>2, <1>5 DEF PingTimeout
<1> QED BY <1>3, <1>4, <1>5

\* The timer of a restart runs out, and the restart fails if it still waits.
LEMMA RestartTimeoutOrderly ==
  ASSUME IInv, EndsInv, RestartTimeout
  PROVE  Orderly
<1>1. /\ Good(child) /\ Ends(child, 0) /\ child \in Child
      /\ child.restarts \in Seq(Restart) /\ child.initListeners \in Seq(Nat)
  BY DEF IInv, EndsInv, Good, Child
<1>2. PICK r \in 1..Len(child.restarts) :
        LET c == [child EXCEPT
                    !.restarts[r].timer = FALSE,
                    !.initListeners = RemoveListener(@, r)]
        IN child' = IF child.restarts[r].state = "waiting" THEN FailRestart(c, r) ELSE c
  BY DEF RestartTimeout
<1>3. child.restarts[r] \in Restart
  BY <1>1, ElementOfSeq
<1>4. PICK x : x = [child.restarts[r] EXCEPT !.timer = FALSE]
  OBVIOUS
<1>5. x \in Restart /\ x.state = child.restarts[r].state /\ x.auto = child.restarts[r].auto
  BY <1>3, <1>4 DEF Restart
<1>6. PICK rs : rs = [child.restarts EXCEPT ![r] = x]
  OBVIOUS
<1>7. rs \in Seq(Restart) /\ Len(rs) = Len(child.restarts) /\ rs[r] = x
  BY <1>1, <1>5, <1>6, ExceptSeq
<1>8. PICK ls : ls = RemoveListener(child.initListeners, r)
  OBVIOUS
<1>9. ls \in Seq(Nat)
  BY <1>1, <1>8, RemoveListenerTyped
<1>10. PICK c : c = [child EXCEPT !.restarts = rs, !.initListeners = ls]
  OBVIOUS
<1>11. child' = IF child.restarts[r].state = "waiting" THEN FailRestart(c, r) ELSE c
  BY <1>1, <1>2, <1>4, <1>6, <1>8, <1>10 DEF Child
<1>12. /\ c \in Child /\ c.restarts = rs
       /\ c.kills = child.kills /\ c.microtasks = child.microtasks
       /\ c.isClosing = child.isClosing /\ c.processes = child.processes
       /\ c.alive = child.alive /\ c.pendingInit = child.pendingInit
       /\ c.instances = child.instances
       /\ c.initialized = child.initialized /\ c.initGen = child.initGen
       /\ c.failCount = child.failCount /\ c.retryTimeout = child.retryTimeout
       /\ c.registered = child.registered
  BY <1>1, <1>7, <1>9, <1>10 DEF Child
<1>13. Good(c)
  BY <1>1, <1>7, <1>12 DEF Good, RefsInv, RefersTo, ProcessInv, KillsInv, UseInv, Current, ProcessState
<1>14. Ends(c, 0) /\ Firm(child, c)
  BY <1>1, <1>5, <1>6, <1>12, SetRestartEnds
<1>15. CASE child.restarts[r].state = "waiting"
  <2>1. PICK d : d = FailRestart(c, r)
    OBVIOUS
  <2>2. c.restarts[r].state = "waiting" /\ r \in 1..Len(c.restarts)
    BY <1>5, <1>7, <1>12, <1>15
  <2>3. Ends(c, r)
    BY <1>14, <2>2, NotKillingEnds
  <2>4. Ends(d, 0) /\ Firm(c, d) /\ d \in Child
    BY <1>13, <2>1, <2>2, <2>3, FailRestartEnds, FailRestartGood DEF Good
  <2>5. Firm(child, d)
    BY <1>1, <1>12, <1>14, <2>4, FirmTransitive
  <2> QED BY <1>11, <1>15, <2>1, <2>4, <2>5, FirmOrderly
<1>16. CASE child.restarts[r].state # "waiting"
  BY <1>11, <1>14, <1>16, FirmOrderly
<1> QED BY <1>15, <1>16

\* An INIT callback is called: the restart it belongs to settles, or fails.
LEMMA InitOrderly ==
  ASSUME IInv, EndsInv, InitOk \/ InitError
  PROVE  Orderly /\ StaysDown
<1>1. Good(child) /\ Ends(child, 0) /\ child \in Child /\ child.failCount \in Nat
  BY DEF IInv, EndsInv, Good, Child
<1>2. ASSUME NEW m \in child.pendingInit, NEW c, c = [child EXCEPT !.pendingInit = @ \ {m}]
      PROVE  /\ Good(c) /\ c \in Child /\ Ends(c, 0) /\ Firm(child, c)
             /\ c.restarts = child.restarts /\ c.alive = child.alive /\ m.inst \in Instances
             /\ m.by # 0 => m.by \in 1..Len(child.restarts)
  <2>1. /\ Good(c) /\ c \in Child /\ c.restarts = child.restarts /\ m.inst \in Instances
        /\ m.by # 0 => m.by \in 1..Len(child.restarts)
    BY <1>2, TakeInit DEF Good
  <2>2. /\ c.kills = child.kills /\ c.microtasks = child.microtasks
        /\ c.failCount = child.failCount /\ c.retryTimeout = child.retryTimeout
        /\ c.registered = child.registered /\ c.alive = child.alive
    BY <1>1, <1>2 DEF Child
  <2> QED BY <1>1, <2>1, <2>2, SameStays, StaysEnds
<1>3. ASSUME NEW c, Good(c), Ends(c, 0), Firm(child, c), c.alive = child.alive,
             child' = NotifyInitialized(c)
      PROVE  Orderly /\ StaysDown
  <2>1. c \in Child /\ child' \in Child
    BY <1>3, NotifyInitializedGood DEF Good
  <2>2. Ends(child', 0) /\ Firm(c, child')
    BY <1>3, NotifyInitializedEnds
  <2>3. Firm(child, child')
    BY <1>1, <1>3, <2>1, <2>2, FirmTransitive
  <2>4. child'.alive = child.alive
    BY <1>3, NotifyInitializedNotified DEF Notified
  <2> QED BY <2>2, <2>3, <2>4, FirmOrderly DEF StaysDown, NothingToCome, Firm
<1>4. CASE InitOk
  <2>1. PICK m \in child.pendingInit :
          LET c == [child EXCEPT !.pendingInit = @ \ {m}]
          IN child' = CASE m.inst \notin child.instances -> c
                        [] m.inst \in child.instances /\ m.by = 0 ->
                             NotifyInitialized([c EXCEPT !.created = @ \cup {m.inst}])
                        [] m.inst \in child.instances /\ m.by # 0 ->
                             NotifyInitialized([c EXCEPT !.restarts[m.by].awaiting = @ \ {m.inst}])
    BY <1>4 DEF InitOk
  <2>2. PICK c : c = [child EXCEPT !.pendingInit = @ \ {m}]
    OBVIOUS
  <2>3. /\ Good(c) /\ c \in Child /\ Ends(c, 0) /\ Firm(child, c)
        /\ c.restarts = child.restarts /\ c.alive = child.alive /\ m.inst \in Instances
        /\ m.by # 0 => m.by \in 1..Len(c.restarts)
    BY <1>2, <2>2
  <2>4. PICK created : created = [c EXCEPT !.created = @ \cup {m.inst}]
    OBVIOUS
  <2>5. PICK resolved : resolved = [c EXCEPT !.restarts[m.by].awaiting = @ \ {m.inst}]
    OBVIOUS
  <2>6. \/ child' = c
        \/ child' = NotifyInitialized(created)
        \/ child' = NotifyInitialized(resolved) /\ m.by # 0
    BY <2>1, <2>2, <2>4, <2>5
  <2>7. /\ Good(created) /\ Ends(created, 0) /\ Firm(child, created)
        /\ created.alive = child.alive
    <3>1. /\ created \in Child /\ created.restarts = c.restarts
          /\ created.kills = c.kills /\ created.microtasks = c.microtasks
          /\ created.isClosing = c.isClosing /\ created.processes = c.processes
          /\ created.alive = c.alive /\ created.pendingInit = c.pendingInit
          /\ created.instances = c.instances
          /\ created.initialized = c.initialized /\ created.initGen = c.initGen
          /\ created.failCount = c.failCount /\ created.retryTimeout = c.retryTimeout
          /\ created.registered = c.registered
      BY <2>3, <2>4 DEF Child
    <3>2. c.failCount \in Nat
      BY <2>3 DEF Child
    <3>3. Ends(created, 0) /\ Firm(c, created)
      BY <2>3, <3>1, <3>2, SameStays, StaysEnds
    <3> QED BY <1>1, <2>3, <3>1, <3>3, FrameGood, FirmTransitive
  <2>8. ASSUME m.by # 0
        PROVE  /\ Good(resolved) /\ Ends(resolved, 0) /\ Firm(child, resolved)
               /\ resolved.alive = child.alive
    <3>1. c.restarts \in Seq(Restart) /\ m.by \in 1..Len(c.restarts)
      BY <2>3, <2>8 DEF Child
    <3>2. c.restarts[m.by] \in Restart
      BY <3>1, ElementOfSeq
    <3>3. PICK x : x = [c.restarts[m.by] EXCEPT !.awaiting = @ \ {m.inst}]
      OBVIOUS
    <3>4. /\ x \in Restart /\ x.state = c.restarts[m.by].state /\ x.auto = c.restarts[m.by].auto
      BY <3>2, <3>3 DEF Restart
    <3>5. PICK rs : rs = [c.restarts EXCEPT ![m.by] = x]
      OBVIOUS
    <3>6. rs \in Seq(Restart) /\ Len(rs) = Len(c.restarts)
      BY <3>1, <3>4, <3>5, SetRestart
    <3>7. resolved = [c EXCEPT !.restarts = rs]
      BY <2>5, <3>3, <3>5
    <3>8. Good(resolved)
      BY <2>3, <3>6, <3>7, RestartsGood
    <3>9. /\ resolved.restarts = rs /\ resolved.kills = c.kills
          /\ resolved.microtasks = c.microtasks /\ resolved.failCount = c.failCount
          /\ resolved.retryTimeout = c.retryTimeout /\ resolved.registered = c.registered
          /\ resolved \in Child /\ resolved.alive = c.alive
      BY <2>3, <3>7, <3>8 DEF Good, Child
    <3>10. Ends(resolved, 0) /\ Firm(c, resolved)
      BY <2>3, <3>1, <3>4, <3>5, <3>9, SetRestartEnds
    <3> QED BY <1>1, <2>3, <3>8, <3>9, <3>10, FirmTransitive
  <2>9. CASE child' = c
    BY <2>3, <2>9, FirmOrderly DEF StaysDown, NothingToCome, Firm
  <2>10. CASE child' = NotifyInitialized(created)
    BY <1>3, <2>7, <2>10
  <2>11. CASE child' = NotifyInitialized(resolved) /\ m.by # 0
    BY <1>3, <2>8, <2>11
  <2> QED BY <2>6, <2>9, <2>10, <2>11
<1>5. CASE InitError
  <2>1. PICK m \in child.pendingInit :
          LET c == [child EXCEPT !.pendingInit = @ \ {m}]
              d == NotifyInitialized(c)
          IN child' = CASE m.inst \notin child.instances \/ m.by = 0 -> c
                        [] m.inst \in child.instances /\ m.by # 0 ->
                             IF child.restarts[m.by].state = "waiting" THEN FailRestart(d, m.by)
                             ELSE d
    BY <1>5 DEF InitError
  <2>2. PICK c : c = [child EXCEPT !.pendingInit = @ \ {m}]
    OBVIOUS
  <2>3. PICK d : d = NotifyInitialized(c)
    OBVIOUS
  <2>4. /\ Good(c) /\ c \in Child /\ Ends(c, 0) /\ Firm(child, c)
        /\ c.restarts = child.restarts /\ c.alive = child.alive
        /\ m.by # 0 => m.by \in 1..Len(child.restarts)
    BY <1>2, <2>2
  <2>5. \/ child' = c
        \/ child' = d
        \/ child' = FailRestart(d, m.by) /\ m.by # 0 /\ child.restarts[m.by].state = "waiting"
    BY <2>1, <2>2, <2>3
  <2>6. Notified(d, c) /\ Good(d) /\ d \in Child /\ Ends(d, 0) /\ Firm(c, d)
    BY <2>3, <2>4, NotifyInitializedNotified, NotifyInitializedGood, NotifyInitializedEnds
       DEF Good
  <2>7. CASE child' = c
    BY <2>4, <2>7, FirmOrderly DEF StaysDown, NothingToCome, Firm
  <2>8. CASE child' = d
    BY <1>3, <2>3, <2>4, <2>8
  <2>9. CASE child' = FailRestart(d, m.by) /\ m.by # 0 /\ child.restarts[m.by].state = "waiting"
    <3>1. m.by \in 1..Len(d.restarts) /\ d.restarts[m.by].state \in {"waiting", "ok"}
      BY <2>4, <2>6, <2>9 DEF Notified
    <3>2. Ends(d, m.by)
      BY <2>6, <3>1, NotKillingEnds
    <3>3. Ends(child', 0) /\ Firm(d, child') /\ child' \in Child
      BY <2>6, <2>9, <3>1, <3>2, FailRestartEnds, FailRestartGood DEF Good
    <3>4. Firm(child, d)
      BY <1>1, <2>4, <2>6, FirmTransitive
    <3>5. Firm(child, child')
      BY <1>1, <2>6, <3>3, <3>4, FirmTransitive
    <3>6. UnderWay(child)
      BY <2>4, <2>9 DEF UnderWay
    <3> QED BY <3>3, <3>5, <3>6, FirmOrderly DEF StaysDown, NothingToCome
  <2> QED BY <2>5, <2>7, <2>8, <2>9
<1> QED BY <1>4, <1>5

\* The program attaches and destroys instances, and restarts them.  Only destroy
\* may let go of the child, and it clears the retry timer.
LEMMA ProgramOrderly ==
  ASSUME IInv, EndsInv,
         Attach \/ Destroy \/ DestroyAll \/ Detached \/ \E force \in BOOLEAN : UserRestart(force)
  PROVE  Orderly
<1>1. Good(child) /\ Ends(child, 0) /\ child \in Child /\ ops \in Nat
  BY DEF IInv, EndsInv, Good
<1>2. child' \in Child
  BY AttachStep, DestroyStep, DetachedStep, UserRestartStep DEF IInv, Good
<1>3. ASSUME child' = KillChild(child, "destroy", 0, TRUE), ops' = ops + 1
      PROVE  Orderly
  <2>1. Ends(child', 0) /\ ~child'.retryTimeout
    BY <1>1, <1>3, KillChildEnds DEF Goals
  <2>2. ops' > ops
    BY <1>1, <1>3
  <2> QED BY <2>1, <2>2 DEF Orderly, EndsInv, Justified, LeavesNoTimer
<1>4. CASE Attach
  <2>1. /\ child'.restarts = child.restarts /\ child'.kills = child.kills
        /\ child'.microtasks = child.microtasks /\ child'.failCount = child.failCount
        /\ child'.retryTimeout = child.retryTimeout /\ child'.registered = child.registered
    BY <1>1, <1>4 DEF Attach, SendCreateInit, Child
  <2> QED BY <1>2, <2>1, FrameOrderly
<1>5. CASE DestroyAll
  BY <1>3, <1>5 DEF DestroyAll, UserOp
<1>6. CASE Destroy
  <2>1. PICK i \in child.instances :
          child' = IF Cardinality(child.instances) = 1 THEN KillChild(child, "destroy", 0, TRUE)
                   ELSE IF child.alive /\ ~child.isClosing /\ child.initialized[i]
                   THEN [child EXCEPT !.detaching = @ \cup {i}]
                   ELSE [child EXCEPT !.instances = @ \ {i}]
    BY <1>6 DEF Destroy
  <2>2. \/ child' = KillChild(child, "destroy", 0, TRUE)
        \/ child' = [child EXCEPT !.detaching = @ \cup {i}]
        \/ child' = [child EXCEPT !.instances = @ \ {i}]
    BY <2>1
  <2>3. CASE child' = KillChild(child, "destroy", 0, TRUE)
    BY <1>3, <1>6, <2>3 DEF Destroy, UserOp
  <2>4. CASE \/ child' = [child EXCEPT !.detaching = @ \cup {i}]
             \/ child' = [child EXCEPT !.instances = @ \ {i}]
    <3>1. /\ child'.restarts = child.restarts /\ child'.kills = child.kills
          /\ child'.microtasks = child.microtasks /\ child'.failCount = child.failCount
          /\ child'.retryTimeout = child.retryTimeout /\ child'.registered = child.registered
      BY <1>1, <2>4 DEF Child
    <3> QED BY <1>2, <3>1, FrameOrderly
  <2> QED BY <2>2, <2>3, <2>4
<1>7. CASE Detached
  <2>1. /\ child'.restarts = child.restarts /\ child'.kills = child.kills
        /\ child'.microtasks = child.microtasks /\ child'.failCount = child.failCount
        /\ child'.retryTimeout = child.retryTimeout /\ child'.registered = child.registered
    BY <1>1, <1>7 DEF Detached, Child
  <2> QED BY <1>2, <2>1, FrameOrderly
<1>8. CASE \E force \in BOOLEAN : UserRestart(force)
  <2>1. PICK force \in BOOLEAN, i \in child.instances :
          child' = RestartChild(child, {i}, FALSE, force)
    BY <1>8 DEF UserRestart
  <2>2. {i} \in SUBSET Instances
    BY <1>1 DEF Child
  <2>3. Ends(child', 0) /\ Firm(child, child')
    BY <1>1, <2>1, <2>2, RestartChildEnds
  <2> QED BY <2>3, FirmOrderly
<1> QED BY <1>4, <1>5, <1>6, <1>7, <1>8

\* At first nothing has failed, and nothing is killed.
LEMMA InitNothingEnds ==
  ASSUME Init
  PROVE  EndsInv
<1>1. PICK i \in Instances : child = SendCreateInit(NewChild, i)
  BY DEF Init
<1>2. /\ child.restarts = <<>> /\ child.kills = <<>> /\ child.microtasks = <<>>
      /\ child.failCount = 0 /\ ~child.retryTimeout
  BY <1>1 DEF SendCreateInit, NewChild
<1>3. Len(child.kills) = 0 /\ Len(child.microtasks) = 0
  BY <1>2
<1>4. child \in Child
  BY InitGood DEF IInv, Good
<1>5. child.failCount <= Failures(child)
  BY <1>2, <1>4, FailuresFinite
<1> QED BY <1>2, <1>3, <1>5 DEF EndsInv, Ends, Owned, CleanUpInv, TimerInv

\* Every step keeps the account, justifies a let-go and leaves no timer behind.
LEMMA NextOrderly ==
  ASSUME IInv, EndsInv, WaitsInv, [Next]_vars
  PROVE  Orderly
<1>1. CASE UNCHANGED vars
  BY <1>1 DEF Orderly, EndsInv, Justified, LeavesNoTimer, LetGo, vars
<1>2. CASE Next
  BY <1>2, RunMicrotaskOrderly, CloseOrderly, KillTimeoutOrderly, RetryOrderly,
     RestartTimeoutOrderly, InitOrderly, ProgramOrderly DEF Next
<1> QED BY <1>1, <1>2

\* A child that is down, unregistered and without a timer, while nothing is under
\* way, has no kill left to settle, and no continuation that would do anything.
LEMMA NextStaysDown ==
  ASSUME IInv, EndsInv, [Next]_vars
  PROVE  StaysDown
<1> SUFFICES ASSUME NothingToCome(child) PROVE ~child'.retryTimeout /\ ~child'.alive
  BY DEF StaysDown
<1>1. /\ Good(child) /\ Ends(child, 0) /\ child \in Child
      /\ ~child.registered /\ ~child.alive /\ ~child.retryTimeout /\ child.strayRetries = 0
  BY DEF IInv, EndsInv, Good, NothingToCome, UnderWay, Child
<1>2. \A r \in 1..Len(child.restarts) : child.restarts[r].state \notin {"killing", "waiting"}
  BY DEF NothingToCome, UnderWay
<1>3. \A k \in 1..Len(child.microtasks) : child.microtasks[k].goal # "retry"
  BY DEF NothingToCome, UnderWay
<1>4. Len(child.kills) = 0
  <2>1. child.kills = <<>>
    BY <1>1 DEF Good, ProcessInv, KillsInv
  <2> QED BY <2>1
<1>5. CASE UNCHANGED vars
  BY <1>1, <1>5 DEF vars
<1>6. CASE RunMicrotask
  <2>1. child.microtasks \in Seq(Kill) /\ child.microtasks # <<>>
    BY <1>1, <1>6 DEF RunMicrotask, Child
  <2>2. PICK k : k = Head(child.microtasks)
    OBVIOUS
  <2>3. PICK c : c = [child EXCEPT !.microtasks = Tail(@)]
    OBVIOUS
  <2>4. Len(child.microtasks) \in Nat \ {0} /\ k = child.microtasks[1] /\ k \in Kill
    BY <2>1, <2>2, HeadTailProperties, EmptySeq
  <2>5. k.goal # "retry" /\ ~Live(k)
    BY <1>1, <1>2, <1>3, <2>4 DEF Ends, Owned
  <2>6. child' = c
    BY <1>6, <2>2, <2>3, <2>4, <2>5 DEF RunMicrotask, Kill, Goals, Live
  <2> QED BY <1>1, <2>3, <2>6 DEF Child
<1>7. CASE KillTimeout
  BY <1>4, <1>7 DEF KillTimeout
<1>8. CASE RestartTimeout
  <2>1. PICK r \in 1..Len(child.restarts) :
          LET c == [child EXCEPT
                      !.restarts[r].timer = FALSE,
                      !.initListeners = RemoveListener(@, r)]
          IN child' = IF child.restarts[r].state = "waiting" THEN FailRestart(c, r) ELSE c
    BY <1>8 DEF RestartTimeout
  <2>2. child' = [child EXCEPT !.restarts[r].timer = FALSE,
                               !.initListeners = RemoveListener(@, r)]
    BY <1>2, <2>1
  <2> QED BY <1>1, <2>2 DEF Child
<1>9. CASE InitOk \/ InitError
  BY <1>9, InitOrderly DEF StaysDown
<1>10. CASE Detached
  BY <1>1, <1>10 DEF Detached, Child
<1>11. CASE Terminated \/ Crash \/ PingTimeout
  BY <1>1, <1>11 DEF Terminated, Crash, PingTimeout
<1>12. CASE RetryFires \/ StrayRetryFires
  BY <1>1, <1>12 DEF RetryFires, StrayRetryFires
<1>13. CASE Attach \/ Destroy \/ DestroyAll \/ \E force \in BOOLEAN : UserRestart(force)
  BY <1>1, <1>13 DEF Attach, Destroy, DestroyAll, UserRestart
<1> QED BY <1>5, <1>6, <1>7, <1>8, <1>9, <1>10, <1>11, <1>12, <1>13 DEF Next

-----------------------------------------------------------------------------
(***************************************************************************)
(* The theorems.                                                           *)
(***************************************************************************)
\* Every reachable state satisfies the account of failures and kills: the count
\* of failures that decides about a retry is never higher than the automatic
\* restarts that failed, each live kill continues a restart of its own, and a kill
\* that cleans up is that of a destroy or of giving up (killChild, restartChild).
THEOREM FailuresAreAccounted == Spec => []EndsInv
<1>1. Init => EndsInv BY InitNothingEnds
<1>2. IInv /\ WaitsInv /\ EndsInv /\ [Next]_vars => EndsInv' BY NextOrderly DEF Orderly
<1> QED BY <1>1, <1>2, Invariance, Waiting, PTL DEF Spec

\* The manager lets go of a child only when the program destroys it, or after at
\* least autoRestartRetryCount automatic restarts have failed, whatever closes,
\* kill timeouts and retries overlap (the catch clauses around restartChild).
THEOREM GivingUpIsJustified == Spec => GivesUpOnlyAfterFailures
<1>1. IInv /\ WaitsInv /\ EndsInv /\ [Next]_vars =>
        [LetGo => \/ RetryCount > 0 /\ Cardinality(FailedAutoRestarts(child')) >= RetryCount
                  \/ \E k \in 1..Len(child.kills) : child.kills[k].goal = "destroy"
                  \/ ops' > ops]_vars
  BY NextOrderly DEF Orderly, Justified, Gave, Failures
<1> QED BY <1>1, Invariance, Waiting, FailuresAreAccounted, PTL DEF Spec, GivesUpOnlyAfterFailures

\* A child that the manager lets go of while nothing is under way has no timer
\* that could bring it back, and stays down.
THEOREM LetGoIsFinal == Spec => LetGoStaysDown
<1>1. IInv /\ WaitsInv /\ EndsInv /\ [Next]_vars =>
        [/\ (LetGo /\ ~UnderWay(child)) => ~child'.retryTimeout
         /\ NothingToCome(child) => ~child'.retryTimeout /\ ~child'.alive]_vars
  BY NextOrderly, NextStaysDown DEF Orderly, LeavesNoTimer, StaysDown
<1> QED BY <1>1, Invariance, Waiting, FailuresAreAccounted, PTL DEF Spec, LetGoStaysDown
=============================================================================
