--------------------------- MODULE Callbacks_proofs ---------------------------
(***************************************************************************)
(* Proofs about Callbacks, for every finite set of instances and of        *)
(* functions, any calls, and any number of crashes, kills and restarts.    *)
(*                                                                         *)
(* A call is known by two numbers that are used again: the number of its   *)
(* message, which the worker counts for each handle, and the number of the *)
(* function, which the worker counts for each process.  The inductive      *)
(* invariant says of which handle and of which process each of them speaks. *)
(***************************************************************************)
EXTENDS Callbacks, SequenceFacts, FiniteSetTheorems, TLAPS

\* The function fn has the number id in a table.
Has(table, id, fn) == id \in DOMAIN table /\ table[id] = fn

\* What the manager sent and something is left of: an entry in the queue, the
\* message, the function that runs.
Sent == manager.queue \cup ToSet(toWorker) \cup {r.message : r \in worker.running}

\* The message m, or its reply to replyTo, is about a call of a side.
IsCallOf(side, c, m, cmdId) ==
  /\ m.call = {c}
  /\ calls[c].by = side /\ calls[c].state # "idle"
  /\ calls[c].inst = m.inst /\ calls[c].cmdId = cmdId

FromParent(m) ==
  /\ m.cmdId < manager.cmdId
  /\ m.cmd \in {"INIT", "FUNCTION", "KILL", "CALLBACK", "REPLY"}
  /\ m.cmd \in {"INIT", "FUNCTION", "KILL"} => m.call = {}
  /\ m.cmd = "KILL" => m.inst \in manager.destroyed
  /\ m.cmd = "FUNCTION" =>
       \E f \in Functions : m.fn = {f} /\ Has(manager.callbacks, m.id, f)
  /\ m.cmd = "CALLBACK" => \E c \in Calls : IsCallOf("parent", c, m, m.cmdId)
  /\ m.cmd = "REPLY" => \E c \in Calls : IsCallOf("worker", c, m, m.replyTo)

\* A class calls a function of the program.
CallsBack(m) ==
  \E c \in Calls : IsCallOf("worker", c, m, m.cmdId) /\ Has(manager.callbacks, m.id, calls[c].fn)

\* A reply is about the same call as the message that it answers.
Answers(m) ==
  /\ m.replyTo < manager.cmdId
  /\ \A n \in manager.queue : n.cmdId = m.replyTo => n.call = m.call

FromWorker(m) ==
  \/ m.cmd = "CALLBACK" /\ CallsBack(m)
  \/ m.cmd = "REPLY" /\ Answers(m)
  \/ /\ m.cmd = "RESULT" /\ Answers(m) /\ m.call = {}
     /\ \E g \in WorkerFunctions : m.fn = {g} /\ Has(worker.callbacks, m.id, g)

\* The conjuncts of the inductive invariant.
NumbersInv ==
  /\ \A m, n \in Sent : m.cmdId = n.cmdId => m = n
  /\ \A m \in Sent : FromParent(m)
  /\ \A n \in manager.queue : n.cmd \in {"FUNCTION", "KILL", "CALLBACK"}
  /\ \A r \in worker.running : r.message.cmd = "CALLBACK"
  /\ \A m \in ToSet(toParent) : FromWorker(m)
  /\ \A m \in manager.running : m.cmd = "CALLBACK" /\ CallsBack(m)

\* The numbers of functions, and the handles that calls of them are sent with.
FunctionsInv ==
  /\ \A r \in manager.remote :
       /\ r.process <= manager.process
       /\ (r.process = manager.process /\ manager.status # "down") =>
            Has(worker.callbacks, r.id, r.fn)
  /\ \A m \in ToSet(toWorker) : m.cmd = "CALLBACK" =>
       \A c \in m.call : calls[c].process = manager.process =>
         Has(worker.callbacks, m.id, calls[c].fn)
  /\ \A r \in worker.remote :
       Has(manager.callbacks, r.id, r.fn) /\ worker.remoteFns[r.id] # 0
  /\ \A n \in DOMAIN worker.remoteFns :
       worker.remoteFns[n] # 0 => worker.remoteFns[n] \in DOMAIN worker.handles

\* The calls so far; those of one handle have different numbers.
OfHandle(c, h) ==
  /\ h \in DOMAIN worker.handles
  /\ worker.handles[h].inst = calls[c].inst
  /\ calls[c].cmdId < worker.handles[h].cmdId
CallsInv ==
  /\ \A c \in Calls : calls[c].process <= manager.process
  /\ \A c \in Calls : calls[c].state = "idle" => calls[c].ran = {} /\ calls[c].answer = {}
  /\ \A c \in Calls :
       (calls[c].by = "worker" /\ calls[c].state # "idle"
          /\ calls[c].process = manager.process /\ manager.status # "down")
         => OfHandle(c, calls[c].handle)
  /\ \A c, d \in Calls :
       (/\ calls[c].by = "worker" /\ calls[c].state # "idle"
        /\ calls[d].by = "worker" /\ calls[d].state # "idle"
        /\ calls[c].process = calls[d].process /\ calls[c].handle = calls[d].handle
        /\ calls[c].cmdId = calls[d].cmdId) => c = d
  /\ \A c \in Calls :
       Pending(c) /\ calls[c].by = "worker" =>
         manager.status # "down" /\ calls[c].process = manager.process
  /\ \A c \in Calls : \A d \in calls[c].answer : calls[d].state # "idle"

\* The handles of the process.
HandlesInv ==
  /\ manager.status = "down" => worker = NewWorker /\ toWorker = <<>> /\ toParent = <<>>
  /\ \A i \in Instances : worker.current[i] # 0 =>
       worker.current[i] \in DOMAIN worker.handles /\ worker.handles[worker.current[i]].inst = i
  /\ \A h \in DOMAIN worker.handles :
       /\ worker.handles[h].inst \in manager.initialized
       /\ \A n \in worker.handles[h].queue : \E c \in Calls :
            /\ IsCallOf("worker", c, n, n.cmdId)
            /\ n.inst = worker.handles[h].inst
            /\ calls[c].handle = h /\ calls[c].process = manager.process
  /\ \A r \in worker.running :
       r.handle \in DOMAIN worker.handles /\ worker.handles[r.handle].inst = r.message.inst

\* The worker has the instance, or will have it when it comes to the message k.
Known(i, k, mgr, messages, w) ==
  \/ i \in mgr.destroyed
  \/ w.current[i] # 0
  \/ \E j \in 1..(k - 1) : messages[j].cmd = "INIT" /\ messages[j].inst = i

KnownInv ==
  /\ Instances \ manager.destroyed \subseteq manager.instances
  /\ \A k \in DOMAIN toWorker :
       /\ toWorker[k].cmd = "INIT" => toWorker[k].inst \in manager.initialized
       /\ toWorker[k].cmd # "INIT" => Known(toWorker[k].inst, k, manager, toWorker, worker)
  /\ manager.status # "down" =>
       \A i \in manager.initialized : Known(i, Len(toWorker) + 1, manager, toWorker, worker)

\* Where a call is that is not stranded, and who awaits it.
SentByParent(c) == \E m \in ToSet(toWorker) : m.cmd = "CALLBACK" /\ m.call = {c}
RunByWorker(c) == \E r \in worker.running : r.message.call = {c}
AnsweredByWorker(c) ==
  \E m \in ToSet(toParent) :
    m.cmd = "REPLY" /\ m.call = {c} /\ m.inst = calls[c].inst /\ m.replyTo = calls[c].cmdId
SentByWorker(c) == \E m \in ToSet(toParent) : m.cmd = "CALLBACK" /\ m.call = {c}
RunByManager(c) == \E m \in manager.running : m.call = {c}
AnsweredByManager(c) == \E m \in ToSet(toWorker) : m.cmd = "REPLY" /\ m.call = {c}
OnItsWay(c) ==
  IF calls[c].by = "parent" THEN SentByParent(c) \/ RunByWorker(c) \/ AnsweredByWorker(c)
  ELSE SentByWorker(c) \/ RunByManager(c) \/ AnsweredByManager(c)
Expected(c) ==
  IF calls[c].by = "parent" THEN \E n \in manager.queue : n.call = {c}
  ELSE \E n \in worker.handles[calls[c].handle].queue : n.call = {c}
FlightInv == \A c \in Calls : Pending(c) => Stranded(c) \/ (OnItsWay(c) /\ Expected(c))

IInv ==
  /\ TypeOK
  /\ NumbersInv
  /\ FunctionsInv
  /\ CallsInv
  /\ HandlesInv
  /\ KnownInv
  /\ FlightInv
  /\ RemoteFunctionIsOwn
  /\ ResultIsOfHandle

-----------------------------------------------------------------------------
(***************************************************************************)
(* Tables of functions.                                                    *)
(***************************************************************************)
\* A number that was given keeps its function.
Grown(s, t) == \A n \in DOMAIN s : n \in DOMAIN t /\ t[n] = s[n]

\* Registering gives the function one number and leaves those of the others.
LEMMA RegisterHas ==
  ASSUME NEW S, NEW table \in Seq(S), IsInjective(table), NEW fn \in S,
         NEW t, t = Register(table, fn)
  PROVE  /\ t \in Seq(S) /\ IsInjective(t) /\ Grown(table, t)
         /\ Has(t, IdOf(t, fn), fn) /\ IdOf(t, fn) \in Nat
<1>1. /\ t \in Seq(S) /\ IsInjective(t) /\ Grown(table, t)
      /\ \E n \in DOMAIN t : t[n] = fn
  <2>1. CASE fn \in ToSet(table)
    BY <2>1 DEF Register, ToSet, Grown
  <2>2. CASE fn \notin ToSet(table)
    <3>1. t = Append(table, fn)
      BY <2>2 DEF Register
    <3>2. /\ t \in Seq(S) /\ DOMAIN t = 1..(Len(table) + 1) /\ DOMAIN table = 1..Len(table)
          /\ Len(table) \in Nat
          /\ \A n \in 1..Len(table) : t[n] = table[n]
          /\ t[Len(table) + 1] = fn
      BY <3>1, AppendProperties, LenProperties
    <3>3. \A n \in 1..Len(table) : table[n] # fn
      BY <2>2, <3>2 DEF ToSet
    <3>4. IsInjective(t)
      BY <3>2, <3>3 DEF IsInjective
    <3> QED BY <3>2, <3>4 DEF Grown
  <2> QED BY <2>1, <2>2
<1>2. Has(t, IdOf(t, fn), fn)
  BY <1>1 DEF Has, IdOf
<1>3. IdOf(t, fn) \in Nat
  BY <1>1, <1>2, LenProperties DEF Has
<1> QED BY <1>1, <1>2, <1>3

LEMMA HasGrown ==
  ASSUME NEW s, NEW t, Grown(s, t), NEW n, NEW f, Has(s, n, f)
  PROVE  Has(t, n, f)
BY DEF Grown, Has

\* The table of the program has no more numbers than there are functions.
LEMMA IdsInRange ==
  ASSUME TypeOK, NEW n \in DOMAIN manager.callbacks
  PROVE  n \in 1..Cardinality(Functions)
<1>1. PICK s : s = manager.callbacks
  OBVIOUS
<1>2. s \in Seq(Functions) /\ IsInjective(s) /\ n \in DOMAIN s
  BY <1>1 DEF TypeOK, Manager
<1>3. Len(s) \in Nat /\ DOMAIN s = 1..Len(s) /\ s \in [1..Len(s) -> Functions]
  BY <1>2, LenProperties
<1>4. s \in Injection(1..Len(s), Functions)
  BY <1>2, <1>3 DEF Injection
<1>5. /\ Cardinality(1..Len(s)) <= Cardinality(Functions)
      /\ Cardinality(Functions) \in Nat
  BY <1>4, SetsAssumption, FS_Injection, FS_CardinalityType
<1>6. Cardinality(1..Len(s)) = Len(s)
  BY <1>3, FS_Interval
<1> QED BY <1>2, <1>3, <1>5, <1>6

-----------------------------------------------------------------------------
(***************************************************************************)
(* What every step but the close of the process respects.                  *)
(***************************************************************************)
CallsKept ==
  \A c \in Calls : calls[c].state # "idle" =>
    /\ calls'[c].state # "idle"
    /\ calls'[c].by = calls[c].by /\ calls'[c].fn = calls[c].fn
    /\ calls'[c].inst = calls[c].inst /\ calls'[c].process = calls[c].process
    /\ calls'[c].handle = calls[c].handle /\ calls'[c].cmdId = calls[c].cmdId

HandlesKept ==
  \A h \in DOMAIN worker.handles :
    /\ h \in DOMAIN worker'.handles
    /\ worker'.handles[h].inst = worker.handles[h].inst
    /\ worker.handles[h].cmdId <= worker'.handles[h].cmdId

\* The process stays, or a new one starts whose worker knows nothing.
SameProcess ==
  /\ manager'.process = manager.process
  /\ manager.status = "down" <=> manager'.status = "down"
  /\ manager'.status = "up" => manager.status = "up"
NextProcess ==
  /\ manager'.process = manager.process + 1
  /\ manager.status = "down" /\ manager'.status = "up"
  /\ worker' = worker

Proceeds ==
  /\ CallsKept
  /\ HandlesKept
  /\ SameProcess \/ NextProcess
  /\ manager.cmdId <= manager'.cmdId
  /\ manager.destroyed \subseteq manager'.destroyed
  /\ Grown(manager.callbacks, manager'.callbacks)
  /\ Grown(worker.callbacks, worker'.callbacks)

LEMMA SentTyped ==
  ASSUME TypeOK
  PROVE  Sent \subseteq Message /\ ToSet(toParent) \subseteq Message
BY ToSetTyped DEF TypeOK, Manager, Worker, Sent

LEMMA IsCallOfKept ==
  ASSUME CallsKept, NEW c \in Calls, NEW side, NEW m, NEW n, IsCallOf(side, c, m, n)
  PROVE  IsCallOf(side, c, m, n)'
BY DEF CallsKept, IsCallOf

LEMMA CallsBackKept ==
  ASSUME CallsKept, Grown(manager.callbacks, manager'.callbacks), NEW m, CallsBack(m)
  PROVE  CallsBack(m)'
<1>1. PICK c \in Calls : IsCallOf("worker", c, m, m.cmdId) /\ Has(manager.callbacks, m.id, calls[c].fn)
  BY DEF CallsBack
<1>2. IsCallOf("worker", c, m, m.cmdId)'
  BY <1>1, IsCallOfKept
<1>3. calls'[c].fn = calls[c].fn
  BY <1>1 DEF IsCallOf, CallsKept
<1>4. Has(manager'.callbacks, m.id, calls'[c].fn)
  BY <1>1, <1>3, HasGrown
<1> QED BY <1>2, <1>4 DEF CallsBack

LEMMA FromParentKept ==
  ASSUME TypeOK, TypeOK', CallsKept, manager.cmdId <= manager'.cmdId,
         manager.destroyed \subseteq manager'.destroyed,
         Grown(manager.callbacks, manager'.callbacks),
         NEW m \in Message, FromParent(m)
  PROVE  FromParent(m)'
<1>1. m.cmdId < manager'.cmdId
  BY DEF TypeOK, Manager, Message, FromParent
<1>2. m.cmd = "FUNCTION" =>
        \E f \in Functions : m.fn = {f} /\ Has(manager'.callbacks, m.id, f)
  BY HasGrown DEF FromParent
<1>3. /\ m.cmd = "CALLBACK" => \E c \in Calls : IsCallOf("parent", c, m, m.cmdId)'
      /\ m.cmd = "REPLY" => \E c \in Calls : IsCallOf("worker", c, m, m.replyTo)'
  BY IsCallOfKept DEF FromParent
<1>4. m.cmd = "KILL" => m.inst \in manager'.destroyed
  BY DEF FromParent
<1>5. /\ m.cmd \in {"INIT", "FUNCTION", "KILL", "CALLBACK", "REPLY"}
      /\ m.cmd \in {"INIT", "FUNCTION", "KILL"} => m.call = {}
  BY DEF FromParent
<1> QED BY <1>1, <1>2, <1>3, <1>4, <1>5 DEF FromParent

\* Messages stay tied to their calls if a message that appears has a new number.
LEMMA NumbersStep ==
  ASSUME TypeOK, TypeOK', Proceeds, NumbersInv,
         \A m \in Sent' : m \in Sent \/ (manager.cmdId <= m.cmdId /\ FromParent(m)'),
         \A m, n \in Sent' \ Sent : m.cmdId = n.cmdId => m = n,
         \A n \in manager'.queue :
           \/ n \in manager.queue
           \/ manager.cmdId <= n.cmdId /\ n.cmd \in {"FUNCTION", "KILL", "CALLBACK"},
         \A r \in worker'.running : r \in worker.running \/ r.message.cmd = "CALLBACK",
         \A m \in ToSet(toParent') : m \in ToSet(toParent) \/ FromWorker(m)',
         \A m \in manager'.running :
           m \in manager.running \/ (m.cmd = "CALLBACK" /\ CallsBack(m)')
  PROVE  NumbersInv'
<1>1. manager.cmdId \in Nat /\ manager'.cmdId \in Nat
  BY DEF TypeOK, Manager
<1>2. Sent \subseteq Message /\ Sent' \subseteq Message /\ ToSet(toParent) \subseteq Message
  BY SentTyped, ToSetTyped DEF TypeOK, Manager, Worker, Sent
<1>3. \A m \in Sent : m.cmdId \in Nat /\ m.cmdId < manager.cmdId
  BY <1>2 DEF Message, NumbersInv, FromParent
<1>4. \A m, n \in Sent' : m.cmdId = n.cmdId => m = n
  <2> SUFFICES ASSUME NEW m \in Sent', NEW n \in Sent', m.cmdId = n.cmdId PROVE m = n
    OBVIOUS
  <2>0. m.cmdId \in Nat /\ n.cmdId \in Nat
    BY <1>2 DEF Message
  <2>1. CASE m \in Sent /\ n \in Sent
    BY <2>1 DEF NumbersInv
  <2>2. CASE m \notin Sent /\ n \notin Sent
    BY <2>2
  <2>3. CASE m \in Sent /\ n \notin Sent
    BY <1>1, <1>3, <2>0, <2>3
  <2>4. CASE m \notin Sent /\ n \in Sent
    BY <1>1, <1>3, <2>0, <2>4
  <2> QED BY <2>1, <2>2, <2>3, <2>4
<1>5. \A m \in Sent' : FromParent(m)'
  BY <1>2, FromParentKept DEF NumbersInv, Proceeds
<1>6. \A m \in manager'.running : m.cmd = "CALLBACK" /\ CallsBack(m)'
  BY CallsBackKept DEF NumbersInv, Proceeds
<1>7. ASSUME NEW m \in ToSet(toParent) PROVE FromWorker(m)'
  <2>1. FromWorker(m) /\ m \in Message
    BY <1>2 DEF NumbersInv
  <2>2. CASE m.cmd = "CALLBACK" /\ CallsBack(m)
    BY <2>2, CallsBackKept DEF FromWorker, Proceeds
  <2>3. ASSUME Answers(m) PROVE Answers(m)'
    <3>1. m.replyTo \in Nat /\ m.replyTo < manager'.cmdId
      BY <1>1, <2>1, <2>3 DEF Message, Answers, Proceeds
    <3>2. ASSUME NEW n \in manager'.queue, n.cmdId = m.replyTo PROVE n.call = m.call
      <4>1. n \in manager.queue
        BY <1>1, <2>3, <3>1, <3>2 DEF Answers
      <4> QED BY <2>3, <3>2, <4>1 DEF Answers
    <3> QED BY <3>1, <3>2 DEF Answers
  <2>4. CASE m.cmd = "REPLY" /\ Answers(m)
    BY <2>3, <2>4 DEF FromWorker
  <2>5. CASE /\ m.cmd = "RESULT" /\ Answers(m) /\ m.call = {}
             /\ \E g \in WorkerFunctions : m.fn = {g} /\ Has(worker.callbacks, m.id, g)
    <3>1. \E g \in WorkerFunctions : m.fn = {g} /\ Has(worker'.callbacks, m.id, g)
      BY <2>5, HasGrown DEF Proceeds
    <3> QED BY <2>3, <2>5, <3>1 DEF FromWorker
  <2> QED BY <2>1, <2>2, <2>4, <2>5 DEF FromWorker
<1>8. /\ \A n \in manager'.queue : n.cmd \in {"FUNCTION", "KILL", "CALLBACK"}
      /\ \A r \in worker'.running : r.message.cmd = "CALLBACK"
      /\ \A m \in ToSet(toParent') : FromWorker(m)'
  BY <1>7 DEF NumbersInv
<1> QED BY <1>4, <1>5, <1>6, <1>8 DEF NumbersInv

\* Remote functions keep their numbers and handles.
LEMMA FunctionsStep ==
  ASSUME TypeOK, TypeOK', Proceeds, NumbersInv, FunctionsInv, HandlesInv,
         \A r \in manager'.remote :
           \/ r \in manager.remote
           \/ r.process = manager'.process /\ Has(worker'.callbacks, r.id, r.fn),
         \A m \in ToSet(toWorker') : m.cmd = "CALLBACK" =>
           \/ m \in ToSet(toWorker)
           \/ \A c \in m.call : calls'[c].process = manager'.process =>
                Has(worker'.callbacks, m.id, calls'[c].fn),
         \A r \in worker'.remote :
           \/ r \in worker.remote
           \/ Has(manager'.callbacks, r.id, r.fn) /\ worker'.remoteFns[r.id] # 0,
         \A n \in DOMAIN worker'.remoteFns :
           \/ worker'.remoteFns[n] = worker.remoteFns[n]
           \/ worker.remoteFns[n] = 0 /\ worker'.remoteFns[n] \in DOMAIN worker.handles
  PROVE  FunctionsInv'
<1>1. manager.process \in Nat /\ manager'.process \in Nat
  BY DEF TypeOK, Manager
<1>2. \A r \in manager'.remote :
        /\ r.process <= manager'.process
        /\ (r.process = manager'.process /\ manager'.status # "down") =>
             Has(worker'.callbacks, r.id, r.fn)
  <2> SUFFICES ASSUME NEW r \in manager.remote
               PROVE  /\ r.process <= manager'.process
                      /\ (r.process = manager'.process /\ manager'.status # "down") =>
                           Has(worker'.callbacks, r.id, r.fn)
    BY <1>1
  <2>1. r.process \in Nat /\ r.process <= manager.process
    BY DEF TypeOK, Manager, FunctionsInv
  <2>2. CASE SameProcess
    <3>1. ASSUME r.process = manager'.process, manager'.status # "down"
          PROVE  Has(worker'.callbacks, r.id, r.fn)
      <4>1. Has(worker.callbacks, r.id, r.fn)
        BY <2>2, <3>1 DEF FunctionsInv, SameProcess
      <4> QED BY <4>1, HasGrown DEF Proceeds
    <3> QED BY <2>1, <2>2, <3>1 DEF SameProcess
  <2>3. CASE NextProcess
    BY <1>1, <2>1, <2>3 DEF NextProcess
  <2> QED BY <2>2, <2>3 DEF Proceeds
<1>3. \A m \in ToSet(toWorker') : m.cmd = "CALLBACK" =>
        \A c \in m.call : calls'[c].process = manager'.process =>
          Has(worker'.callbacks, m.id, calls'[c].fn)
  <2> SUFFICES ASSUME NEW m \in ToSet(toWorker), m.cmd = "CALLBACK",
                      NEW c \in m.call, calls'[c].process = manager'.process
               PROVE  Has(worker'.callbacks, m.id, calls'[c].fn)
    OBVIOUS
  <2>1. c \in Calls /\ calls[c].state # "idle"
    <3>1. FromParent(m)
      BY DEF NumbersInv, Sent
    <3> QED BY <3>1 DEF FromParent, IsCallOf
  <2>2. calls'[c].process = calls[c].process /\ calls'[c].fn = calls[c].fn
    BY <2>1 DEF Proceeds, CallsKept
  <2>3. manager'.process = manager.process
    <3>1. CASE NextProcess
      BY <3>1 DEF NextProcess, HandlesInv, ToSet
    <3> QED BY <3>1 DEF Proceeds, SameProcess
  <2>4. Has(worker.callbacks, m.id, calls[c].fn)
    BY <2>2, <2>3 DEF FunctionsInv
  <2> QED BY <2>2, <2>4, HasGrown DEF Proceeds
<1>4. DOMAIN worker.remoteFns = 1..Cardinality(Functions) /\ DOMAIN worker'.remoteFns = 1..Cardinality(Functions)
  BY DEF TypeOK, Worker
<1>5. DOMAIN worker.handles \subseteq DOMAIN worker'.handles /\ 0 \notin DOMAIN worker.handles
  BY LenProperties DEF TypeOK, Worker, Proceeds, HandlesKept
<1>6. \A r \in worker'.remote :
        Has(manager'.callbacks, r.id, r.fn) /\ worker'.remoteFns[r.id] # 0
  <2> SUFFICES ASSUME NEW r \in worker.remote
               PROVE  Has(manager'.callbacks, r.id, r.fn) /\ worker'.remoteFns[r.id] # 0
    OBVIOUS
  <2>1. Has(manager.callbacks, r.id, r.fn) /\ worker.remoteFns[r.id] # 0
    BY DEF FunctionsInv
  <2>2. r.id \in DOMAIN worker'.remoteFns
    BY <1>4, <2>1, IdsInRange DEF Has
  <2> QED BY <2>1, <2>2, HasGrown DEF Proceeds
<1>7. \A n \in DOMAIN worker'.remoteFns :
        worker'.remoteFns[n] # 0 => worker'.remoteFns[n] \in DOMAIN worker'.handles
  BY <1>4, <1>5 DEF FunctionsInv
<1> QED BY <1>2, <1>3, <1>6, <1>7 DEF FunctionsInv

-----------------------------------------------------------------------------
(***************************************************************************)
(* What a step may do to the calls.                                        *)
(***************************************************************************)
Made(c) == calls[c].state = "idle" /\ calls'[c].state # "idle"

\* A class makes a call with the next number of a handle.
MadeByWorker(c) ==
  LET h == calls'[c].handle
  IN /\ manager.status # "down" /\ calls'[c].process = manager.process
     /\ manager'.process = manager.process
     /\ h \in DOMAIN worker.handles
     /\ calls'[c].cmdId = worker.handles[h].cmdId
     /\ calls'[c].inst = worker.handles[h].inst
     /\ worker.handles[h].cmdId < worker'.handles[h].cmdId

\* A call gets the result that the reply carries, or a function was run for it.
CallStep(c) ==
  \/ calls'[c] = calls[c]
  \/ /\ Made(c)
     /\ calls'[c].ran = {} /\ calls'[c].answer = {}
     /\ calls'[c].process <= manager'.process
     /\ calls'[c].by = "worker" => MadeByWorker(c)
  \/ /\ calls[c].state # "idle"
     /\ calls'[c].state = "pending" => calls[c].state = "pending"
     /\ \/ calls'[c].ran \subseteq calls[c].ran \cup {calls[c].fn}
        \/ calls[c].by = "parent" /\ calls[c].process < manager.process
     /\ \A d \in calls'[c].answer :
          d \in calls[c].answer \/ (calls[d].state # "idle" /\ (d = c \/ Mixed(c, d)))

CallsChange ==
  /\ \A c \in Calls : CallStep(c)
  /\ \A c, d \in Calls : Made(c) /\ Made(d) => c = d

LEMMA CallsSame ==
  ASSUME calls' = calls
  PROVE  CallsKept /\ CallsChange
BY DEF CallsKept, CallsChange, CallStep, Made

\* Calls that are mixed up stay so.
LEMMA MixedKept ==
  ASSUME CallsKept, NEW c \in Calls, NEW d \in Calls,
         calls[c].state # "idle", calls[d].state # "idle", Mixed(c, d)
  PROVE  Mixed(c, d)'
BY DEF CallsKept, Mixed

LEMMA HandleTyped ==
  ASSUME NEW s \in Seq(Handle), NEW h \in DOMAIN s
  PROVE  /\ h \in Nat \ {0}
         /\ s[h].inst \in Instances /\ s[h].cmdId \in Nat /\ s[h].queue \subseteq Message
<1>1. h \in 1..Len(s) /\ Len(s) \in Nat
  BY LenProperties
<1>2. s[h] \in Handle
  BY <1>1, ElementOfSeq
<1> QED BY <1>1, <1>2 DEF Handle

\* Calls keep to the functions, numbers and results that are their own.
LEMMA CallsStep ==
  ASSUME TypeOK, TypeOK', Proceeds, CallsInv, RemoteFunctionIsOwn, ResultIsOfHandle, CallsChange
  PROVE  CallsInv' /\ RemoteFunctionIsOwn' /\ ResultIsOfHandle'
<1>0. /\ manager.process \in Nat /\ manager'.process \in Nat
      /\ manager.process <= manager'.process
      /\ calls \in [Calls -> Call] /\ calls' \in [Calls -> Call]
      /\ \A c \in Calls : calls[c] \in Call /\ calls'[c] \in Call
      /\ CallsKept /\ HandlesKept
      /\ worker.handles \in Seq(Handle) /\ worker'.handles \in Seq(Handle)
  <2>1. manager.process \in Nat /\ manager'.process \in Nat
    BY DEF TypeOK, Manager
  <2>2. manager.process <= manager'.process
    BY <2>1 DEF Proceeds, SameProcess, NextProcess
  <2> QED BY <2>1, <2>2 DEF TypeOK, Worker, Proceeds
<1>1. \A c \in Calls : calls[c].process \in Nat /\ calls'[c].process \in Nat
                       /\ calls[c].cmdId \in Nat /\ calls'[c].cmdId \in Nat
                       /\ calls[c].answer \subseteq Calls /\ calls'[c].answer \subseteq Calls
  BY <1>0 DEF Call
<1>2. \A h \in DOMAIN worker.handles : worker.handles[h].cmdId \in Nat
  BY <1>0, HandleTyped
<1>3. \A h \in DOMAIN worker'.handles : worker'.handles[h].cmdId \in Nat
  BY <1>0, HandleTyped
<1>4. \A c \in Calls : calls'[c].process <= manager'.process
  <2> SUFFICES ASSUME NEW c \in Calls PROVE calls'[c].process <= manager'.process
    OBVIOUS
  <2>1. CASE Made(c)
    BY <1>0, <1>1, <2>1 DEF CallsChange, CallStep, Made, CallsInv
  <2>2. CASE ~Made(c)
    <3>1. calls'[c].process = calls[c].process
      BY <1>0, <2>2 DEF CallsChange, CallStep, Made, CallsKept
    <3> QED BY <1>0, <1>1, <3>1 DEF CallsInv
  <2> QED BY <2>1, <2>2
<1>5. \A c \in Calls : calls'[c].state = "idle" => calls'[c].ran = {} /\ calls'[c].answer = {}
  BY <1>0 DEF CallsChange, CallStep, CallsInv, Made, CallsKept
<1>6. ASSUME NEW c \in Calls, calls'[c].by = "worker", calls'[c].state # "idle",
             calls'[c].process = manager'.process, manager'.status # "down"
      PROVE  OfHandle(c, calls[c].handle)' \/ (Made(c) /\ MadeByWorker(c))
  <2>1. CASE Made(c)
    BY <1>6, <2>1 DEF CallsChange, CallStep, Made
  <2>2. CASE ~Made(c)
    <3>1. /\ calls[c].state # "idle"
          /\ calls'[c].by = calls[c].by /\ calls'[c].process = calls[c].process
          /\ calls'[c].inst = calls[c].inst
          /\ calls'[c].handle = calls[c].handle /\ calls'[c].cmdId = calls[c].cmdId
      BY <1>0, <1>6, <2>2 DEF Made, CallsKept
    <3>2. manager'.process = manager.process /\ manager.status # "down"
      <4>1. CASE SameProcess
        BY <1>6, <4>1 DEF SameProcess
      <4>2. CASE NextProcess
        <5>1. calls[c].process <= manager.process /\ calls[c].process \in Nat
          BY <1>1 DEF CallsInv
        <5>2. calls[c].process = manager.process + 1
          BY <1>6, <3>1, <4>2 DEF NextProcess
        <5>3. FALSE
          BY <1>0, <5>1, <5>2
        <5> QED BY <5>3
      <4> QED BY <4>1, <4>2 DEF Proceeds
    <3>3. OfHandle(c, calls[c].handle)
      BY <1>6, <3>1, <3>2 DEF CallsInv
    <3>4. PICK h : h = calls[c].handle
      OBVIOUS
    <3>5. /\ h \in DOMAIN worker.handles /\ worker.handles[h].inst = calls[c].inst
          /\ calls[c].cmdId < worker.handles[h].cmdId
      BY <3>3, <3>4 DEF OfHandle
    <3>6. /\ h \in DOMAIN worker'.handles /\ worker'.handles[h].inst = calls[c].inst
          /\ worker.handles[h].cmdId <= worker'.handles[h].cmdId
      BY <1>0, <3>5 DEF HandlesKept
    <3>7. calls'[c].cmdId < worker'.handles[h].cmdId
      BY <1>1, <1>2, <1>3, <3>1, <3>5, <3>6
    <3> QED BY <3>1, <3>4, <3>6, <3>7 DEF OfHandle
  <2> QED BY <2>1, <2>2
<1>7. \A c \in Calls :
        (calls'[c].by = "worker" /\ calls'[c].state # "idle"
           /\ calls'[c].process = manager'.process /\ manager'.status # "down")
          => OfHandle(c, calls[c].handle)'
  <2> SUFFICES ASSUME NEW c \in Calls, calls'[c].by = "worker", calls'[c].state # "idle",
                      calls'[c].process = manager'.process, manager'.status # "down",
                      Made(c), MadeByWorker(c)
               PROVE  OfHandle(c, calls[c].handle)'
    BY <1>6
  <2>1. PICK h : h = calls'[c].handle
    OBVIOUS
  <2>2. /\ h \in DOMAIN worker.handles
        /\ calls'[c].cmdId = worker.handles[h].cmdId
        /\ calls'[c].inst = worker.handles[h].inst
        /\ worker.handles[h].cmdId < worker'.handles[h].cmdId
    BY <2>1 DEF MadeByWorker
  <2>3. h \in DOMAIN worker'.handles /\ worker'.handles[h].inst = worker.handles[h].inst
    BY <1>0, <2>2 DEF HandlesKept
  <2> QED BY <2>1, <2>2, <2>3 DEF OfHandle
<1>8. ASSUME NEW c \in Calls, NEW d \in Calls,
             calls'[c].by = "worker", calls'[c].state # "idle",
             calls'[d].by = "worker", calls'[d].state # "idle",
             calls'[c].process = calls'[d].process, calls'[c].handle = calls'[d].handle,
             calls'[c].cmdId = calls'[d].cmdId
      PROVE  c = d
  <2>1. \A e \in {c, d} : ~Made(e) =>
          /\ calls[e].by = "worker" /\ calls[e].state # "idle"
          /\ calls'[e].process = calls[e].process
          /\ calls'[e].handle = calls[e].handle /\ calls'[e].cmdId = calls[e].cmdId
    BY <1>0, <1>8 DEF Made, CallsKept
  <2>2. ASSUME NEW e \in Calls, NEW f \in {c, d}, e \in {c, d}, Made(e), ~Made(f),
               calls'[e].process = calls'[f].process, calls'[e].handle = calls'[f].handle,
               calls'[e].cmdId = calls'[f].cmdId
        PROVE  FALSE
    <3>1. MadeByWorker(e)
      BY <1>8, <2>2 DEF CallsChange, CallStep, Made
    <3>2. PICK h : h = calls'[e].handle
      OBVIOUS
    <3>3. /\ manager.status # "down" /\ calls'[e].process = manager.process
          /\ h \in DOMAIN worker.handles /\ calls'[e].cmdId = worker.handles[h].cmdId
      BY <3>1, <3>2 DEF MadeByWorker
    <3>4. /\ calls[f].by = "worker" /\ calls[f].state # "idle"
          /\ calls[f].process = manager.process /\ calls[f].handle = h
          /\ calls[f].cmdId = worker.handles[h].cmdId
      BY <2>1, <2>2, <3>2, <3>3
    <3>5. OfHandle(f, h)
      BY <3>3, <3>4 DEF CallsInv
    <3> QED BY <1>2, <3>3, <3>4, <3>5 DEF OfHandle
  <2>3. CASE Made(c) /\ Made(d)
    BY <2>3 DEF CallsChange
  <2>4. CASE ~Made(c) /\ ~Made(d)
    BY <1>8, <2>1, <2>4 DEF CallsInv
  <2>5. Made(c) <=> Made(d)
    BY <1>8, <2>2
  <2> QED BY <2>3, <2>4, <2>5
<1>9. \A c \in Calls : Pending(c)' /\ calls'[c].by = "worker" =>
        manager'.status # "down" /\ calls'[c].process = manager'.process
  <2> SUFFICES ASSUME NEW c \in Calls, calls'[c].state = "pending", calls'[c].by = "worker"
               PROVE  manager'.status # "down" /\ calls'[c].process = manager'.process
    BY DEF Pending
  <2>1. CASE Made(c)
    <3>1. manager.status # "down" /\ calls'[c].process = manager.process
          /\ manager'.process = manager.process
      BY <2>1 DEF CallsChange, CallStep, Made, MadeByWorker
    <3> QED BY <1>0, <3>1 DEF Proceeds, SameProcess, NextProcess
  <2>2. CASE ~Made(c)
    <3>1. /\ calls[c].state # "idle" /\ calls[c].by = "worker"
          /\ calls'[c].process = calls[c].process
      BY <1>0, <2>2 DEF Made, CallsKept
    <3>2. calls[c].state = "pending"
      BY <2>2 DEF CallsChange, CallStep
    <3>3. manager.status # "down" /\ calls[c].process = manager.process
      BY <3>1, <3>2 DEF CallsInv, Pending
    <3> QED BY <3>1, <3>3 DEF Proceeds, SameProcess, NextProcess
  <2> QED BY <2>1, <2>2
<1>10. \A c \in Calls : \A d \in calls'[c].answer :
         calls[d].state # "idle" /\ (d = c \/ Mixed(c, d)) /\ calls[c].state # "idle"
  <2> SUFFICES ASSUME NEW c \in Calls, NEW d \in calls'[c].answer
               PROVE  calls[d].state # "idle" /\ (d = c \/ Mixed(c, d)) /\ calls[c].state # "idle"
    OBVIOUS
  <2>1. CASE d \in calls[c].answer
    BY <1>1, <2>1 DEF CallsInv, ResultIsOfHandle
  <2>2. CASE d \notin calls[c].answer
    BY <2>2 DEF CallsChange, CallStep
  <2> QED BY <2>1, <2>2
<1>11. \A c \in Calls : \A d \in calls'[c].answer :
         calls'[d].state # "idle" /\ (d = c \/ Mixed(c, d)')
  BY <1>0, <1>1, <1>10, MixedKept DEF CallsKept
<1>12. RemoteFunctionIsOwn'
  <2> SUFFICES ASSUME NEW c \in Calls
               PROVE  \/ calls'[c].ran \subseteq {calls'[c].fn}
                      \/ calls'[c].by = "parent" /\ calls'[c].process < manager'.process
    BY DEF RemoteFunctionIsOwn
  <2>1. CASE calls[c].state = "idle"
    BY <2>1 DEF CallsChange, CallStep, Made, CallsInv
  <2>2. CASE calls[c].state # "idle"
    <3>1. /\ calls'[c].fn = calls[c].fn /\ calls'[c].by = calls[c].by
          /\ calls'[c].process = calls[c].process
      BY <1>0, <2>2 DEF CallsKept
    <3>2. \/ calls'[c].ran \subseteq calls[c].ran \cup {calls[c].fn}
          \/ calls[c].by = "parent" /\ calls[c].process < manager.process
      BY <2>2 DEF CallsChange, CallStep, Made
    <3>3. \/ calls[c].ran \subseteq {calls[c].fn}
          \/ calls[c].by = "parent" /\ calls[c].process < manager.process
      BY DEF RemoteFunctionIsOwn
    <3> QED BY <1>0, <1>1, <3>1, <3>2, <3>3
  <2> QED BY <2>1, <2>2
<1>13. CallsInv'
  BY <1>4, <1>5, <1>7, <1>8, <1>9, <1>11 DEF CallsInv
<1>14. ResultIsOfHandle'
  BY <1>11 DEF ResultIsOfHandle
<1> QED BY <1>12, <1>13, <1>14

-----------------------------------------------------------------------------
(***************************************************************************)
(* What a step may do to the handles, and to what the worker knows.        *)
(***************************************************************************)
\* The handle h awaits the reply to n.
Awaits(h, n) ==
  \E c \in Calls :
    /\ IsCallOf("worker", c, n, n.cmdId)
    /\ n.inst = worker.handles[h].inst
    /\ calls[c].handle = h /\ calls[c].process = manager.process

LEMMA HandlesStep ==
  ASSUME TypeOK, TypeOK', Proceeds, HandlesInv,
         manager'.status = "down" => UNCHANGED <<worker, toWorker, toParent>>,
         \A i \in Instances :
           \/ worker'.current[i] = worker.current[i]
           \/ worker'.current[i] = 0
           \/ /\ worker'.current[i] \in DOMAIN worker'.handles
              /\ worker'.handles[worker'.current[i]].inst = i,
         manager.initialized \subseteq manager'.initialized \/ NextProcess,
         \A h \in DOMAIN worker'.handles :
           \/ /\ h \in DOMAIN worker.handles
              /\ \A n \in worker'.handles[h].queue : n \in worker.handles[h].queue \/ Awaits(h, n)'
           \/ /\ worker'.handles[h].inst \in manager'.initialized
              /\ worker'.handles[h].queue = {},
         \A r \in worker'.running :
           \/ r \in worker.running
           \/ /\ r.handle \in DOMAIN worker'.handles
              /\ worker'.handles[r.handle].inst = r.message.inst
  PROVE  HandlesInv'
<1>0. HandlesKept /\ CallsKept
  BY DEF Proceeds
<1>1. manager'.status = "down" => worker' = NewWorker /\ toWorker' = <<>> /\ toParent' = <<>>
  <2>1. manager'.status = "down" => manager.status = "down"
    BY DEF Proceeds, SameProcess, NextProcess
  <2> QED BY <2>1 DEF HandlesInv
<1>2. \A i \in Instances : worker'.current[i] # 0 =>
        worker'.current[i] \in DOMAIN worker'.handles /\ worker'.handles[worker'.current[i]].inst = i
  BY <1>0 DEF HandlesInv, HandlesKept
<1>3. ASSUME NEW h \in DOMAIN worker'.handles
      PROVE  /\ worker'.handles[h].inst \in manager'.initialized
             /\ \A n \in worker'.handles[h].queue : Awaits(h, n)'
  <2>1. CASE NextProcess
    <3>1. worker'.handles = <<>>
      BY <2>1 DEF NextProcess, HandlesInv, NewWorker
    <3> QED BY <3>1
  <2>2. CASE h \in DOMAIN worker.handles /\ manager.initialized \subseteq manager'.initialized
             /\ SameProcess
    <3>1. worker'.handles[h].inst = worker.handles[h].inst
      BY <1>0, <2>2 DEF HandlesKept
    <3>2. ASSUME NEW n \in worker.handles[h].queue PROVE Awaits(h, n)'
      <4>1. PICK c \in Calls :
              /\ IsCallOf("worker", c, n, n.cmdId)
              /\ n.inst = worker.handles[h].inst
              /\ calls[c].handle = h /\ calls[c].process = manager.process
        BY <2>2 DEF HandlesInv
      <4>2. IsCallOf("worker", c, n, n.cmdId)'
        BY <1>0, <4>1, IsCallOfKept
      <4>3. calls'[c].handle = h /\ calls'[c].process = manager'.process
        BY <1>0, <2>2, <4>1 DEF IsCallOf, CallsKept, SameProcess
      <4> QED BY <3>1, <4>1, <4>2, <4>3 DEF Awaits
    <3> QED BY <2>2, <3>1, <3>2 DEF HandlesInv
  <2> QED BY <2>1, <2>2 DEF Proceeds
<1>4. \A r \in worker'.running :
        r.handle \in DOMAIN worker'.handles /\ worker'.handles[r.handle].inst = r.message.inst
  BY <1>0 DEF HandlesInv, HandlesKept
<1> QED BY <1>1, <1>2, <1>3, <1>4 DEF HandlesInv, Awaits

\* Messages that are appended leave what the worker will know at the others.
LEMMA KnownStep ==
  ASSUME TypeOK, TypeOK', KnownInv, HandlesInv, NEW new \in Seq(Message),
         toWorker' = toWorker \o new,
         worker'.current = worker.current,
         manager.destroyed \subseteq manager'.destroyed,
         Instances \ manager'.destroyed \subseteq manager'.instances,
         manager.status = "down" \/ manager.initialized \subseteq manager'.initialized,
         \A k \in 1..Len(new) :
           \/ new[k].cmd = "INIT" /\ new[k].inst \in manager'.initialized
           \/ new[k].cmd # "INIT" /\ manager.status # "down" /\ new[k].inst \in manager.initialized,
         manager'.status # "down" => \A i \in manager'.initialized :
           \/ manager.status # "down" /\ i \in manager.initialized
           \/ i \in manager'.destroyed
           \/ \E k \in 1..Len(new) : new[k].cmd = "INIT" /\ new[k].inst = i
  PROVE  KnownInv'
<1>0. /\ toWorker \in Seq(Message)
      /\ Len(new) \in Nat /\ Len(toWorker) \in Nat /\ DOMAIN toWorker = 1..Len(toWorker)
      /\ Len(toWorker') = Len(toWorker) + Len(new)
      /\ DOMAIN toWorker' = 1..(Len(toWorker) + Len(new))
      /\ \A k \in 1..(Len(toWorker) + Len(new)) :
           toWorker'[k] = IF k <= Len(toWorker) THEN toWorker[k] ELSE new[k - Len(toWorker)]
  BY ConcatProperties, LenProperties DEF TypeOK
<1>1. ASSUME NEW i, NEW k \in 1..(Len(toWorker) + 1), Known(i, k, manager, toWorker, worker),
             NEW n \in Nat, k <= n
      PROVE  Known(i, n, manager', toWorker', worker')
  <2>1. CASE i \in manager.destroyed \/ worker.current[i] # 0
    BY <2>1 DEF Known
  <2>2. ASSUME NEW j \in 1..(k - 1), toWorker[j].cmd = "INIT" /\ toWorker[j].inst = i
        PROVE  Known(i, n, manager', toWorker', worker')
    <3>1. j \in 1..(n - 1) /\ j \in 1..(Len(toWorker) + Len(new)) /\ j <= Len(toWorker)
      BY <1>0, <1>1
    <3>2. toWorker'[j] = toWorker[j]
      BY <1>0, <3>1
    <3> QED BY <2>2, <3>1, <3>2 DEF Known
  <2> QED BY <1>1, <2>1, <2>2 DEF Known
<1> DEFINE here == Len(toWorker) + 1
<1>2. here \in 1..(Len(toWorker) + 1)
  BY <1>0
<1>3. ASSUME manager'.status # "down", NEW i \in manager'.initialized
      PROVE  Known(i, Len(toWorker') + 1, manager', toWorker', worker')
  <2>1. CASE manager.status # "down" /\ i \in manager.initialized
    <3>1. Known(i, here, manager, toWorker, worker)
      BY <2>1 DEF KnownInv
    <3>2. Len(toWorker') + 1 \in Nat /\ here <= Len(toWorker') + 1
      BY <1>0
    <3> HIDE DEF here
    <3> QED BY <1>1, <1>2, <3>1, <3>2
  <2>2. CASE i \in manager'.destroyed
    BY <2>2 DEF Known
  <2>3. ASSUME NEW k \in 1..Len(new), new[k].cmd = "INIT" /\ new[k].inst = i
        PROVE  Known(i, Len(toWorker') + 1, manager', toWorker', worker')
    <3>1. /\ Len(toWorker) + k \in 1..((Len(toWorker') + 1) - 1)
          /\ toWorker'[Len(toWorker) + k] = new[k]
      BY <1>0
    <3> QED BY <2>3, <3>1 DEF Known
  <2> QED BY <1>3, <2>1, <2>2, <2>3
<1>4. ASSUME NEW k \in 1..(Len(toWorker) + Len(new))
      PROVE  /\ toWorker'[k].cmd = "INIT" => toWorker'[k].inst \in manager'.initialized
             /\ toWorker'[k].cmd # "INIT" =>
                  Known(toWorker'[k].inst, k, manager', toWorker', worker')
  <2>1. CASE k <= Len(toWorker)
    <3>1. toWorker'[k] = toWorker[k] /\ k \in 1..Len(toWorker) /\ k \in 1..(Len(toWorker) + 1)
          /\ k \in Nat /\ k <= k
      BY <1>0, <2>1
    <3>2. manager.status # "down"
      BY <1>0, <3>1 DEF HandlesInv
    <3>3. /\ toWorker[k].cmd = "INIT" => toWorker[k].inst \in manager.initialized
          /\ toWorker[k].cmd # "INIT" => Known(toWorker[k].inst, k, manager, toWorker, worker)
      BY <1>0, <3>1 DEF KnownInv
    <3> QED BY <1>1, <3>1, <3>2, <3>3
  <2>2. CASE ~(k <= Len(toWorker))
    <3>1. k - Len(toWorker) \in 1..Len(new) /\ toWorker'[k] = new[k - Len(toWorker)]
          /\ k \in Nat /\ here <= k
      BY <1>0, <2>2
    <3>2. CASE toWorker'[k].cmd = "INIT"
      BY <3>1, <3>2
    <3>3. CASE toWorker'[k].cmd # "INIT"
      <4>1. Known(toWorker'[k].inst, here, manager, toWorker, worker)
        BY <3>1, <3>3 DEF KnownInv
      <4> HIDE DEF here
      <4> QED BY <1>1, <1>2, <3>1, <3>3, <4>1
    <3> QED BY <3>2, <3>3
  <2> QED BY <2>1, <2>2
<1> QED BY <1>0, <1>3, <1>4 DEF KnownInv

\* The message that the worker takes is known by then to those behind it.
LEMMA KnownTail ==
  ASSUME TypeOK, TypeOK', KnownInv, toWorker # <<>>, toWorker' = Tail(toWorker),
         manager' = manager,
         \A i \in Instances :
           worker.current[i] # 0 => worker'.current[i] # 0 \/ i \in manager.destroyed,
         Head(toWorker).cmd = "INIT" => worker'.current[Head(toWorker).inst] # 0
  PROVE  KnownInv'
<1>0. /\ toWorker \in Seq(Message)
      /\ Len(toWorker) \in Nat \ {0} /\ DOMAIN toWorker = 1..Len(toWorker)
      /\ Head(toWorker) = toWorker[1]
      /\ Len(toWorker') = Len(toWorker) - 1
      /\ DOMAIN toWorker' = 1..(Len(toWorker) - 1)
      /\ \A k \in 1..(Len(toWorker) - 1) : toWorker'[k] = toWorker[k + 1]
  BY HeadTailProperties, LenProperties, EmptySeq DEF TypeOK
<1>1. ASSUME NEW i \in Instances, NEW k \in 1..Len(toWorker),
             Known(i, k + 1, manager, toWorker, worker)
      PROVE  Known(i, k, manager', toWorker', worker')
  <2>1. CASE i \in manager.destroyed \/ worker.current[i] # 0
    BY <2>1 DEF Known
  <2>2. ASSUME NEW j \in 1..((k + 1) - 1), toWorker[j].cmd = "INIT", toWorker[j].inst = i
        PROVE  Known(i, k, manager', toWorker', worker')
    <3>1. CASE j = 1
      BY <1>0, <2>2, <3>1 DEF Known
    <3>2. CASE j # 1
      <4>1. j - 1 \in 1..(k - 1) /\ j - 1 \in 1..(Len(toWorker) - 1) /\ (j - 1) + 1 = j
        BY <1>0, <3>2
      <4>2. toWorker'[j - 1] = toWorker[j]
        BY <1>0, <4>1
      <4> QED BY <2>2, <4>1, <4>2 DEF Known
    <3> QED BY <3>1, <3>2
  <2> QED BY <1>1, <2>1, <2>2 DEF Known
<1>2. \A i \in manager.initialized : i \in Instances
  BY DEF TypeOK, Manager
<1>3. ASSUME manager.status # "down", NEW i \in manager.initialized
      PROVE  Known(i, Len(toWorker') + 1, manager', toWorker', worker')
  <2>1. Known(i, Len(toWorker) + 1, manager, toWorker, worker)
    BY <1>3 DEF KnownInv
  <2>2. Len(toWorker) \in 1..Len(toWorker) /\ Len(toWorker') + 1 = Len(toWorker)
    BY <1>0
  <2> QED BY <1>1, <1>2, <2>1, <2>2
<1>4. ASSUME NEW k \in 1..(Len(toWorker) - 1)
      PROVE  /\ toWorker'[k].cmd = "INIT" => toWorker'[k].inst \in manager'.initialized
             /\ toWorker'[k].cmd # "INIT" =>
                  Known(toWorker'[k].inst, k, manager', toWorker', worker')
  <2>1. k + 1 \in 1..Len(toWorker) /\ k \in 1..Len(toWorker) /\ toWorker'[k] = toWorker[k + 1]
    BY <1>0
  <2>2. toWorker[k + 1].inst \in Instances
    <3>1. toWorker[k + 1] \in Message
      BY <1>0, <2>1, ElementOfSeq
    <3> QED BY <3>1 DEF Message
  <2>3. /\ toWorker[k + 1].cmd = "INIT" => toWorker[k + 1].inst \in manager.initialized
        /\ toWorker[k + 1].cmd # "INIT" =>
             Known(toWorker[k + 1].inst, k + 1, manager, toWorker, worker)
    BY <1>0, <2>1 DEF KnownInv
  <2> QED BY <1>1, <2>1, <2>2, <2>3
<1> QED BY <1>0, <1>3, <1>4 DEF KnownInv

-----------------------------------------------------------------------------
(***************************************************************************)
(* Calls on their way.                                                     *)
(***************************************************************************)
\* A call that is stranded stays so: a handle that was replaced does not return.
LEMMA StrandedKept ==
  ASSUME TypeOK, TypeOK', Proceeds, CallsInv,
         \A i \in Instances :
           worker'.current[i] = worker.current[i] \/ worker'.current[i] \notin DOMAIN worker.handles,
         NEW c \in Calls, Pending(c), Stranded(c)
  PROVE  Stranded(c)'
<1>1. /\ calls'[c].inst = calls[c].inst /\ calls'[c].by = calls[c].by
      /\ calls'[c].handle = calls[c].handle /\ calls'[c].process = calls[c].process
      /\ calls[c].by \in {"parent", "worker"}
      /\ calls[c].inst \in Instances /\ calls[c].process \in Nat
      /\ manager.process \in Nat /\ manager'.process \in Nat
      /\ calls[c].process <= manager.process
  <2>1. calls[c] \in Call /\ calls[c].state # "idle"
    BY DEF TypeOK, Pending
  <2> QED BY <2>1 DEF Proceeds, CallsKept, CallsInv, Call, Side, TypeOK, Manager
<1>2. CASE NextProcess
  <2>1. calls[c].process < manager'.process
    BY <1>1, <1>2 DEF NextProcess
  <2>2. calls[c].by # "worker"
    BY <1>2 DEF NextProcess, CallsInv
  <2> QED BY <1>1, <2>1, <2>2 DEF Stranded
<1>3. CASE SameProcess
  <2>1. CASE calls[c].inst \in manager.destroyed
    BY <1>1, <2>1 DEF Proceeds, Stranded
  <2>2. CASE calls[c].by = "parent" /\ calls[c].process < manager.process
    BY <1>1, <1>3, <2>2 DEF SameProcess, Stranded
  <2>3. CASE manager.status # "up"
    BY <1>3, <2>3 DEF SameProcess, Stranded
  <2>4. CASE calls[c].by = "worker" /\ calls[c].handle # worker.current[calls[c].inst]
    <3>1. OfHandle(c, calls[c].handle)
      BY <2>4 DEF CallsInv, Pending
    <3>2. calls[c].handle # worker'.current[calls[c].inst]
      BY <1>1, <2>4, <3>1 DEF OfHandle
    <3> QED BY <1>1, <2>4, <3>2 DEF Stranded
  <2> QED BY <2>1, <2>2, <2>3, <2>4 DEF Stranded
<1> QED BY <1>2, <1>3 DEF Proceeds

\* Every call that stays pending must stay on its way, and be awaited.
LEMMA FlightStep ==
  ASSUME TypeOK, TypeOK', Proceeds, CallsInv, FlightInv, CallsChange,
         \A i \in Instances :
           worker'.current[i] = worker.current[i] \/ worker'.current[i] \notin DOMAIN worker.handles,
         \A c \in Calls :
           (Made(c) /\ Pending(c)') => Stranded(c)' \/ (OnItsWay(c)' /\ Expected(c)'),
         \A c \in Calls :
           (Pending(c) /\ Pending(c)' /\ ~Stranded(c)' /\ OnItsWay(c) /\ Expected(c)) =>
             OnItsWay(c)' /\ Expected(c)'
  PROVE  FlightInv'
<1> SUFFICES ASSUME NEW c \in Calls, Pending(c)', ~Stranded(c)'
             PROVE  OnItsWay(c)' /\ Expected(c)'
  BY DEF FlightInv
<1>1. CASE Made(c)
  BY <1>1
<1>2. CASE ~Made(c)
  <2>1. Pending(c)
    BY <1>2 DEF CallsChange, CallStep, Made, Pending
  <2>2. ~Stranded(c)
    BY <2>1, StrandedKept
  <2> QED BY <2>1, <2>2 DEF FlightInv
<1> QED BY <1>1, <1>2

-----------------------------------------------------------------------------
(***************************************************************************)
(* Steps of the manager that send messages, or none.                       *)
(***************************************************************************)
\* The instances that the worker is told of, and those that are spoken to.
ManagerNames(new) ==
  /\ \A k \in 1..Len(new) :
       \/ new[k].cmd = "INIT" /\ new[k].inst \in manager'.initialized
       \/ new[k].cmd # "INIT" /\ manager.status # "down" /\ new[k].inst \in manager.initialized
  /\ manager'.status # "down" => \A i \in manager'.initialized :
       \/ manager.status # "down" /\ i \in manager.initialized
       \/ i \in manager'.destroyed
       \/ \E k \in 1..Len(new) : new[k].cmd = "INIT" /\ new[k].inst = i
  /\ manager.initialized \subseteq manager'.initialized \/ NextProcess
  /\ manager.destroyed \subseteq manager'.destroyed
  /\ Instances \ manager'.destroyed \subseteq manager'.instances

ManagerSends(new) ==
  /\ toWorker' = toWorker \o new
  /\ UNCHANGED <<worker, toParent>>
  /\ SameProcess \/ NextProcess
  /\ manager'.status = "down" => new = <<>>
  /\ manager.cmdId + Len(new) <= manager'.cmdId
  /\ Grown(manager.callbacks, manager'.callbacks)
  /\ manager.queue \subseteq manager'.queue
  /\ manager'.queue \subseteq manager.queue \cup ToSet(new)
  /\ \A n \in manager'.queue : n \in manager.queue \/ n.cmd \in {"FUNCTION", "KILL", "CALLBACK"}
  /\ manager'.running \subseteq manager.running
  /\ manager'.remote = manager.remote
  /\ \A k \in 1..Len(new) :
       /\ new[k].cmdId = manager.cmdId + k - 1
       /\ FromParent(new[k])'
       /\ new[k].cmd = "CALLBACK" => \A c \in new[k].call :
            calls'[c].process = manager'.process =>
              Has(worker.callbacks, new[k].id, calls'[c].fn)
  /\ ManagerNames(new)

LEMMA ManagerSendsGood ==
  ASSUME IInv, TypeOK', CallsKept, CallsChange, NEW new \in Seq(Message), ManagerSends(new),
         \A c \in Calls : (Made(c) /\ Pending(c)') =>
           \/ Stranded(c)'
           \/ /\ calls'[c].by = "parent"
              /\ \E m \in ToSet(new) : m.cmd = "CALLBACK" /\ m.call = {c} /\ m \in manager'.queue,
         \A m \in manager.running : \A c \in Calls :
           (m.call = {c} /\ m \notin manager'.running /\ Pending(c)) =>
             Stranded(c)' \/ \E n \in ToSet(new) : n.cmd = "REPLY" /\ n.call = {c}
  PROVE  IInv'
<1>0. /\ TypeOK /\ NumbersInv /\ FunctionsInv /\ CallsInv /\ HandlesInv /\ KnownInv /\ FlightInv
      /\ RemoteFunctionIsOwn /\ ResultIsOfHandle
      /\ toWorker \in Seq(Message)
      /\ manager.cmdId \in Nat /\ manager'.cmdId \in Nat
      /\ Len(new) \in Nat /\ DOMAIN new = 1..Len(new)
  BY LenProperties DEF IInv, TypeOK, Manager
<1>1. ToSet(toWorker') = ToSet(toWorker) \cup ToSet(new)
  BY <1>0, ToSetConcat DEF ManagerSends
<1>2. worker' = worker /\ toParent' = toParent
  BY DEF ManagerSends
<1>3. Proceeds
  <2>1. HandlesKept /\ Grown(worker.callbacks, worker'.callbacks)
    <3>1. \A h \in DOMAIN worker.handles : worker.handles[h].cmdId \in Nat
      BY <1>0, HandleTyped DEF TypeOK, Worker
    <3> QED BY <1>2, <3>1 DEF HandlesKept, Grown
  <2>2. manager.cmdId <= manager'.cmdId
    BY <1>0 DEF ManagerSends
  <2> QED BY <2>1, <2>2 DEF Proceeds, ManagerSends, ManagerNames
<1>4. NumbersInv'
  <2>1. \A m \in ToSet(new) : manager.cmdId <= m.cmdId /\ FromParent(m)'
    BY <1>0 DEF ManagerSends, ToSet
  <2>2. Sent' \subseteq Sent \cup ToSet(new)
    BY <1>1, <1>2 DEF Sent, ManagerSends
  <2>3. \A m, n \in Sent' \ Sent : m.cmdId = n.cmdId => m = n
    <3> SUFFICES ASSUME NEW j \in 1..Len(new), NEW k \in 1..Len(new),
                        new[j].cmdId = new[k].cmdId
                 PROVE  new[j] = new[k]
      BY <1>0, <2>2 DEF ToSet
    <3>1. PICK id : id = manager.cmdId
      OBVIOUS
    <3>2. new[j].cmdId = id + j - 1 /\ new[k].cmdId = id + k - 1
      BY <3>1 DEF ManagerSends
    <3>3. id + j - 1 = id + k - 1
      BY <3>2
    <3>4. j \in Nat /\ k \in Nat /\ id \in Nat
      BY <1>0, <3>1
    <3>5. j = k
      BY <3>3, <3>4
    <3> QED BY <3>5
  <2>4. \A n \in manager'.queue :
          \/ n \in manager.queue
          \/ manager.cmdId <= n.cmdId /\ n.cmd \in {"FUNCTION", "KILL", "CALLBACK"}
    BY <2>1 DEF ManagerSends
  <2>5. \A m \in manager'.running : m \in manager.running
    BY DEF ManagerSends
  <2>6. \A m \in Sent' : m \in Sent \/ (manager.cmdId <= m.cmdId /\ FromParent(m)')
    BY <2>1, <2>2
  <2> QED BY <1>0, <1>2, <1>3, <2>3, <2>4, <2>5, <2>6, NumbersStep
<1>5. FunctionsInv'
  <2>1. \A m \in ToSet(new) : m.cmd = "CALLBACK" => \A c \in m.call :
          calls'[c].process = manager'.process => Has(worker'.callbacks, m.id, calls'[c].fn)
    BY <1>0, <1>2 DEF ManagerSends, ToSet
  <2>2. manager'.remote = manager.remote
    BY DEF ManagerSends
  <2> QED BY <1>0, <1>1, <1>2, <1>3, <2>1, <2>2, FunctionsStep
<1>6. CallsInv' /\ RemoteFunctionIsOwn' /\ ResultIsOfHandle'
  BY <1>0, <1>3, CallsStep
<1>7. HandlesInv'
  <2>1. manager'.status = "down" => UNCHANGED <<worker, toWorker, toParent>>
    <3>1. toWorker \o <<>> = toWorker
      BY <1>0, ConcatEmptySeq
    <3> QED BY <1>2, <3>1 DEF ManagerSends
  <2>2. \A i \in Instances : worker'.current[i] = worker.current[i]
    BY <1>2
  <2>3. manager.initialized \subseteq manager'.initialized \/ NextProcess
    BY DEF ManagerSends, ManagerNames
  <2>4. \A h \in DOMAIN worker'.handles : h \in DOMAIN worker.handles
          /\ \A n \in worker'.handles[h].queue : n \in worker.handles[h].queue
    BY <1>2
  <2>5. \A r \in worker'.running : r \in worker.running
    BY <1>2
  <2> QED BY <1>0, <1>3, <2>1, <2>2, <2>3, <2>4, <2>5, HandlesStep
<1>8. KnownInv'
  <2>1. /\ toWorker' = toWorker \o new /\ worker'.current = worker.current
        /\ manager.destroyed \subseteq manager'.destroyed
        /\ Instances \ manager'.destroyed \subseteq manager'.instances
        /\ manager.status = "down" \/ manager.initialized \subseteq manager'.initialized
    BY <1>2 DEF ManagerSends, ManagerNames, NextProcess
  <2>2. /\ \A k \in 1..Len(new) :
             \/ new[k].cmd = "INIT" /\ new[k].inst \in manager'.initialized
             \/ new[k].cmd # "INIT" /\ manager.status # "down" /\ new[k].inst \in manager.initialized
        /\ manager'.status # "down" => \A i \in manager'.initialized :
             \/ manager.status # "down" /\ i \in manager.initialized
             \/ i \in manager'.destroyed
             \/ \E k \in 1..Len(new) : new[k].cmd = "INIT" /\ new[k].inst = i
    BY DEF ManagerSends, ManagerNames
  <2> QED BY <1>0, <2>1, <2>2, KnownStep
<1>9. FlightInv'
  <2>1. ASSUME NEW c \in Calls, Made(c), Pending(c)'
        PROVE  Stranded(c)' \/ (OnItsWay(c)' /\ Expected(c)')
    <3>1. CASE Stranded(c)'
      BY <3>1
    <3>2. CASE /\ calls'[c].by = "parent"
               /\ \E m \in ToSet(new) : m.cmd = "CALLBACK" /\ m.call = {c} /\ m \in manager'.queue
      BY <1>1, <3>2 DEF OnItsWay, Expected, SentByParent
    <3> QED BY <2>1, <3>1, <3>2
  <2>2. ASSUME NEW c \in Calls, Pending(c), Pending(c)', ~Stranded(c)', OnItsWay(c), Expected(c)
        PROVE  OnItsWay(c)' /\ Expected(c)'
    <3>1. calls'[c].by = calls[c].by /\ calls'[c].inst = calls[c].inst
          /\ calls'[c].handle = calls[c].handle /\ calls'[c].cmdId = calls[c].cmdId
      BY <2>2 DEF CallsKept, Pending
    <3>2. Expected(c)'
      BY <1>2, <2>2, <3>1 DEF Expected, ManagerSends
    <3>3. ToSet(toWorker) \subseteq ToSet(toWorker') /\ ToSet(new) \subseteq ToSet(toWorker')
      BY <1>1
    <3>4. SentByParent(c) => SentByParent(c)'
      BY <3>3 DEF SentByParent
    <3>5. RunByWorker(c) => RunByWorker(c)'
      BY <1>2 DEF RunByWorker
    <3>6. AnsweredByWorker(c) => AnsweredByWorker(c)'
      BY <1>2, <3>1 DEF AnsweredByWorker
    <3>7. SentByWorker(c) => SentByWorker(c)'
      BY <1>2 DEF SentByWorker
    <3>8. RunByManager(c) => RunByManager(c)' \/ AnsweredByManager(c)'
      BY <2>2, <3>3 DEF RunByManager, AnsweredByManager
    <3>9. AnsweredByManager(c) => AnsweredByManager(c)'
      BY <3>3 DEF AnsweredByManager
    <3> QED BY <2>2, <3>1, <3>2, <3>4, <3>5, <3>6, <3>7, <3>8, <3>9 DEF OnItsWay
  <2> QED BY <1>0, <1>2, <1>3, <2>1, <2>2, FlightStep
<1> QED BY <1>4, <1>5, <1>6, <1>7, <1>8, <1>9 DEF IInv

-----------------------------------------------------------------------------
(***************************************************************************)
(* Steps of the worker, and messages that the manager takes.               *)
(***************************************************************************)
\* What the worker takes from a channel or ends is answered.
WorkerAnswers ==
  /\ \A m \in ToSet(toWorker) : \A c \in Calls :
       (m.call = {c} /\ m \notin ToSet(toWorker') /\ Pending(c)' /\ ~Stranded(c)') =>
         IF m.cmd = "CALLBACK" THEN RunByWorker(c)' \/ AnsweredByWorker(c)'
         ELSE m.cmd # "REPLY"
  /\ \A r \in worker.running : \A c \in Calls :
       (r.message.call = {c} /\ r \notin worker'.running /\ Pending(c)' /\ ~Stranded(c)') =>
         AnsweredByWorker(c)'
  /\ \A c \in Calls :
       (Pending(c) /\ Pending(c)' /\ calls[c].by = "worker") =>
         \A n \in worker.handles[calls[c].handle].queue :
           n.call = {c} => n \in worker'.handles[calls[c].handle].queue
  /\ \A c \in Calls : (Made(c) /\ Pending(c)') =>
       calls'[c].by = "worker" /\ SentByWorker(c)' /\ Expected(c)'

\* What the worker notes down.
WorkerNotes ==
  /\ \A m \in ToSet(toParent') : m \in ToSet(toParent) \/ FromWorker(m)'
  /\ \A r \in worker'.running :
       \/ r \in worker.running
       \/ /\ r.message \in ToSet(toWorker) /\ r.message.cmd = "CALLBACK"
          /\ r.handle \in DOMAIN worker'.handles
          /\ worker'.handles[r.handle].inst = r.message.inst
  /\ \A r \in worker'.remote :
       \/ r \in worker.remote
       \/ Has(manager.callbacks, r.id, r.fn) /\ worker'.remoteFns[r.id] # 0
  /\ \A n \in DOMAIN worker'.remoteFns :
       \/ worker'.remoteFns[n] = worker.remoteFns[n]
       \/ worker.remoteFns[n] = 0 /\ worker'.remoteFns[n] \in DOMAIN worker.handles
  /\ \A i \in Instances :
       \/ worker'.current[i] = worker.current[i]
       \/ /\ worker'.current[i] \notin DOMAIN worker.handles
          /\ worker'.current[i] # 0 =>
               /\ worker'.current[i] \in DOMAIN worker'.handles
               /\ worker'.handles[worker'.current[i]].inst = i
  /\ \A h \in DOMAIN worker'.handles :
       \/ /\ h \in DOMAIN worker.handles
          /\ \A n \in worker'.handles[h].queue : n \in worker.handles[h].queue \/ Awaits(h, n)'
       \/ /\ worker'.handles[h].inst \in manager.initialized
          /\ worker'.handles[h].queue = {}

LEMMA WorkerGood ==
  ASSUME IInv, TypeOK', manager' = manager, manager.status # "down",
         CallsKept, CallsChange, HandlesKept, Grown(worker.callbacks, worker'.callbacks),
         ToSet(toParent) \subseteq ToSet(toParent'), ToSet(toWorker') \subseteq ToSet(toWorker),
         WorkerNotes, WorkerAnswers, KnownInv'
  PROVE  IInv'
<1>0. /\ TypeOK /\ NumbersInv /\ FunctionsInv /\ CallsInv /\ HandlesInv /\ FlightInv
      /\ RemoteFunctionIsOwn /\ ResultIsOfHandle
      /\ manager.cmdId \in Nat
  BY DEF IInv, TypeOK, Manager
<1>1. Proceeds
  <2>1. SameProcess
    BY DEF SameProcess
  <2>2. Grown(manager.callbacks, manager'.callbacks) /\ manager.cmdId <= manager'.cmdId
    BY <1>0 DEF Grown
  <2> QED BY <2>1, <2>2 DEF Proceeds
<1>2. NumbersInv'
  <2>1. Sent' \subseteq Sent
    <3>1. \A r \in worker'.running : r.message \in Sent
      BY DEF WorkerNotes, Sent
    <3> QED BY <3>1 DEF Sent
  <2>2. /\ \A r \in worker'.running : r \in worker.running \/ r.message.cmd = "CALLBACK"
        /\ \A m \in ToSet(toParent') : m \in ToSet(toParent) \/ FromWorker(m)'
    BY DEF WorkerNotes
  <2> QED BY <1>0, <1>1, <2>1, <2>2, NumbersStep
<1>3. FunctionsInv'
  <2>1. /\ \A r \in worker'.remote :
             \/ r \in worker.remote
             \/ Has(manager'.callbacks, r.id, r.fn) /\ worker'.remoteFns[r.id] # 0
        /\ \A n \in DOMAIN worker'.remoteFns :
             \/ worker'.remoteFns[n] = worker.remoteFns[n]
             \/ worker.remoteFns[n] = 0 /\ worker'.remoteFns[n] \in DOMAIN worker.handles
    BY DEF WorkerNotes
  <2> QED BY <1>0, <1>1, <2>1, FunctionsStep
<1>4. CallsInv' /\ RemoteFunctionIsOwn' /\ ResultIsOfHandle'
  BY <1>0, <1>1, CallsStep
<1>5. HandlesInv'
  <2>1. \A i \in Instances :
          \/ worker'.current[i] = worker.current[i]
          \/ worker'.current[i] = 0
          \/ /\ worker'.current[i] \in DOMAIN worker'.handles
             /\ worker'.handles[worker'.current[i]].inst = i
    BY DEF WorkerNotes
  <2>2. /\ \A h \in DOMAIN worker'.handles :
             \/ /\ h \in DOMAIN worker.handles
                /\ \A n \in worker'.handles[h].queue :
                     n \in worker.handles[h].queue \/ Awaits(h, n)'
             \/ /\ worker'.handles[h].inst \in manager'.initialized
                /\ worker'.handles[h].queue = {}
        /\ \A r \in worker'.running :
             \/ r \in worker.running
             \/ /\ r.handle \in DOMAIN worker'.handles
                /\ worker'.handles[r.handle].inst = r.message.inst
    BY DEF WorkerNotes
  <2>3. manager'.status # "down" /\ manager.initialized \subseteq manager'.initialized
    OBVIOUS
  <2> QED BY <1>0, <1>1, <2>1, <2>2, <2>3, HandlesStep
<1>6. FlightInv'
  <2>1. ASSUME NEW c \in Calls, Made(c), Pending(c)' PROVE OnItsWay(c)' /\ Expected(c)'
    BY <2>1 DEF WorkerAnswers, OnItsWay
  <2>2. ASSUME NEW c \in Calls, Pending(c), Pending(c)', ~Stranded(c)', OnItsWay(c), Expected(c)
        PROVE  OnItsWay(c)' /\ Expected(c)'
    <3>1. calls'[c].by = calls[c].by /\ calls'[c].inst = calls[c].inst
          /\ calls'[c].handle = calls[c].handle /\ calls'[c].cmdId = calls[c].cmdId
      BY <2>2 DEF CallsKept, Pending
    <3>2. Expected(c)'
      <4>1. calls[c].by \in {"parent", "worker"}
        BY <1>0 DEF TypeOK, Call, Side
      <4> QED BY <2>2, <3>1, <4>1 DEF Expected, WorkerAnswers
    <3>3. SentByParent(c) => SentByParent(c)' \/ RunByWorker(c)' \/ AnsweredByWorker(c)'
      BY <2>2 DEF SentByParent, WorkerAnswers
    <3>4. RunByWorker(c) => RunByWorker(c)' \/ AnsweredByWorker(c)'
      BY <2>2 DEF RunByWorker, WorkerAnswers
    <3>5. AnsweredByWorker(c) => AnsweredByWorker(c)'
      BY <3>1 DEF AnsweredByWorker
    <3>6. SentByWorker(c) => SentByWorker(c)'
      BY DEF SentByWorker
    <3>7. RunByManager(c) => RunByManager(c)'
      BY DEF RunByManager
    <3>8. AnsweredByManager(c) => AnsweredByManager(c)'
      BY <2>2 DEF AnsweredByManager, WorkerAnswers
    <3> QED BY <2>2, <3>1, <3>2, <3>3, <3>4, <3>5, <3>6, <3>7, <3>8 DEF OnItsWay
  <2>3. \A i \in Instances :
          worker'.current[i] = worker.current[i] \/ worker'.current[i] \notin DOMAIN worker.handles
    BY DEF WorkerNotes
  <2> QED BY <1>0, <1>1, <2>1, <2>2, <2>3, FlightStep
<1> QED BY <1>2, <1>3, <1>4, <1>5, <1>6 DEF IInv

\* The manager takes a message.
LEMMA ManagerTakesGood ==
  ASSUME IInv, TypeOK', NEW m, ManagerReceives(m), CallsKept, CallsChange,
         \A c \in Calls : ~Made(c),
         manager'.status = manager.status, manager'.process = manager.process,
         manager'.cmdId = manager.cmdId, manager'.callbacks = manager.callbacks,
         manager'.initialized = manager.initialized, manager'.destroyed = manager.destroyed,
         manager'.queue \subseteq manager.queue, manager.running \subseteq manager'.running,
         Instances \ manager.destroyed \subseteq manager'.instances,
         \A n \in manager'.running : n \in manager.running \/ (n.cmd = "CALLBACK" /\ CallsBack(n)'),
         \A r \in manager'.remote :
           r \in manager.remote \/ (r.process = manager.process /\ Has(worker.callbacks, r.id, r.fn)),
         \A c \in Calls : (m.call = {c} /\ Pending(c)' /\ ~Stranded(c)') =>
           /\ m.cmd = "CALLBACK" => RunByManager(c)'
           /\ ~(/\ m.cmd = "REPLY" /\ calls[c].by = "parent"
                /\ m.inst = calls[c].inst /\ m.replyTo = calls[c].cmdId /\ Expected(c)),
         \A n \in manager.queue : \A c \in Calls :
           (n.call = {c} /\ calls[c].by = "parent" /\ Pending(c)') => n \in manager'.queue
  PROVE  IInv'
<1>0. /\ TypeOK /\ NumbersInv /\ FunctionsInv /\ CallsInv /\ HandlesInv /\ FlightInv /\ KnownInv
      /\ RemoteFunctionIsOwn /\ ResultIsOfHandle
      /\ manager.cmdId \in Nat /\ toWorker \in Seq(Message) /\ toParent \in Seq(Message)
  BY DEF IInv, TypeOK, Manager
<1>1. worker' = worker /\ toWorker' = toWorker /\ manager.status # "down"
  BY DEF ManagerReceives
<1>2. /\ toParent # <<>> /\ m = Head(toParent) /\ toParent' = Tail(toParent)
      /\ ToSet(toParent) = {m} \cup ToSet(toParent')
  BY <1>0, ToSetTail DEF ManagerReceives
<1>3. Proceeds
  <2>1. HandlesKept
    <3>1. \A h \in DOMAIN worker.handles : worker.handles[h].cmdId \in Nat
      BY <1>0, HandleTyped DEF TypeOK, Worker
    <3> QED BY <1>1, <3>1 DEF HandlesKept
  <2>2. SameProcess /\ manager.cmdId <= manager'.cmdId
    BY <1>0, <1>1 DEF SameProcess
  <2> QED BY <1>1, <2>1, <2>2 DEF Proceeds, Grown
<1>4. NumbersInv'
  <2>1. Sent' \subseteq Sent
    BY <1>1 DEF Sent
  <2>2. /\ \A n \in manager'.queue : n \in manager.queue
        /\ \A r \in worker'.running : r \in worker.running
        /\ \A n \in ToSet(toParent') : n \in ToSet(toParent)
    BY <1>1, <1>2
  <2> QED BY <1>0, <1>3, <2>1, <2>2, NumbersStep
<1>5. FunctionsInv'
  BY <1>0, <1>1, <1>3, FunctionsStep
<1>6. CallsInv' /\ RemoteFunctionIsOwn' /\ ResultIsOfHandle'
  BY <1>0, <1>3, CallsStep
<1>7. HandlesInv'
  BY <1>0, <1>1, <1>3, HandlesStep
<1>8. KnownInv'
  <2> DEFINE new == <<>>
  <2>1. toWorker' = toWorker \o new /\ new \in Seq(Message) /\ \A k \in 1..Len(new) : FALSE
    BY <1>0, <1>1, ConcatEmptySeq
  <2>2. /\ worker'.current = worker.current
        /\ manager.destroyed \subseteq manager'.destroyed
        /\ Instances \ manager'.destroyed \subseteq manager'.instances
        /\ manager.initialized \subseteq manager'.initialized
    BY <1>1
  <2>3. manager'.status # "down" =>
          \A i \in manager'.initialized : manager.status # "down" /\ i \in manager.initialized
    BY <1>1
  <2> HIDE DEF new
  <2> QED BY <1>0, <2>1, <2>2, <2>3, KnownStep
<1>9. FlightInv'
  <2>2. ASSUME NEW c \in Calls, Pending(c), Pending(c)', ~Stranded(c)', OnItsWay(c), Expected(c)
        PROVE  OnItsWay(c)' /\ Expected(c)'
    <3>1. calls'[c].by = calls[c].by /\ calls'[c].inst = calls[c].inst
          /\ calls'[c].handle = calls[c].handle /\ calls'[c].cmdId = calls[c].cmdId
      BY <2>2 DEF CallsKept, Pending
    <3>2. Expected(c)'
      <4>1. CASE calls[c].by = "parent"
        <5>1. PICK n \in manager.queue : n.call = {c}
          BY <2>2, <4>1 DEF Expected
        <5>2. n \in manager'.queue
          BY <2>2, <4>1, <5>1
        <5> QED BY <3>1, <4>1, <5>1, <5>2 DEF Expected
      <4>2. CASE calls[c].by # "parent"
        BY <1>1, <2>2, <3>1, <4>2 DEF Expected
      <4> QED BY <4>1, <4>2
    <3>3. SentByParent(c) => SentByParent(c)'
      BY <1>1 DEF SentByParent
    <3>4. RunByWorker(c) => RunByWorker(c)'
      BY <1>1 DEF RunByWorker
    <3>5. AnsweredByWorker(c) /\ calls[c].by = "parent" => AnsweredByWorker(c)'
      BY <1>2, <2>2, <3>1 DEF AnsweredByWorker
    <3>6. SentByWorker(c) => SentByWorker(c)' \/ RunByManager(c)'
      BY <1>2, <2>2 DEF SentByWorker
    <3>7. RunByManager(c) => RunByManager(c)'
      BY DEF RunByManager
    <3>8. AnsweredByManager(c) => AnsweredByManager(c)'
      BY <1>1 DEF AnsweredByManager
    <3> QED BY <2>2, <3>1, <3>2, <3>3, <3>4, <3>5, <3>6, <3>7, <3>8 DEF OnItsWay
  <2> QED BY <1>0, <1>1, <1>3, <2>2, FlightStep
<1> QED BY <1>4, <1>5, <1>6, <1>7, <1>8, <1>9 DEF IInv

\* The process closes: the worker is gone, and with it the calls of its classes.
LEMMA CloseGood ==
  ASSUME IInv, TypeOK', Close
  PROVE  IInv'
<1>0. /\ TypeOK /\ NumbersInv /\ FunctionsInv /\ CallsInv /\ HandlesInv /\ FlightInv /\ KnownInv
      /\ RemoteFunctionIsOwn /\ ResultIsOfHandle
  BY DEF IInv
<1>1. /\ manager' = [manager EXCEPT !.status = "down"]
      /\ manager \in Manager
      /\ worker' = NewWorker /\ toWorker' = <<>> /\ toParent' = <<>>
      /\ ToSet(toWorker') = {} /\ ToSet(toParent') = {}
  BY <1>0, ToSetEmpty DEF Close, TypeOK
<1>2. /\ manager'.status = "down" /\ manager'.process = manager.process
      /\ manager'.instances = manager.instances /\ manager'.cmdId = manager.cmdId
      /\ manager'.callbacks = manager.callbacks /\ manager'.queue = manager.queue
      /\ manager'.running = manager.running /\ manager'.remote = manager.remote
      /\ manager'.destroyed = manager.destroyed
  BY <1>1 DEF Manager
<1>3. /\ worker'.handles = <<>> /\ worker'.remote = {} /\ worker'.running = {}
      /\ \A i \in Instances : worker'.current[i] = 0
      /\ \A n \in DOMAIN worker'.remoteFns : worker'.remoteFns[n] = 0
  BY <1>1 DEF NewWorker
<1>4. ASSUME NEW c \in Calls
      PROVE  /\ calls'[c].by = calls[c].by /\ calls'[c].fn = calls[c].fn
             /\ calls'[c].inst = calls[c].inst /\ calls'[c].process = calls[c].process
             /\ calls'[c].handle = calls[c].handle /\ calls'[c].cmdId = calls[c].cmdId
             /\ calls'[c].ran = calls[c].ran /\ calls'[c].answer = calls[c].answer
             /\ calls'[c].state = "idle" <=> calls[c].state = "idle"
             /\ ~(calls'[c].state = "pending" /\ calls[c].by = "worker")
  <2>1. calls[c] \in Call
    BY <1>0 DEF TypeOK
  <2>2. calls'[c] = IF calls[c].by = "worker" /\ calls[c].state = "pending"
                    THEN [calls[c] EXCEPT !.state = "lost"] ELSE calls[c]
    BY DEF Close
  <2> QED BY <2>1, <2>2 DEF Call
<1>5. CallsKept
  BY <1>4 DEF CallsKept
<1>6. NumbersInv'
  <2>1. Sent' \subseteq Sent /\ Sent \subseteq Message
    BY <1>0, <1>1, <1>2, <1>3, SentTyped DEF Sent
  <2>2. manager.cmdId <= manager'.cmdId /\ Grown(manager.callbacks, manager'.callbacks)
    BY <1>1, <1>2 DEF Manager, Grown
  <2>3. \A m \in Sent' : FromParent(m)'
    BY <1>0, <1>2, <1>5, <2>1, <2>2, FromParentKept DEF NumbersInv
  <2>4. \A m \in manager'.running : m.cmd = "CALLBACK" /\ CallsBack(m)'
    BY <1>0, <1>2, <1>5, <2>2, CallsBackKept DEF NumbersInv
  <2>5. \A m, n \in Sent' : m.cmdId = n.cmdId => m = n
    BY <1>0, <2>1 DEF NumbersInv
  <2> QED BY <1>0, <1>1, <1>2, <1>3, <2>3, <2>4, <2>5 DEF NumbersInv
<1>7. FunctionsInv'
  BY <1>0, <1>1, <1>2, <1>3 DEF FunctionsInv
<1>8. CallsInv'
  <2>1. /\ \A c \in Calls : calls'[c].process <= manager'.process
        /\ \A c \in Calls : calls'[c].state = "idle" => calls'[c].ran = {} /\ calls'[c].answer = {}
        /\ \A c \in Calls : ~(Pending(c)' /\ calls'[c].by = "worker")
    BY <1>0, <1>2, <1>4 DEF CallsInv, Pending
  <2>2. \A c, d \in Calls :
          (/\ calls'[c].by = "worker" /\ calls'[c].state # "idle"
           /\ calls'[d].by = "worker" /\ calls'[d].state # "idle"
           /\ calls'[c].process = calls'[d].process /\ calls'[c].handle = calls'[d].handle
           /\ calls'[c].cmdId = calls'[d].cmdId) => c = d
    BY <1>0, <1>4 DEF CallsInv
  <2>3. \A c \in Calls : \A d \in calls'[c].answer : calls'[d].state # "idle"
    <3>1. \A c \in Calls : calls[c].answer \subseteq Calls
      BY <1>0 DEF TypeOK, Call
    <3> QED BY <1>0, <1>4, <3>1 DEF CallsInv
  <2> QED BY <1>2, <2>1, <2>2, <2>3 DEF CallsInv
<1>9. HandlesInv'
  BY <1>1, <1>3 DEF HandlesInv
<1>10. KnownInv'
  <2>1. DOMAIN toWorker' = {}
    BY <1>1
  <2> QED BY <1>0, <1>2, <2>1 DEF KnownInv
<1>11. FlightInv'
  BY <1>2 DEF FlightInv, Stranded
<1>12. RemoteFunctionIsOwn'
  BY <1>0, <1>2, <1>4 DEF RemoteFunctionIsOwn
<1>13. ResultIsOfHandle'
  <2> SUFFICES ASSUME NEW c \in Calls, NEW d \in calls[c].answer, d # c
               PROVE  Mixed(c, d)'
    BY <1>4 DEF ResultIsOfHandle
  <2>1. d \in Calls /\ Mixed(c, d)
    BY <1>0 DEF TypeOK, Call, ResultIsOfHandle
  <2> QED BY <1>4, <2>1 DEF Mixed
<1> QED BY <1>6, <1>7, <1>8, <1>9, <1>10, <1>11, <1>12, <1>13 DEF IInv

-----------------------------------------------------------------------------
(***************************************************************************)
(* The steps of the manager.                                               *)
(***************************************************************************)
\* Nothing is sent.
LEMMA NothingSentGood ==
  ASSUME IInv, TypeOK', CallsKept, CallsChange, UNCHANGED <<worker, toWorker, toParent>>,
         SameProcess, manager.cmdId <= manager'.cmdId,
         Grown(manager.callbacks, manager'.callbacks),
         manager'.queue = manager.queue, manager'.running \subseteq manager.running,
         manager'.remote = manager.remote, manager'.initialized = manager.initialized,
         manager.destroyed \subseteq manager'.destroyed,
         Instances \ manager'.destroyed \subseteq manager'.instances,
         \A c \in Calls : (Made(c) /\ Pending(c)') => Stranded(c)',
         \A m \in manager.running : \A c \in Calls :
           (m.call = {c} /\ m \notin manager'.running /\ Pending(c)) => Stranded(c)'
  PROVE  IInv'
<1> DEFINE new == <<>>
<1>1. /\ toWorker' = toWorker \o new /\ new \in Seq(Message) /\ Len(new) = 0 /\ ToSet(new) = {}
      /\ manager.cmdId \in Nat /\ manager'.cmdId \in Nat
  BY ConcatEmptySeq, ToSetEmpty DEF IInv, TypeOK, Manager
<1>2. ManagerNames(new)
  <2> HIDE DEF new
  <2> QED BY <1>1 DEF ManagerNames, SameProcess
<1>3. ManagerSends(new)
  <2>1. manager'.status = "down" => new = <<>>
    OBVIOUS
  <2> HIDE DEF new
  <2> QED BY <1>1, <1>2, <2>1 DEF ManagerSends
<1> HIDE DEF new
<1> QED BY <1>1, <1>3, ManagerSendsGood

\* One message is sent, that is no INIT.
LEMMA OneSentGood ==
  ASSUME IInv, TypeOK', CallsKept, CallsChange, NEW m \in Message,
         toWorker' = Append(toWorker, m), UNCHANGED <<worker, toParent>>,
         manager.status = "up", SameProcess, manager'.cmdId = manager.cmdId + 1,
         Grown(manager.callbacks, manager'.callbacks),
         \/ manager'.queue = manager.queue
         \/ /\ manager'.queue = manager.queue \cup {m}
            /\ m.cmd \in {"FUNCTION", "KILL", "CALLBACK"},
         manager'.running \subseteq manager.running,
         manager'.remote = manager.remote, manager'.initialized = manager.initialized,
         manager.destroyed \subseteq manager'.destroyed,
         Instances \ manager'.destroyed \subseteq manager'.instances,
         m.cmd # "INIT", m.cmdId = manager.cmdId, m.inst \in manager.initialized, FromParent(m)',
         m.cmd = "CALLBACK" => \A c \in m.call :
           calls'[c].process = manager'.process => Has(worker.callbacks, m.id, calls'[c].fn),
         \A c \in Calls : (Made(c) /\ Pending(c)') =>
           calls'[c].by = "parent" /\ m.cmd = "CALLBACK" /\ m.call = {c} /\ m \in manager'.queue,
         \A n \in manager.running : \A c \in Calls :
           (n.call = {c} /\ n \notin manager'.running /\ Pending(c)) =>
             Stranded(c)' \/ (m.cmd = "REPLY" /\ m.call = {c})
  PROVE  IInv'
<1>0. toWorker \in Seq(Message) /\ manager.cmdId \in Nat
  BY DEF IInv, TypeOK, Manager
<1> DEFINE new == <<m>>
<1>1. /\ toWorker' = toWorker \o new /\ new \in Seq(Message) /\ Len(new) = 1 /\ new[1] = m
      /\ m \in ToSet(new) /\ ToSet(new) \subseteq {m}
  BY <1>0, AppendIsConcat, OneElement DEF ToSet
<1> HIDE DEF new
<1>2. ManagerNames(new)
  BY <1>1 DEF ManagerNames, SameProcess
<1>3. ManagerSends(new)
  <2>1. /\ manager'.status # "down" /\ manager.cmdId + Len(new) <= manager'.cmdId
        /\ manager'.queue \subseteq manager.queue \cup ToSet(new)
        /\ manager.queue \subseteq manager'.queue
        /\ \A n \in manager'.queue : n \in manager.queue \/ n.cmd \in {"FUNCTION", "KILL", "CALLBACK"}
    BY <1>0, <1>1 DEF SameProcess
  <2>2. \A k \in 1..Len(new) :
          /\ new[k] = m /\ new[k].cmdId = manager.cmdId + k - 1
          /\ FromParent(new[k])'
    BY <1>0, <1>1
  <2> QED BY <1>1, <1>2, <2>1, <2>2 DEF ManagerSends
<1> QED BY <1>1, <1>3, ManagerSendsGood

\* Parts of the invariant that the steps of the manager use.
LEMMA ManagerTyped ==
  ASSUME IInv
  PROVE  /\ TypeOK /\ manager \in Manager
         /\ manager.callbacks \in Seq(Functions) /\ IsInjective(manager.callbacks)
         /\ manager.process \in Nat /\ manager.cmdId \in Nat
         /\ manager.queue \subseteq Message /\ manager.running \subseteq Message
         /\ toWorker \in Seq(Message) /\ toParent \in Seq(Message)
         /\ calls \in [Calls -> Call]
         /\ Instances \ manager.destroyed \subseteq manager.instances
BY DEF IInv, KnownInv, TypeOK, Manager

LEMMA NewMessageTyped ==
  ASSUME NEW cmd \in {"INIT", "FUNCTION", "KILL", "CALLBACK", "REPLY", "RESULT"},
         NEW i \in Instances, NEW n \in Nat
  PROVE  NewMessage(cmd, i, n) \in Message
BY DEF NewMessage, Message

\* The manager sends a message, and has the queue q then.
SendsWith(mgr, q, m) ==
  /\ manager' = [mgr EXCEPT !.cmdId = @ + 1, !.queue = q]
  /\ toWorker' = Append(toWorker, m)

\* The fields of the manager that has sent a message, or has failed to.
LEMMA SendFields ==
  ASSUME NEW mgr \in Manager, NEW m \in Message, NEW q \in SUBSET Message,
         toWorker \in Seq(Message), SendsWith(mgr, q, m)
  PROVE  /\ manager' \in Manager /\ manager'.callbacks = mgr.callbacks
         /\ manager'.cmdId = mgr.cmdId + 1 /\ manager'.queue = q
         /\ manager'.status = mgr.status /\ manager'.initialized = mgr.initialized
         /\ manager'.process = mgr.process
         /\ manager'.instances = mgr.instances /\ manager'.destroyed = mgr.destroyed
         /\ manager'.running = mgr.running /\ manager'.remote = mgr.remote
         /\ toWorker' = Append(toWorker, m) /\ toWorker' \in Seq(Message)
<1>1. PICK n : n = mgr.cmdId + 1
  OBVIOUS
<1>2. n \in Nat
  BY <1>1 DEF Manager
<1>3. manager' = [mgr EXCEPT !.cmdId = n, !.queue = q]
  BY <1>1 DEF SendsWith
<1>4. manager' \in Manager
  BY <1>2, <1>3 DEF Manager
<1>5. toWorker' \in Seq(Message)
  BY AppendProperties DEF SendsWith
<1> QED BY <1>1, <1>3, <1>4, <1>5 DEF Manager, SendsWith

LEMMA NotSentFields ==
  ASSUME NEW mgr \in Manager, NotSent(mgr)
  PROVE  /\ manager' \in Manager /\ manager'.callbacks = mgr.callbacks
         /\ mgr.cmdId <= manager'.cmdId /\ manager'.queue = mgr.queue
         /\ manager'.status = mgr.status /\ manager'.initialized = mgr.initialized
         /\ manager'.process = mgr.process
         /\ manager'.instances = mgr.instances /\ manager'.destroyed = mgr.destroyed
         /\ manager'.running = mgr.running /\ manager'.remote = mgr.remote
         /\ toWorker' = toWorker
<1>1. PICK n : n = IF mgr.status = "up" THEN mgr.cmdId + 1 ELSE mgr.cmdId
  OBVIOUS
<1>2. n \in Nat /\ mgr.cmdId <= n
  BY <1>1 DEF Manager
<1>3. manager' = [mgr EXCEPT !.cmdId = n]
  BY <1>1 DEF NotSent
<1>4. manager' \in Manager
  BY <1>2, <1>3 DEF Manager
<1> QED BY <1>2, <1>3, <1>4 DEF Manager, NotSent

LEMMA PassGood ==
  ASSUME IInv, NEW i \in Instances, NEW method \in Methods, Pass(i, method)
  PROVE  IInv'
<1>0. /\ TypeOK /\ manager \in Manager
      /\ manager.callbacks \in Seq(Functions) /\ IsInjective(manager.callbacks)
      /\ manager.cmdId \in Nat /\ toWorker \in Seq(Message)
      /\ Instances \ manager.destroyed \subseteq manager.instances
      /\ method.takes \in Functions /\ method.returns \in WorkerFunctions
  BY ManagerTyped, MethodsAssumption
<1>a. PICK table : table = Register(manager.callbacks, method.takes)
  OBVIOUS
<1>b. PICK mgr : mgr = [manager EXCEPT !.callbacks = table]
  OBVIOUS
<1>c. PICK m : m = [NewMessage("FUNCTION", i, mgr.cmdId) EXCEPT
                      !.id = IdOf(mgr.callbacks, method.takes), !.fn = {method.takes},
                      !.returns = {method.returns}]
  OBVIOUS
<1>1. /\ table = Register(manager.callbacks, method.takes)
      /\ mgr = [manager EXCEPT !.callbacks = table]
      /\ m = [NewMessage("FUNCTION", i, mgr.cmdId) EXCEPT
                !.id = IdOf(mgr.callbacks, method.takes), !.fn = {method.takes},
                !.returns = {method.returns}]
  BY <1>a, <1>b, <1>c
<1>2. /\ table \in Seq(Functions) /\ IsInjective(table) /\ Grown(manager.callbacks, table)
      /\ Has(table, IdOf(table, method.takes), method.takes)
      /\ IdOf(table, method.takes) \in Nat
  BY <1>0, <1>1, RegisterHas
<1>3. /\ mgr \in Manager /\ mgr.callbacks = table /\ mgr.cmdId = manager.cmdId
      /\ mgr.status = manager.status /\ mgr.initialized = manager.initialized
      /\ mgr.process = manager.process /\ mgr.queue = manager.queue
      /\ mgr.instances = manager.instances /\ mgr.destroyed = manager.destroyed
      /\ mgr.running = manager.running /\ mgr.remote = manager.remote
  BY <1>0, <1>1, <1>2 DEF Manager
<1>4. /\ m \in Message /\ m.cmd = "FUNCTION" /\ m.inst = i /\ m.cmdId = manager.cmdId
      /\ m.id = IdOf(table, method.takes) /\ m.fn = {method.takes} /\ m.call = {}
  BY <1>0, <1>1, <1>2, <1>3 DEF NewMessage, Message
<1>5. /\ IF CanSend(mgr, i) THEN Send(mgr, m, TRUE) ELSE NotSent(mgr)
      /\ passes < MaxPasses /\ passes' = passes + 1
      /\ UNCHANGED <<worker, toParent, calls, ops>>
  BY <1>1 DEF Pass
<1>6. CallsKept /\ CallsChange /\ \A c \in Calls : ~Made(c)
  BY <1>5, CallsSame DEF Made
<1>7. passes' \in 0..MaxPasses
  BY <1>0, <1>5, BoundsAssumption DEF TypeOK
<1>8. CASE CanSend(mgr, i)
  <2>1. SendsWith(mgr, manager.queue \cup {m}, m)
    BY <1>3, <1>5, <1>8 DEF Send, SendsWith
  <2>3. manager.queue \cup {m} \in SUBSET Message
    BY <1>0, <1>4 DEF Manager
  <2>2. /\ manager' \in Manager /\ manager'.callbacks = table
        /\ manager'.cmdId = manager.cmdId + 1 /\ manager'.queue = manager.queue \cup {m}
        /\ manager'.status = manager.status /\ manager'.initialized = manager.initialized
        /\ manager'.process = manager.process
        /\ manager'.instances = manager.instances /\ manager'.destroyed = manager.destroyed
        /\ manager'.running = manager.running /\ manager'.remote = manager.remote
        /\ toWorker' = Append(toWorker, m) /\ toWorker' \in Seq(Message)
    BY <1>0, <1>3, <1>4, <2>1, <2>3, SendFields
  <2>4. TypeOK'
    BY <1>0, <1>2, <1>5, <1>7, <2>2 DEF TypeOK
  <2>5. FromParent(m)'
    <3>1. m.cmdId < manager'.cmdId
      BY <1>0, <1>4, <2>2
    <3>2. \E f \in Functions : m.fn = {f} /\ Has(manager'.callbacks, m.id, f)
      BY <1>0, <1>2, <1>4, <2>2
    <3> QED BY <1>4, <3>1, <3>2 DEF FromParent
  <2>6. manager.status = "up" /\ m.inst \in manager.initialized
    BY <1>3, <1>4, <1>8 DEF CanSend
  <2>7. /\ SameProcess /\ Grown(manager.callbacks, manager'.callbacks)
        /\ m.cmdId = manager.cmdId /\ m.cmd = "FUNCTION"
        /\ manager'.running = manager.running
        /\ Instances \ manager'.destroyed \subseteq manager'.instances
    BY <1>0, <1>2, <1>4, <2>2 DEF SameProcess
  <2> QED BY <1>4, <1>5, <1>6, <2>2, <2>4, <2>5, <2>6, <2>7, OneSentGood
<1>9. CASE ~CanSend(mgr, i)
  <2>1. NotSent(mgr)
    BY <1>5, <1>9
  <2>2. /\ manager' \in Manager /\ manager'.callbacks = table
        /\ manager.cmdId <= manager'.cmdId /\ manager'.queue = manager.queue
        /\ manager'.status = manager.status /\ manager'.initialized = manager.initialized
        /\ manager'.process = manager.process
        /\ manager'.instances = manager.instances /\ manager'.destroyed = manager.destroyed
        /\ manager'.running = manager.running /\ manager'.remote = manager.remote
        /\ toWorker' = toWorker
    BY <1>3, <2>1, NotSentFields
  <2>4. TypeOK'
    BY <1>0, <1>2, <1>5, <1>7, <2>2 DEF TypeOK
  <2> QED BY <1>0, <1>2, <1>5, <1>6, <2>2, <2>4, NothingSentGood DEF SameProcess
<1> QED BY <1>8, <1>9

LEMMA NewCallTyped ==
  /\ NewCall \in Call
  /\ NewCall.ran = {} /\ NewCall.answer = {} /\ NewCall.by = "worker"
<1>1. /\ (CHOOSE f \in Functions : TRUE) \in Functions
      /\ (CHOOSE i \in Instances : TRUE) \in Instances
  BY SetsAssumption
<1>2. DOMAIN Side = {"worker", "parent"}
  BY DEF Side
<1> QED BY <1>1, <1>2 DEF NewCall, Call

LEMMA ParentCallsGood ==
  ASSUME IInv, NEW c \in Calls, NEW r \in manager.remote, ParentCalls(c, r)
  PROVE  IInv'
<1>0. /\ TypeOK /\ manager \in Manager /\ FunctionsInv
      /\ manager.process \in Nat /\ manager.cmdId \in Nat /\ toWorker \in Seq(Message)
      /\ manager.queue \subseteq Message /\ calls \in [Calls -> Call]
      /\ Instances \ manager.destroyed \subseteq manager.instances
  BY ManagerTyped DEF IInv
<1>a. PICK call : call = [NewCall EXCEPT !.by = "parent", !.fn = r.fn, !.inst = r.inst,
                            !.process = r.process, !.cmdId = manager.cmdId]
  OBVIOUS
<1>b. PICK m : m = [NewMessage("CALLBACK", r.inst, manager.cmdId) EXCEPT !.id = r.id, !.call = {c}]
  OBVIOUS
<1>c. PICK s : s = IF CanSend(manager, r.inst) THEN "pending" ELSE "rejected"
  OBVIOUS
<1>1. /\ r.inst \in Instances /\ r.id \in Nat /\ r.fn \in WorkerFunctions /\ r.process \in Nat
      /\ r.process <= manager.process
  BY <1>0 DEF Manager, FunctionsInv
<1>2. /\ m \in Message /\ m.cmd = "CALLBACK" /\ m.inst = r.inst /\ m.cmdId = manager.cmdId
      /\ m.id = r.id /\ m.call = {c}
  BY <1>0, <1>b, <1>1 DEF NewMessage, Message
<1>3. /\ call \in Call /\ call.by = "parent" /\ call.fn = r.fn /\ call.inst = r.inst
      /\ call.process = r.process /\ call.cmdId = manager.cmdId
      /\ call.ran = {} /\ call.answer = {}
  BY <1>0, <1>a, <1>1, NewCallTyped DEF Call, Side
<1>d. PICK new : new = [call EXCEPT !.state = s]
  OBVIOUS
<1>4. /\ new \in Call /\ new.by = "parent" /\ new.fn = r.fn /\ new.inst = r.inst
      /\ new.process = r.process /\ new.cmdId = manager.cmdId
      /\ new.ran = {} /\ new.answer = {} /\ new.state = s /\ s \in {"pending", "rejected"}
  BY <1>c, <1>d, <1>3 DEF Call
<1>5. /\ calls[c].state = "idle" /\ UNCHANGED <<worker, toParent, passes, ops>>
      /\ calls' = [calls EXCEPT ![c] = new]
      /\ CanSend(manager, r.inst) => SendsWith(manager, manager.queue \cup {m}, m)
      /\ ~CanSend(manager, r.inst) => NotSent(manager)
  <2>1. CASE CanSend(manager, r.inst)
    BY <1>a, <1>b, <1>c, <1>d, <2>1 DEF ParentCalls, Send, SendsWith, NoOp
  <2>2. CASE ~CanSend(manager, r.inst)
    BY <1>a, <1>b, <1>c, <1>d, <2>2 DEF ParentCalls, NoOp
  <2> QED BY <2>1, <2>2
<1>6. /\ calls' \in [Calls -> Call] /\ calls'[c] = new
      /\ \A d \in Calls : d # c => calls'[d] = calls[d]
  BY <1>0, <1>4, <1>5
<1>7. CallsKept /\ \A d \in Calls : Made(d) => d = c
  BY <1>5, <1>6 DEF CallsKept, Made
<1>8. ASSUME manager'.process = manager.process PROVE CallsChange
  <2>1. Made(c) /\ calls'[c].by # "worker"
    BY <1>4, <1>5, <1>6 DEF Made
  <2>2. CallStep(c)
    BY <1>1, <1>4, <1>6, <1>8, <2>1 DEF CallStep
  <2>3. \A d \in Calls : CallStep(d)
    BY <1>6, <2>2 DEF CallStep
  <2> QED BY <1>7, <2>3 DEF CallsChange
<1>9. CASE CanSend(manager, r.inst)
  <2>1. manager.queue \cup {m} \in SUBSET Message
    BY <1>0, <1>2
  <2>2. /\ manager' \in Manager /\ manager'.callbacks = manager.callbacks
        /\ manager'.cmdId = manager.cmdId + 1 /\ manager'.queue = manager.queue \cup {m}
        /\ manager'.status = manager.status /\ manager'.initialized = manager.initialized
        /\ manager'.process = manager.process
        /\ manager'.instances = manager.instances /\ manager'.destroyed = manager.destroyed
        /\ manager'.running = manager.running /\ manager'.remote = manager.remote
        /\ toWorker' = Append(toWorker, m) /\ toWorker' \in Seq(Message)
    BY <1>0, <1>2, <1>5, <1>9, <2>1, SendFields
  <2>3. TypeOK'
    BY <1>0, <1>5, <1>6, <2>2 DEF TypeOK
  <2>4. manager.status = "up" /\ m.inst \in manager.initialized
    BY <1>2, <1>9 DEF CanSend
  <2>5. FromParent(m)'
    <3>1. m.cmdId < manager'.cmdId
      BY <1>0, <1>2, <2>2
    <3>2. IsCallOf("parent", c, m, m.cmdId)'
      BY <1>2, <1>4, <1>6 DEF IsCallOf
    <3> QED BY <1>2, <3>1, <3>2 DEF FromParent
  <2>6. m.cmd = "CALLBACK" => \A d \in m.call :
          calls'[d].process = manager'.process => Has(worker.callbacks, m.id, calls'[d].fn)
    BY <1>0, <1>2, <1>4, <1>6, <2>2, <2>4 DEF FunctionsInv
  <2>7. /\ SameProcess /\ Grown(manager.callbacks, manager'.callbacks)
        /\ m.cmdId = manager.cmdId /\ m.cmd = "CALLBACK"
        /\ Instances \ manager'.destroyed \subseteq manager'.instances
    BY <1>0, <1>2, <2>2 DEF SameProcess, Grown
  <2>8. \A d \in Calls : (Made(d) /\ Pending(d)') =>
          calls'[d].by = "parent" /\ m.cmd = "CALLBACK" /\ m.call = {d} /\ m \in manager'.queue
    BY <1>2, <1>4, <1>6, <1>7, <2>2
  <2> QED BY <1>2, <1>5, <1>7, <1>8, <2>2, <2>3, <2>4, <2>5, <2>6, <2>7, <2>8, OneSentGood
<1>10. CASE ~CanSend(manager, r.inst)
  <2>1. /\ manager' \in Manager /\ manager'.callbacks = manager.callbacks
        /\ manager.cmdId <= manager'.cmdId /\ manager'.queue = manager.queue
        /\ manager'.status = manager.status /\ manager'.initialized = manager.initialized
        /\ manager'.process = manager.process
        /\ manager'.instances = manager.instances /\ manager'.destroyed = manager.destroyed
        /\ manager'.running = manager.running /\ manager'.remote = manager.remote
        /\ toWorker' = toWorker
    BY <1>0, <1>5, <1>10, NotSentFields
  <2>2. TypeOK'
    BY <1>0, <1>5, <1>6, <2>1 DEF TypeOK
  <2>3. \A d \in Calls : Made(d) => ~Pending(d)'
    BY <1>c, <1>4, <1>6, <1>7, <1>10 DEF Pending
  <2>4. SameProcess /\ Grown(manager.callbacks, manager'.callbacks)
    BY <2>1 DEF SameProcess, Grown
  <2> QED BY <1>0, <1>5, <1>7, <1>8, <2>1, <2>2, <2>3, <2>4, NothingSentGood
<1> QED BY <1>9, <1>10

LEMMA ParentReturnsGood ==
  ASSUME IInv, NEW m \in manager.running, ParentReturns(m)
  PROVE  IInv'
<1>0. /\ TypeOK /\ manager \in Manager /\ m \in Message
      /\ NumbersInv /\ CallsInv /\ HandlesInv
      /\ manager.process \in Nat /\ manager.cmdId \in Nat /\ toWorker \in Seq(Message)
      /\ manager.queue \subseteq Message
      /\ Instances \ manager.destroyed \subseteq manager.instances
  BY ManagerTyped DEF IInv
<1>a. PICK mgr : mgr = [manager EXCEPT !.running = @ \ {m}]
  OBVIOUS
<1>b. PICK error \in BOOLEAN : error = (manager.callbacks[m.id] \in Throws)
  <2>1. (manager.callbacks[m.id] \in Throws) \in BOOLEAN
    OBVIOUS
  <2> QED BY <2>1, Zenon
<1>c. PICK reply : reply = [NewMessage("REPLY", m.inst, mgr.cmdId) EXCEPT
                              !.replyTo = m.cmdId, !.error = error, !.call = m.call]
  OBVIOUS
<1>1. /\ mgr \in Manager /\ mgr.callbacks = manager.callbacks /\ mgr.cmdId = manager.cmdId
      /\ mgr.status = manager.status /\ mgr.initialized = manager.initialized
      /\ mgr.process = manager.process /\ mgr.queue = manager.queue
      /\ mgr.instances = manager.instances /\ mgr.destroyed = manager.destroyed
      /\ mgr.running = manager.running \ {m} /\ mgr.remote = manager.remote
  BY <1>0, <1>a DEF Manager
<1>2. /\ reply \in Message /\ reply.cmd = "REPLY" /\ reply.inst = m.inst
      /\ reply.cmdId = manager.cmdId /\ reply.replyTo = m.cmdId /\ reply.call = m.call
  BY <1>0, <1>1, <1>c DEF NewMessage, Message
<1>3. /\ UNCHANGED <<worker, toParent, calls, passes, ops>>
      /\ CanSend(mgr, m.inst) => SendsWith(mgr, mgr.queue, reply)
      /\ ~CanSend(mgr, m.inst) => NotSent(mgr)
  <2>1. CASE CanSend(mgr, m.inst)
    BY <1>a, <1>b, <1>c, <2>1 DEF ParentReturns, Send, SendsWith, NoOp
  <2>2. CASE ~CanSend(mgr, m.inst)
    BY <1>a, <2>2 DEF ParentReturns, NoOp
  <2> QED BY <2>1, <2>2
<1>4. CallsKept /\ CallsChange /\ \A c \in Calls : ~Made(c)
  BY <1>3, CallsSame DEF Made
<1>5. PICK c \in Calls : IsCallOf("worker", c, m, m.cmdId)
  BY <1>0 DEF NumbersInv, CallsBack
<1>6. CASE CanSend(mgr, m.inst)
  <2>1. mgr.queue \in SUBSET Message
    BY <1>0, <1>1
  <2>2. /\ manager' \in Manager /\ manager'.callbacks = manager.callbacks
        /\ manager'.cmdId = manager.cmdId + 1 /\ manager'.queue = manager.queue
        /\ manager'.status = manager.status /\ manager'.initialized = manager.initialized
        /\ manager'.process = manager.process
        /\ manager'.instances = manager.instances /\ manager'.destroyed = manager.destroyed
        /\ manager'.running = manager.running \ {m} /\ manager'.remote = manager.remote
        /\ toWorker' = Append(toWorker, reply) /\ toWorker' \in Seq(Message)
    BY <1>0, <1>1, <1>2, <1>3, <1>6, <2>1, SendFields
  <2>3. TypeOK'
    BY <1>0, <1>3, <2>2 DEF TypeOK
  <2>4. manager.status = "up" /\ reply.inst \in manager.initialized
    BY <1>1, <1>2, <1>6 DEF CanSend
  <2>5. FromParent(reply)'
    <3>1. reply.cmdId < manager'.cmdId
      BY <1>0, <1>2, <2>2
    <3>2. IsCallOf("worker", c, reply, reply.replyTo)'
      BY <1>2, <1>3, <1>5 DEF IsCallOf
    <3> QED BY <1>2, <3>1, <3>2 DEF FromParent
  <2>6. /\ SameProcess /\ Grown(manager.callbacks, manager'.callbacks)
        /\ reply.cmdId = manager.cmdId /\ reply.cmd = "REPLY"
        /\ Instances \ manager'.destroyed \subseteq manager'.instances
    BY <1>0, <1>2, <2>2 DEF SameProcess, Grown
  <2>7. \A n \in manager.running : \A d \in Calls :
          (n.call = {d} /\ n \notin manager'.running /\ Pending(d)) => reply.call = {d}
    BY <1>2, <2>2
  <2> QED BY <1>2, <1>3, <1>4, <2>2, <2>3, <2>4, <2>5, <2>6, <2>7, OneSentGood
<1>7. CASE ~CanSend(mgr, m.inst)
  <2>1. /\ manager' \in Manager /\ manager'.callbacks = manager.callbacks
        /\ manager.cmdId <= manager'.cmdId /\ manager'.queue = manager.queue
        /\ manager'.status = manager.status /\ manager'.initialized = manager.initialized
        /\ manager'.process = manager.process
        /\ manager'.instances = manager.instances /\ manager'.destroyed = manager.destroyed
        /\ manager'.running = manager.running \ {m} /\ manager'.remote = manager.remote
        /\ toWorker' = toWorker
    BY <1>1, <1>3, <1>7, NotSentFields
  <2>2. TypeOK'
    BY <1>0, <1>3, <2>1 DEF TypeOK
  <2>3. ASSUME NEW n \in manager.running, NEW d \in Calls,
               n.call = {d}, n \notin manager'.running, Pending(d)
        PROVE  Stranded(d)'
    <3>1. d = c /\ calls[c].inst = m.inst /\ calls[c].by = "worker" /\ calls[c].state # "idle"
      BY <1>5, <2>1, <2>3 DEF IsCallOf
    <3>2. calls[c].process = manager.process /\ manager.status # "down"
      BY <1>0, <2>3, <3>1 DEF CallsInv
    <3>3. m.inst \in manager.initialized
      BY <1>0, <3>1, <3>2 DEF CallsInv, OfHandle, HandlesInv
    <3>4. manager'.status # "up"
      BY <1>1, <1>7, <2>1, <3>3 DEF CanSend
    <3> QED BY <3>4 DEF Stranded
  <2>4. SameProcess /\ Grown(manager.callbacks, manager'.callbacks)
    BY <2>1 DEF SameProcess, Grown
  <2> QED BY <1>0, <1>3, <1>4, <2>1, <2>2, <2>3, <2>4, NothingSentGood
<1> QED BY <1>6, <1>7

LEMMA OpTyped ==
  ASSUME TypeOK, Op \/ NoOp
  PROVE  passes' \in 0..MaxPasses /\ ops' \in 0..MaxOps
BY BoundsAssumption DEF TypeOK, Op, NoOp

LEMMA DestroyGood ==
  ASSUME IInv, NEW i \in Instances, Destroy(i)
  PROVE  IInv'
<1>0. /\ TypeOK /\ manager \in Manager
      /\ manager.cmdId \in Nat /\ toWorker \in Seq(Message)
      /\ manager.queue \subseteq Message
      /\ Instances \ manager.destroyed \subseteq manager.instances
  BY ManagerTyped
<1>a. PICK mgr : mgr = [manager EXCEPT !.destroyed = @ \cup {i}]
  OBVIOUS
<1>b. PICK gone : gone = [mgr EXCEPT !.instances = @ \ {i}]
  OBVIOUS
<1>c. PICK m : m = NewMessage("KILL", i, mgr.cmdId)
  OBVIOUS
<1>1. /\ mgr \in Manager /\ mgr.callbacks = manager.callbacks /\ mgr.cmdId = manager.cmdId
      /\ mgr.status = manager.status /\ mgr.initialized = manager.initialized
      /\ mgr.process = manager.process /\ mgr.queue = manager.queue
      /\ mgr.instances = manager.instances /\ mgr.destroyed = manager.destroyed \cup {i}
      /\ mgr.running = manager.running /\ mgr.remote = manager.remote
  BY <1>0, <1>a DEF Manager
<1>2. /\ gone \in Manager /\ gone.callbacks = manager.callbacks /\ gone.cmdId = manager.cmdId
      /\ gone.status = manager.status /\ gone.initialized = manager.initialized
      /\ gone.process = manager.process /\ gone.queue = manager.queue
      /\ gone.instances = manager.instances \ {i} /\ gone.destroyed = manager.destroyed \cup {i}
      /\ gone.running = manager.running /\ gone.remote = manager.remote
  BY <1>b, <1>1 DEF Manager
<1>3. /\ m \in Message /\ m.cmd = "KILL" /\ m.inst = i
      /\ m.cmdId = manager.cmdId /\ m.call = {}
  BY <1>0, <1>1, <1>c DEF NewMessage, Message
<1>4. /\ UNCHANGED <<worker, toParent, calls>> /\ Op
      /\ CanSend(mgr, i) => SendsWith(mgr, mgr.queue \cup {m}, m)
      /\ ~CanSend(mgr, i) => NotSent(gone)
  <2>1. CASE CanSend(mgr, i)
    BY <1>a, <1>c, <2>1 DEF Destroy, Send, SendsWith
  <2>2. CASE ~CanSend(mgr, i)
    BY <1>a, <1>b, <2>2 DEF Destroy
  <2> QED BY <2>1, <2>2
<1>5. CallsKept /\ CallsChange /\ \A c \in Calls : ~Made(c)
  BY <1>4, CallsSame DEF Made
<1>6. passes' \in 0..MaxPasses /\ ops' \in 0..MaxOps
  BY <1>0, <1>4, OpTyped
<1>7. CASE CanSend(mgr, i)
  <2>1. mgr.queue \cup {m} \in SUBSET Message
    BY <1>0, <1>1, <1>3
  <2>2. /\ manager' \in Manager /\ manager'.callbacks = manager.callbacks
        /\ manager'.cmdId = manager.cmdId + 1 /\ manager'.queue = manager.queue \cup {m}
        /\ manager'.status = manager.status /\ manager'.initialized = manager.initialized
        /\ manager'.process = manager.process
        /\ manager'.instances = manager.instances
        /\ manager'.destroyed = manager.destroyed \cup {i}
        /\ manager'.running = manager.running /\ manager'.remote = manager.remote
        /\ toWorker' = Append(toWorker, m) /\ toWorker' \in Seq(Message)
    BY <1>0, <1>1, <1>3, <1>4, <1>7, <2>1, SendFields
  <2>3. TypeOK'
    BY <1>0, <1>4, <1>6, <2>2 DEF TypeOK
  <2>4. manager.status = "up" /\ m.inst \in manager.initialized
    BY <1>1, <1>3, <1>7 DEF CanSend
  <2>5. FromParent(m)'
    BY <1>0, <1>3, <2>2 DEF FromParent
  <2>6. /\ SameProcess /\ Grown(manager.callbacks, manager'.callbacks)
        /\ m.cmdId = manager.cmdId /\ m.cmd = "KILL"
        /\ Instances \ manager'.destroyed \subseteq manager'.instances
    BY <1>0, <1>3, <2>2 DEF SameProcess, Grown
  <2> QED BY <1>3, <1>4, <1>5, <2>2, <2>3, <2>4, <2>5, <2>6, OneSentGood
<1>8. CASE ~CanSend(mgr, i)
  <2>1. /\ manager' \in Manager /\ manager'.callbacks = manager.callbacks
        /\ manager.cmdId <= manager'.cmdId /\ manager'.queue = manager.queue
        /\ manager'.status = manager.status /\ manager'.initialized = manager.initialized
        /\ manager'.process = manager.process
        /\ manager'.instances = manager.instances \ {i}
        /\ manager'.destroyed = manager.destroyed \cup {i}
        /\ manager'.running = manager.running /\ manager'.remote = manager.remote
        /\ toWorker' = toWorker
    BY <1>2, <1>4, <1>8, NotSentFields
  <2>2. TypeOK'
    BY <1>0, <1>4, <1>6, <2>1 DEF TypeOK
  <2>4. SameProcess /\ Grown(manager.callbacks, manager'.callbacks)
    BY <2>1 DEF SameProcess, Grown
  <2> QED BY <1>0, <1>4, <1>5, <2>1, <2>2, <2>4, NothingSentGood
<1> QED BY <1>7, <1>8

\* The timer of a destroyed instance, or a kill of the process.
LEMMA DetachTimeoutOrKillGood ==
  ASSUME IInv, KillChild \/ \E i \in Instances : DetachTimeout(i)
  PROVE  IInv'
<1>0. /\ TypeOK /\ manager \in Manager
      /\ manager.cmdId \in Nat
      /\ Instances \ manager.destroyed \subseteq manager.instances
  BY ManagerTyped
<1>1. /\ UNCHANGED <<worker, toWorker, toParent, calls>>
      /\ passes' \in 0..MaxPasses /\ ops' \in 0..MaxOps
  BY <1>0, OpTyped DEF KillChild, DetachTimeout
<1>2. /\ manager' \in Manager /\ manager'.callbacks = manager.callbacks
      /\ manager'.cmdId = manager.cmdId /\ manager'.queue = manager.queue
      /\ manager'.initialized = manager.initialized /\ manager'.process = manager.process
      /\ manager'.destroyed = manager.destroyed
      /\ manager'.running = manager.running /\ manager'.remote = manager.remote
      /\ Instances \ manager'.destroyed \subseteq manager'.instances
      /\ \/ manager'.status = manager.status
         \/ manager.status = "up" /\ manager'.status = "closing"
  <2>1. CASE KillChild
    BY <1>0, <2>1 DEF KillChild, Manager
  <2>2. ASSUME NEW i \in Instances, DetachTimeout(i)
        PROVE  /\ manager' = [manager EXCEPT !.instances = @ \ {i}] /\ i \in manager.destroyed
    BY <2>2 DEF DetachTimeout
  <2>3. CASE \E i \in Instances : DetachTimeout(i)
    BY <1>0, <2>2, <2>3 DEF Manager
  <2> QED BY <2>1, <2>3
<1>3. TypeOK'
  BY <1>0, <1>1, <1>2 DEF TypeOK
<1>4. CallsKept /\ CallsChange /\ \A c \in Calls : ~Made(c)
  BY <1>1, CallsSame DEF Made
<1>5. SameProcess /\ Grown(manager.callbacks, manager'.callbacks) /\ manager.cmdId <= manager'.cmdId
  BY <1>0, <1>2 DEF SameProcess, Grown
<1> QED BY <1>1, <1>2, <1>3, <1>4, <1>5, NothingSentGood

\* INITs for the instances of a sequence.
LEMMA InitsFields ==
  ASSUME NEW mgr \in Manager, NEW order \in Seq(Instances), toWorker \in Seq(Message),
         Inits(mgr, order)
  PROVE  \E new \in Seq(Message) :
           /\ toWorker' = toWorker \o new /\ toWorker' \in Seq(Message)
           /\ Len(new) = Len(order)
           /\ \A k \in 1..Len(new) : /\ new[k].cmd = "INIT" /\ new[k].inst = order[k]
                                     /\ new[k].cmdId = mgr.cmdId + k - 1 /\ new[k].call = {}
           /\ manager' \in Manager /\ manager'.callbacks = mgr.callbacks
           /\ manager'.cmdId = mgr.cmdId + Len(order) /\ manager'.queue = mgr.queue
           /\ manager'.status = mgr.status
           /\ manager'.initialized = mgr.initialized \cup ToSet(order)
           /\ manager'.process = mgr.process
           /\ manager'.instances = mgr.instances /\ manager'.destroyed = mgr.destroyed
           /\ manager'.running = mgr.running /\ manager'.remote = mgr.remote
<1>1. /\ Len(order) \in Nat /\ DOMAIN order = 1..Len(order) /\ ToSet(order) \subseteq Instances
      /\ \A k \in 1..Len(order) : order[k] \in Instances
      /\ mgr.cmdId \in Nat
  BY LenProperties, ToSetTyped, ElementOfSeq DEF Manager
<1>a. PICK new : new = [k \in DOMAIN order |-> NewMessage("INIT", order[k], mgr.cmdId + k - 1)]
  OBVIOUS
<1>b. PICK n, s : n = mgr.cmdId + Len(order) /\ s = mgr.initialized \cup ToSet(order)
  OBVIOUS
<1>2. \A k \in 1..Len(order) :
        /\ new[k] = NewMessage("INIT", order[k], mgr.cmdId + k - 1)
        /\ order[k] \in Instances /\ mgr.cmdId + k - 1 \in Nat
  BY <1>a, <1>1
<1>3. \A k \in 1..Len(order) : new[k] \in Message
  BY <1>2, NewMessageTyped
<1>4. new \in Seq(Message) /\ Len(new) = Len(order)
  <2>1. new \in [1..Len(order) -> Message]
    BY <1>a, <1>1, <1>3
  <2>2. new \in Seq(Message)
    BY <1>1, <2>1, SeqDef
  <2> QED BY <1>1, <2>1, <2>2, LenProperties
<1>5. \A k \in 1..Len(new) : /\ new[k].cmd = "INIT" /\ new[k].inst = order[k]
                             /\ new[k].cmdId = mgr.cmdId + k - 1 /\ new[k].call = {}
  <2> SUFFICES ASSUME NEW k \in 1..Len(order)
               PROVE  /\ new[k].cmd = "INIT" /\ new[k].inst = order[k]
                      /\ new[k].cmdId = mgr.cmdId + k - 1 /\ new[k].call = {}
    BY <1>4
  <2>1. PICK i, c : i = order[k] /\ c = mgr.cmdId + k - 1
    OBVIOUS
  <2>2. new[k] = NewMessage("INIT", i, c)
    BY <1>2, <2>1
  <2>3. /\ new[k].cmd = "INIT" /\ new[k].inst = i /\ new[k].cmdId = c /\ new[k].call = {}
    BY <2>2 DEF NewMessage
  <2> QED BY <2>1, <2>3
<1>6. toWorker' = toWorker \o new /\ toWorker' \in Seq(Message)
  BY <1>a, <1>4, ConcatProperties DEF Inits
<1>7. manager' = [mgr EXCEPT !.cmdId = n, !.initialized = s]
  BY <1>b DEF Inits
<1>8. n \in Nat /\ s \in SUBSET Instances
  BY <1>b, <1>1 DEF Manager
<1>9. manager' \in Manager
  BY <1>7, <1>8 DEF Manager
<1>10. /\ manager'.callbacks = mgr.callbacks
       /\ manager'.cmdId = mgr.cmdId + Len(order) /\ manager'.queue = mgr.queue
       /\ manager'.status = mgr.status
       /\ manager'.initialized = mgr.initialized \cup ToSet(order)
       /\ manager'.process = mgr.process
       /\ manager'.instances = mgr.instances /\ manager'.destroyed = mgr.destroyed
       /\ manager'.running = mgr.running /\ manager'.remote = mgr.remote
  BY <1>b, <1>7, <1>8 DEF Manager
<1> QED BY <1>4, <1>5, <1>6, <1>9, <1>10

LEMMA InitsGood ==
  ASSUME IInv, NEW mgr \in Manager, NEW order \in Seq(Instances), Inits(mgr, order),
         UNCHANGED <<worker, toParent, calls>>, Op \/ NoOp,
         mgr.callbacks = manager.callbacks, mgr.cmdId = manager.cmdId,
         mgr.queue = manager.queue, mgr.running = manager.running,
         mgr.remote = manager.remote, mgr.destroyed = manager.destroyed,
         mgr.instances = manager.instances, mgr.status = "up",
         \/ /\ manager.status = "up" /\ mgr.process = manager.process
            /\ mgr.initialized = manager.initialized
         \/ /\ manager.status = "down" /\ mgr.process = manager.process + 1
            /\ mgr.initialized = manager.initialized \ manager.instances
  PROVE  IInv'
<1>0. /\ TypeOK /\ manager \in Manager
      /\ manager.cmdId \in Nat /\ toWorker \in Seq(Message)
      /\ Instances \ manager.destroyed \subseteq manager.instances
      /\ manager.initialized \subseteq Instances
  BY ManagerTyped DEF Manager
<1>1. PICK new \in Seq(Message) :
           /\ toWorker' = toWorker \o new /\ toWorker' \in Seq(Message)
           /\ Len(new) = Len(order)
           /\ \A k \in 1..Len(new) : /\ new[k].cmd = "INIT" /\ new[k].inst = order[k]
                                     /\ new[k].cmdId = mgr.cmdId + k - 1 /\ new[k].call = {}
           /\ manager' \in Manager /\ manager'.callbacks = mgr.callbacks
           /\ manager'.cmdId = mgr.cmdId + Len(order) /\ manager'.queue = mgr.queue
           /\ manager'.status = mgr.status
           /\ manager'.initialized = mgr.initialized \cup ToSet(order)
           /\ manager'.process = mgr.process
           /\ manager'.instances = mgr.instances /\ manager'.destroyed = mgr.destroyed
           /\ manager'.running = mgr.running /\ manager'.remote = mgr.remote
  BY <1>0, InitsFields
<1>2. /\ Len(order) \in Nat /\ DOMAIN order = 1..Len(order)
      /\ \A k \in 1..Len(new) : order[k] \in ToSet(order)
      /\ \A i \in ToSet(order) : \E k \in 1..Len(new) : order[k] = i
  BY <1>1, LenProperties, SMTT(30) DEF ToSet
<1>3. TypeOK'
  BY <1>0, <1>1, OpTyped DEF TypeOK
<1>4. CallsKept /\ CallsChange /\ \A c \in Calls : ~Made(c)
  BY CallsSame DEF Made
<1>5. SameProcess \/ NextProcess
  BY <1>1 DEF SameProcess, NextProcess
<1>6. ManagerNames(new)
  <2>1. \A k \in 1..Len(new) : new[k].cmd = "INIT" /\ new[k].inst \in manager'.initialized
    BY <1>1, <1>2
  <2>2. ASSUME NEW i \in manager'.initialized
        PROVE  \/ manager.status # "down" /\ i \in manager.initialized
               \/ i \in manager'.destroyed
               \/ \E k \in 1..Len(new) : new[k].cmd = "INIT" /\ new[k].inst = i
    <3>1. CASE i \in ToSet(order)
      <4>1. PICK k \in 1..Len(new) : order[k] = i
        BY <1>2, <3>1
      <4>2. new[k].cmd = "INIT" /\ new[k].inst = i
        BY <1>1, <4>1
      <4> QED BY <4>2
    <3>2. CASE i \notin ToSet(order)
      BY <1>0, <1>1, <3>2
    <3> QED BY <3>1, <3>2
  <2>3. /\ manager.initialized \subseteq manager'.initialized \/ NextProcess
        /\ manager.destroyed \subseteq manager'.destroyed
        /\ Instances \ manager'.destroyed \subseteq manager'.instances
    BY <1>0, <1>1 DEF NextProcess
  <2> QED BY <2>1, <2>2, <2>3 DEF ManagerNames
<1>7. ManagerSends(new)
  <2>1. ASSUME NEW k \in 1..Len(new)
        PROVE  /\ new[k].cmdId = manager.cmdId + k - 1
               /\ FromParent(new[k])'
               /\ new[k].cmd # "CALLBACK"
    BY <1>0, <1>1, <1>2, SMTT(30) DEF FromParent
  <2>2. /\ toWorker' = toWorker \o new
        /\ manager'.status # "down"
        /\ manager.cmdId + Len(new) <= manager'.cmdId
        /\ Grown(manager.callbacks, manager'.callbacks)
        /\ manager'.queue = manager.queue /\ manager'.running = manager.running
        /\ manager'.remote = manager.remote
    BY <1>0, <1>1, <1>2 DEF Grown
  <2> QED BY <1>5, <1>6, <2>1, <2>2 DEF ManagerSends
<1>8. manager'.running = manager.running
  BY <1>1
<1> QED BY <1>3, <1>4, <1>7, <1>8, ManagerSendsGood

LEMMA RestartGood ==
  ASSUME IInv, Restart
  PROVE  IInv'
<1>0. manager \in Manager /\ manager.process \in Nat
  BY ManagerTyped
<1>b. PICK p, s : p = manager.process + 1 /\ s = manager.initialized \ manager.instances
  OBVIOUS
<1>c. p \in Nat /\ s \in SUBSET Instances
  BY <1>0, <1>b DEF Manager
<1>1. PICK mgr : mgr = [manager EXCEPT !.status = "up", !.process = @ + 1,
                                       !.initialized = @ \ manager.instances]
  OBVIOUS
<1>2. /\ mgr \in Manager /\ mgr.callbacks = manager.callbacks /\ mgr.cmdId = manager.cmdId
      /\ mgr.queue = manager.queue /\ mgr.running = manager.running
      /\ mgr.remote = manager.remote /\ mgr.destroyed = manager.destroyed
      /\ mgr.instances = manager.instances /\ mgr.status = "up"
      /\ mgr.process = manager.process + 1
      /\ mgr.initialized = manager.initialized \ manager.instances
  <2>1. mgr = [manager EXCEPT !.status = "up", !.process = p, !.initialized = s]
    BY <1>b, <1>1
  <2>2. mgr \in Manager
    BY <1>0, <1>c, <2>1 DEF Manager
  <2> QED BY <1>0, <1>b, <2>1, <2>2 DEF Manager
<1>a. PICK S \in SUBSET manager.instances : \E order \in SetToSeqs(S) : Inits(mgr, order)
  BY <1>1 DEF Restart
<1>3. PICK order \in SetToSeqs(S) : Inits(mgr, order)
  BY <1>a
<1>4. order \in Seq(Instances)
  <2>1. S \subseteq Instances /\ IsFiniteSet(S) /\ Cardinality(S) \in Nat
    BY <1>0, SetsAssumption, FS_Subset, FS_CardinalityType DEF Manager
  <2>2. order \in [1..Cardinality(S) -> Instances]
    BY <2>1 DEF SetToSeqs
  <2> QED BY <2>1, <2>2, SeqDef
<1>5. manager.status = "down" /\ UNCHANGED <<worker, toParent, calls>> /\ NoOp
  BY DEF Restart
<1> QED BY <1>2, <1>3, <1>4, <1>5, InitsGood

LEMMA ReconstructGood ==
  ASSUME IInv, NEW i \in Instances, Reconstruct(i)
  PROVE  IInv'
<1>0. manager \in Manager
  BY ManagerTyped
<1>1. PICK order : order = <<i>>
  OBVIOUS
<1>2. order \in Seq(Instances)
  BY <1>1, OneElement
<1>3. /\ manager.status = "up" /\ Inits(manager, order)
      /\ UNCHANGED <<worker, toParent, calls>> /\ Op
  BY <1>1 DEF Reconstruct
<1> QED BY <1>0, <1>2, <1>3, InitsGood

-----------------------------------------------------------------------------
(***************************************************************************)
(* The messages that the manager takes.                                    *)
(***************************************************************************)
\* A call keeps what it was made with.
SameMaking(c) ==
  /\ calls'[c].by = calls[c].by /\ calls'[c].fn = calls[c].fn
  /\ calls'[c].inst = calls[c].inst /\ calls'[c].process = calls[c].process
  /\ calls'[c].handle = calls[c].handle /\ calls'[c].cmdId = calls[c].cmdId

LEMMA SettledFields ==
  ASSUME calls \in [Calls -> Call], NEW c \in Calls, NEW m \in Message,
         NEW new, new = Settled(c, m)
  PROVE  /\ new \in [Calls -> Call]
         /\ new[c].state \in {"resolved", "rejected"} /\ new[c].answer = m.call
         /\ new[c].ran = calls[c].ran
         /\ new[c].by = calls[c].by /\ new[c].fn = calls[c].fn
         /\ new[c].inst = calls[c].inst /\ new[c].process = calls[c].process
         /\ new[c].handle = calls[c].handle /\ new[c].cmdId = calls[c].cmdId
         /\ \A d \in Calls : d # c => new[d] = calls[d]
<1>1. PICK s, call, a : /\ s = IF m.error THEN "rejected" ELSE "resolved"
                        /\ call = calls[c] /\ a = m.call
  OBVIOUS
<1>2. call \in Call /\ s \in {"resolved", "rejected"} /\ a \in SUBSET Calls
  BY <1>1 DEF Message
<1>3. new = [calls EXCEPT ![c] = [call EXCEPT !.state = s, !.answer = a]]
  BY <1>1 DEF Settled
<1>4. PICK record : record = [call EXCEPT !.state = s, !.answer = a]
  OBVIOUS
<1>5. /\ record \in Call /\ record.state = s /\ record.answer = a /\ record.ran = call.ran
      /\ record.by = call.by /\ record.fn = call.fn
      /\ record.inst = call.inst /\ record.process = call.process
      /\ record.handle = call.handle /\ record.cmdId = call.cmdId
  BY <1>2, <1>4 DEF Call
<1> QED BY <1>1, <1>2, <1>3, <1>4, <1>5

\* A function was run for a call.
Ran(c, f) == [calls EXCEPT ![c].ran = @ \cup {f}]

LEMMA RanFields ==
  ASSUME calls \in [Calls -> Call], NEW c \in Calls, NEW f \in Functions \cup WorkerFunctions,
         NEW new, new = Ran(c, f)
  PROVE  /\ new \in [Calls -> Call]
         /\ new[c].ran = calls[c].ran \cup {f}
         /\ new[c].state = calls[c].state /\ new[c].answer = calls[c].answer
         /\ new[c].by = calls[c].by /\ new[c].fn = calls[c].fn
         /\ new[c].inst = calls[c].inst /\ new[c].process = calls[c].process
         /\ new[c].handle = calls[c].handle /\ new[c].cmdId = calls[c].cmdId
         /\ \A d \in Calls : d # c => new[d] = calls[d]
<1>1. PICK call, s : call = calls[c] /\ s = calls[c].ran \cup {f}
  OBVIOUS
<1>2. call \in Call /\ s \in SUBSET (Functions \cup WorkerFunctions)
  BY <1>1 DEF Call
<1>3. PICK record : record = [call EXCEPT !.ran = s]
  OBVIOUS
<1>4. new = [calls EXCEPT ![c] = record]
  BY <1>1, <1>3 DEF Ran
<1>5. /\ record \in Call /\ record.ran = s /\ record.state = call.state
      /\ record.answer = call.answer /\ record.by = call.by /\ record.fn = call.fn
      /\ record.inst = call.inst /\ record.process = call.process
      /\ record.handle = call.handle /\ record.cmdId = call.cmdId
  BY <1>2, <1>3 DEF Call
<1> QED BY <1>1, <1>4, <1>5

\* The message that the manager takes comes from the worker.
LEMMA ManagerReceivesTyped ==
  ASSUME IInv, NEW m, ManagerReceives(m)
  PROVE  /\ m \in Message /\ FromWorker(m)
         /\ toParent' \in Seq(Message) /\ manager.status # "down"
         /\ UNCHANGED <<worker, toWorker, passes, ops>>
<1>1. toParent \in Seq(Message) /\ toParent # <<>> /\ m = Head(toParent) /\ toParent' = Tail(toParent)
  BY ManagerTyped DEF ManagerReceives
<1>2. m \in ToSet(toParent) /\ m \in Message /\ toParent' \in Seq(Message)
  BY <1>1, ToSetTail, HeadTailProperties
<1> QED BY <1>2 DEF IInv, NumbersInv, ManagerReceives, NoOp

LEMMA ManagerDropsGood ==
  ASSUME IInv, NEW m, ManagerDrops(m)
  PROVE  IInv'
<1>0. TypeOK /\ Instances \ manager.destroyed \subseteq manager.instances
  BY ManagerTyped
<1>1. ManagerReceives(m) /\ manager' = manager /\ calls' = calls /\ m.inst \notin manager.instances
  BY DEF ManagerDrops
<1>2. /\ m \in Message /\ FromWorker(m) /\ toParent' \in Seq(Message)
      /\ UNCHANGED <<worker, toWorker, passes, ops>>
  BY <1>1, ManagerReceivesTyped
<1>3. TypeOK'
  BY <1>0, <1>1, <1>2 DEF TypeOK
<1>4. CallsKept /\ CallsChange /\ \A c \in Calls : ~Made(c)
  BY <1>1, CallsSame DEF Made
<1>5. m.inst \in manager.destroyed
  BY <1>0, <1>1, <1>2 DEF Message
<1>6. ASSUME NEW c \in Calls, m.call = {c}, ~Stranded(c)'
      PROVE  /\ m.cmd # "CALLBACK"
             /\ m.inst # calls[c].inst
  <2>1. m.inst # calls[c].inst
    BY <1>1, <1>5, <1>6 DEF Stranded
  <2> QED BY <1>2, <1>6, <2>1 DEF FromWorker, CallsBack, IsCallOf
<1> QED BY <1>0, <1>1, <1>3, <1>4, <1>6, ManagerTakesGood

LEMMA ManagerRunsGood ==
  ASSUME IInv, NEW m, ManagerRuns(m)
  PROVE  IInv'
<1>0. /\ TypeOK /\ manager \in Manager /\ calls \in [Calls -> Call]
      /\ manager.callbacks \in Seq(Functions)
      /\ Instances \ manager.destroyed \subseteq manager.instances
  BY ManagerTyped
<1>1. /\ ManagerReceives(m) /\ m.cmd = "CALLBACK"
      /\ manager' = [manager EXCEPT !.running = @ \cup {m}]
  BY DEF ManagerRuns
<1>2. /\ m \in Message /\ FromWorker(m) /\ toParent' \in Seq(Message)
      /\ UNCHANGED <<worker, toWorker, passes, ops>>
  BY <1>1, ManagerReceivesTyped
<1>3. PICK c \in Calls : /\ m.call = {c}
                         /\ calls' = [calls EXCEPT ![c].ran = @ \cup {manager.callbacks[m.id]}]
  BY DEF ManagerRuns
<1>4. /\ CallsBack(m) /\ calls[c].state # "idle"
      /\ Has(manager.callbacks, m.id, calls[c].fn)
  BY <1>1, <1>2, <1>3 DEF FromWorker, CallsBack, IsCallOf
<1>5. PICK f : f = manager.callbacks[m.id]
  OBVIOUS
<1>6. f \in Functions /\ f = calls[c].fn
  <2>1. m.id \in 1..Len(manager.callbacks)
    BY <1>0, <1>4, LenProperties DEF Has
  <2>2. f \in Functions
    BY <1>0, <1>5, <2>1, ElementOfSeq
  <2> QED BY <1>4, <1>5, <2>2 DEF Has
<1>7. calls' = Ran(c, f)
  BY <1>3, <1>5 DEF Ran
<1>8. /\ calls' \in [Calls -> Call] /\ calls'[c].ran = calls[c].ran \cup {f}
      /\ calls'[c].state = calls[c].state /\ calls'[c].answer = calls[c].answer
      /\ SameMaking(c)
      /\ \A d \in Calls : d # c => calls'[d] = calls[d]
  BY <1>0, <1>6, <1>7, RanFields DEF SameMaking
<1>9. CallsKept /\ CallsChange /\ \A d \in Calls : ~Made(d)
  <2>1. CallStep(c) /\ \A d \in Calls : ~Made(d)
    BY <1>4, <1>6, <1>8 DEF CallStep, Made
  <2> QED BY <1>4, <1>8, <2>1 DEF CallsKept, CallsChange, CallStep, SameMaking
<1>10. /\ manager' \in Manager /\ manager'.callbacks = manager.callbacks
       /\ manager'.cmdId = manager.cmdId /\ manager'.queue = manager.queue
       /\ manager'.status = manager.status /\ manager'.initialized = manager.initialized
       /\ manager'.process = manager.process
       /\ manager'.instances = manager.instances /\ manager'.destroyed = manager.destroyed
       /\ manager'.running = manager.running \cup {m} /\ manager'.remote = manager.remote
  BY <1>0, <1>1, <1>2 DEF Manager
<1>11. TypeOK'
  BY <1>0, <1>2, <1>8, <1>10 DEF TypeOK
<1>12. CallsBack(m)'
  <2>1. Grown(manager.callbacks, manager'.callbacks)
    BY <1>10 DEF Grown
  <2> QED BY <1>4, <1>9, <2>1, CallsBackKept
<1>13. \A d \in Calls : m.call = {d} => RunByManager(d)'
  BY <1>10 DEF RunByManager
<1> QED BY <1>0, <1>1, <1>9, <1>10, <1>11, <1>12, <1>13, ManagerTakesGood

LEMMA ManagerDecodesGood ==
  ASSUME IInv, NEW m, ManagerDecodes(m)
  PROVE  IInv'
<1>0. /\ TypeOK /\ manager \in Manager /\ manager.process \in Nat
      /\ manager.queue \subseteq Message
      /\ Instances \ manager.destroyed \subseteq manager.instances
  BY ManagerTyped
<1>1. /\ ManagerReceives(m) /\ m.cmd = "RESULT" /\ calls' = calls
      /\ manager' = [manager EXCEPT
           !.queue = @ \ Awaited(@, m),
           !.remote = @ \cup [inst : {m.inst}, id : {m.id}, fn : m.fn, process : {manager.process}]]
  BY DEF ManagerDecodes
<1>2. /\ m \in Message /\ FromWorker(m) /\ toParent' \in Seq(Message)
      /\ UNCHANGED <<worker, toWorker, passes, ops>>
  BY <1>1, ManagerReceivesTyped
<1>3. PICK g \in WorkerFunctions : m.fn = {g} /\ Has(worker.callbacks, m.id, g)
  BY <1>1, <1>2 DEF FromWorker
<1>4. m.call = {} /\ \A n \in manager.queue : n.cmdId = m.replyTo => n.call = {}
  BY <1>1, <1>2 DEF FromWorker, Answers
<1>5. PICK q, s, new :
        /\ q = manager.queue \ Awaited(manager.queue, m)
        /\ new = [inst : {m.inst}, id : {m.id}, fn : m.fn, process : {manager.process}]
        /\ s = manager.remote \cup new
  <2>1. PICK new : new = [inst : {m.inst}, id : {m.id}, fn : m.fn, process : {manager.process}]
    OBVIOUS
  <2> QED BY <2>1
<1>6. /\ \A r \in new : r.process = manager.process /\ Has(worker.callbacks, r.id, r.fn)
      /\ new \subseteq [inst : Instances, id : Nat, fn : WorkerFunctions, process : Nat]
  BY <1>0, <1>2, <1>3, <1>5 DEF Message
<1>7. q \subseteq manager.queue /\ \A n \in manager.queue : n \in q \/ n.call = {}
  BY <1>4, <1>5 DEF Awaited
<1>8. manager' = [manager EXCEPT !.queue = q, !.remote = s]
  BY <1>1, <1>5
<1>9. /\ manager' \in Manager /\ manager'.callbacks = manager.callbacks
      /\ manager'.cmdId = manager.cmdId /\ manager'.queue = q
      /\ manager'.status = manager.status /\ manager'.initialized = manager.initialized
      /\ manager'.process = manager.process
      /\ manager'.instances = manager.instances /\ manager'.destroyed = manager.destroyed
      /\ manager'.running = manager.running /\ manager'.remote = manager.remote \cup new
  <2>1. s \in SUBSET [inst : Instances, id : Nat, fn : WorkerFunctions, process : Nat]
    BY <1>0, <1>5, <1>6 DEF Manager
  <2>2. q \in SUBSET Message
    BY <1>0, <1>7
  <2>3. manager' \in Manager
    BY <1>0, <1>8, <2>1, <2>2 DEF Manager
  <2> QED BY <1>0, <1>5, <1>8, <2>3 DEF Manager
<1>10. TypeOK'
  BY <1>0, <1>1, <1>2, <1>9 DEF TypeOK
<1>11. CallsKept /\ CallsChange /\ \A c \in Calls : ~Made(c)
  BY <1>1, CallsSame DEF Made
<1>12. \A c \in Calls : m.call # {c} /\ \A n \in manager.queue : n.call = {c} => n \in manager'.queue
  BY <1>4, <1>7, <1>9
<1> QED BY <1>0, <1>1, <1>6, <1>7, <1>9, <1>10, <1>11, <1>12, ManagerTakesGood

LEMMA ManagerReceivesReplyGood ==
  ASSUME IInv, NEW m, ManagerReceivesReply(m)
  PROVE  IInv'
<1>0. /\ TypeOK /\ manager \in Manager /\ NumbersInv
      /\ manager.queue \subseteq Message /\ calls \in [Calls -> Call]
      /\ Instances \ manager.destroyed \subseteq manager.instances
  BY ManagerTyped DEF IInv
<1>a. PICK awaited : awaited = Awaited(manager.queue, m)
  OBVIOUS
<1>b. PICK killed : killed = {n.inst : n \in {o \in awaited : o.cmd = "KILL"}}
  OBVIOUS
<1>c. PICK settled : settled = {c \in Calls : \E n \in awaited : n.call = {c}}
  OBVIOUS
<1>1. /\ ManagerReceives(m) /\ m.cmd = "REPLY"
      /\ manager' = [manager EXCEPT !.queue = @ \ awaited, !.instances = @ \ killed]
      /\ calls' = [c \in Calls |-> IF c \in settled THEN Settled(c, m)[c] ELSE calls[c]]
  BY <1>a, <1>b, <1>c DEF ManagerReceivesReply
<1>2. /\ m \in Message /\ FromWorker(m) /\ toParent' \in Seq(Message)
      /\ UNCHANGED <<worker, toWorker, passes, ops>>
  BY <1>1, ManagerReceivesTyped
<1>3. Answers(m)
  BY <1>1, <1>2 DEF FromWorker
<1>4. /\ awaited \subseteq manager.queue
      /\ \A n \in manager.queue : n \in awaited <=> n.cmdId = m.replyTo
      /\ \A n \in awaited : n.call = m.call
  BY <1>a, <1>3 DEF Awaited, Answers
<1>5. \A n \in manager.queue : FromParent(n) /\ n.cmd \in {"FUNCTION", "KILL", "CALLBACK"}
  BY <1>0 DEF NumbersInv, Sent
<1>6. ASSUME NEW n \in manager.queue, NEW c, n.call = {c}
      PROVE  c \in Calls /\ IsCallOf("parent", c, n, n.cmdId)
  BY <1>5, <1>6 DEF FromParent, IsCallOf
<1>7. ASSUME NEW c \in settled
      PROVE  c \in Calls /\ m.call = {c} /\ calls[c].by = "parent" /\ calls[c].state # "idle"
  <2>1. PICK n \in awaited : n.call = {c}
    BY <1>c
  <2> QED BY <1>4, <1>6, <2>1 DEF IsCallOf
<1>8. ASSUME NEW c \in Calls
      PROVE  /\ calls'[c] \in Call
             /\ c \notin settled => calls'[c] = calls[c]
             /\ c \in settled =>
                  /\ calls'[c].state \in {"resolved", "rejected"} /\ calls'[c].answer = {c}
                  /\ calls'[c].ran = calls[c].ran
                  /\ SameMaking(c)
  <2>1. CASE c \notin settled
    BY <1>0, <1>1, <2>1
  <2>2. CASE c \in settled
    <3>1. PICK new : new = Settled(c, m)
      OBVIOUS
    <3>2. /\ new \in [Calls -> Call]
          /\ new[c].state \in {"resolved", "rejected"} /\ new[c].answer = m.call
          /\ new[c].ran = calls[c].ran
          /\ new[c].by = calls[c].by /\ new[c].fn = calls[c].fn
          /\ new[c].inst = calls[c].inst /\ new[c].process = calls[c].process
          /\ new[c].handle = calls[c].handle /\ new[c].cmdId = calls[c].cmdId
      BY <1>0, <1>2, <3>1, SettledFields
    <3>3. calls'[c] = new[c]
      BY <1>1, <2>2, <3>1
    <3> QED BY <1>7, <2>2, <3>2, <3>3 DEF SameMaking
  <2> QED BY <2>1, <2>2
<1>9. calls' \in [Calls -> Call]
  BY <1>1, <1>8
<1>10. CallsKept /\ CallsChange /\ \A c \in Calls : ~Made(c)
  <2>1. ASSUME NEW c \in Calls
        PROVE  CallStep(c) /\ ~Made(c) /\ (calls[c].state # "idle" => calls'[c].state # "idle")
               /\ (calls[c].state # "idle" => SameMaking(c))
    <3>1. CASE c \notin settled
      BY <1>8, <3>1 DEF CallStep, Made, SameMaking
    <3>2. CASE c \in settled
      BY <1>7, <1>8, <3>2 DEF CallStep, Made
    <3> QED BY <3>1, <3>2
  <2>2. CallsKept
    BY <2>1 DEF CallsKept, SameMaking
  <2> QED BY <2>1, <2>2 DEF CallsChange
<1>11. killed \subseteq manager.destroyed
  BY <1>b, <1>4, <1>5 DEF FromParent
<1>12. PICK q, s : q = manager.queue \ awaited /\ s = manager.instances \ killed
  OBVIOUS
<1>13. manager' = [manager EXCEPT !.queue = q, !.instances = s]
  BY <1>1, <1>12
<1>14. q \in SUBSET Message /\ s \in SUBSET Instances
  BY <1>0, <1>12 DEF Manager
<1>15. /\ manager' \in Manager /\ manager'.callbacks = manager.callbacks
       /\ manager'.cmdId = manager.cmdId /\ manager'.queue = q
       /\ manager'.status = manager.status /\ manager'.initialized = manager.initialized
       /\ manager'.process = manager.process
       /\ manager'.instances = s /\ manager'.destroyed = manager.destroyed
       /\ manager'.running = manager.running /\ manager'.remote = manager.remote
  <2>1. manager' \in Manager
    BY <1>0, <1>13, <1>14 DEF Manager
  <2> QED BY <1>0, <1>13, <2>1 DEF Manager
<1>16. TypeOK'
  BY <1>0, <1>2, <1>9, <1>15 DEF TypeOK
<1>17. Instances \ manager.destroyed \subseteq manager'.instances
  BY <1>0, <1>11, <1>12, <1>15
<1>18. \A c \in settled : ~Pending(c)'
  BY <1>7, <1>8 DEF Pending
<1>19. ASSUME NEW n \in manager.queue, NEW c \in Calls, n.call = {c}, Pending(c)'
       PROVE  n \in manager'.queue
  <2>1. n \notin awaited
    BY <1>c, <1>18, <1>19
  <2> QED BY <1>12, <1>15, <2>1
<1>20. ASSUME NEW c \in Calls, Pending(c)', calls[c].by = "parent", m.replyTo = calls[c].cmdId,
              Expected(c)
       PROVE  FALSE
  <2>1. PICK n \in manager.queue : n.call = {c}
    BY <1>20 DEF Expected
  <2>2. n.cmdId = m.replyTo
    BY <1>6, <1>20, <2>1 DEF IsCallOf
  <2>3. c \in settled
    BY <1>c, <1>4, <2>1, <2>2
  <2> QED BY <1>18, <1>20, <2>3
<1>21. manager'.queue \subseteq manager.queue /\ manager.running \subseteq manager'.running
  BY <1>12, <1>15
<1> QED BY <1>0, <1>1, <1>10, <1>15, <1>16, <1>17, <1>19, <1>20, <1>21, ManagerTakesGood

-----------------------------------------------------------------------------
(***************************************************************************)
(* The steps of the worker.                                                *)
(***************************************************************************)
LEMMA WorkerTyped ==
  ASSUME IInv
  PROVE  /\ TypeOK /\ worker \in Worker /\ worker.handles \in Seq(Handle)
         /\ worker.callbacks \in Seq(WorkerFunctions) /\ IsInjective(worker.callbacks)
         /\ toWorker \in Seq(Message) /\ toParent \in Seq(Message)
         /\ calls \in [Calls -> Call] /\ manager.process \in Nat
         /\ NumbersInv /\ FunctionsInv /\ CallsInv /\ HandlesInv /\ KnownInv /\ FlightInv
BY DEF IInv, TypeOK, Manager, Worker

\* One handle changes.
HandleSet(w, h, handle) == [w EXCEPT !.handles[h] = handle]

\* It has used a number, and has the queue q.
Advanced(handle, q) == [handle EXCEPT !.cmdId = @ + 1, !.queue = q]

LEMMA HandleSetFields ==
  ASSUME NEW w \in Worker, NEW h \in DOMAIN w.handles, NEW handle \in Handle,
         NEW new, new = HandleSet(w, h, handle)
  PROVE  /\ new \in Worker
         /\ DOMAIN new.handles = DOMAIN w.handles
         /\ new.handles[h] = handle
         /\ \A k \in DOMAIN w.handles : k # h => new.handles[k] = w.handles[k]
         /\ new.current = w.current /\ new.remoteFns = w.remoteFns
         /\ new.remote = w.remote /\ new.callbacks = w.callbacks
         /\ new.running = w.running
<1>1. w.handles \in Seq(Handle)
  BY DEF Worker
<1>2. PICK s : s = [w.handles EXCEPT ![h] = handle]
  OBVIOUS
<1>3. /\ s \in Seq(Handle) /\ DOMAIN s = DOMAIN w.handles /\ s[h] = handle
      /\ \A k \in DOMAIN w.handles : k # h => s[k] = w.handles[k]
  <2>1. h \in 1..Len(w.handles)
    BY <1>1, LenProperties
  <2>2. s \in Seq(Handle)
    BY <1>1, <1>2, <2>1, ExceptSeq
  <2> QED BY <1>2, <2>2
<1>4. new = [w EXCEPT !.handles = s]
  BY <1>2 DEF HandleSet
<1>5. new \in Worker
  BY <1>3, <1>4 DEF Worker
<1> QED BY <1>3, <1>4, <1>5 DEF Worker

\* The worker has sent m as sent, with the handle h of w, whose queue is q then.
WorkerSent(w, h, m, sent, q) ==
  /\ sent \in Message
  /\ sent.inst = w.handles[h].inst /\ sent.cmdId = w.handles[h].cmdId
  /\ sent.cmd = m.cmd /\ sent.id = m.id /\ sent.fn = m.fn
  /\ sent.replyTo = m.replyTo /\ sent.call = m.call
  /\ toParent' \in Seq(Message) /\ ToSet(toParent') = ToSet(toParent) \cup {sent}
  /\ worker' \in Worker
  /\ DOMAIN worker'.handles = DOMAIN w.handles
  /\ worker'.handles[h].inst = w.handles[h].inst
  /\ worker'.handles[h].cmdId = w.handles[h].cmdId + 1
  /\ worker'.handles[h].queue = q
  /\ \A k \in DOMAIN w.handles : k # h => worker'.handles[k] = w.handles[k]
  /\ worker'.current = w.current /\ worker'.remoteFns = w.remoteFns
  /\ worker'.remote = w.remote /\ worker'.callbacks = w.callbacks
  /\ worker'.running = w.running

SentWithout(w, h, m) == WorkerSends(w, h, m, FALSE)
SentAwaited(w, h, m) == WorkerSends(w, h, m, TRUE)

LEMMA WorkerSendsFields ==
  ASSUME NEW w \in Worker, NEW h \in DOMAIN w.handles, NEW m \in Message,
         toParent \in Seq(Message)
  PROVE  /\ SentWithout(w, h, m) => \E sent : WorkerSent(w, h, m, sent, w.handles[h].queue)
         /\ SentAwaited(w, h, m) =>
              \E sent : WorkerSent(w, h, m, sent, w.handles[h].queue \cup {sent})
<1>1. w.handles \in Seq(Handle)
  BY DEF Worker
<1>2. PICK handle : handle = w.handles[h]
  OBVIOUS
<1>3. handle \in Handle /\ handle.inst \in Instances /\ handle.cmdId \in Nat
      /\ handle.queue \subseteq Message
  <2>1. h \in 1..Len(w.handles)
    BY <1>1, LenProperties
  <2>2. handle \in Handle
    BY <1>1, <1>2, <2>1, ElementOfSeq
  <2> QED BY <2>2 DEF Handle
<1>4. PICK sent : sent = [m EXCEPT !.inst = handle.inst, !.cmdId = handle.cmdId]
  OBVIOUS
<1>5. /\ sent \in Message /\ sent.inst = handle.inst /\ sent.cmdId = handle.cmdId
      /\ sent.cmd = m.cmd /\ sent.id = m.id /\ sent.fn = m.fn
      /\ sent.replyTo = m.replyTo /\ sent.call = m.call
  BY <1>3, <1>4 DEF Message
<1>6. PICK n : n = handle.cmdId + 1
  OBVIOUS
<1>7. ASSUME NEW q \in SUBSET Message,
             worker' = HandleSet(w, h, Advanced(handle, q)),
             toParent' = Append(toParent, sent)
      PROVE  WorkerSent(w, h, m, sent, q)
  <2>1. PICK new : new = Advanced(handle, q)
    OBVIOUS
  <2>2. new \in Handle /\ new.inst = handle.inst /\ new.cmdId = handle.cmdId + 1 /\ new.queue = q
    <3>1. new = [handle EXCEPT !.cmdId = n, !.queue = q] /\ n \in Nat
      BY <1>3, <1>6, <2>1 DEF Advanced
    <3>2. new \in Handle
      BY <1>3, <3>1 DEF Handle
    <3> QED BY <1>3, <1>6, <3>1, <3>2 DEF Handle
  <2>3. PICK v : v = worker'
    OBVIOUS
  <2>4. v = HandleSet(w, h, new)
    BY <1>7, <2>1, <2>3
  <2>5. /\ v \in Worker
        /\ DOMAIN v.handles = DOMAIN w.handles
        /\ v.handles[h] = new
        /\ \A k \in DOMAIN w.handles : k # h => v.handles[k] = w.handles[k]
        /\ v.current = w.current /\ v.remoteFns = w.remoteFns
        /\ v.remote = w.remote /\ v.callbacks = w.callbacks
        /\ v.running = w.running
    BY <2>2, <2>4, HandleSetFields
  <2>6. toParent' \in Seq(Message) /\ ToSet(toParent') = ToSet(toParent) \cup {sent}
    BY <1>5, <1>7, AppendProperties, ToSetAppend
  <2> QED BY <1>2, <1>5, <2>2, <2>3, <2>5, <2>6 DEF WorkerSent
<1>8. SentWithout(w, h, m) =>
        /\ worker' = HandleSet(w, h, Advanced(handle, handle.queue))
        /\ toParent' = Append(toParent, sent)
  BY <1>2, <1>4, <1>6 DEF SentWithout, WorkerSends, HandleSet, Advanced, Worker
<1>9. SentAwaited(w, h, m) =>
        /\ worker' = HandleSet(w, h, Advanced(handle, handle.queue \cup {sent}))
        /\ toParent' = Append(toParent, sent)
  BY <1>2, <1>4, <1>6 DEF SentAwaited, WorkerSends, HandleSet, Advanced, Worker
<1>10. SentWithout(w, h, m) => WorkerSent(w, h, m, sent, w.handles[h].queue)
  BY <1>2, <1>3, <1>7, <1>8
<1>11. SentAwaited(w, h, m) => WorkerSent(w, h, m, sent, w.handles[h].queue \cup {sent})
  <2>1. handle.queue \cup {sent} \in SUBSET Message
    BY <1>3, <1>5
  <2> QED BY <1>2, <1>7, <1>9, <2>1
<1> QED BY <1>10, <1>11

\* A message that is sent without a reply to it leaves the queues alone.
LEMMA SentKeeps ==
  ASSUME NEW w \in Worker, NEW h \in DOMAIN w.handles, NEW m, NEW sent,
         w.handles = worker.handles, WorkerSent(w, h, m, sent, w.handles[h].queue)
  PROVE  /\ HandlesKept
         /\ DOMAIN worker'.handles = DOMAIN worker.handles
         /\ \A k \in DOMAIN worker.handles : /\ worker'.handles[k].inst = worker.handles[k].inst
                                             /\ worker'.handles[k].queue = worker.handles[k].queue
         /\ ToSet(toParent) \subseteq ToSet(toParent')
<1>1. \A k \in DOMAIN w.handles : w.handles[k].cmdId \in Nat
  BY HandleTyped DEF Worker
<1>2. \A k \in DOMAIN w.handles :
        /\ worker'.handles[k].inst = w.handles[k].inst
        /\ worker'.handles[k].queue = w.handles[k].queue
        /\ w.handles[k].cmdId <= worker'.handles[k].cmdId
  <2> SUFFICES ASSUME NEW k \in DOMAIN w.handles
               PROVE  /\ worker'.handles[k].inst = w.handles[k].inst
                      /\ worker'.handles[k].queue = w.handles[k].queue
                      /\ w.handles[k].cmdId <= worker'.handles[k].cmdId
    OBVIOUS
  <2>1. CASE k = h
    BY <1>1, <2>1 DEF WorkerSent
  <2>2. CASE k # h
    BY <1>1, <2>2 DEF WorkerSent
  <2> QED BY <2>1, <2>2
<1>3. DOMAIN worker'.handles = DOMAIN w.handles /\ ToSet(toParent) \subseteq ToSet(toParent')
  BY DEF WorkerSent
<1> QED BY <1>2, <1>3 DEF HandlesKept

\* A reply to something that the manager sent.
LEMMA AnswerGood ==
  ASSUME IInv, manager' = manager, NEW n \in Sent, NEW sent,
         sent.replyTo = n.cmdId, sent.call = n.call
  PROVE  Answers(sent)'
<1>1. n.cmdId < manager.cmdId /\ \A o \in manager.queue : o.cmdId = n.cmdId => o = n
  BY DEF IInv, NumbersInv, FromParent, Sent
<1> QED BY <1>1 DEF Answers

\* The message that the worker takes comes from the manager.
LEMMA ReceivesTyped ==
  ASSUME IInv, NEW m, Receives(m)
  PROVE  /\ m \in Message /\ m \in Sent /\ FromParent(m) /\ m \in ToSet(toWorker)
         /\ m.inst \in Instances
         /\ toWorker # <<>> /\ m = Head(toWorker) /\ toWorker' = Tail(toWorker)
         /\ toWorker' \in Seq(Message) /\ ToSet(toWorker') \subseteq ToSet(toWorker)
         /\ \A n \in ToSet(toWorker) : n = m \/ n \in ToSet(toWorker')
         /\ manager.status # "down" /\ UNCHANGED <<manager, passes, ops>>
         /\ m.cmd = "INIT" => m.inst \in manager.initialized
         /\ worker.current[m.inst] = 0 /\ m.cmd # "INIT" => m.inst \in manager.destroyed
         /\ worker.current[m.inst] # 0 =>
              /\ worker.current[m.inst] \in DOMAIN worker.handles
              /\ worker.handles[worker.current[m.inst]].inst = m.inst
<1>1. /\ toWorker \in Seq(Message) /\ toWorker # <<>> /\ m = Head(toWorker)
      /\ toWorker' = Tail(toWorker)
      /\ manager.status # "down" /\ UNCHANGED <<manager, passes, ops>>
      /\ NumbersInv /\ HandlesInv /\ KnownInv
  BY WorkerTyped DEF Receives, NoOp
<1>2. /\ m \in ToSet(toWorker) /\ m \in Message /\ toWorker' \in Seq(Message)
      /\ ToSet(toWorker) = {m} \cup ToSet(toWorker')
  BY <1>1, ToSetTail, HeadTailProperties
<1>3. m.inst \in Instances
  BY <1>2 DEF Message
<1>4. m \in Sent /\ FromParent(m)
  BY <1>1, <1>2 DEF Sent, NumbersInv
<1>5. 1 \in DOMAIN toWorker /\ toWorker[1] = m
  BY <1>1, LenProperties, EmptySeq
<1>6. /\ m.cmd = "INIT" => m.inst \in manager.initialized
      /\ m.cmd # "INIT" => Known(m.inst, 1, manager, toWorker, worker)
  BY <1>1, <1>5 DEF KnownInv
<1>7. worker.current[m.inst] = 0 /\ m.cmd # "INIT" => m.inst \in manager.destroyed
  BY <1>6 DEF Known
<1>8. worker.current[m.inst] # 0 =>
        /\ worker.current[m.inst] \in DOMAIN worker.handles
        /\ worker.handles[worker.current[m.inst]].inst = m.inst
  BY <1>1, <1>3 DEF HandlesInv
<1>9. /\ ToSet(toWorker') \subseteq ToSet(toWorker)
      /\ \A n \in ToSet(toWorker) : n = m \/ n \in ToSet(toWorker')
  BY <1>2
<1> QED BY <1>1, <1>2, <1>3, <1>4, <1>6, <1>7, <1>8, <1>9

LEMMA AnswerTyped ==
  ASSUME NEW m \in Message, NEW cmd \in {"REPLY", "RESULT"}, NEW error \in BOOLEAN,
         NEW a, a = Answer(m, cmd, error)
  PROVE  /\ a \in Message /\ a.cmd = cmd /\ a.inst = m.inst /\ a.replyTo = m.cmdId
         /\ a.call = m.call /\ a.error = error
BY DEF Answer, NewMessage, Message

Accepts(m) == Answer(m, "REPLY", FALSE)
Refuses(m) == Answer(m, "REPLY", TRUE)
Results(m) == Answer(m, "RESULT", FALSE)

LEMMA AcceptsTyped ==
  ASSUME NEW m \in Message, NEW a, a = Accepts(m)
  PROVE  /\ a \in Message /\ a.cmd = "REPLY" /\ a.inst = m.inst /\ a.replyTo = m.cmdId
         /\ a.call = m.call
BY DEF Accepts, Answer, NewMessage, Message

LEMMA RefusesTyped ==
  ASSUME NEW m \in Message, NEW a, a = Refuses(m)
  PROVE  /\ a \in Message /\ a.cmd = "REPLY" /\ a.inst = m.inst /\ a.replyTo = m.cmdId
         /\ a.call = m.call
BY DEF Refuses, Answer, NewMessage, Message

LEMMA ResultsTyped ==
  ASSUME NEW m \in Message, NEW a, a = Results(m)
  PROVE  /\ a \in Message /\ a.cmd = "RESULT" /\ a.inst = m.inst /\ a.replyTo = m.cmdId
         /\ a.call = m.call
BY DEF Results, Answer, NewMessage, Message

\* The worker knows what it knew, if it takes no message.
LEMMA KnownSame ==
  ASSUME IInv, manager' = manager, toWorker' = toWorker, worker'.current = worker.current
  PROVE  KnownInv'
BY DEF IInv, KnownInv, Known

\* Queues that are left alone hold what they held for the pending calls.
LEMMA QueuesKept ==
  ASSUME IInv,
         \A h \in DOMAIN worker.handles : worker'.handles[h].queue = worker.handles[h].queue
  PROVE  \A c \in Calls : (Pending(c) /\ calls[c].by = "worker") =>
           \A n \in worker.handles[calls[c].handle].queue :
             n \in worker'.handles[calls[c].handle].queue
<1> SUFFICES ASSUME NEW c \in Calls, Pending(c), calls[c].by = "worker",
                    NEW n \in worker.handles[calls[c].handle].queue
             PROVE  n \in worker'.handles[calls[c].handle].queue
  OBVIOUS
<1>1. calls[c].handle \in DOMAIN worker.handles
  BY WorkerTyped DEF CallsInv, OfHandle, Pending
<1> QED BY <1>1

LEMMA ConstructGood ==
  ASSUME IInv, NEW m, Construct(m)
  PROVE  IInv'
<1>0. /\ TypeOK /\ worker \in Worker /\ worker.handles \in Seq(Handle)
      /\ toParent \in Seq(Message) /\ KnownInv
  BY WorkerTyped
<1>1. /\ Receives(m) /\ m.cmd = "INIT" /\ toParent' = toParent /\ calls' = calls
      /\ worker' = [worker EXCEPT !.handles = Append(@, NewHandle(m.inst)),
                                  !.current[m.inst] = Len(worker.handles) + 1]
  BY DEF Construct
<1>2. /\ m \in Message /\ m.inst \in Instances /\ FromParent(m)
      /\ toWorker # <<>> /\ m = Head(toWorker) /\ toWorker' = Tail(toWorker)
      /\ toWorker' \in Seq(Message) /\ ToSet(toWorker') \subseteq ToSet(toWorker)
      /\ \A n \in ToSet(toWorker) : n = m \/ n \in ToSet(toWorker')
      /\ manager.status # "down" /\ UNCHANGED <<manager, passes, ops>>
      /\ m.inst \in manager.initialized
  BY <1>1, ReceivesTyped
<1>3. PICK handle, s, n, c :
        /\ handle = NewHandle(m.inst) /\ s = Append(worker.handles, NewHandle(m.inst))
        /\ n = Len(worker.handles) + 1
        /\ c = [worker.current EXCEPT ![m.inst] = Len(worker.handles) + 1]
  OBVIOUS
<1>4. /\ handle \in Handle /\ handle.inst = m.inst /\ handle.queue = {}
  BY <1>2, <1>3 DEF NewHandle, Handle
<1>5. /\ n \in Nat \ {0} /\ n \notin DOMAIN worker.handles
      /\ s \in Seq(Handle) /\ DOMAIN s = DOMAIN worker.handles \cup {n}
      /\ s[n] = handle /\ \A h \in DOMAIN worker.handles : s[h] = worker.handles[h]
  <2>1. /\ s \in Seq(Handle) /\ Len(s) = Len(worker.handles) + 1
        /\ \A h \in 1..Len(worker.handles) : s[h] = worker.handles[h]
        /\ s[Len(worker.handles) + 1] = handle
    BY <1>0, <1>3, <1>4, AppendProperties
  <2>2. /\ Len(worker.handles) \in Nat /\ DOMAIN worker.handles = 1..Len(worker.handles)
        /\ DOMAIN s = 1..Len(s)
    BY <1>0, <2>1, LenProperties
  <2> QED BY <1>3, <2>1, <2>2
<1>6. /\ c \in [Instances -> Nat] /\ c[m.inst] = n
      /\ \A i \in Instances : i # m.inst => c[i] = worker.current[i]
  BY <1>0, <1>2, <1>3, <1>5 DEF Worker
<1>7. worker' = [worker EXCEPT !.handles = s, !.current = c]
  BY <1>1, <1>3
<1>8. /\ worker' \in Worker /\ worker'.handles = s /\ worker'.current = c
      /\ worker'.remoteFns = worker.remoteFns /\ worker'.remote = worker.remote
      /\ worker'.callbacks = worker.callbacks /\ worker'.running = worker.running
  <2>1. worker' \in Worker
    BY <1>0, <1>5, <1>6, <1>7 DEF Worker
  <2> QED BY <1>0, <1>7, <2>1 DEF Worker
<1>9. TypeOK'
  BY <1>0, <1>1, <1>2, <1>8 DEF TypeOK
<1>10. CallsKept /\ CallsChange /\ \A d \in Calls : ~Made(d)
  BY <1>1, CallsSame DEF Made
<1>11. HandlesKept /\ Grown(worker.callbacks, worker'.callbacks)
  <2>1. \A h \in DOMAIN worker.handles : worker.handles[h].cmdId \in Nat
    BY <1>0, HandleTyped
  <2> QED BY <1>5, <1>8, <2>1 DEF HandlesKept, Grown
<1>12. WorkerNotes
  <2>1. \A i \in Instances :
          \/ worker'.current[i] = worker.current[i]
          \/ /\ worker'.current[i] \notin DOMAIN worker.handles
             /\ worker'.current[i] \in DOMAIN worker'.handles
             /\ worker'.handles[worker'.current[i]].inst = i
    BY <1>4, <1>5, <1>6, <1>8
  <2>2. \A h \in DOMAIN worker'.handles :
          \/ h \in DOMAIN worker.handles /\ worker'.handles[h].queue = worker.handles[h].queue
          \/ /\ worker'.handles[h].inst \in manager.initialized
             /\ worker'.handles[h].queue = {}
    BY <1>2, <1>4, <1>5, <1>8
  <2> QED BY <1>1, <1>8, <2>1, <2>2 DEF WorkerNotes
<1>13. WorkerAnswers
  <2>1. m.call = {}
    BY <1>1, <1>2 DEF FromParent
  <2>2. \A d \in Calls : (Pending(d) /\ calls[d].by = "worker") =>
          \A o \in worker.handles[calls[d].handle].queue :
            o \in worker'.handles[calls[d].handle].queue
    BY <1>5, <1>8, QueuesKept
  <2> QED BY <1>2, <1>8, <1>10, <2>1, <2>2 DEF WorkerAnswers
<1>14. KnownInv'
  BY <1>0, <1>1, <1>2, <1>5, <1>6, <1>8, <1>9, KnownTail
<1> QED BY <1>1, <1>2, <1>9, <1>10, <1>11, <1>12, <1>13, <1>14, WorkerGood

LEMMA DropMessageGood ==
  ASSUME IInv, NEW m, DropMessage(m)
  PROVE  IInv'
<1>0. TypeOK /\ KnownInv /\ worker.handles \in Seq(Handle)
  BY WorkerTyped
<1>1. /\ Receives(m) /\ m.cmd # "INIT" /\ worker.current[m.inst] = 0
      /\ UNCHANGED <<worker, toParent, calls>>
  BY DEF DropMessage
<1>2. /\ FromParent(m) /\ m.inst \in manager.destroyed
      /\ toWorker # <<>> /\ m = Head(toWorker) /\ toWorker' = Tail(toWorker)
      /\ toWorker' \in Seq(Message) /\ ToSet(toWorker') \subseteq ToSet(toWorker)
      /\ \A n \in ToSet(toWorker) : n = m \/ n \in ToSet(toWorker')
      /\ manager.status # "down" /\ UNCHANGED <<manager, passes, ops>>
  BY <1>1, ReceivesTyped
<1>3. TypeOK'
  BY <1>0, <1>1, <1>2 DEF TypeOK
<1>4. CallsKept /\ CallsChange /\ \A c \in Calls : ~Made(c)
  BY <1>1, CallsSame DEF Made
<1>5. HandlesKept /\ Grown(worker.callbacks, worker'.callbacks)
  <2>1. \A h \in DOMAIN worker.handles : worker.handles[h].cmdId \in Nat
    BY <1>0, HandleTyped
  <2> QED BY <1>1, <2>1 DEF HandlesKept, Grown
<1>6. WorkerNotes
  BY <1>1 DEF WorkerNotes
<1>7. WorkerAnswers
  <2>1. ASSUME NEW c \in Calls, m.call = {c}, m.cmd \in {"CALLBACK", "REPLY"} PROVE Stranded(c)'
    <3>1. calls[c].inst = m.inst
      BY <1>2, <2>1 DEF FromParent, IsCallOf
    <3> QED BY <1>1, <1>2, <3>1 DEF Stranded
  <2> QED BY <1>1, <1>2, <1>4, <2>1 DEF WorkerAnswers
<1>8. KnownInv'
  BY <1>0, <1>1, <1>2, <1>3, KnownTail
<1> QED BY <1>1, <1>2, <1>3, <1>4, <1>5, <1>6, <1>7, <1>8, WorkerGood

LEMMA KillInstanceGood ==
  ASSUME IInv, NEW m, KillInstance(m)
  PROVE  IInv'
<1>0. /\ TypeOK /\ worker \in Worker /\ worker.handles \in Seq(Handle) /\ KnownInv
      /\ toParent \in Seq(Message)
  BY WorkerTyped
<1>h. PICK h : h = worker.current[m.inst]
  OBVIOUS
<1>w. PICK w : w = [worker EXCEPT !.current[m.inst] = 0]
  OBVIOUS
<1>a. PICK a : a = Accepts(m)
  OBVIOUS
<1>1. /\ Receives(m) /\ m.cmd = "KILL" /\ h # 0 /\ SentWithout(w, h, a) /\ calls' = calls
  BY <1>h, <1>w, <1>a DEF KillInstance, SentWithout, Accepts
<1>2. /\ m \in Message /\ FromParent(m) /\ m \in Sent /\ m.inst \in Instances
      /\ toWorker # <<>> /\ m = Head(toWorker) /\ toWorker' = Tail(toWorker)
      /\ toWorker' \in Seq(Message) /\ ToSet(toWorker') \subseteq ToSet(toWorker)
      /\ \A n \in ToSet(toWorker) : n = m \/ n \in ToSet(toWorker')
      /\ manager.status # "down" /\ UNCHANGED <<manager, passes, ops>>
      /\ h \in DOMAIN worker.handles
  BY <1>1, <1>h, ReceivesTyped
<1>3. /\ a \in Message /\ a.cmd = "REPLY" /\ a.replyTo = m.cmdId /\ a.call = m.call
  BY <1>2, <1>a, AcceptsTyped
<1>4. /\ w \in Worker /\ w.handles = worker.handles /\ w.remoteFns = worker.remoteFns
      /\ w.remote = worker.remote /\ w.callbacks = worker.callbacks
      /\ w.running = worker.running
      /\ w.current[m.inst] = 0
      /\ \A i \in Instances : i # m.inst => w.current[i] = worker.current[i]
  <2>1. PICK c : c = [worker.current EXCEPT ![m.inst] = 0]
    OBVIOUS
  <2>2. /\ c \in [Instances -> Nat] /\ c[m.inst] = 0
        /\ \A i \in Instances : i # m.inst => c[i] = worker.current[i]
    BY <1>0, <1>2, <2>1 DEF Worker
  <2>3. w = [worker EXCEPT !.current = c]
    BY <1>w, <2>1
  <2>4. w \in Worker
    BY <1>0, <2>2, <2>3 DEF Worker
  <2> QED BY <1>0, <2>2, <2>3, <2>4 DEF Worker
<1>5. PICK sent : WorkerSent(w, h, a, sent, w.handles[h].queue)
  BY <1>0, <1>1, <1>2, <1>3, <1>4, WorkerSendsFields
<1>6. /\ HandlesKept
      /\ DOMAIN worker'.handles = DOMAIN worker.handles
      /\ \A k \in DOMAIN worker.handles : /\ worker'.handles[k].inst = worker.handles[k].inst
                                          /\ worker'.handles[k].queue = worker.handles[k].queue
      /\ ToSet(toParent) \subseteq ToSet(toParent')
  BY <1>2, <1>4, <1>5, SentKeeps
<1>7. /\ worker' \in Worker /\ worker'.remoteFns = worker.remoteFns
      /\ worker'.remote = worker.remote /\ worker'.callbacks = worker.callbacks
      /\ worker'.running = worker.running /\ worker'.current = w.current
      /\ toParent' \in Seq(Message) /\ ToSet(toParent') = ToSet(toParent) \cup {sent}
      /\ sent.cmd = "REPLY" /\ sent.replyTo = m.cmdId /\ sent.call = m.call
  BY <1>3, <1>4, <1>5 DEF WorkerSent
<1>8. TypeOK'
  BY <1>0, <1>1, <1>2, <1>7 DEF TypeOK
<1>9. CallsKept /\ CallsChange /\ \A d \in Calls : ~Made(d)
  BY <1>1, CallsSame DEF Made
<1>10. Grown(worker.callbacks, worker'.callbacks)
  BY <1>7 DEF Grown
<1>11. FromWorker(sent)'
  <2>1. Answers(sent)'
    BY <1>2, <1>7, AnswerGood
  <2> QED BY <1>7, <2>1 DEF FromWorker
<1>12. WorkerNotes
  <2>1. 0 \notin DOMAIN worker.handles
    BY <1>0, HandleTyped
  <2>2. \A i \in Instances :
          \/ worker'.current[i] = worker.current[i]
          \/ worker'.current[i] = 0 /\ worker'.current[i] \notin DOMAIN worker.handles
    BY <1>4, <1>7, <2>1
  <2> QED BY <1>6, <1>7, <1>11, <2>2 DEF WorkerNotes
<1>13. WorkerAnswers
  <2>1. m.call = {}
    BY <1>1, <1>2 DEF FromParent
  <2>2. \A d \in Calls : (Pending(d) /\ calls[d].by = "worker") =>
          \A o \in worker.handles[calls[d].handle].queue :
            o \in worker'.handles[calls[d].handle].queue
    BY <1>6, QueuesKept
  <2> QED BY <1>2, <1>7, <1>9, <2>1, <2>2 DEF WorkerAnswers
<1>14. KnownInv'
  <2>1. m.inst \in manager.destroyed
    BY <1>1, <1>2 DEF FromParent
  <2>2. \A i \in Instances :
          worker.current[i] # 0 => worker'.current[i] # 0 \/ i \in manager.destroyed
    BY <1>4, <1>7, <2>1
  <2> QED BY <1>0, <1>1, <1>2, <1>8, <2>2, KnownTail
<1> QED BY <1>1, <1>2, <1>6, <1>8, <1>9, <1>10, <1>12, <1>13, <1>14, WorkerGood

LEMMA RunFunctionGood ==
  ASSUME IInv, NEW m, RunFunction(m)
  PROVE  IInv'
<1>0. /\ TypeOK /\ worker \in Worker /\ worker.handles \in Seq(Handle) /\ KnownInv
      /\ worker.callbacks \in Seq(WorkerFunctions) /\ IsInjective(worker.callbacks)
      /\ toParent \in Seq(Message)
  BY WorkerTyped
<1>h. PICK h : h = worker.current[m.inst]
  OBVIOUS
<1>1. Receives(m) /\ m.cmd = "FUNCTION" /\ h # 0 /\ calls' = calls
  BY <1>h DEF RunFunction
<1>2. /\ m \in Message /\ FromParent(m) /\ m \in Sent
      /\ toWorker # <<>> /\ m = Head(toWorker) /\ toWorker' = Tail(toWorker)
      /\ toWorker' \in Seq(Message) /\ ToSet(toWorker') \subseteq ToSet(toWorker)
      /\ \A n \in ToSet(toWorker) : n = m \/ n \in ToSet(toWorker')
      /\ manager.status # "down" /\ UNCHANGED <<manager, passes, ops>>
      /\ h \in DOMAIN worker.handles
  BY <1>1, <1>h, ReceivesTyped
<1>w. PICK given : given = [Decoded(worker, m.id, h) EXCEPT !.remote = @ \cup [id : {m.id}, fn : m.fn]]
  OBVIOUS
<1>3. PICK g \in m.returns :
        SentWithout([given EXCEPT !.callbacks = Register(worker.callbacks, g)], h,
                    [Results(m) EXCEPT !.id = IdOf(Register(worker.callbacks, g), g), !.fn = {g}])
  BY <1>h, <1>w, Zenon DEF RunFunction, Results, SentWithout
<1>4. g \in WorkerFunctions
  BY <1>2 DEF Message
<1>t. PICK table : table = Register(worker.callbacks, g)
  OBVIOUS
<1>v. PICK w : w = [given EXCEPT !.callbacks = table]
  OBVIOUS
<1>r. PICK r : r = Results(m)
  OBVIOUS
<1>a. PICK a : a = [r EXCEPT !.id = IdOf(table, g), !.fn = {g}]
  OBVIOUS
<1>5. SentWithout(w, h, a)
  BY <1>3, <1>t, <1>v, <1>r, <1>a
<1>6. /\ table \in Seq(WorkerFunctions) /\ IsInjective(table) /\ Grown(worker.callbacks, table)
      /\ Has(table, IdOf(table, g), g) /\ IdOf(table, g) \in Nat
  BY <1>0, <1>4, <1>t, RegisterHas
<1>7. /\ a \in Message /\ a.cmd = "RESULT" /\ a.replyTo = m.cmdId /\ a.call = m.call
      /\ a.id = IdOf(table, g) /\ a.fn = {g}
  <2>1. r \in Message /\ r.cmd = "RESULT" /\ r.replyTo = m.cmdId /\ r.call = m.call
    BY <1>2, <1>r, ResultsTyped
  <2> QED BY <1>4, <1>6, <1>a, <2>1 DEF Message
<1>8. PICK f \in Functions : m.fn = {f} /\ Has(manager.callbacks, m.id, f)
  BY <1>1, <1>2 DEF FromParent
<1>9. m.id \in 1..Cardinality(Functions)
  BY <1>0, <1>8, IdsInRange DEF Has
<1>b. PICK s, new : /\ s = [worker.remoteFns EXCEPT ![m.id] = IF @ = 0 THEN h ELSE @]
                    /\ new = worker.remote \cup [id : {m.id}, fn : m.fn]
  OBVIOUS
<1>10. /\ s \in [1..Cardinality(Functions) -> Nat]
       /\ s[m.id] = (IF worker.remoteFns[m.id] = 0 THEN h ELSE worker.remoteFns[m.id])
       /\ \A n \in 1..Cardinality(Functions) : n # m.id => s[n] = worker.remoteFns[n]
       /\ new \in SUBSET [id : Nat, fn : Functions]
       /\ \A p \in new : p \in worker.remote \/ (p.id = m.id /\ p.fn = f)
       /\ h \in Nat \ {0}
  <2>1. h \in Nat \ {0}
    BY <1>0, <1>2, HandleTyped
  <2>2. worker.remoteFns \in [1..Cardinality(Functions) -> Nat]
        /\ worker.remote \in SUBSET [id : Nat, fn : Functions]
    BY <1>0 DEF Worker
  <2>3. /\ s \in [1..Cardinality(Functions) -> Nat]
        /\ s[m.id] = (IF worker.remoteFns[m.id] = 0 THEN h ELSE worker.remoteFns[m.id])
        /\ \A n \in 1..Cardinality(Functions) : n # m.id => s[n] = worker.remoteFns[n]
    BY <1>9, <1>b, <2>1, <2>2
  <2>4. m.id \in Nat
    BY <1>2 DEF Message
  <2> QED BY <1>8, <1>b, <2>1, <2>2, <2>3, <2>4
<1>11. /\ w \in Worker /\ w.handles = worker.handles /\ w.remoteFns = s
       /\ w.remote = new /\ w.callbacks = table
       /\ w.running = worker.running /\ w.current = worker.current
  <2>1. w = [worker EXCEPT !.remoteFns = s, !.remote = new, !.callbacks = table]
    BY <1>0, <1>b, <1>w, <1>v DEF Decoded, Worker
  <2>2. w \in Worker
    BY <1>0, <1>6, <1>10, <2>1 DEF Worker
  <2> QED BY <1>0, <2>1, <2>2 DEF Worker
<1>12. PICK sent : WorkerSent(w, h, a, sent, w.handles[h].queue)
  BY <1>0, <1>2, <1>5, <1>7, <1>11, WorkerSendsFields
<1>13. /\ HandlesKept
       /\ DOMAIN worker'.handles = DOMAIN worker.handles
       /\ \A k \in DOMAIN worker.handles : /\ worker'.handles[k].inst = worker.handles[k].inst
                                           /\ worker'.handles[k].queue = worker.handles[k].queue
       /\ ToSet(toParent) \subseteq ToSet(toParent')
  BY <1>2, <1>11, <1>12, SentKeeps
<1>14. /\ worker' \in Worker /\ worker'.remoteFns = s
       /\ worker'.remote = new /\ worker'.callbacks = table
       /\ worker'.running = worker.running /\ worker'.current = worker.current
       /\ toParent' \in Seq(Message) /\ ToSet(toParent') = ToSet(toParent) \cup {sent}
       /\ sent.cmd = "RESULT" /\ sent.replyTo = m.cmdId /\ sent.call = m.call
       /\ sent.id = IdOf(table, g) /\ sent.fn = {g}
  BY <1>7, <1>11, <1>12 DEF WorkerSent
<1>15. TypeOK'
  BY <1>0, <1>1, <1>2, <1>6, <1>14 DEF TypeOK
<1>16. CallsKept /\ CallsChange /\ \A d \in Calls : ~Made(d)
  BY <1>1, CallsSame DEF Made
<1>17. Grown(worker.callbacks, worker'.callbacks)
  BY <1>6, <1>14
<1>18. m.call = {}
  BY <1>1, <1>2 DEF FromParent
<1>19. FromWorker(sent)'
  <2>1. Answers(sent)'
    BY <1>2, <1>14, AnswerGood
  <2>2. sent.fn = {g} /\ Has(worker'.callbacks, sent.id, g) /\ sent.call = {}
    BY <1>6, <1>14, <1>18
  <2> QED BY <1>4, <1>14, <2>1, <2>2 DEF FromWorker
<1>20. WorkerNotes
  <2>1. \A p \in worker'.remote :
          \/ p \in worker.remote
          \/ Has(manager.callbacks, p.id, p.fn) /\ worker'.remoteFns[p.id] # 0
    BY <1>8, <1>10, <1>14
  <2>2. DOMAIN worker'.remoteFns = 1..Cardinality(Functions)
    BY <1>14 DEF Worker
  <2>3. \A n \in DOMAIN worker'.remoteFns :
          \/ worker'.remoteFns[n] = worker.remoteFns[n]
          \/ worker.remoteFns[n] = 0 /\ worker'.remoteFns[n] \in DOMAIN worker.handles
    BY <1>2, <1>10, <1>14, <2>2
  <2> QED BY <1>13, <1>14, <1>19, <2>1, <2>3 DEF WorkerNotes
<1>21. WorkerAnswers
  <2>1. \A d \in Calls : (Pending(d) /\ calls[d].by = "worker") =>
          \A o \in worker.handles[calls[d].handle].queue :
            o \in worker'.handles[calls[d].handle].queue
    BY <1>13, QueuesKept
  <2> QED BY <1>2, <1>14, <1>16, <1>18, <2>1 DEF WorkerAnswers
<1>22. KnownInv'
  BY <1>0, <1>1, <1>2, <1>14, <1>15, KnownTail
<1> QED BY <1>1, <1>2, <1>13, <1>15, <1>16, <1>17, <1>20, <1>21, <1>22, WorkerGood

\* The worker has a function with the number of a CALLBACK, which starts.
LEMMA CallbackStartsGood ==
  ASSUME IInv, NEW m, RunCallback(m), m.id \in DOMAIN worker.callbacks
  PROVE  IInv'
<1>0. /\ TypeOK /\ worker \in Worker /\ worker.handles \in Seq(Handle) /\ KnownInv
      /\ worker.callbacks \in Seq(WorkerFunctions) /\ FunctionsInv /\ CallsInv
      /\ calls \in [Calls -> Call] /\ manager.process \in Nat
  BY WorkerTyped
<1>h. PICK h : h = worker.current[m.inst]
  OBVIOUS
<1>e. PICK e : e = CHOOSE d \in Calls : d \in m.call
  OBVIOUS
<1>1. /\ Receives(m) /\ m.cmd = "CALLBACK" /\ h # 0 /\ toParent' = toParent
      /\ worker' = [worker EXCEPT !.running = @ \cup {[message |-> m, handle |-> h]}]
      /\ calls' = [calls EXCEPT ![e].ran = @ \cup {worker.callbacks[m.id]}]
  BY <1>h, <1>e DEF RunCallback
<1>2. /\ m \in Message /\ FromParent(m) /\ m \in ToSet(toWorker)
      /\ toWorker # <<>> /\ m = Head(toWorker) /\ toWorker' = Tail(toWorker)
      /\ toWorker' \in Seq(Message) /\ ToSet(toWorker') \subseteq ToSet(toWorker)
      /\ \A n \in ToSet(toWorker) : n = m \/ n \in ToSet(toWorker')
      /\ manager.status # "down" /\ UNCHANGED <<manager, passes, ops>>
      /\ h \in DOMAIN worker.handles /\ worker.handles[h].inst = m.inst
  BY <1>1, <1>h, ReceivesTyped
<1>3. PICK c \in Calls : IsCallOf("parent", c, m, m.cmdId)
  BY <1>1, <1>2 DEF FromParent
<1>4. m.call = {c} /\ e = c /\ calls[c].by = "parent" /\ calls[c].state # "idle"
  BY <1>3, <1>e DEF IsCallOf
<1>5. PICK f : f = worker.callbacks[m.id]
  OBVIOUS
<1>6. f \in Functions \cup WorkerFunctions
  <2>1. m.id \in 1..Len(worker.callbacks)
    BY <1>0, LenProperties
  <2>2. f \in WorkerFunctions
    BY <1>0, <1>5, <2>1, ElementOfSeq
  <2> QED BY <2>2
<1>7. calls' = Ran(c, f)
  BY <1>1, <1>4, <1>5 DEF Ran
<1>8. /\ calls' \in [Calls -> Call] /\ calls'[c].ran = calls[c].ran \cup {f}
      /\ calls'[c].state = calls[c].state /\ calls'[c].answer = calls[c].answer
      /\ SameMaking(c)
      /\ \A d \in Calls : d # c => calls'[d] = calls[d]
  BY <1>0, <1>6, <1>7, RanFields DEF SameMaking
<1>9. f = calls[c].fn \/ calls[c].process < manager.process
  <2>1. calls[c].process <= manager.process /\ calls[c].process \in Nat
    <3>1. calls[c] \in Call
      BY <1>0
    <3> QED BY <1>0, <3>1 DEF CallsInv, Call
  <2>2. calls[c].process = manager.process => Has(worker.callbacks, m.id, calls[c].fn)
    BY <1>0, <1>1, <1>2, <1>4 DEF FunctionsInv
  <2> QED BY <1>0, <1>5, <2>1, <2>2 DEF Has
<1>10. CallsKept /\ CallsChange /\ \A d \in Calls : ~Made(d)
  <2>1. CallStep(c) /\ \A d \in Calls : ~Made(d)
    BY <1>4, <1>8, <1>9 DEF CallStep, Made
  <2> QED BY <1>4, <1>8, <2>1 DEF CallsKept, CallsChange, CallStep, SameMaking
<1>11. PICK r, s : r = [message |-> m, handle |-> h] /\ s = worker.running \cup {[message |-> m, handle |-> h]}
  OBVIOUS
<1>12. r \in [message : Message, handle : Nat] /\ r.message = m /\ r.handle = h
  <2>1. h \in Nat
    BY <1>0, <1>2, HandleTyped
  <2> QED BY <1>2, <1>11, <2>1
<1>13. /\ worker' \in Worker /\ worker'.running = worker.running \cup {r}
       /\ worker'.handles = worker.handles /\ worker'.current = worker.current
       /\ worker'.remoteFns = worker.remoteFns /\ worker'.remote = worker.remote
       /\ worker'.callbacks = worker.callbacks
  <2>1. s \in SUBSET [message : Message, handle : Nat]
    BY <1>0, <1>11, <1>12 DEF Worker
  <2>2. worker' = [worker EXCEPT !.running = s]
    BY <1>1, <1>11
  <2>3. worker' \in Worker
    BY <1>0, <2>1, <2>2 DEF Worker
  <2> QED BY <1>0, <1>11, <2>2, <2>3 DEF Worker
<1>14. TypeOK'
  BY <1>0, <1>1, <1>2, <1>8, <1>13 DEF TypeOK
<1>15. HandlesKept /\ Grown(worker.callbacks, worker'.callbacks)
  <2>1. \A k \in DOMAIN worker.handles : worker.handles[k].cmdId \in Nat
    BY <1>0, HandleTyped
  <2> QED BY <1>13, <2>1 DEF HandlesKept, Grown
<1>16. WorkerNotes
  BY <1>1, <1>2, <1>12, <1>13 DEF WorkerNotes
<1>17. WorkerAnswers
  <2>1. \A d \in Calls : m.call = {d} => RunByWorker(d)'
    BY <1>12, <1>13 DEF RunByWorker
  <2> QED BY <1>1, <1>2, <1>10, <1>13, <2>1 DEF WorkerAnswers
<1>18. KnownInv'
  BY <1>0, <1>1, <1>2, <1>13, <1>14, KnownTail
<1> QED BY <1>1, <1>2, <1>10, <1>14, <1>15, <1>16, <1>17, <1>18, WorkerGood

\* It has none: the call is answered with an error.
LEMMA CallbackRefusedGood ==
  ASSUME IInv, NEW m, RunCallback(m), m.id \notin DOMAIN worker.callbacks
  PROVE  IInv'
<1>0. /\ TypeOK /\ worker \in Worker /\ worker.handles \in Seq(Handle) /\ KnownInv
      /\ toParent \in Seq(Message)
  BY WorkerTyped
<1>h. PICK h : h = worker.current[m.inst]
  OBVIOUS
<1>a. PICK a : a = Refuses(m)
  OBVIOUS
<1>1. Receives(m) /\ m.cmd = "CALLBACK" /\ h # 0 /\ SentWithout(worker, h, a) /\ calls' = calls
  BY <1>h, <1>a DEF RunCallback, SentWithout, Refuses
<1>2. /\ m \in Message /\ FromParent(m) /\ m \in Sent
      /\ toWorker # <<>> /\ m = Head(toWorker) /\ toWorker' = Tail(toWorker)
      /\ toWorker' \in Seq(Message) /\ ToSet(toWorker') \subseteq ToSet(toWorker)
      /\ \A n \in ToSet(toWorker) : n = m \/ n \in ToSet(toWorker')
      /\ manager.status # "down" /\ UNCHANGED <<manager, passes, ops>>
      /\ h \in DOMAIN worker.handles /\ worker.handles[h].inst = m.inst
  BY <1>1, <1>h, ReceivesTyped
<1>3. PICK c \in Calls : IsCallOf("parent", c, m, m.cmdId)
  BY <1>1, <1>2 DEF FromParent
<1>4. a \in Message /\ a.cmd = "REPLY" /\ a.replyTo = m.cmdId /\ a.call = m.call
  BY <1>2, <1>a, RefusesTyped
<1>5. PICK sent : WorkerSent(worker, h, a, sent, worker.handles[h].queue)
  BY <1>0, <1>1, <1>2, <1>4, WorkerSendsFields
<1>6. /\ HandlesKept
      /\ DOMAIN worker'.handles = DOMAIN worker.handles
      /\ \A k \in DOMAIN worker.handles : /\ worker'.handles[k].inst = worker.handles[k].inst
                                          /\ worker'.handles[k].queue = worker.handles[k].queue
      /\ ToSet(toParent) \subseteq ToSet(toParent')
  BY <1>0, <1>2, <1>5, SentKeeps
<1>7. /\ worker' \in Worker /\ worker'.remoteFns = worker.remoteFns
      /\ worker'.remote = worker.remote /\ worker'.callbacks = worker.callbacks
      /\ worker'.running = worker.running /\ worker'.current = worker.current
      /\ toParent' \in Seq(Message) /\ ToSet(toParent') = ToSet(toParent) \cup {sent}
      /\ sent.cmd = "REPLY" /\ sent.replyTo = m.cmdId /\ sent.call = m.call
      /\ sent.inst = m.inst
  BY <1>2, <1>4, <1>5 DEF WorkerSent
<1>8. TypeOK'
  BY <1>0, <1>1, <1>2, <1>7 DEF TypeOK
<1>9. CallsKept /\ CallsChange /\ \A d \in Calls : ~Made(d)
  BY <1>1, CallsSame DEF Made
<1>10. Grown(worker.callbacks, worker'.callbacks)
  BY <1>7 DEF Grown
<1>11. FromWorker(sent)'
  <2>1. Answers(sent)'
    BY <1>2, <1>7, AnswerGood
  <2> QED BY <1>7, <2>1 DEF FromWorker
<1>12. WorkerNotes
  BY <1>6, <1>7, <1>11 DEF WorkerNotes
<1>13. WorkerAnswers
  <2>1. \A d \in Calls : (Pending(d) /\ calls[d].by = "worker") =>
          \A o \in worker.handles[calls[d].handle].queue :
            o \in worker'.handles[calls[d].handle].queue
    BY <1>6, QueuesKept
  <2>2. ASSUME NEW d \in Calls, m.call = {d} PROVE AnsweredByWorker(d)'
    <3>1. /\ sent \in ToSet(toParent') /\ sent.call = {d} /\ sent.cmd = "REPLY"
          /\ sent.inst = m.inst /\ sent.replyTo = m.cmdId
      BY <1>7, <2>2
    <3>2. calls'[d].inst = m.inst /\ calls'[d].cmdId = m.cmdId
      BY <1>1, <1>3, <2>2 DEF IsCallOf
    <3> QED BY <3>1, <3>2 DEF AnsweredByWorker
  <2> QED BY <1>1, <1>2, <1>7, <1>9, <2>1, <2>2 DEF WorkerAnswers
<1>14. KnownInv'
  BY <1>0, <1>1, <1>2, <1>7, <1>8, KnownTail
<1> QED BY <1>1, <1>2, <1>6, <1>8, <1>9, <1>10, <1>12, <1>13, <1>14, WorkerGood

LEMMA WorkerReturnsGood ==
  ASSUME IInv, NEW r \in worker.running, WorkerReturns(r)
  PROVE  IInv'
<1>0. /\ TypeOK /\ worker \in Worker /\ worker.handles \in Seq(Handle)
      /\ toParent \in Seq(Message) /\ NumbersInv /\ HandlesInv
  BY WorkerTyped
<1>m. PICK m, h : m = r.message /\ h = r.handle
  OBVIOUS
<1>w. PICK w : w = [worker EXCEPT !.running = @ \ {r}]
  OBVIOUS
<1>e. PICK error \in BOOLEAN : error = (worker.callbacks[m.id] \in Throws)
  <2>1. (worker.callbacks[m.id] \in Throws) \in BOOLEAN
    OBVIOUS
  <2> QED BY <2>1, Zenon
<1>a. PICK a : a = Answer(m, "REPLY", error)
  OBVIOUS
<1>1. /\ manager.status # "down" /\ SentWithout(w, h, a)
      /\ UNCHANGED <<manager, toWorker, calls, passes, ops>>
  BY <1>m, <1>w, <1>e, <1>a DEF WorkerReturns, SentWithout, NoOp
<1>2. /\ m \in Message /\ m \in Sent /\ m.cmd = "CALLBACK" /\ FromParent(m)
      /\ h \in DOMAIN worker.handles /\ worker.handles[h].inst = m.inst
  <2>1. m \in Message
    BY <1>0, <1>m DEF Worker
  <2> QED BY <1>0, <1>m, <2>1 DEF NumbersInv, HandlesInv, Sent
<1>3. PICK c \in Calls : IsCallOf("parent", c, m, m.cmdId)
  BY <1>2 DEF FromParent
<1>4. a \in Message /\ a.cmd = "REPLY" /\ a.replyTo = m.cmdId /\ a.call = m.call
  BY <1>2, <1>a, AnswerTyped
<1>5. /\ w \in Worker /\ w.handles = worker.handles /\ w.remoteFns = worker.remoteFns
      /\ w.remote = worker.remote /\ w.callbacks = worker.callbacks
      /\ w.running = worker.running \ {r} /\ w.current = worker.current
  BY <1>0, <1>w DEF Worker
<1>6. PICK sent : WorkerSent(w, h, a, sent, w.handles[h].queue)
  BY <1>0, <1>1, <1>2, <1>4, <1>5, WorkerSendsFields
<1>7. /\ HandlesKept
      /\ DOMAIN worker'.handles = DOMAIN worker.handles
      /\ \A k \in DOMAIN worker.handles : /\ worker'.handles[k].inst = worker.handles[k].inst
                                          /\ worker'.handles[k].queue = worker.handles[k].queue
      /\ ToSet(toParent) \subseteq ToSet(toParent')
  BY <1>2, <1>5, <1>6, SentKeeps
<1>8. /\ worker' \in Worker /\ worker'.remoteFns = worker.remoteFns
      /\ worker'.remote = worker.remote /\ worker'.callbacks = worker.callbacks
      /\ worker'.running = worker.running \ {r} /\ worker'.current = worker.current
      /\ toParent' \in Seq(Message) /\ ToSet(toParent') = ToSet(toParent) \cup {sent}
      /\ sent.cmd = "REPLY" /\ sent.replyTo = m.cmdId /\ sent.call = m.call
      /\ sent.inst = m.inst
  BY <1>2, <1>4, <1>5, <1>6 DEF WorkerSent
<1>9. TypeOK'
  BY <1>0, <1>1, <1>8 DEF TypeOK
<1>10. CallsKept /\ CallsChange /\ \A d \in Calls : ~Made(d)
  BY <1>1, CallsSame DEF Made
<1>11. Grown(worker.callbacks, worker'.callbacks)
  BY <1>8 DEF Grown
<1>12. FromWorker(sent)'
  <2>1. Answers(sent)'
    BY <1>1, <1>2, <1>8, AnswerGood
  <2> QED BY <1>8, <2>1 DEF FromWorker
<1>13. WorkerNotes
  BY <1>7, <1>8, <1>12 DEF WorkerNotes
<1>14. WorkerAnswers
  <2>1. \A d \in Calls : (Pending(d) /\ calls[d].by = "worker") =>
          \A o \in worker.handles[calls[d].handle].queue :
            o \in worker'.handles[calls[d].handle].queue
    BY <1>7, QueuesKept
  <2>2. ASSUME NEW d \in Calls, m.call = {d} PROVE AnsweredByWorker(d)'
    <3>1. /\ sent \in ToSet(toParent') /\ sent.call = {d} /\ sent.cmd = "REPLY"
          /\ sent.inst = m.inst /\ sent.replyTo = m.cmdId
      BY <1>8, <2>2
    <3>2. calls'[d].inst = m.inst /\ calls'[d].cmdId = m.cmdId
      BY <1>1, <1>3, <2>2 DEF IsCallOf
    <3> QED BY <3>1, <3>2 DEF AnsweredByWorker
  <2> QED BY <1>1, <1>m, <1>8, <1>10, <2>1, <2>2 DEF WorkerAnswers
<1>15. KnownInv'
  BY <1>1, <1>8, KnownSame
<1> QED BY <1>1, <1>7, <1>9, <1>10, <1>11, <1>13, <1>14, <1>15, WorkerGood

\* The handle h awaits the reply m to n: a call gets its result, its own or
\* that of a call of an earlier handle.
Settles(m, h, n, c) ==
  /\ Receives(m) /\ m.cmd = "REPLY" /\ h = worker.current[m.inst] /\ h # 0
  /\ n \in Awaited(worker.handles[h].queue, m) /\ n.call = {c}
  /\ worker' = [worker EXCEPT !.handles[h].queue = @ \ {n}]
  /\ calls' = Settled(c, m)
  /\ UNCHANGED toParent

LEMMA SettlesGood ==
  ASSUME IInv, NEW m, NEW h, NEW n, NEW c \in Calls, Settles(m, h, n, c)
  PROVE  IInv'
<1>0. /\ TypeOK /\ worker \in Worker /\ worker.handles \in Seq(Handle) /\ KnownInv
      /\ CallsInv /\ HandlesInv /\ calls \in [Calls -> Call] /\ manager.process \in Nat
  BY WorkerTyped
<1>1. /\ Receives(m) /\ m.cmd = "REPLY" /\ h = worker.current[m.inst] /\ h # 0
      /\ n \in worker.handles[h].queue /\ n.cmdId = m.replyTo /\ n.call = {c}
      /\ calls' = Settled(c, m) /\ toParent' = toParent
  BY DEF Settles, Awaited
<1>w. worker' = [worker EXCEPT !.handles[h].queue = @ \ {n}]
  BY DEF Settles
<1>2. /\ m \in Message /\ FromParent(m)
      /\ toWorker # <<>> /\ m = Head(toWorker) /\ toWorker' = Tail(toWorker)
      /\ toWorker' \in Seq(Message) /\ ToSet(toWorker') \subseteq ToSet(toWorker)
      /\ \A o \in ToSet(toWorker) : o = m \/ o \in ToSet(toWorker')
      /\ manager.status # "down" /\ UNCHANGED <<manager, passes, ops>>
      /\ h \in DOMAIN worker.handles /\ worker.handles[h].inst = m.inst
  BY <1>1, ReceivesTyped
<1>3. PICK d \in Calls : IsCallOf("worker", d, m, m.replyTo)
  BY <1>1, <1>2 DEF FromParent
<1>4. /\ m.call = {d} /\ calls[d].by = "worker" /\ calls[d].state # "idle"
      /\ calls[d].inst = m.inst /\ calls[d].cmdId = m.replyTo
  BY <1>3 DEF IsCallOf
<1>5. /\ calls[c].by = "worker" /\ calls[c].state # "idle"
      /\ calls[c].inst = m.inst /\ calls[c].cmdId = m.replyTo
      /\ calls[c].handle = h /\ calls[c].process = manager.process
  <2>1. PICK e \in Calls : /\ IsCallOf("worker", e, n, n.cmdId)
                           /\ n.inst = worker.handles[h].inst
                           /\ calls[e].handle = h /\ calls[e].process = manager.process
    BY <1>0, <1>1, <1>2 DEF HandlesInv
  <2>2. e = c
    BY <1>1, <2>1 DEF IsCallOf
  <2> QED BY <1>1, <1>2, <2>1, <2>2 DEF IsCallOf
<1>6. calls[d].process = manager.process /\ calls[d].handle = h => d = c
  BY <1>0, <1>4, <1>5 DEF CallsInv
<1>7. d = c \/ Mixed(c, d)
  <2>1. calls[d].process <= manager.process /\ calls[d].process \in Nat
    <3>1. calls[d] \in Call
      BY <1>0
    <3> QED BY <1>0, <3>1 DEF CallsInv, Call
  <2> QED BY <1>0, <1>4, <1>5, <1>6, <2>1 DEF Mixed
<1>8. /\ calls' \in [Calls -> Call]
      /\ calls'[c].state \in {"resolved", "rejected"} /\ calls'[c].answer = {d}
      /\ calls'[c].ran = calls[c].ran
      /\ SameMaking(c)
      /\ \A e \in Calls : e # c => calls'[e] = calls[e]
  <2>1. PICK new : new = Settled(c, m)
    OBVIOUS
  <2>2. /\ new \in [Calls -> Call]
        /\ new[c].state \in {"resolved", "rejected"} /\ new[c].answer = m.call
        /\ new[c].ran = calls[c].ran
        /\ new[c].by = calls[c].by /\ new[c].fn = calls[c].fn
        /\ new[c].inst = calls[c].inst /\ new[c].process = calls[c].process
        /\ new[c].handle = calls[c].handle /\ new[c].cmdId = calls[c].cmdId
        /\ \A e \in Calls : e # c => new[e] = calls[e]
    BY <1>0, <1>2, <2>1, SettledFields
  <2> QED BY <1>1, <1>4, <2>1, <2>2 DEF SameMaking
<1>9. CallsKept /\ CallsChange /\ \A e \in Calls : ~Made(e)
  <2>1. CallStep(c) /\ \A e \in Calls : ~Made(e)
    BY <1>4, <1>5, <1>7, <1>8 DEF CallStep, Made
  <2> QED BY <1>5, <1>8, <2>1 DEF CallsKept, CallsChange, CallStep, SameMaking
<1>10. PICK handle, q : handle = worker.handles[h] /\ q = worker.handles[h].queue \ {n}
  OBVIOUS
<1>11. PICK new : new = [handle EXCEPT !.queue = q]
  OBVIOUS
<1>12. /\ new \in Handle /\ new.inst = handle.inst /\ new.cmdId = handle.cmdId /\ new.queue = q
       /\ handle.cmdId \in Nat
  <2>1. h \in 1..Len(worker.handles)
    BY <1>0, <1>2, LenProperties
  <2>2. handle \in Handle
    BY <1>0, <1>10, <2>1, ElementOfSeq
  <2> QED BY <1>10, <1>11, <2>2 DEF Handle
<1>13. worker' = HandleSet(worker, h, new)
  BY <1>0, <1>w, <1>2, <1>10, <1>11 DEF HandleSet, Worker
<1>14. PICK v : v = HandleSet(worker, h, new)
  OBVIOUS
<1>a. /\ v \in Worker
      /\ DOMAIN v.handles = DOMAIN worker.handles
      /\ v.handles[h] = new
      /\ \A k \in DOMAIN worker.handles : k # h => v.handles[k] = worker.handles[k]
      /\ v.current = worker.current /\ v.remoteFns = worker.remoteFns
      /\ v.remote = worker.remote /\ v.callbacks = worker.callbacks
      /\ v.running = worker.running
  BY <1>0, <1>2, <1>12, <1>14, HandleSetFields
<1>x. v = worker'
  BY <1>13, <1>14
<1>15. /\ worker' \in Worker
       /\ DOMAIN worker'.handles = DOMAIN worker.handles
       /\ worker'.handles[h] = new
       /\ \A k \in DOMAIN worker.handles : k # h => worker'.handles[k] = worker.handles[k]
       /\ worker'.current = worker.current /\ worker'.remoteFns = worker.remoteFns
       /\ worker'.remote = worker.remote /\ worker'.callbacks = worker.callbacks
       /\ worker'.running = worker.running
  BY <1>a, <1>x
<1>16. TypeOK'
  BY <1>0, <1>1, <1>2, <1>8, <1>15 DEF TypeOK
<1>17. HandlesKept /\ Grown(worker.callbacks, worker'.callbacks)
  <2>1. \A k \in DOMAIN worker.handles : worker.handles[k].cmdId \in Nat
    BY <1>0, HandleTyped
  <2>2. worker'.handles[h].inst = worker.handles[h].inst
        /\ worker'.handles[h].cmdId = worker.handles[h].cmdId
    BY <1>10, <1>12, <1>15
  <2> QED BY <1>13, <1>15, <2>1, <2>2 DEF HandlesKept, Grown
<1>18. \A k \in DOMAIN worker.handles : \A o \in worker.handles[k].queue :
         o \in worker'.handles[k].queue \/ o = n
  BY <1>10, <1>12, <1>15
<1>19. WorkerNotes
  <2>1. \A k \in DOMAIN worker'.handles :
          /\ k \in DOMAIN worker.handles
          /\ \A o \in worker'.handles[k].queue : o \in worker.handles[k].queue
    BY <1>10, <1>12, <1>15
  <2>2. \A r \in worker'.running :
          /\ r \in worker.running
    BY <1>13, <1>15
  <2> QED BY <1>1, <1>15, <2>1, <2>2 DEF WorkerNotes
<1>20. ~Pending(c)'
  BY <1>8 DEF Pending
<1>21. WorkerAnswers
  <2>1. ASSUME Pending(d)', ~Stranded(d)' PROVE FALSE
    <3>1. d # c /\ Pending(d)
      BY <1>8, <1>20, <2>1 DEF Pending
    <3>2. calls[d].process = manager.process
      BY <1>0, <1>4, <3>1 DEF CallsInv
    <3>3. calls[d].handle = h
      BY <1>1, <1>4, <1>8, <1>15, <2>1, <3>1 DEF Stranded
    <3> QED BY <1>6, <3>1, <3>2, <3>3
  <2>2. ASSUME NEW e \in Calls, Pending(e), Pending(e)', calls[e].by = "worker",
               NEW o \in worker.handles[calls[e].handle].queue, o.call = {e}
        PROVE  o \in worker'.handles[calls[e].handle].queue
    <3>1. calls[e].handle \in DOMAIN worker.handles
      BY <1>0, <2>2 DEF CallsInv, OfHandle, Pending
    <3>2. o # n
      BY <1>1, <1>20, <2>2
    <3> QED BY <1>18, <2>2, <3>1, <3>2
  <2>3. \A e \in Calls : m.call = {e} => e = d
    BY <1>4
  <2> QED BY <1>1, <1>2, <1>9, <1>15, <2>1, <2>2, <2>3 DEF WorkerAnswers
<1>22. KnownInv'
  BY <1>0, <1>1, <1>2, <1>15, <1>16, KnownTail
<1>23. ToSet(toParent) \subseteq ToSet(toParent')
  BY <1>1
<1> QED BY <1>2, <1>9, <1>16, <1>17, <1>19, <1>21, <1>22, <1>23, WorkerGood

\* The error that answers a reply nobody awaits.
Unexpected(m) == [Answer(m, "REPLY", TRUE) EXCEPT !.call = {}]

LEMMA UnexpectedTyped ==
  ASSUME NEW m \in Message, NEW a, a = Unexpected(m)
  PROVE  a \in Message /\ a.cmd = "REPLY" /\ a.replyTo = m.cmdId /\ a.call = {}
BY DEF Unexpected, Answer, NewMessage, Message

\* The handle h does not await the reply m.  It was given to a call of an
\* earlier handle, for a call of this one would still be awaited.
AnswersUnexpected(m, h) ==
  /\ Receives(m) /\ m.cmd = "REPLY" /\ h = worker.current[m.inst] /\ h # 0
  /\ Awaited(worker.handles[h].queue, m) = {}
  /\ SentWithout(worker, h, Unexpected(m))
  /\ UNCHANGED calls

LEMMA UnexpectedGood ==
  ASSUME IInv, NEW m, NEW h, AnswersUnexpected(m, h)
  PROVE  IInv'
<1>0. /\ TypeOK /\ worker \in Worker /\ worker.handles \in Seq(Handle) /\ KnownInv
      /\ toParent \in Seq(Message) /\ NumbersInv /\ HandlesInv /\ CallsInv /\ FlightInv
  BY WorkerTyped
<1>a. PICK a : a = Unexpected(m)
  OBVIOUS
<1>1. /\ Receives(m) /\ m.cmd = "REPLY" /\ h = worker.current[m.inst] /\ h # 0
      /\ SentWithout(worker, h, a) /\ calls' = calls
      /\ \A n \in worker.handles[h].queue : n.cmdId # m.replyTo
  BY <1>a DEF AnswersUnexpected, Awaited
<1>2. /\ m \in Message /\ FromParent(m) /\ m \in Sent
      /\ toWorker # <<>> /\ m = Head(toWorker) /\ toWorker' = Tail(toWorker)
      /\ toWorker' \in Seq(Message) /\ ToSet(toWorker') \subseteq ToSet(toWorker)
      /\ \A n \in ToSet(toWorker) : n = m \/ n \in ToSet(toWorker')
      /\ manager.status # "down" /\ UNCHANGED <<manager, passes, ops>>
      /\ h \in DOMAIN worker.handles /\ worker.handles[h].inst = m.inst
  BY <1>1, ReceivesTyped
<1>3. PICK d \in Calls : IsCallOf("worker", d, m, m.replyTo)
  BY <1>1, <1>2 DEF FromParent
<1>4. a \in Message /\ a.cmd = "REPLY" /\ a.replyTo = m.cmdId /\ a.call = {}
  BY <1>2, <1>a, UnexpectedTyped
<1>5. PICK sent : WorkerSent(worker, h, a, sent, worker.handles[h].queue)
  BY <1>0, <1>1, <1>2, <1>4, WorkerSendsFields
<1>6. /\ HandlesKept
      /\ DOMAIN worker'.handles = DOMAIN worker.handles
      /\ \A k \in DOMAIN worker.handles : /\ worker'.handles[k].inst = worker.handles[k].inst
                                          /\ worker'.handles[k].queue = worker.handles[k].queue
      /\ ToSet(toParent) \subseteq ToSet(toParent')
  BY <1>0, <1>2, <1>5, SentKeeps
<1>7. /\ worker' \in Worker /\ worker'.remoteFns = worker.remoteFns
      /\ worker'.remote = worker.remote /\ worker'.callbacks = worker.callbacks
      /\ worker'.running = worker.running /\ worker'.current = worker.current
      /\ toParent' \in Seq(Message) /\ ToSet(toParent') = ToSet(toParent) \cup {sent}
      /\ sent.cmd = "REPLY" /\ sent.replyTo = m.cmdId /\ sent.call = {}
  BY <1>4, <1>5 DEF WorkerSent
<1>8. TypeOK'
  BY <1>0, <1>1, <1>2, <1>7 DEF TypeOK
<1>9. CallsKept /\ CallsChange /\ \A e \in Calls : ~Made(e)
  BY <1>1, CallsSame DEF Made
<1>10. Grown(worker.callbacks, worker'.callbacks)
  BY <1>7 DEF Grown
<1>11. FromWorker(sent)'
  <2>1. m.cmdId < manager.cmdId /\ \A n \in manager.queue : n.cmdId # m.cmdId
    <3>1. \A n \in manager.queue : n.cmdId = m.cmdId => n = m
      BY <1>0, <1>2 DEF NumbersInv, Sent
    <3>2. m \notin manager.queue
      BY <1>0, <1>1 DEF NumbersInv
    <3> QED BY <1>2, <3>1, <3>2 DEF FromParent
  <2>2. Answers(sent)'
    BY <1>2, <1>7, <2>1 DEF Answers
  <2> QED BY <1>7, <2>2 DEF FromWorker
<1>12. WorkerNotes
  BY <1>6, <1>7, <1>11 DEF WorkerNotes
<1>13. WorkerAnswers
  <2>1. \A e \in Calls : (Pending(e) /\ calls[e].by = "worker") =>
          \A o \in worker.handles[calls[e].handle].queue :
            o \in worker'.handles[calls[e].handle].queue
    BY <1>6, QueuesKept
  <2>2. ASSUME Pending(d)', ~Stranded(d)' PROVE FALSE
    <3>1. /\ Pending(d) /\ calls[d].by = "worker" /\ calls[d].inst = m.inst
          /\ calls[d].cmdId = m.replyTo /\ calls[d].state # "idle"
      BY <1>1, <1>3, <2>2 DEF Pending, IsCallOf
    <3>2. ~Stranded(d)
      BY <1>1, <1>2, <1>7, <2>2 DEF Stranded
    <3>3. calls[d].handle = h
      BY <1>1, <3>1, <3>2 DEF Stranded
    <3>4. PICK n \in worker.handles[h].queue : n.call = {d}
      BY <1>0, <3>1, <3>2, <3>3 DEF FlightInv, Expected
    <3>5. PICK e \in Calls : IsCallOf("worker", e, n, n.cmdId)
      BY <1>0, <1>2 DEF HandlesInv
    <3>6. n.cmdId = m.replyTo
      BY <3>1, <3>4, <3>5 DEF IsCallOf
    <3> QED BY <1>1, <3>6
  <2>3. \A e \in Calls : m.call = {e} => e = d
    BY <1>3 DEF IsCallOf
  <2> QED BY <1>1, <1>2, <1>7, <1>9, <2>1, <2>2, <2>3 DEF WorkerAnswers
<1>14. KnownInv'
  BY <1>0, <1>1, <1>2, <1>7, <1>8, KnownTail
<1> QED BY <1>1, <1>2, <1>6, <1>8, <1>9, <1>10, <1>12, <1>13, <1>14, WorkerGood

LEMMA ReceiveReplyGood ==
  ASSUME IInv, NEW m, ReceiveReply(m)
  PROVE  IInv'
<1>1. PICK h : h = worker.current[m.inst]
  OBVIOUS
<1>2. \/ \E n, c : c \in Calls /\ Settles(m, h, n, c)
      \/ AnswersUnexpected(m, h)
  BY <1>1, Zenon DEF ReceiveReply, Settles, AnswersUnexpected, SentWithout, Unexpected
<1> QED BY <1>2, SettlesGood, UnexpectedGood

LEMMA WorkerCallsGood ==
  ASSUME IInv, NEW c \in Calls, NEW r \in worker.remote, WorkerCalls(c, r)
  PROVE  IInv'
<1>0. /\ TypeOK /\ worker \in Worker /\ worker.handles \in Seq(Handle)
      /\ toParent \in Seq(Message) /\ calls \in [Calls -> Call] /\ manager.process \in Nat
      /\ FunctionsInv /\ CallsInv /\ HandlesInv
  BY WorkerTyped
<1>h. PICK h : h = worker.remoteFns[r.id]
  OBVIOUS
<1>1. /\ r.id \in Nat /\ r.fn \in Functions /\ Has(manager.callbacks, r.id, r.fn)
      /\ h \in DOMAIN worker.handles /\ manager.status # "down"
  <2>1. Has(manager.callbacks, r.id, r.fn) /\ h # 0
    BY <1>0, <1>h DEF FunctionsInv
  <2>2. r.id \in DOMAIN worker.remoteFns
    BY <1>0, <2>1, IdsInRange DEF Has, Worker
  <2>3. manager.status # "down"
    BY <1>0 DEF HandlesInv, NewWorker
  <2> QED BY <1>0, <1>h, <2>1, <2>2, <2>3 DEF FunctionsInv, Worker
<1>i. PICK i, q : i = worker.handles[h].inst /\ q = worker.handles[h].cmdId
  OBVIOUS
<1>2. i \in Instances /\ q \in Nat /\ worker.handles[h].queue \subseteq Message /\ h \in Nat
  BY <1>0, <1>1, <1>i, HandleTyped
<1>m. PICK m : m = [NewMessage("CALLBACK", i, 0) EXCEPT !.id = r.id, !.call = {c}]
  OBVIOUS
<1>3. m \in Message /\ m.cmd = "CALLBACK" /\ m.id = r.id /\ m.call = {c}
  BY <1>m, <1>1, <1>2 DEF NewMessage, Message
<1>n. PICK new : new = [NewCall EXCEPT !.state = "pending", !.fn = r.fn, !.inst = i,
                          !.process = manager.process, !.handle = h, !.cmdId = q]
  OBVIOUS
<1>4. /\ new \in Call /\ new.by = "worker" /\ new.fn = r.fn /\ new.inst = i
      /\ new.process = manager.process /\ new.handle = h /\ new.cmdId = q
      /\ new.ran = {} /\ new.answer = {} /\ new.state = "pending"
  BY <1>0, <1>n, <1>1, <1>2, NewCallTyped DEF Call, Side
<1>5. /\ calls[c].state = "idle" /\ SentAwaited(worker, h, m)
      /\ calls' = [calls EXCEPT ![c] = new]
      /\ UNCHANGED <<manager, toWorker, passes, ops>>
  BY <1>h, <1>i, <1>m, <1>n DEF WorkerCalls, SentAwaited, NoOp
<1>6. /\ calls' \in [Calls -> Call] /\ calls'[c] = new
      /\ \A d \in Calls : d # c => calls'[d] = calls[d]
  BY <1>0, <1>4, <1>5
<1>7. PICK sent : WorkerSent(worker, h, m, sent, worker.handles[h].queue \cup {sent})
  BY <1>0, <1>1, <1>3, <1>5, WorkerSendsFields
<1>8. /\ sent \in Message /\ sent.inst = i /\ sent.cmdId = q
      /\ sent.cmd = "CALLBACK" /\ sent.id = r.id /\ sent.call = {c}
      /\ toParent' \in Seq(Message) /\ ToSet(toParent') = ToSet(toParent) \cup {sent}
      /\ worker' \in Worker /\ DOMAIN worker'.handles = DOMAIN worker.handles
      /\ worker'.handles[h].inst = i /\ worker'.handles[h].cmdId = q + 1
      /\ worker'.handles[h].queue = worker.handles[h].queue \cup {sent}
      /\ \A k \in DOMAIN worker.handles : k # h => worker'.handles[k] = worker.handles[k]
      /\ worker'.current = worker.current /\ worker'.remoteFns = worker.remoteFns
      /\ worker'.remote = worker.remote /\ worker'.callbacks = worker.callbacks
      /\ worker'.running = worker.running
  BY <1>3, <1>7, <1>i DEF WorkerSent
<1>9. TypeOK'
  BY <1>0, <1>5, <1>6, <1>8 DEF TypeOK
<1>10. CallsKept /\ \A d \in Calls : Made(d) => d = c
  BY <1>5, <1>6 DEF CallsKept, Made
<1>11. CallsChange
  <2>1. MadeByWorker(c)
    BY <1>1, <1>2, <1>4, <1>5, <1>6, <1>8, <1>i DEF MadeByWorker
  <2>2. CallStep(c)
    BY <1>0, <1>4, <1>5, <1>6, <2>1 DEF CallStep, Made
  <2>3. \A d \in Calls : CallStep(d)
    BY <1>6, <2>2 DEF CallStep
  <2> QED BY <1>10, <2>3 DEF CallsChange
<1>12. HandlesKept /\ Grown(worker.callbacks, worker'.callbacks)
  <2>1. \A k \in DOMAIN worker.handles : worker.handles[k].cmdId \in Nat
    BY <1>0, HandleTyped
  <2>2. q <= q + 1
    BY <1>2
  <2> QED BY <1>8, <1>i, <2>1, <2>2 DEF HandlesKept, Grown
<1>13. IsCallOf("worker", c, sent, sent.cmdId)'
  BY <1>4, <1>6, <1>8 DEF IsCallOf
<1>14. FromWorker(sent)'
  <2>1. Has(manager'.callbacks, sent.id, calls'[c].fn)
    BY <1>1, <1>4, <1>5, <1>6, <1>8
  <2>2. CallsBack(sent)'
    BY <1>13, <2>1 DEF CallsBack
  <2> QED BY <1>8, <2>2 DEF FromWorker
<1>15. Awaits(h, sent)'
  BY <1>4, <1>5, <1>6, <1>8, <1>13 DEF Awaits
<1>16. WorkerNotes
  <2>1. \A k \in DOMAIN worker'.handles :
          /\ k \in DOMAIN worker.handles
          /\ \A n \in worker'.handles[k].queue : n \in worker.handles[k].queue \/ Awaits(k, n)'
    BY <1>8, <1>15
  <2> QED BY <1>8, <1>14, <2>1 DEF WorkerNotes
<1>17. WorkerAnswers
  <2>1. ASSUME NEW e \in Calls, Pending(e), calls[e].by = "worker",
               NEW o \in worker.handles[calls[e].handle].queue
        PROVE  o \in worker'.handles[calls'[e].handle].queue
    <3>1. calls[e].handle \in DOMAIN worker.handles
      BY <1>0, <2>1 DEF CallsInv, OfHandle, Pending
    <3>2. calls'[e] = calls[e]
      BY <1>5, <1>6, <2>1 DEF Pending
    <3> QED BY <1>8, <2>1, <3>1, <3>2
  <2>2. calls'[c].by = "worker" /\ SentByWorker(c)' /\ Expected(c)'
    <3>1. SentByWorker(c)'
      BY <1>8 DEF SentByWorker
    <3>2. Expected(c)'
      BY <1>4, <1>6, <1>8 DEF Expected
    <3> QED BY <1>4, <1>6, <3>1, <3>2
  <2>3. \A e \in Calls : Pending(e) => calls'[e] = calls[e]
    BY <1>5, <1>6 DEF Pending
  <2> QED BY <1>5, <1>8, <1>10, <2>1, <2>2, <2>3 DEF WorkerAnswers
<1>18. KnownInv'
  BY <1>5, <1>8, KnownSame
<1>19. ToSet(toParent) \subseteq ToSet(toParent') /\ ToSet(toWorker') \subseteq ToSet(toWorker)
  BY <1>5, <1>8
<1> QED BY <1>1, <1>5, <1>9, <1>10, <1>11, <1>12, <1>16, <1>17, <1>18, <1>19, WorkerGood

-----------------------------------------------------------------------------
(***************************************************************************)
(* The invariant holds at first, and after the steps that remain.          *)
(***************************************************************************)
\* The order of the INITs is one of all instances.
LEMMA OrderOfInstances ==
  ASSUME NEW order, order = SetToSeq(Instances)
  PROVE  /\ order \in Seq(Instances) /\ Len(order) \in Nat /\ DOMAIN order = 1..Len(order)
         /\ \A n \in DOMAIN order : order[n] \in Instances
         /\ \A i \in Instances : \E n \in DOMAIN order : order[n] = i
<1>n. PICK n : n = Cardinality(Instances)
  OBVIOUS
<1>1. n \in Nat /\ ExistsBijection(1..n, Instances)
  BY <1>n, SetsAssumption, FS_CardinalityType
<1>2. \E f \in [1..n -> Instances] : IsInjective(f)
  BY <1>1 DEF ExistsBijection, Bijection, Injection
<1>3. order \in [1..n -> Instances] /\ IsInjective(order)
  BY <1>n, <1>2 DEF SetToSeq
<1>4. order \in Seq(Instances)
  BY <1>1, <1>3, SeqDef
<1>5. Len(order) = n
  BY <1>1, <1>3, <1>4, LenProperties
<1>6. order \in Surjection(1..n, Instances)
  <2>1. order \in Injection(1..n, Instances)
    BY <1>3 DEF Injection
  <2>2. Cardinality(1..n) = n
    BY <1>1, FS_Interval
  <2> QED BY <1>n, <2>1, <2>2, SetsAssumption, FS_Injection
<1> QED BY <1>1, <1>3, <1>4, <1>5, <1>6 DEF Surjection

LEMMA NewWorkerTyped ==
  /\ NewWorker \in Worker /\ IsInjective(NewWorker.callbacks)
  /\ NewWorker.remote = {} /\ NewWorker.running = {}
  /\ \A n \in 1..Cardinality(Functions) : NewWorker.remoteFns[n] = 0
<1>1. NewWorker.callbacks = <<>> /\ IsInjective(<<>>)
  BY DEF NewWorker, IsInjective
<1>2. NewWorker \in Worker
  BY EmptySeq DEF NewWorker, Worker
<1> QED BY <1>1, <1>2 DEF NewWorker

\* Each instance has the handle that its INIT made.
HandlesAtFirst(order) == [i \in Instances |-> CHOOSE n \in DOMAIN order : order[n] = i]

LEMMA InitGood ==
  ASSUME Init
  PROVE  IInv
<1>o. PICK order : order = SetToSeq(Instances)
  OBVIOUS
<1>1. /\ order \in Seq(Instances) /\ Len(order) \in Nat /\ DOMAIN order = 1..Len(order)
      /\ \A n \in DOMAIN order : order[n] \in Instances
      /\ \A i \in Instances : \E n \in DOMAIN order : order[n] = i
  BY <1>o, OrderOfInstances
<1>h. PICK handles : handles = [n \in DOMAIN order |-> NewHandle(order[n])]
  OBVIOUS
<1>c. PICK current : current = HandlesAtFirst(order)
  OBVIOUS
<1>2. /\ manager = [status |-> "up", process |-> 1, instances |-> Instances,
                    initialized |-> Instances, cmdId |-> Len(order), callbacks |-> <<>>,
                    queue |-> {}, running |-> {}, remote |-> {}, destroyed |-> {}]
      /\ worker = [NewWorker EXCEPT !.handles = handles, !.current = current]
      /\ toWorker = <<>> /\ toParent = <<>>
      /\ calls = [d \in Calls |-> NewCall] /\ passes = 0 /\ ops = 0
  BY <1>o, <1>h, <1>c DEF Init, HandlesAtFirst
<1>3. /\ DOMAIN handles = DOMAIN order /\ handles \in Seq(Handle)
      /\ \A n \in DOMAIN order : handles[n].inst = order[n] /\ handles[n].queue = {}
  <2>1. \A n \in DOMAIN order : /\ handles[n] = NewHandle(order[n]) /\ handles[n] \in Handle
                                /\ handles[n].inst = order[n] /\ handles[n].queue = {}
    BY <1>1, <1>h DEF NewHandle, Handle
  <2>2. handles \in [1..Len(order) -> Handle]
    BY <1>1, <1>h, <2>1
  <2>3. handles \in Seq(Handle)
    BY <1>1, <2>2, SeqDef
  <2> QED BY <1>1, <2>1, <2>2, <2>3
<1>4. \A i \in Instances : current[i] \in DOMAIN order /\ order[current[i]] = i
  BY <1>1, <1>c DEF HandlesAtFirst
<1>5. current \in [Instances -> Nat] /\ \A i \in Instances : current[i] # 0
  BY <1>1, <1>4, <1>c DEF HandlesAtFirst
<1>6. /\ worker \in Worker /\ worker.handles = handles /\ worker.current = current
      /\ worker.callbacks = NewWorker.callbacks /\ worker.remoteFns = NewWorker.remoteFns
      /\ worker.remote = {} /\ worker.running = {}
  <2>1. worker \in Worker
    BY <1>2, <1>3, <1>5, NewWorkerTyped DEF Worker
  <2> QED BY <1>2, <2>1, NewWorkerTyped DEF Worker
<1>7. /\ manager.status = "up" /\ manager.process = 1 /\ manager.instances = Instances
      /\ manager.initialized = Instances /\ manager.callbacks = <<>>
      /\ manager.queue = {} /\ manager.running = {} /\ manager.remote = {}
      /\ manager.destroyed = {}
  BY <1>2
<1>8. manager \in Manager /\ IsInjective(manager.callbacks)
  BY <1>1, <1>2, EmptySeq DEF Manager, IsInjective
<1>9. \A d \in Calls : calls[d] = NewCall /\ calls[d].state = "idle" /\ calls[d].process = 0
                       /\ calls[d].ran = {} /\ calls[d].answer = {}
  BY <1>2 DEF NewCall
<1>10. TypeOK
  <2>1. calls \in [Calls -> Call]
    BY <1>2, NewCallTyped
  <2>2. toWorker \in Seq(Message) /\ toParent \in Seq(Message)
    BY <1>2, EmptySeq
  <2>3. passes \in 0..MaxPasses /\ ops \in 0..MaxOps
    BY <1>2, BoundsAssumption
  <2> QED BY <1>6, <1>8, <2>1, <2>2, <2>3, NewWorkerTyped DEF TypeOK
<1>11. ToSet(toWorker) = {} /\ ToSet(toParent) = {} /\ Sent = {} /\ Len(toWorker) = 0
  <2>1. ToSet(toWorker) = {} /\ ToSet(toParent) = {} /\ Len(toWorker) = 0
    BY <1>2, ToSetEmpty
  <2> QED BY <1>6, <1>7, <2>1 DEF Sent
<1>12. NumbersInv
  BY <1>6, <1>7, <1>11 DEF NumbersInv
<1>13. FunctionsInv
  <2>1. \A n \in DOMAIN worker.remoteFns : worker.remoteFns[n] = 0
    BY <1>6, NewWorkerTyped DEF NewWorker
  <2> QED BY <1>6, <1>7, <1>11, <2>1 DEF FunctionsInv
<1>14. CallsInv
  BY <1>7, <1>9 DEF CallsInv, Pending
<1>15. HandlesInv
  <2>1. /\ \A i \in Instances : worker.current[i] \in DOMAIN worker.handles
                               /\ worker.handles[worker.current[i]].inst = i
        /\ \A n \in DOMAIN worker.handles : /\ worker.handles[n].inst \in Instances
                                            /\ worker.handles[n].queue = {}
    BY <1>1, <1>3, <1>4, <1>6
  <2> QED BY <1>6, <1>7, <2>1 DEF HandlesInv
<1>16. KnownInv
  <2>1. DOMAIN toWorker = {}
    BY <1>2
  <2>2. \A i \in Instances : Known(i, Len(toWorker) + 1, manager, toWorker, worker)
    BY <1>5, <1>6 DEF Known
  <2> QED BY <1>7, <2>1, <2>2 DEF KnownInv
<1>17. FlightInv /\ RemoteFunctionIsOwn /\ ResultIsOfHandle
  BY <1>9 DEF FlightInv, Pending, RemoteFunctionIsOwn, ResultIsOfHandle
<1> QED BY <1>10, <1>12, <1>13, <1>14, <1>15, <1>16, <1>17 DEF IInv

\* The process closes, killed or not.
LEMMA ClosedGood ==
  ASSUME IInv, Crash \/ Terminated
  PROVE  IInv'
<1>1. TypeOK /\ manager \in Manager /\ calls \in [Calls -> Call] /\ Close
  BY DEF IInv, TypeOK, Crash, Terminated
<1>2. manager' \in Manager /\ manager'.callbacks = manager.callbacks
  BY <1>1 DEF Close, Manager
<1>3. calls' \in [Calls -> Call]
  <2>1. ASSUME NEW c \in Calls
        PROVE  (IF calls[c].by = "worker" /\ calls[c].state = "pending"
                THEN [calls[c] EXCEPT !.state = "lost"] ELSE calls[c]) \in Call
    <3>1. PICK call : call = calls[c] /\ call \in Call
      BY <1>1
    <3>2. [call EXCEPT !.state = "lost"] \in Call
      BY <3>1 DEF Call
    <3> QED BY <3>1, <3>2
  <2> QED BY <1>1, <2>1 DEF Close
<1>4. worker' = NewWorker /\ toWorker' \in Seq(Message) /\ toParent' \in Seq(Message)
  BY <1>1, EmptySeq DEF Close
<1>5. passes' \in 0..MaxPasses /\ ops' \in 0..MaxOps
  BY <1>1, OpTyped DEF Crash, Terminated, TypeOK, Op, NoOp
<1>6. TypeOK'
  BY <1>1, <1>2, <1>3, <1>4, <1>5, NewWorkerTyped DEF TypeOK
<1> QED BY <1>1, <1>6, CloseGood

LEMMA RunCallbackGood ==
  ASSUME IInv, NEW m, RunCallback(m)
  PROVE  IInv'
BY CallbackStartsGood, CallbackRefusedGood

LEMMA WorkerReceivesGood ==
  ASSUME IInv, WorkerReceives
  PROVE  IInv'
BY ConstructGood, DropMessageGood, RunFunctionGood, KillInstanceGood, RunCallbackGood,
   ReceiveReplyGood DEF WorkerReceives

LEMMA ParentReceivesGood ==
  ASSUME IInv, ParentReceives
  PROVE  IInv'
BY ManagerDropsGood, ManagerRunsGood, ManagerDecodesGood, ManagerReceivesReplyGood
   DEF ParentReceives

LEMMA StutterGood ==
  ASSUME IInv, UNCHANGED vars
  PROVE  IInv'
<1>1. /\ manager' = manager /\ worker' = worker /\ toWorker' = toWorker /\ toParent' = toParent
      /\ calls' = calls /\ passes' = passes /\ ops' = ops
  BY DEF vars
<1>2. TypeOK'
  BY <1>1 DEF IInv, TypeOK
<1>3. NumbersInv'
  BY <1>1 DEF IInv, NumbersInv, Sent, FromParent, FromWorker, CallsBack, Answers, IsCallOf
<1>4. FunctionsInv'
  BY <1>1 DEF IInv, FunctionsInv
<1>5. CallsInv'
  BY <1>1 DEF IInv, CallsInv, OfHandle, Pending
<1>6. HandlesInv'
  BY <1>1 DEF IInv, HandlesInv, IsCallOf
<1>7. KnownInv'
  BY <1>1 DEF IInv, KnownInv
<1>8. FlightInv'
  BY <1>1 DEF IInv, FlightInv, Pending, Stranded, OnItsWay, Expected, SentByParent,
              RunByWorker, AnsweredByWorker, SentByWorker, RunByManager, AnsweredByManager
<1>9. RemoteFunctionIsOwn' /\ ResultIsOfHandle'
  BY <1>1 DEF IInv, RemoteFunctionIsOwn, ResultIsOfHandle, Mixed
<1> QED BY <1>2, <1>3, <1>4, <1>5, <1>6, <1>7, <1>8, <1>9 DEF IInv

\* Every step keeps the invariant.
LEMMA NextGood ==
  ASSUME IInv, [Next]_vars
  PROVE  IInv'
<1>1. ASSUME NEW i \in Instances, NEW method \in Methods, Pass(i, method) PROVE IInv'
  BY <1>1, PassGood
<1>2. ASSUME NEW c \in Calls, NEW r \in manager.remote, ParentCalls(c, r) PROVE IInv'
  BY <1>2, ParentCallsGood
<1>3. ASSUME NEW c \in Calls, NEW r \in worker.remote, WorkerCalls(c, r) PROVE IInv'
  BY <1>3, WorkerCallsGood
<1>4. CASE Returns
  <2>1. ASSUME NEW m \in manager.running, ParentReturns(m) PROVE IInv'
    BY <2>1, ParentReturnsGood
  <2>2. ASSUME NEW r \in worker.running, WorkerReturns(r) PROVE IInv'
    BY <2>2, WorkerReturnsGood
  <2> QED BY <1>4, <2>1, <2>2 DEF Returns
<1>5. ASSUME NEW i \in Instances, Destroy(i) PROVE IInv'
  BY <1>5, DestroyGood
<1>6. ASSUME NEW i \in Instances, DetachTimeout(i) PROVE IInv'
  BY <1>6, DetachTimeoutOrKillGood
<1>7. ASSUME NEW i \in Instances, Reconstruct(i) PROVE IInv'
  BY <1>7, ReconstructGood
<1>8. CASE KillChild
  BY <1>8, DetachTimeoutOrKillGood
<1>9. CASE Crash \/ Terminated
  BY <1>9, ClosedGood
<1>10. CASE Restart
  BY <1>10, RestartGood
<1>11. CASE WorkerReceives
  BY <1>11, WorkerReceivesGood
<1>12. CASE ParentReceives
  BY <1>12, ParentReceivesGood
<1>13. CASE UNCHANGED vars
  BY <1>13, StutterGood
<1> QED BY <1>1, <1>2, <1>3, <1>4, <1>5, <1>6, <1>7, <1>8, <1>9, <1>10, <1>11, <1>12, <1>13 DEF Next

-----------------------------------------------------------------------------
(***************************************************************************)
(* Theorems.                                                               *)
(***************************************************************************)
\* In every behaviour, messages, functions, handles and calls agree as the
\* conjuncts of IInv say.
THEOREM Invariance == Spec => []IInv
<1>1. Init => IInv
  BY InitGood
<1>2. IInv /\ [Next]_vars => IInv'
  BY NextGood
<1> QED BY <1>1, <1>2, PTL DEF Spec

\* The state has its types, and a function has one number on its side:
\* encodeArguments in worker.ts, and callbackId in manager.ts.
THEOREM TypeCorrect == Spec => []TypeOK
<1>1. IInv => TypeOK
  BY DEF IInv
<1> QED BY <1>1, Invariance, PTL

\* Calling a remote function runs the function that it was made of, and nothing
\* else, whatever instance the call goes by and however often that was
\* constructed again; but the program may run another function of the worker
\* with a remote function of an earlier process, whose numbers are used again.
THEOREM RemoteFunctionsAreOwn == Spec => []RemoteFunctionIsOwn
<1>1. IInv => RemoteFunctionIsOwn
  BY DEF IInv
<1> QED BY <1>1, Invariance, PTL

\* A call settles with what became of its own run, unless it is one that a class
\* in the worker makes for an instance that has been constructed again: it may
\* get the result of a call of an earlier handle of the instance.
THEOREM ResultsAreOfHandle == Spec => []ResultIsOfHandle
<1>1. IInv => ResultIsOfHandle
  BY DEF IInv
<1> QED BY <1>1, Invariance, PTL

\* The promise of a call of a remote function is never forgotten, on either side:
\* the call or its reply is on its way or its function runs, and a queue has the
\* entry that the reply will be looked up in; unless the call is stranded by a
\* destroy, a construction again, or the end of the process.
THEOREM CallbacksInFlight == Spec => []CallbackInFlight
<1>1. IInv => CallbackInFlight
  <2> SUFFICES ASSUME IInv, NEW c \in Calls, Pending(c), ~Stranded(c)
               PROVE  /\ \E m \in ToSet(toWorker) \cup ToSet(toParent) \cup manager.running
                              \cup {r.message : r \in worker.running} : m.call = {c}
                      /\ \E n \in manager.queue
                              \cup UNION {worker.handles[h].queue : h \in DOMAIN worker.handles} :
                           n.call = {c}
    BY DEF CallbackInFlight
  <2>1. OnItsWay(c) /\ Expected(c)
    BY DEF IInv, FlightInv
  <2>2. calls[c].by \in {"parent", "worker"}
    BY DEF IInv, TypeOK, Call, Side
  <2>3. \E m \in ToSet(toWorker) \cup ToSet(toParent) \cup manager.running
             \cup {r.message : r \in worker.running} : m.call = {c}
    <3>1. (\E m \in ToSet(toWorker) \cup ToSet(toParent) \cup manager.running : m.call = {c})
          \/ \E r \in worker.running : r.message.call = {c}
      BY <2>1 DEF OnItsWay, SentByParent, RunByWorker, AnsweredByWorker, SentByWorker,
                  RunByManager, AnsweredByManager
    <3> QED BY <3>1
  <2>4. CASE calls[c].by = "parent"
    <3>1. \E n \in manager.queue : n.call = {c}
      BY <2>1, <2>4 DEF Expected
    <3> QED BY <2>3, <3>1
  <2>5. CASE calls[c].by = "worker"
    <3>1. \E n \in worker.handles[calls[c].handle].queue : n.call = {c}
      BY <2>1, <2>5 DEF Expected
    <3>2. calls[c].handle \in DOMAIN worker.handles
      BY <2>5 DEF IInv, CallsInv, OfHandle, Pending
    <3> QED BY <2>3, <3>1, <3>2
  <2> QED BY <2>2, <2>4, <2>5
<1> QED BY <1>1, Invariance, PTL
-----------------------------------------------------------------------------
(***************************************************************************)
(* How often calls run.  A CALLBACK is in a channel once and its call has  *)
(* not run; a call that runs, or was answered without an error, has run;   *)
(* and what the manager awaits is pending.                                 *)
(***************************************************************************)
CallsOnce(q) ==
  \A j, k \in DOMAIN q :
    (q[j].cmd = "CALLBACK" /\ q[k].cmd = "CALLBACK" /\ q[j].call = q[k].call) => j = k

HasRun(c) == \E fn \in Functions \cup WorkerFunctions : calls[c].ran = {fn}

RunsInv ==
  /\ CallsOnce(toWorker) /\ CallsOnce(toParent)
  /\ RunsOnce
  /\ \A c \in Calls : calls[c].ran = {} \/ HasRun(c)
  /\ \A r \in worker.running : \A c \in r.message.call : HasRun(c)
  /\ \A m \in ToSet(toParent) : (m.cmd # "CALLBACK" /\ ~m.error) => \A c \in m.call : HasRun(c)
  /\ \A n \in manager.queue : \A c \in n.call : Pending(c)

\* The elements of a sequence with one more, of whatever type.
LEMMA AppendElements ==
  ASSUME NEW S, NEW q \in Seq(S), NEW e
  PROVE  /\ ToSet(Append(q, e)) = ToSet(q) \cup {e}
         /\ DOMAIN q = 1..Len(q) /\ Len(q) \in Nat
         /\ DOMAIN Append(q, e) = 1..(Len(q) + 1)
         /\ \A k \in 1..Len(q) : Append(q, e)[k] = q[k]
         /\ Append(q, e)[Len(q) + 1] = e
<1>1. PICK T : T = S \cup {e}
  OBVIOUS
<1>2. DOMAIN q = 1..Len(q) /\ Len(q) \in Nat /\ q \in [1..Len(q) -> S]
  BY LenProperties
<1>3. q \in Seq(T) /\ e \in T
  BY <1>1, <1>2, SeqDef
<1> QED BY <1>2, <1>3, ToSetAppend, AppendProperties, LenProperties

LEMMA OnceAppend ==
  ASSUME NEW q \in Seq(Message), CallsOnce(q), NEW m,
         m.cmd = "CALLBACK" => \A n \in ToSet(q) : n.cmd = "CALLBACK" => n.call # m.call
  PROVE  CallsOnce(Append(q, m))
<1>1. /\ DOMAIN q = 1..Len(q) /\ Len(q) \in Nat
      /\ DOMAIN Append(q, m) = 1..(Len(q) + 1)
      /\ \A k \in 1..Len(q) : Append(q, m)[k] = q[k] /\ q[k] \in ToSet(q)
      /\ Append(q, m)[Len(q) + 1] = m
  BY AppendElements DEF ToSet
<1> QED BY <1>1 DEF CallsOnce

\* Messages of another kind may follow.
LEMMA OnceConcat ==
  ASSUME NEW q \in Seq(Message), CallsOnce(q), NEW new \in Seq(Message),
         \A k \in DOMAIN new : new[k].cmd # "CALLBACK"
  PROVE  CallsOnce(q \o new)
<1>1. /\ DOMAIN q = 1..Len(q) /\ DOMAIN new = 1..Len(new) /\ Len(q) \in Nat /\ Len(new) \in Nat
      /\ DOMAIN (q \o new) = 1..(Len(q) + Len(new))
      /\ \A k \in 1..(Len(q) + Len(new)) :
           (q \o new)[k] = IF k <= Len(q) THEN q[k] ELSE new[k - Len(q)]
  BY LenProperties, ConcatProperties
<1>2. \A k \in 1..(Len(q) + Len(new)) :
        (q \o new)[k].cmd = "CALLBACK" => k \in 1..Len(q) /\ (q \o new)[k] = q[k]
  <2> SUFFICES ASSUME NEW k \in 1..(Len(q) + Len(new)), (q \o new)[k].cmd = "CALLBACK"
               PROVE  k \in 1..Len(q) /\ (q \o new)[k] = q[k]
    OBVIOUS
  <2>1. CASE k <= Len(q)
    BY <1>1, <2>1
  <2>2. CASE ~(k <= Len(q))
    BY <1>1, <2>2
  <2> QED BY <2>1, <2>2
<1> QED BY <1>1, <1>2 DEF CallsOnce

\* A call that is taken is not among the others.
LEMMA OnceTail ==
  ASSUME NEW q \in Seq(Message), q # <<>>, CallsOnce(q)
  PROVE  /\ CallsOnce(Tail(q))
         /\ \A n \in ToSet(Tail(q)) :
              (Head(q).cmd = "CALLBACK" /\ n.cmd = "CALLBACK") => n.call # Head(q).call
<1>1. /\ DOMAIN q = 1..Len(q) /\ Len(q) \in Nat \ {0} /\ Head(q) = q[1]
      /\ DOMAIN Tail(q) = 1..(Len(q) - 1)
      /\ \A k \in 1..(Len(q) - 1) : Tail(q)[k] = q[k + 1]
  BY LenProperties, EmptySeq, HeadTailProperties
<1>2. CallsOnce(Tail(q))
  <2> SUFFICES ASSUME NEW j \in 1..(Len(q) - 1), NEW k \in 1..(Len(q) - 1),
                      q[j + 1].cmd = "CALLBACK", q[k + 1].cmd = "CALLBACK",
                      q[j + 1].call = q[k + 1].call
               PROVE  j = k
    BY <1>1 DEF CallsOnce
  <2>1. j + 1 \in DOMAIN q /\ k + 1 \in DOMAIN q
    BY <1>1
  <2>2. j + 1 = k + 1
    BY <2>1 DEF CallsOnce
  <2> QED BY <2>2
<1>3. ASSUME NEW k \in 1..(Len(q) - 1), q[1].cmd = "CALLBACK", q[k + 1].cmd = "CALLBACK"
      PROVE  q[k + 1].call # q[1].call
  <2>1. k + 1 \in DOMAIN q /\ 1 \in DOMAIN q /\ k + 1 # 1
    BY <1>1
  <2> QED BY <1>3, <2>1 DEF CallsOnce
<1> QED BY <1>1, <1>2, <1>3 DEF ToSet

\* Steps that run nothing: what is new in a channel or in the queue is told of
\* its call.
LEMMA NothingRuns ==
  ASSUME TypeOK', RunsInv, CallsOnce(toWorker'), CallsOnce(toParent'),
         \A c \in Calls : calls'[c].ran = calls[c].ran,
         \A m \in ToSet(toWorker') : m.cmd = "CALLBACK" =>
           m \in ToSet(toWorker) \/ \A c \in m.call : calls'[c].ran = {},
         \A m \in ToSet(toParent') : m.cmd = "CALLBACK" =>
           m \in ToSet(toParent) \/ \A c \in m.call : calls'[c].ran = {},
         \A m \in ToSet(toParent') : (m.cmd # "CALLBACK" /\ ~m.error) =>
           m \in ToSet(toParent) \/ \A c \in m.call : HasRun(c),
         worker'.running \subseteq worker.running,
         \A n \in manager'.queue : \A c \in n.call :
           Pending(c)' \/ (n \in manager.queue /\ calls'[c].state = calls[c].state)
  PROVE  RunsInv'
<1>1. /\ ToSet(toWorker') \subseteq Message /\ ToSet(toParent') \subseteq Message
      /\ \A m \in Message : m.call \subseteq Calls
      /\ manager'.queue \subseteq Message /\ \A r \in worker'.running : r.message \in Message
  BY ToSetTyped DEF TypeOK, Message, Manager, Worker
<1>2. \A c \in Calls : HasRun(c) => HasRun(c)'
  BY DEF HasRun
<1>3. RunsOnce'
  BY <1>1 DEF RunsOnce, RunsInv
<1>4. \A c \in Calls : calls'[c].ran = {} \/ HasRun(c)'
  BY <1>2 DEF RunsInv
<1>5. \A r \in worker'.running : \A c \in r.message.call : HasRun(c)'
  BY <1>1, <1>2 DEF RunsInv
<1>6. \A m \in ToSet(toParent') : (m.cmd # "CALLBACK" /\ ~m.error) => \A c \in m.call : HasRun(c)'
  BY <1>1, <1>2 DEF RunsInv
<1>7. \A n \in manager'.queue : \A c \in n.call : Pending(c)'
  BY DEF RunsInv, Pending
<1> QED BY <1>3, <1>4, <1>5, <1>6, <1>7 DEF RunsInv

\* What a call that is being made is not in yet: its number is new.
LEMMA IdleIsNowhere ==
  ASSUME IInv, RunsInv, NEW c \in Calls, calls[c].state = "idle"
  PROVE  /\ calls[c].ran = {}
         /\ \A m \in ToSet(toWorker) \cup ToSet(toParent) : m.cmd = "CALLBACK" => m.call # {c}
         /\ \A n \in manager.queue : c \notin n.call
<1>1. NumbersInv /\ CallsInv
  BY DEF IInv
<1>2. \A m \in ToSet(toWorker) : m.cmd = "CALLBACK" => m.call # {c}
  BY <1>1 DEF NumbersInv, Sent, FromParent, IsCallOf
<1>3. \A m \in ToSet(toParent) : m.cmd = "CALLBACK" => m.call # {c}
  BY <1>1 DEF NumbersInv, FromWorker, CallsBack, IsCallOf
<1>4. \A n \in manager.queue : c \notin n.call
  BY DEF RunsInv, Pending
<1> QED BY <1>1, <1>2, <1>3, <1>4 DEF CallsInv

\* The manager sends a message that is no call of a function, or fails to.
LEMMA ManagerSendsRuns ==
  ASSUME IInv, TypeOK', RunsInv, UNCHANGED <<worker, toParent, calls>>,
         \/ toWorker' = toWorker /\ manager'.queue = manager.queue
         \/ \E m : /\ toWorker' = Append(toWorker, m) /\ m.cmd # "CALLBACK"
                   /\ manager'.queue = manager.queue
                        \/ (m.call = {} /\ manager'.queue = manager.queue \cup {m})
  PROVE  RunsInv'
<1>1. toWorker \in Seq(Message)
  BY ManagerTyped
<1>2. CASE toWorker' = toWorker /\ manager'.queue = manager.queue
  BY <1>2, NothingRuns DEF RunsInv
<1>3. CASE \E m : /\ toWorker' = Append(toWorker, m) /\ m.cmd # "CALLBACK"
                  /\ manager'.queue = manager.queue
                       \/ (m.call = {} /\ manager'.queue = manager.queue \cup {m})
  <2>1. PICK m : /\ toWorker' = Append(toWorker, m) /\ m.cmd # "CALLBACK"
                 /\ manager'.queue = manager.queue
                      \/ (m.call = {} /\ manager'.queue = manager.queue \cup {m})
    BY <1>3
  <2>2. CallsOnce(toWorker')
    BY <1>1, <2>1, OnceAppend DEF RunsInv
  <2>3. ToSet(toWorker') = ToSet(toWorker) \cup {m}
    BY <1>1, <2>1, AppendElements
  <2> QED BY <2>1, <2>2, <2>3, NothingRuns DEF RunsInv
<1> QED BY <1>2, <1>3

\* The queue of a manager that has sent a message.
LEMMA SendQueue ==
  ASSUME NEW mgr, "queue" \in DOMAIN mgr, "cmdId" \in DOMAIN mgr, NEW m
  PROVE  /\ Send(mgr, m, TRUE) =>
              toWorker' = Append(toWorker, m) /\ manager'.queue = mgr.queue \cup {m}
         /\ Send(mgr, m, FALSE) => toWorker' = Append(toWorker, m) /\ manager'.queue = mgr.queue
         /\ NotSent(mgr) => toWorker' = toWorker /\ manager'.queue = mgr.queue
<1>1. ASSUME Send(mgr, m, TRUE)
      PROVE  toWorker' = Append(toWorker, m) /\ manager'.queue = mgr.queue \cup {m}
  BY <1>1 DEF Send
<1>2. ASSUME Send(mgr, m, FALSE)
      PROVE  toWorker' = Append(toWorker, m) /\ manager'.queue = mgr.queue
  BY <1>2 DEF Send
<1>3. ASSUME NotSent(mgr) PROVE toWorker' = toWorker /\ manager'.queue = mgr.queue
  BY <1>3 DEF NotSent
<1> QED BY <1>1, <1>2, <1>3

LEMMA PassRuns ==
  ASSUME IInv, TypeOK', RunsInv, NEW i \in Instances, NEW method \in Methods, Pass(i, method)
  PROVE  RunsInv'
<1>a. PICK mgr : mgr = [manager EXCEPT !.callbacks = Register(@, method.takes)]
  OBVIOUS
<1>b. PICK m : m = [NewMessage("FUNCTION", i, mgr.cmdId) EXCEPT
                      !.id = IdOf(mgr.callbacks, method.takes), !.fn = {method.takes},
                      !.returns = {method.returns}]
  OBVIOUS
<1>1. /\ IF CanSend(mgr, i) THEN Send(mgr, m, TRUE) ELSE NotSent(mgr)
      /\ UNCHANGED <<worker, toParent, calls>>
  BY <1>a, <1>b DEF Pass
<1>2. /\ "queue" \in DOMAIN mgr /\ "cmdId" \in DOMAIN mgr /\ mgr.queue = manager.queue
  BY <1>a, ManagerTyped DEF Manager
<1>3. m.cmd = "FUNCTION" /\ m.call = {}
  BY <1>b DEF NewMessage
<1>4. \/ toWorker' = toWorker /\ manager'.queue = manager.queue
      \/ toWorker' = Append(toWorker, m) /\ manager'.queue = manager.queue \cup {m}
  <2>1. CASE Send(mgr, m, TRUE)
    BY <1>2, <2>1, SendQueue
  <2>2. CASE NotSent(mgr)
    BY <1>2, <2>2, SendQueue
  <2> QED BY <1>1, <2>1, <2>2
<1> QED BY <1>1, <1>3, <1>4, ManagerSendsRuns

LEMMA ParentReturnsRuns ==
  ASSUME IInv, TypeOK', RunsInv, NEW m \in manager.running, ParentReturns(m)
  PROVE  RunsInv'
<1>a. PICK mgr : mgr = [manager EXCEPT !.running = @ \ {m}]
  OBVIOUS
<1>b. PICK reply : reply = [NewMessage("REPLY", m.inst, mgr.cmdId) EXCEPT
                              !.replyTo = m.cmdId,
                              !.error = manager.callbacks[m.id] \in Throws, !.call = m.call]
  OBVIOUS
<1>1. /\ IF CanSend(mgr, m.inst) THEN Send(mgr, reply, FALSE) ELSE NotSent(mgr)
      /\ UNCHANGED <<worker, toParent, calls>>
  BY <1>a, <1>b DEF ParentReturns
<1>2. /\ "queue" \in DOMAIN mgr /\ "cmdId" \in DOMAIN mgr /\ mgr.queue = manager.queue
  BY <1>a, ManagerTyped DEF Manager
<1>3. reply.cmd = "REPLY"
  BY <1>b DEF NewMessage
<1>4. \/ toWorker' = toWorker /\ manager'.queue = manager.queue
      \/ toWorker' = Append(toWorker, reply) /\ manager'.queue = manager.queue
  <2>1. CASE Send(mgr, reply, FALSE)
    BY <1>2, <2>1, SendQueue
  <2>2. CASE NotSent(mgr)
    BY <1>2, <2>2, SendQueue
  <2> QED BY <1>1, <2>1, <2>2
<1> QED BY <1>1, <1>3, <1>4, ManagerSendsRuns

LEMMA DestroyRuns ==
  ASSUME IInv, TypeOK', RunsInv, NEW i \in Instances, Destroy(i)
  PROVE  RunsInv'
<1>a. PICK mgr : mgr = [manager EXCEPT !.destroyed = @ \cup {i}]
  OBVIOUS
<1>b. PICK gone : gone = [mgr EXCEPT !.instances = @ \ {i}]
  OBVIOUS
<1>c. PICK m : m = NewMessage("KILL", i, mgr.cmdId)
  OBVIOUS
<1>1. /\ IF CanSend(mgr, i) THEN Send(mgr, m, TRUE) ELSE NotSent(gone)
      /\ UNCHANGED <<worker, toParent, calls>>
  BY <1>a, <1>b, <1>c DEF Destroy
<1>2. /\ "queue" \in DOMAIN mgr /\ "cmdId" \in DOMAIN mgr /\ mgr.queue = manager.queue
      /\ "queue" \in DOMAIN gone /\ "cmdId" \in DOMAIN gone /\ gone.queue = manager.queue
  BY <1>a, <1>b, ManagerTyped DEF Manager
<1>3. m.cmd = "KILL" /\ m.call = {}
  BY <1>c DEF NewMessage
<1>4. \/ toWorker' = toWorker /\ manager'.queue = manager.queue
      \/ toWorker' = Append(toWorker, m) /\ manager'.queue = manager.queue \cup {m}
  <2>1. CASE Send(mgr, m, TRUE)
    BY <1>2, <2>1, SendQueue
  <2>2. CASE NotSent(gone)
    BY <1>2, <2>2, SendQueue
  <2> QED BY <1>1, <2>1, <2>2
<1> QED BY <1>1, <1>3, <1>4, ManagerSendsRuns

LEMMA InitsRuns ==
  ASSUME IInv, TypeOK', RunsInv, NEW mgr \in Manager, NEW order \in Seq(Instances),
         Inits(mgr, order), mgr.queue = manager.queue, UNCHANGED <<worker, toParent, calls>>
  PROVE  RunsInv'
<1>1. toWorker \in Seq(Message)
  BY ManagerTyped
<1>2. PICK new \in Seq(Message) :
        /\ toWorker' = toWorker \o new /\ Len(new) = Len(order)
        /\ \A k \in 1..Len(new) : new[k].cmd = "INIT"
        /\ manager'.queue = mgr.queue
  BY <1>1, InitsFields
<1>3. DOMAIN new = 1..Len(new)
  BY LenProperties
<1>4. CallsOnce(toWorker')
  BY <1>1, <1>2, <1>3, OnceConcat DEF RunsInv
<1>5. /\ ToSet(toWorker') = ToSet(toWorker) \cup ToSet(new)
      /\ \A m \in ToSet(new) : m.cmd = "INIT"
  <2>1. ToSet(toWorker') = ToSet(toWorker) \cup ToSet(new)
    BY <1>1, <1>2, ToSetConcat
  <2>2. \A m \in ToSet(new) : m.cmd = "INIT"
    BY <1>2, <1>3 DEF ToSet
  <2> QED BY <2>1, <2>2
<1> QED BY <1>2, <1>4, <1>5, NothingRuns DEF RunsInv

LEMMA RestartRuns ==
  ASSUME IInv, TypeOK', RunsInv, Restart
  PROVE  RunsInv'
<1>0. manager \in Manager /\ manager.process \in Nat
  BY ManagerTyped
<1>b. PICK n, s : n = manager.process + 1 /\ s = manager.initialized \ manager.instances
  OBVIOUS
<1>c. n \in Nat /\ s \in SUBSET Instances
  BY <1>0, <1>b DEF Manager
<1>1. PICK mgr : mgr = [manager EXCEPT !.status = "up", !.process = @ + 1,
                                       !.initialized = @ \ manager.instances]
  OBVIOUS
<1>2. mgr \in Manager /\ mgr.queue = manager.queue
  <2>1. mgr = [manager EXCEPT !.status = "up", !.process = n, !.initialized = s]
    BY <1>b, <1>1
  <2>2. mgr \in Manager
    BY <1>0, <1>c, <2>1 DEF Manager
  <2> QED BY <1>0, <1>1, <2>2 DEF Manager
<1>a. PICK S \in SUBSET manager.instances : \E order \in SetToSeqs(S) : Inits(mgr, order)
  BY <1>1 DEF Restart
<1>3. PICK order \in SetToSeqs(S) : Inits(mgr, order)
  BY <1>a
<1>4. order \in Seq(Instances)
  <2>1. S \subseteq Instances /\ IsFiniteSet(S) /\ Cardinality(S) \in Nat
    BY <1>0, SetsAssumption, FS_Subset, FS_CardinalityType DEF Manager
  <2>2. order \in [1..Cardinality(S) -> Instances]
    BY <2>1 DEF SetToSeqs
  <2> QED BY <2>1, <2>2, SeqDef
<1>5. UNCHANGED <<worker, toParent, calls>>
  BY DEF Restart
<1> QED BY <1>2, <1>3, <1>4, <1>5, InitsRuns

LEMMA ReconstructRuns ==
  ASSUME IInv, TypeOK', RunsInv, NEW i \in Instances, Reconstruct(i)
  PROVE  RunsInv'
<1>1. PICK order : order = <<i>>
  OBVIOUS
<1>2. order \in Seq(Instances) /\ manager \in Manager
  BY <1>1, OneElement, ManagerTyped
<1>3. Inits(manager, order) /\ UNCHANGED <<worker, toParent, calls>>
  BY <1>1 DEF Reconstruct
<1> QED BY <1>2, <1>3, InitsRuns

\* A killed process goes on, and a detached instance leaves no message.
LEMMA FlagsRuns ==
  ASSUME IInv, TypeOK', RunsInv, KillChild \/ \E i \in Instances : DetachTimeout(i)
  PROVE  RunsInv'
<1>1. UNCHANGED <<worker, toWorker, toParent, calls>> /\ manager'.queue = manager.queue
  BY ManagerTyped DEF KillChild, DetachTimeout, Manager
<1> QED BY <1>1, ManagerSendsRuns

\* The close of the process empties the channels; what the manager awaits, it
\* still awaits.
LEMMA CloseRuns ==
  ASSUME IInv, TypeOK', RunsInv, Close
  PROVE  RunsInv'
<1>1. /\ manager'.queue = manager.queue /\ toWorker' = <<>> /\ toParent' = <<>>
      /\ worker'.running = {}
      /\ calls' = [c \in Calls |->
                     IF calls[c].by = "worker" /\ calls[c].state = "pending"
                     THEN [calls[c] EXCEPT !.state = "lost"] ELSE calls[c]]
  BY ManagerTyped, NewWorkerTyped DEF Close, Manager
<1>2. CallsOnce(<<>>) /\ ToSet(<<>>) = {}
  BY ToSetEmpty DEF CallsOnce
<1>3. /\ \A c \in Calls : calls'[c].ran = calls[c].ran
      /\ \A c \in Calls : calls[c].by = "parent" => calls'[c] = calls[c]
  <2> SUFFICES ASSUME NEW c \in Calls
               PROVE  /\ calls'[c].ran = calls[c].ran
                      /\ calls[c].by = "parent" => calls'[c] = calls[c]
    OBVIOUS
  <2>1. PICK call : call = calls[c] /\ call \in Call
    BY ManagerTyped
  <2>2. [call EXCEPT !.state = "lost"].ran = call.ran
    BY <2>1 DEF Call
  <2> QED BY <1>1, <2>1, <2>2
<1>4. \A n \in manager.queue : \A c \in n.call : c \in Calls /\ calls[c].by = "parent"
  BY DEF IInv, NumbersInv, Sent, FromParent, IsCallOf
<1> QED BY <1>1, <1>2, <1>3, <1>4, NothingRuns

\* What WorkerSends puts at the end of the channel.
LEMMA WorkerSendsAppends ==
  ASSUME NEW w, "running" \in DOMAIN w, "handles" \in DOMAIN w, NEW h, NEW m \in Message,
         WorkerSends(w, h, m, FALSE) \/ WorkerSends(w, h, m, TRUE)
  PROVE  /\ worker'.running = w.running
         /\ \E sent : /\ toParent' = Append(toParent, sent)
                      /\ sent.cmd = m.cmd /\ sent.call = m.call /\ sent.error = m.error
<1>1. PICK sent : sent = [m EXCEPT !.inst = w.handles[h].inst, !.cmdId = w.handles[h].cmdId]
  OBVIOUS
<1>2. sent.cmd = m.cmd /\ sent.call = m.call /\ sent.error = m.error
  BY <1>1 DEF Message
<1>3. toParent' = Append(toParent, sent) /\ worker'.running = w.running
  <2>1. CASE WorkerSends(w, h, m, FALSE)
    BY <1>1, <2>1 DEF WorkerSends
  <2>2. CASE WorkerSends(w, h, m, TRUE)
    BY <1>1, <2>2 DEF WorkerSends
  <2> QED BY <2>1, <2>2
<1> QED BY <1>2, <1>3

\* The worker sends a reply, and may have taken a message for it; an answer that
\* is about a call and no error comes after a run.
LEMMA WorkerAnswersRuns ==
  ASSUME IInv, TypeOK', RunsInv, UNCHANGED <<manager, calls>>,
         toWorker' = toWorker \/ (toWorker # <<>> /\ toWorker' = Tail(toWorker)),
         worker'.running \subseteq worker.running,
         \/ toParent' = toParent
         \/ \E sent : /\ toParent' = Append(toParent, sent) /\ sent.cmd # "CALLBACK"
                      /\ sent.error \/ \A c \in sent.call : HasRun(c)
  PROVE  RunsInv'
<1>1. toWorker \in Seq(Message) /\ toParent \in Seq(Message)
  BY ManagerTyped
<1>2. CallsOnce(toWorker') /\ ToSet(toWorker') \subseteq ToSet(toWorker)
  <2>1. CASE toWorker' = toWorker
    BY <2>1 DEF RunsInv
  <2>2. CASE toWorker # <<>> /\ toWorker' = Tail(toWorker)
    BY <1>1, <2>2, OnceTail, ToSetTail DEF RunsInv
  <2> QED BY <2>1, <2>2
<1>3. /\ CallsOnce(toParent')
      /\ \A m \in ToSet(toParent') : m \in ToSet(toParent) \/
           (m.cmd # "CALLBACK" /\ (m.error \/ \A c \in m.call : HasRun(c)))
  <2>1. CASE toParent' = toParent
    BY <2>1 DEF RunsInv
  <2>2. ASSUME NEW sent, toParent' = Append(toParent, sent), sent.cmd # "CALLBACK",
               sent.error \/ \A c \in sent.call : HasRun(c)
        PROVE  /\ CallsOnce(toParent')
               /\ \A m \in ToSet(toParent') : m \in ToSet(toParent) \/
                    (m.cmd # "CALLBACK" /\ (m.error \/ \A c \in m.call : HasRun(c)))
    <3>1. CallsOnce(toParent')
      BY <1>1, <2>2, OnceAppend DEF RunsInv
    <3>2. ToSet(toParent') = ToSet(toParent) \cup {sent}
      BY <1>1, <2>2, AppendElements
    <3> QED BY <2>2, <3>1, <3>2
  <2> QED BY <2>1, <2>2
<1>4. \A n \in manager'.queue : \A c \in n.call : n \in manager.queue /\ calls'[c].state = calls[c].state
  OBVIOUS
<1> QED BY <1>2, <1>3, <1>4, NothingRuns

LEMMA ConstructOrDropRuns ==
  ASSUME IInv, TypeOK', RunsInv, NEW m, Construct(m) \/ DropMessage(m)
  PROVE  RunsInv'
<1>1. /\ UNCHANGED <<manager, calls, toParent>>
      /\ toWorker # <<>> /\ toWorker' = Tail(toWorker)
      /\ worker'.running = worker.running
  BY WorkerTyped DEF Construct, DropMessage, Receives, Worker
<1> QED BY <1>1, WorkerAnswersRuns

LEMMA RunFunctionRuns ==
  ASSUME IInv, TypeOK', RunsInv, NEW m, RunFunction(m)
  PROVE  RunsInv'
<1>0. worker \in Worker
  BY WorkerTyped
<1>h. PICK h : h = worker.current[m.inst]
  OBVIOUS
<1>w. PICK given : given = [Decoded(worker, m.id, h) EXCEPT !.remote = @ \cup [id : {m.id}, fn : m.fn]]
  OBVIOUS
<1>1. Receives(m) /\ m.cmd = "FUNCTION" /\ calls' = calls
  BY DEF RunFunction
<1>2. m \in Message /\ m.call = {} /\ toWorker # <<>> /\ toWorker' = Tail(toWorker)
      /\ manager' = manager
  BY <1>1, ReceivesTyped DEF FromParent
<1>3. PICK g \in m.returns :
        SentWithout([given EXCEPT !.callbacks = Register(worker.callbacks, g)], h,
                    [Results(m) EXCEPT !.id = IdOf(Register(worker.callbacks, g), g), !.fn = {g}])
  BY <1>h, <1>w, Zenon DEF RunFunction, Results, SentWithout
<1>v. PICK w : w = [given EXCEPT !.callbacks = Register(worker.callbacks, g)]
  OBVIOUS
<1>a. PICK a : a = [Results(m) EXCEPT !.id = IdOf(Register(worker.callbacks, g), g), !.fn = {g}]
  OBVIOUS
<1>4. a \in Message /\ a.cmd = "RESULT" /\ a.call = {}
  <2>1. g \in WorkerFunctions
    BY <1>2 DEF Message
  <2>2. IdOf(Register(worker.callbacks, g), g) \in Nat
    BY <2>1, WorkerTyped, RegisterHas
  <2>3. PICK r, n : r = Results(m) /\ n = IdOf(Register(worker.callbacks, g), g)
    OBVIOUS
  <2>4. r \in Message /\ r.cmd = "RESULT" /\ r.call = {}
    BY <1>2, <2>3, ResultsTyped
  <2> QED BY <1>a, <2>1, <2>2, <2>3, <2>4 DEF Message
<1>5. "running" \in DOMAIN w /\ "handles" \in DOMAIN w /\ w.running = worker.running
  BY <1>0, <1>w, <1>v DEF Decoded, Worker
<1>6. WorkerSends(w, h, a, FALSE)
  BY <1>3, <1>v, <1>a DEF SentWithout
<1>7. PICK sent : /\ toParent' = Append(toParent, sent)
                  /\ sent.cmd = "RESULT" /\ sent.call = {}
  BY <1>4, <1>5, <1>6, WorkerSendsAppends
<1>8. worker'.running = worker.running
  BY <1>4, <1>5, <1>6, WorkerSendsAppends
<1> QED BY <1>1, <1>2, <1>7, <1>8, WorkerAnswersRuns

LEMMA KillInstanceRuns ==
  ASSUME IInv, TypeOK', RunsInv, NEW m, KillInstance(m)
  PROVE  RunsInv'
<1>0. worker \in Worker
  BY WorkerTyped
<1>h. PICK h : h = worker.current[m.inst]
  OBVIOUS
<1>w. PICK w : w = [worker EXCEPT !.current[m.inst] = 0]
  OBVIOUS
<1>a. PICK a : a = Accepts(m)
  OBVIOUS
<1>1. Receives(m) /\ m.cmd = "KILL" /\ WorkerSends(w, h, a, FALSE) /\ calls' = calls
  BY <1>h, <1>w, <1>a DEF KillInstance, Accepts
<1>2. m \in Message /\ m.call = {} /\ toWorker # <<>> /\ toWorker' = Tail(toWorker)
      /\ manager' = manager
  BY <1>1, ReceivesTyped DEF FromParent
<1>3. a \in Message /\ a.cmd = "REPLY" /\ a.call = {}
  BY <1>2, <1>a, AcceptsTyped
<1>4. "running" \in DOMAIN w /\ "handles" \in DOMAIN w /\ w.running = worker.running
  BY <1>0, <1>w DEF Worker
<1>5. PICK sent : /\ toParent' = Append(toParent, sent)
                  /\ sent.cmd = "REPLY" /\ sent.call = {}
  BY <1>1, <1>3, <1>4, WorkerSendsAppends
<1>6. worker'.running = worker.running
  BY <1>1, <1>3, <1>4, WorkerSendsAppends
<1> QED BY <1>1, <1>2, <1>5, <1>6, WorkerAnswersRuns

\* A call whose function the worker does not have, and a reply that nothing
\* awaits, are answered with an error.
LEMMA ErrorRuns ==
  ASSUME IInv, TypeOK', RunsInv, NEW m, Receives(m), NEW h, NEW a \in Message,
         a.cmd = "REPLY", a.error = TRUE, WorkerSends(worker, h, a, FALSE), UNCHANGED calls
  PROVE  RunsInv'
<1>0. worker \in Worker
  BY WorkerTyped
<1>1. toWorker # <<>> /\ toWorker' = Tail(toWorker) /\ manager' = manager
  BY ReceivesTyped
<1>2. "running" \in DOMAIN worker /\ "handles" \in DOMAIN worker
  BY <1>0 DEF Worker
<1>3. PICK sent : /\ toParent' = Append(toParent, sent)
                  /\ sent.cmd = "REPLY" /\ sent.error = TRUE
  BY <1>2, WorkerSendsAppends
<1>4. worker'.running = worker.running
  BY <1>2, WorkerSendsAppends
<1> QED BY <1>1, <1>3, <1>4, WorkerAnswersRuns

LEMMA CallbackRefusedRuns ==
  ASSUME IInv, TypeOK', RunsInv, NEW m, RunCallback(m), m.id \notin DOMAIN worker.callbacks
  PROVE  RunsInv'
<1>h. PICK h : h = worker.current[m.inst]
  OBVIOUS
<1>a. PICK a : a = Refuses(m)
  OBVIOUS
<1>1. Receives(m) /\ WorkerSends(worker, h, a, FALSE) /\ calls' = calls
  BY <1>h, <1>a DEF RunCallback, Refuses
<1>2. m \in Message
  BY <1>1, ReceivesTyped
<1>3. a \in Message /\ a.cmd = "REPLY" /\ a.error = TRUE
  BY <1>2, <1>a DEF Refuses, Answer, NewMessage, Message
<1> QED BY <1>1, <1>3, ErrorRuns

LEMMA WorkerReturnsRuns ==
  ASSUME IInv, TypeOK', RunsInv, NEW r \in worker.running, WorkerReturns(r)
  PROVE  RunsInv'
<1>0. worker \in Worker
  BY WorkerTyped
<1>m. PICK m, h : m = r.message /\ h = r.handle
  OBVIOUS
<1>w. PICK w : w = [worker EXCEPT !.running = @ \ {r}]
  OBVIOUS
<1>e. PICK error \in BOOLEAN : error = (worker.callbacks[m.id] \in Throws)
  <2>1. (worker.callbacks[m.id] \in Throws) \in BOOLEAN
    OBVIOUS
  <2> QED BY <2>1, Zenon
<1>a. PICK a : a = Answer(m, "REPLY", error)
  OBVIOUS
<1>1. /\ WorkerSends(w, h, a, FALSE) /\ UNCHANGED <<manager, toWorker, calls>>
  BY <1>m, <1>w, <1>e, <1>a DEF WorkerReturns
<1>2. m \in Message /\ \A c \in m.call : HasRun(c)
  BY <1>0, <1>m DEF Worker, RunsInv
<1>3. a \in Message /\ a.cmd = "REPLY" /\ a.call = m.call
  BY <1>2, <1>a, AnswerTyped
<1>4. "running" \in DOMAIN w /\ "handles" \in DOMAIN w /\ w.running \subseteq worker.running
  BY <1>0, <1>w DEF Worker
<1>5. PICK sent : /\ toParent' = Append(toParent, sent)
                  /\ sent.cmd = "REPLY" /\ sent.call = m.call
  BY <1>1, <1>3, <1>4, WorkerSendsAppends
<1>6. worker'.running \subseteq worker.running
  BY <1>1, <1>3, <1>4, WorkerSendsAppends
<1> QED BY <1>1, <1>2, <1>5, <1>6, WorkerAnswersRuns

\* The worker settles a call of its own, which the manager does not await.
LEMMA SettlesRuns ==
  ASSUME IInv, TypeOK', RunsInv, NEW m, NEW h, NEW n, NEW c \in Calls, Settles(m, h, n, c)
  PROVE  RunsInv'
<1>0. /\ worker \in Worker /\ calls \in [Calls -> Call] /\ toWorker \in Seq(Message)
      /\ HandlesInv /\ NumbersInv
  BY WorkerTyped
<1>1. /\ Receives(m) /\ m.cmd = "REPLY" /\ h = worker.current[m.inst] /\ h # 0
      /\ n \in worker.handles[h].queue /\ n.call = {c}
      /\ worker' = [worker EXCEPT !.handles[h].queue = @ \ {n}]
      /\ calls' = Settled(c, m) /\ toParent' = toParent
  BY DEF Settles, Awaited
<1>2. /\ m \in Message /\ toWorker # <<>> /\ toWorker' = Tail(toWorker) /\ manager' = manager
      /\ h \in DOMAIN worker.handles
  BY <1>1, ReceivesTyped
<1>3. /\ calls'[c].ran = calls[c].ran /\ \A d \in Calls : d # c => calls'[d] = calls[d]
  BY <1>0, <1>1, <1>2, SettledFields
<1>4. calls[c].by = "worker"
  <2>1. PICK d \in Calls : IsCallOf("worker", d, n, n.cmdId)
    BY <1>0, <1>1, <1>2 DEF HandlesInv
  <2>2. d = c
    BY <1>1, <2>1 DEF IsCallOf
  <2> QED BY <2>1, <2>2 DEF IsCallOf
<1>5. \A o \in manager.queue : \A d \in o.call : d \in Calls /\ calls[d].by = "parent"
  BY <1>0 DEF NumbersInv, Sent, FromParent, IsCallOf
<1>6. \A o \in manager'.queue : \A d \in o.call :
        o \in manager.queue /\ calls'[d].state = calls[d].state
  BY <1>2, <1>3, <1>4, <1>5
<1>7. CallsOnce(toWorker') /\ ToSet(toWorker') \subseteq ToSet(toWorker)
  BY <1>0, <1>2, OnceTail, ToSetTail DEF RunsInv
<1>8. worker'.running = worker.running
  BY <1>0, <1>1 DEF Worker
<1>9. \A d \in Calls : calls'[d].ran = calls[d].ran
  BY <1>3
<1> QED BY <1>1, <1>6, <1>7, <1>8, <1>9, NothingRuns DEF RunsInv

LEMMA ReceiveReplyRuns ==
  ASSUME IInv, TypeOK', RunsInv, NEW m, ReceiveReply(m)
  PROVE  RunsInv'
<1>1. PICK h : h = worker.current[m.inst]
  OBVIOUS
<1>2. \/ \E n, c : c \in Calls /\ Settles(m, h, n, c)
      \/ AnswersUnexpected(m, h)
  BY <1>1, Zenon DEF ReceiveReply, Settles, AnswersUnexpected, SentWithout, Unexpected
<1>3. ASSUME AnswersUnexpected(m, h) PROVE RunsInv'
  <2>a. PICK a : a = Unexpected(m)
    OBVIOUS
  <2>1. Receives(m) /\ WorkerSends(worker, h, a, FALSE) /\ calls' = calls
    BY <1>3, <2>a DEF AnswersUnexpected, SentWithout
  <2>2. m \in Message
    BY <2>1, ReceivesTyped
  <2>3. a \in Message /\ a.cmd = "REPLY"
    BY <2>2, <2>a, UnexpectedTyped
  <2>4. a.error = TRUE
    BY <2>a DEF Unexpected, Answer, NewMessage
  <2> QED BY <2>1, <2>3, <2>4, ErrorRuns
<1> QED BY <1>2, <1>3, SettlesRuns

\* A call that is taken from its channel runs for the first time, and no other
\* message makes it run again.
LEMMA RunFirst ==
  ASSUME IInv, TypeOK', RunsInv, NEW c \in Calls, NEW f \in Functions \cup WorkerFunctions,
         calls' = Ran(c, f), NEW m, m.cmd = "CALLBACK", m.call = {c},
         \/ /\ m \in ToSet(toWorker) /\ calls[c].by = "parent"
            /\ toWorker' = Tail(toWorker) /\ m = Head(toWorker) /\ toParent' = toParent
         \/ /\ m \in ToSet(toParent) /\ calls[c].by = "worker"
            /\ toParent' = Tail(toParent) /\ m = Head(toParent) /\ toWorker' = toWorker,
         manager'.queue = manager.queue,
         \A r \in worker'.running : r \in worker.running \/ r.message.call = {c}
  PROVE  RunsInv' /\ calls[c].ran = {} /\ HasRun(c)'
<1>0. /\ calls \in [Calls -> Call] /\ toWorker \in Seq(Message) /\ toParent \in Seq(Message)
      /\ NumbersInv
  BY WorkerTyped
<1>1. calls[c].ran = {}
  BY DEF RunsInv, RunsOnce
<1>2. /\ calls'[c].ran = {f} /\ calls'[c].state = calls[c].state
      /\ \A d \in Calls : d # c => calls'[d] = calls[d]
  <2>1. PICK new : new = Ran(c, f)
    OBVIOUS
  <2>2. /\ new[c].ran = calls[c].ran \cup {f} /\ new[c].state = calls[c].state
        /\ \A d \in Calls : d # c => new[d] = calls[d]
    BY <1>0, <2>1, RanFields
  <2> QED BY <1>1, <2>1, <2>2
<1>3. /\ HasRun(c)' /\ \A d \in Calls : HasRun(d) => HasRun(d)'
      /\ \A d \in Calls : calls'[d].ran = {} \/ HasRun(d)'
  <2>1. HasRun(c)'
    BY <1>2 DEF HasRun
  <2>2. ASSUME NEW d \in Calls, d # c
        PROVE  (HasRun(d) => HasRun(d)') /\ (calls'[d].ran = {} \/ HasRun(d)')
    BY <1>2, <2>2 DEF HasRun, RunsInv
  <2> QED BY <2>1, <2>2
<1>4. /\ \A n \in ToSet(toWorker) : n.cmd = "CALLBACK" =>
           \E d \in Calls : n.call = {d} /\ calls[d].by = "parent"
      /\ \A n \in ToSet(toParent) : n.cmd = "CALLBACK" =>
           \E d \in Calls : n.call = {d} /\ calls[d].by = "worker"
  BY <1>0 DEF NumbersInv, Sent, FromParent, FromWorker, CallsBack, IsCallOf
<1>5. /\ CallsOnce(toWorker') /\ CallsOnce(toParent')
      /\ ToSet(toWorker') \subseteq ToSet(toWorker) /\ ToSet(toParent') \subseteq ToSet(toParent)
      /\ \A n \in ToSet(toWorker') \cup ToSet(toParent') :
           n.cmd = "CALLBACK" => n.call # {c}
  <2>0. ToSet(<<>>) = {}
    BY ToSetEmpty
  <2>1. CASE /\ m \in ToSet(toWorker) /\ calls[c].by = "parent"
             /\ toWorker' = Tail(toWorker) /\ m = Head(toWorker) /\ toParent' = toParent
    <3>1. toWorker # <<>>
      BY <2>0, <2>1
    <3>2. /\ CallsOnce(toWorker') /\ ToSet(toWorker') \subseteq ToSet(toWorker)
          /\ \A n \in ToSet(toWorker') : n.cmd = "CALLBACK" => n.call # {c}
      BY <1>0, <2>1, <3>1, OnceTail, ToSetTail DEF RunsInv
    <3>3. \A n \in ToSet(toParent) : n.cmd = "CALLBACK" => n.call # {c}
      BY <1>4, <2>1
    <3> QED BY <2>1, <3>2, <3>3 DEF RunsInv
  <2>2. CASE /\ m \in ToSet(toParent) /\ calls[c].by = "worker"
             /\ toParent' = Tail(toParent) /\ m = Head(toParent) /\ toWorker' = toWorker
    <3>1. toParent # <<>>
      BY <2>0, <2>2
    <3>2. /\ CallsOnce(toParent') /\ ToSet(toParent') \subseteq ToSet(toParent)
          /\ \A n \in ToSet(toParent') : n.cmd = "CALLBACK" => n.call # {c}
      BY <1>0, <2>2, <3>1, OnceTail, ToSetTail DEF RunsInv
    <3>3. \A n \in ToSet(toWorker) : n.cmd = "CALLBACK" => n.call # {c}
      BY <1>4, <2>2
    <3> QED BY <2>2, <3>2, <3>3 DEF RunsInv
  <2> QED BY <2>1, <2>2
<1>6. /\ ToSet(toWorker) \subseteq Message /\ ToSet(toParent) \subseteq Message
      /\ \A n \in Message : n.call \subseteq Calls
      /\ manager.queue \subseteq Message /\ \A r \in worker.running : r.message \in Message
  BY <1>0, ToSetTyped, ManagerTyped, WorkerTyped DEF Message, Worker
<1>7. RunsOnce'
  <2> SUFFICES ASSUME NEW n \in ToSet(toWorker') \cup ToSet(toParent'), n.cmd = "CALLBACK",
                      NEW d \in n.call
               PROVE  calls'[d].ran = {}
    BY DEF RunsOnce
  <2>1. n \in ToSet(toWorker) \cup ToSet(toParent) /\ d \in Calls /\ n.call = {d}
    BY <1>4, <1>5
  <2>2. d # c
    BY <1>5, <2>1
  <2> QED BY <1>2, <2>1, <2>2 DEF RunsInv, RunsOnce
<1>8. \A r \in worker'.running : \A d \in r.message.call : HasRun(d)'
  BY <1>3, <1>6 DEF RunsInv
<1>9. \A n \in ToSet(toParent') : (n.cmd # "CALLBACK" /\ ~n.error) => \A d \in n.call : HasRun(d)'
  BY <1>3, <1>5, <1>6 DEF RunsInv
<1>10. \A n \in manager'.queue : \A d \in n.call : Pending(d)'
  <2> SUFFICES ASSUME NEW n \in manager.queue, NEW d \in n.call PROVE Pending(d)'
    OBVIOUS
  <2>1. d \in Calls /\ Pending(d)
    BY <1>6 DEF RunsInv
  <2> QED BY <1>2, <2>1 DEF Pending
<1> QED BY <1>1, <1>3, <1>5, <1>7, <1>8, <1>9, <1>10 DEF RunsInv

\* The worker runs a function for the program.
LEMMA CallbackStartsRuns ==
  ASSUME IInv, TypeOK', RunsInv, NEW m, RunCallback(m), m.id \in DOMAIN worker.callbacks
  PROVE  /\ RunsInv'
         /\ \E c \in Calls, f \in Functions \cup WorkerFunctions :
              /\ calls' = Ran(c, f) /\ calls[c].by = "parent" /\ calls[c].state # "idle"
              /\ calls[c].ran = {} /\ HasRun(c)'
<1>0. /\ worker \in Worker /\ worker.callbacks \in Seq(WorkerFunctions)
  BY WorkerTyped
<1>h. PICK h : h = worker.current[m.inst]
  OBVIOUS
<1>e. PICK e : e = CHOOSE d \in Calls : d \in m.call
  OBVIOUS
<1>1. /\ Receives(m) /\ m.cmd = "CALLBACK" /\ toParent' = toParent
      /\ worker' = [worker EXCEPT !.running = @ \cup {[message |-> m, handle |-> h]}]
      /\ calls' = [calls EXCEPT ![e].ran = @ \cup {worker.callbacks[m.id]}]
  BY <1>h, <1>e DEF RunCallback
<1>2. /\ m \in Message /\ FromParent(m) /\ m \in ToSet(toWorker)
      /\ m = Head(toWorker) /\ toWorker' = Tail(toWorker) /\ manager' = manager
  BY <1>1, ReceivesTyped
<1>3. PICK c \in Calls : IsCallOf("parent", c, m, m.cmdId)
  BY <1>1, <1>2 DEF FromParent
<1>4. m.call = {c} /\ e = c /\ calls[c].by = "parent" /\ calls[c].state # "idle"
  BY <1>3, <1>e DEF IsCallOf
<1>5. PICK f : f = worker.callbacks[m.id]
  OBVIOUS
<1>6. f \in Functions \cup WorkerFunctions
  <2>1. m.id \in 1..Len(worker.callbacks)
    BY <1>0, LenProperties
  <2> QED BY <1>0, <1>5, <2>1, ElementOfSeq
<1>7. calls' = Ran(c, f)
  BY <1>1, <1>4, <1>5 DEF Ran
<1>8. \A r \in worker'.running : r \in worker.running \/ r.message.call = {c}
  BY <1>0, <1>1, <1>4 DEF Worker
<1>9. RunsInv' /\ calls[c].ran = {} /\ HasRun(c)'
  BY <1>1, <1>2, <1>4, <1>6, <1>7, <1>8, RunFirst
<1> QED BY <1>4, <1>6, <1>7, <1>9

\* The program runs a function for a class of the worker.
LEMMA ManagerRunsRuns ==
  ASSUME IInv, TypeOK', RunsInv, NEW m, ManagerRuns(m)
  PROVE  /\ RunsInv'
         /\ \E c \in Calls, f \in Functions \cup WorkerFunctions :
              calls' = Ran(c, f) /\ calls[c].by = "worker"
<1>0. /\ manager \in Manager /\ manager.callbacks \in Seq(Functions)
      /\ toParent \in Seq(Message)
  BY ManagerTyped
<1>1. /\ ManagerReceives(m) /\ m.cmd = "CALLBACK"
      /\ manager' = [manager EXCEPT !.running = @ \cup {m}]
      /\ toParent # <<>> /\ m = Head(toParent) /\ toParent' = Tail(toParent)
  BY DEF ManagerRuns, ManagerReceives
<1>2. FromWorker(m) /\ m \in ToSet(toParent) /\ UNCHANGED <<worker, toWorker>>
  BY <1>0, <1>1, ManagerReceivesTyped, ToSetTail
<1>3. PICK c \in Calls : /\ m.call = {c}
                         /\ calls' = [calls EXCEPT ![c].ran = @ \cup {manager.callbacks[m.id]}]
  BY DEF ManagerRuns
<1>4. calls[c].by = "worker" /\ Has(manager.callbacks, m.id, calls[c].fn)
  BY <1>1, <1>2, <1>3 DEF FromWorker, CallsBack, IsCallOf
<1>5. PICK f : f = manager.callbacks[m.id]
  OBVIOUS
<1>6. f \in Functions \cup WorkerFunctions
  <2>1. m.id \in 1..Len(manager.callbacks)
    BY <1>0, <1>4, LenProperties DEF Has
  <2> QED BY <1>0, <1>5, <2>1, ElementOfSeq
<1>7. calls' = Ran(c, f)
  BY <1>3, <1>5 DEF Ran
<1>8. manager'.queue = manager.queue
  BY <1>0, <1>1 DEF Manager
<1>9. RunsInv'
  BY <1>1, <1>2, <1>3, <1>4, <1>6, <1>7, <1>8, RunFirst
<1> QED BY <1>4, <1>6, <1>7, <1>9

\* The manager takes a message that runs nothing.
LEMMA ManagerTakesRuns ==
  ASSUME IInv, TypeOK', RunsInv, NEW m, ManagerReceives(m),
         \A c \in Calls : calls'[c].ran = calls[c].ran,
         \A n \in manager'.queue : \A c \in n.call :
           n \in manager.queue /\ calls'[c].state = calls[c].state
  PROVE  RunsInv'
<1>0. toParent \in Seq(Message)
  BY ManagerTyped
<1>1. toParent # <<>> /\ toParent' = Tail(toParent) /\ UNCHANGED <<worker, toWorker>>
  BY DEF ManagerReceives
<1>2. CallsOnce(toParent') /\ ToSet(toParent') \subseteq ToSet(toParent)
  BY <1>0, <1>1, OnceTail, ToSetTail DEF RunsInv
<1> QED BY <1>1, <1>2, NothingRuns DEF RunsInv

LEMMA ManagerDropsOrDecodesRuns ==
  ASSUME IInv, TypeOK', RunsInv, NEW m, ManagerDrops(m) \/ ManagerDecodes(m)
  PROVE  RunsInv'
<1>1. ManagerReceives(m) /\ calls' = calls
  BY DEF ManagerDrops, ManagerDecodes
<1>2. manager'.queue \subseteq manager.queue
  BY ManagerTyped DEF ManagerDrops, ManagerDecodes, Manager
<1> QED BY <1>1, <1>2, ManagerTakesRuns

\* A reply settles a call of the program that is pending, and that has run if
\* the reply is no error.
LEMMA ManagerReceivesReplyRuns ==
  ASSUME IInv, TypeOK', RunsInv, NEW m, ManagerReceivesReply(m)
  PROVE  /\ RunsInv'
         /\ \/ calls' = calls
            \/ \E c \in Calls :
                 /\ Pending(c) /\ calls[c].by = "parent" /\ calls' = Settled(c, m)
                 /\ m \in Message /\ m.call = {c}
                 /\ m.error \/ HasRun(c)
<1>0. /\ manager \in Manager /\ NumbersInv /\ calls \in [Calls -> Call]
      /\ manager.queue \subseteq Message /\ toParent \in Seq(Message)
  BY ManagerTyped DEF IInv
<1>a. PICK awaited : awaited = Awaited(manager.queue, m)
  OBVIOUS
<1>b. PICK killed : killed = {n.inst : n \in {o \in awaited : o.cmd = "KILL"}}
  OBVIOUS
<1>c. PICK settled : settled = {c \in Calls : \E n \in awaited : n.call = {c}}
  OBVIOUS
<1>1. /\ ManagerReceives(m) /\ m.cmd = "REPLY"
      /\ manager' = [manager EXCEPT !.queue = @ \ awaited, !.instances = @ \ killed]
      /\ calls' = [c \in Calls |-> IF c \in settled THEN Settled(c, m)[c] ELSE calls[c]]
  BY <1>a, <1>b, <1>c DEF ManagerReceivesReply
<1>2. m \in Message /\ FromWorker(m) /\ m \in ToSet(toParent)
  <2>1. toParent # <<>> /\ m = Head(toParent)
    BY <1>1 DEF ManagerReceives
  <2> QED BY <1>0, <1>1, <2>1, ManagerReceivesTyped, ToSetTail
<1>3. Answers(m)
  BY <1>1, <1>2 DEF FromWorker
<1>4. /\ awaited \subseteq manager.queue
      /\ \A n \in manager.queue : n \in awaited <=> n.cmdId = m.replyTo
      /\ \A n \in awaited : n.call = m.call
  BY <1>a, <1>3 DEF Awaited, Answers
<1>5. ASSUME NEW n \in manager.queue, NEW c \in n.call
      PROVE  c \in Calls /\ n.call = {c} /\ IsCallOf("parent", c, n, n.cmdId) /\ Pending(c)
  <2>1. FromParent(n) /\ n.cmd \in {"FUNCTION", "KILL", "CALLBACK"}
    BY <1>0 DEF NumbersInv, Sent
  <2>2. PICK d \in Calls : IsCallOf("parent", d, n, n.cmdId)
    BY <1>5, <2>1 DEF FromParent
  <2> QED BY <1>5, <2>2 DEF IsCallOf, RunsInv
<1>6. \A c \in settled : /\ c \in Calls /\ m.call = {c} /\ Pending(c) /\ calls[c].by = "parent"
                         /\ m.error \/ HasRun(c)
  <2> SUFFICES ASSUME NEW c \in settled
               PROVE  /\ c \in Calls /\ m.call = {c} /\ Pending(c) /\ calls[c].by = "parent"
                      /\ m.error \/ HasRun(c)
    OBVIOUS
  <2>1. PICK n \in awaited : n.call = {c}
    BY <1>c
  <2>2. m.call = {c} /\ Pending(c) /\ calls[c].by = "parent" /\ c \in Calls
    BY <1>4, <1>5, <2>1 DEF IsCallOf
  <2>3. m.error \/ HasRun(c)
    BY <1>1, <1>2, <2>2 DEF RunsInv
  <2> QED BY <2>2, <2>3
<1>7. \A c \in settled : settled = {c}
  BY <1>6
<1>8. ASSUME NEW c \in settled PROVE calls' = Settled(c, m)
  <2>1. PICK new : new = Settled(c, m)
    OBVIOUS
  <2>2. new \in [Calls -> Call] /\ \A d \in Calls : d # c => new[d] = calls[d]
    BY <1>0, <1>2, <1>6, <2>1, SettledFields
  <2>3. calls' = [d \in Calls |-> IF d = c THEN new[d] ELSE calls[d]]
    BY <1>1, <1>7, <2>1
  <2>4. \A d \in Calls : calls'[d] = new[d]
    BY <2>2, <2>3
  <2>5. calls' = new
    BY <2>2, <2>3, <2>4
  <2> QED BY <2>1, <2>5
<1>9. settled = {} => calls' = calls
  BY <1>0, <1>1
<1>10. \A c \in Calls : /\ calls'[c].ran = calls[c].ran
                        /\ c \notin settled => calls'[c] = calls[c]
  <2>1. ASSUME NEW c \in settled, NEW d \in Calls
        PROVE  calls'[d].ran = calls[d].ran /\ (d # c => calls'[d] = calls[d])
    BY <1>0, <1>2, <1>6, <1>8, <2>1, SettledFields
  <2> QED BY <1>7, <1>9, <2>1
<1>11. manager'.queue = manager.queue \ awaited
  BY <1>0, <1>1 DEF Manager
<1>12. ASSUME NEW n \in manager'.queue, NEW c \in n.call
       PROVE  n \in manager.queue /\ calls'[c].state = calls[c].state
  <2>1. n \in manager.queue /\ n \notin awaited /\ c \in Calls /\ n.call = {c}
        /\ IsCallOf("parent", c, n, n.cmdId)
    BY <1>5, <1>11, <1>12
  <2>2. c \notin settled
    <3> SUFFICES ASSUME c \in settled PROVE FALSE
      OBVIOUS
    <3>1. PICK o \in awaited : o.call = {c}
      BY <1>c
    <3>2. IsCallOf("parent", c, o, o.cmdId)
      BY <1>4, <1>5, <3>1
    <3>3. o.cmdId = n.cmdId
      BY <2>1, <3>2 DEF IsCallOf
    <3> QED BY <1>4, <2>1, <3>1, <3>3
  <2> QED BY <1>10, <2>1, <2>2
<1>13. RunsInv'
  BY <1>1, <1>10, <1>12, ManagerTakesRuns
<1> QED BY <1>2, <1>6, <1>8, <1>9, <1>13

\* A new call of the program, sent or refused.
ProgramMakes(c) ==
  /\ calls[c].state = "idle" /\ calls[c].ran = {} /\ calls[c].answer = {}
  /\ \E new \in Call :
       /\ calls' = [calls EXCEPT ![c] = new]
       /\ new.by = "parent" /\ new.state \in {"pending", "rejected"}
       /\ new.ran = {} /\ new.answer = {}

LEMMA ParentCallsRuns ==
  ASSUME IInv, TypeOK', RunsInv, NEW c \in Calls, NEW r \in manager.remote, ParentCalls(c, r)
  PROVE  RunsInv' /\ ProgramMakes(c)
<1>0. /\ manager \in Manager /\ FunctionsInv /\ CallsInv
      /\ manager.process \in Nat /\ manager.cmdId \in Nat /\ toWorker \in Seq(Message)
      /\ calls \in [Calls -> Call]
  BY ManagerTyped DEF IInv
<1>a. PICK call : call = [NewCall EXCEPT !.by = "parent", !.fn = r.fn, !.inst = r.inst,
                            !.process = r.process, !.cmdId = manager.cmdId]
  OBVIOUS
<1>b. PICK m : m = [NewMessage("CALLBACK", r.inst, manager.cmdId) EXCEPT !.id = r.id, !.call = {c}]
  OBVIOUS
<1>c. PICK s : s = IF CanSend(manager, r.inst) THEN "pending" ELSE "rejected"
  OBVIOUS
<1>1. /\ r.inst \in Instances /\ r.fn \in WorkerFunctions /\ r.process \in Nat
  BY <1>0 DEF Manager
<1>2. m.cmd = "CALLBACK" /\ m.call = {c}
  BY <1>b DEF NewMessage
<1>3. /\ call \in Call /\ call.by = "parent" /\ call.ran = {} /\ call.answer = {}
  BY <1>0, <1>a, <1>1, NewCallTyped DEF Call, Side
<1>d. PICK new : new = [call EXCEPT !.state = s]
  OBVIOUS
<1>4. /\ new \in Call /\ new.by = "parent" /\ new.ran = {} /\ new.answer = {}
      /\ new.state = s /\ s \in {"pending", "rejected"}
  BY <1>c, <1>d, <1>3 DEF Call
<1>5. /\ calls[c].state = "idle" /\ UNCHANGED <<worker, toParent>>
      /\ calls' = [calls EXCEPT ![c] = new]
      /\ \/ Send(manager, m, TRUE) /\ s = "pending"
         \/ NotSent(manager)
  <2>1. CASE CanSend(manager, r.inst)
    BY <1>a, <1>b, <1>c, <1>d, <2>1 DEF ParentCalls
  <2>2. CASE ~CanSend(manager, r.inst)
    BY <1>a, <1>b, <1>c, <1>d, <2>2 DEF ParentCalls
  <2> QED BY <2>1, <2>2
<1>6. ProgramMakes(c)
  BY <1>0, <1>4, <1>5 DEF ProgramMakes, CallsInv
<1>7. /\ calls[c].ran = {}
      /\ \A n \in ToSet(toWorker) \cup ToSet(toParent) : n.cmd = "CALLBACK" => n.call # {c}
      /\ \A n \in manager.queue : c \notin n.call
  BY <1>5, IdleIsNowhere
<1>8. /\ calls'[c] = new /\ \A d \in Calls : d # c => calls'[d] = calls[d]
      /\ \A d \in Calls : calls'[d].ran = calls[d].ran
  BY <1>0, <1>4, <1>5, <1>7
<1>9. \A n \in manager.queue : \A d \in n.call : d \in Calls /\ d # c
  BY <1>7, ManagerTyped DEF Message
<1>10. "queue" \in DOMAIN manager /\ "cmdId" \in DOMAIN manager
  BY <1>0 DEF Manager
<1>11. CASE NotSent(manager)
  <2>1. toWorker' = toWorker /\ manager'.queue = manager.queue
    BY <1>10, <1>11, SendQueue
  <2> QED BY <1>5, <1>6, <1>8, <1>9, <2>1, NothingRuns DEF RunsInv
<1>12. CASE Send(manager, m, TRUE) /\ s = "pending"
  <2>1. toWorker' = Append(toWorker, m) /\ manager'.queue = manager.queue \cup {m}
    BY <1>10, <1>12, SendQueue
  <2>2. CallsOnce(toWorker') /\ ToSet(toWorker') = ToSet(toWorker) \cup {m}
    BY <1>0, <1>2, <1>7, <2>1, OnceAppend, AppendElements DEF RunsInv
  <2>3. Pending(c)'
    BY <1>4, <1>8, <1>12 DEF Pending
  <2>4. \A n \in manager'.queue : \A d \in n.call :
          Pending(d)' \/ (n \in manager.queue /\ calls'[d].state = calls[d].state)
    BY <1>2, <1>8, <1>9, <2>1, <2>3
  <2>5. \A n \in ToSet(toWorker') : n.cmd = "CALLBACK" =>
          n \in ToSet(toWorker) \/ \A d \in n.call : calls'[d].ran = {}
    BY <1>2, <1>4, <1>8, <2>2
  <2> QED BY <1>5, <1>6, <1>8, <2>2, <2>4, <2>5, NothingRuns DEF RunsInv
<1> QED BY <1>5, <1>11, <1>12

\* A new call of a class in the worker, which the program does not make.
LEMMA WorkerCallsRuns ==
  ASSUME IInv, TypeOK', RunsInv, NEW c \in Calls, NEW r \in worker.remote, WorkerCalls(c, r)
  PROVE  /\ RunsInv'
         /\ calls[c].state = "idle" /\ calls[c].ran = {} /\ calls[c].answer = {}
         /\ calls'[c].by = "worker" /\ \A d \in Calls : d # c => calls'[d] = calls[d]
<1>0. /\ worker \in Worker /\ FunctionsInv /\ CallsInv /\ toParent \in Seq(Message)
      /\ calls \in [Calls -> Call]
  BY WorkerTyped
<1>h. PICK h : h = worker.remoteFns[r.id]
  OBVIOUS
<1>m. PICK m : m = [NewMessage("CALLBACK", worker.handles[h].inst, 0) EXCEPT !.id = r.id, !.call = {c}]
  OBVIOUS
<1>n. PICK new : new = [NewCall EXCEPT !.state = "pending", !.fn = r.fn,
                          !.inst = worker.handles[h].inst,
                          !.process = manager.process, !.handle = h,
                          !.cmdId = worker.handles[h].cmdId]
  OBVIOUS
<1>1. /\ calls[c].state = "idle" /\ WorkerSends(worker, h, m, TRUE)
      /\ calls' = [calls EXCEPT ![c] = new]
      /\ UNCHANGED <<manager, toWorker>>
  BY <1>h, <1>m, <1>n DEF WorkerCalls
<1>2. new.by = "worker" /\ new.ran = {}
  BY <1>n DEF NewCall
<1>3. /\ calls[c].ran = {} /\ calls[c].answer = {}
      /\ \A n \in ToSet(toWorker) \cup ToSet(toParent) : n.cmd = "CALLBACK" => n.call # {c}
      /\ \A n \in manager.queue : c \notin n.call
  BY <1>0, <1>1, IdleIsNowhere DEF CallsInv
<1>4. /\ calls'[c] = new /\ \A d \in Calls : d # c => calls'[d] = calls[d]
      /\ \A d \in Calls : calls'[d].ran = calls[d].ran
  BY <1>0, <1>1, <1>2, <1>3
<1>5. PICK sent : sent = [m EXCEPT !.inst = worker.handles[h].inst, !.cmdId = worker.handles[h].cmdId]
  OBVIOUS
<1>6. sent.cmd = "CALLBACK" /\ sent.call = {c}
  BY <1>m, <1>5 DEF NewMessage
<1>7. toParent' = Append(toParent, sent) /\ worker'.running = worker.running
  BY <1>0, <1>1, <1>5 DEF WorkerSends, Worker
<1>8. CallsOnce(toParent') /\ ToSet(toParent') = ToSet(toParent) \cup {sent}
  BY <1>0, <1>3, <1>6, <1>7, OnceAppend, AppendElements DEF RunsInv
<1>9. \A n \in manager'.queue : \A d \in n.call :
        n \in manager.queue /\ calls'[d].state = calls[d].state
  BY <1>1, <1>3, <1>4, ManagerTyped DEF Message
<1>10. \A n \in ToSet(toParent') : n \in ToSet(toParent) \/
         (n.cmd = "CALLBACK" /\ \A d \in n.call : calls'[d].ran = {})
  BY <1>2, <1>4, <1>6, <1>8
<1>11. RunsInv'
  BY <1>1, <1>4, <1>7, <1>8, <1>9, <1>10, NothingRuns DEF RunsInv
<1> QED BY <1>1, <1>2, <1>3, <1>4, <1>11

LEMMA RunsAtFirst == Init => RunsInv
<1> SUFFICES ASSUME Init PROVE RunsInv
  OBVIOUS
<1>1. /\ toWorker = <<>> /\ toParent = <<>> /\ calls = [c \in Calls |-> NewCall]
      /\ manager.queue = {}
  BY DEF Init
<1>2. worker.running = {}
  BY NewWorkerTyped DEF Init, NewWorker
<1>3. CallsOnce(<<>>) /\ ToSet(<<>>) = {}
  BY ToSetEmpty DEF CallsOnce
<1>4. \A c \in Calls : calls[c].ran = {}
  BY <1>1, NewCallTyped
<1> QED BY <1>1, <1>2, <1>3, <1>4 DEF RunsInv, RunsOnce

\* What a step does to the calls that the program makes: nothing, or one of them
\* is made, runs or settles.
ProgramState(c) == IF calls[c].by = "parent" THEN calls[c].state ELSE "idle"
ProgramRuns(c) == IF calls[c].by = "parent" THEN Cardinality(calls[c].ran) ELSE 0
ProgramAnswer(c) ==
  IF calls[c].by = "parent" /\ calls[c].state = "resolved" THEN calls[c].answer ELSE {}

SameToProgram(c) ==
  /\ ProgramState(c)' = ProgramState(c)
  /\ ProgramRuns(c)' = ProgramRuns(c)
  /\ ProgramAnswer(c)' = ProgramAnswer(c)

IssuedTo(c) ==
  /\ ProgramState(c) = "idle" /\ ProgramState(c)' \in {"pending", "rejected"}
  /\ ProgramRuns(c)' = ProgramRuns(c) /\ ProgramAnswer(c)' = ProgramAnswer(c)
RunOf(c) ==
  /\ ProgramState(c) # "idle" /\ ProgramRuns(c) = 0 /\ ProgramRuns(c)' = 1
  /\ ProgramState(c)' = ProgramState(c) /\ ProgramAnswer(c)' = ProgramAnswer(c)
ResolvedOf(c) ==
  /\ ProgramState(c) = "pending" /\ ProgramRuns(c) = 1
  /\ ProgramState(c)' = "resolved" /\ ProgramAnswer(c)' = {c}
  /\ ProgramRuns(c)' = ProgramRuns(c)
RejectedOf(c) ==
  /\ ProgramState(c) = "pending" /\ ProgramState(c)' = "rejected"
  /\ ProgramRuns(c)' = ProgramRuns(c) /\ ProgramAnswer(c)' = ProgramAnswer(c)

ProgramSees ==
  \/ \A c \in Calls : SameToProgram(c)
  \/ \E c \in Calls :
       /\ IssuedTo(c) \/ RunOf(c) \/ ResolvedOf(c) \/ RejectedOf(c)
       /\ \A d \in Calls : d # c => SameToProgram(d)

LEMMA RunsCount ==
  /\ Cardinality({}) = 0
  /\ \A c \in Calls : HasRun(c) => Cardinality(calls[c].ran) = 1
<1>1. Cardinality({}) = 0 /\ \A fn : Cardinality({fn}) = 1
  BY FS_EmptySet, FS_Singleton
<1> QED BY <1>1 DEF HasRun

LEMMA SameCallsSame ==
  ASSUME NEW c \in Calls, calls'[c] = calls[c]
  PROVE  SameToProgram(c)
BY DEF SameToProgram, ProgramState, ProgramRuns, ProgramAnswer

LEMMA ProgramMakesSees ==
  ASSUME calls \in [Calls -> Call], NEW c \in Calls, ProgramMakes(c)
  PROVE  ProgramSees
<1>1. PICK new \in Call :
        /\ calls' = [calls EXCEPT ![c] = new]
        /\ new.by = "parent" /\ new.state \in {"pending", "rejected"}
        /\ new.ran = {} /\ new.answer = {}
  BY DEF ProgramMakes
<1>2. calls'[c] = new /\ \A d \in Calls : d # c => calls'[d] = calls[d]
  BY <1>1
<1>3. calls[c].state = "idle" /\ calls[c].ran = {}
  BY DEF ProgramMakes
<1>4. IssuedTo(c)
  BY <1>1, <1>2, <1>3, RunsCount DEF IssuedTo, ProgramState, ProgramRuns, ProgramAnswer
<1> QED BY <1>2, <1>4, SameCallsSame DEF ProgramSees

LEMMA RanSees ==
  ASSUME calls \in [Calls -> Call], NEW c \in Calls, NEW f \in Functions \cup WorkerFunctions,
         calls' = Ran(c, f),
         \/ calls[c].by = "worker"
         \/ calls[c].by = "parent" /\ calls[c].state # "idle" /\ calls[c].ran = {} /\ HasRun(c)'
  PROVE  ProgramSees
<1>1. PICK new : new = Ran(c, f)
  OBVIOUS
<1>2. /\ new[c].state = calls[c].state /\ new[c].answer = calls[c].answer
      /\ new[c].by = calls[c].by /\ \A d \in Calls : d # c => new[d] = calls[d]
  BY <1>1, RanFields
<1>3. /\ calls'[c].state = calls[c].state /\ calls'[c].answer = calls[c].answer
      /\ calls'[c].by = calls[c].by /\ \A d \in Calls : d # c => SameToProgram(d)
  BY <1>1, <1>2, SameCallsSame
<1>4. CASE calls[c].by = "worker"
  <2>1. SameToProgram(c)
    BY <1>3, <1>4 DEF SameToProgram, ProgramState, ProgramRuns, ProgramAnswer
  <2> QED BY <1>3, <2>1 DEF ProgramSees
<1>5. CASE calls[c].by = "parent" /\ calls[c].state # "idle" /\ calls[c].ran = {} /\ HasRun(c)'
  <2>1. Cardinality(calls'[c].ran) = 1
    BY <1>5, FS_Singleton DEF HasRun
  <2>2. RunOf(c)
    BY <1>3, <1>5, <2>1, RunsCount DEF RunOf, ProgramState, ProgramRuns, ProgramAnswer
  <2> QED BY <1>3, <2>2 DEF ProgramSees
<1> QED BY <1>4, <1>5

LEMMA SettledSees ==
  ASSUME calls \in [Calls -> Call], NEW c \in Calls, NEW m \in Message, calls' = Settled(c, m),
         \/ calls[c].by = "worker"
         \/ /\ calls[c].by = "parent" /\ Pending(c) /\ m.call = {c}
            /\ m.error \/ HasRun(c)
  PROVE  ProgramSees
<1>1. PICK new : new = Settled(c, m)
  OBVIOUS
<1>2. /\ new[c].answer = m.call /\ new[c].ran = calls[c].ran /\ new[c].by = calls[c].by
      /\ \A d \in Calls : d # c => new[d] = calls[d]
  BY <1>1, SettledFields
<1>3. new[c].state = IF m.error THEN "rejected" ELSE "resolved"
  <2>1. PICK call : call = calls[c] /\ call \in Call
    OBVIOUS
  <2>2. new[c] = [call EXCEPT !.state = IF m.error THEN "rejected" ELSE "resolved",
                              !.answer = m.call]
    BY <1>1, <2>1 DEF Settled
  <2> QED BY <2>1, <2>2 DEF Call
<1>4. /\ calls'[c].answer = m.call /\ calls'[c].ran = calls[c].ran
      /\ calls'[c].by = calls[c].by
      /\ calls'[c].state = IF m.error THEN "rejected" ELSE "resolved"
      /\ \A d \in Calls : d # c => SameToProgram(d)
  BY <1>1, <1>2, <1>3, SameCallsSame
<1>5. CASE calls[c].by = "worker"
  <2>1. SameToProgram(c)
    BY <1>4, <1>5 DEF SameToProgram, ProgramState, ProgramRuns, ProgramAnswer
  <2> QED BY <1>4, <2>1 DEF ProgramSees
<1>6. CASE calls[c].by = "parent" /\ Pending(c) /\ m.call = {c} /\ m.error
  <2>1. RejectedOf(c)
    BY <1>4, <1>6 DEF RejectedOf, ProgramState, ProgramRuns, ProgramAnswer, Pending
  <2> QED BY <1>4, <2>1 DEF ProgramSees
<1>7. CASE calls[c].by = "parent" /\ Pending(c) /\ m.call = {c} /\ ~m.error /\ HasRun(c)
  <2>1. ResolvedOf(c)
    BY <1>4, <1>7, RunsCount DEF ResolvedOf, ProgramState, ProgramRuns, ProgramAnswer, Pending
  <2> QED BY <1>4, <2>1 DEF ProgramSees
<1> QED BY <1>5, <1>6, <1>7

LEMMA CloseSees ==
  ASSUME calls \in [Calls -> Call], Close
  PROVE  ProgramSees
<1> SUFFICES ASSUME NEW c \in Calls PROVE SameToProgram(c)
  BY DEF ProgramSees
<1>1. PICK call : call = calls[c] /\ call \in Call
  OBVIOUS
<1>2. calls'[c] = IF call.by = "worker" /\ call.state = "pending"
                  THEN [call EXCEPT !.state = "lost"] ELSE call
  BY <1>1 DEF Close
<1>3. CASE call.by = "worker" /\ call.state = "pending"
  <2>1. calls[c].by = "worker" /\ calls'[c].by = "worker"
    BY <1>1, <1>2, <1>3 DEF Call
  <2> QED BY <2>1 DEF SameToProgram, ProgramState, ProgramRuns, ProgramAnswer
<1>4. CASE ~(call.by = "worker" /\ call.state = "pending")
  BY <1>1, <1>2, <1>4, SameCallsSame
<1> QED BY <1>3, <1>4

\* Every step keeps the invariant about runs, and does to the calls of the program
\* what AsyncCalls allows.
LEMMA RunsStep ==
  ASSUME IInv, TypeOK', RunsInv, [Next]_vars
  PROVE  RunsInv' /\ ProgramSees
<1>0. calls \in [Calls -> Call]
  BY ManagerTyped
<1>s. ASSUME calls' = calls PROVE ProgramSees
  BY <1>s, SameCallsSame DEF ProgramSees
<1>1. ASSUME NEW i \in Instances, NEW method \in Methods, Pass(i, method)
      PROVE  RunsInv' /\ ProgramSees
  <2>0. calls' = calls
    BY <1>1 DEF Pass
  <2> QED BY <1>1, <1>s, <2>0, PassRuns
<1>2. ASSUME NEW c \in Calls, NEW r \in manager.remote, ParentCalls(c, r)
      PROVE  RunsInv' /\ ProgramSees
  BY <1>0, <1>2, ParentCallsRuns, ProgramMakesSees
<1>3. ASSUME NEW c \in Calls, NEW r \in worker.remote, WorkerCalls(c, r)
      PROVE  RunsInv' /\ ProgramSees
  <2>1. /\ RunsInv'
        /\ calls[c].state = "idle" /\ calls[c].ran = {} /\ calls[c].answer = {}
        /\ calls'[c].by = "worker" /\ \A d \in Calls : d # c => calls'[d] = calls[d]
    BY <1>3, WorkerCallsRuns
  <2>2. SameToProgram(c)
    BY <2>1, RunsCount DEF SameToProgram, ProgramState, ProgramRuns, ProgramAnswer
  <2> QED BY <2>1, <2>2, SameCallsSame DEF ProgramSees
<1>4. CASE Returns
  <2>1. ASSUME NEW m \in manager.running, ParentReturns(m) PROVE RunsInv' /\ ProgramSees
    <3>0. calls' = calls
      BY <2>1 DEF ParentReturns
    <3> QED BY <2>1, <1>s, <3>0, ParentReturnsRuns
  <2>2. ASSUME NEW r \in worker.running, WorkerReturns(r) PROVE RunsInv' /\ ProgramSees
    BY <1>s, <2>2, WorkerReturnsRuns DEF WorkerReturns
  <2> QED BY <1>4, <2>1, <2>2 DEF Returns
<1>5. ASSUME NEW i \in Instances, Destroy(i) PROVE RunsInv' /\ ProgramSees
  <2>0. calls' = calls
    BY <1>5 DEF Destroy
  <2> QED BY <1>5, <1>s, <2>0, DestroyRuns
<1>6. CASE KillChild \/ \E i \in Instances : DetachTimeout(i)
  BY <1>6, <1>s, FlagsRuns DEF KillChild, DetachTimeout
<1>7. ASSUME NEW i \in Instances, Reconstruct(i) PROVE RunsInv' /\ ProgramSees
  BY <1>7, <1>s, ReconstructRuns DEF Reconstruct
<1>8. CASE Crash \/ Terminated
  BY <1>0, <1>8, CloseRuns, CloseSees DEF Crash, Terminated
<1>9. CASE Restart
  BY <1>9, <1>s, RestartRuns DEF Restart
<1>10. CASE WorkerReceives
  <2>1. ASSUME NEW m, Construct(m) \/ DropMessage(m) PROVE RunsInv' /\ ProgramSees
    <3>0. calls' = calls
      BY <2>1 DEF Construct, DropMessage
    <3> QED BY <2>1, <1>s, <3>0, ConstructOrDropRuns
  <2>2. ASSUME NEW m, RunFunction(m) PROVE RunsInv' /\ ProgramSees
    <3>0. calls' = calls
      BY <2>2 DEF RunFunction
    <3> QED BY <2>2, <1>s, <3>0, RunFunctionRuns
  <2>3. ASSUME NEW m, KillInstance(m) PROVE RunsInv' /\ ProgramSees
    BY <1>s, <2>3, KillInstanceRuns DEF KillInstance
  <2>4. ASSUME NEW m, RunCallback(m), m.id \in DOMAIN worker.callbacks
        PROVE  RunsInv' /\ ProgramSees
    BY <1>0, <2>4, CallbackStartsRuns, RanSees
  <2>5. ASSUME NEW m, RunCallback(m), m.id \notin DOMAIN worker.callbacks
        PROVE  RunsInv' /\ ProgramSees
    BY <1>s, <2>5, CallbackRefusedRuns DEF RunCallback
  <2>6. ASSUME NEW m, ReceiveReply(m) PROVE RunsInv' /\ ProgramSees
    <3>1. RunsInv'
      BY <2>6, ReceiveReplyRuns
    <3>2. PICK h : h = worker.current[m.inst]
      OBVIOUS
    <3>3. Receives(m) /\ h # 0
      BY <2>6, <3>2 DEF ReceiveReply
    <3>4. calls' = calls \/ \E n \in worker.handles[h].queue, c \in Calls :
                              n.call = {c} /\ calls' = Settled(c, m)
      BY <2>6, <3>2, Zenon DEF ReceiveReply, Awaited
    <3>5. ASSUME NEW n \in worker.handles[h].queue, NEW c \in Calls,
                 n.call = {c}, calls' = Settled(c, m)
          PROVE  ProgramSees
      <4>1. m \in Message /\ h \in DOMAIN worker.handles /\ HandlesInv
        BY <3>2, <3>3, ReceivesTyped, WorkerTyped
      <4>2. PICK d \in Calls : IsCallOf("worker", d, n, n.cmdId)
        BY <4>1 DEF HandlesInv
      <4>3. calls[c].by = "worker"
        BY <3>5, <4>2 DEF IsCallOf
      <4> QED BY <1>0, <3>5, <4>1, <4>3, SettledSees
    <3> QED BY <1>s, <3>1, <3>4, <3>5
  <2> QED BY <1>10, <2>1, <2>2, <2>3, <2>4, <2>5, <2>6 DEF WorkerReceives
<1>11. CASE ParentReceives
  <2>1. ASSUME NEW m, ManagerDrops(m) \/ ManagerDecodes(m) PROVE RunsInv' /\ ProgramSees
    <3>0. calls' = calls
      BY <2>1 DEF ManagerDrops, ManagerDecodes
    <3> QED BY <2>1, <1>s, <3>0, ManagerDropsOrDecodesRuns
  <2>2. ASSUME NEW m, ManagerRuns(m) PROVE RunsInv' /\ ProgramSees
    BY <1>0, <2>2, ManagerRunsRuns, RanSees
  <2>3. ASSUME NEW m, ManagerReceivesReply(m) PROVE RunsInv' /\ ProgramSees
    BY <1>0, <1>s, <2>3, ManagerReceivesReplyRuns, SettledSees
  <2> QED BY <1>11, <2>1, <2>2, <2>3 DEF ParentReceives
<1>12. CASE UNCHANGED vars
  <2>1. UNCHANGED <<manager, worker, toWorker, toParent, calls>>
    BY <1>12 DEF vars
  <2> QED BY <1>s, <2>1, ManagerSendsRuns
<1> QED BY <1>1, <1>2, <1>3, <1>4, <1>5, <1>6, <1>7, <1>8, <1>9, <1>10, <1>11, <1>12 DEF Next

\* In every behaviour, what is on its way has not run, and what is answered has.
THEOREM RunsInvariance == Spec => []RunsInv
<1>1. Init => RunsInv
  BY RunsAtFirst
<1>2. IInv /\ IInv' /\ RunsInv /\ [Next]_vars => RunsInv'
  BY RunsStep DEF IInv
<1> QED BY <1>1, <1>2, Invariance, PTL DEF Spec

\* A call of a remote function runs at most once, on either side of the boundary:
\* a CALLBACK is sent once, and neither a restart of the process nor another
\* construction of the instance sends it again.
THEOREM CallsRunOnce == Spec => []RunsOnce
<1>1. RunsInv => RunsOnce
  BY DEF RunsInv
<1> QED BY <1>1, RunsInvariance, PTL

LEMMA ProgramCallsInit == Init => ProgramCalls!Init
<1> SUFFICES ASSUME Init PROVE ProgramCalls!Init
  OBVIOUS
<1>1. \A c \in Calls : /\ calls[c].by = "worker"
  BY NewCallTyped DEF Init
<1> QED BY <1>1 DEF ProgramCalls!Init

LEMMA ProgramCallsStep ==
  ASSUME ProgramSees
  PROVE  [ProgramCalls!Next]_(ProgramCalls!vars)
<1> DEFINE state == [c \in Calls |-> ProgramState(c)]
           runs == [c \in Calls |-> ProgramRuns(c)]
           answer == [c \in Calls |-> ProgramAnswer(c)]
<1>0. /\ state = [c \in Calls |-> IF calls[c].by = "parent" THEN calls[c].state ELSE "idle"]
      /\ runs = [c \in Calls |->
                   IF calls[c].by = "parent" THEN Cardinality(calls[c].ran) ELSE 0]
      /\ answer = [c \in Calls |-> IF calls[c].by = "parent" /\ calls[c].state = "resolved"
                                   THEN calls[c].answer ELSE {}]
  BY DEF ProgramState, ProgramRuns, ProgramAnswer
<1>00. /\ state' = [c \in Calls |-> IF calls'[c].by = "parent" THEN calls'[c].state ELSE "idle"]
       /\ runs' = [c \in Calls |->
                     IF calls'[c].by = "parent" THEN Cardinality(calls'[c].ran) ELSE 0]
       /\ answer' = [c \in Calls |-> IF calls'[c].by = "parent" /\ calls'[c].state = "resolved"
                                     THEN calls'[c].answer ELSE {}]
  BY DEF ProgramState, ProgramRuns, ProgramAnswer
<1>1. CASE \A c \in Calls : SameToProgram(c)
  <2>1. state' = state /\ runs' = runs /\ answer' = answer
    BY <1>1 DEF SameToProgram
  <2> QED BY <1>0, <1>00, <2>1 DEF ProgramCalls!vars
<1>2. ASSUME NEW c \in Calls, IssuedTo(c) \/ RunOf(c) \/ ResolvedOf(c) \/ RejectedOf(c),
             \A d \in Calls : d # c => SameToProgram(d)
      PROVE  ProgramCalls!Next
  <2>0. /\ \A d \in Calls : d # c =>
             /\ ProgramState(d)' = ProgramState(d) /\ ProgramRuns(d)' = ProgramRuns(d)
             /\ ProgramAnswer(d)' = ProgramAnswer(d)
    BY <1>2 DEF SameToProgram
  <2>1. CASE IssuedTo(c)
    <3>1. /\ state[c] = "idle" /\ ProgramState(c)' \in {"pending", "rejected"}
          /\ state' = [state EXCEPT ![c] = ProgramState(c)']
          /\ runs' = runs /\ answer' = answer
      BY <2>0, <2>1 DEF IssuedTo
    <3>2. \E s \in {"pending", "rejected"} : state' = [state EXCEPT ![c] = s]
      BY <3>1
    <3> HIDE DEF state, runs, answer
    <3>3. ProgramCalls!Issue(c)
      BY <1>0, <1>00, <3>1, <3>2 DEF ProgramCalls!Issue
    <3> QED BY <3>3 DEF ProgramCalls!Next
  <2>2. CASE RunOf(c)
    <3>1. /\ state[c] # "idle" /\ runs[c] = 0 /\ runs' = [runs EXCEPT ![c] = 1]
          /\ state' = state /\ answer' = answer
      BY <2>0, <2>2 DEF RunOf
    <3> HIDE DEF state, runs, answer
    <3>2. ProgramCalls!Run(c)
      BY <1>0, <1>00, <3>1 DEF ProgramCalls!Run
    <3> QED BY <3>2 DEF ProgramCalls!Next
  <2>3. CASE ResolvedOf(c)
    <3>1. /\ state[c] = "pending" /\ runs[c] = 1 /\ runs' = runs
          /\ state' = [state EXCEPT ![c] = "resolved"]
          /\ answer' = [answer EXCEPT ![c] = {c}]
      BY <2>0, <2>3 DEF ResolvedOf
    <3> HIDE DEF state, runs, answer
    <3>2. ProgramCalls!Resolve(c)
      BY <1>0, <1>00, <3>1 DEF ProgramCalls!Resolve
    <3> QED BY <3>2 DEF ProgramCalls!Next
  <2>4. CASE RejectedOf(c)
    <3>1. /\ \A d \in {c} : state[d] = "pending"
          /\ state' = [d \in Calls |-> IF d \in {c} THEN "rejected" ELSE state[d]]
          /\ runs' = runs /\ answer' = answer
      BY <2>0, <2>4 DEF RejectedOf
    <3> HIDE DEF state, runs, answer
    <3>2. ProgramCalls!Reject({c})
      BY <1>0, <1>00, <3>1 DEF ProgramCalls!Reject
    <3> QED BY <3>2 DEF ProgramCalls!Next
  <2> QED BY <1>2, <2>1, <2>2, <2>3, <2>4
<1> QED BY <1>1, <1>2 DEF ProgramSees

\* For the program a function that a method returned is asynchronous as a method
\* is (ProgramCallsAreAsyncCalls): it runs at most once for each call, and its
\* result or error settles that call and no other.
THEOREM ProgramCallsRefine == Spec => ProgramCallsAreAsyncCalls
<1>1. Init => ProgramCalls!Init
  BY ProgramCallsInit
<1>2. IInv /\ IInv' /\ RunsInv /\ [Next]_vars => [ProgramCalls!Next]_(ProgramCalls!vars)
  BY RunsStep, ProgramCallsStep DEF IInv
<1> QED BY <1>1, <1>2, Invariance, RunsInvariance, PTL
        DEF Spec, ProgramCallsAreAsyncCalls, ProgramCalls!Spec
=============================================================================
