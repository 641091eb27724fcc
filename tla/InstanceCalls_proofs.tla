------------------------- MODULE InstanceCalls_proofs -------------------------
(***************************************************************************)
(* Proofs about InstanceCalls, for every set of instances and of calls, and *)
(* any number of kills, crashes and restarts.                              *)
(*                                                                         *)
(* A call has traces in six places: the callbacks the manager keeps, the   *)
(* message on its way, the run, the reply on its way, the abort list and   *)
(* the promise.  What ties them together is the number of the message, so  *)
(* the inductive invariant says that a number is used once, and that       *)
(* everything that carries the number of a call is about that call.        *)
(***************************************************************************)
EXTENDS InstanceCalls, SequenceFacts, TLAPS

\* The messages of which anything is left: a callback, the message, its run.
Sent == child.queue \cup child.childQueue \cup ToSet(toWorker) \cup worker.running

\* What a message is about.
MessageInv(m) ==
  /\ m.cmdId < child.cmdId
  /\ m.cmd \in {"INIT", "KILL"} => m.call = {}
  /\ m.cmd \notin {"INIT", "KILL"} =>
       \E c \in Calls :
         /\ m.call = {c}
         /\ calls[c].state # "idle" /\ calls[c].cmdId = m.cmdId
         /\ IF m.cmd = "GET_MEM_USAGE" THEN calls[c].kind = "memory"
            ELSE calls[c].kind # "memory" /\ calls[c].inst = m.inst
  /\ m.cmd # "GET_MEM_USAGE" => m.inst \in child.attached
  /\ m.cmd = "KILL" => m.inst \in child.destroyed

Answers(r, m) ==
  /\ r.call = m.call
  /\ r.inst = m.inst
  /\ r.from = IF m.cmd = "GET_MEM_USAGE" THEN "child" ELSE "instance"

ReplyInv(r) ==
  /\ r.replyTo < child.cmdId
  /\ \A c \in r.call : calls[c].runs = 1
  /\ \A m \in Sent : m.cmdId = r.replyTo => Answers(r, m)

\* The conjuncts of the inductive invariant.
NumbersInv ==
  /\ \A m, n \in Sent : m.cmdId = n.cmdId => m = n
  /\ \A m \in Sent : MessageInv(m)
  /\ \A r \in ToSet(toParent) : ReplyInv(r)
  /\ \A m \in child.childQueue : m.cmd = "GET_MEM_USAGE"
  /\ \A m \in worker.running : m.cmd # "GET_MEM_USAGE"

\* Messages are sent in the order of their numbers, and only the calls before
\* them have run.
RunsInv ==
  /\ \A k \in DOMAIN toWorker : \A j \in 1..(k - 1) : toWorker[j].cmdId < toWorker[k].cmdId
  /\ \A m \in worker.running : \A c \in m.call : calls[c].runs = 1
  /\ \A c \in Calls : calls[c].runs # 0 =>
       /\ calls[c].runs = 1
       /\ calls[c].state # "idle"
       /\ calls[c].cmdId < child.cmdId
       /\ \A k \in DOMAIN toWorker : calls[c].cmdId < toWorker[k].cmdId

\* The instances and the process.
LifeInv ==
  /\ child.registered => child.attached \ child.destroyed \subseteq child.instances
  /\ child.instances \subseteq child.attached
  /\ child.initialized \subseteq child.attached
  /\ \A k \in DOMAIN child.restarts : ToSet(child.restarts[k]) \subseteq child.attached
  /\ child.detaching \subseteq child.destroyed
  /\ ~child.alive => toWorker = <<>> /\ toParent = <<>> /\ worker = NewWorker

\* The calls that a close of the process aborts.
AbortInv ==
  /\ ~child.alive => child.methods = {}
  /\ \A c \in Calls : calls[c].process <= child.process
  /\ \A c \in child.methods : calls[c].process = child.process
  /\ \A c \in Calls : Pending(c) /\ calls[c].kind = "method" => c \in child.methods

\* The worker has the instance, or will have it when it comes to the message k.  A
\* process that runs after the manager has let go of the child need not have those
\* that were let go.
Known(i, k, ch, messages, w) ==
  \/ LetGo(ch, i)
  \/ i \in ch.destroyed
  \/ i \in w.failed
  \/ i \in w.handles
  \/ \E j \in 1..(k - 1) : messages[j].cmd = "INIT" /\ messages[j].inst = i

HandlesInv ==
  /\ CanSend(child) =>
       \A i \in child.initialized : Known(i, Len(toWorker) + 1, child, toWorker, worker)
  /\ \A k \in DOMAIN toWorker :
       toWorker[k].cmd \in {"FUNCTION", "SET"} =>
         Known(toWorker[k].inst, k, child, toWorker, worker)

\* A pending call of the live process.
Served(c) ==
  \/ InFlight(c) /\ \E m \in child.queue \cup child.childQueue : m.call = {c}
  \/ Lost(calls[c].inst) /\ calls[c].kind # "memory"
ServedInv ==
  \A c \in Calls :
    Pending(c) /\ child.alive /\ calls[c].process = child.process => Served(c)

IInv ==
  /\ TypeOK
  /\ NumbersInv
  /\ RunsInv
  /\ ResultIsOwn
  /\ LifeInv
  /\ AbortInv
  /\ HandlesInv
  /\ ServedInv

-----------------------------------------------------------------------------
(***************************************************************************)
(* What a step must respect, whatever it is a step of.                     *)
(***************************************************************************)
\* A call that was made keeps its number, and a run that happened has happened.
CallsKept ==
  \A c \in Calls :
    /\ calls[c].state # "idle" =>
         /\ calls'[c].state # "idle"
         /\ calls'[c].cmdId = calls[c].cmdId
         /\ calls'[c].kind = calls[c].kind
         /\ calls'[c].inst = calls[c].inst
         /\ calls'[c].process = calls[c].process
    /\ calls[c].runs = 1 => calls'[c].runs = 1

\* The numbers stay tied together if a message that appears has a new number,
\* and a reply that appears answers a message.
LEMMA NumbersStep ==
  ASSUME TypeOK, TypeOK', NumbersInv, CallsKept,
         child.cmdId <= child'.cmdId,
         child.attached \subseteq child'.attached,
         child.destroyed \subseteq child'.destroyed,
         \A m \in Sent' : m \in Sent \/ (child.cmdId <= m.cmdId /\ MessageInv(m)'),
         \A m, n \in Sent' \ Sent : m.cmdId = n.cmdId => m = n,
         \A r \in ToSet(toParent)' :
           \/ r \in ToSet(toParent)
           \/ /\ \E m \in Sent : r.replyTo = m.cmdId /\ Answers(r, m)
              /\ \A c \in r.call : calls'[c].runs = 1,
         \A m \in child'.childQueue : m \in child.childQueue \/ m.cmd = "GET_MEM_USAGE",
         \A m \in worker'.running : m \in worker.running \/ m.cmd # "GET_MEM_USAGE"
  PROVE  NumbersInv'
<1>1. child.cmdId \in Nat /\ child'.cmdId \in Nat
  BY DEF TypeOK, Child
<1>2. Sent \subseteq Message /\ Sent' \subseteq Message
  BY ToSetTyped DEF TypeOK, Child, Worker, Sent
<1>3. \A m \in Sent : m.cmdId \in Nat /\ m.cmdId < child.cmdId
  BY <1>2 DEF Message, NumbersInv, MessageInv
<1>4. \A m \in Sent' : m.cmdId \in Nat
  BY <1>2 DEF Message
<1>5. \A m \in Sent' : MessageInv(m)'
  <2> SUFFICES ASSUME NEW m \in Sent', m \in Sent PROVE MessageInv(m)'
    OBVIOUS
  <2>1. MessageInv(m)
    BY DEF NumbersInv
  <2>2. m.cmdId < child'.cmdId
    BY <1>1, <1>3, <1>4
  <2> QED BY <2>1, <2>2 DEF MessageInv, CallsKept
<1>6. \A m, n \in Sent' : m.cmdId = n.cmdId => m = n
  <2> SUFFICES ASSUME NEW m \in Sent', NEW n \in Sent', m.cmdId = n.cmdId PROVE m = n
    OBVIOUS
  <2>1. CASE m \in Sent /\ n \in Sent
    BY <2>1 DEF NumbersInv
  <2>2. CASE m \notin Sent /\ n \notin Sent
    BY <2>2
  <2>3. CASE m \in Sent /\ n \notin Sent
    BY <1>1, <1>3, <1>4, <2>3
  <2>4. CASE m \notin Sent /\ n \in Sent
    BY <1>1, <1>3, <1>4, <2>4
  <2> QED BY <2>1, <2>2, <2>3, <2>4
<1>7. \A r \in ToSet(toParent)' : ReplyInv(r)'
  <2> SUFFICES ASSUME NEW r \in ToSet(toParent)' PROVE ReplyInv(r)'
    OBVIOUS
  <2>0. r.replyTo \in Nat /\ r.call \subseteq Calls
    <3>1. toParent' \in Seq(Reply)
      BY DEF TypeOK
    <3>2. ToSet(toParent') \subseteq Reply
      BY <3>1, ToSetTyped
    <3> QED BY <3>2 DEF Reply
  <2>1. CASE r \in ToSet(toParent)
    <3>1. ReplyInv(r)
      BY <2>1 DEF NumbersInv
    <3>2. r.replyTo < child.cmdId
      BY <3>1 DEF ReplyInv
    <3>3. \A c \in r.call : calls'[c].runs = 1
      BY <2>0, <3>1 DEF ReplyInv, CallsKept
    <3>4. \A m \in Sent' : m.cmdId = r.replyTo => Answers(r, m)
      BY <1>1, <1>4, <2>0, <3>1, <3>2 DEF ReplyInv
    <3> QED BY <1>1, <2>0, <3>2, <3>3, <3>4 DEF ReplyInv, Answers
  <2>2. CASE r \notin ToSet(toParent)
    <3>1. PICK m \in Sent : r.replyTo = m.cmdId /\ Answers(r, m)
      BY <2>2
    <3>2. r.replyTo < child.cmdId
      BY <1>3, <3>1
    <3>3. \A n \in Sent' : n.cmdId = r.replyTo => n = m
      BY <1>1, <1>4, <2>0, <3>1, <3>2 DEF NumbersInv
    <3> QED BY <1>1, <2>0, <2>2, <3>1, <3>2, <3>3 DEF ReplyInv, Answers
  <2> QED BY <2>1, <2>2
<1>8. /\ \A m \in child'.childQueue : m.cmd = "GET_MEM_USAGE"
      /\ \A m \in worker'.running : m.cmd # "GET_MEM_USAGE"
  BY DEF NumbersInv
<1> QED BY <1>5, <1>6, <1>7, <1>8 DEF NumbersInv

\* Nothing of NumbersInv changes when messages and replies only disappear.
LEMMA NumbersShrink ==
  ASSUME TypeOK, TypeOK', NumbersInv, CallsKept,
         child.cmdId <= child'.cmdId,
         child.attached \subseteq child'.attached,
         child.destroyed \subseteq child'.destroyed,
         Sent' \subseteq Sent,
         ToSet(toParent)' \subseteq ToSet(toParent),
         child'.childQueue \subseteq child.childQueue,
         worker'.running \subseteq worker.running
  PROVE  NumbersInv'
BY NumbersStep

-----------------------------------------------------------------------------
(***************************************************************************)
(* Steps of the manager that send messages, or none.                       *)
(***************************************************************************)
Sends(new) ==
  /\ toWorker' = toWorker \o new
  /\ toParent' = toParent
  /\ worker' = worker
  /\ child.cmdId + Len(new) <= child'.cmdId
  /\ child'.queue \cup child'.childQueue = child.queue \cup child.childQueue \cup ToSet(new)
  /\ \A m \in child'.childQueue : m \in child.childQueue \/ m.cmd = "GET_MEM_USAGE"
  /\ child.attached \subseteq child'.attached
  /\ child.destroyed \subseteq child'.destroyed
  /\ \A i : LetGo(child, i) => LetGo(child', i)
  /\ \A k \in 1..Len(new) : new[k].cmdId = child.cmdId + k - 1 /\ MessageInv(new[k])'

\* Some calls are made; the others stay.
CallsMade ==
  \A c \in Calls :
    \/ calls'[c] = calls[c]
    \/ /\ calls[c].state = "idle"
       /\ calls'[c].state \in {"pending", "rejected"}
       /\ calls'[c].runs = calls[c].runs
       /\ calls'[c].process = child.process

\* New messages with new numbers keep the numbers and the order of runs.
LEMMA SendNumbers ==
  ASSUME IInv, TypeOK', CallsMade, NEW new \in Seq(Message), Sends(new)
  PROVE  NumbersInv' /\ RunsInv' /\ ResultIsOwn'
<1>0. /\ TypeOK /\ NumbersInv /\ RunsInv /\ ResultIsOwn
      /\ toWorker \in Seq(Message)
      /\ child.cmdId \in Nat /\ child'.cmdId \in Nat
      /\ Len(new) \in Nat /\ DOMAIN new = 1..Len(new)
      /\ Len(toWorker) \in Nat /\ DOMAIN toWorker = 1..Len(toWorker)
      /\ \A c \in Calls : calls[c].cmdId \in Nat
  BY LenProperties DEF IInv, TypeOK, Child, Call
<1>1. Sent' = Sent \cup ToSet(new)
  <2>1. ToSet(toWorker') = ToSet(toWorker) \cup ToSet(new)
    BY <1>0, ToSetConcat DEF Sends
  <2> QED BY <2>1 DEF Sent, Sends
<1>2. CallsKept
  BY <1>0 DEF CallsMade, CallsKept, RunsInv
<1>3. \A m \in Sent' : m \in Sent \/ (child.cmdId <= m.cmdId /\ MessageInv(m)')
  BY <1>0, <1>1 DEF Sends, ToSet
<1>4. \A m, n \in Sent' \ Sent : m.cmdId = n.cmdId => m = n
  <2> SUFFICES ASSUME NEW j \in 1..Len(new), NEW k \in 1..Len(new),
                      new[j].cmdId = new[k].cmdId
               PROVE  new[j] = new[k]
    BY <1>0, <1>1 DEF ToSet
  <2>1. j = k
    BY <1>0 DEF Sends
  <2> QED BY <2>1
<1>5. NumbersInv'
  <2>1. child.cmdId <= child'.cmdId BY <1>0 DEF Sends
  <2>2. /\ ToSet(toParent)' = ToSet(toParent) /\ worker'.running = worker.running
        /\ child.attached \subseteq child'.attached /\ child.destroyed \subseteq child'.destroyed
        /\ \A m \in child'.childQueue : m \in child.childQueue \/ m.cmd = "GET_MEM_USAGE"
    BY DEF Sends
  <2> QED BY <1>0, <1>2, <1>3, <1>4, <2>1, <2>2, NumbersStep
<1>6. RunsInv'
  <2>1. /\ DOMAIN toWorker' = 1..(Len(toWorker) + Len(new))
        /\ \A k \in 1..(Len(toWorker) + Len(new)) :
             toWorker'[k] = IF k <= Len(toWorker) THEN toWorker[k] ELSE new[k - Len(toWorker)]
    BY <1>0, ConcatProperties, LenProperties DEF Sends
  <2>2. \A k \in 1..Len(toWorker) : toWorker[k].cmdId \in Nat /\ toWorker[k].cmdId < child.cmdId
    <3> SUFFICES ASSUME NEW k \in 1..Len(toWorker)
                 PROVE  toWorker[k].cmdId \in Nat /\ toWorker[k].cmdId < child.cmdId
      OBVIOUS
    <3>1. toWorker[k] \in Sent /\ toWorker[k] \in Message
      BY <1>0, ElementOfSeq DEF Sent, ToSet
    <3> QED BY <1>0, <3>1 DEF NumbersInv, MessageInv, Message
  <2>3. \A k \in (Len(toWorker) + 1)..(Len(toWorker) + Len(new)) :
          /\ toWorker'[k].cmdId = child.cmdId + (k - Len(toWorker)) - 1
          /\ child.cmdId <= toWorker'[k].cmdId
    <3> SUFFICES ASSUME NEW k \in (Len(toWorker) + 1)..(Len(toWorker) + Len(new))
                 PROVE  /\ toWorker'[k].cmdId = child.cmdId + (k - Len(toWorker)) - 1
                        /\ child.cmdId <= toWorker'[k].cmdId
      OBVIOUS
    <3>1. k - Len(toWorker) \in 1..Len(new) /\ toWorker'[k] = new[k - Len(toWorker)]
      BY <1>0, <2>1
    <3> QED BY <1>0, <3>1 DEF Sends
  <2>4. \A k \in DOMAIN toWorker' : \A j \in 1..(k - 1) : toWorker'[j].cmdId < toWorker'[k].cmdId
    <3> SUFFICES ASSUME NEW k \in 1..(Len(toWorker) + Len(new)), NEW j \in 1..(k - 1)
                 PROVE  toWorker'[j].cmdId < toWorker'[k].cmdId
      BY <2>1
    <3>0. j \in 1..(Len(toWorker) + Len(new)) BY <1>0
    <3>1. CASE k <= Len(toWorker)
      BY <1>0, <2>1, <3>0, <3>1 DEF RunsInv
    <3>2. CASE ~(k <= Len(toWorker)) /\ j <= Len(toWorker)
      BY <1>0, <2>1, <2>2, <2>3, <3>0, <3>2
    <3>3. CASE ~(k <= Len(toWorker)) /\ ~(j <= Len(toWorker))
      BY <1>0, <2>1, <2>3, <3>0, <3>3
    <3> QED BY <3>1, <3>2, <3>3
  <2>5. \A c \in Calls : calls'[c].runs # 0 =>
          /\ calls'[c].runs = 1
          /\ calls'[c].state # "idle"
          /\ calls'[c].cmdId < child'.cmdId
          /\ \A k \in DOMAIN toWorker' : calls'[c].cmdId < toWorker'[k].cmdId
    <3> SUFFICES ASSUME NEW c \in Calls, calls'[c].runs # 0
                 PROVE  /\ calls'[c].runs = 1
                        /\ calls'[c].state # "idle"
                        /\ calls'[c].cmdId < child'.cmdId
                        /\ \A k \in 1..(Len(toWorker) + Len(new)) : calls'[c].cmdId < toWorker'[k].cmdId
      BY <2>1
    <3>1. calls'[c] = calls[c]
      BY <1>0 DEF CallsMade, RunsInv
    <3>2. calls[c].runs = 1 /\ calls[c].state # "idle" /\ calls[c].cmdId < child.cmdId
      BY <1>0, <3>1 DEF RunsInv
    <3>3. \A k \in 1..(Len(toWorker) + Len(new)) : calls'[c].cmdId < toWorker'[k].cmdId
      <4> SUFFICES ASSUME NEW k \in 1..(Len(toWorker) + Len(new))
                   PROVE  calls'[c].cmdId < toWorker'[k].cmdId
        OBVIOUS
      <4>1. CASE k <= Len(toWorker)
        BY <1>0, <2>1, <3>1, <4>1 DEF RunsInv
      <4>2. CASE ~(k <= Len(toWorker))
        <5>1. child.cmdId <= toWorker'[k].cmdId /\ toWorker'[k].cmdId \in Int
          BY <1>0, <2>3, <4>2
        <5> QED BY <1>0, <3>1, <3>2, <5>1
      <4> QED BY <4>1, <4>2
    <3> QED BY <1>0, <3>1, <3>2, <3>3 DEF Sends
  <2>6. \A m \in worker'.running : \A c \in m.call : calls'[c].runs = 1
    <3> SUFFICES ASSUME NEW m \in worker.running, NEW c \in m.call PROVE calls'[c].runs = 1
      BY DEF Sends
    <3>1. c \in Calls BY <1>0 DEF TypeOK, Worker, Message
    <3> QED BY <1>0, <1>2, <3>1 DEF RunsInv, CallsKept
  <2> QED BY <2>4, <2>5, <2>6 DEF RunsInv
<1>7. ResultIsOwn'
  BY <1>0 DEF ResultIsOwn, CallsMade
<1> QED BY <1>5, <1>6, <1>7

\* Messages that are appended leave what the worker will know at the others,
\* and at those that are appended.
LEMMA KnownSend ==
  ASSUME TypeOK, NEW new \in Seq(Message), Sends(new),
         NEW i, NEW k \in 1..(Len(toWorker) + 1), Known(i, k, child, toWorker, worker),
         NEW n \in Nat, k <= n
  PROVE  Known(i, n, child', toWorker', worker')
<1>1. \A j \in 1..(k - 1) : toWorker'[j] = toWorker[j] /\ j \in 1..(n - 1)
  BY ConcatProperties, LenProperties DEF TypeOK, Sends
<1>2. /\ child.destroyed \subseteq child'.destroyed /\ worker' = worker
      /\ LetGo(child, i) => LetGo(child', i)
  BY DEF Sends
<1> QED BY <1>1, <1>2 DEF Known

\* A message behind the INIT of its instance finds the instance.
LEMMA SendHandles ==
  ASSUME IInv, TypeOK', NEW new \in Seq(Message), Sends(new),
         CanSend(child') => \A i \in child'.initialized :
           \/ CanSend(child) /\ i \in child.initialized
           \/ i \in child'.destroyed \/ LetGo(child', i)
           \/ \E k \in 1..Len(new) : new[k].cmd = "INIT" /\ new[k].inst = i,
         \A k \in 1..Len(new) : new[k].cmd \in {"FUNCTION", "SET"} =>
           CanSend(child) /\ new[k].inst \in child.initialized
  PROVE  HandlesInv'
<1>0. /\ TypeOK /\ HandlesInv
      /\ Len(new) \in Nat /\ Len(toWorker) \in Nat /\ DOMAIN toWorker = 1..Len(toWorker)
      /\ Len(toWorker') = Len(toWorker) + Len(new)
      /\ DOMAIN toWorker' = 1..(Len(toWorker) + Len(new))
      /\ \A k \in 1..(Len(toWorker) + Len(new)) :
           toWorker'[k] = IF k <= Len(toWorker) THEN toWorker[k] ELSE new[k - Len(toWorker)]
  BY ConcatProperties, LenProperties DEF IInv, TypeOK, Sends
<1> DEFINE here == Len(toWorker) + 1
<1>1. here \in 1..(Len(toWorker) + 1)
  BY <1>0
<1>2. ASSUME CanSend(child'), NEW i \in child'.initialized
      PROVE  Known(i, Len(toWorker') + 1, child', toWorker', worker')
  <2>1. CASE CanSend(child) /\ i \in child.initialized
    <3>1. Known(i, here, child, toWorker, worker)
      BY <1>0, <2>1 DEF HandlesInv
    <3>2. Len(toWorker') + 1 \in Nat /\ here <= Len(toWorker') + 1
      BY <1>0
    <3> QED BY <1>0, <1>1, <3>1, <3>2, KnownSend
  <2>2. CASE i \in child'.destroyed \/ LetGo(child', i)
    BY <2>2 DEF Known
  <2>3. ASSUME NEW k \in 1..Len(new), new[k].cmd = "INIT" /\ new[k].inst = i
        PROVE  Known(i, Len(toWorker') + 1, child', toWorker', worker')
    <3>1. /\ Len(toWorker) + k \in 1..((Len(toWorker') + 1) - 1)
          /\ toWorker'[Len(toWorker) + k] = new[k]
      BY <1>0
    <3> QED BY <2>3, <3>1 DEF Known
  <2> QED BY <1>2, <2>1, <2>2, <2>3
<1>3. ASSUME NEW k \in 1..(Len(toWorker) + Len(new)), toWorker'[k].cmd \in {"FUNCTION", "SET"}
      PROVE  Known(toWorker'[k].inst, k, child', toWorker', worker')
  <2>1. CASE k <= Len(toWorker)
    <3>1. toWorker'[k] = toWorker[k] /\ k \in 1..(Len(toWorker) + 1) /\ k \in Nat
      BY <1>0, <2>1
    <3>2. Known(toWorker[k].inst, k, child, toWorker, worker)
      BY <1>0, <1>3, <2>1, <3>1 DEF HandlesInv
    <3> QED BY <1>0, <3>1, <3>2, KnownSend
  <2>2. CASE ~(k <= Len(toWorker))
    <3>1. k - Len(toWorker) \in 1..Len(new) /\ toWorker'[k] = new[k - Len(toWorker)]
      BY <1>0, <2>2
    <3>2. Known(toWorker'[k].inst, here, child, toWorker, worker)
      BY <1>0, <1>3, <3>1 DEF HandlesInv
    <3>3. k \in Nat /\ here <= k
      BY <1>0, <2>2
    <3> QED BY <1>0, <1>1, <3>2, <3>3, KnownSend
  <2> QED BY <2>1, <2>2
<1> QED BY <1>0, <1>2, <1>3 DEF HandlesInv

\* A pending call is served by the new message, or as before; a new process
\* serves no old call.
LEMMA SendServed ==
  ASSUME IInv, TypeOK', CallsMade, NEW new \in Seq(Message), Sends(new),
         \A c \in Calls : (calls'[c] # calls[c] /\ calls'[c].state = "pending") =>
           \E m \in ToSet(new) : m.call = {c},
         \/ child'.process = child.process /\ (child'.alive => child.alive)
         \/ child'.process = child.process + 1
  PROVE  ServedInv'
<1>0. /\ TypeOK /\ ServedInv /\ AbortInv
      /\ child.process \in Nat /\ child'.process \in Nat
      /\ \A c \in Calls : calls[c].process \in Nat
  BY DEF IInv, TypeOK, Child, Call
<1>1. ToSet(toWorker') = ToSet(toWorker) \cup ToSet(new)
  BY <1>0, ToSetConcat DEF Sends, TypeOK
<1> SUFFICES ASSUME NEW c \in Calls, Pending(c)', child'.alive, calls'[c].process = child'.process
             PROVE  Served(c)'
  BY DEF ServedInv
<1>2. CASE calls'[c] # calls[c]
  <2>1. PICK m \in ToSet(new) : m.call = {c}
    BY <1>2 DEF Pending
  <2>2. m \in ToSet(toWorker') /\ m \in child'.queue \cup child'.childQueue
    BY <1>1, <2>1 DEF Sends
  <2> QED BY <2>1, <2>2 DEF Served, InFlight
<1>3. CASE calls'[c] = calls[c]
  <2>1. child.alive /\ child'.process = child.process
    <3>1. calls[c].process <= child.process /\ calls[c].process = child'.process
      BY <1>0, <1>3 DEF AbortInv
    <3> QED BY <1>0, <3>1
  <2>2. Served(c)
    BY <1>0, <1>3, <2>1 DEF ServedInv, Pending
  <2> QED BY <1>1, <1>3, <2>2 DEF Served, InFlight, Lost, Sends
<1> QED BY <1>2, <1>3

\* A step that sends keeps the invariant.
LEMMA SendGood ==
  ASSUME IInv, TypeOK', LifeInv', AbortInv', CallsMade, NEW new \in Seq(Message), Sends(new),
         CanSend(child') => \A i \in child'.initialized :
           \/ CanSend(child) /\ i \in child.initialized
           \/ i \in child'.destroyed \/ LetGo(child', i)
           \/ \E k \in 1..Len(new) : new[k].cmd = "INIT" /\ new[k].inst = i,
         \A k \in 1..Len(new) : new[k].cmd \in {"FUNCTION", "SET"} =>
           CanSend(child) /\ new[k].inst \in child.initialized,
         \A c \in Calls : (calls'[c] # calls[c] /\ calls'[c].state = "pending") =>
           \E m \in ToSet(new) : m.call = {c},
         \/ child'.process = child.process /\ (child'.alive => child.alive)
         \/ child'.process = child.process + 1
  PROVE  IInv'
BY SendNumbers, SendHandles, SendServed DEF IInv

\* A live child sends one message.
LEMMA OneSendGood ==
  ASSUME IInv, TypeOK', LifeInv', AbortInv', CallsMade,
         NEW m \in Message, m.cmdId = child.cmdId, MessageInv(m)',
         toWorker' = Append(toWorker, m), UNCHANGED <<toParent, worker>>,
         child'.cmdId = child.cmdId + 1,
         child'.queue \cup child'.childQueue = child.queue \cup child.childQueue \cup {m},
         \A n \in child'.childQueue : n \in child.childQueue \/ n.cmd = "GET_MEM_USAGE",
         child'.attached = child.attached, child.destroyed \subseteq child'.destroyed,
         child'.registered = child.registered, child'.instances \subseteq child.instances,
         CanSend(child), child'.process = child.process,
         child'.initialized = child.initialized,
         m.cmd \in {"FUNCTION", "SET"} => m.inst \in child.initialized,
         \A c \in Calls : calls'[c] # calls[c] => m.call = {c}
  PROVE  IInv'
<1>1. /\ <<m>> \in Seq(Message) /\ Len(<<m>>) = 1 /\ <<m>>[1] = m /\ ToSet(<<m>>) = {m}
      /\ child.cmdId \in Nat /\ toWorker \in Seq(Message)
      /\ \A k \in 1..1 : k = 1
  BY OneElement DEF IInv, TypeOK, Child
<1>2. toWorker' = toWorker \o <<m>>
  BY <1>1, AppendIsConcat
<1>3. PICK new : new = <<m>>
  OBVIOUS
<1>4. /\ new \in Seq(Message) /\ Len(new) = 1 /\ ToSet(new) = {m}
      /\ \A k \in 1..Len(new) : new[k] = m /\ k = 1
  BY <1>1, <1>3
<1>5. Sends(new)
  <2>1. \A k \in 1..Len(new) : new[k].cmdId = child.cmdId + k - 1 /\ MessageInv(new[k])'
    BY <1>1, <1>4
  <2>2. \A i : LetGo(child, i) => LetGo(child', i)
    BY DEF LetGo
  <2> QED BY <1>1, <1>2, <1>3, <1>4, <2>1, <2>2 DEF Sends
<1>6. \A i \in child'.initialized : CanSend(child) /\ i \in child.initialized
  OBVIOUS
<1>7. \A k \in 1..Len(new) : new[k].cmd \in {"FUNCTION", "SET"} =>
        CanSend(child) /\ new[k].inst \in child.initialized
  BY <1>4
<1>8. \A c \in Calls : calls'[c] # calls[c] => \E n \in ToSet(new) : n.call = {c}
  BY <1>4
<1>9. child.alive
  BY DEF CanSend
<1> QED BY <1>4, <1>5, <1>6, <1>7, <1>8, <1>9, SendGood

\* e is ch after the messages ms were put in its queue.
Enqueued(e, ch, ms) ==
  /\ e \in Child
  /\ e.cmdId = ch.cmdId + Len(ms) /\ e.queue = ch.queue \cup ToSet(ms)
  /\ e.registered = ch.registered /\ e.alive = ch.alive
  /\ e.isClosing = ch.isClosing /\ e.cleanUp = ch.cleanUp
  /\ e.process = ch.process /\ e.firstCmdId = ch.firstCmdId
  /\ e.instances = ch.instances /\ e.attached = ch.attached
  /\ e.created = ch.created /\ e.initialized = ch.initialized
  /\ e.detaching = ch.detaching /\ e.destroyed = ch.destroyed
  /\ e.restarts = ch.restarts
  /\ e.childQueue = ch.childQueue /\ e.methods = ch.methods

\* What Enqueue changes, and what it leaves.
LEMMA EnqueueFields ==
  ASSUME NEW ch \in Child, NEW ms \in Seq(Message)
  PROVE  Enqueued(Enqueue(ch, ms), ch, ms)
<1>0. PICK e : e = Enqueue(ch, ms)
  OBVIOUS
<1>1. /\ Len(ms) \in Nat /\ ToSet(ms) \subseteq Message
      /\ ch.cmdId \in Nat /\ ch.queue \subseteq Message
  BY ToSetTyped, LenProperties DEF Child
<1>2. ch.cmdId + Len(ms) \in Nat /\ ch.queue \cup ToSet(ms) \subseteq Message
  BY <1>1
<1> DEFINE id == ch.cmdId + Len(ms)
           q == ch.queue \cup ToSet(ms)
<1>3. e = [ch EXCEPT !.cmdId = id, !.queue = q]
  BY <1>0 DEF Enqueue
<1>4. id \in Nat /\ q \subseteq Message
  BY <1>2
<1> HIDE DEF id, q
<1>5. e \in Child
  BY <1>3, <1>4 DEF Child
<1>6. /\ e.cmdId = id /\ e.queue = q
      /\ e.registered = ch.registered /\ e.alive = ch.alive
      /\ e.isClosing = ch.isClosing /\ e.cleanUp = ch.cleanUp
      /\ e.process = ch.process /\ e.firstCmdId = ch.firstCmdId
      /\ e.instances = ch.instances /\ e.attached = ch.attached
      /\ e.created = ch.created /\ e.initialized = ch.initialized
      /\ e.detaching = ch.detaching /\ e.destroyed = ch.destroyed
      /\ e.restarts = ch.restarts
      /\ e.childQueue = ch.childQueue /\ e.methods = ch.methods
  BY <1>3 DEF Child
<1>7. Enqueued(e, ch, ms)
  BY <1>5, <1>6 DEF Enqueued, id, q
<1> QED BY <1>0, <1>7

\* A step that changes neither messages nor replies: it sends none.
Quiet ==
  /\ UNCHANGED <<toWorker, toParent, worker>>
  /\ child'.queue = child.queue /\ child'.childQueue = child.childQueue
  /\ child.cmdId <= child'.cmdId
  /\ child.attached \subseteq child'.attached
  /\ child.destroyed \subseteq child'.destroyed
  /\ child.registered \/ (~child'.registered /\ child'.instances \subseteq child.instances)
  /\ child'.process = child.process
  /\ child'.alive => child.alive
  /\ CanSend(child') => CanSend(child) /\ child'.initialized \subseteq child.initialized

\* A step that sends nothing keeps the invariant.
LEMMA QuietGood ==
  ASSUME IInv, TypeOK', LifeInv', AbortInv', CallsMade, Quiet,
         \A c \in Calls : calls'[c] # calls[c] => calls'[c].state = "rejected"
  PROVE  IInv'
<1> DEFINE new == <<>>
<1>1. /\ new \in Seq(Message) /\ Len(new) = 0 /\ toWorker \o new = toWorker
      /\ child.cmdId \in Nat
  BY EmptySeq, ConcatEmptySeq DEF IInv, TypeOK, Child
<1>2. ToSet(new) = {}
  BY ToSetEmpty
<1> HIDE DEF new
<1>3. Sends(new)
  <2>1. \A i : LetGo(child, i) => LetGo(child', i)
    BY DEF LetGo, Quiet
  <2> QED BY <1>1, <1>2, <2>1 DEF Sends, Quiet
<1>4. CanSend(child') => \A i \in child'.initialized : CanSend(child) /\ i \in child.initialized
  BY DEF Quiet
<1>5. \A k \in 1..Len(new) : FALSE
  BY <1>1
<1>6. \A c \in Calls : ~(calls'[c] # calls[c] /\ calls'[c].state = "pending")
  OBVIOUS
<1>7. child'.process = child.process /\ (child'.alive => child.alive)
  BY DEF Quiet
<1> QED BY <1>1, <1>3, <1>4, <1>5, <1>6, <1>7, SendGood

-----------------------------------------------------------------------------
(***************************************************************************)
(* The program's steps.                                                    *)
(***************************************************************************)
LEMMA IssueStep ==
  ASSUME IInv, NEW c \in Calls, NEW kind \in Kinds \ {"memory"}, NEW i \in Instances,
         Issue(c, kind, i)
  PROVE  IInv'
<1> DEFINE cmd == IF kind = "setter" THEN "SET" ELSE "FUNCTION"
           isMethod == IF kind = "method" THEN {c} ELSE {}
           ok == CanSend(child) /\ i \in child.initialized
<1>0. /\ TypeOK /\ LifeInv /\ AbortInv
      /\ child \in Child /\ calls \in [Calls -> Call] /\ toWorker \in Seq(Message)
      /\ child.cmdId \in Nat /\ child.process \in Nat /\ child.methods \subseteq Calls
  BY DEF IInv, TypeOK, Child
<1>1. /\ calls[c].state = "idle"
      /\ UNCHANGED <<toParent, worker, ops>>
      /\ \A d \in Calls : d # c => calls'[d] = calls[d]
      /\ calls'[c].state = IF ok THEN "pending" ELSE "rejected"
      /\ calls'[c].kind = kind /\ calls'[c].inst = i /\ calls'[c].cmdId = child.cmdId
      /\ calls'[c].process = child.process /\ calls'[c].runs = calls[c].runs
      /\ calls' \in [Calls -> Call]
  <2> DEFINE call == [calls[c] EXCEPT !.kind = kind, !.inst = i, !.cmdId = child.cmdId,
                                      !.process = child.process]
             state == IF ok THEN "pending" ELSE "rejected"
  <2>1. calls[c].state = "idle" /\ UNCHANGED <<toParent, worker, ops>>
    BY DEF Issue
  <2>2. calls' = [calls EXCEPT ![c] = [call EXCEPT !.state = state]]
    <3>1. CASE ok
      BY <3>1, Zenon DEF Issue
    <3>2. CASE ~ok
      BY <3>2, Zenon DEF Issue
    <3> QED BY <3>1, <3>2
  <2>3. calls[c] \in Call /\ kind \in Kinds \cup {"method"}
    BY <1>0
  <2>4. /\ state \in {"pending", "rejected"}
        /\ state = IF ok THEN "pending" ELSE "rejected"
    OBVIOUS
  <2> HIDE DEF state
  <2>5. /\ [call EXCEPT !.state = state] \in Call
        /\ [call EXCEPT !.state = state].state = state
        /\ [call EXCEPT !.state = state].kind = kind
        /\ [call EXCEPT !.state = state].inst = i
        /\ [call EXCEPT !.state = state].cmdId = child.cmdId
        /\ [call EXCEPT !.state = state].process = child.process
        /\ [call EXCEPT !.state = state].runs = calls[c].runs
    BY <1>0, <2>3, <2>4 DEF Call
  <2> HIDE DEF call, ok
  <2> QED BY <1>0, <2>1, <2>2, <2>4, <2>5
<1>2. CallsMade
  BY <1>1 DEF CallsMade
<1>3. CASE ok
  <2>0. NewMessage(cmd, child.cmdId, i, FALSE, {c}) \in Message
    BY <1>0 DEF NewMessage, Message
  <2>00. PICK m : m = NewMessage(cmd, child.cmdId, i, FALSE, {c})
    OBVIOUS
  <2>1. /\ m \in Message
        /\ m.cmd \in {"FUNCTION", "SET"} /\ m.cmdId = child.cmdId /\ m.inst = i /\ m.call = {c}
    BY <2>0, <2>00 DEF NewMessage
  <2>2. /\ <<m>> \in Seq(Message) /\ Len(<<m>>) = 1 /\ <<m>>[1] = m /\ ToSet(<<m>>) = {m}
    BY <2>1, OneElement
  <2>3. child' = [Enqueue(child, <<m>>) EXCEPT !.methods = @ \cup isMethod]
    BY <1>3, <2>00, Zenon DEF Issue
  <2>4. toWorker' = Append(toWorker, m)
    BY <1>3, <2>00, Zenon DEF Issue
  <2>5. /\ child' \in Child
        /\ child'.cmdId = child.cmdId + 1
        /\ child'.queue = child.queue \cup {m}
        /\ child'.childQueue = child.childQueue
        /\ child'.methods = child.methods \cup isMethod
        /\ child'.alive = child.alive /\ child'.isClosing = child.isClosing
        /\ child'.registered = child.registered /\ child'.restarts = child.restarts
        /\ child'.process = child.process
        /\ child'.instances = child.instances /\ child'.attached = child.attached
        /\ child'.initialized = child.initialized /\ child'.destroyed = child.destroyed
        /\ child'.detaching = child.detaching
    <3>0. PICK e : e = Enqueue(child, <<m>>)
      OBVIOUS
    <3>1. /\ e \in Child
          /\ e.cmdId = child.cmdId + 1
          /\ e.queue = child.queue \cup {m} /\ e.childQueue = child.childQueue
          /\ e.methods = child.methods
          /\ e.alive = child.alive /\ e.isClosing = child.isClosing
          /\ e.registered = child.registered /\ e.restarts = child.restarts
          /\ e.process = child.process
          /\ e.instances = child.instances /\ e.attached = child.attached
          /\ e.initialized = child.initialized /\ e.destroyed = child.destroyed
          /\ e.detaching = child.detaching
      <4>1. Enqueued(e, child, <<m>>)
        BY <1>0, <2>2, <3>0, EnqueueFields
      <4> QED BY <2>2, <4>1 DEF Enqueued
    <3>2. child' = [e EXCEPT !.methods = @ \cup isMethod]
      BY <2>3, <3>0
    <3>3. isMethod \subseteq Calls
      OBVIOUS
    <3> HIDE DEF isMethod
    <3> QED BY <1>0, <3>1, <3>2, <3>3 DEF Child
  <2>6. toWorker' \in Seq(Message) /\ toWorker' = toWorker \o <<m>>
    BY <1>0, <2>1, <2>4, AppendProperties, AppendIsConcat
  <2>7. TypeOK'
    BY <1>0, <1>1, <2>5, <2>6 DEF TypeOK
  <2>8. LifeInv'
    BY <1>0, <1>1, <1>3, <2>5 DEF LifeInv, CanSend
  <2>9. AbortInv'
    BY <1>0, <1>1, <1>3, <2>5 DEF AbortInv, CanSend, Pending
  <2>10. MessageInv(m)'
    <3>1. m.cmdId < child'.cmdId /\ m.inst \in child'.attached
      BY <1>0, <1>3, <2>1, <2>5 DEF LifeInv
    <3>2. /\ calls'[c].state # "idle" /\ calls'[c].cmdId = m.cmdId
          /\ calls'[c].kind # "memory" /\ calls'[c].inst = m.inst
      BY <1>1, <1>3, <2>1
    <3> QED BY <2>1, <3>1, <3>2 DEF MessageInv
  <2>11. \A d \in Calls : calls'[d] # calls[d] => m.call = {d}
    BY <1>1, <2>1
  <2>12. /\ CanSend(child) /\ m.inst \in child.initialized
         /\ UNCHANGED <<toParent, worker>>
         /\ child'.queue \cup child'.childQueue = child.queue \cup child.childQueue \cup {m}
    BY <1>1, <1>3, <2>1, <2>5
  <2> HIDE DEF ok
  <2> QED
    BY <1>2, <2>1, <2>4, <2>5, <2>7, <2>8, <2>9, <2>10, <2>11, <2>12, OneSendGood
<1>4. CASE ~ok
  <2>1. child' = IF CanSend(child) THEN [child EXCEPT !.cmdId = @ + 1] ELSE child
    BY <1>4, Zenon DEF Issue
  <2>2. toWorker' = toWorker
    BY <1>4, Zenon DEF Issue
  <2>3. /\ child' \in Child
        /\ child'.cmdId \in {child.cmdId, child.cmdId + 1}
        /\ child'.queue = child.queue
        /\ child'.childQueue = child.childQueue
        /\ child'.methods = child.methods
        /\ child'.alive = child.alive /\ child'.isClosing = child.isClosing
        /\ child'.registered = child.registered /\ child'.restarts = child.restarts
        /\ child'.process = child.process
        /\ child'.instances = child.instances /\ child'.attached = child.attached
        /\ child'.initialized = child.initialized /\ child'.destroyed = child.destroyed
        /\ child'.detaching = child.detaching
    <3>1. PICK id \in {child.cmdId, child.cmdId + 1} : child' = [child EXCEPT !.cmdId = id]
      <4>1. child = [child EXCEPT !.cmdId = child.cmdId]
        BY <1>0 DEF Child
      <4> QED BY <2>1, <4>1
    <3>2. id \in Nat
      BY <1>0
    <3> QED BY <1>0, <3>1, <3>2 DEF Child
  <2>4. TypeOK' /\ LifeInv'
    BY <1>0, <1>1, <2>2, <2>3 DEF TypeOK, LifeInv
  <2>5. AbortInv'
    BY <1>0, <1>1, <1>4, <2>3 DEF AbortInv, Pending
  <2>6. Quiet
    BY <1>0, <1>1, <2>2, <2>3 DEF Quiet, CanSend
  <2> QED BY <1>1, <1>2, <1>4, <2>4, <2>5, <2>6, QuietGood
<1> QED BY <1>3, <1>4

\* A request for the memory usage goes to the other queue of callbacks.
LEMMA AskMemoryStep ==
  ASSUME IInv, NEW c \in Calls, AskMemory(c)
  PROVE  IInv'
<1>0. /\ TypeOK /\ LifeInv /\ AbortInv
      /\ child \in Child /\ calls \in [Calls -> Call] /\ toWorker \in Seq(Message)
      /\ child.cmdId \in Nat /\ child.process \in Nat /\ calls[c] \in Call
      /\ calls[c].inst \in Instances /\ child.methods \subseteq Calls
  BY DEF IInv, TypeOK, Child, Call
<1> DEFINE ok == CanSend(child)
           state == IF ok THEN "pending" ELSE "rejected"
           call == [calls[c] EXCEPT !.kind = "memory", !.cmdId = child.cmdId,
                                    !.process = child.process]
<1>1. /\ calls[c].state = "idle"
      /\ UNCHANGED <<toParent, worker, ops>>
      /\ \A d \in Calls : d # c => calls'[d] = calls[d]
      /\ calls'[c].state = state /\ state \in {"pending", "rejected"}
      /\ calls'[c].kind = "memory" /\ calls'[c].cmdId = child.cmdId
      /\ calls'[c].process = child.process /\ calls'[c].runs = calls[c].runs
      /\ calls' \in [Calls -> Call]
  <2>1. calls[c].state = "idle" /\ UNCHANGED <<toParent, worker, ops>> /\ "memory" \in Kinds
    BY DEF AskMemory
  <2>2. calls' = [calls EXCEPT ![c] = [call EXCEPT !.state = state]]
    <3>1. CASE ok
      BY <3>1, Zenon DEF AskMemory
    <3>2. CASE ~ok
      BY <3>2, Zenon DEF AskMemory
    <3> QED BY <3>1, <3>2
  <2>3. state \in {"pending", "rejected"}
    OBVIOUS
  <2> HIDE DEF state
  <2>4. /\ [call EXCEPT !.state = state] \in Call
        /\ [call EXCEPT !.state = state].state = state
        /\ [call EXCEPT !.state = state].kind = "memory"
        /\ [call EXCEPT !.state = state].cmdId = child.cmdId
        /\ [call EXCEPT !.state = state].process = child.process
        /\ [call EXCEPT !.state = state].runs = calls[c].runs
    BY <1>0, <2>1, <2>3 DEF Call
  <2> HIDE DEF call
  <2> QED BY <1>0, <2>1, <2>2, <2>3, <2>4
<1>2. CallsMade
  BY <1>1 DEF CallsMade
<1>3. CASE ok
  <2>00. PICK m : m = NewMessage("GET_MEM_USAGE", child.cmdId, calls[c].inst, FALSE, {c})
    OBVIOUS
  <2>1. /\ m \in Message
        /\ m.cmd = "GET_MEM_USAGE" /\ m.cmdId = child.cmdId /\ m.call = {c}
    BY <1>0, <2>00 DEF NewMessage, Message
  <2>2. /\ child' = [child EXCEPT !.cmdId = @ + 1, !.childQueue = @ \cup {m}]
        /\ toWorker' = Append(toWorker, m)
    BY <1>3, <2>00, Zenon DEF AskMemory, Asked
  <2>3. /\ child' \in Child
        /\ child'.cmdId = child.cmdId + 1
        /\ child'.queue = child.queue
        /\ child'.childQueue = child.childQueue \cup {m}
        /\ child'.methods = child.methods
        /\ child'.alive = child.alive /\ child'.isClosing = child.isClosing
        /\ child'.registered = child.registered /\ child'.restarts = child.restarts
        /\ child'.process = child.process
        /\ child'.instances = child.instances /\ child'.attached = child.attached
        /\ child'.initialized = child.initialized /\ child'.destroyed = child.destroyed
        /\ child'.detaching = child.detaching
    <3> DEFINE q == child.childQueue \cup {m}
               id == child.cmdId + 1
    <3>1. q \in SUBSET Message /\ id \in Nat
      BY <1>0, <2>1 DEF Child
    <3>2. child' = [child EXCEPT !.cmdId = id, !.childQueue = q]
      BY <2>2
    <3> HIDE DEF q, id
    <3>3. /\ child' \in Child
          /\ child'.cmdId = id /\ child'.childQueue = q
          /\ child'.queue = child.queue
          /\ child'.methods = child.methods
          /\ child'.alive = child.alive /\ child'.isClosing = child.isClosing
          /\ child'.registered = child.registered /\ child'.restarts = child.restarts
          /\ child'.process = child.process
          /\ child'.instances = child.instances /\ child'.attached = child.attached
          /\ child'.initialized = child.initialized /\ child'.destroyed = child.destroyed
          /\ child'.detaching = child.detaching
      BY <1>0, <3>1, <3>2 DEF Child
    <3> QED BY <3>3 DEF q, id
  <2>4. toWorker' \in Seq(Message)
    BY <1>0, <2>1, <2>2, AppendProperties
  <2>5. TypeOK' /\ LifeInv'
    BY <1>0, <1>1, <1>3, <2>3, <2>4 DEF TypeOK, LifeInv, CanSend
  <2>6. AbortInv'
    BY <1>0, <1>1, <1>3, <2>3 DEF AbortInv, CanSend, Pending
  <2>7. MessageInv(m)'
    <3>1. m.cmdId < child'.cmdId
      BY <1>0, <2>1, <2>3
    <3>2. /\ calls'[c].state # "idle" /\ calls'[c].cmdId = m.cmdId
          /\ calls'[c].kind = "memory"
      BY <1>1, <1>3, <2>1
    <3> QED BY <2>1, <3>1, <3>2 DEF MessageInv
  <2>8. /\ \A d \in Calls : calls'[d] # calls[d] => m.call = {d}
        /\ UNCHANGED <<toParent, worker>>
        /\ child'.queue \cup child'.childQueue = child.queue \cup child.childQueue \cup {m}
        /\ \A n \in child'.childQueue : n \in child.childQueue \/ n.cmd = "GET_MEM_USAGE"
    BY <1>1, <2>1, <2>3
  <2> QED BY <1>2, <1>3, <2>1, <2>2, <2>3, <2>5, <2>6, <2>7, <2>8, OneSendGood
<1>4. CASE ~ok
  <2>1. UNCHANGED <<child, toWorker>>
    BY <1>4, Zenon DEF AskMemory
  <2>2. TypeOK' /\ LifeInv'
    BY <1>0, <1>1, <2>1 DEF TypeOK, LifeInv
  <2>3. AbortInv'
    BY <1>0, <1>1, <1>4, <2>1 DEF AbortInv, Pending
  <2>4. Quiet
    BY <1>0, <1>1, <2>1 DEF Quiet, CanSend
  <2> QED BY <1>1, <1>2, <1>4, <2>2, <2>3, <2>4, QuietGood
<1> QED BY <1>3, <1>4

\* The INITs to some instances are messages with the numbers that follow.
LEMMA InitsFields ==
  ASSUME NEW ch \in Child, NEW order \in Seq(Instances), NEW create \in BOOLEAN
  PROVE  LET ms == Inits(ch, order, create)
         IN /\ ms \in Seq(Message) /\ Len(ms) = Len(order)
            /\ \A k \in 1..Len(order) :
                 /\ ms[k].cmd = "INIT" /\ ms[k].cmdId = ch.cmdId + k - 1
                 /\ ms[k].inst = order[k] /\ ms[k].call = {}
<1> DEFINE ms == Inits(ch, order, create)
           n == Len(order)
<1>1. n \in Nat /\ DOMAIN order = 1..n /\ ch.cmdId \in Nat
  BY LenProperties DEF Child
<1>2. \A k \in 1..n : ms[k] = NewMessage("INIT", ch.cmdId + k - 1, order[k], create, {})
  BY <1>1 DEF Inits
<1>3. \A k \in 1..n : ms[k] \in Message
  <2> SUFFICES ASSUME NEW k \in 1..n PROVE ms[k] \in Message
    OBVIOUS
  <2>1. ch.cmdId + k - 1 \in Nat /\ order[k] \in Instances
    BY <1>1, ElementOfSeq
  <2> DEFINE id == ch.cmdId + k - 1
  <2>2. id \in Nat BY <2>1
  <2>3. ms[k] = NewMessage("INIT", id, order[k], create, {}) BY <1>2
  <2> HIDE DEF id, ms
  <2> QED BY <2>1, <2>2, <2>3 DEF NewMessage, Message
<1>4. ms \in [1..n -> Message]
  BY <1>1, <1>3 DEF Inits
<1>5. ms \in Seq(Message) /\ DOMAIN ms = 1..n
  BY <1>1, <1>4
<1>6. Len(ms) = n
  BY <1>1, <1>5, LenProperties
<1> HIDE DEF ms
<1> QED BY <1>2, <1>5, <1>6 DEF NewMessage, ms

\* A step that sends INITs.
LEMMA InitsGood ==
  ASSUME IInv, TypeOK', LifeInv', AbortInv', UNCHANGED <<calls, toParent, worker>>,
         NEW order \in Seq(Instances), NEW create \in BOOLEAN,
         NEW ch \in Child, ch.cmdId = child.cmdId,
         NEW new, new = Inits(ch, order, create),
         toWorker' = toWorker \o new,
         child'.cmdId = child.cmdId + Len(new),
         child'.queue = child.queue \cup ToSet(new), child'.childQueue = child.childQueue,
         child.attached \subseteq child'.attached, child.destroyed \subseteq child'.destroyed,
         \A i : LetGo(child, i) => LetGo(child', i),
         ToSet(order) \subseteq child'.attached,
         CanSend(child') => \A i \in child'.initialized :
           \/ CanSend(child) /\ i \in child.initialized
           \/ i \in child'.destroyed \/ LetGo(child', i)
           \/ i \in ToSet(order),
         \/ child'.process = child.process /\ (child'.alive => child.alive)
         \/ child'.process = child.process + 1
  PROVE  IInv'
<1>1. /\ new \in Seq(Message) /\ Len(new) = Len(order)
      /\ \A k \in 1..Len(new) :
           /\ new[k].cmd = "INIT" /\ new[k].cmdId = child.cmdId + k - 1
           /\ new[k].inst = order[k] /\ new[k].call = {}
  BY InitsFields
<1>2. child.cmdId \in Nat /\ Len(order) \in Nat /\ DOMAIN order = 1..Len(order)
  BY LenProperties DEF IInv, TypeOK, Child
<1>3. CallsMade
  BY DEF CallsMade
<1>4. Sends(new)
  <2>1. \A k \in 1..Len(new) : new[k].cmdId = child.cmdId + k - 1 /\ MessageInv(new[k])'
    <3> SUFFICES ASSUME NEW k \in 1..Len(new) PROVE MessageInv(new[k])'
      BY <1>1
    <3>1. new[k].cmdId < child'.cmdId
      BY <1>1, <1>2
    <3>2. new[k].inst \in child'.attached
      <4>1. k \in DOMAIN order /\ new[k].inst = order[k]
        BY <1>1, <1>2
      <4>2. order[k] \in ToSet(order)
        BY <4>1 DEF ToSet
      <4> QED BY <4>1, <4>2
    <3> QED BY <1>1, <3>1, <3>2 DEF MessageInv
  <2> QED BY <1>1, <1>2, <2>1 DEF Sends
<1>5. CanSend(child') => \A i \in child'.initialized :
        \/ CanSend(child) /\ i \in child.initialized
        \/ i \in child'.destroyed \/ LetGo(child', i)
        \/ \E k \in 1..Len(new) : new[k].cmd = "INIT" /\ new[k].inst = i
  <2>1. ASSUME NEW i \in ToSet(order)
        PROVE  \E k \in 1..Len(new) : new[k].cmd = "INIT" /\ new[k].inst = i
    <3>1. PICK k \in 1..Len(order) : order[k] = i
      BY <1>2 DEF ToSet
    <3>2. k \in 1..Len(new) /\ new[k].cmd = "INIT" /\ new[k].inst = i
      BY <1>1, <3>1
    <3> QED BY <3>2
  <2> QED BY <2>1
<1>6. \A k \in 1..Len(new) : new[k].cmd \notin {"FUNCTION", "SET"}
  BY <1>1
<1> QED BY <1>1, <1>3, <1>4, <1>5, <1>6, SendGood

\* threadedClass() sends the INIT of the new instance, or only adds it.
LEMMA AttachStep ==
  ASSUME IInv, NEW i \in Instances, Attach(i)
  PROVE  IInv'
<1>00. PICK ch : ch = [child EXCEPT !.instances = @ \cup {i}, !.attached = @ \cup {i},
                                    !.initialized = @ \cup {i}]
  OBVIOUS
<1>0. /\ TypeOK /\ LifeInv /\ AbortInv
      /\ child \in Child /\ toWorker \in Seq(Message)
      /\ child.cmdId \in Nat
      /\ child.registered
      /\ UNCHANGED <<calls, toParent, worker, ops>>
  BY DEF IInv, TypeOK, Child, Attach
<1>1. /\ ch \in Child
      /\ ch.cmdId = child.cmdId /\ ch.queue = child.queue /\ ch.childQueue = child.childQueue
      /\ ch.methods = child.methods
      /\ ch.alive = child.alive /\ ch.isClosing = child.isClosing
      /\ ch.registered = child.registered /\ ch.restarts = child.restarts
      /\ ch.process = child.process
      /\ ch.instances = child.instances \cup {i} /\ ch.attached = child.attached \cup {i}
      /\ ch.initialized = child.initialized \cup {i} /\ ch.destroyed = child.destroyed
      /\ ch.detaching = child.detaching
  BY <1>0, <1>00 DEF Child
<1>2. CASE CanSend(child)
  <2>1. PICK new : new = Inits(ch, <<i>>, TRUE)
    OBVIOUS
  <2>2. child' = Enqueue(ch, new) /\ toWorker' = toWorker \o new
    BY <1>00, <1>2, <2>1, Zenon DEF Attach
  <2>3. /\ <<i>> \in Seq(Instances) /\ Len(<<i>>) = 1 /\ <<i>>[1] = i
    OBVIOUS
  <2>4. ToSet(<<i>>) = {i}
    BY <2>3, LenProperties DEF ToSet
  <2>5. new \in Seq(Message) /\ Len(new) = 1
    BY <1>1, <2>1, <2>3, InitsFields
  <2>6. /\ child' \in Child
        /\ child'.cmdId = child.cmdId + Len(new)
        /\ child'.queue = child.queue \cup ToSet(new) /\ child'.childQueue = child.childQueue
        /\ child'.methods = child.methods
        /\ child'.alive = child.alive /\ child'.isClosing = child.isClosing
        /\ child'.registered = child.registered /\ child'.restarts = child.restarts
        /\ child'.process = child.process
        /\ child'.instances = child.instances \cup {i} /\ child'.attached = child.attached \cup {i}
        /\ child'.initialized = child.initialized \cup {i} /\ child'.destroyed = child.destroyed
        /\ child'.detaching = child.detaching
    <3>1. /\ child' \in Child
          /\ child'.cmdId = ch.cmdId + Len(new)
          /\ child'.queue = ch.queue \cup ToSet(new) /\ child'.childQueue = ch.childQueue
          /\ child'.methods = ch.methods
          /\ child'.alive = ch.alive /\ child'.isClosing = ch.isClosing
          /\ child'.registered = ch.registered /\ child'.restarts = ch.restarts
          /\ child'.process = ch.process
          /\ child'.instances = ch.instances /\ child'.attached = ch.attached
          /\ child'.initialized = ch.initialized /\ child'.destroyed = ch.destroyed
          /\ child'.detaching = ch.detaching
      <4>1. Enqueued(child', ch, new)
        BY <1>1, <2>2, <2>5, EnqueueFields
      <4> QED BY <4>1 DEF Enqueued
    <3> QED BY <1>1, <3>1
  <2>7. toWorker' \in Seq(Message)
    BY <1>0, <2>2, <2>5, ConcatProperties
  <2>8. TypeOK' /\ LifeInv'
    BY <1>0, <1>2, <2>6, <2>7 DEF TypeOK, LifeInv, CanSend
  <2>9. AbortInv'
    BY <1>0, <2>6 DEF AbortInv, Pending
  <2>10. /\ CanSend(child') => \A j \in child'.initialized :
              \/ CanSend(child) /\ j \in child.initialized
              \/ j \in ToSet(<<i>>)
         /\ child'.process = child.process /\ (child'.alive => child.alive)
         /\ ToSet(<<i>>) \subseteq child'.attached
         /\ child.attached \subseteq child'.attached
         /\ child.destroyed \subseteq child'.destroyed
         /\ \A j : LetGo(child, j) => LetGo(child', j)
    BY <1>0, <1>2, <2>4, <2>6 DEF LetGo
  <2> QED BY <1>0, <1>1, <2>1, <2>2, <2>3, <2>6, <2>8, <2>9, <2>10, InitsGood
<1>3. CASE ~CanSend(child)
  <2>1. child' = ch /\ toWorker' = toWorker
    BY <1>00, <1>3, Zenon DEF Attach
  <2>2. TypeOK' /\ LifeInv'
    BY <1>0, <1>1, <2>1 DEF TypeOK, LifeInv
  <2>3. AbortInv'
    BY <1>0, <1>1, <2>1 DEF AbortInv, Pending
  <2>4. Quiet
    BY <1>0, <1>1, <1>3, <2>1 DEF Quiet, CanSend
  <2> QED BY <1>0, <2>2, <2>3, <2>4, QuietGood DEF CallsMade
<1> QED BY <1>2, <1>3

\* The three ways of killProxy: the whole child, with a message, or at once.
LEMMA DestroyStep ==
  ASSUME IInv, NEW i \in Instances, Destroy(i)
  PROVE  IInv'
<1>0. /\ TypeOK /\ LifeInv /\ AbortInv
      /\ child \in Child /\ toWorker \in Seq(Message)
      /\ child.cmdId \in Nat /\ ops + 1 \in Nat
      /\ child.registered /\ i \in child.instances
      /\ UNCHANGED <<calls, toParent, worker>> /\ ops' = ops + 1
  BY DEF IInv, TypeOK, Child, Destroy, Op
<1>1. CallsMade
  BY <1>0 DEF CallsMade
<1>2. CASE /\ child.instances = {i}
           /\ child' = IF child.alive
                       THEN [child EXCEPT !.destroyed = @ \cup {i}, !.isClosing = TRUE, !.cleanUp = TRUE]
                       ELSE [child EXCEPT !.destroyed = @ \cup {i}, !.registered = FALSE, !.isClosing = FALSE]
           /\ UNCHANGED toWorker
  <2>1. /\ child' \in Child
        /\ child'.cmdId = child.cmdId /\ child'.queue = child.queue
        /\ child'.childQueue = child.childQueue /\ child'.methods = child.methods
        /\ child'.alive = child.alive
        /\ child'.alive => child'.isClosing /\ child'.registered
        /\ child'.process = child.process /\ child'.instances = child.instances
        /\ child'.attached = child.attached /\ child'.initialized = child.initialized
        /\ child'.destroyed = child.destroyed \cup {i} /\ child'.detaching = child.detaching
    BY <1>0, <1>2 DEF Child
  <2>2. TypeOK' /\ LifeInv'
    BY <1>0, <1>2, <2>1 DEF TypeOK, LifeInv
  <2>3. AbortInv'
    BY <1>0, <2>1 DEF AbortInv, Pending
  <2>4. Quiet
    BY <1>0, <1>2, <2>1 DEF Quiet, CanSend
  <2> QED BY <1>0, <1>1, <2>2, <2>3, <2>4, QuietGood
<1>3. CASE /\ child.instances # {i}
           /\ CanSend(child) /\ i \in child.initialized
           /\ child' = [Enqueue([child EXCEPT !.destroyed = @ \cup {i}],
                                <<NewMessage("KILL", child.cmdId, i, FALSE, {})>>)
                         EXCEPT !.detaching = @ \cup {i}]
           /\ toWorker' = Append(toWorker, NewMessage("KILL", child.cmdId, i, FALSE, {}))
  <2>1. PICK m : m = NewMessage("KILL", child.cmdId, i, FALSE, {})
    OBVIOUS
  <2>2. m \in Message /\ m.cmd = "KILL" /\ m.cmdId = child.cmdId /\ m.inst = i /\ m.call = {}
    BY <1>0, <2>1 DEF NewMessage, Message
  <2>3. <<m>> \in Seq(Message) /\ Len(<<m>>) = 1 /\ ToSet(<<m>>) = {m}
    BY <2>2, OneElement
  <2> DEFINE ch == [child EXCEPT !.destroyed = @ \cup {i}]
  <2>0. PICK e : e = Enqueue(ch, <<m>>)
    OBVIOUS
  <2>4. /\ ch \in Child
        /\ ch.cmdId = child.cmdId /\ ch.queue = child.queue
        /\ ch.childQueue = child.childQueue /\ ch.methods = child.methods
        /\ ch.alive = child.alive /\ ch.isClosing = child.isClosing
        /\ ch.registered = child.registered /\ ch.restarts = child.restarts
        /\ ch.process = child.process /\ ch.instances = child.instances
        /\ ch.attached = child.attached /\ ch.initialized = child.initialized
        /\ ch.destroyed = child.destroyed \cup {i} /\ ch.detaching = child.detaching
    BY <1>0 DEF Child
  <2> HIDE DEF ch
  <2>5. /\ e \in Child
        /\ e.cmdId = child.cmdId + 1 /\ e.queue = child.queue \cup {m}
        /\ e.childQueue = child.childQueue /\ e.methods = child.methods
        /\ e.alive = child.alive /\ e.isClosing = child.isClosing
        /\ e.registered = child.registered /\ e.restarts = child.restarts
        /\ e.process = child.process /\ e.instances = child.instances
        /\ e.attached = child.attached /\ e.initialized = child.initialized
        /\ e.destroyed = child.destroyed \cup {i} /\ e.detaching = child.detaching
    <3>1. /\ e \in Child
          /\ e.cmdId = ch.cmdId + 1 /\ e.queue = ch.queue \cup {m}
          /\ e.childQueue = ch.childQueue /\ e.methods = ch.methods
          /\ e.alive = ch.alive /\ e.isClosing = ch.isClosing
          /\ e.registered = ch.registered /\ e.restarts = ch.restarts
          /\ e.process = ch.process /\ e.instances = ch.instances
          /\ e.attached = ch.attached /\ e.initialized = ch.initialized
          /\ e.destroyed = ch.destroyed /\ e.detaching = ch.detaching
      <4>1. Enqueued(e, ch, <<m>>)
        BY <2>0, <2>3, <2>4, EnqueueFields
      <4> QED BY <2>3, <4>1 DEF Enqueued
    <3> QED BY <2>4, <3>1
  <2>6. child' = [e EXCEPT !.detaching = @ \cup {i}]
    BY <1>3, <2>0, <2>1 DEF ch
  <2>7. /\ child' \in Child
        /\ child'.cmdId = child.cmdId + 1 /\ child'.queue = child.queue \cup {m}
        /\ child'.childQueue = child.childQueue /\ child'.methods = child.methods
        /\ child'.alive = child.alive /\ child'.isClosing = child.isClosing
        /\ child'.registered = child.registered /\ child'.restarts = child.restarts
        /\ child'.process = child.process /\ child'.instances = child.instances
        /\ child'.attached = child.attached /\ child'.initialized = child.initialized
        /\ child'.destroyed = child.destroyed \cup {i}
        /\ child'.detaching = child.detaching \cup {i}
    BY <2>5, <2>6 DEF Child
  <2>8. toWorker' = Append(toWorker, m) /\ toWorker' \in Seq(Message)
    BY <1>0, <1>3, <2>1, <2>2, AppendProperties
  <2>9. TypeOK' /\ LifeInv'
    BY <1>0, <1>3, <2>7, <2>8 DEF TypeOK, LifeInv, CanSend
  <2>10. AbortInv'
    BY <1>0, <2>7 DEF AbortInv, Pending
  <2>11. MessageInv(m)'
    <3>1. m.cmdId < child'.cmdId /\ m.inst \in child'.attached /\ m.inst \in child'.destroyed
      BY <1>0, <2>2, <2>7 DEF LifeInv
    <3> QED BY <2>2, <3>1 DEF MessageInv
  <2>12. /\ child'.queue \cup child'.childQueue = child.queue \cup child.childQueue \cup {m}
         /\ child.destroyed \subseteq child'.destroyed
         /\ UNCHANGED <<toParent, worker>>
         /\ CanSend(child) /\ ~(m.cmd \in {"FUNCTION", "SET"})
         /\ \A c \in Calls : calls'[c] = calls[c]
    BY <1>0, <1>3, <2>2, <2>7
  <2> QED BY <1>1, <2>2, <2>7, <2>8, <2>9, <2>10, <2>11, <2>12, OneSendGood
<1>4. CASE /\ child.instances # {i}
           /\ ~(CanSend(child) /\ i \in child.initialized)
           /\ child' = [child EXCEPT !.destroyed = @ \cup {i}, !.instances = @ \ {i},
                                     !.cmdId = IF CanSend(child) THEN @ + 1 ELSE @]
           /\ UNCHANGED toWorker
  <2>1. /\ child' \in Child
        /\ child'.cmdId \in {child.cmdId, child.cmdId + 1} /\ child'.queue = child.queue
        /\ child'.childQueue = child.childQueue /\ child'.methods = child.methods
        /\ child'.alive = child.alive /\ child'.isClosing = child.isClosing
        /\ child'.registered = child.registered /\ child'.restarts = child.restarts
        /\ child'.process = child.process /\ child'.instances = child.instances \ {i}
        /\ child'.attached = child.attached /\ child'.initialized = child.initialized
        /\ child'.destroyed = child.destroyed \cup {i} /\ child'.detaching = child.detaching
    <3> DEFINE id == IF CanSend(child) THEN child.cmdId + 1 ELSE child.cmdId
    <3>1. id \in Nat /\ id \in {child.cmdId, child.cmdId + 1}
      BY <1>0
    <3>2. child' = [child EXCEPT !.destroyed = @ \cup {i}, !.instances = @ \ {i}, !.cmdId = id]
      BY <1>4
    <3> HIDE DEF id
    <3> QED BY <1>0, <3>1, <3>2 DEF Child
  <2>2. TypeOK' /\ LifeInv'
    BY <1>0, <1>4, <2>1 DEF TypeOK, LifeInv
  <2>3. AbortInv'
    BY <1>0, <2>1 DEF AbortInv, Pending
  <2>4. Quiet
    BY <1>0, <1>4, <2>1 DEF Quiet, CanSend
  <2> QED BY <1>0, <1>1, <2>2, <2>3, <2>4, QuietGood
<1> QED BY <1>2, <1>3, <1>4, Zenon DEF Destroy

\* The instance goes even though its KILL was not answered.
LEMMA DetachTimeoutStep ==
  ASSUME IInv, DetachTimeout
  PROVE  IInv'
<1>0. /\ TypeOK /\ LifeInv /\ AbortInv
      /\ child \in Child /\ child.cmdId \in Nat
      /\ UNCHANGED <<calls, toWorker, toParent, worker, ops>>
  BY DEF IInv, TypeOK, Child, DetachTimeout
<1>1. PICK i \in child.detaching :
        child' = [child EXCEPT !.detaching = @ \ {i}, !.instances = @ \ {i}]
  BY DEF DetachTimeout
<1>2. /\ child' \in Child
      /\ child'.cmdId = child.cmdId /\ child'.queue = child.queue
      /\ child'.childQueue = child.childQueue /\ child'.methods = child.methods
      /\ child'.alive = child.alive /\ child'.isClosing = child.isClosing
      /\ child'.registered = child.registered /\ child'.restarts = child.restarts
      /\ child'.process = child.process /\ child'.instances = child.instances \ {i}
      /\ child'.attached = child.attached /\ child'.initialized = child.initialized
      /\ child'.destroyed = child.destroyed /\ child'.detaching = child.detaching \ {i}
  BY <1>0, <1>1 DEF Child
<1>3. TypeOK' /\ LifeInv'
  BY <1>0, <1>1, <1>2 DEF TypeOK, LifeInv
<1>4. AbortInv'
  BY <1>0, <1>2 DEF AbortInv, Pending
<1>5. Quiet
  BY <1>0, <1>2 DEF Quiet, CanSend
<1> QED BY <1>0, <1>3, <1>4, <1>5, QuietGood DEF CallsMade

\* An order of some instances is a sequence of them.
LEMMA OrdersTyped ==
  ASSUME NEW S \in SUBSET Instances, NEW order \in Orders(S)
  PROVE  order \in Seq(Instances) /\ ToSet(order) \subseteq S
<1>1. PICK n \in 1..Cardinality(S) : order \in [1..n -> S]
  BY DEF Orders
<1>2. n \in Nat
  BY <1>1
<1>3. order \in Seq(S)
  BY <1>1, <1>2
<1> QED BY <1>3, SeqMonotonic, ToSetTyped

\* A restart that begins to wait has instances of the child.
LEMMA ForcedFields ==
  ASSUME NEW ch \in Child, NEW e \in Forced(ch), NEW S, ch.instances \subseteq S,
         \A k \in DOMAIN ch.restarts : ToSet(ch.restarts[k]) \subseteq S
  PROVE  /\ e \in Child
         /\ e.cmdId = ch.cmdId /\ e.queue = ch.queue
         /\ e.childQueue = ch.childQueue /\ e.methods = ch.methods
         /\ e.alive = ch.alive /\ e.isClosing /\ e.registered = ch.registered
         /\ e.process = ch.process /\ e.firstCmdId = ch.firstCmdId
         /\ e.instances = ch.instances /\ e.attached = ch.attached
         /\ e.created = ch.created /\ e.initialized = ch.initialized
         /\ e.destroyed = ch.destroyed /\ e.detaching = ch.detaching
         /\ \A k \in DOMAIN e.restarts : ToSet(e.restarts[k]) \subseteq S
<1>1. PICK order \in Orders(ch.instances) :
        e = [ch EXCEPT !.isClosing = TRUE, !.restarts = Append(@, order)]
  BY DEF Forced
<1> DEFINE waiting == ch.restarts
           longer == Append(waiting, order)
<1>2. order \in Seq(Instances) /\ ToSet(order) \subseteq S /\ waiting \in Seq(Seq(Instances))
  <2>1. ch.instances \in SUBSET Instances /\ waiting \in Seq(Seq(Instances))
    BY DEF Child
  <2> QED BY <2>1, OrdersTyped
<1>3. /\ longer \in Seq(Seq(Instances))
      /\ DOMAIN longer = 1..(Len(waiting) + 1) /\ DOMAIN waiting = 1..Len(waiting)
      /\ Len(waiting) \in Nat
      /\ \A k \in 1..Len(waiting) : longer[k] = waiting[k]
      /\ longer[Len(waiting) + 1] = order
  BY <1>2, AppendProperties, LenProperties
<1>4. \A k \in DOMAIN longer : ToSet(longer[k]) \subseteq S
  <2> SUFFICES ASSUME NEW k \in DOMAIN longer PROVE ToSet(longer[k]) \subseteq S
    OBVIOUS
  <2>1. k \in 1..Len(waiting) \/ k = Len(waiting) + 1
    BY <1>3
  <2> QED BY <1>2, <1>3, <2>1
<1>5. e = [ch EXCEPT !.isClosing = TRUE, !.restarts = longer]
  BY <1>1
<1> HIDE DEF longer
<1> QED BY <1>3, <1>4, <1>5 DEF Child

\* The restarts that go on waiting when the first one does not.
LEMMA TailWaits ==
  ASSUME NEW waiting \in Seq(Seq(Instances)), waiting # <<>>, NEW S,
         \A k \in DOMAIN waiting : ToSet(waiting[k]) \subseteq S
  PROVE  /\ Head(waiting) \in Seq(Instances) /\ ToSet(Head(waiting)) \subseteq S
         /\ Tail(waiting) \in Seq(Seq(Instances))
         /\ \A k \in DOMAIN Tail(waiting) : ToSet(Tail(waiting)[k]) \subseteq S
<1>1. /\ Len(waiting) \in Nat /\ Len(waiting) > 0 /\ DOMAIN waiting = 1..Len(waiting)
      /\ Head(waiting) = waiting[1] /\ Tail(waiting) \in Seq(Seq(Instances))
      /\ DOMAIN Tail(waiting) = 1..(Len(waiting) - 1)
      /\ \A k \in 1..(Len(waiting) - 1) : Tail(waiting)[k] = waiting[k + 1]
  BY HeadTailProperties, LenProperties, EmptySeq
<1>2. Head(waiting) \in Seq(Instances) /\ ToSet(Head(waiting)) \subseteq S
  BY <1>1, ElementOfSeq
<1>3. ASSUME NEW k \in DOMAIN Tail(waiting)
      PROVE  ToSet(Tail(waiting)[k]) \subseteq S
  <2>1. k + 1 \in DOMAIN waiting /\ Tail(waiting)[k] = waiting[k + 1]
    BY <1>1
  <2> QED BY <2>1
<1> QED BY <1>1, <1>2, <1>3

\* What killing and letting go may change.
Marks ==
  /\ child' \in Child
  /\ child'.cmdId = child.cmdId /\ child'.queue = child.queue
  /\ child'.childQueue = child.childQueue /\ child'.methods = child.methods
  /\ child'.alive = child.alive /\ (child.isClosing => child'.isClosing)
  /\ child'.registered => child.registered
  /\ child'.process = child.process /\ child'.firstCmdId = child.firstCmdId
  /\ child'.instances = child.instances /\ child'.attached = child.attached
  /\ child'.created = child.created /\ child'.initialized = child.initialized
  /\ child'.destroyed = child.destroyed /\ child'.detaching = child.detaching
  /\ \A k \in DOMAIN child'.restarts : ToSet(child'.restarts[k]) \subseteq child'.attached
  /\ UNCHANGED <<calls, toWorker, toParent, worker>>
  /\ ops' \in Nat

LEMMA MarksGood ==
  ASSUME IInv, Marks
  PROVE  IInv'
<1>0. TypeOK /\ LifeInv /\ AbortInv /\ child.cmdId \in Nat
  BY DEF IInv, TypeOK, Child
<1>1. TypeOK' /\ LifeInv'
  BY <1>0 DEF TypeOK, LifeInv, Marks
<1>2. AbortInv'
  BY <1>0 DEF AbortInv, Pending, Marks
<1>3. Quiet /\ calls' = calls
  BY <1>0 DEF Quiet, CanSend, Marks
<1> QED BY <1>1, <1>2, <1>3, QuietGood DEF CallsMade

\* killChild marks the child, or lets go of it if its process is gone.
LEMMA KillChildMarks ==
  ASSUME IInv, NEW cleanUp \in BOOLEAN, KillChild(cleanUp)
  PROVE  Marks
<1>0. /\ LifeInv /\ child \in Child /\ ops' \in Nat
      /\ UNCHANGED <<calls, toWorker, toParent, worker>>
  BY DEF IInv, TypeOK, KillChild, Op
<1>1. CASE child' = [child EXCEPT !.isClosing = TRUE, !.cleanUp = @ \/ cleanUp]
  BY <1>0, <1>1 DEF Marks, LifeInv, Child
<1>2. CASE child' = [child EXCEPT !.registered = FALSE]
  BY <1>0, <1>2 DEF Marks, LifeInv, Child
<1> QED BY <1>1, <1>2 DEF KillChild

LEMMA ForceRestartMarks ==
  ASSUME IInv, ForceRestart
  PROVE  Marks
<1>0. /\ LifeInv /\ child \in Child /\ ops' \in Nat /\ child' \in Forced(child)
      /\ UNCHANGED <<calls, toWorker, toParent, worker>>
  BY DEF IInv, TypeOK, ForceRestart, Op
<1>1. /\ child.instances \subseteq child.attached
      /\ \A k \in DOMAIN child.restarts : ToSet(child.restarts[k]) \subseteq child.attached
  BY <1>0 DEF LifeInv
<1>2. \A k \in DOMAIN child'.restarts : ToSet(child'.restarts[k]) \subseteq child.attached
  BY <1>0, <1>1, ForcedFields
<1> QED BY <1>0, <1>1, <1>2, ForcedFields DEF Marks

LEMMA KillTimeoutMarks ==
  ASSUME IInv, KillTimeout
  PROVE  Marks
<1>0. /\ LifeInv /\ child \in Child /\ ops' \in Nat
      /\ UNCHANGED <<calls, toWorker, toParent, worker>>
  BY DEF IInv, TypeOK, KillTimeout
<1> DEFINE waiting == child.restarts
<1>1. waiting \in Seq(Seq(Instances)) /\ \A k \in DOMAIN waiting : ToSet(waiting[k]) \subseteq child.attached
  BY <1>0 DEF Child, LifeInv
<1>2. CASE waiting # <<>> /\ child' = [child EXCEPT !.restarts = Tail(waiting)]
  <2>1. /\ Tail(waiting) \in Seq(Seq(Instances))
        /\ \A k \in DOMAIN Tail(waiting) : ToSet(Tail(waiting)[k]) \subseteq child.attached
    BY <1>1, <1>2, TailWaits
  <2> QED BY <1>0, <1>2, <2>1 DEF Marks, Child
<1>3. CASE child' = [child EXCEPT !.registered = FALSE]
  BY <1>0, <1>1, <1>3 DEF Marks, Child
<1> QED BY <1>2, <1>3 DEF KillTimeout

-----------------------------------------------------------------------------
(***************************************************************************)
(* The process starts and ends.                                            *)
(***************************************************************************)
\* A fork drops the instances from the initialised ones, and INITs follow.
LEMMA RestartFields ==
  ASSUME IInv, NEW rest \in Seq(Seq(Instances)), NEW order \in Seq(Instances),
         \A k \in DOMAIN rest : ToSet(rest[k]) \subseteq child.attached,
         ToSet(order) \subseteq child.attached,
         Restart([child EXCEPT !.restarts = rest], order),
         UNCHANGED <<calls, toParent, worker>>, ops' \in Nat
  PROVE  \E ch \in Child, new \in Seq(Message) :
           /\ new = Inits(ch, order, FALSE)
           /\ ch.cmdId = child.cmdId
           /\ IF child.alive
              THEN /\ child'.process = child.process /\ child'.firstCmdId = child.firstCmdId
                   /\ child'.initialized = child.initialized \cup ToSet(order)
              ELSE /\ child'.process = child.process + 1 /\ child'.firstCmdId = child.cmdId
                   /\ child'.initialized = (child.initialized \ child.instances) \cup ToSet(order)
           /\ child' \in Child
           /\ child'.cmdId = child.cmdId + Len(new) /\ child'.queue = child.queue \cup ToSet(new)
           /\ child'.childQueue = child.childQueue /\ child'.methods = child.methods
           /\ child'.alive /\ child'.isClosing = child.isClosing
           /\ child'.registered = child.registered /\ child'.restarts = rest
           /\ child'.instances = child.instances /\ child'.attached = child.attached
           /\ child'.destroyed = child.destroyed /\ child'.detaching = child.detaching
           /\ toWorker' = toWorker \o new /\ toWorker' \in Seq(Message)
<1>0. /\ TypeOK /\ LifeInv /\ AbortInv
      /\ child \in Child /\ toWorker \in Seq(Message)
      /\ child.cmdId \in Nat /\ child.process \in Nat
      /\ child.instances \subseteq Instances
  BY DEF IInv, TypeOK, Child
<1> DEFINE Waiting == [child EXCEPT !.restarts = rest]
           Forked == [Waiting EXCEPT !.alive = TRUE, !.process = @ + 1,
                                     !.firstCmdId = Waiting.cmdId,
                                     !.initialized = @ \ Waiting.instances]
           Base == IF Waiting.alive THEN Waiting ELSE Forked
<1>1. /\ child' = [Enqueue(Base, Inits(Base, order, FALSE))
                     EXCEPT !.initialized = @ \cup ToSet(order)]
      /\ toWorker' = toWorker \o Inits(Base, order, FALSE)
  BY DEF Restart
<1>2. PICK ch : ch = Base
  OBVIOUS
<1>3. /\ Waiting \in Child
      /\ Waiting.cmdId = child.cmdId /\ Waiting.queue = child.queue
      /\ Waiting.childQueue = child.childQueue /\ Waiting.methods = child.methods
      /\ Waiting.alive = child.alive /\ Waiting.isClosing = child.isClosing
      /\ Waiting.registered = child.registered /\ Waiting.restarts = rest
      /\ Waiting.process = child.process /\ Waiting.firstCmdId = child.firstCmdId
      /\ Waiting.instances = child.instances /\ Waiting.attached = child.attached
      /\ Waiting.initialized = child.initialized
      /\ Waiting.destroyed = child.destroyed /\ Waiting.detaching = child.detaching
  BY <1>0 DEF Child
<1> HIDE DEF Waiting
<1>4. /\ ch \in Child
      /\ ch.cmdId = child.cmdId /\ ch.queue = child.queue
      /\ ch.childQueue = child.childQueue /\ ch.methods = child.methods
      /\ ch.alive /\ ch.isClosing = child.isClosing
      /\ ch.registered = child.registered /\ ch.restarts = rest
      /\ ch.instances = child.instances /\ ch.attached = child.attached
      /\ ch.destroyed = child.destroyed /\ ch.detaching = child.detaching
      /\ child.alive => /\ ch.process = child.process /\ ch.initialized = child.initialized
                        /\ ch.firstCmdId = child.firstCmdId
      /\ ~child.alive => /\ ch.process = child.process + 1 /\ ch.firstCmdId = child.cmdId
                         /\ ch.initialized = child.initialized \ child.instances
  <2>1. CASE Waiting.alive
    BY <1>2, <1>3, <2>1
  <2>2. CASE ~Waiting.alive
    <3> DEFINE p == Waiting.process + 1
               id == Waiting.cmdId
               initialized == Waiting.initialized \ Waiting.instances
    <3>1. p \in Nat /\ initialized \in SUBSET Instances /\ id \in Nat
      BY <1>0, <1>3 DEF Child
    <3>2. ch = [Waiting EXCEPT !.alive = TRUE, !.process = p, !.firstCmdId = id,
                               !.initialized = initialized]
      BY <1>2, <2>2
    <3>3. /\ p = child.process + 1 /\ initialized = child.initialized \ child.instances
          /\ id = child.cmdId
      BY <1>3
    <3> HIDE DEF p, initialized, id
    <3>4. /\ ch \in Child
          /\ ch.cmdId = Waiting.cmdId /\ ch.queue = Waiting.queue
          /\ ch.childQueue = Waiting.childQueue /\ ch.methods = Waiting.methods
          /\ ch.alive /\ ch.isClosing = Waiting.isClosing
          /\ ch.registered = Waiting.registered /\ ch.restarts = Waiting.restarts
          /\ ch.instances = Waiting.instances /\ ch.attached = Waiting.attached
          /\ ch.destroyed = Waiting.destroyed /\ ch.detaching = Waiting.detaching
          /\ ch.process = p /\ ch.initialized = initialized /\ ch.firstCmdId = id
      BY <1>3, <3>1, <3>2 DEF Child
    <3> QED BY <1>3, <2>2, <3>3, <3>4
  <2> QED BY <2>1, <2>2
<1> HIDE DEF Base, Forked
<1>5. PICK new : new = Inits(ch, order, FALSE)
  OBVIOUS
<1>6. new \in Seq(Message)
  BY <1>4, <1>5, InitsFields
<1>6a. PICK e : e = Enqueue(ch, new)
  OBVIOUS
<1>7. /\ e \in Child
      /\ e.cmdId = child.cmdId + Len(new) /\ e.queue = child.queue \cup ToSet(new)
      /\ e.childQueue = child.childQueue /\ e.methods = child.methods
      /\ e.alive = ch.alive /\ e.isClosing = child.isClosing
      /\ e.registered = child.registered /\ e.restarts = rest
      /\ e.process = ch.process /\ e.firstCmdId = ch.firstCmdId
      /\ e.instances = child.instances /\ e.attached = child.attached
      /\ e.initialized = ch.initialized
      /\ e.destroyed = child.destroyed /\ e.detaching = child.detaching
  <2>1. /\ e \in Child
        /\ e.cmdId = ch.cmdId + Len(new) /\ e.queue = ch.queue \cup ToSet(new)
        /\ e.childQueue = ch.childQueue /\ e.methods = ch.methods
        /\ e.alive = ch.alive /\ e.isClosing = ch.isClosing
        /\ e.registered = ch.registered /\ e.restarts = ch.restarts
        /\ e.process = ch.process /\ e.firstCmdId = ch.firstCmdId
        /\ e.instances = ch.instances /\ e.attached = ch.attached
        /\ e.initialized = ch.initialized
        /\ e.destroyed = ch.destroyed /\ e.detaching = ch.detaching
    <3>1. Enqueued(e, ch, new)
      BY <1>4, <1>6, <1>6a, EnqueueFields
    <3> QED BY <3>1 DEF Enqueued
  <2> QED BY <1>4, <2>1
<1>8. child' = [e EXCEPT !.initialized = @ \cup ToSet(order)] /\ toWorker' = toWorker \o new
  BY <1>1, <1>2, <1>5, <1>6a
<1>9. /\ child' \in Child
      /\ child'.cmdId = child.cmdId + Len(new) /\ child'.queue = child.queue \cup ToSet(new)
      /\ child'.childQueue = child.childQueue /\ child'.methods = child.methods
      /\ child'.alive /\ child'.isClosing = child.isClosing
      /\ child'.registered = child.registered /\ child'.restarts = rest
      /\ child'.process = ch.process /\ child'.firstCmdId = ch.firstCmdId
      /\ child'.instances = child.instances /\ child'.attached = child.attached
      /\ child'.initialized = ch.initialized \cup ToSet(order)
      /\ child'.destroyed = child.destroyed /\ child'.detaching = child.detaching
  <2>1. e.initialized \cup ToSet(order) \subseteq Instances
    BY <1>0, <1>7, ToSetTyped DEF Child
  <2> QED BY <1>4, <1>7, <1>8, <2>1 DEF Child
<1>10. toWorker' \in Seq(Message)
  BY <1>0, <1>6, <1>8, ConcatProperties
<1> QED BY <1>4, <1>5, <1>6, <1>8, <1>9, <1>10

\* A restart keeps the invariant.
LEMMA RestartGood ==
  ASSUME IInv, NEW rest \in Seq(Seq(Instances)), NEW order \in Seq(Instances),
         \A k \in DOMAIN rest : ToSet(rest[k]) \subseteq child.attached,
         ToSet(order) \subseteq child.attached,
         Restart([child EXCEPT !.restarts = rest], order),
         UNCHANGED <<calls, toParent, worker>>, ops' \in Nat
  PROVE  IInv'
<1>0. /\ TypeOK /\ LifeInv /\ AbortInv
      /\ child \in Child /\ toWorker \in Seq(Message)
      /\ child.cmdId \in Nat /\ child.process \in Nat
  BY DEF IInv, TypeOK, Child
<1>4. PICK ch \in Child, new \in Seq(Message) :
           /\ new = Inits(ch, order, FALSE)
           /\ ch.cmdId = child.cmdId
           /\ IF child.alive
              THEN /\ child'.process = child.process /\ child'.firstCmdId = child.firstCmdId
                   /\ child'.initialized = child.initialized \cup ToSet(order)
              ELSE /\ child'.process = child.process + 1 /\ child'.firstCmdId = child.cmdId
                   /\ child'.initialized = (child.initialized \ child.instances) \cup ToSet(order)
           /\ child' \in Child
           /\ child'.cmdId = child.cmdId + Len(new) /\ child'.queue = child.queue \cup ToSet(new)
           /\ child'.childQueue = child.childQueue /\ child'.methods = child.methods
           /\ child'.alive /\ child'.isClosing = child.isClosing
           /\ child'.registered = child.registered /\ child'.restarts = rest
           /\ child'.instances = child.instances /\ child'.attached = child.attached
           /\ child'.destroyed = child.destroyed /\ child'.detaching = child.detaching
           /\ toWorker' = toWorker \o new /\ toWorker' \in Seq(Message)
  BY RestartFields
<1>11. TypeOK' /\ LifeInv'
  BY <1>0, <1>4 DEF TypeOK, LifeInv
<1>12. AbortInv'
  <2>1. \A c \in Calls : calls[c].process \in Nat /\ calls[c].process <= child.process
    BY <1>0 DEF AbortInv, TypeOK, Call
  <2> QED BY <1>0, <1>4, <2>1 DEF AbortInv, Pending
<1>13. CanSend(child') => \A i \in child'.initialized :
         \/ CanSend(child) /\ i \in child.initialized
         \/ i \in child'.destroyed \/ LetGo(child', i)
         \/ i \in ToSet(order)
  BY <1>0, <1>4 DEF CanSend, LifeInv, LetGo
<1>14. \/ child'.process = child.process /\ (child'.alive => child.alive)
       \/ child'.process = child.process + 1
  BY <1>4
<1>15. /\ child.attached \subseteq child'.attached /\ child.destroyed \subseteq child'.destroyed
       /\ ToSet(order) \subseteq child'.attached
       /\ \A i : LetGo(child, i) => LetGo(child', i)
  BY <1>4 DEF LetGo
<1> QED
  BY <1>0, <1>4, <1>11, <1>12, <1>13, <1>14, <1>15, InitsGood

LEMMA RestartChildStep ==
  ASSUME IInv, RestartChild
  PROVE  IInv'
<1>1. /\ child \in Child /\ ops' \in Nat
      /\ child.restarts \in Seq(Seq(Instances)) /\ child.instances \in SUBSET Instances
      /\ child.instances \subseteq child.attached
      /\ \A k \in DOMAIN child.restarts : ToSet(child.restarts[k]) \subseteq child.attached
      /\ UNCHANGED <<calls, toParent, worker>>
  BY DEF IInv, TypeOK, Child, LifeInv, RestartChild, Op
<1>2. PICK order \in Orders(child.instances) : Restart(child, order)
  BY DEF RestartChild
<1>3. [child EXCEPT !.restarts = child.restarts] = child
  BY <1>1 DEF Child
<1>4. Restart([child EXCEPT !.restarts = child.restarts], order)
  BY <1>2, <1>3
<1>5. order \in Seq(Instances) /\ ToSet(order) \subseteq child.attached
  BY <1>1, OrdersTyped
<1> QED BY <1>1, <1>4, <1>5, RestartGood

\* A restart that waited goes on, with the instances it had at first.
LEMMA ResumeRestartStep ==
  ASSUME IInv, ResumeRestart
  PROVE  IInv'
<1> DEFINE waiting == child.restarts
<1>1. /\ child \in Child /\ ops' \in Nat
      /\ waiting \in Seq(Seq(Instances)) /\ waiting # <<>>
      /\ \A k \in DOMAIN waiting : ToSet(waiting[k]) \subseteq child.attached
      /\ UNCHANGED <<calls, toParent, worker>>
      /\ Restart([child EXCEPT !.restarts = Tail(waiting)], Head(waiting))
  BY DEF IInv, TypeOK, Child, LifeInv, ResumeRestart
<1> HIDE DEF waiting
<1>2. /\ Head(waiting) \in Seq(Instances) /\ ToSet(Head(waiting)) \subseteq child.attached
      /\ Tail(waiting) \in Seq(Seq(Instances))
      /\ \A k \in DOMAIN Tail(waiting) : ToSet(Tail(waiting)[k]) \subseteq child.attached
  BY <1>1, TailWaits
<1> QED BY <1>1, <1>2, RestartGood

\* Aborting touches the pending method calls, and nothing but their state.
LEMMA AbortMethodsCalls ==
  ASSUME TypeOK, calls' = AbortMethods(calls, child)
  PROVE  /\ calls' \in [Calls -> Call]
         /\ CallsKept
         /\ \A c \in Calls :
              /\ calls'[c].kind = calls[c].kind /\ calls'[c].inst = calls[c].inst
              /\ calls'[c].cmdId = calls[c].cmdId /\ calls'[c].process = calls[c].process
              /\ calls'[c].runs = calls[c].runs /\ calls'[c].answer = calls[c].answer
              /\ calls'[c].state = IF c \in child.methods /\ Pending(c) THEN "rejected"
                                   ELSE calls[c].state
<1>1. \A c \in Calls :
        /\ calls'[c] \in Call
        /\ calls'[c].kind = calls[c].kind /\ calls'[c].inst = calls[c].inst
        /\ calls'[c].cmdId = calls[c].cmdId /\ calls'[c].process = calls[c].process
        /\ calls'[c].runs = calls[c].runs /\ calls'[c].answer = calls[c].answer
        /\ calls'[c].state = IF c \in child.methods /\ Pending(c) THEN "rejected"
                             ELSE calls[c].state
  <2> SUFFICES ASSUME NEW c \in Calls
               PROVE  /\ calls'[c] \in Call
                      /\ calls'[c].kind = calls[c].kind /\ calls'[c].inst = calls[c].inst
                      /\ calls'[c].cmdId = calls[c].cmdId /\ calls'[c].process = calls[c].process
                      /\ calls'[c].runs = calls[c].runs /\ calls'[c].answer = calls[c].answer
                      /\ calls'[c].state = IF c \in child.methods /\ Pending(c) THEN "rejected"
                                           ELSE calls[c].state
    OBVIOUS
  <2>1. calls'[c] = IF c \in child.methods /\ calls[c].state = "pending"
                    THEN [calls[c] EXCEPT !.state = "rejected"] ELSE calls[c]
    BY DEF AbortMethods
  <2>2. calls[c] \in Call BY DEF TypeOK
  <2> QED BY <2>1, <2>2 DEF Call, Pending
<1>2. calls' \in [Calls -> Call]
  BY <1>1 DEF AbortMethods
<1> QED BY <1>1, <1>2 DEF CallsKept

\* The aborted calls are those of the process that will be killed.
LEMMA ChildHasCrashedStep ==
  ASSUME IInv, ChildHasCrashed
  PROVE  IInv'
<1>0. /\ TypeOK /\ LifeInv /\ AbortInv /\ NumbersInv /\ RunsInv /\ ResultIsOwn
      /\ HandlesInv /\ ServedInv
      /\ child \in Child /\ calls \in [Calls -> Call] /\ worker.running \subseteq Message
      /\ child.cmdId \in Nat /\ ops + 1 \in Nat /\ ops' = ops + 1
      /\ UNCHANGED <<toWorker, toParent, worker>>
      /\ child.alive
      /\ calls' = AbortMethods(calls, child)
  BY DEF IInv, TypeOK, Child, ChildHasCrashed, Op, Worker
<1>1. /\ child' \in Child
      /\ child'.cmdId = child.cmdId /\ child'.queue = child.queue
      /\ child'.childQueue = child.childQueue /\ child'.methods = {}
      /\ child'.alive = child.alive /\ child'.isClosing
      /\ child'.registered = child.registered
      /\ child'.process = child.process /\ child'.instances = child.instances
      /\ child'.attached = child.attached /\ child'.initialized = child.initialized
      /\ child'.destroyed = child.destroyed /\ child'.detaching = child.detaching
      /\ \A k \in DOMAIN child'.restarts : ToSet(child'.restarts[k]) \subseteq child.attached
  <2> DEFINE ch == [child EXCEPT !.methods = {}]
  <2>1. /\ ch \in Child
        /\ ch.cmdId = child.cmdId /\ ch.queue = child.queue
        /\ ch.childQueue = child.childQueue /\ ch.methods = {}
        /\ ch.alive = child.alive /\ ch.isClosing = child.isClosing
        /\ ch.registered = child.registered
        /\ ch.process = child.process /\ ch.instances = child.instances
        /\ ch.attached = child.attached /\ ch.initialized = child.initialized
        /\ ch.destroyed = child.destroyed /\ ch.detaching = child.detaching
        /\ ch.restarts = child.restarts
    BY <1>0 DEF Child
  <2>2. /\ ch.instances \subseteq child.attached
        /\ \A k \in DOMAIN ch.restarts : ToSet(ch.restarts[k]) \subseteq child.attached
    BY <1>0, <2>1 DEF LifeInv
  <2>3. \/ child' = ch /\ child.isClosing
        \/ child' = [ch EXCEPT !.isClosing = TRUE]
        \/ child' \in Forced(ch)
    BY DEF ChildHasCrashed
  <2> HIDE DEF ch
  <2>4. CASE child' = ch /\ child.isClosing
    BY <2>1, <2>2, <2>4
  <2>5. CASE child' = [ch EXCEPT !.isClosing = TRUE]
    BY <2>1, <2>2, <2>5 DEF Child
  <2>6. CASE child' \in Forced(ch)
    <3>1. \A k \in DOMAIN child'.restarts : ToSet(child'.restarts[k]) \subseteq child.attached
      BY <2>1, <2>2, <2>6, ForcedFields
    <3> QED BY <2>1, <2>2, <2>6, <3>1, ForcedFields
  <2> QED BY <2>3, <2>4, <2>5, <2>6
<1>2. /\ calls' \in [Calls -> Call] /\ CallsKept
      /\ \A c \in Calls :
           /\ calls'[c].kind = calls[c].kind /\ calls'[c].inst = calls[c].inst
           /\ calls'[c].cmdId = calls[c].cmdId /\ calls'[c].process = calls[c].process
           /\ calls'[c].runs = calls[c].runs /\ calls'[c].answer = calls[c].answer
           /\ calls'[c].state = IF c \in child.methods /\ Pending(c) THEN "rejected"
                                ELSE calls[c].state
  BY <1>0, AbortMethodsCalls
<1>3. TypeOK' /\ LifeInv'
  BY <1>0, <1>1, <1>2 DEF TypeOK, LifeInv
<1>4. AbortInv'
  BY <1>0, <1>1, <1>2 DEF AbortInv, Pending
<1>5. NumbersInv'
  <2>1. Sent' = Sent
    BY <1>0, <1>1 DEF Sent
  <2> QED BY <1>0, <1>1, <1>2, <1>3, <2>1, NumbersShrink
<1>6. RunsInv'
  BY <1>0, <1>1, <1>2 DEF RunsInv, Message
<1>7. ResultIsOwn'
  BY <1>0, <1>2 DEF ResultIsOwn
<1>8. HandlesInv'
  BY <1>0, <1>1 DEF HandlesInv, CanSend, Known, LetGo
<1>9. ServedInv'
  <2> SUFFICES ASSUME NEW c \in Calls, Pending(c)', child'.alive, calls'[c].process = child'.process
               PROVE  Served(c)'
    BY DEF ServedInv
  <2>1. Pending(c) /\ child.alive /\ calls[c].process = child.process
    BY <1>0, <1>1, <1>2 DEF Pending, CanSend
  <2>2. Served(c)
    BY <1>0, <2>1 DEF ServedInv
  <2> QED BY <1>0, <1>1, <1>2, <2>2 DEF Served, InFlight, Lost, LetGo
<1> QED BY <1>3, <1>4, <1>5, <1>6, <1>7, <1>8, <1>9 DEF IInv

\* All that was on its way is lost.
LEMMA CloseStep ==
  ASSUME IInv, Close, ops' \in Nat
  PROVE  IInv'
<1>0. /\ TypeOK /\ LifeInv /\ AbortInv /\ NumbersInv /\ RunsInv /\ ResultIsOwn
      /\ child \in Child /\ calls \in [Calls -> Call]
      /\ child.cmdId \in Nat
      /\ toWorker' = <<>> /\ toParent' = <<>> /\ worker' = NewWorker
      /\ calls' = AbortMethods(calls, child)
      /\ child' = Closed(child)
  BY DEF IInv, TypeOK, Child, Close
<1>1. /\ child' \in Child
      /\ child'.cmdId = child.cmdId /\ child'.queue = child.queue
      /\ child'.childQueue = child.childQueue /\ child'.methods = {}
      /\ ~child'.alive
      /\ child'.registered = (child.registered /\ ~child.cleanUp)
      /\ child'.instances = IF child.cleanUp THEN {} ELSE child.instances
      /\ child'.process = child.process /\ child'.restarts = child.restarts
      /\ child'.attached = child.attached /\ child'.initialized = child.initialized
      /\ child'.destroyed = child.destroyed /\ child'.detaching = child.detaching
  BY <1>0 DEF Child, Closed
<1>2. /\ calls' \in [Calls -> Call] /\ CallsKept
      /\ \A c \in Calls :
           /\ calls'[c].kind = calls[c].kind /\ calls'[c].inst = calls[c].inst
           /\ calls'[c].cmdId = calls[c].cmdId /\ calls'[c].process = calls[c].process
           /\ calls'[c].runs = calls[c].runs /\ calls'[c].answer = calls[c].answer
           /\ calls'[c].state = IF c \in child.methods /\ Pending(c) THEN "rejected"
                                ELSE calls[c].state
  BY <1>0, AbortMethodsCalls
<1>3. /\ toWorker' \in Seq(Message) /\ toParent' \in Seq(Reply) /\ worker' \in Worker
      /\ DOMAIN toWorker' = {} /\ worker'.running = {}
      /\ ToSet(toWorker)' = {} /\ ToSet(toParent)' = {}
  BY <1>0, ToSetEmpty DEF Worker, NewWorker
<1>4. TypeOK' /\ LifeInv'
  <2>1. TypeOK'
    BY <1>0, <1>1, <1>2, <1>3 DEF TypeOK
  <2>2. LifeInv'
    BY <1>0, <1>1 DEF LifeInv
  <2> QED BY <2>1, <2>2
<1>5. AbortInv'
  BY <1>0, <1>1, <1>2 DEF AbortInv, Pending
<1>6. NumbersInv'
  <2>1. Sent' \subseteq Sent
    BY <1>1, <1>3 DEF Sent
  <2> QED BY <1>0, <1>1, <1>2, <1>3, <1>4, <2>1, NumbersShrink
<1>7. RunsInv'
  BY <1>0, <1>1, <1>2, <1>3 DEF RunsInv
<1>8. ResultIsOwn'
  BY <1>0, <1>2 DEF ResultIsOwn
<1>9. HandlesInv' /\ ServedInv'
  BY <1>1, <1>3 DEF HandlesInv, ServedInv, CanSend
<1> QED BY <1>4, <1>5, <1>6, <1>7, <1>8, <1>9 DEF IInv

-----------------------------------------------------------------------------
(***************************************************************************)
(* The worker's steps.                                                     *)
(***************************************************************************)
\* The reply to a message is appended.
Replied(m) ==
  \E r \in Reply :
    /\ Answers(r, m)
    /\ r.replyTo = m.cmdId
    /\ toParent' = Append(toParent, r)

\* What is known of the message that the worker takes: its call has not run.
LEMMA ReceivesFields ==
  ASSUME IInv, NEW m, Receives(m)
  PROVE  /\ m \in Message /\ m \in ToSet(toWorker) /\ m \in Sent /\ MessageInv(m)
         /\ toWorker' \in Seq(Message)
         /\ ToSet(toWorker) = {m} \cup ToSet(toWorker')
         /\ Len(toWorker) \in Nat \ {0} /\ DOMAIN toWorker = 1..Len(toWorker)
         /\ DOMAIN toWorker' = 1..(Len(toWorker) - 1) /\ Len(toWorker') = Len(toWorker) - 1
         /\ toWorker[1] = m
         /\ \A k \in 1..(Len(toWorker) - 1) : toWorker'[k] = toWorker[k + 1]
         /\ \A c \in m.call : c \in Calls /\ m.call = {c} /\ calls[c].runs = 0
                              /\ calls[c].cmdId = m.cmdId /\ calls[c].state # "idle"
         /\ child' = child /\ ops' = ops /\ child.alive
<1>1. /\ toWorker \in Seq(Message) /\ toWorker # <<>> /\ m = Head(toWorker)
      /\ toWorker' = Tail(toWorker)
      /\ child' = child /\ ops' = ops /\ child.alive
  BY DEF IInv, TypeOK, Receives
<1>2. /\ m \in Message /\ toWorker' \in Seq(Message) /\ Len(toWorker') = Len(toWorker) - 1
      /\ \A k \in 1..(Len(toWorker) - 1) : toWorker'[k] = toWorker[k + 1]
      /\ Len(toWorker) \in Nat \ {0} /\ DOMAIN toWorker = 1..Len(toWorker)
      /\ toWorker[1] = m
  BY <1>1, HeadTailProperties, LenProperties, EmptySeq
<1>3. DOMAIN toWorker' = 1..(Len(toWorker) - 1)
  BY <1>2, LenProperties
<1>4. m \in ToSet(toWorker) /\ ToSet(toWorker) = {m} \cup ToSet(toWorker')
  BY <1>1, ToSetTail
<1>5. m \in Sent /\ MessageInv(m)
  BY <1>4 DEF Sent, IInv, NumbersInv
<1>6. \A c \in m.call : c \in Calls /\ m.call = {c} /\ calls[c].runs = 0
                        /\ calls[c].cmdId = m.cmdId /\ calls[c].state # "idle"
  <2> SUFFICES ASSUME NEW c \in m.call
               PROVE  c \in Calls /\ m.call = {c} /\ calls[c].runs = 0
                      /\ calls[c].cmdId = m.cmdId /\ calls[c].state # "idle"
    OBVIOUS
  <2>1. c \in Calls /\ m.call = {c} /\ calls[c].cmdId = m.cmdId /\ calls[c].state # "idle"
    BY <1>5 DEF MessageInv
  <2>2. calls[c].runs # 0 => calls[c].cmdId < toWorker[1].cmdId
    BY <1>2, <2>1 DEF IInv, RunsInv
  <2>3. m.cmdId \in Nat
    BY <1>2 DEF Message
  <2> QED BY <1>2, <2>1, <2>2, <2>3
<1> QED BY <1>1, <1>2, <1>3, <1>4, <1>5, <1>6

\* A run counts, and leaves all else of the call.
LEMMA RanCalls ==
  ASSUME IInv, NEW m, Receives(m), calls' = Ran(calls, m) \/ calls' = calls
  PROVE  /\ calls' \in [Calls -> Call]
         /\ CallsKept
         /\ \A c \in Calls :
              /\ calls'[c].kind = calls[c].kind /\ calls'[c].inst = calls[c].inst
              /\ calls'[c].cmdId = calls[c].cmdId /\ calls'[c].process = calls[c].process
              /\ calls'[c].state = calls[c].state /\ calls'[c].answer = calls[c].answer
              /\ calls'[c].runs = calls[c].runs \/ (c \in m.call /\ calls'[c].runs = 1)
         /\ calls' = Ran(calls, m) => \A c \in m.call : calls'[c].runs = 1
<1>0. /\ calls \in [Calls -> Call]
      /\ \A c \in m.call : c \in Calls /\ calls[c].runs = 0
  BY ReceivesFields DEF IInv, TypeOK
<1>1. CASE calls' = calls
  <2>1. calls' = Ran(calls, m) => \A c \in m.call : calls'[c].runs = calls[c].runs + 1
    BY <1>0, <1>1 DEF Ran, Call
  <2> QED BY <1>0, <1>1, <2>1 DEF CallsKept
<1>2. CASE calls' = Ran(calls, m)
  <2>1. ASSUME NEW c \in Calls
        PROVE  /\ calls'[c] \in Call
               /\ calls'[c].kind = calls[c].kind /\ calls'[c].inst = calls[c].inst
               /\ calls'[c].cmdId = calls[c].cmdId /\ calls'[c].process = calls[c].process
               /\ calls'[c].state = calls[c].state /\ calls'[c].answer = calls[c].answer
               /\ calls'[c].runs = IF c \in m.call THEN 1 ELSE calls[c].runs
    <3>1. calls'[c] = IF c \in m.call THEN [calls[c] EXCEPT !.runs = @ + 1] ELSE calls[c]
      BY <1>2 DEF Ran
    <3>2. calls[c] \in Call /\ (c \in m.call => calls[c].runs + 1 = 1)
      BY <1>0
    <3>3. calls'[c] = IF c \in m.call THEN [calls[c] EXCEPT !.runs = 1] ELSE calls[c]
      BY <3>1, <3>2
    <3> QED BY <3>2, <3>3 DEF Call
  <2>2. calls' \in [Calls -> Call]
    BY <1>2, <2>1 DEF Ran
  <2> QED BY <1>0, <2>1, <2>2 DEF CallsKept
<1> QED BY <1>1, <1>2

\* What a step of the worker on the message m must respect.
Handles(m) ==
  /\ Receives(m)
  /\ worker' \in Worker
  /\ \/ calls' = Ran(calls, m)
     \/ calls' = calls /\ UNCHANGED toParent /\ worker'.running = worker.running
  /\ UNCHANGED toParent \/ Replied(m)
  /\ \/ worker'.running = worker.running
     \/ worker'.running = worker.running \cup {m} /\ m.cmd # "GET_MEM_USAGE"
  /\ worker.failed \subseteq worker'.failed
  /\ worker.handles \subseteq worker'.handles \cup child.destroyed
  /\ m.cmd = "INIT" => m.inst \in worker'.handles \cup worker'.failed
  /\ \/ m.call = {}
     \/ m \in worker'.running
     \/ Replied(m)
     \/ m.cmd # "GET_MEM_USAGE" /\ Lost(m.inst)'

\* The replies after a step of the worker.
LEMMA RepliesOf ==
  ASSUME IInv, NEW m, Handles(m)
  PROVE  /\ toParent' \in Seq(Reply)
         /\ ToSet(toParent) \subseteq ToSet(toParent')
         /\ \A r \in ToSet(toParent') :
              \/ r \in ToSet(toParent)
              \/ r.replyTo = m.cmdId /\ Answers(r, m) /\ Replied(m)
         /\ Replied(m) => \E r \in ToSet(toParent') : Answers(r, m) /\ r.replyTo = m.cmdId
<1>0. toParent \in Seq(Reply)
  BY DEF IInv, TypeOK
<1>1. CASE Replied(m)
  <2>1. PICK r \in Reply : Answers(r, m) /\ r.replyTo = m.cmdId /\ toParent' = Append(toParent, r)
    BY <1>1 DEF Replied
  <2>2. toParent' \in Seq(Reply) /\ ToSet(toParent') = ToSet(toParent) \cup {r}
    BY <1>0, <2>1, AppendProperties, ToSetAppend
  <2> QED BY <1>1, <2>1, <2>2
<1>2. CASE ~Replied(m)
  BY <1>0, <1>2 DEF Handles
<1> QED BY <1>1, <1>2

\* Taking a message keeps the numbers and the order of runs.
LEMMA HandlesNumbers ==
  ASSUME IInv, TypeOK', NEW m, Handles(m)
  PROVE  NumbersInv' /\ RunsInv' /\ ResultIsOwn'
<1>0. /\ TypeOK /\ NumbersInv /\ RunsInv /\ ResultIsOwn /\ Receives(m)
      /\ child.cmdId \in Nat
  BY DEF IInv, Handles, TypeOK, Child
<1>1. /\ m \in Message /\ m \in ToSet(toWorker) /\ m \in Sent /\ MessageInv(m)
      /\ toWorker \in Seq(Message) /\ toWorker' \in Seq(Message)
      /\ ToSet(toWorker) = {m} \cup ToSet(toWorker')
      /\ Len(toWorker) \in Nat \ {0} /\ DOMAIN toWorker = 1..Len(toWorker)
      /\ DOMAIN toWorker' = 1..(Len(toWorker) - 1)
      /\ toWorker[1] = m
      /\ \A k \in 1..(Len(toWorker) - 1) : toWorker'[k] = toWorker[k + 1]
      /\ \A c \in m.call : c \in Calls /\ m.call = {c} /\ calls[c].runs = 0
                           /\ calls[c].cmdId = m.cmdId /\ calls[c].state # "idle"
      /\ child' = child /\ ops' = ops /\ child.alive
  BY <1>0, ReceivesFields DEF TypeOK
<1>2. /\ CallsKept
      /\ \A c \in Calls :
           /\ calls'[c].cmdId = calls[c].cmdId
           /\ calls'[c].state = calls[c].state /\ calls'[c].answer = calls[c].answer
           /\ calls'[c].runs = calls[c].runs \/ (c \in m.call /\ calls'[c].runs = 1)
      /\ calls' = Ran(calls, m) => \A c \in m.call : calls'[c].runs = 1
  BY <1>0, RanCalls DEF Handles
<1>3. NumbersInv'
  <2>1. Sent' \subseteq Sent
    BY <1>1 DEF Sent, Handles
  <2>2. \A r \in ToSet(toParent') :
          \/ r \in ToSet(toParent)
          \/ /\ \E n \in Sent : r.replyTo = n.cmdId /\ Answers(r, n)
             /\ \A c \in r.call : calls'[c].runs = 1
    <3> SUFFICES ASSUME NEW r \in ToSet(toParent'), r \notin ToSet(toParent)
                 PROVE  /\ \E n \in Sent : r.replyTo = n.cmdId /\ Answers(r, n)
                        /\ \A c \in r.call : calls'[c].runs = 1
      OBVIOUS
    <3>1. r.replyTo = m.cmdId /\ Answers(r, m) /\ Replied(m)
      BY RepliesOf
    <3>2. CASE calls' = Ran(calls, m)
      BY <1>1, <1>2, <3>1, <3>2 DEF Answers
    <3>3. CASE UNCHANGED toParent
      BY <3>3
    <3> QED BY <3>2, <3>3 DEF Handles
  <2>3. \A n \in worker'.running : n \in worker.running \/ n.cmd # "GET_MEM_USAGE"
    BY DEF Handles
  <2>4. /\ child.cmdId <= child'.cmdId /\ child'.attached = child.attached
        /\ child'.destroyed = child.destroyed /\ child'.childQueue = child.childQueue
    BY <1>0, <1>1
  <2>5. ToSet(toParent)' = ToSet(toParent')
    OBVIOUS
  <2> QED BY <1>0, <1>2, <2>1, <2>2, <2>3, <2>4, <2>5, NumbersStep
<1>4. \A k \in DOMAIN toWorker' : \A j \in 1..(k - 1) : toWorker'[j].cmdId < toWorker'[k].cmdId
  <2> SUFFICES ASSUME NEW k \in 1..(Len(toWorker) - 1), NEW j \in 1..(k - 1)
               PROVE  toWorker'[j].cmdId < toWorker'[k].cmdId
    BY <1>1
  <2>1. /\ k + 1 \in DOMAIN toWorker /\ j + 1 \in 1..((k + 1) - 1)
        /\ toWorker'[j] = toWorker[j + 1] /\ toWorker'[k] = toWorker[k + 1]
    BY <1>1
  <2>2. toWorker[j + 1].cmdId < toWorker[k + 1].cmdId
    BY <1>0, <2>1 DEF RunsInv
  <2> QED BY <2>1, <2>2
<1>5. \A n \in worker'.running : \A c \in n.call : calls'[c].runs = 1
  <2> SUFFICES ASSUME NEW n \in worker'.running, NEW c \in n.call PROVE calls'[c].runs = 1
    OBVIOUS
  <2>1. CASE n \in worker.running
    <3>1. c \in Calls /\ calls[c].runs = 1
      BY <1>0, <2>1 DEF RunsInv, TypeOK, Worker, Message
    <3> QED BY <1>2, <3>1 DEF CallsKept
  <2>2. CASE n \notin worker.running
    <3>1. n = m /\ calls' = Ran(calls, m)
      BY <2>2 DEF Handles
    <3> QED BY <1>2, <3>1
  <2> QED BY <2>1, <2>2
<1>6. ASSUME NEW c \in Calls, calls'[c].runs # 0
      PROVE  /\ calls'[c].runs = 1
             /\ calls'[c].state # "idle"
             /\ calls'[c].cmdId < child'.cmdId
             /\ \A k \in DOMAIN toWorker' : calls'[c].cmdId < toWorker'[k].cmdId
  <2>1. CASE c \in m.call /\ calls'[c].runs = 1
    <3>1. \A k \in 1..(Len(toWorker) - 1) : toWorker[1].cmdId < toWorker[k + 1].cmdId
      <4> SUFFICES ASSUME NEW k \in 1..(Len(toWorker) - 1)
                   PROVE  toWorker[1].cmdId < toWorker[k + 1].cmdId
        OBVIOUS
      <4>1. k + 1 \in DOMAIN toWorker /\ 1 \in 1..((k + 1) - 1)
        BY <1>1
      <4> QED BY <1>0, <4>1 DEF RunsInv
    <3> QED BY <1>1, <1>2, <2>1, <3>1 DEF MessageInv
  <2>2. CASE calls'[c].runs = calls[c].runs
    <3>1. /\ calls[c].runs = 1 /\ calls[c].state # "idle" /\ calls[c].cmdId < child.cmdId
          /\ \A k \in DOMAIN toWorker : calls[c].cmdId < toWorker[k].cmdId
      BY <1>0, <1>6, <2>2 DEF RunsInv
    <3>2. \A k \in 1..(Len(toWorker) - 1) :
            toWorker'[k] = toWorker[k + 1] /\ k + 1 \in DOMAIN toWorker
      BY <1>1
    <3> QED BY <1>1, <1>2, <2>2, <3>1, <3>2
  <2> QED BY <1>2, <2>1, <2>2
<1>7. RunsInv'
  BY <1>4, <1>5, <1>6 DEF RunsInv
<1>8. ResultIsOwn'
  BY <1>0, <1>2 DEF ResultIsOwn, CallsKept
<1> QED BY <1>3, <1>7, <1>8

\* What the worker will know when it comes to a message it still knows when the
\* message is one nearer.
LEMMA KnownTail ==
  ASSUME IInv, NEW m, Handles(m), NEW i, NEW k \in Nat \ {0}, k <= Len(toWorker),
         Known(i, k + 1, child, toWorker, worker)
  PROVE  Known(i, k, child', toWorker', worker')
<1>1. /\ Len(toWorker) \in Nat \ {0}
      /\ toWorker[1] = m
      /\ \A j \in 1..(Len(toWorker) - 1) : toWorker'[j] = toWorker[j + 1]
      /\ child' = child
  BY ReceivesFields DEF Handles
<1>2. CASE \/ LetGo(child, i) \/ i \in child.destroyed
           \/ i \in worker.failed \/ i \in worker.handles
  BY <1>1, <1>2 DEF Known, Handles
<1>3. ASSUME NEW j \in 1..((k + 1) - 1), toWorker[j].cmd = "INIT" /\ toWorker[j].inst = i
      PROVE  Known(i, k, child', toWorker', worker')
  <2>1. CASE j = 1
    BY <1>1, <1>3, <2>1 DEF Known, Handles
  <2>2. CASE j # 1
    <3>1. j - 1 \in 1..(k - 1) /\ toWorker'[j - 1] = toWorker[j]
      BY <1>1, <2>2
    <3> QED BY <1>3, <3>1 DEF Known
  <2> QED BY <2>1, <2>2
<1> QED BY <1>2, <1>3 DEF Known

\* The worker leaves a trace of every call it takes, or has lost the instance.
LEMMA HandlesServed ==
  ASSUME IInv, NEW m, Handles(m)
  PROVE  ServedInv'
<1>1. /\ m \in ToSet(toWorker) /\ MessageInv(m)
      /\ ToSet(toWorker) = {m} \cup ToSet(toWorker')
      /\ \A c \in m.call : c \in Calls /\ m.call = {c} /\ calls[c].cmdId = m.cmdId
      /\ child' = child
  BY ReceivesFields DEF Handles
<1>2. \A c \in Calls :
        /\ calls'[c].kind = calls[c].kind /\ calls'[c].inst = calls[c].inst
        /\ calls'[c].cmdId = calls[c].cmdId /\ calls'[c].process = calls[c].process
        /\ calls'[c].state = calls[c].state
  BY RanCalls DEF Handles
<1>3. /\ worker.failed \subseteq worker'.failed
      /\ worker.running \subseteq worker'.running
      /\ ToSet(toParent) \subseteq ToSet(toParent')
  BY RepliesOf DEF Handles
<1> SUFFICES ASSUME NEW c \in Calls, Pending(c)', child'.alive, calls'[c].process = child'.process
             PROVE  Served(c)'
  BY DEF ServedInv
<1>4. Served(c)
  BY <1>1, <1>2 DEF IInv, ServedInv, Pending
<1>5. CASE Lost(calls[c].inst) /\ calls[c].kind # "memory"
  BY <1>1, <1>2, <1>3, <1>5 DEF Served, Lost
<1>6. CASE InFlight(c) /\ \E n \in child.queue \cup child.childQueue : n.call = {c}
  <2>1. CASE \E n \in ToSet(toWorker') \cup worker'.running : n.call = {c}
    BY <1>1, <1>6, <2>1 DEF Served, InFlight
  <2>2. CASE \E r \in ToSet(toParent) : r.call = {c} /\ r.replyTo = calls[c].cmdId
    BY <1>1, <1>2, <1>3, <1>6, <2>2 DEF Served, InFlight
  <2>3. CASE m.call = {c}
    <3>0. c \in m.call /\ calls[c].cmdId = m.cmdId
      BY <1>1, <2>3
    <3>1. CASE m \in worker'.running
      BY <2>1, <2>3, <3>1
    <3>2. CASE Replied(m)
      <4>1. PICK r \in ToSet(toParent') : Answers(r, m) /\ r.replyTo = m.cmdId
        BY <3>2, RepliesOf
      <4>2. r.call = {c} /\ r.replyTo = calls'[c].cmdId
        BY <1>2, <2>3, <3>0, <4>1 DEF Answers
      <4> QED BY <1>1, <1>6, <4>2 DEF Served, InFlight
    <3>3. CASE m.cmd # "GET_MEM_USAGE" /\ Lost(m.inst)'
      <4>1. calls[c].kind # "memory" /\ calls[c].inst = m.inst
        BY <1>1, <2>3, <3>0, <3>3 DEF MessageInv
      <4> QED BY <1>1, <1>2, <3>3, <4>1 DEF Served, Lost
    <3> QED BY <3>0, <3>1, <3>2, <3>3 DEF Handles
  <2> QED BY <1>1, <1>3, <1>6, <2>1, <2>2, <2>3 DEF InFlight
<1> QED BY <1>4, <1>5, <1>6 DEF Served

\* A message that is taken as Handles says keeps the invariant.
LEMMA HandlesGood ==
  ASSUME IInv, NEW m, Handles(m)
  PROVE  IInv'
<1>0. /\ TypeOK /\ LifeInv /\ AbortInv /\ HandlesInv /\ Receives(m)
  BY DEF IInv, Handles
<1>1. /\ toWorker' \in Seq(Message)
      /\ Len(toWorker) \in Nat \ {0} /\ DOMAIN toWorker = 1..Len(toWorker)
      /\ DOMAIN toWorker' = 1..(Len(toWorker) - 1) /\ Len(toWorker') = Len(toWorker) - 1
      /\ \A k \in 1..(Len(toWorker) - 1) : toWorker'[k] = toWorker[k + 1]
      /\ child' = child /\ ops' = ops /\ child.alive
  BY <1>0, ReceivesFields
<1>2. /\ calls' \in [Calls -> Call]
      /\ \A c \in Calls :
           /\ calls'[c].kind = calls[c].kind /\ calls'[c].process = calls[c].process
           /\ calls'[c].state = calls[c].state
  BY <1>0, RanCalls DEF Handles
<1>3. TypeOK'
  BY <1>0, <1>1, <1>2, RepliesOf DEF TypeOK, Handles
<1>4. LifeInv'
  BY <1>0, <1>1 DEF LifeInv
<1>5. AbortInv'
  <2>1. child.methods \subseteq Calls
    BY <1>0 DEF TypeOK, Child
  <2> QED BY <1>0, <1>1, <1>2, <2>1 DEF AbortInv, Pending
<1>6. HandlesInv'
  <2>1. ASSUME CanSend(child'), NEW i \in child'.initialized
        PROVE  Known(i, Len(toWorker') + 1, child', toWorker', worker')
    <3>1. Known(i, Len(toWorker) + 1, child, toWorker, worker)
      BY <1>0, <1>1, <2>1 DEF HandlesInv
    <3>2. Len(toWorker) \in Nat \ {0} /\ Len(toWorker) <= Len(toWorker)
          /\ Len(toWorker') + 1 = Len(toWorker)
      BY <1>1
    <3> QED BY <3>1, <3>2, KnownTail
  <2>2. ASSUME NEW k \in 1..(Len(toWorker) - 1), toWorker'[k].cmd \in {"FUNCTION", "SET"}
        PROVE  Known(toWorker'[k].inst, k, child', toWorker', worker')
    <3>1. toWorker'[k] = toWorker[k + 1] /\ k + 1 \in DOMAIN toWorker
          /\ k \in Nat \ {0} /\ k <= Len(toWorker)
      BY <1>1
    <3>2. Known(toWorker[k + 1].inst, k + 1, child, toWorker, worker)
      BY <1>0, <2>2, <3>1 DEF HandlesInv
    <3> QED BY <3>1, <3>2, KnownTail
  <2> QED BY <1>1, <2>1, <2>2 DEF HandlesInv
<1> QED BY <1>3, <1>4, <1>5, <1>6, HandlesNumbers, HandlesServed DEF IInv

\* The reply that is made for a message answers it.
LEMMA ReplyAnswers ==
  ASSUME NEW m \in Message, NEW error \in BOOLEAN
  PROVE  /\ ReplyTo(m, error) \in Reply
         /\ ReplyTo(m, error).replyTo = m.cmdId
         /\ m.cmd # "GET_MEM_USAGE" => Answers(ReplyTo(m, error), m)
         /\ [ReplyTo(m, error) EXCEPT !.from = "child"] \in Reply
         /\ [ReplyTo(m, error) EXCEPT !.from = "child"].replyTo = m.cmdId
         /\ m.cmd = "GET_MEM_USAGE" => Answers([ReplyTo(m, error) EXCEPT !.from = "child"], m)
BY DEF ReplyTo, Reply, Message, Answers

\* A message that is about no call runs none.
LEMMA RanNone ==
  ASSUME IInv, NEW m, m.call = {}
  PROVE  calls = Ran(calls, m)
BY DEF IInv, TypeOK, Ran

\* Whether a call may fail is a Boolean.
LEMMA ErrorIsBoolean == \A error \in {FALSE} \cup {"method" \in Errors} : error \in BOOLEAN
<1>1. ("method" \in Errors) \in BOOLEAN
  OBVIOUS
<1> QED BY <1>1

\* Each way of the worker to take a message is one of Handles.
LEMMA WorkerReceivesStep ==
  ASSUME IInv, WorkerReceives
  PROVE  IInv'
<1>1. PICK m \in ToSet(toWorker) :
        \/ Construct(m)
        \/ ConstructorThrows(m)
        \/ LoadThrows(m)
        \/ DropMessage(m)
        \/ RunFunction(m)
        \/ RunSet(m)
        \/ KillInstance(m)
        \/ ReplyMemory(m)
  BY DEF WorkerReceives
<1>2. Receives(m)
  BY <1>1 DEF Construct, ConstructorThrows, LoadThrows, DropMessage, RunFunction, RunSet,
              KillInstance, ReplyMemory
<1>3. /\ m \in Message /\ MessageInv(m) /\ child' = child /\ child.alive
      /\ TypeOK /\ HandlesInv /\ worker \in Worker
      /\ toWorker[1] = m /\ 1 \in DOMAIN toWorker /\ m.inst \in Instances
  BY <1>2, ReceivesFields DEF IInv, TypeOK, Message
<1>4. ASSUME NEW error \in BOOLEAN, toParent' = Append(toParent, ReplyTo(m, error)),
             m.cmd # "GET_MEM_USAGE"
      PROVE  Replied(m)
  BY <1>3, <1>4, ReplyAnswers DEF Replied
<1>5. CASE Construct(m)
  <2>1. /\ m.cmd = "INIT" /\ UNCHANGED calls
        /\ worker' = [worker EXCEPT !.handles = @ \cup {m.inst}]
        /\ toParent' = Append(toParent, ReplyTo(m, FALSE))
    BY <1>5 DEF Construct
  <2>2. /\ worker' \in Worker /\ worker'.running = worker.running
        /\ worker'.failed = worker.failed /\ worker'.handles = worker.handles \cup {m.inst}
    BY <1>3, <2>1 DEF Worker
  <2>3. m.call = {}
    BY <1>3, <2>1 DEF MessageInv
  <2>4. Handles(m)
    BY <1>2, <1>4, <2>1, <2>2, <2>3, RanNone DEF Handles
  <2> QED BY <2>4, HandlesGood
<1>6. CASE ConstructorThrows(m) \/ LoadThrows(m)
  <2>1. /\ m.cmd = "INIT" /\ UNCHANGED calls
        /\ worker' = [worker EXCEPT !.failed = @ \cup {m.inst}]
        /\ toParent' = Append(toParent, ReplyTo(m, TRUE)) \/ UNCHANGED toParent
    BY <1>6 DEF ConstructorThrows, LoadThrows
  <2>2. /\ worker' \in Worker /\ worker'.running = worker.running
        /\ worker'.failed = worker.failed \cup {m.inst} /\ worker'.handles = worker.handles
    BY <1>3, <2>1 DEF Worker
  <2>3. m.call = {}
    BY <1>3, <2>1 DEF MessageInv
  <2>4. Handles(m)
    BY <1>2, <1>4, <2>1, <2>2, <2>3, RanNone DEF Handles
  <2> QED BY <2>4, HandlesGood
<1>7. CASE DropMessage(m)
  <2>1. /\ m.cmd \notin {"INIT", "GET_MEM_USAGE"} /\ m.inst \notin worker.handles
        /\ UNCHANGED <<calls, worker, toParent>>
    BY <1>7 DEF DropMessage
  <2>2. m.cmd \in {"FUNCTION", "SET"} \/ m.call = {}
    BY <1>3, <2>1 DEF MessageInv, Message
  <2>3. \/ m.call = {}
        \/ Lost(m.inst)'
    <3> SUFFICES ASSUME m.cmd \in {"FUNCTION", "SET"}
                 PROVE  Lost(m.inst)'
      BY <2>2
    <3>1. Known(m.inst, 1, child, toWorker, worker)
      BY <1>3 DEF HandlesInv
    <3> QED BY <1>3, <2>1, <3>1 DEF Known, Lost
  <2>4. worker' \in Worker /\ worker' = worker
    BY <1>3, <2>1
  <2>5. Handles(m)
    BY <1>2, <2>1, <2>3, <2>4 DEF Handles
  <2> QED BY <2>5, HandlesGood
<1>8. CASE RunFunction(m)
  <2>1. /\ m.cmd = "FUNCTION" /\ calls' = Ran(calls, m) /\ UNCHANGED toParent
        /\ worker' = [worker EXCEPT !.running = @ \cup {m}]
    BY <1>8 DEF RunFunction
  <2>2. /\ worker' \in Worker /\ worker'.running = worker.running \cup {m}
        /\ worker'.failed = worker.failed /\ worker'.handles = worker.handles
    BY <1>3, <2>1 DEF Worker
  <2>3. Handles(m)
    BY <1>2, <2>1, <2>2 DEF Handles
  <2> QED BY <2>3, HandlesGood
<1>9. CASE RunSet(m)
  <2>0. /\ m.cmd = "SET" /\ calls' = Ran(calls, m) /\ UNCHANGED worker
        /\ \E error \in {FALSE} \cup {"method" \in Errors} :
             toParent' = Append(toParent, ReplyTo(m, error))
    BY <1>9 DEF RunSet
  <2>1. /\ m.cmd = "SET" /\ calls' = Ran(calls, m) /\ UNCHANGED worker
        /\ \E error \in BOOLEAN : toParent' = Append(toParent, ReplyTo(m, error))
    BY <2>0, ErrorIsBoolean
  <2>2. Replied(m)
    BY <1>4, <2>1
  <2>3. Handles(m)
    BY <1>2, <1>3, <2>1, <2>2 DEF Handles
  <2> QED BY <2>3, HandlesGood
<1>10. CASE KillInstance(m)
  <2>1. /\ m.cmd = "KILL" /\ UNCHANGED calls
        /\ worker' = [worker EXCEPT !.handles = @ \ {m.inst}]
        /\ toParent' = Append(toParent, ReplyTo(m, FALSE))
    BY <1>10 DEF KillInstance
  <2>2. /\ worker' \in Worker /\ worker'.running = worker.running
        /\ worker'.failed = worker.failed /\ worker'.handles = worker.handles \ {m.inst}
    BY <1>3, <2>1 DEF Worker
  <2>3. m.call = {} /\ m.inst \in child.destroyed
    BY <1>3, <2>1 DEF MessageInv
  <2>4. Handles(m)
    BY <1>2, <1>4, <2>1, <2>2, <2>3, RanNone DEF Handles
  <2> QED BY <2>4, HandlesGood
<1>11. CASE ReplyMemory(m)
  <2>1. /\ m.cmd = "GET_MEM_USAGE" /\ calls' = Ran(calls, m) /\ UNCHANGED worker
        /\ toParent' = Append(toParent, [ReplyTo(m, FALSE) EXCEPT !.from = "child"])
    BY <1>11 DEF ReplyMemory
  <2>2. Replied(m)
    BY <1>3, <2>1, ReplyAnswers DEF Replied
  <2>3. Handles(m)
    BY <1>2, <1>3, <2>1, <2>2 DEF Handles
  <2> QED BY <2>3, HandlesGood
<1> QED BY <1>1, <1>5, <1>6, <1>7, <1>8, <1>9, <1>10, <1>11

\* The reply takes the place of the run.
LEMMA ReturnStep ==
  ASSUME IInv, Return
  PROVE  IInv'
<1>0. /\ TypeOK /\ LifeInv /\ AbortInv /\ HandlesInv /\ NumbersInv /\ RunsInv /\ ResultIsOwn
      /\ ServedInv
      /\ child.alive /\ worker \in Worker /\ toParent \in Seq(Reply)
      /\ UNCHANGED <<child, calls, toWorker, ops>>
      /\ child.cmdId \in Nat
  BY DEF IInv, TypeOK, Child, Return
<1>1. PICK m \in worker.running, error \in BOOLEAN :
        /\ worker' = [worker EXCEPT !.running = @ \ {m}]
        /\ toParent' = Append(toParent, ReplyTo(m, error))
  <2>1. \E m \in worker.running : \E error \in {FALSE} \cup {"method" \in Errors} :
          /\ worker' = [worker EXCEPT !.running = @ \ {m}]
          /\ toParent' = Append(toParent, ReplyTo(m, error))
    BY DEF Return
  <2> QED BY <2>1, ErrorIsBoolean
<1>2. /\ worker' \in Worker /\ worker'.running = worker.running \ {m}
      /\ worker'.failed = worker.failed /\ worker'.handles = worker.handles
      /\ m \in Message /\ m \in Sent /\ m.cmd # "GET_MEM_USAGE"
      /\ \A c \in m.call : c \in Calls /\ calls[c].runs = 1
  BY <1>0, <1>1 DEF Worker, Sent, NumbersInv, RunsInv, Message
<1>3. PICK r : r = ReplyTo(m, error)
  OBVIOUS
<1>4. r \in Reply /\ Answers(r, m) /\ r.replyTo = m.cmdId
  BY <1>2, <1>3, ReplyAnswers
<1>5. toParent' \in Seq(Reply) /\ ToSet(toParent') = ToSet(toParent) \cup {r}
  BY <1>0, <1>1, <1>3, <1>4, AppendProperties, ToSetAppend
<1>6. TypeOK' /\ LifeInv' /\ AbortInv'
  BY <1>0, <1>2, <1>5 DEF TypeOK, LifeInv, AbortInv, Pending
<1>7. CallsKept
  BY <1>0 DEF CallsKept
<1>8. NumbersInv'
  <2>1. Sent' \subseteq Sent
    BY <1>0, <1>2 DEF Sent
  <2>2. \A s \in ToSet(toParent)' :
          \/ s \in ToSet(toParent)
          \/ /\ \E n \in Sent : s.replyTo = n.cmdId /\ Answers(s, n)
             /\ \A c \in s.call : calls'[c].runs = 1
    <3>1. r.replyTo = m.cmdId /\ Answers(r, m) /\ \A c \in r.call : calls'[c].runs = 1
      BY <1>0, <1>2, <1>4 DEF Answers
    <3> QED BY <1>2, <1>5, <3>1
  <2>3. worker'.running \subseteq worker.running
    BY <1>2
  <2>4. child.cmdId <= child'.cmdId
    BY <1>0
  <2> QED BY <1>0, <1>6, <1>7, <2>1, <2>2, <2>3, <2>4, NumbersStep
<1>9. RunsInv'
  BY <1>0, <1>2 DEF RunsInv
<1>10. ResultIsOwn'
  BY <1>0 DEF ResultIsOwn
<1>11. HandlesInv'
  BY <1>0, <1>2 DEF HandlesInv, Known
<1>12. ServedInv'
  <2> SUFFICES ASSUME NEW c \in Calls, Pending(c)', child'.alive, calls'[c].process = child'.process
               PROVE  Served(c)'
    BY DEF ServedInv
  <2>1. Served(c)
    BY <1>0 DEF ServedInv, Pending
  <2>2. CASE m.call = {c}
    <3>0. MessageInv(m)
      BY <1>0, <1>2 DEF NumbersInv
    <3>1. calls[c].cmdId = m.cmdId
      BY <2>2, <3>0 DEF MessageInv
    <3>2. r \in ToSet(toParent') /\ r.call = {c}
      BY <1>4, <1>5, <2>2 DEF Answers
    <3>2a. r.replyTo = calls'[c].cmdId
      BY <1>0, <1>4, <3>1
    <3>3. InFlight(c)'
      BY <3>2, <3>2a DEF InFlight
    <3>4. child' = child /\ calls' = calls /\ worker'.failed = worker.failed
      BY <1>0, <1>2
    <3> QED BY <2>1, <3>3, <3>4 DEF Served, Lost
  <2>3. CASE m.call # {c}
    BY <1>0, <1>2, <1>5, <2>1, <2>3 DEF Served, InFlight, Lost
  <2> QED BY <2>2, <2>3
<1> QED BY <1>6, <1>8, <1>9, <1>10, <1>11, <1>12 DEF IInv

-----------------------------------------------------------------------------
(***************************************************************************)
(* The manager receives replies.                                           *)
(***************************************************************************)
\* The callback that a reply finds by its number is that of the call it is a
\* reply to, so a promise resolves with the result of its own run.
LEMMA SettleCallOwn ==
  ASSUME IInv, NEW m \in child.queue \cup child.childQueue, NEW r \in ToSet(toParent),
         m.cmdId = r.replyTo, calls' = SettleCall(calls, m, r)
  PROVE  /\ calls' \in [Calls -> Call]
         /\ CallsKept
         /\ \A c \in Calls :
              /\ calls'[c].kind = calls[c].kind /\ calls'[c].inst = calls[c].inst
              /\ calls'[c].cmdId = calls[c].cmdId /\ calls'[c].process = calls[c].process
              /\ calls'[c].runs = calls[c].runs
              /\ \/ calls'[c] = calls[c]
                 \/ /\ c \in m.call /\ Pending(c)
                    /\ \/ calls'[c].state = "rejected" /\ calls'[c].answer = calls[c].answer
                       \/ /\ calls'[c].state = "resolved" /\ calls'[c].answer = {c}
                          /\ calls[c].runs = 1
         /\ \A c \in m.call : ~Pending(c)' /\ m.call = {c}
<1>1. /\ m \in Sent /\ MessageInv(m) /\ ReplyInv(r) /\ m.call = r.call
  BY DEF IInv, NumbersInv, Sent, ReplyInv, Answers
<1>2. \A c \in m.call : c \in Calls /\ m.call = {c} /\ calls[c].runs = 1
  BY <1>1 DEF MessageInv, ReplyInv
<1>3. calls \in [Calls -> Call] /\ r \in Reply /\ r.call \subseteq Calls
  <2>1. calls \in [Calls -> Call] /\ toParent \in Seq(Reply)
    BY DEF IInv, TypeOK
  <2>2. r \in Reply
    BY <2>1, ToSetTyped
  <2> QED BY <2>1, <2>2 DEF Reply
<1>4. ASSUME NEW c \in Calls
      PROVE  /\ calls'[c] \in Call
             /\ calls'[c].kind = calls[c].kind /\ calls'[c].inst = calls[c].inst
             /\ calls'[c].cmdId = calls[c].cmdId /\ calls'[c].process = calls[c].process
             /\ calls'[c].runs = calls[c].runs
             /\ \/ calls'[c] = calls[c]
                \/ /\ c \in m.call /\ Pending(c)
                   /\ \/ calls'[c].state = "rejected" /\ calls'[c].answer = calls[c].answer
                      \/ calls'[c].state = "resolved" /\ calls'[c].answer = r.call
             /\ c \in m.call => calls'[c].state # "pending"
  <2>1. calls'[c] = IF c \in m.call /\ calls[c].state = "pending"
                    THEN IF r.error THEN [calls[c] EXCEPT !.state = "rejected"]
                         ELSE [calls[c] EXCEPT !.state = "resolved", !.answer = r.call]
                    ELSE calls[c]
    BY DEF SettleCall
  <2>2. calls[c] \in Call
    BY <1>3
  <2>3. CASE c \in m.call /\ calls[c].state = "pending" /\ r.error
    BY <1>3, <2>1, <2>2, <2>3 DEF Call, Pending
  <2>4. CASE c \in m.call /\ calls[c].state = "pending" /\ ~r.error
    BY <1>3, <2>1, <2>2, <2>4 DEF Call, Pending
  <2>5. CASE ~(c \in m.call /\ calls[c].state = "pending")
    <3>1. calls'[c] = calls[c] BY <2>1, <2>5
    <3> QED BY <2>2, <2>5, <3>1
  <2> QED BY <2>3, <2>4, <2>5
<1>5. calls' \in [Calls -> Call]
  BY <1>4 DEF SettleCall
<1>6. CallsKept
  BY <1>4 DEF CallsKept
<1> QED BY <1>1, <1>2, <1>4, <1>5, <1>6 DEF Pending

\* What a step on the reply r must respect.
Takes(r) ==
  /\ toParent # <<>> /\ r = Head(toParent) /\ toParent' = Tail(toParent)
  /\ UNCHANGED <<toWorker, worker, ops>>
  /\ child.alive /\ child'.alive
  /\ child'.isClosing = child.isClosing /\ child'.registered = child.registered
  /\ child'.process = child.process /\ child'.cmdId = child.cmdId
  /\ child'.attached = child.attached /\ child'.initialized = child.initialized
  /\ child'.detaching = child.detaching /\ child'.destroyed = child.destroyed
  /\ child'.instances \subseteq child.instances
  /\ child.instances \ child'.instances \subseteq child.destroyed
  /\ child'.methods \subseteq child.methods
  /\ child'.restarts = child.restarts
  /\ child'.queue \subseteq child.queue /\ child'.childQueue = child.childQueue
  /\ \A m \in child.queue \ child'.queue : m.cmdId = r.replyTo

\* Taking a reply keeps the invariant, if it forgets no pending call.
LEMMA TakesGood ==
  ASSUME IInv, TypeOK', NEW r, Takes(r), CallsKept,
         \A c \in Calls :
           /\ calls'[c].kind = calls[c].kind /\ calls'[c].inst = calls[c].inst
           /\ calls'[c].cmdId = calls[c].cmdId /\ calls'[c].process = calls[c].process
           /\ calls'[c].runs = calls[c].runs
           /\ Pending(c)' => Pending(c)
           /\ calls'[c].state = "resolved" =>
                \/ calls[c].state = "resolved" /\ calls'[c].answer = calls[c].answer
                \/ calls'[c].answer = {c} /\ calls[c].runs = 1
           /\ Pending(c)' /\ c \in child.methods => c \in child'.methods,
         \A c \in Calls, m \in child.queue \cup child.childQueue :
           Pending(c)' /\ m.call = {c} /\ m.cmdId = r.replyTo =>
             Lost(calls[c].inst) /\ calls[c].kind # "memory"
  PROVE  IInv'
<1>0. /\ TypeOK /\ LifeInv /\ AbortInv /\ HandlesInv /\ NumbersInv /\ RunsInv /\ ResultIsOwn
      /\ ServedInv
      /\ toParent \in Seq(Reply) /\ child.cmdId \in Nat
      /\ child.methods \subseteq Calls /\ worker.running \subseteq Message
  BY DEF IInv, TypeOK, Child, Worker
<1>1. ToSet(toParent) = {r} \cup ToSet(toParent')
  BY <1>0, ToSetTail DEF Takes
<1>2. LifeInv'
  BY <1>0 DEF LifeInv, Takes
<1>3. AbortInv'
  BY <1>0 DEF AbortInv, Takes, Pending
<1>4. NumbersInv'
  <2>1. Sent' \subseteq Sent
    BY DEF Sent, Takes
  <2>2. /\ ToSet(toParent)' \subseteq ToSet(toParent)
        /\ child.cmdId <= child'.cmdId
        /\ child'.attached = child.attached /\ child'.destroyed = child.destroyed
        /\ child'.childQueue = child.childQueue /\ worker'.running = worker.running
    BY <1>0, <1>1 DEF Takes
  <2> QED BY <1>0, <2>1, <2>2, NumbersShrink
<1>5. RunsInv'
  <2>1. \A m \in worker.running : m.call \subseteq Calls
    BY <1>0 DEF Message
  <2> QED BY <1>0, <2>1 DEF RunsInv, Takes, CallsKept
<1>6. ResultIsOwn'
  BY <1>0 DEF ResultIsOwn
<1>7. HandlesInv'
  <2>1. \A i : LetGo(child, i) => LetGo(child', i)
    BY DEF LetGo, Takes
  <2> QED BY <1>0, <2>1 DEF HandlesInv, Known, Takes, CanSend
<1>8. ServedInv'
  <2> SUFFICES ASSUME NEW c \in Calls, Pending(c)', child'.alive, calls'[c].process = child'.process
               PROVE  Served(c)'
    BY DEF ServedInv
  <2>1. Served(c)
    BY <1>0 DEF ServedInv, Takes
  <2>2. CASE Lost(calls[c].inst) /\ calls[c].kind # "memory"
    BY <2>2 DEF Served, Lost, LetGo, Takes
  <2>3. ASSUME InFlight(c), NEW m \in child.queue \cup child.childQueue, m.call = {c}
        PROVE  Served(c)'
    <3>1. m.cmdId = calls[c].cmdId
      BY <1>0, <2>3 DEF NumbersInv, Sent, MessageInv
    <3>2. CASE m.cmdId = r.replyTo
      BY <2>2, <2>3, <3>2
    <3>3. CASE m.cmdId # r.replyTo
      <4>1. m \in child'.queue \cup child'.childQueue
        BY <2>3, <3>3 DEF Takes
      <4>2. InFlight(c)'
        BY <1>1, <2>3, <3>1, <3>3 DEF InFlight, Takes
      <4> QED BY <2>3, <4>1, <4>2 DEF Served
    <3> QED BY <3>2, <3>3
  <2> QED BY <2>1, <2>2, <2>3 DEF Served
<1> QED BY <1>2, <1>3, <1>4, <1>5, <1>6, <1>7, <1>8 DEF IInv

\* The reply finds the callback of its number, or its instance is gone.
LEMMA ReceiveReplyStep ==
  ASSUME IInv, ReceiveReply
  PROVE  IInv'
<1>00. PICK r : r = Head(toParent)
  OBVIOUS
<1>0. /\ TypeOK /\ LifeInv /\ NumbersInv
      /\ child \in Child /\ toParent \in Seq(Reply) /\ toParent # <<>>
      /\ child.queue \subseteq Message /\ child.methods \subseteq Calls
      /\ child.alive /\ toParent' = Tail(toParent) /\ UNCHANGED <<toWorker, worker, ops>>
      /\ r.from = "instance"
  BY <1>00 DEF IInv, TypeOK, Child, ReceiveReply
<1>1. r \in Reply /\ r \in ToSet(toParent) /\ toParent' \in Seq(Reply)
  BY <1>0, <1>00, ToSetTail, HeadTailProperties
<1>2. ReplyInv(r)
  BY <1>0, <1>1 DEF NumbersInv
<1>3. CASE /\ r.inst \notin child.instances \/ Callbacks(child, r) = {}
           /\ UNCHANGED <<child, calls>>
  <2>1. TypeOK'
    BY <1>0, <1>1, <1>3 DEF TypeOK
  <2>2. Takes(r) /\ CallsKept
    BY <1>0, <1>00, <1>3 DEF Takes, CallsKept
  <2>3. ASSUME NEW c \in Calls, NEW m \in child.queue \cup child.childQueue,
               m.call = {c}, m.cmdId = r.replyTo
        PROVE  Lost(calls[c].inst) /\ calls[c].kind # "memory"
    <3>1. m \in Sent /\ MessageInv(m) /\ Answers(r, m)
      BY <1>0, <1>2, <2>3 DEF Sent, NumbersInv, ReplyInv
    <3>2. m.cmd # "GET_MEM_USAGE" /\ m.inst = r.inst
      BY <1>0, <3>1 DEF Answers
    <3>3. calls[c].kind # "memory" /\ calls[c].inst = m.inst /\ m.inst \in child.attached
      BY <2>3, <3>1, <3>2 DEF MessageInv
    <3>4. m \in child.queue
      BY <1>0, <3>2 DEF NumbersInv
    <3>5. m.inst \notin child.instances
      BY <1>3, <2>3, <3>2, <3>4 DEF Callbacks
    <3> QED BY <1>0, <3>3, <3>5 DEF LifeInv, Lost, LetGo
  <2>4. calls' = calls /\ child' = child
    BY <1>3
  <2> QED BY <2>1, <2>2, <2>3, <2>4, TakesGood DEF Pending, IInv, ResultIsOwn
<1>4. ASSUME r.inst \in child.instances, NEW m \in Callbacks(child, r),
             child' = [child EXCEPT !.queue = @ \ {m}, !.methods = @ \ m.call,
                                    !.created = @ \cup (IF m.cmd = "INIT" /\ m.create /\ ~r.error
                                                        THEN {m.inst} ELSE {}),
                                    !.instances = @ \ (IF m.cmd = "KILL" THEN {m.inst} ELSE {})],
             calls' = SettleCall(calls, m, r)
      PROVE  IInv'
  <2>0. /\ m \in child.queue /\ m.cmdId = r.replyTo /\ m \in Message /\ m.inst \in Instances
        /\ m \in Sent /\ MessageInv(m)
    BY <1>0, <1>4 DEF Callbacks, Message, Sent, NumbersInv
  <2>1. /\ child' \in Child
        /\ child'.cmdId = child.cmdId /\ child'.queue = child.queue \ {m}
        /\ child'.childQueue = child.childQueue /\ child'.methods = child.methods \ m.call
        /\ child'.alive = child.alive /\ child'.isClosing = child.isClosing
        /\ child'.registered = child.registered /\ child'.restarts = child.restarts
        /\ child'.process = child.process
        /\ child'.instances = child.instances \ (IF m.cmd = "KILL" THEN {m.inst} ELSE {})
        /\ child'.attached = child.attached /\ child'.initialized = child.initialized
        /\ child'.destroyed = child.destroyed /\ child'.detaching = child.detaching
    <3> DEFINE created == IF m.cmd = "INIT" /\ m.create /\ ~r.error THEN {m.inst} ELSE {}
               detached == IF m.cmd = "KILL" THEN {m.inst} ELSE {}
    <3>1. created \subseteq Instances
      BY <2>0
    <3>2. child' = [child EXCEPT !.queue = @ \ {m}, !.methods = @ \ m.call,
                                 !.created = @ \cup created, !.instances = @ \ detached]
      BY <1>4
    <3> HIDE DEF created, detached
    <3>3. /\ child' \in Child
          /\ child'.cmdId = child.cmdId /\ child'.queue = child.queue \ {m}
          /\ child'.childQueue = child.childQueue /\ child'.methods = child.methods \ m.call
          /\ child'.alive = child.alive /\ child'.isClosing = child.isClosing
          /\ child'.registered = child.registered /\ child'.restarts = child.restarts
          /\ child'.process = child.process
          /\ child'.instances = child.instances \ detached
          /\ child'.attached = child.attached /\ child'.initialized = child.initialized
          /\ child'.destroyed = child.destroyed /\ child'.detaching = child.detaching
      BY <1>0, <3>1, <3>2 DEF Child
    <3> QED BY <3>3 DEF detached
  <2>2. /\ calls' \in [Calls -> Call] /\ CallsKept
        /\ \A c \in Calls :
             /\ calls'[c].kind = calls[c].kind /\ calls'[c].inst = calls[c].inst
             /\ calls'[c].cmdId = calls[c].cmdId /\ calls'[c].process = calls[c].process
             /\ calls'[c].runs = calls[c].runs
             /\ \/ calls'[c] = calls[c]
                \/ /\ c \in m.call /\ Pending(c)
                   /\ \/ calls'[c].state = "rejected" /\ calls'[c].answer = calls[c].answer
                      \/ /\ calls'[c].state = "resolved" /\ calls'[c].answer = {c}
                         /\ calls[c].runs = 1
        /\ \A c \in m.call : ~Pending(c)' /\ m.call = {c}
    BY <1>1, <1>4, <2>0, SettleCallOwn
  <2>3. TypeOK'
    BY <1>0, <1>1, <2>1, <2>2 DEF TypeOK
  <2>4. Takes(r)
    <3>1. child.instances \ child'.instances \subseteq child.destroyed
      BY <2>0, <2>1 DEF MessageInv
    <3> QED BY <1>0, <1>00, <2>0, <2>1, <3>1 DEF Takes
  <2>5. ASSUME NEW c \in Calls, NEW n \in child.queue \cup child.childQueue,
               Pending(c)', n.call = {c}, n.cmdId = r.replyTo
        PROVE  FALSE
    <3>1. n = m
      BY <1>0, <2>0, <2>5 DEF Sent, NumbersInv
    <3> QED BY <2>2, <2>5, <3>1
  <2>6. \A c \in Calls :
          /\ Pending(c)' => Pending(c)
          /\ calls'[c].state = "resolved" =>
               \/ calls[c].state = "resolved" /\ calls'[c].answer = calls[c].answer
               \/ calls'[c].answer = {c} /\ calls[c].runs = 1
          /\ Pending(c)' /\ c \in child.methods => c \in child'.methods
    BY <2>1, <2>2 DEF Pending
  <2> QED BY <2>2, <2>3, <2>4, <2>5, <2>6, TakesGood
<1> QED BY <1>00, <1>3, <1>4, Zenon DEF ReceiveReply

\* _onMessageFromChild deletes from the wrong queue; it never finds anything
\* there.
LEMMA ReceiveChildReplyStep ==
  ASSUME IInv, ReceiveChildReply
  PROVE  IInv'
<1>00. PICK r : r = Head(toParent)
  OBVIOUS
<1>0. /\ TypeOK /\ LifeInv /\ NumbersInv
      /\ child \in Child /\ toParent \in Seq(Reply) /\ toParent # <<>>
      /\ child.queue \subseteq Message /\ child.methods \subseteq Calls
      /\ child.alive /\ toParent' = Tail(toParent) /\ UNCHANGED <<toWorker, worker, ops>>
  BY DEF IInv, TypeOK, Child, ReceiveChildReply
<1>1. r \in Reply /\ r \in ToSet(toParent) /\ toParent' \in Seq(Reply)
  BY <1>0, <1>00, ToSetTail, HeadTailProperties
<1>2. PICK m \in child.childQueue :
        /\ m.cmdId = r.replyTo
        /\ child' = [child EXCEPT !.queue = @ \ Callbacks(child, r)]
        /\ calls' = SettleCall(calls, m, r)
  BY <1>00 DEF ReceiveChildReply
<1>3. /\ child' \in Child
      /\ child'.cmdId = child.cmdId /\ child'.queue = child.queue \ Callbacks(child, r)
      /\ child'.childQueue = child.childQueue /\ child'.methods = child.methods
      /\ child'.alive = child.alive /\ child'.isClosing = child.isClosing
      /\ child'.registered = child.registered /\ child'.restarts = child.restarts
      /\ child'.process = child.process /\ child'.instances = child.instances
      /\ child'.attached = child.attached /\ child'.initialized = child.initialized
      /\ child'.destroyed = child.destroyed /\ child'.detaching = child.detaching
  BY <1>0, <1>2 DEF Child
<1>4. /\ calls' \in [Calls -> Call] /\ CallsKept
      /\ \A c \in Calls :
           /\ calls'[c].kind = calls[c].kind /\ calls'[c].inst = calls[c].inst
           /\ calls'[c].cmdId = calls[c].cmdId /\ calls'[c].process = calls[c].process
           /\ calls'[c].runs = calls[c].runs
           /\ \/ calls'[c] = calls[c]
              \/ /\ c \in m.call /\ Pending(c)
                 /\ \/ calls'[c].state = "rejected" /\ calls'[c].answer = calls[c].answer
                    \/ /\ calls'[c].state = "resolved" /\ calls'[c].answer = {c}
                       /\ calls[c].runs = 1
      /\ \A c \in m.call : ~Pending(c)' /\ m.call = {c}
  BY <1>1, <1>2, SettleCallOwn
<1>5. TypeOK'
  BY <1>0, <1>1, <1>3, <1>4 DEF TypeOK
<1>6. Takes(r)
  BY <1>0, <1>00, <1>3 DEF Takes, Callbacks
<1>7. ASSUME NEW c \in Calls, NEW n \in child.queue \cup child.childQueue,
             Pending(c)', n.call = {c}, n.cmdId = r.replyTo
      PROVE  FALSE
  <2>1. n = m
    BY <1>0, <1>2, <1>7 DEF Sent, NumbersInv
  <2> QED BY <1>4, <1>7, <2>1
<1>8. \A c \in Calls :
        /\ Pending(c)' => Pending(c)
        /\ calls'[c].state = "resolved" =>
             \/ calls[c].state = "resolved" /\ calls'[c].answer = calls[c].answer
             \/ calls'[c].answer = {c} /\ calls[c].runs = 1
        /\ Pending(c)' /\ c \in child.methods => c \in child'.methods
  BY <1>3, <1>4 DEF Pending
<1> QED BY <1>4, <1>5, <1>6, <1>7, <1>8, TakesGood

-----------------------------------------------------------------------------
(***************************************************************************)
(* The invariant.                                                          *)
(***************************************************************************)
LEMMA InitGood == Init => IInv
<1> SUFFICES ASSUME Init PROVE IInv
  OBVIOUS
<1>1. PICK i \in Instances :
        LET inits == Inits(NewChild(i), <<i>>, TRUE)
        IN /\ child = Enqueue(NewChild(i), inits)
           /\ calls = [c \in Calls |-> NewCall(i)]
           /\ toWorker = inits
           /\ toParent = <<>>
           /\ worker = NewWorker
           /\ ops = 0
  BY DEF Init
<1>2. /\ NewChild(i) \in Child /\ NewChild(i).cmdId = 0
      /\ NewChild(i).queue = {} /\ NewChild(i).childQueue = {} /\ NewChild(i).methods = {}
      /\ NewChild(i).alive /\ NewChild(i).registered /\ NewChild(i).process = 1
      /\ NewChild(i).instances = {i} /\ NewChild(i).attached = {i}
      /\ NewChild(i).initialized = {i} /\ NewChild(i).destroyed = {}
      /\ NewChild(i).detaching = {} /\ NewChild(i).restarts = <<>>
  BY DEF NewChild, Child
<1>3. <<i>> \in Seq(Instances) /\ Len(<<i>>) = 1 /\ <<i>>[1] = i
  OBVIOUS
<1> DEFINE base == NewChild(i)
<1>3a. base \in Child /\ base.cmdId = 0
  BY <1>2
<1>3b. toWorker = Inits(base, <<i>>, TRUE) /\ child = Enqueue(base, toWorker)
  BY <1>1
<1>4. /\ toWorker \in Seq(Message) /\ Len(toWorker) = 1
      /\ toWorker[1].cmd = "INIT" /\ toWorker[1].cmdId = 0
      /\ toWorker[1].inst = i /\ toWorker[1].call = {}
  <2> DEFINE order == <<i>>
  <2>1. order \in Seq(Instances) /\ Len(order) = 1 /\ order[1] = i
    BY <1>3
  <2>2. toWorker = Inits(base, order, TRUE)
    BY <1>3b
  <2> HIDE DEF base, order
  <2>3. /\ toWorker \in Seq(Message) /\ Len(toWorker) = Len(order)
        /\ \A k \in 1..Len(order) :
             /\ toWorker[k].cmd = "INIT" /\ toWorker[k].cmdId = base.cmdId + k - 1
             /\ toWorker[k].inst = order[k] /\ toWorker[k].call = {}
    <3> DEFINE ms == Inits(base, order, TRUE)
    <3>1. /\ ms \in Seq(Message) /\ Len(ms) = Len(order)
          /\ \A k \in 1..Len(order) :
               /\ ms[k].cmd = "INIT" /\ ms[k].cmdId = base.cmdId + k - 1
               /\ ms[k].inst = order[k] /\ ms[k].call = {}
      BY <1>3a, <2>1, InitsFields, Zenon
    <3> HIDE DEF ms
    <3>2. toWorker = ms
      BY <2>2 DEF ms
    <3> QED BY <3>1, <3>2, Zenon
  <2>4. 1 \in 1..Len(order)
    BY <2>1
  <2> QED BY <1>3a, <2>1, <2>3, <2>4
<1>5. DOMAIN toWorker = {1} /\ ToSet(toWorker) = {toWorker[1]}
  <2>1. DOMAIN toWorker = 1..1
    BY <1>4, LenProperties
  <2>2. \A k \in 1..1 : k = 1
    OBVIOUS
  <2> QED BY <2>1, <2>2 DEF ToSet
<1>6. /\ child \in Child /\ child.cmdId = 1
      /\ child.queue = {toWorker[1]} /\ child.childQueue = {} /\ child.methods = {}
      /\ child.alive /\ child.registered /\ child.process = 1
      /\ child.instances = {i} /\ child.attached = {i}
      /\ child.initialized = {i} /\ child.destroyed = {}
      /\ child.detaching = {} /\ child.restarts = <<>>
  <2>1. /\ base.queue = {} /\ base.childQueue = {} /\ base.methods = {}
        /\ base.alive /\ base.registered /\ base.process = 1
        /\ base.instances = {i} /\ base.attached = {i}
        /\ base.initialized = {i} /\ base.destroyed = {}
        /\ base.detaching = {} /\ base.restarts = <<>>
    BY <1>2
  <2> HIDE DEF base
  <2>2. PICK e : e = Enqueue(base, toWorker)
    OBVIOUS
  <2>3. /\ e \in Child
        /\ e.cmdId = base.cmdId + Len(toWorker) /\ e.queue = base.queue \cup ToSet(toWorker)
        /\ e.registered = base.registered /\ e.alive = base.alive
        /\ e.process = base.process
        /\ e.instances = base.instances /\ e.attached = base.attached
        /\ e.initialized = base.initialized
        /\ e.detaching = base.detaching /\ e.destroyed = base.destroyed
        /\ e.restarts = base.restarts
        /\ e.childQueue = base.childQueue /\ e.methods = base.methods
    <3>1. Enqueued(e, base, toWorker)
      BY <1>3a, <1>4, <2>2, EnqueueFields
    <3> QED BY <3>1 DEF Enqueued
  <2>4. child = e
    BY <1>3b, <2>2
  <2>5. /\ child \in Child
        /\ child.registered = base.registered /\ child.alive = base.alive
        /\ child.process = base.process
        /\ child.instances = base.instances /\ child.attached = base.attached
        /\ child.initialized = base.initialized
        /\ child.detaching = base.detaching /\ child.destroyed = base.destroyed
        /\ child.restarts = base.restarts
        /\ child.childQueue = base.childQueue /\ child.methods = base.methods
    BY <2>3, <2>4, Zenon
  <2>6. child.cmdId = 0 + 1 /\ child.queue = {} \cup {toWorker[1]}
    BY <1>3a, <1>4, <1>5, <2>1, <2>3, <2>4, Zenon
  <2>7. child.cmdId = 1 /\ child.queue = {toWorker[1]}
    BY <2>6
  <2> HIDE DEF base
  <2> QED BY <2>1, <2>5, <2>7, Zenon
<1>7. /\ calls \in [Calls -> Call]
      /\ \A c \in Calls : /\ calls[c].state = "idle" /\ calls[c].runs = 0
                          /\ calls[c].process = 0
  BY <1>1 DEF NewCall, Call
<1>8. worker \in Worker /\ worker.running = {}
  BY <1>1 DEF Worker, NewWorker
<1>9. TypeOK
  <2>1. toParent = <<>> /\ ops = 0
    BY <1>1
  <2>2. toParent \in Seq(Reply) /\ ops \in Nat
    BY <2>1, EmptySeq
  <2> QED BY <1>4, <1>6, <1>7, <1>8, <2>2 DEF TypeOK
<1>10. Sent = {toWorker[1]}
  BY <1>5, <1>6, <1>8 DEF Sent
<1>11. NumbersInv
  <2>1. MessageInv(toWorker[1])
    BY <1>4, <1>6 DEF MessageInv
  <2>2. ToSet(toParent) = {}
    BY <1>1, ToSetEmpty
  <2> QED BY <1>6, <1>8, <1>10, <2>1, <2>2 DEF NumbersInv
<1>12. RunsInv
  BY <1>5, <1>7, <1>8 DEF RunsInv
<1>13. ResultIsOwn /\ LifeInv /\ AbortInv /\ ServedInv
  <2>1. LifeInv
    BY <1>6 DEF LifeInv
  <2> QED BY <1>6, <1>7, <2>1 DEF ResultIsOwn, AbortInv, ServedInv, Pending
<1>14. HandlesInv
  BY <1>4, <1>5, <1>6 DEF HandlesInv, Known
<1> QED BY <1>9, <1>11, <1>12, <1>13, <1>14 DEF IInv

\* Every step keeps the invariant.
LEMMA NextGood == IInv /\ [Next]_vars => IInv'
<1> SUFFICES ASSUME IInv, [Next]_vars PROVE IInv'
  OBVIOUS
<1>1. CASE \E c \in Calls, kind \in Kinds \ {"memory"}, i \in Instances : Issue(c, kind, i)
  BY <1>1, IssueStep
<1>2. CASE \E c \in Calls : AskMemory(c)
  BY <1>2, AskMemoryStep
<1>3. CASE \E i \in Instances : Attach(i)
  BY <1>3, AttachStep
<1>4. CASE \E i \in Instances : Destroy(i)
  BY <1>4, DestroyStep
<1>5. CASE (\E cleanUp \in BOOLEAN : KillChild(cleanUp)) \/ ForceRestart \/ KillTimeout
  BY <1>5, KillChildMarks, ForceRestartMarks, KillTimeoutMarks, MarksGood
<1>6. CASE Crash \/ Terminated
  <2>1. Close /\ ops' \in Nat
    BY <1>6 DEF Crash, Terminated, Op, IInv, TypeOK
  <2> QED BY <2>1, CloseStep
<1>7. CASE DetachTimeout \/ ChildHasCrashed \/ RestartChild \/ ResumeRestart
  BY <1>7, DetachTimeoutStep, ChildHasCrashedStep, RestartChildStep, ResumeRestartStep
<1>8. CASE WorkerReceives \/ Return \/ ReceiveReply \/ ReceiveChildReply
  BY <1>8, WorkerReceivesStep, ReturnStep, ReceiveReplyStep, ReceiveChildReplyStep
<1>9. CASE UNCHANGED vars
  <2>1. TypeOK' /\ RunsInv' /\ ResultIsOwn' /\ LifeInv' /\ AbortInv' /\ HandlesInv'
    BY <1>9 DEF vars, IInv, TypeOK, RunsInv, ResultIsOwn, LifeInv, AbortInv, HandlesInv, Pending,
                Known, LetGo
  <2>2. NumbersInv'
    BY <1>9 DEF vars, IInv, NumbersInv, Sent, MessageInv, ReplyInv
  <2>3. ServedInv'
    BY <1>9 DEF vars, IInv, ServedInv, Served, InFlight, Lost, LetGo, Pending
  <2> QED BY <2>1, <2>2, <2>3 DEF IInv
<1> QED BY <1>1, <1>2, <1>3, <1>4, <1>5, <1>6, <1>7, <1>8, <1>9 DEF Next

\* The inductive invariant holds of every state of the system.
THEOREM Invariance == Spec => []IInv
BY InitGood, NextGood, PTL DEF Spec

\* The manager's child, the calls, the messages on their way and the worker stay
\* of their types (TypeOK): in particular the numbers of messages never shrink.
THEOREM TypeCorrect == Spec => []TypeOK
<1>1. IInv => TypeOK
  BY DEF IInv
<1> QED BY Invariance, <1>1, PTL

\* A promise resolves with the result of the only run of its own call
\* (ResultIsOwn), however the replies and the processes interleave.
THEOREM ResultsAreOwn == Spec => []ResultIsOwn
<1>1. IInv => ResultIsOwn
  BY DEF IInv
<1> QED BY Invariance, <1>1, PTL

\* Nothing is forgotten: a pending method call belongs to the live process, and
\* its message, its run or its reply is still there, with the callback, unless
\* its instance is lost (PendingIsInFlight).
THEOREM NothingIsForgotten == Spec => []PendingIsInFlight
<1>1. IInv => PendingIsInFlight
  <2> SUFFICES ASSUME IInv, NEW c \in Calls, Pending(c)
               PROVE  /\ calls[c].kind = "method" =>
                           child.alive /\ calls[c].process = child.process
                      /\ child.alive /\ calls[c].process = child.process => Served(c)
    BY DEF PendingIsInFlight, Served
  <2>1. ASSUME calls[c].kind = "method"
        PROVE  child.alive /\ calls[c].process = child.process
    BY <2>1 DEF IInv, AbortInv
  <2>2. child.alive /\ calls[c].process = child.process => Served(c)
    BY DEF IInv, ServedInv
  <2> QED BY <2>1, <2>2
<1> QED BY Invariance, <1>1, PTL

-----------------------------------------------------------------------------
(***************************************************************************)
(* What a step does to the calls.                                          *)
(***************************************************************************)
\* One call is made; it waits for its reply, or is refused.
Made(c) ==
  /\ calls[c].state = "idle"
  /\ \E call : /\ calls' = [calls EXCEPT ![c] = call]
               /\ call.state \in {"pending", "rejected"}
               /\ call.runs = calls[c].runs
               /\ call.answer = calls[c].answer

\* The reply of a message settles its call.
Settled ==
  \E m \in child.queue \cup child.childQueue, r \in ToSet(toParent) :
    m.cmdId = r.replyTo /\ calls' = SettleCall(calls, m, r)

\* A step leaves the calls, makes one, runs one, settles one, or aborts some.
LEMMA CallsChange ==
  ASSUME IInv, Next
  PROVE  \/ calls' = calls
         \/ \E c \in Calls : Made(c)
         \/ \E m : Receives(m) /\ calls' = Ran(calls, m)
         \/ Settled
         \/ calls' = AbortMethods(calls, child)
<1>0. /\ calls \in [Calls -> Call] /\ toParent \in Seq(Reply)
  BY DEF IInv, TypeOK
<1>1. ASSUME NEW c \in Calls, NEW kind \in Kinds \ {"memory"}, NEW i \in Instances,
             Issue(c, kind, i)
      PROVE  Made(c)
  <2> DEFINE call == [calls[c] EXCEPT !.kind = kind, !.inst = i, !.cmdId = child.cmdId,
                                      !.process = child.process]
  <2>1. calls[c].state = "idle"
    BY <1>1 DEF Issue
  <2>2. \/ calls' = [calls EXCEPT ![c] = [call EXCEPT !.state = "pending"]]
        \/ calls' = [calls EXCEPT ![c] = [call EXCEPT !.state = "rejected"]]
    BY <1>1, Zenon DEF Issue
  <2>3. \A s \in {"pending", "rejected"} :
          /\ [call EXCEPT !.state = s].state = s
          /\ [call EXCEPT !.state = s].runs = calls[c].runs
          /\ [call EXCEPT !.state = s].answer = calls[c].answer
    BY <1>0 DEF Call
  <2> HIDE DEF call
  <2> QED BY <2>1, <2>2, <2>3 DEF Made
<1>2. ASSUME NEW c \in Calls, AskMemory(c) PROVE Made(c)
  <2> DEFINE call == [calls[c] EXCEPT !.kind = "memory", !.cmdId = child.cmdId,
                                      !.process = child.process]
  <2>1. calls[c].state = "idle"
    BY <1>2 DEF AskMemory
  <2>2. \/ calls' = [calls EXCEPT ![c] = [call EXCEPT !.state = "pending"]]
        \/ calls' = [calls EXCEPT ![c] = [call EXCEPT !.state = "rejected"]]
    BY <1>2, Zenon DEF AskMemory
  <2>3. \A s \in {"pending", "rejected"} :
          /\ [call EXCEPT !.state = s].state = s
          /\ [call EXCEPT !.state = s].runs = calls[c].runs
          /\ [call EXCEPT !.state = s].answer = calls[c].answer
    BY <1>0 DEF Call
  <2> HIDE DEF call
  <2> QED BY <2>1, <2>2, <2>3 DEF Made
<1>3. ASSUME WorkerReceives
      PROVE  \/ calls' = calls
             \/ \E m : Receives(m) /\ calls' = Ran(calls, m)
  BY <1>3 DEF WorkerReceives, Construct, ConstructorThrows, LoadThrows, DropMessage,
              RunFunction, RunSet, KillInstance, ReplyMemory
<1>4. toParent # <<>> => Head(toParent) \in ToSet(toParent)
  BY <1>0, ToSetTail
<1>5. ASSUME ReceiveReply PROVE calls' = calls \/ Settled
  <2> DEFINE r == Head(toParent)
  <2>1. \/ calls' = calls
        \/ \E m \in Callbacks(child, r) : calls' = SettleCall(calls, m, r)
    BY <1>5, Zenon DEF ReceiveReply
  <2>2. r \in ToSet(toParent)
    <3>1. toParent # <<>>
      BY <1>5, Zenon DEF ReceiveReply
    <3> QED BY <1>4, <3>1
  <2> HIDE DEF r
  <2> QED BY <2>1, <2>2 DEF Callbacks, Settled
<1>6. ASSUME ReceiveChildReply PROVE Settled
  <2> DEFINE r == Head(toParent)
  <2>1. \E m \in child.childQueue : m.cmdId = r.replyTo /\ calls' = SettleCall(calls, m, r)
    BY <1>6, Zenon DEF ReceiveChildReply
  <2>2. r \in ToSet(toParent)
    BY <1>4, <1>6 DEF ReceiveChildReply
  <2> HIDE DEF r
  <2> QED BY <2>1, <2>2 DEF Settled
<1>7. ASSUME Close PROVE calls' = AbortMethods(calls, child)
  BY <1>7 DEF Close
<1>8. ASSUME ChildHasCrashed PROVE calls' = AbortMethods(calls, child)
  BY <1>8 DEF ChildHasCrashed
<1>9. ASSUME \/ \E i \in Instances : Attach(i) \/ Destroy(i)
             \/ DetachTimeout
             \/ \E cleanUp \in BOOLEAN : KillChild(cleanUp)
             \/ ForceRestart \/ KillTimeout
             \/ RestartChild \/ ResumeRestart
             \/ Return
      PROVE  calls' = calls
  BY <1>9, Zenon DEF Attach, Destroy, DetachTimeout, KillChild, ForceRestart, KillTimeout,
                     RestartChild, ResumeRestart, Return
<1> QED BY <1>1, <1>2, <1>3, <1>5, <1>6, <1>7, <1>8, <1>9, Zenon DEF Next, Crash, Terminated

\* Calls start in the order in which they were made (CallOrder): the message of
\* a call that has run is behind everything that is still on its way.
THEOREM CallsStartInOrder == Spec => CallOrder
<1> DEFINE Ordered ==
      \A c, d \in Calls :
        (calls'[c].runs > calls[c].runs /\ calls[d].runs > 0) => calls[d].cmdId < calls[c].cmdId
<1>1. ASSUME IInv, Next PROVE Ordered
  <2> SUFFICES ASSUME NEW c \in Calls, NEW d \in Calls,
                      calls'[c].runs > calls[c].runs, calls[d].runs > 0
               PROVE  calls[d].cmdId < calls[c].cmdId
    OBVIOUS
  <2>0. /\ calls \in [Calls -> Call] /\ calls[c].runs \in Nat /\ calls[d].runs \in Nat
    BY <1>1 DEF IInv, TypeOK, Call
  <2>1. CASE calls' = calls
    BY <2>0, <2>1
  <2>2. CASE \E e \in Calls : Made(e)
    BY <2>0, <2>2 DEF Made
  <2>3. CASE \E m : Receives(m) /\ calls' = Ran(calls, m)
    <3>1. PICK m : Receives(m) /\ calls' = Ran(calls, m)
      BY <2>3
    <3>2. c \in m.call
      <4>1. calls'[c].runs = calls[c].runs \/ c \in m.call
        BY <1>1, <3>1, RanCalls, Zenon
      <4> QED BY <2>0, <4>1
    <3>3. calls[c].cmdId = m.cmdId /\ toWorker[1] = m /\ 1 \in DOMAIN toWorker
      BY <1>1, <3>1, <3>2, ReceivesFields
    <3>4. \A k \in DOMAIN toWorker : calls[d].cmdId < toWorker[k].cmdId
      BY <1>1, <2>0 DEF IInv, RunsInv
    <3> QED BY <3>3, <3>4
  <2>4. CASE Settled
    <3>1. calls'[c].runs = calls[c].runs
      BY <1>1, <2>4, SettleCallOwn DEF Settled
    <3> QED BY <2>0, <3>1
  <2>5. CASE calls' = AbortMethods(calls, child)
    <3>1. calls'[c].runs = calls[c].runs
      BY <1>1, <2>5, AbortMethodsCalls DEF IInv
    <3> QED BY <2>0, <3>1
  <2> QED BY <1>1, <2>1, <2>2, <2>3, <2>4, <2>5, CallsChange
<1>2. IInv /\ [Next]_vars => [Ordered]_vars
  BY <1>1
<1> HIDE DEF Ordered
<1>3. Spec => [][Ordered]_vars
  BY Invariance, <1>2, PTL DEF Spec
<1> QED BY <1>3 DEF CallOrder, Ordered

-----------------------------------------------------------------------------
(***************************************************************************)
(* The calls implement AsyncCalls, whose variables are read off calls.     *)
(***************************************************************************)
\* Initially no call has been made.
LEMMA AbstractInit == Init => Abstract!Init
<1> SUFFICES ASSUME Init PROVE Abstract!Init
  OBVIOUS
<1>1. PICK i \in Instances : calls = [c \in Calls |-> NewCall(i)]
  BY Zenon DEF Init
<1>2. \A c \in Calls : /\ calls[c].state = "idle" /\ calls[c].runs = 0
                       /\ calls[c].answer = {}
  BY <1>1 DEF NewCall
<1> QED BY <1>2 DEF Abstract!Init

\* Each step makes, runs, resolves or rejects calls as AsyncCalls does, or does
\* nothing to them.
LEMMA AbstractStep ==
  IInv /\ [Next]_vars => [Abstract!Next]_(Abstract!vars)
<1> SUFFICES ASSUME IInv, [Next]_vars PROVE [Abstract!Next]_(Abstract!vars)
  OBVIOUS
<1> DEFINE state == [c \in Calls |-> calls[c].state]
           runs == [c \in Calls |-> calls[c].runs]
           answer == [c \in Calls |-> calls[c].answer]
<1>0. /\ calls \in [Calls -> Call] /\ calls' \in [Calls -> Call]
  BY NextGood DEF IInv, TypeOK
<1>1. ASSUME \A c \in Calls : /\ calls'[c].state = calls[c].state
                              /\ calls'[c].runs = calls[c].runs
                              /\ calls'[c].answer = calls[c].answer
      PROVE  [Abstract!Next]_(Abstract!vars)
  <2>1. state' = state /\ runs' = runs /\ answer' = answer
    BY <1>1
  <2> QED BY <2>1 DEF Abstract!vars
<1>2. CASE calls' = calls
  BY <1>1, <1>2
<1>3. ASSUME NEW c \in Calls, Made(c) PROVE Abstract!Next
  <2>1. PICK call : /\ calls' = [calls EXCEPT ![c] = call]
                    /\ call.state \in {"pending", "rejected"}
                    /\ call.runs = calls[c].runs
                    /\ call.answer = calls[c].answer
    BY <1>3 DEF Made
  <2>2. /\ state[c] = "idle" /\ state' = [state EXCEPT ![c] = call.state]
        /\ runs' = runs /\ answer' = answer
    BY <1>0, <1>3, <2>1 DEF Made
  <2>3. Abstract!Issue(c)
    BY <2>1, <2>2 DEF Abstract!Issue
  <2> QED BY <2>3 DEF Abstract!Next
<1>4. ASSUME NEW m, Receives(m), calls' = Ran(calls, m) PROVE [Abstract!Next]_(Abstract!vars)
  <2>0. /\ \A c \in Calls : /\ calls'[c].state = calls[c].state
                            /\ calls'[c].answer = calls[c].answer
                            /\ calls'[c].runs = calls[c].runs \/ c \in m.call
        /\ \A c \in m.call : calls'[c].runs = 1
    BY <1>4, RanCalls, Zenon
  <2>1. CASE m.call = {}
    BY <1>1, <2>0, <2>1
  <2>2. ASSUME NEW c \in m.call PROVE Abstract!Next
    <3>1. c \in Calls /\ m.call = {c} /\ calls[c].runs = 0 /\ calls[c].state # "idle"
      BY <1>4, ReceivesFields
    <3>2. /\ state[c] # "idle" /\ runs[c] = 0
          /\ state' = state /\ answer' = answer
          /\ runs' = [runs EXCEPT ![c] = 1]
      BY <2>0, <3>1
    <3>3. Abstract!Run(c)
      BY <3>2 DEF Abstract!Run
    <3> QED BY <3>1, <3>3 DEF Abstract!Next
  <2> QED BY <2>1, <2>2
<1>5. CASE Settled
  <2>1. PICK m \in child.queue \cup child.childQueue, r \in ToSet(toParent) :
          m.cmdId = r.replyTo /\ calls' = SettleCall(calls, m, r)
    BY <1>5 DEF Settled
  <2>2. /\ \A c \in Calls :
             /\ calls'[c].runs = calls[c].runs
             /\ \/ calls'[c] = calls[c]
                \/ /\ c \in m.call /\ Pending(c)
                   /\ \/ calls'[c].state = "rejected" /\ calls'[c].answer = calls[c].answer
                      \/ /\ calls'[c].state = "resolved" /\ calls'[c].answer = {c}
                         /\ calls[c].runs = 1
        /\ \A c \in m.call : m.call = {c}
    BY <2>1, SettleCallOwn, Zenon
  <2>3. CASE \A c \in Calls : calls'[c] = calls[c]
    BY <1>1, <2>3
  <2>4. ASSUME NEW c \in Calls, calls'[c] # calls[c] PROVE Abstract!Next
    <3>1. m.call = {c} /\ Pending(c) /\ runs' = runs
      BY <2>2, <2>4
    <3>2. \A d \in Calls : d # c => calls'[d] = calls[d]
      BY <2>2, <3>1
    <3>3. CASE calls'[c].state = "rejected" /\ calls'[c].answer = calls[c].answer
      <4>1. /\ \A d \in {c} : state[d] = "pending"
            /\ state' = [d \in Calls |-> IF d \in {c} THEN "rejected" ELSE state[d]]
            /\ answer' = answer
        BY <3>1, <3>2, <3>3 DEF Pending
      <4>2. Abstract!Reject({c})
        BY <3>1, <4>1 DEF Abstract!Reject
      <4> QED BY <4>2 DEF Abstract!Next
    <3>4. CASE calls'[c].state = "resolved" /\ calls'[c].answer = {c} /\ calls[c].runs = 1
      <4>1. /\ state[c] = "pending" /\ runs[c] = 1
            /\ state' = [state EXCEPT ![c] = "resolved"]
            /\ answer' = [answer EXCEPT ![c] = {c}]
        BY <3>1, <3>2, <3>4 DEF Pending
      <4>2. Abstract!Resolve(c)
        BY <3>1, <4>1 DEF Abstract!Resolve
      <4> QED BY <4>2 DEF Abstract!Next
    <3> QED BY <2>2, <2>4, <3>3, <3>4
  <2> QED BY <2>3, <2>4
<1>6. CASE calls' = AbortMethods(calls, child)
  <2> DEFINE S == {c \in Calls : c \in child.methods /\ Pending(c)}
  <2>1. \A c \in Calls :
          /\ calls'[c].runs = calls[c].runs /\ calls'[c].answer = calls[c].answer
          /\ calls'[c].state = IF c \in S THEN "rejected" ELSE calls[c].state
    BY <1>6, AbortMethodsCalls DEF IInv
  <2>2. PICK T \in SUBSET Calls : T = S
    OBVIOUS
  <2>3. /\ \A c \in T : state[c] = "pending"
        /\ state' = [c \in Calls |-> IF c \in T THEN "rejected" ELSE state[c]]
        /\ runs' = runs /\ answer' = answer
    BY <2>1, <2>2 DEF Pending
  <2>4. Abstract!Reject(T)
    BY <2>3 DEF Abstract!Reject
  <2>5. \E U \in SUBSET Calls : Abstract!Reject(U)
    BY <2>4
  <2>6. Abstract!Next
    BY <2>5 DEF Abstract!Next
  <2> QED BY <2>6
<1>7. CASE UNCHANGED vars
  BY <1>2, <1>7 DEF vars
<1> QED BY <1>2, <1>3, <1>4, <1>5, <1>6, <1>7, CallsChange

\* The calls of a proxy are asynchronous calls (ImplementsAsyncCalls): made once,
\* run at most once, resolved with their own result, otherwise rejected.
THEOREM CallsAreAsyncCalls == Spec => ImplementsAsyncCalls
BY Invariance, AbstractInit, AbstractStep, PTL DEF Spec, ImplementsAsyncCalls, Abstract!Spec

-----------------------------------------------------------------------------
(***************************************************************************)
(* The answers to INITs.                                                   *)
(***************************************************************************)
\* What the steps that send, or that only flags depend on, do: what is on its
\* way stays, a new callback comes with its message, and a fork begins with a
\* number that no INIT before it has.
Grows ==
  /\ ToSet(toWorker) \subseteq ToSet(toWorker')
  /\ ToSet(toParent) \subseteq ToSet(toParent')
  /\ \A m \in child'.queue : m \in child.queue \/ m \in ToSet(toWorker')
  /\ child'.instances \cap child.attached \subseteq child.instances
  /\ child'.alive => \/ child.alive /\ child'.firstCmdId = child.firstCmdId
                     \/ child'.firstCmdId = child.cmdId

\* Such a step leaves every INIT with what it had of an answer.
LEMMA GrowsAnswered ==
  ASSUME IInv, InitIsAnswered, Grows
  PROVE  InitIsAnswered'
<1> SUFFICES ASSUME NEW m \in child'.queue,
                    m.cmd = "INIT" /\ child'.alive /\ m.cmdId >= child'.firstCmdId
             PROVE  \/ m \in ToSet(toWorker')
                    \/ \E r \in ToSet(toParent') : r.replyTo = m.cmdId
                    \/ m.inst \notin child'.instances
  BY DEF InitIsAnswered
<1>1. CASE m \notin child.queue
  BY <1>1 DEF Grows
<1>2. CASE m \in child.queue
  <2>1. MessageInv(m) /\ m.cmdId \in Nat /\ child.cmdId \in Nat
    BY <1>2 DEF IInv, TypeOK, Child, Message, NumbersInv, Sent
  <2>2. m.cmdId < child.cmdId /\ m.inst \in child.attached
    BY <2>1 DEF MessageInv
  <2>3. child.alive /\ child'.firstCmdId = child.firstCmdId
    BY <2>1, <2>2 DEF Grows
  <2>4. \/ m \in ToSet(toWorker)
        \/ \E r \in ToSet(toParent) : r.replyTo = m.cmdId
        \/ m.inst \notin child.instances
    BY <1>2, <2>3 DEF InitIsAnswered
  <2> QED BY <2>2, <2>4 DEF Grows
<1> QED BY <1>1, <1>2

\* Sending ms to a child that has the queue of ch grows.
LEMMA EnqueueGrows ==
  ASSUME IInv, NEW ch \in Child, NEW ms \in Seq(Message),
         ch.queue = child.queue, ch.instances \cap child.attached \subseteq child.instances,
         \/ ch.alive = child.alive /\ ch.firstCmdId = child.firstCmdId
         \/ ch.firstCmdId = child.cmdId,
         child'.queue = Enqueue(ch, ms).queue,
         child'.instances = Enqueue(ch, ms).instances,
         child'.alive = Enqueue(ch, ms).alive,
         child'.firstCmdId = Enqueue(ch, ms).firstCmdId,
         toWorker' = toWorker \o ms, toParent' = toParent
  PROVE  Grows
<1>0. PICK e : e = Enqueue(ch, ms)
  OBVIOUS
<1>1. Enqueued(e, ch, ms)
  BY <1>0, EnqueueFields
<1>2. toWorker \in Seq(Message)
  BY DEF IInv, TypeOK
<1>3. ToSet(toWorker') = ToSet(toWorker) \cup ToSet(ms)
  BY <1>2, ToSetConcat
<1>4. /\ child'.queue = child.queue \cup ToSet(ms)
      /\ child'.instances = ch.instances /\ child'.alive = ch.alive
      /\ child'.firstCmdId = ch.firstCmdId
  BY <1>0, <1>1 DEF Enqueued
<1> QED BY <1>3, <1>4 DEF Grows

\* A call sends at most its message.
LEMMA IssueGrows ==
  ASSUME IInv, NEW c \in Calls, NEW kind \in Kinds \ {"memory"}, NEW i \in Instances,
         Issue(c, kind, i)
  PROVE  Grows
<1> DEFINE cmd == IF kind = "setter" THEN "SET" ELSE "FUNCTION"
           isMethod == IF kind = "method" THEN {c} ELSE {}
<1>0. child \in Child /\ child.cmdId \in Nat /\ toWorker \in Seq(Message) /\ toParent' = toParent
  BY DEF IInv, TypeOK, Child, Issue
<1>1. CASE CanSend(child) /\ i \in child.initialized
  <2>1. PICK m : m = NewMessage(cmd, child.cmdId, i, FALSE, {c})
    OBVIOUS
  <2>2. m \in Message
    BY <1>0, <2>1 DEF NewMessage, Message
  <2>3. <<m>> \in Seq(Message) /\ toWorker' = Append(toWorker, m)
    BY <1>1, <2>1, <2>2, OneElement, Zenon DEF Issue
  <2>4. child' = [Enqueue(child, <<m>>) EXCEPT !.methods = @ \cup isMethod]
    BY <1>1, <2>1, Zenon DEF Issue
  <2>5. toWorker' = toWorker \o <<m>>
    BY <1>0, <2>2, <2>3, AppendIsConcat
  <2>5a. PICK e : e = Enqueue(child, <<m>>)
    OBVIOUS
  <2>6. e \in Child
    BY <1>0, <2>3, <2>5a, EnqueueFields DEF Enqueued
  <2>7. child' = [e EXCEPT !.methods = @ \cup isMethod]
    BY <2>4, <2>5a
  <2>8. /\ child'.queue = e.queue /\ child'.instances = e.instances
        /\ child'.alive = e.alive /\ child'.firstCmdId = e.firstCmdId
    BY <2>6, <2>7 DEF Child
  <2> QED BY <1>0, <2>3, <2>5, <2>5a, <2>8, EnqueueGrows
<1>2. CASE ~(CanSend(child) /\ i \in child.initialized)
  <2>1. child' = IF CanSend(child) THEN [child EXCEPT !.cmdId = @ + 1] ELSE child
    BY <1>2, Zenon DEF Issue
  <2>2. toWorker' = toWorker
    BY <1>2, Zenon DEF Issue
  <2> QED BY <1>0, <2>1, <2>2 DEF Child, Grows
<1> QED BY <1>1, <1>2

\* The callback of a request for the memory is kept elsewhere.
LEMMA AskMemoryGrows ==
  ASSUME IInv, NEW c \in Calls, AskMemory(c)
  PROVE  Grows
<1>0. /\ child \in Child /\ child.cmdId \in Nat /\ toWorker \in Seq(Message)
      /\ toParent' = toParent /\ calls[c].inst \in Instances
  BY DEF IInv, TypeOK, Child, Call, AskMemory
<1>1. PICK m : m = NewMessage("GET_MEM_USAGE", child.cmdId, calls[c].inst, FALSE, {c})
  OBVIOUS
<1>2. m \in Message
  BY <1>0, <1>1 DEF NewMessage, Message
<1>3. \/ child' = child /\ toWorker' = toWorker
      \/ /\ child' = [child EXCEPT !.cmdId = @ + 1, !.childQueue = @ \cup {m}]
         /\ toWorker' = Append(toWorker, m)
  BY <1>1, Zenon DEF AskMemory, Asked
<1>4. ToSet(Append(toWorker, m)) = ToSet(toWorker) \cup {m}
  BY <1>0, <1>2, ToSetAppend
<1> QED BY <1>0, <1>3, <1>4 DEF Child, Grows

\* The instance that is attached was never attached before.
LEMMA AttachGrows ==
  ASSUME IInv, NEW i \in Instances, Attach(i)
  PROVE  Grows
<1>0. /\ child \in Child /\ toParent' = toParent /\ i \notin child.attached
  BY DEF IInv, TypeOK, Attach
<1>1. PICK ch : ch = [child EXCEPT !.instances = @ \cup {i}, !.attached = @ \cup {i},
                                   !.initialized = @ \cup {i}]
  OBVIOUS
<1>2. /\ ch \in Child /\ ch.queue = child.queue /\ ch.instances = child.instances \cup {i}
      /\ ch.alive = child.alive /\ ch.firstCmdId = child.firstCmdId
  BY <1>0, <1>1 DEF Child
<1>3. PICK new : new = Inits(ch, <<i>>, TRUE)
  OBVIOUS
<1>4. <<i>> \in Seq(Instances)
  OBVIOUS
<1>5. new \in Seq(Message)
  BY <1>2, <1>3, <1>4, InitsFields
<1>6. \/ child' = Enqueue(ch, new) /\ toWorker' = toWorker \o new
      \/ child' = ch /\ toWorker' = toWorker
  BY <1>1, <1>3, Zenon DEF Attach
<1>7. CASE child' = ch /\ toWorker' = toWorker
  BY <1>0, <1>2, <1>7 DEF Grows
<1>8. CASE child' = Enqueue(ch, new) /\ toWorker' = toWorker \o new
  BY <1>0, <1>2, <1>5, <1>8, EnqueueGrows
<1> QED BY <1>6, <1>7, <1>8

\* killProxy sends at most a KILL, and drops instances only.
LEMMA DestroyGrows ==
  ASSUME IInv, NEW i \in Instances, Destroy(i)
  PROVE  Grows
<1>0. /\ child \in Child /\ child.cmdId \in Nat /\ toWorker \in Seq(Message)
      /\ toParent' = toParent
  BY DEF IInv, TypeOK, Child, Destroy
<1>1. PICK ch : ch = [child EXCEPT !.destroyed = @ \cup {i}]
  OBVIOUS
<1>2. /\ ch \in Child /\ ch.queue = child.queue /\ ch.instances = child.instances
      /\ ch.alive = child.alive /\ ch.firstCmdId = child.firstCmdId
  BY <1>0, <1>1 DEF Child
<1>3. PICK kill : kill = NewMessage("KILL", child.cmdId, i, FALSE, {})
  OBVIOUS
<1>4. kill \in Message
  BY <1>0, <1>3 DEF NewMessage, Message
<1>5. CASE /\ child' = IF child.alive THEN [ch EXCEPT !.isClosing = TRUE, !.cleanUp = TRUE]
                       ELSE [ch EXCEPT !.registered = FALSE, !.isClosing = FALSE]
           /\ toWorker' = toWorker
  BY <1>0, <1>2, <1>5 DEF Child, Grows
<1>6. CASE /\ child' = [Enqueue(ch, <<kill>>) EXCEPT !.detaching = @ \cup {i}]
           /\ toWorker' = Append(toWorker, kill)
  <2>1. <<kill>> \in Seq(Message) /\ toWorker' = toWorker \o <<kill>>
    BY <1>0, <1>4, <1>6, OneElement, AppendIsConcat
  <2>1a. PICK e : e = Enqueue(ch, <<kill>>)
    OBVIOUS
  <2>2. e \in Child
    BY <1>2, <2>1, <2>1a, EnqueueFields DEF Enqueued
  <2>3. child' = [e EXCEPT !.detaching = @ \cup {i}]
    BY <1>6, <2>1a
  <2>4. /\ child'.queue = e.queue /\ child'.instances = e.instances
        /\ child'.alive = e.alive /\ child'.firstCmdId = e.firstCmdId
    BY <2>2, <2>3 DEF Child
  <2> QED BY <1>0, <1>2, <2>1, <2>1a, <2>4, EnqueueGrows
<1>7. CASE /\ child' = [ch EXCEPT !.instances = @ \ {i},
                                  !.cmdId = IF CanSend(child) THEN @ + 1 ELSE @]
           /\ toWorker' = toWorker
  BY <1>0, <1>2, <1>7 DEF Child, Grows
<1> QED BY <1>1, <1>3, <1>5, <1>6, <1>7, Zenon DEF Destroy

\* INITs follow a fork, and the fork takes the number they begin with.
LEMMA RestartGrows ==
  ASSUME IInv, RestartChild \/ ResumeRestart
  PROVE  Grows
<1> DEFINE waiting == child.restarts
<1>1. /\ child \in Child /\ toWorker \in Seq(Message) /\ ops' \in Nat
      /\ waiting \in Seq(Seq(Instances)) /\ child.instances \in SUBSET Instances
      /\ child.instances \subseteq child.attached
      /\ \A k \in DOMAIN waiting : ToSet(waiting[k]) \subseteq child.attached
      /\ UNCHANGED <<calls, toParent, worker>>
  BY DEF IInv, TypeOK, Child, LifeInv, RestartChild, ResumeRestart, Op
<1>2. \E order \in Seq(Instances), rest \in Seq(Seq(Instances)) :
        /\ ToSet(order) \subseteq child.attached
        /\ \A k \in DOMAIN rest : ToSet(rest[k]) \subseteq child.attached
        /\ Restart([child EXCEPT !.restarts = rest], order)
  <2>1. CASE RestartChild
    <3>1. PICK order \in Orders(child.instances) : Restart(child, order)
      BY <2>1 DEF RestartChild
    <3>2. [child EXCEPT !.restarts = waiting] = child
      BY <1>1 DEF Child
    <3>3. Restart([child EXCEPT !.restarts = waiting], order)
      BY <3>1, <3>2
    <3>4. order \in Seq(Instances) /\ ToSet(order) \subseteq child.attached
      BY <1>1, OrdersTyped
    <3> HIDE DEF waiting
    <3> QED BY <1>1, <3>3, <3>4
  <2>2. CASE ResumeRestart
    <3>1. waiting # <<>> /\ Restart([child EXCEPT !.restarts = Tail(waiting)], Head(waiting))
      BY <2>2 DEF ResumeRestart
    <3> HIDE DEF waiting
    <3>2. /\ Head(waiting) \in Seq(Instances) /\ ToSet(Head(waiting)) \subseteq child.attached
          /\ Tail(waiting) \in Seq(Seq(Instances))
          /\ \A k \in DOMAIN Tail(waiting) : ToSet(Tail(waiting)[k]) \subseteq child.attached
      BY <1>1, <3>1, TailWaits
    <3> QED BY <3>1, <3>2
  <2> QED BY <2>1, <2>2
<1>3. PICK new \in Seq(Message) :
        /\ IF child.alive THEN child'.firstCmdId = child.firstCmdId
           ELSE child'.firstCmdId = child.cmdId
        /\ child'.queue = child.queue \cup ToSet(new)
        /\ child'.instances = child.instances
        /\ toWorker' = toWorker \o new
  BY <1>1, <1>2, RestartFields
<1>4. ToSet(toWorker') = ToSet(toWorker) \cup ToSet(new)
  BY <1>1, <1>3, ToSetConcat
<1> QED BY <1>1, <1>3, <1>4 DEF Grows

\* Killing and letting go send nothing.
LEMMA MarksGrow ==
  ASSUME Marks
  PROVE  Grows
BY DEF Marks, Grows

\* An instance that is let go leaves the callbacks.
LEMMA DetachTimeoutGrows ==
  ASSUME IInv, DetachTimeout
  PROVE  Grows
<1>1. child \in Child /\ toWorker' = toWorker /\ toParent' = toParent
  BY DEF IInv, TypeOK, DetachTimeout
<1>2. PICK i \in child.detaching :
        child' = [child EXCEPT !.detaching = @ \ {i}, !.instances = @ \ {i}]
  BY Zenon DEF DetachTimeout
<1>3. /\ child'.queue = child.queue /\ child'.instances = child.instances \ {i}
      /\ child'.alive = child.alive /\ child'.firstCmdId = child.firstCmdId
  BY <1>1, <1>2 DEF Child
<1> QED BY <1>1, <1>3 DEF Grows

\* A crash that is found out aborts calls, and leaves their callbacks.
LEMMA ChildHasCrashedGrows ==
  ASSUME IInv, ChildHasCrashed
  PROVE  Grows
<1>1. child \in Child /\ toWorker' = toWorker /\ toParent' = toParent
  BY DEF IInv, TypeOK, ChildHasCrashed
<1>2. PICK ch : ch = [child EXCEPT !.methods = {}]
  OBVIOUS
<1>3. /\ ch \in Child /\ ch.queue = child.queue /\ ch.instances = child.instances
      /\ ch.alive = child.alive /\ ch.firstCmdId = child.firstCmdId
  BY <1>1, <1>2 DEF Child
<1>4. child' \in {ch, [ch EXCEPT !.isClosing = TRUE]} \cup Forced(ch)
  BY <1>2, Zenon DEF ChildHasCrashed
<1>5. /\ child'.queue = ch.queue /\ child'.instances = ch.instances
      /\ child'.alive = ch.alive /\ child'.firstCmdId = ch.firstCmdId
  BY <1>3, <1>4 DEF Forced, Child
<1> QED BY <1>1, <1>3, <1>5 DEF Grows

\* A method that returns adds a reply.
LEMMA ReturnGrows ==
  ASSUME IInv, Return
  PROVE  Grows
<1>1. PICK m \in worker.running, error \in {FALSE} \cup {"method" \in Errors} :
        toParent' = Append(toParent, ReplyTo(m, error))
  BY DEF Return
<1>2. m \in Message /\ ReplyTo(m, error) \in Reply /\ toParent \in Seq(Reply)
  BY ErrorIsBoolean DEF IInv, TypeOK, Worker, Message, Reply, ReplyTo
<1>3. ToSet(toParent) \subseteq ToSet(toParent')
  BY <1>1, <1>2, ToSetAppend
<1> QED BY <1>3 DEF Return, Grows

\* Every INIT is answered by the construction or by its failure.
LEMMA WorkerReceivesAnswered ==
  ASSUME IInv, InitIsAnswered, "load" \notin Errors, WorkerReceives
  PROVE  InitIsAnswered'
<1>1. PICK m \in ToSet(toWorker) :
        \/ Construct(m)
        \/ ConstructorThrows(m)
        \/ LoadThrows(m)
        \/ DropMessage(m)
        \/ RunFunction(m)
        \/ RunSet(m)
        \/ KillInstance(m)
        \/ ReplyMemory(m)
  BY DEF WorkerReceives
<1>2. Receives(m)
  BY <1>1 DEF Construct, ConstructorThrows, LoadThrows, DropMessage, RunFunction, RunSet,
              KillInstance, ReplyMemory
<1>3. /\ m \in Message /\ ToSet(toWorker) = {m} \cup ToSet(toWorker') /\ child' = child
      /\ toParent \in Seq(Reply)
  BY <1>2, ReceivesFields DEF IInv, TypeOK
<1>4. \A error \in BOOLEAN :
        /\ ReplyTo(m, error) \in Reply
        /\ [ReplyTo(m, error) EXCEPT !.from = "child"] \in Reply
        /\ ReplyTo(m, error).replyTo = m.cmdId
  BY <1>3 DEF ReplyTo, Reply, Message
<1>5. CASE m.cmd = "INIT"
  <2>1. \E error \in BOOLEAN : toParent' = Append(toParent, ReplyTo(m, error))
    BY <1>1, <1>5 DEF Construct, ConstructorThrows, LoadThrows, DropMessage, RunFunction,
                      RunSet, KillInstance, ReplyMemory
  <2>2. PICK r \in Reply : toParent' = Append(toParent, r) /\ r.replyTo = m.cmdId
    BY <1>4, <2>1
  <2>3. ToSet(toParent') = ToSet(toParent) \cup {r}
    BY <1>3, <2>2, ToSetAppend
  <2> QED BY <1>3, <2>2, <2>3 DEF InitIsAnswered
<1>6. CASE m.cmd # "INIT"
  <2>1. \/ toParent' = toParent
        \/ \E error \in BOOLEAN :
             \/ toParent' = Append(toParent, ReplyTo(m, error))
             \/ toParent' = Append(toParent, [ReplyTo(m, error) EXCEPT !.from = "child"])
    BY <1>1, <1>6, ErrorIsBoolean
       DEF Construct, ConstructorThrows, LoadThrows, DropMessage, RunFunction, RunSet,
           KillInstance, ReplyMemory
  <2>2. ToSet(toParent) \subseteq ToSet(toParent')
    <3>1. \A r \in Reply : ToSet(toParent) \subseteq ToSet(Append(toParent, r))
      BY <1>3, ToSetAppend
    <3> QED BY <1>4, <2>1, <3>1
  <2> QED BY <1>3, <1>6, <2>2 DEF InitIsAnswered
<1> QED BY <1>5, <1>6

\* A reply is used up only with the callback that waits for it, or when its
\* instance is gone.
LEMMA ReceiveReplyAnswered ==
  ASSUME IInv, InitIsAnswered, ReceiveReply
  PROVE  InitIsAnswered'
<1>0. /\ child \in Child /\ toParent \in Seq(Reply) /\ toParent # <<>>
      /\ toParent' = Tail(toParent) /\ toWorker' = toWorker
  BY Zenon DEF IInv, TypeOK, ReceiveReply
<1>1. PICK r : r = Head(toParent)
  OBVIOUS
<1>2. r \in ToSet(toParent) /\ ToSet(toParent) = {r} \cup ToSet(toParent')
  BY <1>0, <1>1, ToSetTail
<1>3. \A m \in child.queue : m.cmdId = r.replyTo => m.inst = r.inst
  BY <1>2 DEF IInv, NumbersInv, Sent, ReplyInv, Answers
<1>4. \A m, n \in child.queue : m.cmdId = n.cmdId => m = n
  BY DEF IInv, NumbersInv, Sent
<1>5. CASE child' = child /\ (r.inst \notin child.instances \/ Callbacks(child, r) = {})
  BY <1>0, <1>2, <1>3, <1>5 DEF InitIsAnswered, Callbacks
<1>6. ASSUME NEW m \in Callbacks(child, r),
             child' = [child EXCEPT !.queue = @ \ {m}, !.methods = @ \ m.call,
                                    !.created = @ \cup (IF m.cmd = "INIT" /\ m.create /\ ~r.error
                                                        THEN {m.inst} ELSE {}),
                                    !.instances = @ \ (IF m.cmd = "KILL" THEN {m.inst} ELSE {})]
      PROVE  InitIsAnswered'
  <2> DEFINE created == IF m.cmd = "INIT" /\ m.create /\ ~r.error THEN {m.inst} ELSE {}
             detached == IF m.cmd = "KILL" THEN {m.inst} ELSE {}
  <2>0. child' = [child EXCEPT !.queue = @ \ {m}, !.methods = @ \ m.call,
                               !.created = @ \cup created, !.instances = @ \ detached]
    BY <1>6
  <2> HIDE DEF created, detached
  <2>1. /\ child'.queue = child.queue \ {m} /\ child'.instances = child.instances \ detached
        /\ child'.alive = child.alive /\ child'.firstCmdId = child.firstCmdId
    BY <1>0, <2>0 DEF Child
  <2>2. m \in child.queue /\ m.cmdId = r.replyTo
    BY DEF Callbacks
  <2> QED BY <1>0, <1>2, <1>4, <2>1, <2>2 DEF InitIsAnswered
<1>7. \/ child' = child /\ (r.inst \notin child.instances \/ Callbacks(child, r) = {})
      \/ \E m \in Callbacks(child, r) :
           child' = [child EXCEPT !.queue = @ \ {m}, !.methods = @ \ m.call,
                                  !.created = @ \cup (IF m.cmd = "INIT" /\ m.create /\ ~r.error
                                                      THEN {m.inst} ELSE {}),
                                  !.instances = @ \ (IF m.cmd = "KILL" THEN {m.inst} ELSE {})]
  BY <1>1, Zenon DEF ReceiveReply
<1> QED BY <1>5, <1>6, <1>7, Zenon

\* The reply of the worker itself takes no INIT's callback, for no INIT has its
\* number.
LEMMA ReceiveChildReplyAnswered ==
  ASSUME IInv, InitIsAnswered, ReceiveChildReply
  PROVE  InitIsAnswered'
<1>0. /\ child \in Child /\ toParent \in Seq(Reply) /\ toParent # <<>>
      /\ toParent' = Tail(toParent) /\ toWorker' = toWorker
  BY Zenon DEF IInv, TypeOK, ReceiveChildReply
<1>1. PICK r : r = Head(toParent)
  OBVIOUS
<1>2. r \in ToSet(toParent) /\ ToSet(toParent) = {r} \cup ToSet(toParent')
  BY <1>0, <1>1, ToSetTail
<1>3. child' = [child EXCEPT !.queue = @ \ Callbacks(child, r)]
  BY <1>1, Zenon DEF ReceiveChildReply
<1>4. /\ child'.queue = child.queue \ Callbacks(child, r)
      /\ child'.instances = child.instances /\ child'.alive = child.alive
      /\ child'.firstCmdId = child.firstCmdId
  BY <1>0, <1>3 DEF Child
<1> QED BY <1>0, <1>2, <1>4 DEF InitIsAnswered, Callbacks

\* Without a live process nothing is claimed.
LEMMA CloseAnswered ==
  ASSUME IInv, Close
  PROVE  InitIsAnswered'
<1>1. child \in Child
  BY DEF IInv, TypeOK
<1>2. ~child'.alive
  BY <1>1 DEF Close, Closed, Child
<1> QED BY <1>2 DEF InitIsAnswered

\* An INIT that the live process was sent is answered (InitIsAnswered), provided
\* that require() does not throw: the first INIT has the number 0, to which the
\* worker's handler of all messages does not reply.
THEOREM InitsAreAnswered ==
  ASSUME "load" \notin Errors
  PROVE  Spec => []InitIsAnswered
<1>1. Init => InitIsAnswered
  <2> SUFFICES ASSUME Init PROVE InitIsAnswered
    OBVIOUS
  <2>1. PICK i \in Instances :
          child = Enqueue(NewChild(i), Inits(NewChild(i), <<i>>, TRUE))
          /\ toWorker = Inits(NewChild(i), <<i>>, TRUE)
    BY Zenon DEF Init
  <2>2. PICK ch : ch = NewChild(i)
    OBVIOUS
  <2>3. ch \in Child /\ ch.queue = {}
    BY <2>2 DEF NewChild, Child
  <2>4. child.queue = ch.queue \cup ToSet(toWorker)
    <3>1. toWorker \in Seq(Message)
      BY InitGood DEF IInv, TypeOK
    <3>2. Enqueued(child, ch, toWorker)
      BY <2>1, <2>2, <2>3, <3>1, EnqueueFields
    <3> QED BY <3>2 DEF Enqueued
  <2> QED BY <2>3, <2>4 DEF InitIsAnswered
<1>2. IInv /\ InitIsAnswered /\ [Next]_vars => InitIsAnswered'
  <2> SUFFICES ASSUME IInv, InitIsAnswered, [Next]_vars PROVE InitIsAnswered'
    OBVIOUS
  <2>1. CASE Next
    <3>1. ASSUME Grows PROVE InitIsAnswered'
      BY <3>1, GrowsAnswered
    <3> QED BY <2>1, <3>1, IssueGrows, AskMemoryGrows, AttachGrows, DestroyGrows,
               RestartGrows, KillChildMarks, ForceRestartMarks, KillTimeoutMarks, MarksGrow,
               DetachTimeoutGrows, ChildHasCrashedGrows, ReturnGrows, WorkerReceivesAnswered, ReceiveReplyAnswered,
               ReceiveChildReplyAnswered, CloseAnswered DEF Next, Crash, Terminated
  <2>2. CASE UNCHANGED vars
    BY <2>2 DEF vars, InitIsAnswered
  <2> QED BY <2>1, <2>2
<1> QED BY Invariance, <1>1, <1>2, PTL DEF Spec
=============================================================================
