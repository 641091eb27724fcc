--------------------------- MODULE ArgCodec_proofs ---------------------------
(***************************************************************************)
(* A value survives any number of crossings, whatever it holds.            *)
(*                                                                         *)
(* One crossing is a computation by the kind of the value and the platform *)
(* (Crossing); the invariant adds to what is expected of the value that    *)
(* the message on its way will be read as what is expected next.           *)
(***************************************************************************)
EXTENDS ArgCodec, TLAPS

Expected(n) == As(origin, ExpectedKind(origin.kind, n))

\* Only the worker has the instance itself.
SideInv ==
  /\ platform \in Platforms
  /\ side \in Sides
  /\ crossings \in Nat
  /\ origin = [kind |-> origin.kind, content |-> origin.content]
  /\ origin.kind \in Kinds \cup {"instance", "proxy"}
  /\ origin.kind = "instance" /\ crossings = 0 => side = "worker"

\* The message on its way will be read as what is expected of the value next.
WireInv == \A d \in wire : Decode(Other(side), d) = {Expected(crossings + 1)}

IInv == SideInv /\ ValuesSurvive /\ WireInv

\* Both sides choose the same encoding, the one that fits the transport.
LEMMA StrategiesAgree ==
  ASSUME NEW s \in Sides, platform \in Platforms
  PROVE  /\ Strategy(s) = "inprocess" <=> platform = "fakeWorker"
         /\ Strategy(s) = "json" <=> platform = "childProcess"
         /\ Strategy(s) = "structured-clone" <=> platform \in {"workerThreads", "webWorkers"}
BY DEF Strategy, ParentStrategy, WorkerStrategy, Platforms, Sides

\* A value is its kind and its content, of which As changes the one.
LEMMA AsChangesKind ==
  ASSUME NEW k, NEW c, NEW kind
  PROVE  As([kind |-> k, content |-> c], kind) = [kind |-> kind, content |-> c]
BY DEF As

\* A definition that is not by reference is carried and read as its one value.
LEMMA DefinitionIsRead ==
  ASSUME NEW type, NEW w, NEW s
  PROVE  Decode(s, Carried(Definition(type, w))) = {DecodeValue(s, type, Carry(w))}
<1>1. {Carry(u) : u \in {w}} = {Carry(w)}
  OBVIOUS
<1>2. /\ Carried(Definition(type, w)).original = {}
      /\ Carried(Definition(type, w)).type = type
      /\ Carried(Definition(type, w)).value = {Carry(w)}
  BY <1>1 DEF Carried, Definition
<1>3. {DecodeValue(s, type, u) : u \in {Carry(w)}} = {DecodeValue(s, type, Carry(w))}
  OBVIOUS
<1> QED BY <1>2, <1>3 DEF Decode

\* One by reference is read as what it refers to.
LEMMA ReferenceIsRead ==
  ASSUME NEW type, NEW w, NEW s
  PROVE  Decode(s, Carried(ByReference(type, w))) = {w}
<1>1. Carried(ByReference(type, w)).original = {w}
  BY DEF Carried, ByReference
<1> QED BY <1>1 DEF Decode

\* What a value of any kind becomes on the other side, if it can be sent.
Becomes(kind, s) ==
  IF kind \in Callable THEN "remote function"
  ELSE IF kind \in Bytes
    THEN IF platform = "fakeWorker" THEN kind ELSE "buffer"
  ELSE IF kind = "nan" /\ platform = "childProcess" THEN "null"
  ELSE IF kind = "proxy" /\ platform = "childProcess" THEN "stripped proxy"
  ELSE IF kind = "instance" THEN IF s = "parent" THEN "proxy" ELSE "instance"
  ELSE kind

AllKinds == Kinds \cup {"instance", "proxy", "remote function", "stripped proxy"}

\* One crossing, on every platform, in both directions and for any contents.
LEMMA Crossing ==
  ASSUME NEW s \in Sides, NEW k \in AllKinds, NEW c, platform \in Platforms, NEW r
  PROVE  LET v == [kind |-> k, content |-> c]
         IN Decode(r, Carried(Encode(Strategy(s), v))) = {[kind |-> Becomes(k, r), content |-> c]}
<1> DEFINE v == [kind |-> k, content |-> c]
           w(kind) == [kind |-> kind, content |-> c]
           strategy == Strategy(s)
<1> SUFFICES Decode(r, Carried(Encode(strategy, v))) = {w(Becomes(k, r))}
  OBVIOUS
<1>1. /\ strategy = "inprocess" <=> platform = "fakeWorker"
      /\ strategy = "json" <=> platform = "childProcess"
      /\ strategy = "structured-clone" <=> platform \in {"workerThreads", "webWorkers"}
  BY StrategiesAgree
<1>2. /\ v.kind = k
      /\ \A kind : w(kind).kind = kind
      /\ \A kind, other : As(w(kind), other) = w(other)
      /\ \A other : As(v, other) = w(other)
      /\ v = w(k)
  BY AsChangesKind
<1> HIDE DEF v, w, strategy
<1>3. CASE k = "instance"
  <2>1. Encode(strategy, v) = Definition("object", w("self"))
    BY <1>2, <1>3 DEF Encode
  <2>2. Carry(w("self")) = w("self")
    BY <1>2 DEF Carry, Bytes
  <2>3. DecodeValue(r, "object", w("self")) = w(Becomes(k, r))
    BY <1>2, <1>3 DEF DecodeValue, Becomes, Callable, Bytes
  <2> QED BY <2>1, <2>2, <2>3, DefinitionIsRead
<1>4. CASE k \in Bytes
  <2>0. k \in {"buffer", "uint8array"} BY <1>4 DEF Bytes
  <2>1. CASE platform = "fakeWorker"
    <3>1. Encode(strategy, v) = ByReference("buffer", v)
      BY <1>1, <1>2, <2>0, <2>1 DEF Encode, Bytes
    <3>2. Becomes(k, r) = k
      BY <2>0, <2>1 DEF Becomes, Callable, Bytes
    <3> QED BY <1>2, <3>1, <3>2, ReferenceIsRead
  <2>2. CASE platform = "childProcess"
    <3>1. Encode(strategy, v) = Definition("buffer", w("base64"))
      BY <1>1, <1>2, <2>0, <2>2 DEF Encode, Bytes
    <3>2. Carry(w("base64")) = w("base64")
      BY <1>2 DEF Carry, Bytes
    <3>3. DecodeValue(r, "buffer", w("base64")) = w(Becomes(k, r))
      BY <1>2, <2>0, <2>2 DEF DecodeValue, Becomes, Callable, Bytes
    <3> QED BY <3>1, <3>2, <3>3, DefinitionIsRead
  <2>3. CASE platform \in {"workerThreads", "webWorkers"}
    <3>1. Encode(strategy, v) = Definition("buffer", v)
      BY <1>1, <1>2, <2>0, <2>3 DEF Encode, Bytes
    <3>2. Carry(v) = w("uint8array")
      BY <1>2, <2>0, <2>3 DEF Carry, Bytes
    <3>3. DecodeValue(r, "buffer", w("uint8array")) = w(Becomes(k, r))
      BY <1>2, <2>0, <2>3 DEF DecodeValue, Becomes, Callable, Bytes
    <3> QED BY <3>1, <3>2, <3>3, DefinitionIsRead
  <2> QED BY <2>1, <2>2, <2>3 DEF Platforms
<1>5. CASE k \in Callable
  <2>0. k \in {"function", "remote function"} BY <1>5 DEF Callable
  <2>1. Encode(strategy, v) = Definition("function", w("id"))
    BY <1>2, <2>0 DEF Encode, Bytes, Objects, Callable
  <2>2. Carry(w("id")) = w("id")
    BY <1>2 DEF Carry, Bytes
  <2>3. DecodeValue(r, "function", w("id")) = w(Becomes(k, r))
    BY <1>2, <2>0 DEF DecodeValue, Becomes, Callable
  <2> QED BY <2>1, <2>2, <2>3, DefinitionIsRead
<1>6. CASE k \in Objects /\ platform = "fakeWorker"
  <2>0. k \in {"object", "null", "proxy", "stripped proxy"} BY <1>6 DEF Objects
  <2>1. Encode(strategy, v) = ByReference("object", v)
    BY <1>1, <1>2, <1>6, <2>0 DEF Encode, Bytes, Objects
  <2>2. Becomes(k, r) = k
    BY <1>6, <2>0 DEF Becomes, Callable, Bytes
  <2> QED BY <1>2, <2>1, <2>2, ReferenceIsRead
<1>7. CASE /\ k \notin Bytes \cup Callable \cup {"instance"}
           /\ ~(k \in Objects /\ platform = "fakeWorker")
  <2>1. Encode(strategy, v) = Definition(TypeOf(k), v)
    BY <1>1, <1>2, <1>7 DEF Encode
  <2>2. TypeOf(k) \notin {"buffer", "function"}
    BY <1>7 DEF TypeOf, Objects, Bytes, Callable
  <2>3. Carry(v) = w(Becomes(k, r))
    <3>1. k \notin Bytes /\ k \notin Callable /\ k # "instance"
      BY <1>7
    <3>2. CASE k = "nan"
      BY <1>2, <3>1, <3>2 DEF Carry, Becomes, Platforms
    <3>3. CASE k = "proxy"
      BY <1>2, <1>7, <3>1, <3>3 DEF Carry, Becomes, Objects
    <3>4. CASE k \notin {"nan", "proxy"}
      BY <1>2, <3>1, <3>4 DEF Carry, Becomes
    <3> QED BY <3>2, <3>3, <3>4
  <2>4. w(Becomes(k, r)).kind # "self"
    BY <1>2 DEF Becomes, AllKinds, Kinds, Bytes, Callable
  <2>5. DecodeValue(r, TypeOf(k), w(Becomes(k, r))) = w(Becomes(k, r))
    BY <2>2, <2>4 DEF DecodeValue
  <2> QED BY <2>1, <2>3, <2>5, DefinitionIsRead
<1> QED BY <1>3, <1>4, <1>5, <1>6, <1>7

\* A value that has crossed n times becomes what is expected of it after one more.
LEMMA ExpectedNext ==
  ASSUME SideInv, ValuesSurvive
  PROVE  /\ value = [kind |-> value.kind, content |-> value.content]
         /\ value.kind \in AllKinds
         /\ Expected(crossings + 1) =
              [kind |-> Becomes(value.kind, Other(side)), content |-> value.content]
<1> DEFINE k == origin.kind
           c == origin.content
           n == crossings
<1>1. /\ origin = [kind |-> k, content |-> c] /\ k \in Kinds \cup {"instance", "proxy"}
      /\ n \in Nat /\ platform \in Platforms
      /\ k = "instance" /\ n = 0 => side = "worker"
      /\ value = Expected(n)
  BY DEF SideInv, ValuesSurvive, Expected
<1>2. \A m : Expected(m) = [kind |-> ExpectedKind(k, m), content |-> c]
  <2> SUFFICES ASSUME NEW m PROVE Expected(m) = [kind |-> ExpectedKind(k, m), content |-> c]
    OBVIOUS
  <2>1. Expected(m) = As(origin, ExpectedKind(k, m))
    BY DEF Expected
  <2> QED BY <1>1, <2>1 DEF As
<1>3. /\ value = [kind |-> ExpectedKind(k, n), content |-> c]
      /\ value.kind = ExpectedKind(k, n) /\ value.content = c
  BY <1>1, <1>2
<1> HIDE DEF k, c, n
<1>4. n + 1 # 0 /\ (n + 1 = 1 <=> n = 0)
  BY <1>1
<1>5. ExpectedKind(k, n + 1) = Becomes(ExpectedKind(k, n), Other(side))
  <2>1. CASE k \notin {"instance", "proxy"}
    BY <1>1, <1>4, <2>1 DEF ExpectedKind, Becomes, Kinds, Bytes, Callable
  <2>2. CASE k = "proxy"
    BY <1>4, <2>2 DEF ExpectedKind, Becomes, Bytes, Callable
  <2>3. CASE k = "instance" /\ n = 0
    BY <1>1, <1>4, <2>3 DEF ExpectedKind, Becomes, Other, Bytes, Callable
  <2>4. CASE k = "instance" /\ n # 0
    BY <1>4, <2>4 DEF ExpectedKind, Becomes, Bytes, Callable
  <2> QED BY <2>1, <2>2, <2>3, <2>4
<1>6. ExpectedKind(k, n) \in AllKinds
  BY <1>1 DEF ExpectedKind, AllKinds, Kinds, Bytes
<1> QED BY <1>2, <1>3, <1>5, <1>6 DEF n

LEMMA InitGood == Init => IInv
<1> SUFFICES ASSUME Init PROVE IInv
  OBVIOUS
<1>1. PICK k \in KindsOf(side), c \in Contents : value = [kind |-> k, content |-> c]
  BY DEF Init, Values
<1>2. origin = [kind |-> k, content |-> c] /\ crossings = 0 /\ wire = {}
  BY <1>1 DEF Init
<1>3. SideInv
  <2>1. k \in Kinds \cup {"instance", "proxy"}
    BY DEF KindsOf
  <2>2. k = "instance" => side = "worker"
    BY DEF KindsOf, Kinds, Bytes
  <2> QED BY <1>2, <2>1, <2>2 DEF Init, SideInv
<1>4. ValuesSurvive
  <2>1. ExpectedKind(origin.kind, crossings) = k
    BY <1>2 DEF ExpectedKind
  <2> QED BY <1>1, <1>2, <2>1, AsChangesKind DEF ValuesSurvive
<1> QED BY <1>2, <1>3, <1>4 DEF IInv, WireInv

LEMMA NextGood == IInv /\ [Next]_vars => IInv'
<1> SUFFICES ASSUME IInv, [Next]_vars PROVE IInv'
  OBVIOUS
<1>0. SideInv /\ ValuesSurvive /\ WireInv
  BY DEF IInv
<1>1. CASE Send
  <2>1. /\ wire' = {Carried(Encode(Strategy(side), value))}
        /\ UNCHANGED <<platform, origin, side, value, crossings>>
    BY <1>1 DEF Send
  <2>2. Decode(Other(side), Carried(Encode(Strategy(side), value))) = {Expected(crossings + 1)}
    <3>1. side \in Sides /\ platform \in Platforms
      BY <1>0 DEF SideInv
    <3> QED BY <1>0, <3>1, ExpectedNext, Crossing
  <2>3. SideInv' /\ ValuesSurvive'
    BY <1>0, <2>1 DEF SideInv, ValuesSurvive, ExpectedKind
  <2>4. Expected(crossings + 1)' = Expected(crossings + 1)
    BY <2>1 DEF Expected, ExpectedKind
  <2>5. \A d : Decode(Other(side), d)' = Decode(Other(side), d)
    BY <2>1 DEF Decode, DecodeValue
  <2>6. WireInv'
    BY <2>1, <2>2, <2>4, <2>5 DEF WireInv
  <2> QED BY <2>3, <2>6 DEF IInv
<1>2. CASE Receive
  <2>1. /\ value' = Expected(crossings + 1)
        /\ wire' = {} /\ side' = Other(side) /\ crossings' = crossings + 1
        /\ UNCHANGED <<platform, origin>>
    BY <1>0, <1>2 DEF Receive, WireInv
  <2>2. SideInv'
    <3>1. side' \in Sides
      BY <2>1 DEF Sides, Other
    <3>2. crossings' \in Nat /\ crossings' # 0
      BY <1>0, <2>1 DEF SideInv
    <3> QED BY <1>0, <2>1, <3>1, <3>2 DEF SideInv
  <2>3. ValuesSurvive'
    BY <2>1 DEF ValuesSurvive, Expected, ExpectedKind
  <2> QED BY <2>1, <2>2, <2>3 DEF IInv, WireInv
<1>3. CASE UNCHANGED vars
  <2>1. UNCHANGED <<platform, origin, side, value, wire, crossings>>
    BY <1>3 DEF vars
  <2>2. SideInv' /\ ValuesSurvive'
    BY <1>0, <2>1 DEF SideInv, ValuesSurvive, ExpectedKind
  <2>3. /\ Expected(crossings + 1)' = Expected(crossings + 1)
        /\ \A d : Decode(Other(side), d)' = Decode(Other(side), d)
    BY <2>1 DEF Decode, DecodeValue, Expected, ExpectedKind
  <2>4. WireInv'
    BY <1>0, <2>1, <2>3 DEF WireInv
  <2> QED BY <2>2, <2>4 DEF IInv
<1> QED BY <1>1, <1>2, <1>3 DEF Next

\* On every platform, for any contents and any number of crossings, the value is
\* what the program may expect of it (encodeArguments, decodeArguments): the two
\* sides, which choose their encodings separately, never disagree.
THEOREM ValuesAreNotMangled == Spec => []ValuesSurvive
<1>1. IInv => ValuesSurvive
  BY DEF IInv
<1> QED BY InitGood, NextGood, <1>1, PTL DEF Spec
=============================================================================
