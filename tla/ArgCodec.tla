------------------------------ MODULE ArgCodec ------------------------------
(***************************************************************************)
(* encodeArguments and decodeArguments: how one argument or result is      *)
(* written into a message, what the transport of the platform makes of the *)
(* message, and what is read from it on the other side; and a value that   *)
(* the program and the class pass to each other again and again.           *)
(***************************************************************************)
EXTENDS Naturals

CONSTANTS
  Contents,       \* what strings, numbers, bytes, objects and functions hold
  MaxCrossings    \* bound of the exploration: how often the value is passed on

VARIABLES
  platform,   \* on which the instance runs
  origin,     \* the value as it was first, and on which side
  side,       \* where the value is
  value,      \* what it is there
  wire,       \* its definition in a message to the other side, or nothing
  crossings   \* how often it has arrived

vars == <<platform, origin, side, value, wire, crossings>>

Platforms == {"workerThreads", "webWorkers", "childProcess", "fakeWorker"}

Sides == {"parent", "worker"}
Other(s) == IF s = "parent" THEN "worker" ELSE "parent"

Bytes == {"buffer", "uint8array"}

\* nan stands for the numbers that JSON does not know.  instance: the object of
\* the class itself, which only the worker has; proxy: the program's proxy of it.
Kinds == Bytes \cup {"string", "number", "nan", "boolean", "undefined", "null", "object", "function"}
KindsOf(s) == Kinds \cup (IF s = "worker" THEN {"instance"} ELSE {"proxy"})
Values(s) == [kind : KindsOf(s), content : Contents]

-----------------------------------------------------------------------------
(***************************************************************************)
(* Either side chooses for itself how to encode.                           *)
(***************************************************************************)
ParentStrategy ==
  IF platform = "fakeWorker" THEN "inprocess"
  ELSE IF platform = "childProcess" THEN "json" ELSE "structured-clone"

\* The worker asks where it runs, and takes JSON otherwise.
WorkerStrategy ==
  IF platform = "fakeWorker" THEN "inprocess"
  ELSE IF platform \in {"workerThreads", "webWorkers"} THEN "structured-clone" ELSE "json"

Strategy(s) == IF s = "parent" THEN ParentStrategy ELSE WorkerStrategy

-----------------------------------------------------------------------------
Definition(type, v) == [type |-> type, original |-> {}, value |-> {v}]
ByReference(type, v) == [type |-> type, original |-> {v}, value |-> {}]

As(v, kind) == [v EXCEPT !.kind = kind]

Callable == {"function", "remote function"}

\* Objects to typeof, null among them; a proxy is one too, also without the methods
\* that JSON leaves out.
Objects == {"object", "null", "proxy", "stripped proxy"}
TypeOf(kind) ==
  IF kind \in Objects \ {"null"} THEN "object"
  ELSE IF kind = "nan" THEN "number"
  ELSE IF kind = "boolean" THEN "other" ELSE kind

\* A variant with a bug: bytes are never written as base64.
EncodeRaw(strategy, v) ==
  IF strategy = "inprocess" /\ v.kind \in Bytes \cup Objects
    THEN ByReference(IF v.kind \in Bytes THEN "buffer" ELSE "object", v)
  ELSE IF v.kind \in Bytes THEN Definition("buffer", v)
  ELSE IF v.kind \in Callable THEN Definition("function", As(v, "id"))
  ELSE Definition(TypeOf(v.kind), v)

\* encodeArguments of one argument.  The worker compares it with the instance; the
\* program with the manager's record of the instance, which no argument is.
Encode(strategy, v) ==
  IF v.kind = "instance" THEN Definition("object", As(v, "self"))
  ELSE IF strategy = "inprocess" /\ v.kind \in Bytes \cup Objects
    THEN ByReference(IF v.kind \in Bytes THEN "buffer" ELSE "object", v)
  ELSE IF v.kind \in Bytes
    THEN Definition("buffer", IF strategy = "structured-clone" THEN v ELSE As(v, "base64"))
  ELSE IF v.kind \in Callable THEN Definition("function", As(v, "id"))
  ELSE Definition(TypeOf(v.kind), v)

\* The structured clone does not take a proxy, whose properties are functions and
\* promises; send throws.
CanCarry(d) ==
  platform \in {"workerThreads", "webWorkers"} => \A v \in d.value : v.kind # "proxy"

\* What JSON and the structured clone make of a value in a message.
Carry(v) ==
  IF platform = "fakeWorker" THEN v
  ELSE IF platform = "childProcess"
    THEN IF v.kind \in Bytes THEN As(v, "mangled")
         ELSE IF v.kind = "nan" THEN As(v, "null")
         ELSE IF v.kind = "proxy" THEN As(v, "stripped proxy") ELSE v
  ELSE IF v.kind \in Bytes THEN As(v, "uint8array") ELSE v

Carried(d) == [d EXCEPT !.value = {Carry(v) : v \in d.value}]

\* decodeArguments of one argument, on the side s: the set of its one value.
DecodeValue(s, type, v) ==
  IF type = "buffer"
    THEN IF v.kind \in {"base64", "uint8array", "buffer"} THEN As(v, "buffer") ELSE v
  ELSE IF type = "function" THEN As(v, "remote function")
  ELSE IF v.kind = "self" THEN As(v, IF s = "parent" THEN "proxy" ELSE "instance")
  ELSE v

Decode(s, d) == IF d.original # {} THEN d.original ELSE {DecodeValue(s, d.type, v) : v \in d.value}

-----------------------------------------------------------------------------
(***************************************************************************)
(* A value on its way: the program passes it to a method, or a method      *)
(* returns it, and whoever gets it passes it on.                           *)
(***************************************************************************)
Init ==
  /\ platform \in Platforms
  /\ side \in Sides
  /\ value \in Values(side)
  /\ origin = value
  /\ wire = {}
  /\ crossings = 0

\* A call whose arguments cannot be sent rejects, and the value stays.
Send ==
  LET d == Encode(Strategy(side), value)
  IN /\ wire = {}
     /\ crossings < MaxCrossings
     /\ CanCarry(d)
     /\ wire' = {Carried(d)}
     /\ UNCHANGED <<platform, origin, side, value, crossings>>

Receive ==
  /\ \E d \in wire : value' \in Decode(Other(side), d)
  /\ wire' = {}
  /\ side' = Other(side)
  /\ crossings' = crossings + 1
  /\ UNCHANGED <<platform, origin>>

Next == Send \/ Receive

Spec == Init /\ [][Next]_vars

-----------------------------------------------------------------------------
(***************************************************************************)
(* What a program may expect of a value after so many crossings.           *)
(***************************************************************************)
ExpectedKind(kind, n) ==
  IF n = 0 THEN kind
  ELSE IF kind = "function" THEN "remote function"
  ELSE IF kind = "uint8array" /\ platform # "fakeWorker" THEN "buffer"
  ELSE IF kind = "nan" /\ platform = "childProcess" THEN "null"
  ELSE IF kind = "instance" /\ n = 1 THEN "proxy"
  ELSE IF kind \in {"instance", "proxy"}
    THEN IF platform = "childProcess" THEN "stripped proxy" ELSE "proxy"
  ELSE kind

\* However often a value is passed on, and although each side chooses an encoding
\* for itself, it is what it was, with its content, but for typed arrays, which
\* become Buffers except in process, numbers that JSON does not know, functions,
\* which become remote ones, and the instance: the program gets its proxy of it,
\* and a proxy that it passes back does not become the instance again.
ValuesSurvive == value = As(origin, ExpectedKind(origin.kind, crossings))
=============================================================================
