---------------------------- MODULE SequenceFacts ----------------------------
(***************************************************************************)
(* Facts about the sequences that the models keep messages in, and about   *)
(* the sets of their elements (ToSet), for the proofs of other modules.    *)
(***************************************************************************)
EXTENDS Integers, Sequences, SequencesExt, SequenceTheorems, TLAPS

\* An element that is appended joins the elements.
LEMMA ToSetAppend ==
  ASSUME NEW S, NEW s \in Seq(S), NEW e \in S
  PROVE  ToSet(Append(s, e)) = ToSet(s) \cup {e}
<1>1. /\ DOMAIN s = 1..Len(s) /\ DOMAIN Append(s, e) = 1..(Len(s) + 1) /\ Len(s) \in Nat
      /\ \A k \in 1..Len(s) : Append(s, e)[k] = s[k]
      /\ Append(s, e)[Len(s) + 1] = e
  BY LenProperties, AppendProperties
<1>2. ToSet(Append(s, e)) \subseteq ToSet(s) \cup {e}
  BY <1>1 DEF ToSet
<1>3. ToSet(s) \subseteq ToSet(Append(s, e))
  <2> SUFFICES ASSUME NEW k \in 1..Len(s) PROVE s[k] \in ToSet(Append(s, e))
    BY <1>1 DEF ToSet
  <2> QED BY <1>1 DEF ToSet
<1>4. e \in ToSet(Append(s, e))
  BY <1>1 DEF ToSet
<1> QED BY <1>2, <1>3, <1>4

\* Concatenation joins the elements.
LEMMA ToSetConcat ==
  ASSUME NEW S, NEW s \in Seq(S), NEW t \in Seq(S)
  PROVE  ToSet(s \o t) = ToSet(s) \cup ToSet(t)
<1>1. /\ DOMAIN s = 1..Len(s) /\ DOMAIN t = 1..Len(t) /\ Len(s) \in Nat /\ Len(t) \in Nat
      /\ DOMAIN (s \o t) = 1..(Len(s) + Len(t))
      /\ \A k \in 1..(Len(s) + Len(t)) :
           (s \o t)[k] = IF k <= Len(s) THEN s[k] ELSE t[k - Len(s)]
  BY LenProperties, ConcatProperties
<1>2. ToSet(s \o t) \subseteq ToSet(s) \cup ToSet(t)
  <2> SUFFICES ASSUME NEW k \in 1..(Len(s) + Len(t))
               PROVE  (s \o t)[k] \in ToSet(s) \cup ToSet(t)
    BY <1>1 DEF ToSet
  <2>1. CASE k <= Len(s)
    BY <1>1, <2>1 DEF ToSet
  <2>2. CASE ~(k <= Len(s))
    <3>1. k - Len(s) \in 1..Len(t) BY <1>1, <2>2
    <3> QED BY <1>1, <2>2, <3>1 DEF ToSet
  <2> QED BY <2>1, <2>2
<1>3. ToSet(s) \subseteq ToSet(s \o t)
  <2> SUFFICES ASSUME NEW k \in 1..Len(s) PROVE s[k] \in ToSet(s \o t)
    BY <1>1 DEF ToSet
  <2>1. k \in 1..(Len(s) + Len(t)) /\ k <= Len(s) BY <1>1
  <2> QED BY <1>1, <2>1 DEF ToSet
<1>4. ToSet(t) \subseteq ToSet(s \o t)
  <2> SUFFICES ASSUME NEW k \in 1..Len(t) PROVE t[k] \in ToSet(s \o t)
    BY <1>1 DEF ToSet
  <2>1. /\ Len(s) + k \in 1..(Len(s) + Len(t)) /\ ~(Len(s) + k <= Len(s))
        /\ (Len(s) + k) - Len(s) = k
    BY <1>1
  <2> QED BY <1>1, <2>1 DEF ToSet
<1> QED BY <1>2, <1>3, <1>4

\* The head and the elements of the tail are the elements.
LEMMA ToSetTail ==
  ASSUME NEW S, NEW s \in Seq(S), s # <<>>
  PROVE  /\ Head(s) \in ToSet(s)
         /\ ToSet(s) = {Head(s)} \cup ToSet(Tail(s))
<1>1. /\ DOMAIN s = 1..Len(s) /\ Len(s) \in Nat \ {0} /\ Head(s) = s[1]
      /\ DOMAIN Tail(s) = 1..(Len(s) - 1)
      /\ \A k \in 1..(Len(s) - 1) : Tail(s)[k] = s[k + 1]
  BY LenProperties, EmptySeq, HeadTailProperties
<1>2. ToSet(Tail(s)) \subseteq ToSet(s)
  <2> SUFFICES ASSUME NEW k \in 1..(Len(s) - 1) PROVE Tail(s)[k] \in ToSet(s)
    BY <1>1 DEF ToSet
  <2>1. k + 1 \in 1..Len(s) BY <1>1
  <2> QED BY <1>1, <2>1 DEF ToSet
<1>3. \A k \in 1..Len(s) : s[k] \in {Head(s)} \cup ToSet(Tail(s))
  <2> SUFFICES ASSUME NEW k \in 1..Len(s), k # 1 PROVE s[k] \in ToSet(Tail(s))
    BY <1>1
  <2>1. k - 1 \in 1..(Len(s) - 1) /\ (k - 1) + 1 = k BY <1>1
  <2> QED BY <1>1, <2>1 DEF ToSet
<1> QED BY <1>1, <1>2, <1>3 DEF ToSet

\* The elements are of the set the sequence is over.
LEMMA ToSetTyped ==
  ASSUME NEW S, NEW s \in Seq(S)
  PROVE  ToSet(s) \subseteq S
BY LenProperties, ElementOfSeq DEF ToSet

\* Nothing is in the empty sequence.
LEMMA ToSetEmpty == ToSet(<<>>) = {}
BY DEF ToSet

\* A sequence of one element.
LEMMA OneElement ==
  ASSUME NEW S, NEW e \in S
  PROVE  /\ <<e>> \in Seq(S) /\ Len(<<e>>) = 1 /\ <<e>>[1] = e
         /\ ToSet(<<e>>) = {e}
<1>1. <<e>> \in Seq(S) /\ Len(<<e>>) = 1 /\ <<e>>[1] = e
  OBVIOUS
<1>2. DOMAIN <<e>> = 1..1
  BY <1>1, LenProperties
<1> QED BY <1>1, <1>2 DEF ToSet

=============================================================================
