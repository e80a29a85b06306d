----------------------------- MODULE ListLemmas -----------------------------
(***************************************************************************)
(* What taking, adding and removing one element does to a list, that is,   *)
(* what Array's shift, push, unshift, includes and indexOf + splice do:    *)
(* facts the proofs about the pool's lists rest on.                        *)
(***************************************************************************)
EXTENDS SequencesExt, SequenceTheorems, WellFoundedInduction, TLAPS

\* A nonempty set of numbers has a least element, the one Min chooses.
LEMMA MinIsLeast ==
    ASSUME NEW I \in SUBSET Nat, I # {}
    PROVE  Min(I) \in I /\ \A j \in I : Min(I) <= j
<1>1. IsWellFoundedOn(OpToRel(<, Nat), Nat)
  BY NatLessThanWellFounded
<1>2. PICK x \in I : \A y \in I : ~(<<y, x>> \in OpToRel(<, Nat))
  BY <1>1, WFMin
<1>3. ASSUME NEW y \in I PROVE x <= y
  <2>1. <<y, x>> \in Nat \X Nat
    OBVIOUS
  <2>2. ~(y < x)
    BY <1>2, <2>1 DEF OpToRel
  <2> QED
    BY <2>2
<1> QED
  BY <1>3 DEF Min

\* indexOf and splice take one occurrence of e out of the list.
LEMMA RemoveFirstIsSplice ==
    ASSUME NEW S, NEW s \in Seq(S), NEW e, e \in ToSet(s)
    PROVE  \E i \in 1..Len(s) : s[i] = e /\ RemoveFirst(s, e) = RemoveAt(s, i)
<1> DEFINE I == {i \in 1..Len(s) : s[i] = e}
<1>1. I \in SUBSET Nat /\ I # {}
  BY DEF ToSet
<1>2. Min(I) \in I
  BY <1>1, MinIsLeast
<1>3. SelectInSeq(s, LAMBDA v : v = e) = Min(I)
  BY <1>1 DEF SelectInSeq
<1>4. RemoveFirst(s, e) = RemoveAt(s, Min(I))
  BY <1>1, <1>3 DEF RemoveFirst
<1> QED
  BY <1>2, <1>4

\* Splicing one position out keeps the other elements, in their order.
LEMMA RemoveAtElements ==
    ASSUME NEW S, NEW s \in Seq(S), NEW i \in 1..Len(s)
    PROVE  /\ RemoveAt(s, i) \in Seq(S)
           /\ Len(RemoveAt(s, i)) = Len(s) - 1
           /\ \A j \in 1..(Len(s) - 1) :
                RemoveAt(s, i)[j] = IF j < i THEN s[j] ELSE s[j + 1]
<1> DEFINE a == SubSeq(s, 1, i - 1)
           b == SubSeq(s, i + 1, Len(s))
<1>1. a \in Seq(S) /\ Len(a) = i - 1 /\ \A j \in 1..(i - 1) : a[j] = s[j]
  OBVIOUS
<1>2. b \in Seq(S) /\ Len(b) = Len(s) - i /\ \A j \in 1..(Len(s) - i) : b[j] = s[i + j]
  OBVIOUS
<1> HIDE DEF a, b
<1>3. a \o b \in Seq(S) /\ Len(a \o b) = Len(s) - 1
  <2>1. a \o b \in Seq(S) /\ Len(a \o b) = Len(a) + Len(b)
    BY <1>1, <1>2, ConcatProperties
  <2>2. Len(s) \in Nat /\ i \in Int
    OBVIOUS
  <2> QED
    BY <1>1, <1>2, <2>1, <2>2
<1>4. ASSUME NEW j \in 1..(Len(s) - 1)
      PROVE  (a \o b)[j] = IF j < i THEN s[j] ELSE s[j + 1]
  <2>1. CASE j < i
    BY <1>1, <1>2, <2>1
  <2>2. CASE j >= i
    <3>1. (a \o b)[j] = b[j - (i - 1)]
      BY <1>1, <1>2, <2>2
    <3> QED
      BY <1>2, <2>2, <3>1
  <2>3. j < i \/ j >= i
    OBVIOUS
  <2> QED
    BY <2>1, <2>2, <2>3
<1> QED
  BY <1>3, <1>4 DEF RemoveAt, a, b

\* Removing an element keeps a list a list, adds nothing to it, and takes the
\* element out of a list without duplicates, which stays one.
LEMMA RemoveFirstElements ==
    ASSUME NEW S, NEW s \in Seq(S), NEW e
    PROVE  /\ RemoveFirst(s, e) \in Seq(S)
           /\ ToSet(RemoveFirst(s, e)) \subseteq ToSet(s)
           /\ ToSet(s) \subseteq ToSet(RemoveFirst(s, e)) \cup {e}
           /\ IsInjective(s) => /\ IsInjective(RemoveFirst(s, e))
                                /\ e \notin ToSet(RemoveFirst(s, e))
<1>1. CASE e \notin ToSet(s)
  <2>1. RemoveFirst(s, e) = s
    BY <1>1 DEF RemoveFirst, ToSet
  <2> QED
    BY <1>1, <2>1
<1>2. CASE e \in ToSet(s)
  <2>1. PICK i \in 1..Len(s) : s[i] = e /\ RemoveFirst(s, e) = RemoveAt(s, i)
    BY <1>2, RemoveFirstIsSplice
  <2> DEFINE t == RemoveAt(s, i)
  <2>2. /\ t \in Seq(S) /\ Len(t) = Len(s) - 1
        /\ \A j \in 1..(Len(s) - 1) : t[j] = IF j < i THEN s[j] ELSE s[j + 1]
    BY RemoveAtElements
  <2> HIDE DEF t
  <2>3. DOMAIN t = 1..(Len(s) - 1) /\ DOMAIN s = 1..Len(s)
    BY <2>2
  <2>4. ToSet(t) \subseteq ToSet(s)
    BY <2>2, <2>3 DEF ToSet
  <2>5. ASSUME NEW x \in ToSet(s), x # e PROVE x \in ToSet(t)
    <3>1. PICK j \in 1..Len(s) : s[j] = x
      BY <2>3 DEF ToSet
    <3>2. CASE j < i
      BY <2>2, <2>3, <3>1, <3>2 DEF ToSet
    <3>3. CASE j > i
      <4>1. j - 1 \in 1..(Len(s) - 1) /\ t[j - 1] = x
        BY <2>2, <3>1, <3>3
      <4> QED
        BY <2>3, <4>1 DEF ToSet
    <3> QED
      BY <2>1, <2>5, <3>1, <3>2, <3>3
  <2>6. ASSUME IsInjective(s) PROVE IsInjective(t) /\ e \notin ToSet(t)
    <3>1. \A j, m \in 1..Len(s) : s[j] = s[m] => j = m
      BY <2>3, <2>6 DEF IsInjective
    <3>2. \A j, m \in 1..(Len(s) - 1) : t[j] = t[m] => j = m
      BY <2>2, <3>1
    <3>3. \A j \in 1..(Len(s) - 1) : t[j] # e
      BY <2>1, <2>2, <3>1
    <3> QED
      BY <2>3, <3>2, <3>3 DEF IsInjective, ToSet
  <2> QED
    BY <2>1, <2>2, <2>4, <2>5, <2>6 DEF t
<1> QED
  BY <1>1, <1>2

\* shift: the head leaves a list.
LEMMA TailElements ==
    ASSUME NEW S, NEW s \in Seq(S), s # <<>>
    PROVE  /\ Head(s) \in S /\ Head(s) \in ToSet(s) /\ Tail(s) \in Seq(S)
           /\ ToSet(s) = ToSet(Tail(s)) \cup {Head(s)}
           /\ IsInjective(s) => /\ IsInjective(Tail(s))
                                /\ Head(s) \notin ToSet(Tail(s))
<1>1. /\ Len(s) >= 1 /\ DOMAIN s = 1..Len(s) /\ Head(s) = s[1]
      /\ Tail(s) \in Seq(S) /\ DOMAIN Tail(s) = 1..(Len(s) - 1)
      /\ \A j \in 1..(Len(s) - 1) : Tail(s)[j] = s[j + 1]
  OBVIOUS
<1>2. ToSet(s) = ToSet(Tail(s)) \cup {Head(s)}
  <2>1. ASSUME NEW x \in ToSet(s), x # Head(s) PROVE x \in ToSet(Tail(s))
    <3>1. PICK j \in 1..Len(s) : s[j] = x
      BY <1>1 DEF ToSet
    <3>2. j - 1 \in 1..(Len(s) - 1) /\ Tail(s)[j - 1] = x
      BY <1>1, <2>1, <3>1
    <3> QED
      BY <1>1, <3>2 DEF ToSet
  <2>2. ToSet(Tail(s)) \subseteq ToSet(s) /\ Head(s) \in ToSet(s)
    BY <1>1 DEF ToSet
  <2> QED
    BY <2>1, <2>2
<1>3. ASSUME IsInjective(s)
      PROVE  IsInjective(Tail(s)) /\ Head(s) \notin ToSet(Tail(s))
  <2>1. \A j, m \in 1..Len(s) : s[j] = s[m] => j = m
    BY <1>1, <1>3 DEF IsInjective
  <2> QED
    BY <1>1, <2>1 DEF IsInjective, ToSet
<1> QED
  BY <1>1, <1>2, <1>3

\* push: a new element comes last.
LEMMA AppendElements ==
    ASSUME NEW S, NEW s \in Seq(S), NEW e \in S
    PROVE  /\ Append(s, e) \in Seq(S) /\ Append(s, e) # <<>>
           /\ ToSet(Append(s, e)) = ToSet(s) \cup {e}
           /\ IsInjective(s) /\ e \notin ToSet(s) => IsInjective(Append(s, e))
<1>1. /\ Append(s, e) \in Seq(S) /\ DOMAIN s = 1..Len(s)
      /\ DOMAIN Append(s, e) = 1..(Len(s) + 1)
      /\ \A j \in 1..Len(s) : Append(s, e)[j] = s[j]
      /\ Append(s, e)[Len(s) + 1] = e /\ Append(s, e) # <<>>
  OBVIOUS
<1>2. ToSet(Append(s, e)) = ToSet(s) \cup {e}
  BY <1>1 DEF ToSet
<1>3. IsInjective(s) /\ e \notin ToSet(s) => IsInjective(Append(s, e))
  BY <1>1 DEF ToSet, IsInjective
<1> QED
  BY <1>1, <1>2, <1>3

\* unshift: a new element comes first.
LEMMA ConsElements ==
    ASSUME NEW S, NEW s \in Seq(S), NEW e \in S
    PROVE  /\ Cons(e, s) \in Seq(S) /\ Cons(e, s) # <<>>
           /\ Head(Cons(e, s)) = e /\ Tail(Cons(e, s)) = s
           /\ ToSet(Cons(e, s)) = ToSet(s) \cup {e}
           /\ IsInjective(s) /\ e \notin ToSet(s) => IsInjective(Cons(e, s))
<1> DEFINE t == <<e>> \o s
<1>1. /\ t \in Seq(S) /\ DOMAIN s = 1..Len(s) /\ Len(t) = Len(s) + 1
      /\ DOMAIN t = 1..(Len(s) + 1) /\ t[1] = e
      /\ \A j \in 1..Len(s) : t[j + 1] = s[j]
  OBVIOUS
<1>2. \A j \in 2..(Len(s) + 1) : j - 1 \in 1..Len(s) /\ t[j] = s[j - 1]
  BY <1>1
<1> HIDE DEF t
<1>3. t # <<>> /\ Head(t) = e
  BY <1>1
<1>4. Tail(t) = s
  BY <1>1, <1>3
<1>5. ToSet(t) = ToSet(s) \cup {e}
  <2>1. ASSUME NEW j \in 1..(Len(s) + 1) PROVE t[j] \in ToSet(s) \cup {e}
    BY <1>1, <1>2 DEF ToSet
  <2>2. ASSUME NEW j \in 1..Len(s) PROVE s[j] \in ToSet(t)
    <3>1. j + 1 \in 1..(Len(s) + 1)
      OBVIOUS
    <3> QED
      BY <1>1, <3>1 DEF ToSet
  <2>3. e \in ToSet(t)
    <3>1. 1 \in 1..(Len(s) + 1)
      OBVIOUS
    <3> QED
      BY <1>1, <3>1 DEF ToSet
  <2> QED
    BY <1>1, <2>1, <2>2, <2>3 DEF ToSet
<1>6. ASSUME IsInjective(s), e \notin ToSet(s) PROVE IsInjective(t)
  <2>1. \A j, m \in 1..Len(s) : s[j] = s[m] => j = m
    BY <1>1, <1>6 DEF IsInjective
  <2>2. \A j \in 1..Len(s) : s[j] # e
    BY <1>1, <1>6 DEF ToSet
  <2>3. ASSUME NEW j \in 1..(Len(s) + 1), NEW m \in 1..(Len(s) + 1), t[j] = t[m]
        PROVE  j = m
    <3>1. CASE j = 1 \/ m = 1
      BY <1>1, <1>2, <2>2, <2>3, <3>1
    <3>2. CASE j # 1 /\ m # 1
      <4>1. j \in 2..(Len(s) + 1) /\ m \in 2..(Len(s) + 1)
        BY <3>2
      <4>2. j - 1 = m - 1
        BY <1>2, <2>1, <2>3, <4>1
      <4> QED
        BY <4>1, <4>2
    <3> QED
      BY <3>1, <3>2
  <2> QED
    BY <1>1, <2>3 DEF IsInjective
<1> QED
  BY <1>1, <1>3, <1>4, <1>5, <1>6 DEF t, Cons
=============================================================================
