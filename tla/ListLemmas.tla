---------------------------- MODULE ListLemmas ----------------------------
(* Facts about the operations on kernel-style lists, as sequences: adding   *)
(* at the head (list_add), at the tail (list_add_tail), and taking one      *)
(* element out (list_del_init).                                             *)
EXTENDS SequencesExt, SequenceTheorems, TLAPS

\* What list_add leaves: the new element and the old ones.
LEMMA ConsFacts ==
    ASSUME NEW S, NEW s \in Seq(S), NEW e \in S
    PROVE  /\ Cons(e, s) \in Seq(S)
           /\ Len(Cons(e, s)) = Len(s) + 1
           /\ Cons(e, s)[1] = e
           /\ \A j \in 1..Len(s) : Cons(e, s)[j + 1] = s[j]
           /\ ToSet(Cons(e, s)) = ToSet(s) \cup {e}
<1>1. <<e>> \in Seq(S) /\ Len(<<e>>) = 1 /\ <<e>>[1] = e
  OBVIOUS
<1>2. Len(s) \in Nat /\ DOMAIN s = 1..Len(s)
  BY LenProperties
<1> DEFINE c == <<e>> \o s
<1>3. /\ c \in Seq(S) /\ Len(c) = Len(s) + 1
      /\ \A i \in 1..(Len(s) + 1) : c[i] = IF i <= 1 THEN <<e>>[i] ELSE s[i - 1]
  BY <1>1, <1>2, ConcatProperties
<1>4. DOMAIN c = 1..(Len(s) + 1)
  BY <1>3, LenProperties
<1>5. c = Cons(e, s)
  BY DEF Cons
<1> HIDE DEF c
<1>6. c[1] = e
  BY <1>1, <1>2, <1>3
<1>7. ASSUME NEW j \in 1..Len(s) PROVE c[j + 1] = s[j]
  BY <1>2, <1>3
<1>8. ToSet(c) = ToSet(s) \cup {e}
  <2>1. ASSUME NEW x \in ToSet(c) PROVE x \in ToSet(s) \cup {e}
    <3>1. PICK i \in 1..(Len(s) + 1) : x = c[i]
      BY <2>1, <1>4 DEF ToSet
    <3>2. CASE i = 1
      BY <3>1, <3>2, <1>6
    <3>3. CASE i # 1
      <4>1. i - 1 \in 1..Len(s) /\ c[i] = s[i - 1]
        BY <3>3, <1>2, <1>3
      <4> QED
        BY <3>1, <4>1, <1>2 DEF ToSet
    <3> QED
      BY <3>2, <3>3
  <2>2. e \in ToSet(c)
    BY <1>2, <1>4, <1>6 DEF ToSet
  <2>3. ASSUME NEW x \in ToSet(s) PROVE x \in ToSet(c)
    <3>1. PICK j \in 1..Len(s) : x = s[j]
      BY <2>3, <1>2 DEF ToSet
    <3>2. j + 1 \in 1..(Len(s) + 1) /\ c[j + 1] = x
      BY <3>1, <1>2, <1>7
    <3> QED
      BY <3>2, <1>4 DEF ToSet
  <2> QED
    BY <2>1, <2>2, <2>3
<1> QED
  BY <1>3, <1>5, <1>6, <1>7, <1>8

LEMMA ConsToSet ==
    ASSUME NEW S, NEW s \in Seq(S), NEW e \in S
    PROVE  ToSet(Cons(e, s)) = ToSet(s) \cup {e}
  BY ConsFacts

\* What list_add_tail leaves.
LEMMA AppendFacts ==
    ASSUME NEW S, NEW s \in Seq(S), NEW e \in S
    PROVE  /\ Append(s, e) \in Seq(S)
           /\ Len(Append(s, e)) = Len(s) + 1
           /\ Append(s, e)[Len(s) + 1] = e
           /\ \A j \in 1..Len(s) : Append(s, e)[j] = s[j]
           /\ ToSet(Append(s, e)) = ToSet(s) \cup {e}
<1>2. Len(s) \in Nat /\ DOMAIN s = 1..Len(s)
  BY LenProperties
<1> DEFINE c == Append(s, e)
<1>3. /\ c \in Seq(S) /\ Len(c) = Len(s) + 1
      /\ c[Len(s) + 1] = e
      /\ \A i \in 1..Len(s) : c[i] = s[i]
  BY <1>2
<1>4. DOMAIN c = 1..(Len(s) + 1)
  BY <1>3, LenProperties
<1> HIDE DEF c
<1>8. ToSet(c) = ToSet(s) \cup {e}
  <2>1. ASSUME NEW x \in ToSet(c) PROVE x \in ToSet(s) \cup {e}
    <3>1. PICK i \in 1..(Len(s) + 1) : x = c[i]
      BY <2>1, <1>4 DEF ToSet
    <3>2. CASE i = Len(s) + 1
      BY <3>1, <3>2, <1>3
    <3>3. CASE i # Len(s) + 1
      <4>1. i \in 1..Len(s) /\ c[i] = s[i]
        BY <3>3, <1>2, <1>3
      <4> QED
        BY <3>1, <4>1, <1>2 DEF ToSet
    <3> QED
      BY <3>2, <3>3
  <2>2. e \in ToSet(c)
    BY <1>2, <1>4, <1>3 DEF ToSet
  <2>3. ASSUME NEW x \in ToSet(s) PROVE x \in ToSet(c)
    <3>1. PICK j \in 1..Len(s) : x = s[j]
      BY <2>3, <1>2 DEF ToSet
    <3>2. j \in 1..(Len(s) + 1) /\ c[j] = x
      BY <3>1, <1>2, <1>3
    <3> QED
      BY <3>2, <1>4 DEF ToSet
  <2> QED
    BY <2>1, <2>2, <2>3
<1> QED
  BY <1>3, <1>8 DEF c

LEMMA AppendToSet ==
    ASSUME NEW S, NEW s \in Seq(S), NEW e \in S
    PROVE  ToSet(Append(s, e)) = ToSet(s) \cup {e}
  BY AppendFacts

\* What list_del_init of the i-th element leaves.
LEMMA RemoveAtFacts ==
    ASSUME NEW S, NEW s \in Seq(S), NEW i \in DOMAIN s
    PROVE  /\ RemoveAt(s, i) \in Seq(S)
           /\ Len(RemoveAt(s, i)) = Len(s) - 1
           /\ \A j \in 1..(Len(s) - 1) :
                RemoveAt(s, i)[j] = IF j < i THEN s[j] ELSE s[j + 1]
<1> DEFINE a == SubSeq(s, 1, i - 1)
           b == SubSeq(s, i + 1, Len(s))
<1>0. /\ Len(s) \in Nat /\ i \in 1..Len(s)
      /\ \A j \in 1..Len(s) : s[j] \in S
  BY LenProperties, ElementOfSeq
<1>1. /\ a \in Seq(S) /\ Len(a) = i - 1
      /\ \A j \in 1..(i - 1) : a[j] = s[j]
  BY <1>0
<1>2. /\ b \in Seq(S) /\ Len(b) = Len(s) - i
      /\ \A j \in 1..(Len(s) - i) : b[j] = s[i + j]
  BY <1>0
<1>3. RemoveAt(s, i) = a \o b
  BY DEF RemoveAt
<1> DEFINE c == a \o b
<1> HIDE DEF a, b
<1>4. /\ c \in Seq(S)
      /\ Len(c) = Len(a) + Len(b)
      /\ \A j \in 1..(Len(a) + Len(b)) :
            c[j] = IF j <= Len(a) THEN a[j] ELSE b[j - Len(a)]
  BY <1>1, <1>2, ConcatProperties
<1> HIDE DEF c
<1>5. ASSUME NEW j \in 1..(Len(s) - 1)
      PROVE  c[j] = IF j < i THEN s[j] ELSE s[j + 1]
  <2>0. Len(a) = i - 1 /\ j \in 1..(Len(a) + Len(b))
    BY <1>0, <1>1, <1>2
  <2>1. c[j] = IF j <= i - 1 THEN a[j] ELSE b[j - (i - 1)]
    <3>1. c[j] = IF j <= Len(a) THEN a[j] ELSE b[j - Len(a)]
      BY <2>0, <1>4
    <3> QED
      BY <3>1, <2>0
  <2>2. CASE j < i
    BY <2>1, <2>2, <1>0, <1>1
  <2>3. CASE ~(j < i)
    <3>1. j - (i - 1) \in 1..(Len(s) - i) /\ i + (j - (i - 1)) = j + 1
      BY <2>3, <1>0
    <3> QED
      BY <2>1, <2>3, <3>1, <1>0, <1>2
  <2> QED
    BY <2>2, <2>3
<1>6. Len(c) = Len(s) - 1
  BY <1>0, <1>1, <1>2, <1>4
<1> QED
  BY <1>3, <1>4, <1>5, <1>6 DEF c

\* Taking an element out of a list adds no element.
LEMMA RemoveAtSubset ==
    ASSUME NEW S, NEW s \in Seq(S), NEW i \in DOMAIN s
    PROVE  ToSet(RemoveAt(s, i)) \subseteq ToSet(s)
<1>1. Len(s) \in Nat /\ DOMAIN s = 1..Len(s)
  BY LenProperties
<1>2. DOMAIN RemoveAt(s, i) = 1..(Len(s) - 1)
  BY RemoveAtFacts, LenProperties, <1>1
<1>3. \A j \in 1..(Len(s) - 1) : RemoveAt(s, i)[j] = IF j < i THEN s[j] ELSE s[j + 1]
  BY RemoveAtFacts
<1> QED
  BY <1>1, <1>2, <1>3 DEF ToSet

\* Assigning to one entry of an array keeps its type, also when the index is
\* not one of the array's.
LEMMA ExceptType ==
    ASSUME NEW D, NEW S, NEW f \in [D -> S], NEW x, NEW v, x \in D => v \in S
    PROVE  [f EXCEPT ![x] = v] \in [D -> S]
  OBVIOUS

\* A counter that goes up or down stays an integer.
LEMMA CounterType ==
    ASSUME NEW D, NEW f \in [D -> Int], NEW x
    PROVE  /\ [f EXCEPT ![x] = @ + 1] \in [D -> Int]
           /\ [f EXCEPT ![x] = @ - 1] \in [D -> Int]
<1>1. x \in D => f[x] + 1 \in Int /\ f[x] - 1 \in Int
  OBVIOUS
<1>2. [f EXCEPT ![x] = f[x] + 1] \in [D -> Int]
  BY <1>1, ExceptType
<1>3. [f EXCEPT ![x] = f[x] - 1] \in [D -> Int]
  BY <1>1, ExceptType
<1> QED
  BY <1>2, <1>3

\* A counter that goes up stays a natural number.
LEMMA NatCounterType ==
    ASSUME NEW D, NEW f \in [D -> Nat], NEW x
    PROVE  [f EXCEPT ![x] = @ + 1] \in [D -> Nat]
<1>1. x \in D => f[x] + 1 \in Nat
  OBVIOUS
<1>2. [f EXCEPT ![x] = f[x] + 1] \in [D -> Nat]
  BY <1>1, ExceptType
<1> QED
  BY <1>2
=============================================================================
