------------------------------ MODULE RpcLists ------------------------------
(***************************************************************************)
(* What the operators of List keep: the entries of a list, and that each   *)
(* of some entries is there once.                                          *)
(***************************************************************************)
EXTENDS List, TLAPS

\* The length of a list, and what it is as a function.
LEMMA LenFacts ==
    ASSUME NEW S, NEW l \in Seq(S)
    PROVE  DOMAIN l = 1..Len(l) /\ Len(l) \in Nat /\ l \in [1..Len(l) -> S]
  OBVIOUS

\* The entries of a list of S are in S.
LEMMA EntryType ==
    ASSUME NEW S, NEW l \in Seq(S), NEW i \in 1..Len(l)
    PROVE  l[i] \in S
  OBVIOUS

\* Only the empty list has no entries.
LEMMA EmptyFacts ==
    ASSUME NEW S
    PROVE  /\ <<>> \in Seq(S) /\ Len(<<>>) = 0
           /\ \A l \in Seq(S) : l # <<>> => Len(l) \in Nat \ {0}
  OBVIOUS

\* A function on 1..n is a list.
LEMMA FunctionIsSeq ==
    ASSUME NEW S, NEW n \in Nat, NEW f \in [1..n -> S]
    PROVE  f \in Seq(S) /\ Len(f) = n
  OBVIOUS

\* One list followed by another.
LEMMA JoinFacts ==
    ASSUME NEW S, NEW l \in Seq(S), NEW m \in Seq(S)
    PROVE  /\ l \o m \in Seq(S) /\ Len(l \o m) = Len(l) + Len(m)
           /\ \A k \in 1..(Len(l) + Len(m)) :
                (l \o m)[k] = IF k <= Len(l) THEN l[k] ELSE m[k - Len(l)]
  OBVIOUS

\* A part of a list.
LEMMA PartFacts ==
    ASSUME NEW S, NEW l, NEW a \in Int, NEW b \in Int, \A k \in a..b : l[k] \in S
    PROVE  /\ SubSeq(l, a, b) \in Seq(S)
           /\ Len(SubSeq(l, a, b)) = IF a <= b THEN b - a + 1 ELSE 0
           /\ \A k \in 1..(b - a + 1) : SubSeq(l, a, b)[k] = l[a + k - 1]
  OBVIOUS

\* The head and the tail of a list.
LEMMA HeadTailFacts ==
    ASSUME NEW S, NEW l \in Seq(S), l # <<>>
    PROVE  /\ Head(l) \in S /\ Tail(l) \in Seq(S)
           /\ Len(Tail(l)) = Len(l) - 1
           /\ \A k \in 1..Len(Tail(l)) : Tail(l)[k] = l[k + 1]
  OBVIOUS

\* What list_add_tail leaves.
LEMMA AppendFacts ==
    ASSUME NEW S, NEW s \in Seq(S), NEW e \in S
    PROVE  /\ Append(s, e) \in Seq(S)
           /\ Len(Append(s, e)) = Len(s) + 1
           /\ Append(s, e)[Len(s) + 1] = e
           /\ \A j \in 1..Len(s) : Append(s, e)[j] = s[j]
           /\ Range(Append(s, e)) = Range(s) \cup {e}
<1>2. Len(s) \in Nat /\ DOMAIN s = 1..Len(s)
  BY LenFacts
<1> DEFINE c == Append(s, e)
<1>3. /\ c \in Seq(S) /\ Len(c) = Len(s) + 1
      /\ c[Len(s) + 1] = e
      /\ \A i \in 1..Len(s) : c[i] = s[i]
  BY <1>2
<1>4. DOMAIN c = 1..(Len(s) + 1)
  BY <1>3, LenFacts
<1> HIDE DEF c
<1>8. Range(c) = Range(s) \cup {e}
  <2>1. ASSUME NEW x \in Range(c) PROVE x \in Range(s) \cup {e}
    <3>1. PICK i \in 1..(Len(s) + 1) : x = c[i]
      BY <2>1, <1>4 DEF Range
    <3>2. CASE i = Len(s) + 1
      BY <3>1, <3>2, <1>3
    <3>3. CASE i # Len(s) + 1
      <4>1. i \in 1..Len(s) /\ c[i] = s[i]
        BY <3>3, <1>2, <1>3
      <4> QED
        BY <3>1, <4>1, <1>2 DEF Range
    <3> QED
      BY <3>2, <3>3
  <2>2. e \in Range(c)
    BY <1>2, <1>4, <1>3 DEF Range
  <2>3. ASSUME NEW x \in Range(s) PROVE x \in Range(c)
    <3>1. PICK j \in 1..Len(s) : x = s[j]
      BY <2>3, <1>2 DEF Range
    <3>2. j \in 1..(Len(s) + 1) /\ c[j] = x
      BY <3>1, <1>2, <1>3
    <3> QED
      BY <3>2, <1>4 DEF Range
  <2> QED
    BY <2>1, <2>2, <2>3
<1> QED
  BY <1>3, <1>8 DEF c

\* What list_add_tail leaves on the list.
LEMMA AppendRange ==
    ASSUME NEW S, NEW s \in Seq(S), NEW e \in S
    PROVE  Range(Append(s, e)) = Range(s) \cup {e}
  BY AppendFacts

\* What list_del_init of the i-th element leaves.
LEMMA DelFacts ==
    ASSUME NEW S, NEW s \in Seq(S), NEW i \in DOMAIN s
    PROVE  /\ list_del(s, i) \in Seq(S)
           /\ Len(list_del(s, i)) = Len(s) - 1
           /\ \A j \in 1..(Len(s) - 1) :
                list_del(s, i)[j] = IF j < i THEN s[j] ELSE s[j + 1]
<1> DEFINE a == SubSeq(s, 1, i - 1)
           b == SubSeq(s, i + 1, Len(s))
<1>0. /\ Len(s) \in Nat /\ i \in 1..Len(s)
      /\ \A j \in 1..Len(s) : s[j] \in S
  BY LenFacts, EntryType
<1>1. /\ a \in Seq(S) /\ Len(a) = i - 1
      /\ \A j \in 1..(i - 1) : a[j] = s[j]
  BY <1>0
<1>2. /\ b \in Seq(S) /\ Len(b) = Len(s) - i
      /\ \A j \in 1..(Len(s) - i) : b[j] = s[i + j]
  BY <1>0
<1>3. list_del(s, i) = a \o b
  BY DEF list_del
<1> DEFINE c == a \o b
<1> HIDE DEF a, b
<1>4. /\ c \in Seq(S)
      /\ Len(c) = Len(a) + Len(b)
      /\ \A j \in 1..(Len(a) + Len(b)) :
            c[j] = IF j <= Len(a) THEN a[j] ELSE b[j - Len(a)]
  BY <1>1, <1>2, JoinFacts, ZenonT(30)
<1> HIDE DEF c
<1>5. ASSUME NEW j \in 1..(Len(s) - 1)
      PROVE  c[j] = IF j < i THEN s[j] ELSE s[j + 1]
  <2>0. Len(a) = i - 1 /\ j \in 1..(Len(a) + Len(b))
    BY <1>0, <1>1, <1>2, SMTT(30)
  <2>1. c[j] = IF j <= i - 1 THEN a[j] ELSE b[j - (i - 1)]
    <3>1. c[j] = IF j <= Len(a) THEN a[j] ELSE b[j - Len(a)]
      BY <2>0, <1>4
    <3> QED
      BY <3>1, <2>0
  <2>2. CASE j < i
    BY <2>1, <2>2, <1>0, <1>1
  <2>3. CASE ~(j < i)
    <3>1. j - (i - 1) \in 1..(Len(s) - i) /\ i + (j - (i - 1)) = j + 1
      BY <2>3, <1>0
    <3> QED
      BY <2>1, <2>3, <3>1, <1>0, <1>2, SMTT(30)
  <2> QED
    BY <2>2, <2>3
<1>6. Len(c) = Len(s) - 1
  BY <1>0, <1>1, <1>2, <1>4
<1> QED
  BY <1>3, <1>4, <1>5, <1>6 DEF c

\* Assigning to one entry of an array keeps its type, also when the index is
\* not one of the array's.
LEMMA ExceptType ==
    ASSUME NEW D, NEW S, NEW f \in [D -> S], NEW x, NEW v, x \in D => v \in S
    PROVE  [f EXCEPT ![x] = v] \in [D -> S]
  BY Zenon

\* A counter that goes up stays a natural number.
LEMMA NatCounterType ==
    ASSUME NEW D, NEW f \in [D -> Nat], NEW x
    PROVE  [f EXCEPT ![x] = @ + 1] \in [D -> Nat]
<1>1. x \in D => f[x] + 1 \in Nat
  OBVIOUS
<1>2. [f EXCEPT ![x] = f[x] + 1] \in [D -> Nat]
  BY <1>1, ExceptType
<1> QED
  BY <1>2

\* The members of a list that is made of two.
LEMMA ConcatRange ==
    ASSUME NEW S, NEW s \in Seq(S), NEW t \in Seq(S)
    PROVE  Range(s \o t) = Range(s) \cup Range(t)
<1>1. /\ s \o t \in Seq(S) /\ Len(s \o t) = Len(s) + Len(t)
      /\ \A i \in 1..(Len(s) + Len(t)) :
           (s \o t)[i] = IF i <= Len(s) THEN s[i] ELSE t[i - Len(s)]
  BY JoinFacts
<1>2. /\ Len(s) \in Nat /\ Len(t) \in Nat
      /\ DOMAIN s = 1..Len(s) /\ DOMAIN t = 1..Len(t)
      /\ DOMAIN (s \o t) = 1..(Len(s) + Len(t))
  BY <1>1, LenFacts
<1>3. ASSUME NEW x \in Range(s \o t) PROVE x \in Range(s) \cup Range(t)
  <2>1. PICK i \in 1..(Len(s) + Len(t)) : x = (s \o t)[i]
    BY <1>2, <1>3 DEF Range
  <2>2. CASE i <= Len(s)
    BY <1>1, <1>2, <2>1, <2>2 DEF Range
  <2>3. CASE ~(i <= Len(s))
    <3>1. x = t[i - Len(s)] /\ i - Len(s) \in 1..Len(t)
      BY <1>1, <1>2, <2>1, <2>3
    <3> QED
      BY <1>2, <3>1 DEF Range
  <2> QED
    BY <2>2, <2>3
<1>4. ASSUME NEW x \in Range(s) PROVE x \in Range(s \o t)
  <2>1. PICK i \in 1..Len(s) : x = s[i]
    BY <1>2, <1>4 DEF Range
  <2>2. x = (s \o t)[i] /\ i \in 1..(Len(s) + Len(t))
    BY <1>1, <1>2, <2>1
  <2> QED
    BY <1>2, <2>2 DEF Range
<1>5. ASSUME NEW x \in Range(t) PROVE x \in Range(s \o t)
  <2>1. PICK i \in 1..Len(t) : x = t[i]
    BY <1>2, <1>5 DEF Range
  <2>2. x = (s \o t)[i + Len(s)] /\ i + Len(s) \in 1..(Len(s) + Len(t))
    BY <1>1, <1>2, <2>1
  <2> QED
    BY <1>2, <2>2 DEF Range
<1> QED
  BY <1>3, <1>4, <1>5

\* No element of R is twice in the list; the others may be.
OnceIn(s, R) == \A i, j \in DOMAIN s : s[i] = s[j] /\ s[i] \in R => i = j

\* A new element may be appended, and so may one that need not be unique.
LEMMA AppendOnce ==
    ASSUME NEW S, NEW s \in Seq(S), NEW e \in S, NEW R, OnceIn(s, R),
           e \notin R \/ e \notin Range(s)
    PROVE  OnceIn(Append(s, e), R)
<1> PICK c : c = Append(s, e)
  BY ZenonT(30)
<1>1. Len(s) \in Nat /\ DOMAIN s = 1..Len(s)
  BY LenFacts
<1>2. /\ c \in Seq(S) /\ Len(c) = Len(s) + 1 /\ c[Len(s) + 1] = e
      /\ \A j \in 1..Len(s) : c[j] = s[j]
  BY AppendFacts
<1>3. DOMAIN c = 1..(Len(s) + 1)
  BY <1>2, LenFacts
<1>4. \A j \in 1..Len(s) : s[j] = e => e \notin R
  BY <1>1 DEF Range
<1>5. ASSUME NEW a \in DOMAIN c, NEW b \in DOMAIN c, c[a] = c[b], c[a] \in R
      PROVE  a = b
  <2>1. CASE a = Len(s) + 1 \/ b = Len(s) + 1
    BY <2>1, <1>1, <1>2, <1>3, <1>4, <1>5
  <2>2. CASE a \in 1..Len(s) /\ b \in 1..Len(s)
    BY <2>2, <1>1, <1>2, <1>5 DEF OnceIn
  <2> QED
    BY <2>1, <2>2, <1>1, <1>3
<1>6. OnceIn(c, R)
  BY <1>5 DEF OnceIn
<1> QED
  BY <1>6

\* Deleting the i-th element leaves the others, and those that were unique are.
LEMMA DelOnce ==
    ASSUME NEW S, NEW s \in Seq(S), NEW i \in DOMAIN s, NEW R, OnceIn(s, R)
    PROVE  /\ OnceIn(list_del(s, i), R)
           /\ Range(list_del(s, i)) \subseteq Range(s)
           /\ Range(s) \ {s[i]} \subseteq Range(list_del(s, i))
           /\ s[i] \in R => s[i] \notin Range(list_del(s, i))
<1> DEFINE c == list_del(s, i)
<1>1. Len(s) \in Nat /\ DOMAIN s = 1..Len(s)
  BY LenFacts
<1>2. /\ c \in Seq(S) /\ Len(c) = Len(s) - 1
      /\ \A j \in 1..(Len(s) - 1) : c[j] = IF j < i THEN s[j] ELSE s[j + 1]
  BY DelFacts
<1> HIDE DEF c
<1>3. DOMAIN c = 1..(Len(s) - 1)
  BY <1>2, LenFacts
<1>4. ASSUME NEW k \in DOMAIN c
      PROVE  /\ k < i => k \in DOMAIN s /\ c[k] = s[k]
             /\ ~(k < i) => k + 1 \in DOMAIN s /\ c[k] = s[k + 1]
  BY <1>1, <1>2, <1>3
<1>5. ASSUME NEW a \in DOMAIN c, NEW b \in DOMAIN c, c[a] = c[b], c[a] \in R
      PROVE  a = b
  BY <1>1, <1>3, <1>4, <1>5 DEF OnceIn
<1>6. ASSUME NEW x \in Range(c) PROVE x \in Range(s) /\ (x \in R => x # s[i])
  <2>1. PICK k \in DOMAIN c : x = c[k]
    BY <1>6 DEF Range
  <2> QED
    BY <2>1, <1>1, <1>3, <1>4 DEF Range, OnceIn
<1>7. ASSUME NEW x \in Range(s), x # s[i] PROVE x \in Range(c)
  <2>1. PICK k \in DOMAIN s : x = s[k] /\ k # i
    BY <1>7 DEF Range
  <2>2. CASE k < i
    <3>1. k \in DOMAIN c /\ c[k] = x
      BY <2>1, <2>2, <1>1, <1>2, <1>3
    <3> QED
      BY <3>1 DEF Range
  <2>3. CASE k > i
    <3>1. k - 1 \in 1..(Len(s) - 1) /\ ~(k - 1 < i) /\ (k - 1) + 1 = k
      BY <2>3, <1>1
    <3>2. k - 1 \in DOMAIN c /\ c[k - 1] = x
      BY <2>1, <3>1, <1>2, <1>3
    <3> QED
      BY <3>2 DEF Range
  <2> QED
    BY <2>1, <2>2, <2>3, <1>1
<1> QED
  BY <1>5, <1>6, <1>7 DEF OnceIn, c

\* The same for an element that is looked up.
LEMMA FindDelOnce ==
    ASSUME NEW S, NEW s \in Seq(S), NEW e, NEW R, OnceIn(s, R)
    PROVE  /\ find_del(s, e) \in Seq(S)
           /\ OnceIn(find_del(s, e), R)
           /\ Range(find_del(s, e)) \subseteq Range(s)
           /\ Range(s) \ {e} \subseteq Range(find_del(s, e))
           /\ e \in R => e \notin Range(find_del(s, e))
<1>1. CASE \E i \in DOMAIN s : IsFirst(s, e, i)
  <2>1. PICK i : i = CHOOSE k \in DOMAIN s : IsFirst(s, e, k)
    OBVIOUS
  <2>2. i \in DOMAIN s /\ IsFirst(s, e, i)
    BY <1>1, <2>1
  <2>3. find_del(s, e) = list_del(s, i)
    BY <1>1, <2>1 DEF find_del
  <2> PICK c : c = list_del(s, i)
    OBVIOUS
  <2>4. /\ OnceIn(c, R) /\ Range(c) \subseteq Range(s)
        /\ Range(s) \ {s[i]} \subseteq Range(c)
        /\ s[i] \in R => s[i] \notin Range(c)
    BY <2>2, DelOnce
  <2>5. c \in Seq(S)
    BY <2>2, DelFacts
  <2>6. s[i] = e
    BY <2>2 DEF IsFirst
  <2> QED
    BY <2>3, <2>4, <2>5, <2>6
<1>2. CASE ~\E i \in DOMAIN s : IsFirst(s, e, i)
  <2>1. find_del(s, e) = s
    BY <1>2 DEF find_del
  <2>2. e \in R => e \notin Range(s)
    <3>1. SUFFICES ASSUME e \in R, NEW i \in DOMAIN s, s[i] = e PROVE FALSE
      BY DEF Range
    <3>2. DOMAIN s = 1..Len(s) /\ Len(s) \in Nat
      BY LenFacts
    <3>3. \A j \in 1..(i - 1) : s[j] # e
      BY <3>1, <3>2 DEF OnceIn
    <3> QED
      BY <1>2, <3>1, <3>3 DEF IsFirst
  <2> QED
    BY <2>1, <2>2
<1> QED
  BY <1>1, <1>2

\* Two lists that share no element of R may be joined.
LEMMA ConcatOnce ==
    ASSUME NEW S, NEW s \in Seq(S), NEW t \in Seq(S), NEW R, OnceIn(s, R),
           OnceIn(t, R), \A x \in R : ~(x \in Range(s) /\ x \in Range(t))
    PROVE  OnceIn(s \o t, R)
<1> PICK c : c = s \o t
  BY ZenonT(30)
<1>1. /\ c \in Seq(S) /\ Len(c) = Len(s) + Len(t)
      /\ \A i \in 1..(Len(s) + Len(t)) :
           c[i] = IF i <= Len(s) THEN s[i] ELSE t[i - Len(s)]
  BY JoinFacts
<1>2. /\ Len(s) \in Nat /\ Len(t) \in Nat
      /\ DOMAIN s = 1..Len(s) /\ DOMAIN t = 1..Len(t)
      /\ DOMAIN c = 1..(Len(s) + Len(t))
  BY <1>1, LenFacts
<1>3. ASSUME NEW k \in DOMAIN c
      PROVE  /\ k <= Len(s) => k \in DOMAIN s /\ c[k] = s[k] /\ s[k] \in Range(s)
             /\ ~(k <= Len(s)) => /\ k - Len(s) \in DOMAIN t /\ c[k] = t[k - Len(s)]
                                  /\ t[k - Len(s)] \in Range(t)
  BY <1>1, <1>2 DEF Range
<1>4. ASSUME NEW a \in DOMAIN c, NEW b \in DOMAIN c, c[a] = c[b], c[a] \in R
      PROVE  a = b
  <2>1. CASE a <= Len(s) /\ b <= Len(s)
    BY <1>3, <1>4, <2>1 DEF OnceIn
  <2>2. CASE ~(a <= Len(s)) /\ ~(b <= Len(s))
    <3>1. a - Len(s) = b - Len(s)
      BY <1>3, <1>4, <2>2 DEF OnceIn
    <3> QED
      BY <1>2, <3>1
  <2> QED
    BY <1>3, <1>4, <2>1, <2>2
<1>5. OnceIn(c, R)
  BY <1>4 DEF OnceIn
<1> QED
  BY <1>5

\* Taking the first element leaves the others.
LEMMA TailOnce ==
    ASSUME NEW S, NEW s \in Seq(S), s # <<>>, NEW R, OnceIn(s, R)
    PROVE  /\ Head(s) \in Range(s)
           /\ OnceIn(Tail(s), R)
           /\ Range(Tail(s)) \subseteq Range(s)
           /\ Range(s) \ {Head(s)} \subseteq Range(Tail(s))
           /\ Head(s) \in R => Head(s) \notin Range(Tail(s))
<1> DEFINE c == Tail(s)
<1>1. Len(s) \in Nat /\ Len(s) # 0 /\ DOMAIN s = 1..Len(s)
  BY LenFacts, EmptyFacts
<1>2. /\ c \in Seq(S) /\ Len(c) = Len(s) - 1
      /\ Head(s) = s[1]
      /\ \A j \in 1..(Len(s) - 1) : c[j] = s[j + 1]
  BY <1>1, HeadTailFacts
<1> HIDE DEF c
<1>3. DOMAIN c = 1..(Len(s) - 1)
  BY <1>2, LenFacts
<1>4. ASSUME NEW k \in DOMAIN c PROVE k + 1 \in DOMAIN s /\ c[k] = s[k + 1]
  BY <1>1, <1>2, <1>3
<1>5. ASSUME NEW a \in DOMAIN c, NEW b \in DOMAIN c, c[a] = c[b], c[a] \in R
      PROVE  a = b
  BY <1>1, <1>3, <1>4, <1>5 DEF OnceIn
<1>6. ASSUME NEW x \in Range(c) PROVE x \in Range(s) /\ (x \in R => x # s[1])
  <2>1. PICK k \in DOMAIN c : x = c[k]
    BY <1>6 DEF Range
  <2> QED
    BY <2>1, <1>1, <1>3, <1>4 DEF Range, OnceIn
<1>7. ASSUME NEW x \in Range(s), x # s[1] PROVE x \in Range(c)
  <2>1. PICK k \in DOMAIN s : x = s[k] /\ k # 1
    BY <1>7 DEF Range
  <2>2. k - 1 \in 1..(Len(s) - 1) /\ (k - 1) + 1 = k
    BY <2>1, <1>1
  <2>3. k - 1 \in DOMAIN c /\ c[k - 1] = x
    BY <2>1, <2>2, <1>2, <1>3
  <2> QED
    BY <2>3 DEF Range
<1>8. s[1] \in Range(s)
  BY <1>1 DEF Range
<1> QED
  BY <1>2, <1>5, <1>6, <1>7, <1>8 DEF OnceIn, c

\* Cutting a list after the first n elements leaves each unique element in one
\* of the two parts.
LEMMA SplitOnce ==
    ASSUME NEW S, NEW s \in Seq(S), NEW n \in 0..Len(s), NEW R, OnceIn(s, R)
    PROVE  /\ SubSeq(s, 1, n) \in Seq(S) /\ SubSeq(s, n + 1, Len(s)) \in Seq(S)
           /\ OnceIn(SubSeq(s, 1, n), R) /\ OnceIn(SubSeq(s, n + 1, Len(s)), R)
           /\ Range(s) = Range(SubSeq(s, 1, n)) \cup Range(SubSeq(s, n + 1, Len(s)))
           /\ \A x \in R : ~( /\ x \in Range(SubSeq(s, 1, n))
                              /\ x \in Range(SubSeq(s, n + 1, Len(s))) )
<1>0. /\ Len(s) \in Nat /\ DOMAIN s = 1..Len(s) /\ n \in Nat /\ n <= Len(s)
      /\ \A j \in 1..Len(s) : s[j] \in S
  BY LenFacts, EntryType
<1> PICK a, b : a = SubSeq(s, 1, n) /\ b = SubSeq(s, n + 1, Len(s))
  BY ZenonT(30)
<1>1. /\ a \in Seq(S) /\ Len(a) = n
      /\ \A j \in 1..n : a[j] = s[j]
  BY <1>0
<1>2. /\ b \in Seq(S) /\ Len(b) = Len(s) - n
      /\ \A j \in 1..(Len(s) - n) : b[j] = s[n + j]
  <2>1. n + 1 \in Int /\ Len(s) \in Int /\ \A j \in (n + 1)..Len(s) : s[j] \in S
    BY <1>0
  <2>2. /\ b \in Seq(S)
        /\ Len(b) = IF n + 1 <= Len(s) THEN Len(s) - (n + 1) + 1 ELSE 0
        /\ \A j \in 1..(Len(s) - (n + 1) + 1) : b[j] = s[(n + 1) + j - 1]
    BY <2>1, PartFacts
  <2>3. Len(b) = Len(s) - n /\ Len(s) - (n + 1) + 1 = Len(s) - n
    <3> PICK k, m : k = Len(s) /\ m = Len(b)
      OBVIOUS
    <3>1. k \in Nat /\ n \in Nat /\ n <= k
      BY <1>0
    <3>2. m = IF n + 1 <= k THEN k - (n + 1) + 1 ELSE 0
      BY <2>2
    <3>3. m = k - n /\ k - (n + 1) + 1 = k - n
      BY ONLY <3>1, <3>2
    <3> QED
      BY <3>3
  <2>4. \A j \in 1..(Len(s) - n) : (n + 1) + j - 1 = n + j
    BY <1>0
  <2> QED
    BY <2>2, <2>3, <2>4, ZenonT(30)
<1>3. DOMAIN a = 1..n /\ DOMAIN b = 1..(Len(s) - n)
  BY <1>1, <1>2, LenFacts
<1>4. \A k \in DOMAIN a : k \in DOMAIN s /\ a[k] = s[k] /\ k <= n
  BY <1>0, <1>1, <1>3
<1>5. \A k \in DOMAIN b : n + k \in DOMAIN s /\ b[k] = s[n + k] /\ n + k > n
  <2>1. \A k \in 1..(Len(s) - n) : n + k \in 1..Len(s) /\ n + k > n
    BY <1>0
  <2> QED
    BY <1>0, <1>2, <1>3, <2>1, SMTT(30)
<1>6. OnceIn(a, R)
  BY <1>0, <1>4 DEF OnceIn
<1>7. OnceIn(b, R)
  <2>1. ASSUME NEW i \in DOMAIN b, NEW j \in DOMAIN b, b[i] = b[j], b[i] \in R
        PROVE  i = j
    <3>1. n + i = n + j
      BY <1>5, <2>1 DEF OnceIn
    <3> QED
      BY <1>0, <1>3, <3>1
  <2> QED
    BY <2>1 DEF OnceIn
<1>8. Range(s) = Range(a) \cup Range(b)
  <2>1. Range(a) \subseteq Range(s) /\ Range(b) \subseteq Range(s)
    BY <1>4, <1>5, SMTT(30) DEF Range
  <2>2. ASSUME NEW x \in Range(s) PROVE x \in Range(a) \cup Range(b)
    <3>1. PICK k \in DOMAIN s : x = s[k]
      BY <2>2 DEF Range
    <3>2. CASE k <= n
      BY <1>0, <1>1, <1>3, <3>1, <3>2 DEF Range
    <3>3. CASE ~(k <= n)
      <4>1. k - n \in 1..(Len(s) - n) /\ n + (k - n) = k
        BY <1>0, <3>3
      <4>2. k - n \in DOMAIN b /\ b[k - n] = x
        BY <1>2, <1>3, <3>1, <4>1
      <4> QED
        BY <4>2 DEF Range
    <3> QED
      BY <3>2, <3>3
  <2> QED
    BY <2>1, <2>2
<1>9. ASSUME NEW x \in R, x \in Range(a), x \in Range(b) PROVE FALSE
  <2>1. PICK i \in DOMAIN a, j \in DOMAIN b : x = a[i] /\ x = b[j]
    BY <1>9 DEF Range
  <2>2. i = n + j /\ i <= n /\ n + j > n
    BY <1>4, <1>5, <1>9, <2>1 DEF OnceIn
  <2> QED
    BY <1>0, <1>3, <2>2
<1> QED
  BY <1>1, <1>2, <1>6, <1>7, <1>8, <1>9

\* Going through a list backwards meets the same elements.
LEMMA MovedList ==
    ASSUME NEW S, NEW s \in Seq(S), NEW R, OnceIn(s, R)
    PROVE  /\ moved(s) \in Seq(S)
           /\ OnceIn(moved(s), R)
           /\ Range(moved(s)) = Range(s)
<1> PICK c : c = moved(s)
  OBVIOUS
<1>0. /\ Len(s) \in Nat /\ DOMAIN s = 1..Len(s)
      /\ \A j \in 1..Len(s) : s[j] \in S
  BY LenFacts, EntryType
<1>1. \A j \in 1..Len(s) : (Len(s) - j) + 1 \in 1..Len(s)
  BY <1>0
<1>2. c = [j \in 1..Len(s) |-> s[(Len(s) - j) + 1]]
  BY DEF moved
<1>3. DOMAIN c = 1..Len(s) /\ \A j \in 1..Len(s) : c[j] = s[(Len(s) - j) + 1]
  BY <1>2
<1>4. c \in [1..Len(s) -> S]
  BY <1>0, <1>1, <1>2
<1>5. c \in Seq(S)
  BY <1>0, <1>4, FunctionIsSeq
<1>6. OnceIn(c, R)
  <2>1. ASSUME NEW i \in DOMAIN c, NEW j \in DOMAIN c, c[i] = c[j], c[i] \in R
        PROVE  i = j
    <3>1. (Len(s) - i) + 1 = (Len(s) - j) + 1
      BY <1>0, <1>1, <1>3, <2>1 DEF OnceIn
    <3> QED
      BY <1>0, <1>3, <3>1
  <2> QED
    BY <2>1 DEF OnceIn
<1>7. ASSUME NEW x \in Range(s) PROVE x \in Range(c)
  <2>1. PICK k \in 1..Len(s) : x = s[k]
    BY <1>0, <1>7 DEF Range
  <2>2. /\ (Len(s) - k) + 1 \in 1..Len(s)
        /\ (Len(s) - ((Len(s) - k) + 1)) + 1 = k
    BY <1>0
  <2>3. (Len(s) - k) + 1 \in DOMAIN c /\ c[(Len(s) - k) + 1] = x
    BY <1>3, <2>1, <2>2
  <2> QED
    BY <2>3 DEF Range
<1>8. Range(c) \subseteq Range(s)
  BY <1>0, <1>1, <1>3 DEF Range
<1> QED
  BY <1>5, <1>6, <1>7, <1>8, ZenonT(30)
=============================================================================
