--------------------------- MODULE AnswerMachineProofs ---------------------------
(****************************************************************************)
(* Proofs about AnswerMachine, for any number of lines and calls, windows,  *)
(* announcements and recordings of any length.                              *)
(****************************************************************************)
EXTENDS AnswerMachine, FiniteSetTheorems, WellFoundedInduction, TLAPS

--------------------------------------------------------------------------------
(* How many messages of a kind are under way, and parts of sequences *)

\* The places in q of the elements of T, and how many they are.
PlacesOf(q, T) == {k \in DOMAIN q : q[k] \in T}
Number(q, T) == Cardinality(PlacesOf(q, T))

One(b) == IF b THEN 1 ELSE 0

\* Places are counted wherever they are.
LEMMA Shifted ==
    ASSUME NEW a \in Nat, NEW P \in SUBSET Nat, IsFiniteSet(P)
    PROVE  /\ IsFiniteSet({a + i : i \in P})
           /\ Cardinality({a + i : i \in P}) = Cardinality(P)
<1> DEFINE T == {a + i : i \in P}
           f == [i \in P |-> a + i]
<1>1. f \in Injection(P, T)
  <2>1. f \in [P -> T]
    OBVIOUS
  <2>2. \A i, j \in P : f[i] = f[j] => i = j
    OBVIOUS
  <2> QED  BY <2>1, <2>2 DEF Injection, IsInjective
<1>2. f \in Surjection(P, T)
  <2>1. f \in [P -> T]
    OBVIOUS
  <2>2. \A t \in T : \E i \in P : f[i] = t
    OBVIOUS
  <2> QED  BY <2>1, <2>2 DEF Surjection
<1>3. ExistsBijection(P, T)
  BY <1>1, <1>2 DEF ExistsBijection, Bijection
<1> HIDE DEF T
<1>4. IsFiniteSet(T) /\ Cardinality(T) = Cardinality(P)
  BY <1>3, FS_Bijection
<1> QED  BY <1>4 DEF T

\* The places of a sequence are finitely many, none if no element is in T.
LEMMA NumberType ==
    ASSUME NEW S, NEW q \in Seq(S), NEW T
    PROVE  /\ PlacesOf(q, T) \in SUBSET (1 .. Len(q)) /\ IsFiniteSet(PlacesOf(q, T))
           /\ Number(q, T) \in Nat
           /\ Number(q, T) = 0 <=> \A k \in DOMAIN q : q[k] \notin T
<1>1. PlacesOf(q, T) \in SUBSET (1 .. Len(q)) /\ Len(q) \in Nat
  BY DEF PlacesOf
<1>2. IsFiniteSet(1 .. Len(q))
  BY <1>1, FS_Interval
<1>3. IsFiniteSet(PlacesOf(q, T))
  BY <1>1, <1>2, FS_Subset
<1>4. Number(q, T) \in Nat /\ (Number(q, T) = 0 <=> PlacesOf(q, T) = {})
  BY <1>3, FS_CardinalityType, FS_EmptySet DEF Number
<1>5. PlacesOf(q, T) = {} <=> \A k \in DOMAIN q : q[k] \notin T
  BY DEF PlacesOf
<1> QED  BY <1>1, <1>3, <1>4, <1>5

\* All elements are in T.
LEMMA NumberAll ==
    ASSUME NEW S, NEW q \in Seq(S), NEW T, \A k \in DOMAIN q : q[k] \in T
    PROVE  Number(q, T) = Len(q)
<1>1. PlacesOf(q, T) = 1 .. Len(q) /\ Len(q) \in Nat
  BY DEF PlacesOf
<1>2. Cardinality(1 .. Len(q)) = Len(q)
  BY <1>1, FS_Interval
<1> QED  BY <1>1, <1>2 DEF Number

\* An empty sequence, and one of a single element.
LEMMA NumberOne ==
    ASSUME NEW m, NEW T
    PROVE  /\ Number(<<>>, T) = 0
           /\ Number(<<m>>, T) = One(m \in T)
<1>1. PlacesOf(<<>>, T) = {}
  BY DEF PlacesOf
<1>2. CASE m \in T
  <2>1. PlacesOf(<<m>>, T) = {1}
    BY <1>2 DEF PlacesOf
  <2> QED  BY <1>1, <1>2, <2>1, FS_EmptySet, FS_Singleton DEF Number, One
<1>3. CASE m \notin T
  <2>1. PlacesOf(<<m>>, T) = {}
    BY <1>3 DEF PlacesOf
  <2> QED  BY <1>1, <1>3, <2>1, FS_EmptySet DEF Number, One
<1> QED  BY <1>2, <1>3

\* Behind one another two sequences have the elements of both.
LEMMA NumberConcat ==
    ASSUME NEW S, NEW q \in Seq(S), NEW r \in Seq(S), NEW T
    PROVE  Number(q \o r, T) = Number(q, T) + Number(r, T)
<1> DEFINE A == PlacesOf(q, T)
           P == PlacesOf(r, T)
           C == {Len(q) + i : i \in P}
<1>1. /\ A \in SUBSET (1 .. Len(q)) /\ IsFiniteSet(A)
      /\ P \in SUBSET (1 .. Len(r)) /\ IsFiniteSet(P)
      /\ Cardinality(A) \in Nat /\ Cardinality(P) \in Nat
  BY NumberType DEF Number
<1>2. Len(q) \in Nat /\ Len(r) \in Nat
  OBVIOUS
<1>3. IsFiniteSet(C) /\ Cardinality(C) = Cardinality(P)
  <2>1. P \in SUBSET Nat
    BY <1>1
  <2> HIDE DEF P
  <2> QED  BY <1>1, <1>2, <2>1, Shifted
<1>4. PlacesOf(q \o r, T) = A \cup C
  <2>1. /\ DOMAIN (q \o r) = 1 .. Len(q) + Len(r)
        /\ \A k \in 1 .. Len(q) : (q \o r)[k] = q[k]
        /\ \A k \in 1 .. Len(r) : (q \o r)[Len(q) + k] = r[k]
    OBVIOUS
  <2>2. ASSUME NEW k \in 1 .. Len(q)  PROVE k \in PlacesOf(q \o r, T) <=> k \in A \cup C
    <3>1. k \notin C
      BY <1>1, <1>2
    <3>2. k \in DOMAIN (q \o r) /\ k \in DOMAIN q /\ (q \o r)[k] = q[k]
      BY <1>2, <2>1
    <3> QED  BY <3>1, <3>2 DEF PlacesOf
  <2>3. ASSUME NEW k \in 1 .. Len(r)
        PROVE  Len(q) + k \in PlacesOf(q \o r, T) <=> Len(q) + k \in A \cup C
    <3>1. Len(q) + k \notin A
      BY <1>1, <1>2
    <3>2. Len(q) + k \in C <=> k \in P
      BY <1>1, <1>2
    <3>3. Len(q) + k \in DOMAIN (q \o r) /\ k \in DOMAIN r /\ (q \o r)[Len(q) + k] = r[k]
      BY <1>2, <2>1
    <3> QED  BY <3>1, <3>2, <3>3 DEF PlacesOf
  <2>4. \A k \in 1 .. Len(q) + Len(r) :
           k \in 1 .. Len(q) \/ \E i \in 1 .. Len(r) : k = Len(q) + i
    <3>1. ASSUME NEW k \in 1 .. Len(q) + Len(r), k \notin 1 .. Len(q)
          PROVE  k - Len(q) \in 1 .. Len(r) /\ k = Len(q) + (k - Len(q))
      BY <1>2, <3>1
    <3> QED  BY <3>1
  <2>5. PlacesOf(q \o r, T) \subseteq 1 .. Len(q) + Len(r) /\ A \cup C \subseteq 1 .. Len(q) + Len(r)
    <3>1. PlacesOf(q \o r, T) \subseteq 1 .. Len(q) + Len(r)
      BY <2>1 DEF PlacesOf
    <3>2. A \subseteq 1 .. Len(q) + Len(r)
      BY <1>1, <1>2
    <3>3. C \subseteq 1 .. Len(q) + Len(r)
      BY <1>1, <1>2
    <3> QED  BY <3>1, <3>2, <3>3
  <2> HIDE DEF A, P, C
  <2>6. \A k : k \in PlacesOf(q \o r, T) <=> k \in A \cup C
    BY <2>2, <2>3, <2>4, <2>5
  <2> QED  BY <2>6
<1>5. A \cap C = {}
  BY <1>1, <1>2
<1> HIDE DEF A, P, C
<1>6. Cardinality(A \cup C) = Cardinality(A) + Cardinality(C) - Cardinality(A \cap C)
  BY <1>1, <1>3, FS_Union
<1>7. Cardinality(A \cap C) = 0
  BY <1>5, FS_EmptySet
<1>8. Number(q \o r, T) = Cardinality(A) + Cardinality(C) - 0
  BY <1>4, <1>6, <1>7 DEF Number
<1>9. Number(q, T) = Cardinality(A) /\ Number(r, T) = Cardinality(P)
  BY DEF Number, A, P
<1> QED  BY <1>1, <1>3, <1>8, <1>9

\* One element more, and the first element of those there are.
LEMMA NumberAppend ==
    ASSUME NEW S, NEW q \in Seq(S), NEW m \in S, NEW T
    PROVE  Number(Append(q, m), T) = Number(q, T) + One(m \in T)
<1>1. Append(q, m) = q \o <<m>> /\ <<m>> \in Seq(S)
  OBVIOUS
<1>2. Number(q \o <<m>>, T) = Number(q, T) + Number(<<m>>, T)
  BY <1>1, NumberConcat
<1> QED  BY <1>1, <1>2, NumberOne

LEMMA NumberTail ==
    ASSUME NEW S, NEW q \in Seq(S), q # <<>>, NEW T
    PROVE  /\ Head(q) \in S /\ Tail(q) \in Seq(S)
           /\ Number(q, T) = One(Head(q) \in T) + Number(Tail(q), T)
<1>1. Head(q) \in S /\ Tail(q) \in Seq(S) /\ <<Head(q)>> \in Seq(S)
  OBVIOUS
<1>2. q = <<Head(q)>> \o Tail(q)
  OBVIOUS
<1>3. Number(<<Head(q)>> \o Tail(q), T) = Number(<<Head(q)>>, T) + Number(Tail(q), T)
  BY <1>1, NumberConcat
<1> QED  BY <1>1, <1>2, <1>3, NumberOne

\* The elements of the rest of a sequence, and of two sequences behind one another.
LEMMA TailOf ==
    ASSUME NEW X, NEW s \in Seq(X), s # <<>>
    PROVE  /\ Tail(s) \in Seq(X) /\ Head(s) \in X /\ 1 \in DOMAIN s /\ s[1] = Head(s)
           /\ \A k \in DOMAIN Tail(s) : k + 1 \in DOMAIN s /\ Tail(s)[k] = s[k + 1] /\ k \in Nat
           /\ \A k \in DOMAIN s : k # 1 => k - 1 \in DOMAIN Tail(s) /\ Tail(s)[k - 1] = s[k] /\ k \in Nat
<1>1. Len(s) \in Nat /\ Len(s) > 0 /\ DOMAIN s = 1 .. Len(s)
  OBVIOUS
<1>2. Tail(s) \in Seq(X) /\ Len(Tail(s)) = Len(s) - 1 /\ DOMAIN Tail(s) = 1 .. Len(s) - 1
  BY <1>1
<1>3. \A k \in 1 .. Len(s) - 1 : Tail(s)[k] = s[k + 1]
  BY <1>1
<1>4. Head(s) \in X /\ s[1] = Head(s)
  BY <1>1
<1>5. ASSUME NEW k \in DOMAIN s, k # 1
      PROVE  k - 1 \in DOMAIN Tail(s) /\ Tail(s)[k - 1] = s[k] /\ k \in Nat
  BY <1>1, <1>2, <1>3, <1>5
<1> QED  BY <1>1, <1>2, <1>3, <1>4, <1>5

LEMMA ConcatOf ==
    ASSUME NEW X, NEW s \in Seq(X), NEW t \in Seq(X)
    PROVE  /\ s \o t \in Seq(X) /\ Len(s) \in Nat /\ Len(t) \in Nat
           /\ Len(s \o t) = Len(s) + Len(t)
           /\ DOMAIN s = 1 .. Len(s) /\ DOMAIN t = 1 .. Len(t)
           /\ DOMAIN (s \o t) = 1 .. Len(s) + Len(t)
           /\ \A k \in DOMAIN s : k \in DOMAIN (s \o t) /\ (s \o t)[k] = s[k]
           /\ \A k \in DOMAIN (s \o t) :
                 \/ k \in DOMAIN s
                 \/ k > Len(s) /\ k - Len(s) \in DOMAIN t /\ (s \o t)[k] = t[k - Len(s)]
<1>1. Len(s) \in Nat /\ Len(t) \in Nat /\ DOMAIN s = 1 .. Len(s) /\ DOMAIN t = 1 .. Len(t)
  OBVIOUS
<1>2. s \o t \in Seq(X) /\ Len(s \o t) = Len(s) + Len(t) /\ DOMAIN (s \o t) = 1 .. Len(s) + Len(t)
  BY <1>1
<1>3. \A k \in DOMAIN s : k \in DOMAIN (s \o t) /\ (s \o t)[k] = s[k]
  BY <1>1, <1>2
<1>4. ASSUME NEW k \in DOMAIN (s \o t), k \notin DOMAIN s
      PROVE  k > Len(s) /\ k - Len(s) \in DOMAIN t /\ (s \o t)[k] = t[k - Len(s)]
  <2>1. k \in Nat /\ k > Len(s) /\ k <= Len(s) + Len(t)
    BY <1>1, <1>2, <1>4
  <2>2. k - Len(s) \in 1 .. Len(t) /\ k = Len(s) + (k - Len(s))
    BY <1>1, <2>1
  <2> QED  BY <1>1, <2>1, <2>2
<1>5. \A k \in DOMAIN (s \o t) :
         \/ k \in DOMAIN s
         \/ k > Len(s) /\ k - Len(s) \in DOMAIN t /\ (s \o t)[k] = t[k - Len(s)]
  BY <1>4
<1> QED  BY <1>1, <1>2, <1>3, <1>5

LEMMA TripleOf ==
    ASSUME NEW a, NEW b, NEW c
    PROVE  <<a, b>> \o <<c>> = <<a, b, c>>
<1> DEFINE S == {a, b, c}
           s == <<a, b>>
           t == <<c>>
           r == s \o t
           z == <<a, b, c>>
<1>0. s \in Seq(S) /\ t \in Seq(S)
  OBVIOUS
<1>1. z \in Seq(S) /\ Len(s) = 2 /\ Len(t) = 1 /\ Len(z) = 3
  OBVIOUS
<1>2. s[1] = a /\ s[2] = b /\ t[1] = c /\ z[1] = a /\ z[2] = b /\ z[3] = c
  OBVIOUS
<1> HIDE DEF S, s, t, z
<1>3. /\ r \in Seq(S) /\ Len(r) = Len(s) + Len(t) /\ DOMAIN s = 1 .. Len(s)
      /\ DOMAIN r = 1 .. Len(s) + Len(t)
      /\ \A k \in DOMAIN s : k \in DOMAIN r /\ r[k] = s[k]
      /\ \A k \in DOMAIN r : \/ k \in DOMAIN s
                             \/ k > Len(s) /\ k - Len(s) \in DOMAIN t /\ r[k] = t[k - Len(s)]
  BY <1>0, ConcatOf
<1> HIDE DEF r
<1>4. Len(r) = 3 /\ DOMAIN s = 1 .. 2 /\ DOMAIN r = 1 .. 3
  BY <1>1, <1>3
<1>5. r[1] = a /\ r[2] = b
  <2>1. 1 \in DOMAIN s /\ 2 \in DOMAIN s
    BY <1>4
  <2>2. \A k \in DOMAIN s : r[k] = s[k]
    BY ONLY <1>3
  <2>3. r[1] = s[1] /\ r[2] = s[2]
    BY ONLY <2>1, <2>2
  <2> QED  BY ONLY <1>2, <2>3
<1>6. r[3] = t[3 - 2]
  BY <1>1, <1>3, <1>4
<1>7. 3 - 2 = 1
  OBVIOUS
<1>8. r[3] = c
  BY <1>2, <1>6, <1>7
<1>9. r = z
  BY <1>1, <1>2, <1>3, <1>4, <1>5, <1>8
<1> QED  BY <1>9 DEF r, s, t, z

\* cs2 is cs without its i-th element.
Without(X, cs, cs2, i) ==
    /\ cs2 \in Seq(X) /\ Len(cs2) + 1 = Len(cs) /\ Len(cs2) \in Nat
    /\ \A k \in DOMAIN cs2 : \/ k \in DOMAIN cs /\ k < i /\ cs2[k] = cs[k]
                             \/ k + 1 \in DOMAIN cs /\ k + 1 > i /\ cs2[k] = cs[k + 1]
    /\ \A k \in DOMAIN cs : k # i => \E j \in DOMAIN cs2 : cs2[j] = cs[k]

LEMMA CutOut ==
    ASSUME NEW X, NEW cs \in Seq(X), NEW i \in DOMAIN cs
    PROVE  Without(X, cs, SubSeq(cs, 1, i - 1) \o SubSeq(cs, i + 1, Len(cs)), i)
<1> DEFINE a == SubSeq(cs, 1, i - 1)
           b == SubSeq(cs, i + 1, Len(cs))
<1>1. i \in Nat /\ Len(cs) \in Nat /\ i >= 1 /\ i <= Len(cs) /\ DOMAIN cs = 1 .. Len(cs)
  OBVIOUS
<1>2. a \in Seq(X) /\ Len(a) = i - 1 /\ \A k \in 1 .. i - 1 : a[k] = cs[k]
  BY <1>1
<1>3. b \in Seq(X) /\ Len(b) = Len(cs) - i /\ \A k \in 1 .. Len(cs) - i : b[k] = cs[i + k]
  <2>1. i + 1 \in Nat /\ i + 1 >= 1 /\ Len(cs) - (i + 1) + 1 = Len(cs) - i /\ Len(cs) - i \in Nat
    BY <1>1, SMTT(30)
  <2>2. b \in Seq(X) /\ Len(b) = Len(cs) - i
    BY <1>1, <2>1
  <2>3. ASSUME NEW k \in 1 .. Len(cs) - i  PROVE b[k] = cs[i + k]
    <3>1. b[k] = cs[i + 1 + k - 1] /\ i + 1 + k - 1 = i + k
      BY <1>1, <2>1, SMTT(30)
    <3> QED  BY <3>1
  <2> QED  BY <2>2, <2>3
<1> HIDE DEF a, b
<1> DEFINE c == a \o b
<1>5. /\ c \in Seq(X) /\ Len(c) = Len(cs) - 1 /\ DOMAIN c = 1 .. Len(cs) - 1
      /\ \A k \in 1 .. i - 1 : c[k] = a[k]
      /\ \A k \in 1 .. Len(cs) - i : c[i - 1 + k] = b[k]
  <2>1. c \in Seq(X) /\ Len(c) = Len(a) + Len(b) /\ DOMAIN c = 1 .. Len(a) + Len(b)
    <3>1. a \in Seq(X) /\ b \in Seq(X)
      BY <1>2, <1>3
    <3> QED  BY ONLY <3>1, ConcatOf
  <2>2. Len(a) + Len(b) = Len(cs) - 1
    BY <1>1, <1>2, <1>3
  <2>3. ASSUME NEW k \in 1 .. Len(b)  PROVE c[Len(a) + k] = b[k]
    BY <1>2, <1>3, SMTT(30)
  <2>4. \A k \in 1 .. i - 1 : c[k] = a[k]
    BY <1>2, <1>3, ConcatOf
  <2> QED  BY <1>2, <1>3, <2>1, <2>2, <2>3, <2>4
<1> HIDE DEF c
<1>6. ASSUME NEW k \in DOMAIN c
      PROVE  \/ k \in DOMAIN cs /\ k < i /\ c[k] = cs[k]
             \/ k + 1 \in DOMAIN cs /\ k + 1 > i /\ c[k] = cs[k + 1]
  <2>1. CASE k < i
    BY <1>1, <1>2, <1>5, <2>1
  <2>2. CASE ~(k < i)
    <3>1. k - i + 1 \in 1 .. Len(cs) - i /\ i - 1 + (k - i + 1) = k /\ i + (k - i + 1) = k + 1
      BY <1>1, <1>5, <2>2
    <3>2. c[k] = b[k - i + 1] /\ b[k - i + 1] = cs[k + 1]
      BY <1>3, <1>5, <3>1, SMTT(30)
    <3> QED  BY <1>1, <1>5, <2>2, <3>2
  <2> QED  BY <2>1, <2>2
<1>7. ASSUME NEW k \in DOMAIN cs, k # i  PROVE \E j \in DOMAIN c : c[j] = cs[k]
  <2>1. CASE k < i
    <3>1. k \in 1 .. i - 1 /\ k \in DOMAIN c
      BY <1>1, <1>5, <2>1
    <3> QED  BY <1>2, <1>5, <3>1
  <2>2. CASE k > i
    <3>1. k - i \in 1 .. Len(cs) - i /\ i - 1 + (k - i) = k - 1 /\ i + (k - i) = k /\ k - 1 \in DOMAIN c
      BY <1>1, <1>5, <2>2
    <3>2. c[k - 1] = b[k - i] /\ b[k - i] = cs[k]
      BY <1>3, <1>5, <3>1
    <3> QED  BY <3>1, <3>2
  <2> QED  BY <1>1, <1>7, <2>1, <2>2
<1>8. Len(c) + 1 = Len(cs) /\ Len(c) \in Nat
  BY <1>1, <1>5
<1>9. Without(X, cs, c, i)
  BY <1>5, <1>6, <1>7, <1>8 DEF Without
<1> QED  BY <1>9 DEF c, a, b

\* A set of numbers has a smallest one: the intervals up to its numbers are finite,
\* and of these one has no smaller one.
LEMMA Least ==
    ASSUME NEW S, S \subseteq Nat, S # {}
    PROVE  \E m \in S : \A n \in S : m <= n
<1> DEFINE T == {0 .. n : n \in S}
<1>1. T \subseteq FiniteSubsetsOf(Nat) /\ T # {}
  <2>1. \A n \in S : 0 .. n \subseteq Nat /\ IsFiniteSet(0 .. n)
    BY FS_Interval
  <2> QED  BY <2>1 DEF FiniteSubsetsOf
<1>2. IsWellFoundedOn(StrictSubsetOrdering(Nat), FiniteSubsetsOf(Nat))
  BY FS_StrictSubsetOrderingWellFounded
<1>3. PICK t \in T : \A u \in T : <<u, t>> \notin StrictSubsetOrdering(Nat)
  BY <1>1, <1>2, WFMin
<1>4. PICK m \in S : t = 0 .. m
  OBVIOUS
<1>5. ASSUME NEW n \in S, ~(m <= n)  PROVE FALSE
  <2>1. 0 .. n \in T /\ 0 .. n \in SUBSET Nat /\ 0 .. m \in SUBSET Nat
    OBVIOUS
  <2>2. 0 .. n \subseteq 0 .. m /\ m \in 0 .. m /\ m \notin 0 .. n
    BY <1>5
  <2>3. <<0 .. n, 0 .. m>> \in StrictSubsetOrdering(Nat)
    BY <2>1, <2>2 DEF StrictSubsetOrdering
  <2> QED  BY <1>3, <1>4, <2>1, <2>3
<1>6. \A n \in S : m <= n
  BY <1>5
<1> QED  BY <1>6

--------------------------------------------------------------------------------
(* Types *)

\* What the brick tells of a call, and what it confirms.
IndTypes == {"CONNECT_IND", "INFO_IND", "CONNECTACTIVE_IND", "CONNECTB3_IND",
             "CONNECTB3ACTIVE_IND", "DATAB3_IND", "DISCONNECTB3_IND", "DISCONNECT_IND"}
ConfTypes == {"FACILITY_CONF", "DATAB3_CONF", "DISCONNECTB3_CONF", "DISCONNECT_CONF"}
NcciTypes == {"CONNECTB3_IND", "CONNECTB3ACTIVE_IND", "DATAB3_IND", "DISCONNECTB3_IND"}

\* What the program sends.
AnswerTypes == {"CONNECT_RESP", "INFO_RESP", "CONNECTACTIVE_RESP", "CONNECTB3_RESP",
                "FACILITY_REQ", "CONNECTB3ACTIVE_RESP", "DATAB3_REQ", "DATAB3_RESP",
                "DISCONNECTB3_REQ", "DISCONNECTB3_RESP", "DISCONNECT_REQ", "DISCONNECT_RESP"}

Tellings == {m \in [type : IndTypes \cup ConfTypes, plci : Plcis, b3 : BOOLEAN,
                    id : CallIds, arg : Nat] :
                m.type \in IndTypes => (m.b3 <=> m.type \in NcciTypes)}
ListenConf == [NoMsg EXCEPT !.type = "LISTEN_CONF"]
FromBrick == Tellings \cup {ListenConf}
FromProg == [type : AnswerTypes, plci : Plcis, b3 : BOOLEAN, id : CallIds, arg : Nat]

Busy == [st : {"offered", "b3offered", "b3up", "b3down", "clearing"}, id : CallIds,
         digits : Nat, played : Seq(Nat), unconf : Seq(Nat), sent : Nat, acked : SUBSET Nat]
Lines == {Idle} \cup Busy

\* The calls of a program that has been called with the options g: as nextwavestate
\* and SendData leave them, and with no more blocks than a window not acknowledged.
Limit(g) == IF g.winsize = 0 THEN 1 ELSE g.winsize
Shapes(g) ==
    {c \in [id : CallIds, plci : Plcis, b3 : BOOLEAN, state : States, ncnt : 0 .. g.ncnt,
            txfp : BOOLEAN, rxfp : {"null", "open", "failed"}, txlen : Nat, doSend : BOOLEAN,
            wavestate : {0, 1}, usDataHandle : 0 .. g.has, NotAcknowledged : Nat] :
        /\ c.state = "OverlapReceiving" => c.ncnt < g.ncnt
        /\ c.txfp => c.txlen + c.usDataHandle = g.says /\ c.rxfp = "null"
        /\ c.rxfp # "null" => c.usDataHandle = g.has \/ c.usDataHandle >= g.says - 1}
CallRecords(g) == {c \in Shapes(g) : /\ c.NotAcknowledged <= Limit(g)
                                     /\ c.NotAcknowledged > 0 => c.b3}

Empty == [data |-> <<>>, part |-> {}, size |-> 0]
Files == [data : Seq(Nat), part : SUBSET Nat, size : Nat]

Typed ==
    /\ pc \in {"init", "poll", "exit", "killed"} /\ cfg \in Configs
    /\ calls \in Seq(CallRecords(cfg))
    /\ toBrick \in Seq(FromProg) /\ toProg \in Seq(FromBrick)
    /\ line \in [Plcis -> Lines] /\ rung \in 0 .. MaxCalls
    /\ files \in [CallIds -> Files]

--------------------------------------------------------------------------------
(* The inductive invariant.  Its parts speak of what is under way to the program  *)
(* (s) and to the brick (q), the lines (l), the list of calls (cs), the files (f) *)
(* and how many calls have come in (r).                                           *)

\* m is about a call.
Tells(m) == m.type # "LISTEN_CONF"

\* Each line has its own call.
Numbered(l, r) ==
    /\ \A p \in Plcis : l[p].id <= r
    /\ \A p, o \in Plcis : l[p].id = l[o].id /\ l[p].id # 0 => p = o

\* The calls of the program are those of the brick, one to a line.
Listed(l, cs) ==
    /\ \A k \in DOMAIN cs : l[cs[k].plci].id = cs[k].id
    /\ \A j, k \in DOMAIN cs : cs[j].plci = cs[k].plci => j = k

\* The program has no call on this line.
NoneOn(cs, p) == \A k \in DOMAIN cs : cs[k].plci # p

\* The B channel connection has been taken down.
Down(st) == st \in {"b3down", "clearing"}

\* A message is about the call its line has, or confirms what was asked of one that
\* is over, which no line has, and then the program has no call on this line.
Told(s, l, cs, r) ==
    \A k \in DOMAIN s : Tells(s[k]) =>
        /\ s[k].id <= r
        /\ \A o \in Plcis : s[k].id = l[o].id => o = s[k].plci
        /\ \/ s[k].id = l[s[k].plci].id
           \/ s[k].type \in ConfTypes /\ NoneOn(cs, s[k].plci)
        /\ s[k].type = "CONNECT_IND" => l[s[k].plci].st \in {"offered", "clearing"}
        /\ s[k].type = "CONNECTB3ACTIVE_IND" => l[s[k].plci].st \notin {"offered", "b3offered"}
        /\ s[k].type = "DISCONNECTB3_IND" => Down(l[s[k].plci].st)
        /\ s[k].type = "DISCONNECT_IND" => l[s[k].plci].st = "clearing"
        /\ s[k].type = "DATAB3_IND" => s[k].arg <= l[s[k].plci].sent

\* a is under way before b.
Before(a, b) ==
    a.plci = b.plci =>
        /\ b.type = "CONNECT_IND" => a.id # b.id
        /\ a.type = "CONNECT_IND" => a.id = b.id
        /\ b.type = "CONNECTB3ACTIVE_IND" => a.type # "CONNECTB3ACTIVE_IND"
        /\ a.type = "DATAB3_IND" /\ b.type = "DATAB3_IND" => a.arg < b.arg
        /\ a.type = "DISCONNECT_IND" => b.type \in ConfTypes
Ordered(s) == \A j, k \in DOMAIN s : j < k /\ Tells(s[j]) /\ Tells(s[k]) => Before(s[j], s[k])

\* What is under way to the brick is about one call, which has its line; the response
\* to the end of it comes alone, and only confirmations are left of that call.
Replied(s, q, l, cs) ==
    /\ \A k \in DOMAIN q : q[k].id = l[q[k].plci].id
    /\ \A j, k \in DOMAIN q : q[j].plci = q[k].plci
    /\ \A j \in DOMAIN s, k \in DOMAIN q : s[j].type = "CONNECT_IND" => s[j].plci # q[k].plci
    /\ \A k \in DOMAIN q : q[k].type = "DISCONNECT_REQ" => Down(l[q[k].plci].st)
    /\ \A k \in DOMAIN q : q[k].type = "DISCONNECT_RESP" =>
          /\ Len(q) = 1 /\ l[q[k].plci].st = "clearing" /\ NoneOn(cs, q[k].plci)
          /\ \A j \in DOMAIN s : Tells(s[j]) /\ s[j].plci = q[k].plci => s[j].type \in ConfTypes

\* Until its fax connection is up nothing is played to a call, and until the program
\* knows nothing has been sent.
Early(st) == st \in {"offered", "b3offered"}
Starts(m, p) == m.plci = p /\ m.type \in {"CONNECT_IND", "CONNECTB3ACTIVE_IND"}
Beginning(s, l, p) == Early(l[p].st) \/ \E k \in DOMAIN s : Starts(s[k], p)
Fresh(c) == c.NotAcknowledged = 0 /\ c.usDataHandle = 0 /\ c.rxfp = "null"
Begun(s, q, l, cs) ==
    \A p \in Plcis : Beginning(s, l, p) =>
        /\ l[p].unconf = <<>> /\ l[p].played = <<>>
        /\ \A k \in DOMAIN s : s[k].type = "DATAB3_CONF" => s[k].id # l[p].id
        /\ \A k \in DOMAIN q : q[k].type = "DATAB3_REQ" => q[k].plci # p
        /\ \A k \in DOMAIN cs : cs[k].plci = p => Fresh(cs[k])

\* The blocks of a call that are under way to the brick, and the confirmations.
Reqs(i) == {m \in FromProg : m.id = i /\ m.type = "DATAB3_REQ"}
Confs(i) == {m \in FromBrick : m.id = i /\ m.type = "DATAB3_CONF"}
\* NotAcknowledged and usDataHandle (n, u) of a call in state st, of which this many
\* blocks have been played, are to be played, are under way, are confirmed.
Tally(st, n, u, played, unconf, req, conf) ==
    /\ n >= req + unconf + conf
    /\ st = "b3up" => n = req + unconf + conf /\ u = played + unconf + req
Counted(s, q, l, cs) ==
    \A k \in DOMAIN cs :
        LET c == cs[k]  x == l[c.plci]
        IN  Tally(x.st, c.NotAcknowledged, c.usDataHandle, Len(x.played), Len(x.unconf),
                  Number(q, Reqs(c.id)), Number(s, Confs(c.id)))

\* The blocks under way to the brick are the last the call has sent, in order, and
\* nothing comes behind them.
Queued(q, cs) ==
    \A k \in DOMAIN q : q[k].type = "DATAB3_REQ" =>
        /\ \A j \in DOMAIN q : j > k => q[j].type = "DATAB3_REQ"
        /\ \E c \in DOMAIN cs : /\ cs[c].id = q[k].id
                                /\ q[k].arg + Len(q) = cs[c].usDataHandle + k

\* The brick plays the announcement in order.
Playing(l) ==
    \A p \in Plcis :
        /\ l[p].st # "b3up" => l[p].unconf = <<>>
        /\ \A n \in DOMAIN l[p].played : l[p].played[n] = n
        /\ \A n \in DOMAIN l[p].unconf : l[p].unconf[n] = Len(l[p].played) + n

\* A call that is over has its size in its file, one that has not come to the
\* recording nothing.
Filed(s, cs, f, r) ==
    /\ \A i \in CallIds : (\A k \in DOMAIN cs : cs[k].id # i) => f[i].size = Len(f[i].data)
    /\ \A k \in DOMAIN cs : cs[k].rxfp # "open" => f[cs[k].id] = Empty
    /\ \A i \in CallIds : i > r => f[i] = Empty
    /\ \A j \in DOMAIN s : s[j].type = "CONNECT_IND" =>
          /\ f[s[j].id] = Empty
          /\ \A k \in DOMAIN cs : cs[k].id # s[j].id

\* The brick counts block b of the caller on line p as received, or will.
Heard(q, x, p, b) ==
    \/ b \in x.acked
    \/ \E k \in DOMAIN q : q[k].type = "DATAB3_RESP" /\ q[k].plci = p /\ q[k].arg = b

\* Block b was before all that are under way from line p.
Passed(s, x, p, b) ==
    /\ b <= x.sent
    /\ \A k \in DOMAIN s : s[k].type = "DATAB3_IND" /\ s[k].plci = p => b < s[k].arg

\* The recording of the call on a line.
Whole(s, q, x, p, data) ==
    /\ \A m, n \in DOMAIN data : m < n => data[m] < data[n]
    /\ \A n \in DOMAIN data : Passed(s, x, p, data[n])
    /\ \A b \in Nat : Heard(q, x, p, b) =>
          /\ Passed(s, x, p, b)
          /\ \A n \in DOMAIN data : b > data[n] => \E m \in DOMAIN data : data[m] = b
Recorded(s, q, l, f) ==
    \A p \in Plcis : l[p].id # 0 => Whole(s, q, l[p], p, f[l[p].id].data)

Inv(s, q, l, cs, f, r) ==
    /\ Numbered(l, r) /\ Listed(l, cs) /\ Told(s, l, cs, r) /\ Ordered(s)
    /\ Replied(s, q, l, cs) /\ Begun(s, q, l, cs) /\ Counted(s, q, l, cs)
    /\ Queued(q, cs) /\ Playing(l) /\ Filed(s, cs, f, r) /\ Recorded(s, q, l, f)

\* Before main begins there is nothing.
Control == pc = "init" => /\ toProg = <<>> /\ toBrick = <<>> /\ calls = <<>> /\ rung = 0
                          /\ line = [p \in Plcis |-> Idle]
                          /\ files = [i \in CallIds |-> Empty]

IInv == Typed /\ Control /\ Inv(toProg, toBrick, line, calls, files, rung)

--------------------------------------------------------------------------------
(* Sending the announcement *)

LEMMA Constants == MaxCalls \in Nat /\ Plcis \subseteq Nat
BY AnswerMachineAssumption

LEMMA Options ==
    ASSUME cfg \in Configs
    PROVE  /\ cfg.has \in Nat /\ cfg.says \in Nat /\ cfg.ncnt \in Nat /\ cfg.winsize \in Nat
           /\ Window = Limit(cfg) /\ Limit(cfg) \in Nat /\ Limit(cfg) >= 1
<1>1. /\ cfg.has \in Nat /\ cfg.says \in Nat /\ cfg.ncnt \in Nat /\ cfg.winsize \in Nat
  BY AnswerMachineAssumption
<1> QED  BY <1>1 DEF Window, Limit

\* The call c has become d, up to n blocks have been sent.
Sending(c, d, n) ==
    /\ d \in Shapes(cfg) /\ d.id = c.id /\ d.plci = c.plci /\ d.b3 = c.b3
    /\ d.usDataHandle - c.usDataHandle \in 0 .. n
    /\ d.NotAcknowledged = c.NotAcknowledged + (d.usDataHandle - c.usDataHandle)
    /\ d.rxfp # "open" => c.rxfp # "open"

LEMMA ShapeIn ==
    ASSUME NEW g, NEW c \in Shapes(g), g.has \in Nat, g.ncnt \in Nat
    PROVE  /\ c.usDataHandle \in Nat /\ c.usDataHandle <= g.has /\ c.NotAcknowledged \in Nat
           /\ c.txlen \in Nat /\ c.ncnt \in Nat /\ c.ncnt <= g.ncnt
           /\ c.state = "OverlapReceiving" => c.ncnt < g.ncnt
           /\ c.rxfp # "null" => c.usDataHandle = g.has \/ c.usDataHandle >= g.says - 1
BY DEF Shapes

LEMMA SendsOne ==
    ASSUME cfg \in Configs, NEW c \in Shapes(cfg), NEW created \in BOOLEAN
    PROVE  Sending(c, SendData(c, created), 1)
<1> DEFINE d == SendData(c, created)
<1> SUFFICES Sending(c, d, 1)
  OBVIOUS
<1>1. /\ c.usDataHandle \in Nat /\ c.usDataHandle <= cfg.has /\ c.NotAcknowledged \in Nat
      /\ c.txlen \in Nat /\ cfg.has \in Nat /\ cfg.says \in Nat
  BY Options DEF Shapes
<1>2. CASE ~c.txfp \/ ~c.doSend
  <2>1. d = c
    BY <1>2 DEF SendData
  <2> HIDE DEF d
  <2> QED  BY <1>1, <2>1 DEF Sending
<1>3. CASE c.txfp /\ c.doSend /\ (c.txlen <= 1 \/ c.usDataHandle = cfg.has)
  <2>1. d = Records(c, created)
    BY <1>3 DEF SendData
  <2>2. /\ c.txlen + c.usDataHandle = cfg.says
        /\ c.usDataHandle = cfg.has \/ c.usDataHandle >= cfg.says - 1
    BY <1>1, <1>3 DEF Shapes
  <2>3. /\ d \in Shapes(cfg) /\ d.id = c.id /\ d.plci = c.plci /\ d.b3 = c.b3
        /\ d.usDataHandle = c.usDataHandle /\ d.NotAcknowledged = c.NotAcknowledged
    <3>1. d = [c EXCEPT !.doSend = FALSE, !.wavestate = 1, !.txfp = FALSE,
                        !.rxfp = IF created THEN "open" ELSE "failed"]
      BY <2>1 DEF Records
    <3> HIDE DEF d
    <3>2. /\ d.id = c.id /\ d.plci = c.plci /\ d.b3 = c.b3
          /\ d.usDataHandle = c.usDataHandle /\ d.NotAcknowledged = c.NotAcknowledged
          /\ d.txfp = FALSE /\ d.state = c.state /\ d.ncnt = c.ncnt
      BY <3>1 DEF Shapes
    <3>3. d \in Shapes(cfg)
      BY <2>2, <3>1, <3>2 DEF Shapes
    <3> QED  BY <3>2, <3>3
  <2>4. c.rxfp = "null"
    BY <1>3 DEF Shapes
  <2> HIDE DEF d
  <2> QED  BY <1>1, <2>3, <2>4 DEF Sending
<1>4. CASE c.txfp /\ c.doSend /\ c.txlen > 1 /\ c.usDataHandle # cfg.has
  <2>1. d = [c EXCEPT !.txlen = @ - 1, !.usDataHandle = @ + 1, !.NotAcknowledged = @ + 1]
    BY <1>1, <1>4 DEF SendData
  <2>2. /\ c.txlen - 1 \in Nat /\ c.usDataHandle + 1 \in 0 .. cfg.has /\ c.NotAcknowledged + 1 \in Nat
        /\ c.txlen + c.usDataHandle = cfg.says /\ c.rxfp = "null"
        /\ (c.txlen - 1) + (c.usDataHandle + 1) = cfg.says
    BY <1>1, <1>4 DEF Shapes
  <2>3. /\ d \in Shapes(cfg) /\ d.id = c.id /\ d.plci = c.plci /\ d.b3 = c.b3
        /\ d.usDataHandle = c.usDataHandle + 1 /\ d.NotAcknowledged = c.NotAcknowledged + 1
    BY <2>1, <2>2 DEF Shapes
  <2> HIDE DEF d
  <2> QED  BY <1>1, <2>2, <2>3 DEF Sending
<1> QED  BY <1>1, <1>2, <1>3, <1>4

LEMMA SendsMore ==
    ASSUME cfg \in Configs, NEW c \in Shapes(cfg), NEW d, NEW e, NEW n \in Nat,
           Sending(c, d, n), Sending(d, e, 1)
    PROVE  Sending(c, e, n + 1)
<1>1. /\ c.usDataHandle \in Nat /\ d.usDataHandle \in Nat /\ e.usDataHandle \in Nat
      /\ c.NotAcknowledged \in Nat /\ d.NotAcknowledged \in Nat
  BY Options DEF Sending, Shapes
<1>2. /\ e.usDataHandle - c.usDataHandle \in 0 .. n + 1
      /\ e.NotAcknowledged = c.NotAcknowledged + (e.usDataHandle - c.usDataHandle)
  BY <1>1 DEF Sending
<1> QED  BY <1>2 DEF Sending

\* The loop of nextwavestate up to its n-th pass: a function that has a value for
\* each pass.
Loop(h, c, created, n) ==
    h = [k \in 0 .. n |-> IF k = 0 THEN c ELSE SendData(h[k - 1], created)]

LEMMA LoopExists ==
    ASSUME NEW c, NEW created, NEW n \in Nat
    PROVE  \E h : Loop(h, c, created, n)
<1> DEFINE Bad == {k \in Nat : ~ \E h : Loop(h, c, created, k)}
<1>1. 0 \notin Bad
  <2> DEFINE h == [k \in 0 .. 0 |-> c]
  <2>1. Loop(h, c, created, 0)
    BY DEF Loop
  <2> QED  BY <2>1
<1>2. ASSUME NEW k \in Nat, NEW h, Loop(h, c, created, k)
      PROVE  \E g : Loop(g, c, created, k + 1)
  <2> DEFINE g == [j \in 0 .. k + 1 |-> IF j = k + 1 THEN SendData(h[k], created) ELSE h[j]]
  <2>1. ASSUME NEW j \in 0 .. k + 1
        PROVE  g[j] = IF j = 0 THEN c ELSE SendData(g[j - 1], created)
    <3>1. CASE j = 0
      BY <1>2, <3>1 DEF Loop
    <3>2. CASE j \in 1 .. k
      <4>1. g[j] = h[j] /\ g[j - 1] = h[j - 1] /\ j \in 0 .. k /\ j # 0
        BY <3>2
      <4>2. h[j] = SendData(h[j - 1], created)
        BY <1>2, <4>1 DEF Loop
      <4> QED  BY <4>1, <4>2
    <3>3. CASE j = k + 1
      <4>1. g[j] = SendData(h[k], created) /\ g[j - 1] = h[k] /\ j # 0
        BY <3>3
      <4> QED  BY <4>1
    <3> QED  BY <3>1, <3>2, <3>3
  <2>2. g = [j \in 0 .. k + 1 |-> g[j]]
    OBVIOUS
  <2> HIDE DEF g
  <2>3. g = [j \in 0 .. k + 1 |-> IF j = 0 THEN c ELSE SendData(g[j - 1], created)]
    BY <2>1, <2>2, Zenon
  <2>4. Loop(g, c, created, k + 1)
    BY <2>3 DEF Loop
  <2> QED  BY <2>4
<1>3. Bad = {}
  <2>1. ASSUME Bad # {}  PROVE FALSE
    <3>1. PICK k \in Bad : \A j \in Bad : k <= j
      BY <2>1, Least
    <3>2. k - 1 \in Nat /\ k - 1 \notin Bad /\ k = (k - 1) + 1
      BY <1>1, <3>1
    <3>3. \E h : Loop(h, c, created, k - 1)
      BY <3>2
    <3>4. \E g : Loop(g, c, created, (k - 1) + 1)
      BY <1>2, <3>2, <3>3
    <3> QED  BY <3>1, <3>2, <3>4
  <2> QED  BY <2>1
<1> QED  BY <1>3

LEMMA LoopSends ==
    ASSUME cfg \in Configs, NEW c \in Shapes(cfg), NEW created \in BOOLEAN, NEW n \in Nat,
           NEW h, Loop(h, c, created, n)
    PROVE  Sending(c, h[n], n)
<1> DEFINE Bad == {k \in 0 .. n : ~Sending(c, h[k], k)}
<1>1. 0 \notin Bad
  <2>1. h[0] = c
    BY DEF Loop
  <2>2. c.usDataHandle \in Nat /\ c.NotAcknowledged \in Nat
    BY Options DEF Shapes
  <2>3. c.usDataHandle - c.usDataHandle = 0 /\ c.NotAcknowledged = c.NotAcknowledged + 0
    BY <2>2
  <2>4. Sending(c, h[0], 0)
    BY <2>1, <2>3 DEF Sending
  <2> QED  BY <2>4
<1>2. ASSUME NEW k \in Nat, k + 1 \in 0 .. n, Sending(c, h[k], k)
      PROVE  Sending(c, h[k + 1], k + 1)
  <2>1. h[k + 1] = SendData(h[(k + 1) - 1], created)
    BY <1>2 DEF Loop
  <2>2. h[k + 1] = SendData(h[k], created)
    <3>1. (k + 1) - 1 = k
      OBVIOUS
    <3> QED  BY <2>1, <3>1
  <2>3. h[k] \in Shapes(cfg)
    BY <1>2 DEF Sending
  <2>4. Sending(h[k], h[k + 1], 1)
    BY <2>2, <2>3, SendsOne
  <2> QED  BY <1>2, <2>4, SendsMore
<1>3. Bad = {}
  <2>1. ASSUME Bad # {}  PROVE FALSE
    <3>0. Bad \subseteq Nat
      OBVIOUS
    <3>1. PICK k \in Bad : \A j \in Bad : k <= j
      <4> HIDE DEF Bad
      <4> QED  BY <2>1, <3>0, Least
    <3>2. k - 1 \in Nat /\ k - 1 \in 0 .. n /\ k - 1 \notin Bad /\ k = (k - 1) + 1 /\ k \in 0 .. n
      BY <1>1, <3>1
    <3>3. Sending(c, h[k - 1], k - 1)
      BY <3>2
    <3>4. Sending(c, h[(k - 1) + 1], (k - 1) + 1)
      BY <1>2, <3>2, <3>3
    <3>5. Sending(c, h[k], k)
      BY <3>2, <3>4
    <3> QED  BY <3>1, <3>5
  <2> QED  BY <2>1
<1> QED  BY <1>3

\* nextwavestate sends a window at most.
LEMMA Fills ==
    ASSUME cfg \in Configs, NEW c \in Shapes(cfg), NEW created \in BOOLEAN
    PROVE  Sending(c, Fill(c, created), Limit(cfg))
<1> DEFINE g == CHOOSE h : h = [k \in 0 .. Window |-> IF k = 0 THEN c ELSE SendData(h[k - 1], created)]
<1>1. Fill(c, created) = g[Window]
  BY DEF Fill
<1>2. Window = Limit(cfg) /\ Window \in Nat
  BY Options
<1>3. \E h : h = [k \in 0 .. Window |-> IF k = 0 THEN c ELSE SendData(h[k - 1], created)]
  <2>1. \E h : Loop(h, c, created, Window)
    BY <1>2, LoopExists
  <2> QED  BY <2>1 DEF Loop
<1>4. Loop(g, c, created, Window)
  BY <1>3 DEF Loop
<1> HIDE DEF g
<1>5. Sending(c, g[Window], Window)
  BY <1>2, <1>4, LoopSends
<1> QED  BY <1>1, <1>2, <1>5
--------------------------------------------------------------------------------
(* Messages, lines and calls *)

LEMMA TellsIn ==
    ASSUME NEW m \in FromBrick
    PROVE  /\ Tells(m) => /\ m \in Tellings /\ m.plci \in Plcis /\ m.id \in CallIds
                          /\ m.id \in Nat /\ m.id # 0 /\ m.arg \in Nat
                          /\ m.type \in IndTypes \cup ConfTypes
                          /\ m.type \in IndTypes => (m.b3 <=> m.type \in NcciTypes)
           /\ m.type \in IndTypes \cup ConfTypes => Tells(m)
BY DEF FromBrick, Tells, Tellings, ListenConf, NoMsg, IndTypes, ConfTypes, CallIds

LEMMA LineIn ==
    ASSUME NEW x \in Lines
    PROVE  /\ x.id \in Nat /\ x.sent \in Nat /\ x.played \in Seq(Nat) /\ x.unconf \in Seq(Nat)
           /\ x.acked \subseteq Nat
           /\ x.id # 0 <=> x.st # "free"
           /\ x.id = 0 => x = Idle
           /\ x.id # 0 => x \in Busy /\ x.id \in CallIds
           /\ Len(x.played) \in Nat /\ Len(x.unconf) \in Nat
<1>1. CASE x = Idle
  BY <1>1 DEF Idle
<1>2. CASE x \in Busy
  BY <1>2 DEF Busy, CallIds
<1> QED  BY <1>1, <1>2 DEF Lines

LEMMA CallIn ==
    ASSUME NEW g, NEW c \in CallRecords(g), g.has \in Nat, Limit(g) \in Nat
    PROVE  /\ c.id \in CallIds /\ c.id \in Nat /\ c.id # 0 /\ c.plci \in Plcis /\ c.b3 \in BOOLEAN
           /\ c.usDataHandle \in Nat /\ c.NotAcknowledged \in Nat
           /\ c.NotAcknowledged <= Limit(g) /\ (c.NotAcknowledged > 0 => c.b3)
BY DEF CallRecords, Shapes, CallIds

LEMMA FirstOfIn ==
    ASSUME NEW S, S \subseteq Nat
    PROVE  /\ S = {} => FirstOf(S) = 0
           /\ S # {} => FirstOf(S) \in S /\ \A n \in S : FirstOf(S) <= n
<1>1. CASE S = {}
  BY <1>1 DEF FirstOf
<1>2. CASE S # {}
  <2>1. \E m \in S : \A n \in S : m <= n
    BY <1>2, Least
  <2> QED  BY <1>2, <2>1 DEF FirstOf, Min
<1> QED  BY <1>1, <1>2

\* getCallbyPlci and getCallbyIdent find a call if there is one.
LEMMA Lookup ==
    ASSUME NEW X, calls \in Seq(X)
    PROVE  /\ ByPlci # 0 => ByPlci \in DOMAIN calls /\ calls[ByPlci].plci = capi.plci
           /\ ByPlci = 0 => NoneOn(calls, capi.plci)
           /\ ByIdent # 0 => /\ ByIdent \in DOMAIN calls /\ calls[ByIdent].plci = capi.plci
                             /\ capi.b3 => calls[ByIdent].b3
           /\ ByIdent = 0 => \A k \in DOMAIN calls :
                                ~(calls[k].plci = capi.plci /\ (capi.b3 => calls[k].b3))
<1> DEFINE A == {k \in DOMAIN calls : calls[k].plci = capi.plci}
           B == {k \in DOMAIN calls : calls[k].plci = capi.plci /\ calls[k].b3}
<1>1. A \subseteq Nat /\ B \subseteq Nat /\ 0 \notin A /\ 0 \notin B
  OBVIOUS
<1>2. ByPlci = FirstOf(A) /\ ByIdent = IF capi.b3 THEN FirstOf(B) ELSE FirstOf(A)
  BY DEF ByPlci, ByIdent
<1> HIDE DEF A, B
<1>3. /\ ByPlci # 0 => ByPlci \in A
      /\ ByPlci = 0 => A = {}
  BY <1>1, <1>2, FirstOfIn
<1>4. ASSUME capi.b3
      PROVE  /\ ByIdent # 0 => ByIdent \in B
             /\ ByIdent = 0 => B = {}
  BY <1>1, <1>2, <1>4, FirstOfIn
<1>5. ASSUME ~capi.b3
      PROVE  /\ ByIdent # 0 => ByIdent \in A
             /\ ByIdent = 0 => A = {}
  BY <1>1, <1>2, <1>5, FirstOfIn
<1> USE DEF A, B
<1>6. CASE capi.b3
  BY <1>3, <1>4, <1>6 DEF NoneOn
<1>7. CASE ~capi.b3
  BY <1>3, <1>5, <1>7 DEF NoneOn
<1> QED  BY <1>6, <1>7

\* The types of what the parts of the invariant speak of, and the invariant.
Shape(g, s, q, l, cs, f, r) ==
    /\ g \in Configs /\ s \in Seq(FromBrick) /\ q \in Seq(FromProg) /\ l \in [Plcis -> Lines]
    /\ cs \in Seq(CallRecords(g)) /\ f \in [CallIds -> Files] /\ r \in 0 .. MaxCalls
State(g, s, q, l, cs, f, r) == Shape(g, s, q, l, cs, f, r) /\ Inv(s, q, l, cs, f, r)

LEMMA OptionsOf ==
    ASSUME NEW g \in Configs
    PROVE  /\ g.has \in Nat /\ g.says \in Nat /\ g.ncnt \in Nat /\ g.winsize \in Nat
           /\ Limit(g) \in Nat /\ Limit(g) >= 1
<1>1. /\ g.has \in Nat /\ g.says \in Nat /\ g.ncnt \in Nat /\ g.winsize \in Nat
  BY AnswerMachineAssumption
<1> QED  BY <1>1 DEF Limit

\* The calls of a list, the messages of a stream.
LEMMA CallsIn ==
    ASSUME NEW g \in Configs, NEW cs \in Seq(CallRecords(g)), NEW k \in DOMAIN cs
    PROVE  /\ cs[k] \in CallRecords(g) /\ k \in Nat
           /\ cs[k].id \in CallIds /\ cs[k].id \in Nat /\ cs[k].id # 0 /\ cs[k].plci \in Plcis
           /\ cs[k].usDataHandle \in Nat /\ cs[k].NotAcknowledged \in Nat
<1>1. cs[k] \in CallRecords(g) /\ k \in Nat
  OBVIOUS
<1> QED  BY <1>1, CallIn, OptionsOf

\* What the elements of a stream, the lines and the calls are.
StreamOk(s) ==
    \A k \in DOMAIN s :
        /\ k \in Nat
        /\ Tells(s[k]) => /\ s[k].plci \in Plcis /\ s[k].id \in CallIds /\ s[k].id \in Nat
                          /\ s[k].id # 0 /\ s[k].arg \in Nat
                          /\ s[k].type \in IndTypes \cup ConfTypes
        /\ s[k].type \in IndTypes \cup ConfTypes => Tells(s[k])
ReplyOk(q) ==
    \A k \in DOMAIN q : /\ k \in Nat /\ q[k].plci \in Plcis /\ q[k].id \in CallIds
                        /\ q[k].id \in Nat /\ q[k].id # 0 /\ q[k].arg \in Nat
LineOk(l) ==
    \A p \in Plcis :
        /\ l[p].id \in Nat /\ l[p].sent \in Nat /\ l[p].played \in Seq(Nat)
        /\ l[p].unconf \in Seq(Nat) /\ l[p].acked \subseteq Nat
        /\ Len(l[p].played) \in Nat /\ Len(l[p].unconf) \in Nat
        /\ l[p].id # 0 <=> l[p].st # "free"
        /\ l[p].id = 0 => l[p] = Idle
        /\ l[p].id # 0 => l[p] \in Busy /\ l[p].id \in CallIds
ListOk(g, cs) ==
    \A k \in DOMAIN cs :
        /\ cs[k] \in CallRecords(g) /\ k \in Nat
        /\ cs[k].id \in CallIds /\ cs[k].id \in Nat /\ cs[k].id # 0 /\ cs[k].plci \in Plcis
        /\ cs[k].usDataHandle \in Nat /\ cs[k].NotAcknowledged \in Nat

LEMMA Elements ==
    ASSUME NEW g, NEW s, NEW q, NEW l, NEW cs, NEW f, NEW r, Shape(g, s, q, l, cs, f, r)
    PROVE  StreamOk(s) /\ ReplyOk(q) /\ LineOk(l) /\ ListOk(g, cs) /\ r \in Nat
<1>1. StreamOk(s)
  <2>1. ASSUME NEW k \in DOMAIN s  PROVE s[k] \in FromBrick /\ k \in Nat
    BY DEF Shape
  <2> QED  BY <2>1, TellsIn DEF StreamOk
<1>2. ReplyOk(q)
  <2>1. ASSUME NEW k \in DOMAIN q  PROVE q[k] \in FromProg /\ k \in Nat
    BY DEF Shape
  <2> QED  BY <2>1 DEF ReplyOk, FromProg, CallIds
<1>3. LineOk(l)
  <2>1. ASSUME NEW p \in Plcis  PROVE l[p] \in Lines
    BY DEF Shape
  <2> QED  BY <2>1, LineIn DEF LineOk
<1>4. ListOk(g, cs)
  BY CallsIn DEF Shape, ListOk
<1>5. r \in Nat
  BY Constants DEF Shape
<1> QED  BY <1>1, <1>2, <1>3, <1>4, <1>5

\* The stream t is s without its first element m, and with m behind it.
Rest(X, s, t, m) ==
    /\ t \in Seq(X) /\ Len(s) = Len(t) + 1 /\ Len(t) \in Nat /\ 1 \in DOMAIN s /\ s[1] = m /\ m \in X
    /\ \A k \in DOMAIN t : k + 1 \in DOMAIN s /\ t[k] = s[k + 1] /\ k \in Nat /\ k >= 1
    /\ \A k \in DOMAIN s : k # 1 => k - 1 \in DOMAIN t /\ t[k - 1] = s[k]
    /\ \A T : /\ Number(t, T) \in Nat
              /\ m \in T => Number(s, T) = Number(t, T) + 1
              /\ m \notin T => Number(s, T) = Number(t, T)
Behind(X, s, t, m) ==
    /\ t \in Seq(X) /\ Len(t) = Len(s) + 1 /\ Len(s) \in Nat /\ m \in X
    /\ \A k \in DOMAIN s : k \in DOMAIN t /\ t[k] = s[k] /\ k < Len(t)
    /\ \A k \in DOMAIN t : k \in DOMAIN s \/ (k = Len(t) /\ t[k] = m)
    /\ Len(t) \in DOMAIN t /\ t[Len(t)] = m
    /\ \A T : /\ Number(s, T) \in Nat
              /\ m \in T => Number(t, T) = Number(s, T) + 1
              /\ m \notin T => Number(t, T) = Number(s, T)

LEMMA RestOf ==
    ASSUME NEW X, NEW s \in Seq(X), s # <<>>
    PROVE  Rest(X, s, Tail(s), Head(s))
<1>1. /\ Tail(s) \in Seq(X) /\ Len(s) = Len(Tail(s)) + 1 /\ Len(Tail(s)) \in Nat
      /\ DOMAIN Tail(s) = 1 .. Len(Tail(s))
  OBVIOUS
<1>2. ASSUME NEW T
      PROVE  /\ Number(Tail(s), T) \in Nat
             /\ Head(s) \in T => Number(s, T) = Number(Tail(s), T) + 1
             /\ Head(s) \notin T => Number(s, T) = Number(Tail(s), T)
  <2>1. Number(Tail(s), T) \in Nat
    BY <1>1, NumberType
  <2>2. Number(s, T) = One(Head(s) \in T) + Number(Tail(s), T)
    BY NumberTail
  <2> QED  BY <2>1, <2>2 DEF One
<1>3. \A k \in DOMAIN Tail(s) : k \in Nat /\ k >= 1
  BY <1>1
<1> QED  BY <1>1, <1>2, <1>3, TailOf DEF Rest

LEMMA BehindOf ==
    ASSUME NEW X, NEW s \in Seq(X), NEW m \in X
    PROVE  Behind(X, s, Append(s, m), m)
<1> DEFINE t == Append(s, m)
<1>1. /\ t \in Seq(X) /\ Len(t) = Len(s) + 1 /\ Len(s) \in Nat
      /\ DOMAIN t = 1 .. Len(s) + 1 /\ DOMAIN s = 1 .. Len(s)
      /\ \A k \in 1 .. Len(s) : t[k] = s[k]
      /\ t[Len(s) + 1] = m
  OBVIOUS
<1>2. ASSUME NEW T
      PROVE  /\ Number(s, T) \in Nat
             /\ m \in T => Number(t, T) = Number(s, T) + 1
             /\ m \notin T => Number(t, T) = Number(s, T)
  <2>1. Number(s, T) \in Nat
    BY NumberType
  <2>2. Number(t, T) = Number(s, T) + One(m \in T)
    BY NumberAppend
  <2> QED  BY <2>1, <2>2 DEF One
<1> HIDE DEF t
<1>3. Behind(X, s, t, m)
  BY <1>1, <1>2 DEF Behind
<1> QED  BY <1>3 DEF t

\* What Counted counts are numbers; blocks that are put count as under way.
LEMMA CountedIn ==
    ASSUME NEW g, NEW s, NEW q, NEW l, NEW cs, NEW f, NEW r, Shape(g, s, q, l, cs, f, r),
           NEW j \in DOMAIN cs
    PROVE  /\ cs[j].NotAcknowledged \in Nat /\ cs[j].usDataHandle \in Nat
           /\ Len(l[cs[j].plci].unconf) \in Nat /\ Len(l[cs[j].plci].played) \in Nat
           /\ Number(<<>>, Reqs(cs[j].id)) = 0
           /\ Number(q, Reqs(cs[j].id)) \in Nat /\ Number(s, Confs(cs[j].id)) \in Nat
<1>1. LineOk(l) /\ ListOk(g, cs)
  BY Elements
<1>2. cs[j].NotAcknowledged \in Nat /\ cs[j].usDataHandle \in Nat /\ cs[j].plci \in Plcis
  BY <1>1 DEF ListOk
<1>3. Len(l[cs[j].plci].unconf) \in Nat /\ Len(l[cs[j].plci].played) \in Nat
  BY <1>1, <1>2 DEF LineOk
<1>4. s \in Seq(FromBrick) /\ q \in Seq(FromProg)
  BY DEF Shape
<1>5. Number(<<>>, Reqs(cs[j].id)) = 0
  BY NumberOne
<1>6. Number(q, Reqs(cs[j].id)) \in Nat /\ Number(s, Confs(cs[j].id)) \in Nat
  BY <1>4, NumberType
<1> QED  BY <1>2, <1>3, <1>5, <1>6

LEMMA TallyMore ==
    ASSUME NEW st, NEW n \in Nat, NEW u \in Nat, NEW played \in Nat, NEW unconf \in Nat,
           NEW conf \in Nat, NEW more \in Nat, Tally(st, n, u, played, unconf, 0, conf)
    PROVE  Tally(st, n + more, u + more, played, unconf, more, conf)
BY DEF Tally

LEMMA TallyDropped ==
    ASSUME NEW st, NEW n \in Nat, NEW u \in Nat, NEW played, NEW unconf \in Nat,
           NEW req \in Nat, NEW conf \in Nat, st # "b3up", Tally(st, n, u, played, unconf, req, conf)
    PROVE  Tally(st, n, u, played, 0, req, conf)
BY DEF Tally

LEMMA TallyPlayed ==
    ASSUME NEW st, NEW n \in Nat, NEW u \in Nat, NEW played \in Nat, NEW unconf \in Nat,
           NEW conf \in Nat, Tally(st, n, u, played, unconf, 0, conf + 1)
    PROVE  Tally(st, n - 1, u, played, unconf, 0, conf)
BY DEF Tally

--------------------------------------------------------------------------------
(* The program takes a message and has put none yet *)

\* The program takes message m: of the others what was true of them stays true.
LEMMA TakesProg ==
    ASSUME NEW g, NEW s, NEW l, NEW cs, NEW f, NEW r, State(g, s, <<>>, l, cs, f, r),
           NEW t, NEW m, Rest(FromBrick, s, t, m),
           m.type = "DATAB3_CONF" => \A k \in DOMAIN cs : cs[k].id # m.id
    PROVE  State(g, t, <<>>, l, cs, f, r)
<1>1. Shape(g, s, <<>>, l, cs, f, r) /\ Inv(s, <<>>, l, cs, f, r)
  BY DEF State
<1>2. Shape(g, t, <<>>, l, cs, f, r)
  BY <1>1 DEF Shape, Rest
<1>3. \A k \in DOMAIN t : k + 1 \in DOMAIN s /\ t[k] = s[k + 1] /\ k \in Nat
  BY DEF Rest
<1>4. Numbered(l, r) /\ Listed(l, cs) /\ Queued(<<>>, cs) /\ Playing(l)
  BY <1>1 DEF Inv
<1>5. Told(t, l, cs, r)
  BY <1>1, <1>3 DEF Inv, Told
<1>6. Ordered(t)
  <2>1. ASSUME NEW j \in DOMAIN t, NEW k \in DOMAIN t, j < k, Tells(t[j]), Tells(t[k])
        PROVE  Before(t[j], t[k])
    <3>1. /\ j + 1 \in DOMAIN s /\ k + 1 \in DOMAIN s /\ t[j] = s[j + 1] /\ t[k] = s[k + 1]
          /\ j + 1 < k + 1
      BY <1>3, <2>1
    <3>2. Before(s[j + 1], s[k + 1])
      BY <1>1, <2>1, <3>1 DEF Inv, Ordered
    <3> QED  BY <3>1, <3>2
  <2> QED  BY <2>1 DEF Ordered
<1>7. Replied(t, <<>>, l, cs)
  BY DEF Replied
<1>8. Begun(t, <<>>, l, cs)
  <2>1. ASSUME NEW p \in Plcis, Beginning(t, l, p)  PROVE Beginning(s, l, p)
    BY <1>3, <2>1 DEF Beginning
  <2> QED  BY <1>1, <1>3, <2>1 DEF Inv, Begun
<1>9. Counted(t, <<>>, l, cs)
  <2>1. ASSUME NEW k \in DOMAIN cs  PROVE Number(s, Confs(cs[k].id)) = Number(t, Confs(cs[k].id))
    <3>1. m \notin Confs(cs[k].id)
      BY DEF Confs
    <3> QED  BY <3>1 DEF Rest
  <2> QED  BY <1>1, <2>1 DEF Inv, Counted
<1>10. Filed(t, cs, f, r)
  BY <1>1, <1>3 DEF Inv, Filed
<1>11. Recorded(t, <<>>, l, f)
  <2>1. ASSUME NEW p \in Plcis, NEW b, Passed(s, l[p], p, b)  PROVE Passed(t, l[p], p, b)
    BY <1>3, <2>1 DEF Passed
  <2> QED  BY <1>1, <2>1 DEF Inv, Recorded, Whole
<1> QED  BY <1>2, <1>4, <1>5, <1>6, <1>7, <1>8, <1>9, <1>10, <1>11 DEF State, Inv

\* The message the program takes and those behind it: of the line's own call, or
\* a confirmation.
LEMMA HeadFacts ==
    ASSUME NEW g, NEW s, NEW l, NEW cs, NEW f, NEW r, State(g, s, <<>>, l, cs, f, r),
           NEW t, NEW m, Rest(FromBrick, s, t, m), Tells(m)
    PROVE  /\ m.plci \in Plcis /\ m.id \in CallIds /\ m.id # 0 /\ m.id <= r
           /\ m.type \in IndTypes => m.id = l[m.plci].id
           /\ \A k \in DOMAIN cs : cs[k].plci = m.plci => cs[k].id = m.id /\ m.id = l[m.plci].id
           /\ \A k \in DOMAIN cs : cs[k].id = m.id => cs[k].plci = m.plci
           /\ m.id = l[m.plci].id => \A k \in DOMAIN t :
                 t[k].plci = m.plci => t[k].type # "CONNECT_IND"
<1>1. Shape(g, s, <<>>, l, cs, f, r) /\ Inv(s, <<>>, l, cs, f, r)
  BY DEF State
<1>2. StreamOk(s) /\ LineOk(l) /\ ListOk(g, cs) /\ r \in Nat
  BY <1>1, Elements
<1>3. 1 \in DOMAIN s /\ s[1] = m
  BY DEF Rest
<1>4. m.plci \in Plcis /\ m.id \in CallIds /\ m.id # 0
  BY <1>2, <1>3 DEF StreamOk
<1>5. /\ m.id <= r
      /\ \A o \in Plcis : m.id = l[o].id => o = m.plci
      /\ m.id = l[m.plci].id \/ (m.type \in ConfTypes /\ NoneOn(cs, m.plci))
  BY <1>1, <1>3 DEF Inv, Told
<1>6. m.type \in IndTypes => m.id = l[m.plci].id
  BY <1>5 DEF IndTypes, ConfTypes
<1>7. \A k \in DOMAIN cs : cs[k].plci = m.plci => cs[k].id = m.id /\ m.id = l[m.plci].id
  BY <1>1, <1>5 DEF Inv, Listed, NoneOn
<1>8. \A k \in DOMAIN cs : cs[k].id = m.id => cs[k].plci = m.plci
  BY <1>1, <1>2, <1>5 DEF Inv, Listed, ListOk
<1>9. ASSUME m.id = l[m.plci].id, NEW k \in DOMAIN t, t[k].plci = m.plci, t[k].type = "CONNECT_IND"
      PROVE  FALSE
  <2>1. k + 1 \in DOMAIN s /\ t[k] = s[k + 1] /\ 1 < k + 1
    BY DEF Rest
  <2>2. Tells(s[k + 1])
    BY <1>9, <2>1 DEF Tells
  <2>3. s[k + 1].id = l[s[k + 1].plci].id
    BY <1>1, <1>9, <2>1, <2>2 DEF Inv, Told, ConfTypes
  <2>4. Before(m, s[k + 1])
    BY <1>1, <1>3, <2>1, <2>2 DEF Inv, Ordered
  <2> QED  BY <1>9, <2>1, <2>3, <2>4 DEF Before
<1> QED  BY <1>4, <1>5, <1>6, <1>7, <1>8, <1>9

\* The program puts messages about one call: neither blocks, nor acknowledgements,
\* nor the response to the end of the call; nor is it ended while its line is up.
Plain(q, p, x) ==
    \A k \in DOMAIN q : /\ q[k].plci = p /\ q[k].id = x.id
                        /\ q[k].type = "DISCONNECT_REQ" => Down(x.st)
                        /\ q[k].type \notin {"DATAB3_REQ", "DATAB3_RESP", "DISCONNECT_RESP"}
LEMMA PutsPlain ==
    ASSUME NEW g, NEW s, NEW l, NEW cs, NEW f, NEW r, State(g, s, <<>>, l, cs, f, r),
           NEW q \in Seq(FromProg), NEW p \in Plcis, Plain(q, p, l[p]),
           \A j \in DOMAIN s : s[j].plci = p => s[j].type # "CONNECT_IND"
    PROVE  State(g, s, q, l, cs, f, r)
<1>1. Shape(g, s, <<>>, l, cs, f, r) /\ Inv(s, <<>>, l, cs, f, r)
  BY DEF State
<1>2. Shape(g, s, q, l, cs, f, r)
  BY <1>1 DEF Shape
<1>4. /\ Numbered(l, r) /\ Listed(l, cs) /\ Told(s, l, cs, r) /\ Ordered(s) /\ Playing(l)
      /\ Filed(s, cs, f, r)
  BY <1>1 DEF Inv
<1>5. Replied(s, q, l, cs)
  BY DEF Replied, Plain
<1>6. Begun(s, q, l, cs)
  BY <1>1 DEF Inv, Begun, Plain
<1>7. Counted(s, q, l, cs)
  <2>1. ASSUME NEW i  PROVE Number(q, Reqs(i)) = Number(<<>>, Reqs(i))
    <3>1. \A k \in DOMAIN q : q[k] \notin Reqs(i)
      BY DEF Reqs, Plain
    <3>2. Number(q, Reqs(i)) = 0
      BY <3>1, NumberType
    <3>3. Number(<<>>, Reqs(i)) = 0
      BY NumberOne
    <3> QED  BY <3>2, <3>3
  <2> QED  BY <1>1, <2>1 DEF Inv, Counted
<1>8. Queued(q, cs)
  BY DEF Queued, Plain
<1>9. Recorded(s, q, l, f)
  <2>1. ASSUME NEW o \in Plcis, NEW b, Heard(q, l[o], o, b)  PROVE Heard(<<>>, l[o], o, b)
    BY <2>1 DEF Heard, Plain
  <2>2. ASSUME NEW o \in Plcis, l[o].id # 0  PROVE Whole(s, q, l[o], o, f[l[o].id].data)
    <3>1. Whole(s, <<>>, l[o], o, f[l[o].id].data)
      BY <1>1, <2>2 DEF Inv, Recorded
    <3> QED  BY <2>1, <3>1 DEF Whole
  <2> QED  BY <2>2 DEF Recorded
<1> QED  BY <1>2, <1>4, <1>5, <1>6, <1>7, <1>8, <1>9 DEF State, Inv

\* What the program keeps of a call that only changes its state.
SameCalls(cs, ds) ==
    /\ DOMAIN ds = DOMAIN cs
    /\ \A k \in DOMAIN cs :
          /\ ds[k].id = cs[k].id /\ ds[k].plci = cs[k].plci /\ ds[k].rxfp = cs[k].rxfp
          /\ ds[k].usDataHandle = cs[k].usDataHandle
          /\ ds[k].NotAcknowledged = cs[k].NotAcknowledged
LEMMA KeepsCalls ==
    ASSUME NEW g, NEW s, NEW q, NEW l, NEW cs, NEW f, NEW r, State(g, s, q, l, cs, f, r),
           NEW ds \in Seq(CallRecords(g)), SameCalls(cs, ds)
    PROVE  State(g, s, q, l, ds, f, r)
<1>1. Shape(g, s, q, l, cs, f, r) /\ Inv(s, q, l, cs, f, r)
  BY DEF State
<1>2. Shape(g, s, q, l, ds, f, r)
  BY <1>1 DEF Shape
<1>3. /\ DOMAIN ds = DOMAIN cs
      /\ \A k \in DOMAIN cs :
          /\ ds[k].id = cs[k].id /\ ds[k].plci = cs[k].plci /\ ds[k].rxfp = cs[k].rxfp
          /\ ds[k].usDataHandle = cs[k].usDataHandle
          /\ ds[k].NotAcknowledged = cs[k].NotAcknowledged
  BY DEF SameCalls
<1>4. Numbered(l, r) /\ Ordered(s) /\ Playing(l) /\ Recorded(s, q, l, f)
  BY <1>1 DEF Inv
<1>5. Listed(l, ds)
  BY <1>1, <1>3 DEF Inv, Listed
<1>6. \A p : NoneOn(cs, p) => NoneOn(ds, p)
  BY <1>3 DEF NoneOn
<1>7. Told(s, l, ds, r)
  BY <1>1, <1>6 DEF Inv, Told
<1>8. Replied(s, q, l, ds)
  BY <1>1, <1>6 DEF Inv, Replied
<1>9. Begun(s, q, l, ds)
  BY <1>1, <1>3 DEF Inv, Begun, Fresh
<1>10. Counted(s, q, l, ds)
  BY <1>1, <1>3 DEF Inv, Counted
<1>11. Queued(q, ds)
  BY <1>1, <1>3 DEF Inv, Queued
<1>12. Filed(s, ds, f, r)
  BY <1>1, <1>3 DEF Inv, Filed
<1> QED  BY <1>2, <1>4, <1>5, <1>7, <1>8, <1>9, <1>10, <1>11, <1>12 DEF State, Inv

\* The k-th call has got further: cs has become ds.
Further(cs, ds, k) ==
    /\ DOMAIN ds = DOMAIN cs /\ k \in DOMAIN cs
    /\ \A j \in DOMAIN cs : j # k => ds[j] = cs[j]
    /\ ds[k].id = cs[k].id /\ ds[k].plci = cs[k].plci
    /\ ds[k].rxfp # "open" => cs[k].rxfp # "open"

\* The blocks it has sent.
Announcement(blocks, c, d) ==
    /\ d.usDataHandle = c.usDataHandle + Len(blocks)
    /\ d.NotAcknowledged = c.NotAcknowledged + Len(blocks)
    /\ \A n \in DOMAIN blocks :
          /\ blocks[n].type = "DATAB3_REQ" /\ blocks[n].plci = c.plci /\ blocks[n].id = c.id
          /\ blocks[n].arg = c.usDataHandle + n

LEMMA SendsBlocks ==
    ASSUME NEW g, NEW s, NEW l, NEW cs, NEW f, NEW r, State(g, s, <<>>, l, cs, f, r),
           NEW ds \in Seq(CallRecords(g)), NEW k \in DOMAIN cs, Further(cs, ds, k),
           NEW plain \in Seq(FromProg), Plain(plain, cs[k].plci, l[cs[k].plci]),
           NEW blocks \in Seq(FromProg), Announcement(blocks, cs[k], ds[k]),
           ~Beginning(s, l, cs[k].plci)
    PROVE  State(g, s, plain \o blocks, l, ds, f, r)
<1> DEFINE c == cs[k]
           d == ds[k]
           q == plain \o blocks
           p == c.plci
<1>1. Shape(g, s, <<>>, l, cs, f, r) /\ Inv(s, <<>>, l, cs, f, r)
  BY DEF State
<1>2. StreamOk(s) /\ LineOk(l) /\ ListOk(g, cs) /\ r \in Nat
  BY <1>1, Elements
<1>3. /\ q \in Seq(FromProg) /\ Len(plain) \in Nat /\ Len(blocks) \in Nat
      /\ Len(q) = Len(plain) + Len(blocks)
      /\ DOMAIN plain = 1 .. Len(plain) /\ DOMAIN blocks = 1 .. Len(blocks)
      /\ DOMAIN q = 1 .. Len(plain) + Len(blocks)
      /\ \A n \in DOMAIN plain : n \in DOMAIN q /\ q[n] = plain[n]
      /\ \A n \in DOMAIN q : \/ n \in DOMAIN plain
                             \/ /\ n > Len(plain) /\ n - Len(plain) \in DOMAIN blocks
                                /\ q[n] = blocks[n - Len(plain)]
  BY ConcatOf
<1>4. \A i : Number(q, Reqs(i)) = IF i = c.id THEN Len(blocks) ELSE 0
  <2>1. ASSUME NEW i  PROVE Number(q, Reqs(i)) = IF i = c.id THEN Len(blocks) ELSE 0
    <3>1. Number(q, Reqs(i)) = Number(plain, Reqs(i)) + Number(blocks, Reqs(i))
      BY NumberConcat
    <3>2. Number(plain, Reqs(i)) = 0
      <4>1. \A n \in DOMAIN plain : plain[n] \notin Reqs(i)
        BY DEF Reqs, Plain
      <4> QED  BY <4>1, NumberType
    <3>3. CASE i = c.id
      <4>1. \A n \in DOMAIN blocks : blocks[n] \in Reqs(i)
        BY <3>3 DEF Reqs, Announcement
      <4>2. Number(blocks, Reqs(i)) = Len(blocks)
        BY <4>1, NumberAll
      <4> QED  BY <1>3, <3>1, <3>2, <3>3, <4>2
    <3>4. CASE i # c.id
      <4>1. \A n \in DOMAIN blocks : blocks[n] \notin Reqs(i)
        BY <3>4 DEF Reqs, Announcement
      <4>2. Number(blocks, Reqs(i)) = 0
        BY <4>1, NumberType
      <4> QED  BY <3>1, <3>2, <3>4, <4>2
    <3> QED  BY <3>3, <3>4
  <2> QED  BY <2>1
<1>0. l[p].id = c.id
  BY <1>1 DEF Inv, Listed
<1>5. \A n \in DOMAIN q : /\ q[n].plci = p /\ q[n].id = c.id
                          /\ q[n].type = "DISCONNECT_REQ" => Down(l[p].st)
                          /\ q[n].type \notin {"DATAB3_RESP", "DISCONNECT_RESP"}
  <2>1. ASSUME NEW n \in DOMAIN q
        PROVE  /\ q[n].plci = p /\ q[n].id = c.id
               /\ q[n].type = "DISCONNECT_REQ" => Down(l[p].st)
               /\ q[n].type \notin {"DATAB3_RESP", "DISCONNECT_RESP"}
    <3>1. CASE n \in DOMAIN plain
      BY <1>0, <1>3, <3>1 DEF Plain
    <3>2. CASE n - Len(plain) \in DOMAIN blocks /\ q[n] = blocks[n - Len(plain)]
      BY <3>2 DEF Announcement
    <3> QED  BY <1>3, <3>1, <3>2
  <2> QED  BY <2>1
<1> HIDE DEF q
<1>6. /\ DOMAIN ds = DOMAIN cs
      /\ \A j \in DOMAIN cs : ds[j].id = cs[j].id /\ ds[j].plci = cs[j].plci
  BY DEF Further
<1>7. p \in Plcis /\ l[p].id = c.id /\ \A j \in DOMAIN cs : j # k => cs[j].id # c.id /\ cs[j].plci # p
  <2>1. p \in Plcis /\ l[p].id = c.id /\ c.id # 0
    BY <1>1, <1>2 DEF Inv, Listed, ListOk
  <2>2. \A j \in DOMAIN cs : cs[j].plci = p => j = k
    BY <1>1 DEF Inv, Listed
  <2>3. ASSUME NEW j \in DOMAIN cs, cs[j].id = c.id  PROVE cs[j].plci = p
    <3>1. cs[j].plci \in Plcis /\ l[cs[j].plci].id = c.id
      BY <1>1, <1>2, <2>3 DEF Inv, Listed, ListOk
    <3> QED  BY <1>1, <2>1, <3>1 DEF Inv, Numbered
  <2> QED  BY <2>1, <2>2, <2>3
<1>8. Shape(g, s, q, l, ds, f, r)
  BY <1>1, <1>3 DEF Shape
<1>9. Numbered(l, r) /\ Ordered(s) /\ Playing(l)
  BY <1>1 DEF Inv
<1>10. Listed(l, ds)
  BY <1>1, <1>6 DEF Inv, Listed
<1>11. Told(s, l, ds, r)
  <2>1. \A o : NoneOn(cs, o) => NoneOn(ds, o)
    BY <1>6 DEF NoneOn
  <2> QED  BY <1>1, <2>1 DEF Inv, Told
<1>12. Replied(s, q, l, ds)
  <2>1. \A j \in DOMAIN s : s[j].type = "CONNECT_IND" => s[j].plci # p
    BY DEF Beginning, Starts
  <2> QED  BY <1>5, <1>7, <2>1 DEF Replied
<1>13. Begun(s, q, l, ds)
  <2>1. ASSUME NEW o \in Plcis, Beginning(s, l, o)
        PROVE  /\ l[o].unconf = <<>> /\ l[o].played = <<>>
               /\ \A j \in DOMAIN s : s[j].type = "DATAB3_CONF" => s[j].id # l[o].id
               /\ \A j \in DOMAIN q : q[j].type = "DATAB3_REQ" => q[j].plci # o
               /\ \A j \in DOMAIN ds : ds[j].plci = o => Fresh(ds[j])
    <3>1. o # p
      BY <2>1
    <3>2. \A j \in DOMAIN ds : ds[j].plci = o => ds[j] = cs[j]
      BY <1>6, <3>1 DEF Further
    <3> QED  BY <1>1, <1>5, <1>6, <2>1, <3>1, <3>2 DEF Inv, Begun
  <2> QED  BY <2>1 DEF Begun
<1>14. Counted(s, q, l, ds)
  <2>1. ASSUME NEW j \in DOMAIN cs
        PROVE  LET e == ds[j]  x == l[e.plci]
               IN  Tally(x.st, e.NotAcknowledged, e.usDataHandle, Len(x.played), Len(x.unconf),
                         Number(q, Reqs(e.id)), Number(s, Confs(e.id)))
    <3> DEFINE x == l[cs[j].plci]
               i == cs[j].id
    <3>1. /\ cs[j].NotAcknowledged \in Nat /\ cs[j].usDataHandle \in Nat
          /\ Len(x.unconf) \in Nat /\ Len(x.played) \in Nat
          /\ Number(<<>>, Reqs(i)) = 0 /\ Number(s, Confs(i)) \in Nat
      BY <1>1, <1>2, CountedIn
    <3>2. Tally(x.st, cs[j].NotAcknowledged, cs[j].usDataHandle, Len(x.played), Len(x.unconf),
                0, Number(s, Confs(i)))
      BY <1>1, <3>1 DEF Inv, Counted
    <3>3. CASE j = k
      <4>1. Number(q, Reqs(i)) = Len(blocks) /\ ds[j].id = i /\ ds[j].plci = cs[j].plci
        BY <1>4, <1>6, <3>3
      <4>2. /\ ds[j].NotAcknowledged = cs[j].NotAcknowledged + Len(blocks)
            /\ ds[j].usDataHandle = cs[j].usDataHandle + Len(blocks)
        BY <3>3 DEF Announcement
      <4> HIDE DEF x, i
      <4>3. Tally(x.st, ds[j].NotAcknowledged, ds[j].usDataHandle, Len(x.played), Len(x.unconf),
                  Len(blocks), Number(s, Confs(i)))
        <5>1. Tally(x.st, cs[j].NotAcknowledged + Len(blocks), cs[j].usDataHandle + Len(blocks),
                    Len(x.played), Len(x.unconf), Len(blocks), Number(s, Confs(i)))
          BY <1>3, <3>1, <3>2, TallyMore
        <5> QED  BY <4>2, <5>1
      <4> QED  BY <4>1, <4>3 DEF x, i
    <3>4. CASE j # k
      <4>1. Number(q, Reqs(i)) = 0 /\ ds[j] = cs[j]
        BY <1>4, <1>6, <1>7, <3>4 DEF Further
      <4> QED  BY <3>2, <4>1
    <3> QED  BY <3>3, <3>4
  <2> QED  BY <1>6, <2>1 DEF Counted
<1>15. Queued(q, ds)
  <2>1. ASSUME NEW n \in DOMAIN q, q[n].type = "DATAB3_REQ"
        PROVE  /\ \A j \in DOMAIN q : j > n => q[j].type = "DATAB3_REQ"
               /\ \E e \in DOMAIN ds : ds[e].id = q[n].id /\ q[n].arg + Len(q) = ds[e].usDataHandle + n
    <3>1. \A j \in DOMAIN q : j \notin DOMAIN plain => q[j].type = "DATAB3_REQ"
      BY <1>3 DEF Announcement
    <3>2. n \notin DOMAIN plain
      BY <1>3, <2>1 DEF Plain
    <3>3. \A j \in DOMAIN q : j > n => j \notin DOMAIN plain
      BY <1>3, <3>2
    <3>4. q[n].arg = c.usDataHandle + (n - Len(plain)) /\ c.usDataHandle \in Nat /\ n \in Nat
      <4>1. c.usDataHandle \in Nat
        BY <1>2 DEF ListOk
      <4>2. n - Len(plain) \in DOMAIN blocks /\ q[n] = blocks[n - Len(plain)] /\ n \in Nat
        BY <1>3, <3>2
      <4> QED  BY <4>1, <4>2 DEF Announcement
    <3>5. d.usDataHandle = c.usDataHandle + Len(blocks)
      BY DEF Announcement
    <3>6. q[n].arg + Len(q) = d.usDataHandle + n
      BY <1>3, <3>4, <3>5
    <3>7. k \in DOMAIN ds /\ ds[k].id = q[n].id
      BY <1>5, <1>6, <2>1
    <3> QED  BY <3>1, <3>3, <3>6, <3>7
  <2> QED  BY <2>1 DEF Queued
<1>16. Filed(s, ds, f, r)
  <2>1. \A j \in DOMAIN cs : ds[j].rxfp # "open" => cs[j].rxfp # "open"
    BY DEF Further
  <2>2. Filed(s, cs, f, r)
    BY <1>1 DEF Inv
  <2>3. \A i : (\A j \in DOMAIN ds : ds[j].id # i) <=> \A j \in DOMAIN cs : cs[j].id # i
    BY <1>6
  <2>4. \A j \in DOMAIN ds : ds[j].rxfp # "open" => f[ds[j].id] = Empty
    BY <1>6, <2>1, <2>2 DEF Filed
  <2> QED  BY <2>2, <2>3, <2>4 DEF Filed
<1>17. Recorded(s, q, l, f)
  <2>1. ASSUME NEW o \in Plcis, NEW b, Heard(q, l[o], o, b)  PROVE Heard(<<>>, l[o], o, b)
    BY <1>5, <2>1 DEF Heard
  <2>2. ASSUME NEW o \in Plcis, l[o].id # 0  PROVE Whole(s, q, l[o], o, f[l[o].id].data)
    <3>1. Whole(s, <<>>, l[o], o, f[l[o].id].data)
      BY <1>1, <2>2 DEF Inv, Recorded
    <3> QED  BY <2>1, <3>1 DEF Whole
  <2> QED  BY <2>2 DEF Recorded
<1>18. State(g, s, q, l, ds, f, r)
  BY <1>8, <1>9, <1>10, <1>11, <1>12, <1>13, <1>14, <1>15, <1>16, <1>17 DEF State, Inv
<1> QED  BY <1>18 DEF q

\* A block of a call of the program has been played: it is counted, and the call is
\* not beginning.
LEMMA PlayedFacts ==
    ASSUME NEW g, NEW s, NEW l, NEW cs, NEW f, NEW r, State(g, s, <<>>, l, cs, f, r),
           NEW t, NEW m, Rest(FromBrick, s, t, m), m.type = "DATAB3_CONF",
           NEW k \in DOMAIN cs, cs[k].id = m.id
    PROVE  /\ cs[k].NotAcknowledged \in Nat /\ cs[k].NotAcknowledged >= 1 /\ cs[k].b3
           /\ cs[k].plci = m.plci /\ ~Beginning(s, l, m.plci) /\ ~Beginning(t, l, m.plci)
<1>1. Shape(g, s, <<>>, l, cs, f, r) /\ Inv(s, <<>>, l, cs, f, r)
  BY DEF State
<1>2. ListOk(g, cs)
  BY <1>1, Elements
<1>3. 1 \in DOMAIN s /\ s[1] = m /\ m \in FromBrick /\ Tells(m)
  BY DEF Rest, Tells
<1>4. m.plci \in Plcis /\ cs[k].plci = m.plci /\ m.id = l[m.plci].id
  BY <1>3, HeadFacts
<1>5. m \in Confs(m.id)
  BY <1>3 DEF Confs
<1>6. Number(s, Confs(m.id)) \in Nat /\ Number(s, Confs(m.id)) >= 1
  BY <1>5 DEF Rest
<1>7. cs[k].NotAcknowledged >= 1 /\ cs[k].NotAcknowledged \in Nat
  <2> DEFINE x == l[cs[k].plci]
  <2>1. /\ cs[k].NotAcknowledged \in Nat /\ Len(x.unconf) \in Nat
        /\ Number(<<>>, Reqs(cs[k].id)) = 0
    BY <1>1, CountedIn
  <2>2. Tally(x.st, cs[k].NotAcknowledged, cs[k].usDataHandle, Len(x.played), Len(x.unconf),
              0, Number(s, Confs(m.id)))
    BY <1>1, <2>1 DEF Inv, Counted
  <2> HIDE DEF x
  <2> QED  BY <1>6, <2>1, <2>2 DEF Tally
<1>8. cs[k].b3
  <2>1. cs[k] \in CallRecords(g)
    BY <1>2 DEF ListOk
  <2> QED  BY <1>7, <2>1 DEF CallRecords
<1>9. ~Beginning(s, l, m.plci)
  BY <1>1, <1>3, <1>4 DEF Inv, Begun
<1>10. Beginning(t, l, m.plci) => Beginning(s, l, m.plci)
  BY DEF Beginning, Rest
<1> QED  BY <1>4, <1>7, <1>8, <1>9, <1>10

LEMMA Confirmed ==
    ASSUME NEW g, NEW s, NEW l, NEW cs, NEW f, NEW r, State(g, s, <<>>, l, cs, f, r),
           NEW t, NEW m, Rest(FromBrick, s, t, m), m.type = "DATAB3_CONF",
           NEW k \in DOMAIN cs, cs[k].id = m.id,
           NEW ds \in Seq(CallRecords(g)), Further(cs, ds, k),
           ds[k].NotAcknowledged = cs[k].NotAcknowledged - 1,
           ds[k].usDataHandle = cs[k].usDataHandle
    PROVE  State(g, t, <<>>, l, ds, f, r)
<1>1. Shape(g, s, <<>>, l, cs, f, r) /\ Inv(s, <<>>, l, cs, f, r)
  BY DEF State
<1>2. StreamOk(s) /\ LineOk(l) /\ ListOk(g, cs) /\ r \in Nat
  BY <1>1, Elements
<1>3. \A j \in DOMAIN t : j + 1 \in DOMAIN s /\ t[j] = s[j + 1] /\ j \in Nat
  BY DEF Rest
<1>4. Shape(g, t, <<>>, l, ds, f, r)
  BY <1>1 DEF Shape, Rest
<1>5. /\ DOMAIN ds = DOMAIN cs
      /\ \A j \in DOMAIN cs : ds[j].id = cs[j].id /\ ds[j].plci = cs[j].plci
      /\ \A j \in DOMAIN cs : j # k => ds[j] = cs[j]
      /\ \A j \in DOMAIN cs : ds[j].rxfp # "open" => cs[j].rxfp # "open"
  BY DEF Further
<1>6. Numbered(l, r) /\ Playing(l)
  BY <1>1 DEF Inv
<1>7. Listed(l, ds)
  BY <1>1, <1>5 DEF Inv, Listed
<1>8. Told(t, l, ds, r)
  <2>1. \A o : NoneOn(cs, o) => NoneOn(ds, o)
    BY <1>5 DEF NoneOn
  <2> QED  BY <1>1, <1>3, <2>1 DEF Inv, Told
<1>9. Ordered(t)
  <2>1. ASSUME NEW i \in DOMAIN t, NEW j \in DOMAIN t, i < j, Tells(t[i]), Tells(t[j])
        PROVE  Before(t[i], t[j])
    <3>1. /\ i + 1 \in DOMAIN s /\ j + 1 \in DOMAIN s /\ t[i] = s[i + 1] /\ t[j] = s[j + 1]
          /\ i + 1 < j + 1
      BY <1>3, <2>1
    <3>2. Before(s[i + 1], s[j + 1])
      BY <1>1, <2>1, <3>1 DEF Inv, Ordered
    <3> QED  BY <3>1, <3>2
  <2> QED  BY <2>1 DEF Ordered
<1>10. Replied(t, <<>>, l, ds) /\ Queued(<<>>, ds)
  BY DEF Replied, Queued
<1>11. Begun(t, <<>>, l, ds)
  <2>1. ASSUME NEW p \in Plcis, Beginning(t, l, p)  PROVE Beginning(s, l, p)
    BY <1>3, <2>1 DEF Beginning
  <2>2. ~Beginning(t, l, cs[k].plci)
    BY PlayedFacts
  <2>3. \A p : Beginning(t, l, p) => \A j \in DOMAIN ds : ds[j].plci = p => ds[j] = cs[j]
    BY <1>5, <2>2
  <2> QED  BY <1>1, <1>3, <1>5, <2>1, <2>3 DEF Inv, Begun
<1>12. Counted(t, <<>>, l, ds)
  <2>1. ASSUME NEW j \in DOMAIN cs
        PROVE  LET e == ds[j]  x == l[e.plci]
               IN  Tally(x.st, e.NotAcknowledged, e.usDataHandle, Len(x.played), Len(x.unconf),
                         Number(<<>>, Reqs(e.id)), Number(t, Confs(e.id)))
    <3> DEFINE x == l[cs[j].plci]
               i == cs[j].id
    <3>1. /\ cs[j].NotAcknowledged \in Nat /\ cs[j].usDataHandle \in Nat
          /\ Len(x.unconf) \in Nat /\ Len(x.played) \in Nat
          /\ Number(<<>>, Reqs(i)) = 0
      BY <1>1, CountedIn
    <3>2. Tally(x.st, cs[j].NotAcknowledged, cs[j].usDataHandle, Len(x.played), Len(x.unconf),
                0, Number(s, Confs(i)))
      BY <1>1, <3>1 DEF Inv, Counted
    <3>3. Number(t, Confs(i)) \in Nat
      BY DEF Rest
    <3>4. CASE j = k
      <4>1. Number(s, Confs(i)) = Number(t, Confs(i)) + 1
        <5>1. m \in Confs(i)
          BY <3>4 DEF Confs, Rest
        <5> QED  BY <5>1 DEF Rest
      <4> HIDE DEF x, i
      <4>2. Tally(x.st, cs[j].NotAcknowledged - 1, cs[j].usDataHandle, Len(x.played), Len(x.unconf),
                  0, Number(t, Confs(i)))
        <5>1. Tally(x.st, cs[j].NotAcknowledged, cs[j].usDataHandle, Len(x.played), Len(x.unconf),
                    0, Number(t, Confs(i)) + 1)
          BY <3>2, <4>1
        <5> QED  BY <3>1, <3>3, <5>1, TallyPlayed
      <4>3. /\ ds[j].NotAcknowledged = cs[j].NotAcknowledged - 1
            /\ ds[j].usDataHandle = cs[j].usDataHandle
        BY <3>4
      <4> QED  BY <1>5, <3>1, <4>2, <4>3 DEF x, i
    <3>5. CASE j # k
      <4>1. i # m.id
        <5>1. cs[j].plci \in Plcis /\ cs[k].plci \in Plcis
          BY <1>2 DEF ListOk
        <5>2. CASE i = m.id
          <6>1. l[cs[j].plci].id = l[cs[k].plci].id /\ l[cs[k].plci].id # 0
            BY <1>1, <1>2, <5>2 DEF Inv, Listed, ListOk
          <6>2. cs[j].plci = cs[k].plci
            BY <1>1, <5>1, <6>1 DEF Inv, Numbered
          <6> QED  BY <1>1, <3>5, <6>2 DEF Inv, Listed
        <5> QED  BY <5>2
      <4>2. m \notin Confs(i)
        BY <4>1 DEF Confs
      <4>3. Number(s, Confs(i)) = Number(t, Confs(i)) /\ ds[j] = cs[j]
        BY <1>5, <3>5, <4>2 DEF Rest
      <4> QED  BY <3>1, <3>2, <4>3
    <3> QED  BY <3>4, <3>5
  <2> QED  BY <1>5, <2>1 DEF Counted
<1>13. Filed(t, ds, f, r)
  <2>1. Filed(s, cs, f, r)
    BY <1>1 DEF Inv
  <2>2. \A i : (\A j \in DOMAIN ds : ds[j].id # i) <=> \A j \in DOMAIN cs : cs[j].id # i
    BY <1>5
  <2>3. \A j \in DOMAIN ds : ds[j].rxfp # "open" => f[ds[j].id] = Empty
    BY <1>5, <2>1 DEF Filed
  <2>4. ASSUME NEW j \in DOMAIN t, t[j].type = "CONNECT_IND"
        PROVE  /\ f[t[j].id] = Empty
               /\ \A e \in DOMAIN ds : ds[e].id # t[j].id
    <3>1. j + 1 \in DOMAIN s /\ t[j] = s[j + 1]
      BY <1>3
    <3>2. f[t[j].id] = Empty /\ \A e \in DOMAIN cs : cs[e].id # t[j].id
      BY <2>1, <2>4, <3>1 DEF Filed
    <3> QED  BY <1>5, <3>2
  <2> QED  BY <2>1, <2>2, <2>3, <2>4 DEF Filed
<1>14. Recorded(t, <<>>, l, f)
  <2>1. ASSUME NEW p \in Plcis, NEW b, Passed(s, l[p], p, b)  PROVE Passed(t, l[p], p, b)
    BY <1>3, <2>1 DEF Passed
  <2> QED  BY <1>1, <2>1 DEF Inv, Recorded, Whole
<1> QED  BY <1>4, <1>6, <1>7, <1>8, <1>9, <1>10, <1>11, <1>12, <1>13, <1>14 DEF State, Inv

\* A new call is put on the list.
LEMMA Enqueues ==
    ASSUME NEW g, NEW s, NEW l, NEW cs, NEW f, NEW r, State(g, s, <<>>, l, cs, f, r),
           NEW t, NEW m, Rest(FromBrick, s, t, m), m.type = "CONNECT_IND",
           NEW c \in CallRecords(g), Fresh(c), c.id = m.id, c.plci = m.plci
    PROVE  State(g, t, <<>>, l, <<c>> \o cs, f, r)
<1> DEFINE ds == <<c>> \o cs
<1>1. Shape(g, s, <<>>, l, cs, f, r) /\ Inv(s, <<>>, l, cs, f, r)
  BY DEF State
<1>2. StreamOk(s) /\ LineOk(l) /\ ListOk(g, cs) /\ r \in Nat
  BY <1>1, Elements
<1>3. 1 \in DOMAIN s /\ s[1] = m /\ Tells(m)
  BY DEF Rest, Tells
<1>4. /\ m.plci \in Plcis /\ m.id \in CallIds /\ m.id # 0 /\ m.id <= r /\ m.id = l[m.plci].id
  BY <1>3, HeadFacts DEF IndTypes
<1>5. State(g, t, <<>>, l, cs, f, r)
  BY TakesProg
<1>6. Shape(g, t, <<>>, l, cs, f, r) /\ Inv(t, <<>>, l, cs, f, r)
  BY <1>5 DEF State
<1>7. NoneOn(cs, m.plci) /\ \A k \in DOMAIN cs : cs[k].id # m.id
  <2>1. \A k \in DOMAIN cs : cs[k].id # m.id
    BY <1>1, <1>3 DEF Inv, Filed
  <2>2. \A k \in DOMAIN cs : l[cs[k].plci].id = cs[k].id
    BY <1>1 DEF Inv, Listed
  <2> QED  BY <1>4, <2>1, <2>2 DEF NoneOn
<1>8. /\ ds \in Seq(CallRecords(g)) /\ 1 \in DOMAIN ds /\ ds[1] = c
      /\ \A k \in DOMAIN ds : k = 1 \/ (k # 1 /\ k - 1 \in DOMAIN cs /\ ds[k] = cs[k - 1])
      /\ \A k \in DOMAIN cs : k + 1 \in DOMAIN ds /\ ds[k + 1] = cs[k]
      /\ \A k \in DOMAIN ds : k \in Nat
  <2>1. cs \in Seq(CallRecords(g)) /\ <<c>> \in Seq(CallRecords(g)) /\ Len(<<c>>) = 1 /\ <<c>>[1] = c
    BY <1>1 DEF Shape
  <2>2. /\ ds \in Seq(CallRecords(g)) /\ Len(cs) \in Nat /\ DOMAIN ds = 1 .. 1 + Len(cs)
        /\ DOMAIN cs = 1 .. Len(cs)
    BY <2>1, ConcatOf
  <2>3. ds[1] = c
    BY <2>1
  <2>4. ASSUME NEW k \in 1 .. Len(cs)  PROVE ds[k + 1] = cs[k]
    BY <2>1, <2>4
  <2> HIDE DEF ds
  <2>5. ASSUME NEW k \in DOMAIN ds, k # 1  PROVE k - 1 \in DOMAIN cs /\ ds[k] = cs[k - 1]
    <3>1. k - 1 \in 1 .. Len(cs) /\ (k - 1) + 1 = k
      BY <2>2, <2>5
    <3>2. ds[(k - 1) + 1] = cs[k - 1]
      BY <2>4, <3>1
    <3> QED  BY <2>2, <3>1, <3>2
  <2> QED  BY <2>2, <2>3, <2>4, <2>5
<1> HIDE DEF ds
<1>9. Shape(g, t, <<>>, l, ds, f, r)
  BY <1>6, <1>8 DEF Shape
<1>10. Numbered(l, r) /\ Ordered(t) /\ Playing(l) /\ Recorded(t, <<>>, l, f)
  BY <1>6 DEF Inv
<1>11. Listed(l, ds)
  <2>1. ASSUME NEW k \in DOMAIN ds  PROVE l[ds[k].plci].id = ds[k].id
    BY <1>1, <1>4, <1>8 DEF Inv, Listed
  <2>2. ASSUME NEW j \in DOMAIN ds, NEW k \in DOMAIN ds, ds[j].plci = ds[k].plci  PROVE j = k
    <3>1. CASE j = 1 /\ k = 1
      BY <3>1
    <3>2. CASE j = 1 /\ k # 1
      <4>1. ds[j].plci = m.plci /\ k - 1 \in DOMAIN cs /\ ds[k] = cs[k - 1]
        BY <1>8, <3>2
      <4> QED  BY <1>7, <2>2, <4>1 DEF NoneOn
    <3>3. CASE j # 1 /\ k = 1
      <4>1. ds[k].plci = m.plci /\ j - 1 \in DOMAIN cs /\ ds[j] = cs[j - 1]
        BY <1>8, <3>3
      <4> QED  BY <1>7, <2>2, <4>1 DEF NoneOn
    <3>4. CASE j # 1 /\ k # 1
      <4>1. j - 1 \in DOMAIN cs /\ k - 1 \in DOMAIN cs /\ cs[j - 1].plci = cs[k - 1].plci
        BY <1>8, <2>2, <3>4
      <4>2. j - 1 = k - 1
        BY <1>1, <4>1 DEF Inv, Listed
      <4> QED  BY <1>8, <4>2
    <3> QED  BY <3>1, <3>2, <3>3, <3>4
  <2> QED  BY <2>1, <2>2 DEF Listed
<1>12. Told(t, l, ds, r)
  <2>1. ASSUME NEW k \in DOMAIN t, Tells(t[k]), NoneOn(cs, t[k].plci), t[k].plci # m.plci
        PROVE  NoneOn(ds, t[k].plci)
    BY <1>8, <2>1 DEF NoneOn
  <2>2. ASSUME NEW k \in DOMAIN t, Tells(t[k]), t[k].plci = m.plci
        PROVE  t[k].id = l[t[k].plci].id
    <3>1. k + 1 \in DOMAIN s /\ t[k] = s[k + 1] /\ 1 < k + 1
      BY DEF Rest
    <3>2. Before(m, s[k + 1])
      BY <1>1, <1>3, <2>2, <3>1 DEF Inv, Ordered
    <3> QED  BY <1>4, <2>2, <3>1, <3>2 DEF Before
  <2> QED  BY <1>6, <2>1, <2>2 DEF Inv, Told
<1>13. Replied(t, <<>>, l, ds) /\ Queued(<<>>, ds)
  BY DEF Replied, Queued
<1>14. Begun(t, <<>>, l, ds)
  <2>1. \A k \in DOMAIN ds : ds[k] = c \/ \E j \in DOMAIN cs : ds[k] = cs[j]
    BY <1>8
  <2> QED  BY <1>6, <2>1 DEF Inv, Begun
<1>15. Counted(t, <<>>, l, ds)
  <2>1. Tally(l[m.plci].st, 0, 0, Len(l[m.plci].played), Len(l[m.plci].unconf),
              Number(<<>>, Reqs(m.id)), Number(t, Confs(m.id)))
    <3>1. Beginning(s, l, m.plci)
      BY <1>3 DEF Beginning, Starts
    <3>2. /\ l[m.plci].unconf = <<>> /\ l[m.plci].played = <<>>
          /\ \A k \in DOMAIN s : s[k].type = "DATAB3_CONF" => s[k].id # m.id
      BY <1>1, <1>4, <3>1 DEF Inv, Begun
    <3>3. \A k \in DOMAIN t : t[k] \notin Confs(m.id)
      BY <3>2 DEF Rest, Confs
    <3>4. Number(t, Confs(m.id)) = 0
      <4>1. t \in Seq(FromBrick)
        BY DEF Rest
      <4> QED  BY <3>3, <4>1, NumberType
    <3>5. Number(<<>>, Reqs(m.id)) = 0 /\ Len(<<>>) = 0
      BY NumberOne
    <3>6. Tally(l[m.plci].st, 0, 0, 0, 0, 0, 0)
      BY DEF Tally
    <3> QED  BY <3>2, <3>4, <3>5, <3>6
  <2>2. ASSUME NEW k \in DOMAIN ds
        PROVE  LET e == ds[k]  x == l[e.plci]
               IN  Tally(x.st, e.NotAcknowledged, e.usDataHandle, Len(x.played), Len(x.unconf),
                         Number(<<>>, Reqs(e.id)), Number(t, Confs(e.id)))
    <3>1. CASE k = 1
      BY <1>8, <2>1, <3>1 DEF Fresh
    <3>2. CASE k # 1
      BY <1>6, <1>8, <3>2 DEF Inv, Counted
    <3> QED  BY <3>1, <3>2
  <2> QED  BY <2>2 DEF Counted
<1>16. Filed(t, ds, f, r)
  <2>1. Filed(s, cs, f, r)
    BY <1>1 DEF Inv
  <2>2. \A k \in DOMAIN ds : ds[k] = c \/ \E j \in DOMAIN cs : ds[k] = cs[j]
    BY <1>8
  <2>3. \A k \in DOMAIN cs : \E j \in DOMAIN ds : ds[j] = cs[k]
    BY <1>8
  <2>4. f[m.id] = Empty
    BY <1>3, <2>1 DEF Filed
  <2>5. ASSUME NEW i \in CallIds, \A k \in DOMAIN ds : ds[k].id # i
        PROVE  f[i].size = Len(f[i].data)
    <3>1. \A k \in DOMAIN cs : cs[k].id # i
      BY <2>3, <2>5
    <3> QED  BY <2>1, <3>1 DEF Filed
  <2>6. \A k \in DOMAIN ds : ds[k].rxfp # "open" => f[ds[k].id] = Empty
    BY <2>1, <2>2, <2>4 DEF Filed
  <2>7. ASSUME NEW j \in DOMAIN t, t[j].type = "CONNECT_IND"
        PROVE  f[t[j].id] = Empty /\ \A k \in DOMAIN ds : ds[k].id # t[j].id
    <3>1. j + 1 \in DOMAIN s /\ t[j] = s[j + 1] /\ 1 < j + 1
      BY DEF Rest
    <3>2. f[t[j].id] = Empty /\ \A k \in DOMAIN cs : cs[k].id # t[j].id
      BY <2>1, <2>7, <3>1 DEF Filed
    <3>3. t[j].id # m.id
      <4>1. Tells(t[j])
        BY <2>7 DEF Tells
      <4>2. Before(m, t[j])
        BY <1>1, <1>3, <3>1, <4>1 DEF Inv, Ordered
      <4>3. t[j].plci = m.plci => t[j].id # m.id
        BY <2>7, <4>2 DEF Before
      <4>4. \A o \in Plcis : t[j].id = l[o].id => o = t[j].plci
        BY <1>6, <4>1 DEF Inv, Told
      <4> QED  BY <1>4, <4>3, <4>4
    <3> QED  BY <2>2, <3>2, <3>3
  <2> QED  BY <2>1, <2>5, <2>6, <2>7 DEF Filed
<1>17. State(g, t, <<>>, l, ds, f, r)
  BY <1>9, <1>10, <1>11, <1>12, <1>13, <1>14, <1>15, <1>16 DEF State, Inv
<1> QED  BY <1>17 DEF ds

\* A call is taken off the list, its file gets its size.
Sized(f, h, i) ==
    /\ h \in [CallIds -> Files]
    /\ \A j \in CallIds : j # i => h[j] = f[j]
    /\ h[i].data = f[i].data /\ h[i].size = Len(f[i].data)
LEMMA Frees ==
    ASSUME NEW g, NEW s, NEW l, NEW cs, NEW f, NEW r, State(g, s, <<>>, l, cs, f, r),
           NEW k \in DOMAIN cs, NEW ds, Without(CallRecords(g), cs, ds, k),
           NEW h, Sized(f, h, cs[k].id)
    PROVE  State(g, s, <<>>, l, ds, h, r) /\ NoneOn(ds, cs[k].plci)
<1>1. Shape(g, s, <<>>, l, cs, f, r) /\ Inv(s, <<>>, l, cs, f, r)
  BY DEF State
<1>2. StreamOk(s) /\ LineOk(l) /\ ListOk(g, cs) /\ r \in Nat
  BY <1>1, Elements
<1>3. \A j \in DOMAIN ds : \E i \in DOMAIN cs : i # k /\ ds[j] = cs[i]
  <2>1. k \in Nat /\ DOMAIN cs = 1 .. Len(cs) /\ Len(cs) \in Nat
    BY <1>1, <1>2 DEF ListOk, Shape
  <2>2. ASSUME NEW j \in DOMAIN ds  PROVE \E i \in DOMAIN cs : i # k /\ ds[j] = cs[i]
    <3>1. \/ j \in DOMAIN cs /\ j < k /\ ds[j] = cs[j]
          \/ j + 1 \in DOMAIN cs /\ j + 1 > k /\ ds[j] = cs[j + 1]
      BY DEF Without
    <3> QED  BY <2>1, <3>1
  <2> QED  BY <2>2
<1>4. \A j \in DOMAIN cs : j # k => \E i \in DOMAIN ds : ds[i] = cs[j]
  BY DEF Without
<1>5. Shape(g, s, <<>>, l, ds, h, r)
  BY <1>1 DEF Shape, Without, Sized
<1>6. Numbered(l, r) /\ Ordered(s) /\ Playing(l)
  BY <1>1 DEF Inv
<1>7. /\ cs[k].plci \in Plcis /\ l[cs[k].plci].id = cs[k].id /\ cs[k].id \in CallIds /\ cs[k].id # 0
      /\ \A j \in DOMAIN cs : j # k => cs[j].id # cs[k].id /\ cs[j].plci # cs[k].plci
  <2>1. /\ cs[k].plci \in Plcis /\ l[cs[k].plci].id = cs[k].id /\ cs[k].id # 0 /\ cs[k].id \in CallIds
    BY <1>1, <1>2 DEF Inv, Listed, ListOk
  <2>2. \A j \in DOMAIN cs : cs[j].plci = cs[k].plci => j = k
    BY <1>1 DEF Inv, Listed
  <2>3. ASSUME NEW j \in DOMAIN cs, cs[j].id = cs[k].id  PROVE cs[j].plci = cs[k].plci
    <3>1. cs[j].plci \in Plcis /\ l[cs[j].plci].id = cs[k].id
      BY <1>1, <1>2, <2>3 DEF Inv, Listed, ListOk
    <3> QED  BY <1>1, <2>1, <3>1 DEF Inv, Numbered
  <2> QED  BY <2>1, <2>2, <2>3
<1>8. NoneOn(ds, cs[k].plci)
  BY <1>3, <1>7 DEF NoneOn
<1>9. Listed(l, ds)
  <2>1. \A j \in DOMAIN ds : l[ds[j].plci].id = ds[j].id
    BY <1>1, <1>3 DEF Inv, Listed
  <2>2. ASSUME NEW i \in DOMAIN ds, NEW j \in DOMAIN ds, ds[i].plci = ds[j].plci  PROVE i = j
    <3>1. k \in Nat /\ DOMAIN cs = 1 .. Len(cs) /\ Len(cs) \in Nat
      BY <1>1, <1>2 DEF ListOk, Shape
    <3>2. DOMAIN ds = 1 .. Len(ds) /\ Len(ds) \in Nat
      BY <1>5 DEF Shape
    <3>3. /\ \/ i \in DOMAIN cs /\ i < k /\ ds[i] = cs[i]
             \/ i + 1 \in DOMAIN cs /\ i + 1 > k /\ ds[i] = cs[i + 1]
          /\ \/ j \in DOMAIN cs /\ j < k /\ ds[j] = cs[j]
             \/ j + 1 \in DOMAIN cs /\ j + 1 > k /\ ds[j] = cs[j + 1]
      BY DEF Without
    <3>4. \A a, b \in DOMAIN cs : cs[a].plci = cs[b].plci => a = b
      BY <1>1 DEF Inv, Listed
    <3> QED  BY <2>2, <3>1, <3>2, <3>3, <3>4
  <2> QED  BY <2>1, <2>2 DEF Listed
<1>10. Told(s, l, ds, r)
  <2>1. \A o : NoneOn(cs, o) => NoneOn(ds, o)
    BY <1>3 DEF NoneOn
  <2> QED  BY <1>1, <2>1 DEF Inv, Told
<1>11. Replied(s, <<>>, l, ds) /\ Queued(<<>>, ds)
  BY DEF Replied, Queued
<1>12. Begun(s, <<>>, l, ds)
  BY <1>1, <1>3 DEF Inv, Begun
<1>13. Counted(s, <<>>, l, ds)
  BY <1>1, <1>3 DEF Inv, Counted
<1>14. Filed(s, ds, h, r)
  <2>1. Filed(s, cs, f, r)
    BY <1>1 DEF Inv
  <2>2. \A j \in CallIds : j # cs[k].id => h[j] = f[j]
    BY DEF Sized
  <2>3. ASSUME NEW i \in CallIds, \A j \in DOMAIN ds : ds[j].id # i
        PROVE  h[i].size = Len(h[i].data)
    <3>1. CASE i = cs[k].id
      BY <3>1 DEF Sized
    <3>2. CASE i # cs[k].id
      <4>1. \A j \in DOMAIN cs : cs[j].id # i
        BY <1>4, <2>3, <3>2
      <4> QED  BY <2>1, <2>2, <3>2, <4>1 DEF Filed
    <3> QED  BY <3>1, <3>2
  <2>4. ASSUME NEW j \in DOMAIN ds, ds[j].rxfp # "open"  PROVE h[ds[j].id] = Empty
    <3>1. PICK i \in DOMAIN cs : i # k /\ ds[j] = cs[i]
      BY <1>3
    <3>2. cs[i].id # cs[k].id /\ cs[i].id \in CallIds
      BY <1>2, <1>7, <3>1 DEF ListOk
    <3> QED  BY <2>1, <2>2, <2>4, <3>1, <3>2 DEF Filed
  <2>5. ASSUME NEW i \in CallIds, i > r  PROVE h[i] = Empty
    <3>1. cs[k].id <= r
      BY <1>1, <1>7 DEF Inv, Numbered
    <3>2. i # cs[k].id
      BY <1>2, <2>5, <3>1 DEF CallIds, ListOk
    <3> QED  BY <2>1, <2>2, <2>5, <3>2 DEF Filed
  <2>6. ASSUME NEW j \in DOMAIN s, s[j].type = "CONNECT_IND"
        PROVE  h[s[j].id] = Empty /\ \A i \in DOMAIN ds : ds[i].id # s[j].id
    <3>1. f[s[j].id] = Empty /\ \A i \in DOMAIN cs : cs[i].id # s[j].id
      BY <2>1, <2>6 DEF Filed
    <3>2. s[j].id \in CallIds
      BY <1>2, <2>6 DEF StreamOk, IndTypes
    <3> QED  BY <1>3, <2>2, <3>1, <3>2
  <2> QED  BY <2>3, <2>4, <2>5, <2>6 DEF Filed
<1>15. Recorded(s, <<>>, l, h)
  <2>1. ASSUME NEW p \in Plcis, l[p].id # 0  PROVE h[l[p].id].data = f[l[p].id].data
    <3>1. l[p].id \in CallIds
      BY <1>2, <2>1 DEF LineOk
    <3> QED  BY <3>1 DEF Sized
  <2> QED  BY <1>1, <2>1 DEF Inv, Recorded
<1> QED  BY <1>5, <1>6, <1>8, <1>9, <1>10, <1>11, <1>12, <1>13, <1>14, <1>15 DEF State, Inv

\* The response to the end of a call, which the program does not have any more.
LEMMA PutsEnd ==
    ASSUME NEW g, NEW s, NEW l, NEW cs, NEW f, NEW r, State(g, s, <<>>, l, cs, f, r),
           NEW a \in FromProg, a.type = "DISCONNECT_RESP", a.id = l[a.plci].id,
           l[a.plci].st = "clearing", NoneOn(cs, a.plci),
           \A j \in DOMAIN s : Tells(s[j]) /\ s[j].plci = a.plci => s[j].type \in ConfTypes
    PROVE  State(g, s, <<a>>, l, cs, f, r)
<1>1. Shape(g, s, <<>>, l, cs, f, r) /\ Inv(s, <<>>, l, cs, f, r)
  BY DEF State
<1>2. <<a>> \in Seq(FromProg) /\ Len(<<a>>) = 1 /\ \A k \in DOMAIN <<a>> : <<a>>[k] = a
  OBVIOUS
<1>3. Shape(g, s, <<a>>, l, cs, f, r)
  BY <1>1, <1>2 DEF Shape
<1>4. /\ Numbered(l, r) /\ Listed(l, cs) /\ Told(s, l, cs, r) /\ Ordered(s) /\ Playing(l)
      /\ Filed(s, cs, f, r)
  BY <1>1 DEF Inv
<1>5. Replied(s, <<a>>, l, cs)
  <2>1. ASSUME NEW j \in DOMAIN s, s[j].type = "CONNECT_IND"  PROVE s[j].plci # a.plci
    BY <2>1 DEF Tells, ConfTypes
  <2> QED  BY <1>2, <2>1 DEF Replied
<1>6. Begun(s, <<a>>, l, cs)
  BY <1>1, <1>2 DEF Inv, Begun
<1>7. Counted(s, <<a>>, l, cs)
  <2>1. ASSUME NEW i  PROVE Number(<<a>>, Reqs(i)) = Number(<<>>, Reqs(i))
    <3>1. \A k \in DOMAIN <<a>> : <<a>>[k] \notin Reqs(i)
      BY <1>2 DEF Reqs
    <3>2. Number(<<a>>, Reqs(i)) = 0
      BY <1>2, <3>1, NumberType
    <3>3. Number(<<>>, Reqs(i)) = 0
      BY NumberOne
    <3> QED  BY <3>2, <3>3
  <2> QED  BY <1>1, <2>1 DEF Inv, Counted
<1>8. Queued(<<a>>, cs)
  BY <1>2 DEF Queued
<1>9. Recorded(s, <<a>>, l, f)
  <2>1. ASSUME NEW o \in Plcis, NEW b, Heard(<<a>>, l[o], o, b)  PROVE Heard(<<>>, l[o], o, b)
    BY <1>2, <2>1 DEF Heard
  <2>2. ASSUME NEW o \in Plcis, l[o].id # 0  PROVE Whole(s, <<a>>, l[o], o, f[l[o].id].data)
    <3>1. Whole(s, <<>>, l[o], o, f[l[o].id].data)
      BY <1>1, <2>2 DEF Inv, Recorded
    <3> QED  BY <2>1, <3>1 DEF Whole
  <2> QED  BY <2>2 DEF Recorded
<1> QED  BY <1>3, <1>4, <1>5, <1>6, <1>7, <1>8, <1>9 DEF State, Inv

\* A block of the caller is acknowledged: it has been written, or the file of the call
\* is empty.
Stored(cs, f, h, i, b) ==
    /\ h \in [CallIds -> Files]
    /\ \A j \in CallIds : j # i => h[j] = f[j]
    /\ \/ h[i] = f[i] /\ f[i] = Empty
       \/ /\ \E k \in DOMAIN cs : cs[k].id = i /\ cs[k].rxfp = "open"
          /\ h[i].data = Append(f[i].data, b)
LEMMA Stores ==
    ASSUME NEW g, NEW s, NEW l, NEW cs, NEW f, NEW r, State(g, s, <<>>, l, cs, f, r),
           NEW t, NEW m, Rest(FromBrick, s, t, m), m.type = "DATAB3_IND",
           NEW a \in FromProg, a.type = "DATAB3_RESP", a.plci = m.plci, a.id = m.id, a.arg = m.arg,
           NEW h, Stored(cs, f, h, m.id, m.arg)
    PROVE  State(g, t, <<a>>, l, cs, h, r)
<1>1. Shape(g, s, <<>>, l, cs, f, r) /\ Inv(s, <<>>, l, cs, f, r)
  BY DEF State
<1>2. StreamOk(s) /\ LineOk(l) /\ ListOk(g, cs) /\ r \in Nat
  BY <1>1, Elements
<1>3. 1 \in DOMAIN s /\ s[1] = m /\ Tells(m) /\ m.arg \in Nat
  BY <1>2 DEF Rest, Tells, StreamOk
<1>4. /\ m.plci \in Plcis /\ m.id \in CallIds /\ m.id # 0 /\ m.id <= r /\ m.id = l[m.plci].id
      /\ \A k \in DOMAIN t : t[k].plci = m.plci => t[k].type # "CONNECT_IND"
  BY <1>3, HeadFacts DEF IndTypes
<1>5. State(g, t, <<>>, l, cs, f, r)
  BY TakesProg
<1>6. Shape(g, t, <<>>, l, cs, f, r) /\ Inv(t, <<>>, l, cs, f, r)
  BY <1>5 DEF State
<1>7. <<a>> \in Seq(FromProg) /\ Len(<<a>>) = 1 /\ \A k \in DOMAIN <<a>> : <<a>>[k] = a
  OBVIOUS
<1>8. Shape(g, t, <<a>>, l, cs, h, r)
  BY <1>6, <1>7 DEF Shape, Stored
<1>9. Numbered(l, r) /\ Listed(l, cs) /\ Told(t, l, cs, r) /\ Ordered(t) /\ Playing(l)
  BY <1>6 DEF Inv
<1>10. Replied(t, <<a>>, l, cs)
  BY <1>4, <1>7 DEF Replied
<1>11. Begun(t, <<a>>, l, cs)
  BY <1>6, <1>7 DEF Inv, Begun
<1>12. Counted(t, <<a>>, l, cs)
  <2>1. ASSUME NEW i  PROVE Number(<<a>>, Reqs(i)) = Number(<<>>, Reqs(i))
    <3>1. \A k \in DOMAIN <<a>> : <<a>>[k] \notin Reqs(i)
      BY <1>7 DEF Reqs
    <3>2. Number(<<a>>, Reqs(i)) = 0
      BY <1>7, <3>1, NumberType
    <3>3. Number(<<>>, Reqs(i)) = 0
      BY NumberOne
    <3> QED  BY <3>2, <3>3
  <2> QED  BY <1>6, <2>1 DEF Inv, Counted
<1>13. Queued(<<a>>, cs)
  BY <1>7 DEF Queued
<1>14. Filed(t, cs, h, r)
  <2>1. Filed(t, cs, f, r)
    BY <1>6 DEF Inv
  <2>2. CASE h[m.id] = f[m.id]
    <3>1. \A i \in CallIds : h[i] = f[i]
      BY <2>2 DEF Stored
    <3>2. \A k \in DOMAIN cs : cs[k].id \in CallIds
      BY <1>2 DEF ListOk
    <3>3. \A k \in DOMAIN t : t[k].type = "CONNECT_IND" => t[k].id \in CallIds
      <4>1. StreamOk(t)
        BY <1>6, Elements
      <4> QED  BY <4>1 DEF StreamOk, IndTypes
    <3> QED  BY <2>1, <3>1, <3>2, <3>3 DEF Filed
  <2>3. ASSUME NEW k \in DOMAIN cs, cs[k].id = m.id, cs[k].rxfp = "open"
        PROVE  Filed(t, cs, h, r)
    <3>1. \A i \in CallIds : i # m.id => h[i] = f[i]
      BY DEF Stored
    <3>2. \A j \in DOMAIN cs : cs[j].id \in CallIds /\ (j # k => cs[j].id # m.id)
      <4>1. \A j \in DOMAIN cs : cs[j].id \in CallIds /\ cs[j].plci \in Plcis
        BY <1>2 DEF ListOk
      <4>2. ASSUME NEW j \in DOMAIN cs, cs[j].id = m.id  PROVE j = k
        <5>1. l[cs[j].plci].id = m.id /\ l[cs[k].plci].id = m.id
          BY <1>1, <2>3, <4>2 DEF Inv, Listed
        <5>2. cs[j].plci = cs[k].plci
          BY <1>1, <1>4, <4>1, <5>1 DEF Inv, Numbered
        <5> QED  BY <1>1, <5>2 DEF Inv, Listed
      <4> QED  BY <4>1, <4>2
    <3>3. \A j \in DOMAIN t : t[j].type = "CONNECT_IND" => t[j].id \in CallIds /\ t[j].id # m.id
      <4>1. StreamOk(t)
        BY <1>6, Elements
      <4>2. \A j \in DOMAIN t : t[j].type = "CONNECT_IND" => t[j].id # m.id
        BY <2>1, <2>3 DEF Filed
      <4> QED  BY <4>1, <4>2 DEF StreamOk, IndTypes
    <3>4. \A i \in CallIds : i > r => i # m.id
      BY <1>2, <1>4 DEF CallIds
    <3>5. \A i \in CallIds : (\A j \in DOMAIN cs : cs[j].id # i) => i # m.id
      BY <2>3
    <3>6. \A i \in CallIds : (\A j \in DOMAIN cs : cs[j].id # i) => h[i].size = Len(h[i].data)
      BY <2>1, <3>1, <3>5 DEF Filed
    <3>7. \A j \in DOMAIN cs : cs[j].rxfp # "open" => h[cs[j].id] = Empty
      BY <2>1, <2>3, <3>1, <3>2 DEF Filed
    <3>8. \A i \in CallIds : i > r => h[i] = Empty
      BY <2>1, <3>1, <3>4 DEF Filed
    <3>9. \A j \in DOMAIN t : t[j].type = "CONNECT_IND" =>
             h[t[j].id] = Empty /\ \A i \in DOMAIN cs : cs[i].id # t[j].id
      BY <2>1, <3>1, <3>3 DEF Filed
    <3> QED  BY <3>6, <3>7, <3>8, <3>9 DEF Filed
  <2> QED  BY <2>2, <2>3 DEF Stored
<1>15. Recorded(t, <<a>>, l, h)
  <2>1. ASSUME NEW o \in Plcis, l[o].id # 0, o # m.plci
        PROVE  Whole(t, <<a>>, l[o], o, h[l[o].id].data)
    <3>1. Whole(t, <<>>, l[o], o, f[l[o].id].data)
      BY <1>6, <2>1 DEF Inv, Recorded
    <3>2. l[o].id # m.id /\ l[o].id \in CallIds
      BY <1>1, <1>2, <1>4, <2>1 DEF Inv, Numbered, LineOk
    <3>3. h[l[o].id] = f[l[o].id]
      BY <3>2 DEF Stored
    <3>4. \A b : Heard(<<a>>, l[o], o, b) => Heard(<<>>, l[o], o, b)
      BY <1>7, <2>1 DEF Heard
    <3> QED  BY <3>1, <3>3, <3>4 DEF Whole
  <2>2. Whole(t, <<a>>, l[m.plci], m.plci, h[m.id].data)
    <3> DEFINE p == m.plci
               x == l[p]
               old == f[m.id].data
               new == h[m.id].data
               b == m.arg
    <3> SUFFICES Whole(t, <<a>>, x, p, new)
      OBVIOUS
    <3>1. Whole(s, <<>>, x, p, old)
      BY <1>1, <1>4 DEF Inv, Recorded
    <3>2. \A c : Passed(s, x, p, c) => Passed(t, x, p, c) /\ c < b
      <4>1. \A c : Passed(s, x, p, c) => c < b
        BY <1>3 DEF Passed
      <4>2. \A c : Passed(s, x, p, c) => Passed(t, x, p, c)
        BY DEF Passed, Rest
      <4> QED  BY <4>1, <4>2
    <3>3. Passed(t, x, p, b)
      <4>1. b <= x.sent
        BY <1>1, <1>3 DEF Inv, Told
      <4>2. ASSUME NEW k \in DOMAIN t, t[k].type = "DATAB3_IND", t[k].plci = p  PROVE b < t[k].arg
        <5>1. k + 1 \in DOMAIN s /\ t[k] = s[k + 1] /\ 1 < k + 1
          BY DEF Rest
        <5>2. Before(m, s[k + 1])
          BY <1>1, <1>3, <4>2, <5>1 DEF Inv, Ordered, Tells
        <5> QED  BY <4>2, <5>1, <5>2 DEF Before
      <4> QED  BY <4>1, <4>2 DEF Passed
    <3>4. \A c : Heard(<<a>>, x, p, c) => Heard(<<>>, x, p, c) \/ c = b
      BY <1>7 DEF Heard
    <3>5. old \in Seq(Nat) /\ x.acked \subseteq Nat
      BY <1>1, <1>2, <1>4 DEF Shape, Files, LineOk
    <3>6. CASE f[m.id] = Empty /\ h[m.id] = f[m.id]
      <4>1. old = <<>> /\ new = <<>>
        BY <3>6 DEF Empty
      <4> HIDE DEF new, old, x, p, b
      <4> QED  BY <3>1, <3>2, <3>3, <3>4, <4>1 DEF Whole
    <3>7. CASE new = Append(old, b)
      <4>1. /\ DOMAIN new = 1 .. Len(old) + 1 /\ DOMAIN old = 1 .. Len(old) /\ Len(old) \in Nat
            /\ \A n \in DOMAIN old : new[n] = old[n] /\ old[n] \in Nat
            /\ new[Len(old) + 1] = b
        <5> HIDE DEF old, new
        <5> QED  BY <1>3, <3>5, <3>7
      <4>2. b \in Nat
        BY <1>3
      <4> HIDE DEF new, old, x, p, b
      <4>3. \A n \in DOMAIN new : n \in DOMAIN old \/ n = Len(old) + 1
        BY <4>1
      <4>4. \A n \in DOMAIN old : Passed(s, x, p, old[n])
        BY <3>1 DEF Whole
      <4>5. ASSUME NEW n \in DOMAIN new, NEW k \in DOMAIN new, n < k  PROVE new[n] < new[k]
        <5>1. n \in DOMAIN old
          BY <4>1, <4>5
        <5>2. CASE k \in DOMAIN old
          BY <3>1, <4>1, <4>5, <5>1, <5>2 DEF Whole
        <5>3. CASE k = Len(old) + 1
          BY <3>2, <4>1, <4>4, <5>1, <5>3
        <5> QED  BY <4>3, <5>2, <5>3
      <4>6. \A n \in DOMAIN new : Passed(t, x, p, new[n])
        BY <3>2, <3>3, <4>1, <4>3, <4>4
      <4>7. ASSUME NEW c \in Nat, Heard(<<a>>, x, p, c)
            PROVE  /\ Passed(t, x, p, c)
                   /\ \A n \in DOMAIN new : c > new[n] => \E k \in DOMAIN new : new[k] = c
        <5>1. CASE c = b
          <6>1. Len(old) + 1 \in DOMAIN new
            BY <4>1
          <6> QED  BY <3>3, <4>1, <5>1, <6>1
        <5>2. CASE Heard(<<>>, x, p, c)
          <6>1. /\ Passed(s, x, p, c)
                /\ \A n \in DOMAIN old : c > old[n] => \E k \in DOMAIN old : old[k] = c
            BY <3>1, <5>2 DEF Whole
          <6>2. c < b /\ Passed(t, x, p, c)
            BY <3>2, <6>1
          <6>3. ASSUME NEW n \in DOMAIN new, c > new[n]  PROVE \E k \in DOMAIN new : new[k] = c
            <7>1. n # Len(old) + 1
              BY <4>1, <4>2, <6>2, <6>3
            <7>2. n \in DOMAIN old /\ c > old[n]
              BY <4>1, <4>3, <6>3, <7>1
            <7>3. PICK k \in DOMAIN old : old[k] = c
              BY <6>1, <7>2
            <7>4. k \in DOMAIN new /\ new[k] = c
              BY <4>1, <7>3
            <7> QED  BY <7>4
          <6> QED  BY <6>2, <6>3
        <5> QED  BY <3>4, <4>7, <5>1, <5>2
      <4> QED  BY <4>5, <4>6, <4>7 DEF Whole
    <3>8. \/ f[m.id] = Empty /\ h[m.id] = f[m.id]
          \/ new = Append(old, b)
      BY DEF Stored
    <3> QED  BY <3>6, <3>7, <3>8
  <2> QED  BY <1>4, <2>1, <2>2 DEF Recorded
<1> QED  BY <1>8, <1>9, <1>10, <1>11, <1>12, <1>13, <1>14, <1>15 DEF State, Inv

--------------------------------------------------------------------------------
(* The brick takes a message *)

LEMMA OneLess ==
    ASSUME NEW a \in Nat, NEW n \in Nat, NEW u \in Nat, NEW k \in Nat, a + (n + 1) = u + (k + 1)
    PROVE  a + n = u + k
OBVIOUS

\* The brick takes a message: the others stay in their places.
LEMMA RestKeeps ==
    ASSUME NEW g, NEW s, NEW q, NEW l, NEW cs, NEW f, NEW r, State(g, s, q, l, cs, f, r),
           NEW t, NEW m, Rest(FromProg, q, t, m)
    PROVE  /\ Shape(g, s, t, l, cs, f, r)
           /\ Replied(s, t, l, cs) /\ Begun(s, t, l, cs) /\ Queued(t, cs)
           /\ \A x, p, b : Heard(t, x, p, b) => Heard(q, x, p, b)
<1>1. Shape(g, s, q, l, cs, f, r) /\ Inv(s, q, l, cs, f, r)
  BY DEF State
<1>2. Shape(g, s, t, l, cs, f, r)
  BY <1>1 DEF Shape, Rest
<1>3. /\ \A k \in DOMAIN t : k + 1 \in DOMAIN q /\ t[k] = q[k + 1] /\ k \in Nat /\ k >= 1
      /\ Len(q) = Len(t) + 1 /\ Len(t) \in Nat /\ DOMAIN t = 1 .. Len(t)
  BY DEF Rest
<1>4. Replied(s, t, l, cs)
  <2>1. \A k \in DOMAIN t : t[k].type # "DISCONNECT_RESP"
    BY <1>1, <1>3 DEF Inv, Replied
  <2>2. \A k \in DOMAIN t : \E j \in DOMAIN q : t[k] = q[j]
    BY <1>3
  <2> QED  BY <1>1, <2>1, <2>2 DEF Inv, Replied
<1>5. Begun(s, t, l, cs)
  BY <1>1, <1>3 DEF Inv, Begun
<1>6. Queued(t, cs)
  <2>1. ASSUME NEW k \in DOMAIN t, t[k].type = "DATAB3_REQ"
        PROVE  /\ \A j \in DOMAIN t : j > k => t[j].type = "DATAB3_REQ"
               /\ \E c \in DOMAIN cs : cs[c].id = t[k].id /\ t[k].arg + Len(t) = cs[c].usDataHandle + k
    <3>1. k + 1 \in DOMAIN q /\ t[k] = q[k + 1] /\ k \in Nat
      BY <1>3
    <3>2. \A j \in DOMAIN q : j > k + 1 => q[j].type = "DATAB3_REQ"
      BY <1>1, <2>1, <3>1 DEF Inv, Queued
    <3>3. PICK c \in DOMAIN cs : cs[c].id = t[k].id /\ t[k].arg + Len(q) = cs[c].usDataHandle + (k + 1)
      BY <1>1, <2>1, <3>1 DEF Inv, Queued
    <3>4. t[k].arg \in Nat /\ cs[c].usDataHandle \in Nat
      <4>1. ReplyOk(t) /\ ListOk(g, cs)
        BY <1>2, Elements
      <4> QED  BY <4>1 DEF ReplyOk, ListOk
    <3>5. t[k].arg + Len(t) = cs[c].usDataHandle + k
      <4>1. t[k].arg + (Len(t) + 1) = cs[c].usDataHandle + (k + 1)
        BY <1>3, <3>3
      <4>2. Len(t) \in Nat /\ k \in Nat
        BY <1>3
      <4> QED  BY <3>4, <4>1, <4>2, OneLess
    <3>6. \A j \in DOMAIN t : j > k => t[j].type = "DATAB3_REQ"
      BY <1>3, <3>1, <3>2
    <3> QED  BY <3>3, <3>5, <3>6
  <2> QED  BY <2>1 DEF Queued
<1>7. ASSUME NEW x, NEW p, NEW b, Heard(t, x, p, b)  PROVE Heard(q, x, p, b)
  BY <1>3, <1>7 DEF Heard
<1> QED  BY <1>2, <1>4, <1>5, <1>6, <1>7

\* The brick takes a message that is no block and only answers to it.
LEMMA TakesPlain ==
    ASSUME NEW g, NEW s, NEW q, NEW l, NEW cs, NEW f, NEW r, State(g, s, q, l, cs, f, r),
           NEW t, NEW m, Rest(FromProg, q, t, m), m.type # "DATAB3_REQ"
    PROVE  State(g, s, t, l, cs, f, r)
<1>1. Shape(g, s, q, l, cs, f, r) /\ Inv(s, q, l, cs, f, r)
  BY DEF State
<1>2. /\ Numbered(l, r) /\ Listed(l, cs) /\ Told(s, l, cs, r) /\ Ordered(s) /\ Playing(l)
      /\ Filed(s, cs, f, r)
  BY <1>1 DEF Inv
<1>3. Counted(s, t, l, cs)
  <2>1. ASSUME NEW i  PROVE Number(t, Reqs(i)) = Number(q, Reqs(i))
    <3>1. m \notin Reqs(i)
      BY DEF Reqs
    <3> QED  BY <3>1 DEF Rest
  <2> QED  BY <1>1, <2>1 DEF Inv, Counted
<1>4. Recorded(s, t, l, f)
  <2>1. ASSUME NEW o \in Plcis, l[o].id # 0  PROVE Whole(s, t, l[o], o, f[l[o].id].data)
    <3>1. Whole(s, q, l[o], o, f[l[o].id].data)
      BY <1>1, <2>1 DEF Inv, Recorded
    <3> QED  BY <3>1, RestKeeps DEF Whole
  <2> QED  BY <2>1 DEF Recorded
<1> QED  BY <1>2, <1>3, <1>4, RestKeeps DEF State, Inv

\* Only line p changes, to y.
Changed(l, ll, p, y) ==
    /\ ll \in [Plcis -> Lines] /\ p \in Plcis /\ ll[p] = y
    /\ \A o \in Plcis : o # p => ll[o] = l[o]

\* The brick, or the caller, tells m about the call x of line p, which becomes y.
Saying(s, x, y, p, m) ==
    /\ m.plci = p /\ m.id = x.id /\ x.id # 0
    /\ m.type \in (IndTypes \cup ConfTypes) \ {"CONNECT_IND", "DATAB3_CONF"}
    /\ y.id = x.id /\ y.played = x.played /\ y.acked = x.acked /\ y.sent >= x.sent
    /\ y.unconf = <<>> \/ (y.unconf = x.unconf /\ (x.st = "b3up" => y.st = "b3up"))
    /\ y.st = "b3up" => /\ y.unconf = x.unconf
                        /\ x.st = "b3up" \/ (x.st = "b3offered" /\ m.type = "CONNECTB3ACTIVE_IND")
    /\ Early(y.st) => Early(x.st)
    /\ Down(x.st) => Down(y.st)
    /\ x.st = "clearing" => y.st = "clearing" /\ m.type \in ConfTypes
    /\ x.st = "offered" => \/ y.st \in {"offered", "clearing"}
                           \/ \A j \in DOMAIN s : s[j].plci = p => s[j].type # "CONNECT_IND"
    /\ m.type = "DISCONNECTB3_IND" => Down(y.st)
    /\ m.type = "DISCONNECT_IND" => y.st = "clearing"
    /\ m.type = "CONNECTB3ACTIVE_IND" => Early(x.st) /\ ~Early(y.st)
    /\ m.type = "DATAB3_IND" => x.sent < m.arg /\ m.arg <= y.sent

LEMMA Says ==
    ASSUME NEW g, NEW s, NEW q, NEW l, NEW cs, NEW f, NEW r, State(g, s, q, l, cs, f, r),
           NEW t, NEW m, Behind(FromBrick, s, t, m),
           NEW ll, NEW p, NEW y, Changed(l, ll, p, y), Saying(s, l[p], y, p, m)
    PROVE  State(g, t, q, ll, cs, f, r)
<1> DEFINE x == l[p]
<1>1. Shape(g, s, q, l, cs, f, r) /\ Inv(s, q, l, cs, f, r)
  BY DEF State
<1>2. StreamOk(s) /\ LineOk(l) /\ ListOk(g, cs) /\ r \in Nat /\ ReplyOk(q)
  BY <1>1, Elements
<1>3. Shape(g, t, q, ll, cs, f, r)
  BY <1>1 DEF Shape, Behind, Changed
<1>4. /\ p \in Plcis /\ ll[p] = y /\ y.id = x.id /\ x.id \in Nat /\ x.id # 0
      /\ y.played = x.played /\ y.acked = x.acked
      /\ \A o \in Plcis : o # p => ll[o] = l[o]
      /\ \A o \in Plcis : ll[o].id = l[o].id
  BY <1>2 DEF Changed, Saying, LineOk
<1>5. /\ \A k \in DOMAIN s : k \in DOMAIN t /\ t[k] = s[k] /\ k < Len(t)
      /\ \A k \in DOMAIN t : k \in DOMAIN s \/ (k = Len(t) /\ t[k] = m)
  BY DEF Behind
<1>6. /\ m.plci = p /\ m.id = x.id /\ Tells(m) /\ m.type # "CONNECT_IND" /\ m.type # "DATAB3_CONF"
      /\ m.type # "LISTEN_CONF"
  BY DEF Saying, Tells, IndTypes, ConfTypes
<1>7. Numbered(ll, r)
  BY <1>1, <1>4 DEF Inv, Numbered
<1>8. Listed(ll, cs)
  BY <1>1, <1>2, <1>4 DEF Inv, Listed, ListOk
<1>9. Told(t, ll, cs, r)
  <2>1. ASSUME NEW k \in DOMAIN s, Tells(s[k])
        PROVE  /\ s[k].id <= r
               /\ \A o \in Plcis : s[k].id = ll[o].id => o = s[k].plci
               /\ \/ s[k].id = ll[s[k].plci].id
                  \/ s[k].type \in ConfTypes /\ NoneOn(cs, s[k].plci)
               /\ s[k].type = "CONNECT_IND" => ll[s[k].plci].st \in {"offered", "clearing"}
               /\ s[k].type = "CONNECTB3ACTIVE_IND" => ll[s[k].plci].st \notin {"offered", "b3offered"}
               /\ s[k].type = "DISCONNECTB3_IND" => Down(ll[s[k].plci].st)
               /\ s[k].type = "DISCONNECT_IND" => ll[s[k].plci].st = "clearing"
               /\ s[k].type = "DATAB3_IND" => s[k].arg <= ll[s[k].plci].sent
    <3>1. s[k].plci \in Plcis /\ s[k].arg \in Nat
      BY <1>2, <2>1 DEF StreamOk
    <3>2. /\ s[k].id <= r
          /\ \A o \in Plcis : s[k].id = l[o].id => o = s[k].plci
          /\ \/ s[k].id = l[s[k].plci].id
             \/ s[k].type \in ConfTypes /\ NoneOn(cs, s[k].plci)
          /\ s[k].type = "CONNECT_IND" => l[s[k].plci].st \in {"offered", "clearing"}
          /\ s[k].type = "CONNECTB3ACTIVE_IND" => l[s[k].plci].st \notin {"offered", "b3offered"}
          /\ s[k].type = "DISCONNECTB3_IND" => Down(l[s[k].plci].st)
          /\ s[k].type = "DISCONNECT_IND" => l[s[k].plci].st = "clearing"
          /\ s[k].type = "DATAB3_IND" => s[k].arg <= l[s[k].plci].sent
      BY <1>1, <2>1 DEF Inv, Told
    <3>3. CASE s[k].plci # p
      BY <1>4, <3>1, <3>2, <3>3
    <3>4. CASE s[k].plci = p
      <4>1. s[k].type = "CONNECT_IND" => y.st \in {"offered", "clearing"}
        BY <2>1, <3>2, <3>4 DEF Saying
      <4>2. s[k].type = "CONNECTB3ACTIVE_IND" => y.st \notin {"offered", "b3offered"}
        BY <3>2, <3>4 DEF Saying, Early
      <4>3. /\ s[k].type = "DISCONNECTB3_IND" => Down(y.st)
            /\ s[k].type = "DISCONNECT_IND" => y.st = "clearing"
        BY <3>2, <3>4 DEF Saying
      <4>4. y.sent \in Nat /\ x.sent \in Nat /\ y.sent >= x.sent
        <5>1. LineOk(ll)
          BY <1>3, Elements
        <5> QED  BY <1>2, <1>4, <5>1 DEF LineOk, Saying
      <4>5. s[k].type = "DATAB3_IND" => s[k].arg <= y.sent
        BY <3>1, <3>2, <3>4, <4>4
      <4> QED  BY <1>4, <3>2, <3>4, <4>1, <4>2, <4>3, <4>5
    <3> QED  BY <3>3, <3>4
  <2>2. /\ m.id <= r
        /\ \A o \in Plcis : m.id = ll[o].id => o = p
        /\ m.id = ll[p].id
        /\ m.type = "CONNECTB3ACTIVE_IND" => ll[p].st \notin {"offered", "b3offered"}
        /\ m.type = "DISCONNECTB3_IND" => Down(ll[p].st)
        /\ m.type = "DISCONNECT_IND" => ll[p].st = "clearing"
        /\ m.type = "DATAB3_IND" => m.arg <= ll[p].sent
    BY <1>1, <1>4, <1>6 DEF Inv, Numbered, Saying, Early
  <2> QED  BY <1>5, <1>6, <2>1, <2>2 DEF Told
<1>10. Ordered(t)
  <2>1. ASSUME NEW j \in DOMAIN s, Tells(s[j])  PROVE Before(s[j], m)
    <3>1. CASE s[j].plci = p
      <4>1. /\ s[j].type = "CONNECT_IND" => s[j].id = x.id
            /\ s[j].type = "CONNECTB3ACTIVE_IND" => ~Early(x.st)
            /\ s[j].type = "DISCONNECT_IND" => x.st = "clearing"
            /\ s[j].type = "DATAB3_IND" => s[j].arg <= x.sent
        BY <1>1, <2>1, <3>1 DEF Inv, Told, Early, ConfTypes
      <4>2. s[j].type = "DATAB3_IND" /\ m.type = "DATAB3_IND" => s[j].arg < m.arg
        <5>1. s[j].arg \in Nat /\ x.sent \in Nat
          BY <1>2, <1>4, <2>1 DEF StreamOk, LineOk
        <5>2. m.type = "DATAB3_IND" => m.arg \in Nat /\ x.sent < m.arg
          <6>1. m \in FromBrick
            BY DEF Behind
          <6> QED  BY <1>6, <6>1, TellsIn DEF Saying
        <5> QED  BY <4>1, <5>1, <5>2
      <4> QED  BY <1>6, <4>1, <4>2 DEF Before, Saying
    <3>2. CASE s[j].plci # p
      BY <1>6, <3>2 DEF Before
    <3> QED  BY <3>1, <3>2
  <2>2. ASSUME NEW j \in DOMAIN t, NEW k \in DOMAIN t, j < k, Tells(t[j]), Tells(t[k])
        PROVE  Before(t[j], t[k])
    <3>1. j \in DOMAIN s
      <4>1. k <= Len(t) /\ j \in Nat /\ k \in Nat /\ Len(t) \in Nat
        BY <1>3 DEF Shape
      <4> QED  BY <1>5, <2>2, <4>1
    <3>2. CASE k \in DOMAIN s
      BY <1>1, <1>5, <2>2, <3>1, <3>2 DEF Inv, Ordered
    <3>3. CASE t[k] = m
      BY <1>5, <2>1, <2>2, <3>1, <3>3
    <3> QED  BY <1>5, <3>2, <3>3
  <2> QED  BY <2>2 DEF Ordered
<1>11. Replied(t, q, ll, cs)
  <2>1. \A k \in DOMAIN q : q[k].id = ll[q[k].plci].id
    BY <1>1, <1>2, <1>4 DEF Inv, Replied, ReplyOk
  <2>2. \A j \in DOMAIN t, k \in DOMAIN q : t[j].type = "CONNECT_IND" => t[j].plci # q[k].plci
    BY <1>1, <1>5, <1>6 DEF Inv, Replied
  <2>3. \A k \in DOMAIN q : q[k].type = "DISCONNECT_REQ" => Down(ll[q[k].plci].st)
    BY <1>1, <1>2, <1>4 DEF Inv, Replied, ReplyOk, Saying
  <2>4. ASSUME NEW k \in DOMAIN q, q[k].type = "DISCONNECT_RESP"
        PROVE  /\ Len(q) = 1 /\ ll[q[k].plci].st = "clearing" /\ NoneOn(cs, q[k].plci)
               /\ \A j \in DOMAIN t : Tells(t[j]) /\ t[j].plci = q[k].plci => t[j].type \in ConfTypes
    <3>1. /\ Len(q) = 1 /\ l[q[k].plci].st = "clearing" /\ NoneOn(cs, q[k].plci)
          /\ \A j \in DOMAIN s : Tells(s[j]) /\ s[j].plci = q[k].plci => s[j].type \in ConfTypes
      BY <1>1, <2>4 DEF Inv, Replied
    <3>2. ll[q[k].plci].st = "clearing"
      BY <1>2, <1>4, <3>1 DEF ReplyOk, Saying
    <3>3. m.plci = q[k].plci => m.type \in ConfTypes
      BY <1>6, <3>1 DEF Saying
    <3> QED  BY <1>5, <3>1, <3>2, <3>3
  <2> QED  BY <1>1, <2>1, <2>2, <2>3, <2>4 DEF Inv, Replied
<1>12. Begun(t, q, ll, cs)
  <2>1. ASSUME NEW o \in Plcis, Beginning(t, ll, o)  PROVE Beginning(s, l, o)
    <3>1. Early(ll[o].st) => Early(l[o].st)
      BY <1>4 DEF Saying
    <3>2. Starts(m, o) => Early(l[o].st)
      BY <1>6 DEF Starts, Saying
    <3> QED  BY <1>5, <2>1, <3>1, <3>2 DEF Beginning
  <2>2. ASSUME NEW o \in Plcis, Beginning(s, l, o)
        PROVE  ll[o].unconf = <<>> /\ ll[o].played = <<>>
    BY <1>1, <1>4, <2>2 DEF Inv, Begun, Saying
  <2> QED  BY <1>1, <1>4, <1>5, <1>6, <2>1, <2>2 DEF Inv, Begun
<1>13. Counted(t, q, ll, cs)
  <2>1. \A i : Number(t, Confs(i)) = Number(s, Confs(i))
    <3>1. ASSUME NEW i  PROVE Number(t, Confs(i)) = Number(s, Confs(i))
      <4>1. m \notin Confs(i)
        BY <1>6 DEF Confs
      <4> QED  BY <4>1 DEF Behind
    <3> QED  BY <3>1
  <2>2. ASSUME NEW k \in DOMAIN cs
        PROVE  LET c == cs[k]  z == ll[c.plci]
               IN  Tally(z.st, c.NotAcknowledged, c.usDataHandle, Len(z.played), Len(z.unconf),
                         Number(q, Reqs(c.id)), Number(t, Confs(c.id)))
    <3> DEFINE c == cs[k]
               z == l[c.plci]
    <3>1. Tally(z.st, c.NotAcknowledged, c.usDataHandle, Len(z.played), Len(z.unconf),
                Number(q, Reqs(c.id)), Number(s, Confs(c.id)))
      BY <1>1 DEF Inv, Counted
    <3>2. /\ c.NotAcknowledged \in Nat /\ c.usDataHandle \in Nat
          /\ Len(z.unconf) \in Nat /\ Len(z.played) \in Nat
          /\ Number(q, Reqs(c.id)) \in Nat /\ Number(s, Confs(c.id)) \in Nat
      BY <1>1, CountedIn
    <3>3. CASE c.plci # p
      <4>1. ll[c.plci] = z
        BY <1>2, <1>4, <3>3 DEF ListOk
      <4> QED  BY <2>1, <3>1, <4>1
    <3>4. CASE c.plci = p /\ y.st = "b3up" /\ x.st = "b3up"
      <4>1. ll[c.plci] = y /\ z = x /\ y.unconf = x.unconf /\ y.played = x.played /\ y.st = x.st
        BY <1>4, <3>4 DEF Saying
      <4> QED  BY <2>1, <3>1, <4>1
    <3>5. CASE c.plci = p /\ y.st # "b3up"
      <4>1. ll[c.plci] = y /\ z = x /\ y.played = x.played
        BY <1>4, <3>5
      <4>2. y.unconf = x.unconf \/ Len(y.unconf) = 0
        BY DEF Saying
      <4> HIDE DEF c, z, x
      <4>3. Tally(y.st, c.NotAcknowledged, c.usDataHandle, Len(y.played), Len(z.unconf),
                  Number(q, Reqs(c.id)), Number(s, Confs(c.id)))
        BY <3>1, <3>5 DEF Tally
      <4>4. Tally(y.st, c.NotAcknowledged, c.usDataHandle, Len(y.played), 0,
                  Number(q, Reqs(c.id)), Number(s, Confs(c.id)))
        BY <3>2, <3>5, <4>3, TallyDropped
      <4>5. Tally(y.st, c.NotAcknowledged, c.usDataHandle, Len(y.played), Len(y.unconf),
                  Number(q, Reqs(c.id)), Number(s, Confs(c.id)))
        BY <4>1, <4>2, <4>3, <4>4
      <4> QED  BY <2>1, <4>1, <4>5 DEF c
    <3>6. CASE c.plci = p /\ y.st = "b3up" /\ x.st # "b3up"
      <4>1. Beginning(s, l, p)
        BY <3>6 DEF Saying, Beginning, Early
      <4>2. /\ x.unconf = <<>> /\ x.played = <<>>
            /\ \A j \in DOMAIN s : s[j].type = "DATAB3_CONF" => s[j].id # x.id
            /\ \A j \in DOMAIN q : q[j].type = "DATAB3_REQ" => q[j].plci # p
            /\ Fresh(c)
        BY <1>1, <1>4, <3>6, <4>1 DEF Inv, Begun
      <4>3. c.id = x.id
        BY <1>1, <3>6 DEF Inv, Listed
      <4>4. Number(s, Confs(c.id)) = 0
        <5>1. \A j \in DOMAIN s : s[j] \notin Confs(c.id)
          BY <4>2, <4>3 DEF Confs
        <5>2. s \in Seq(FromBrick)
          BY <1>1 DEF Shape
        <5> QED  BY <5>1, <5>2, NumberType
      <4>5. Number(q, Reqs(c.id)) = 0
        <5>1. ASSUME NEW j \in DOMAIN q  PROVE q[j] \notin Reqs(c.id)
          <6>1. q[j].id = l[q[j].plci].id /\ q[j].plci \in Plcis
            BY <1>1, <1>2 DEF Inv, Replied, ReplyOk
          <6>2. q[j].id = x.id => q[j].plci = p
            BY <1>1, <1>4, <6>1 DEF Inv, Numbered
          <6> QED  BY <4>2, <4>3, <6>2 DEF Reqs
        <5>2. q \in Seq(FromProg)
          BY <1>1 DEF Shape
        <5> QED  BY <5>1, <5>2, NumberType
      <4>6. /\ ll[c.plci] = y /\ Len(y.unconf) = 0 /\ Len(y.played) = 0
            /\ c.NotAcknowledged = 0 /\ c.usDataHandle = 0
        BY <1>4, <3>6, <4>2 DEF Saying, Fresh
      <4>7. Tally(y.st, 0, 0, 0, 0, 0, 0)
        BY DEF Tally
      <4> QED  BY <2>1, <4>4, <4>5, <4>6, <4>7
    <3> QED  BY <3>3, <3>4, <3>5, <3>6
  <2> QED  BY <2>2 DEF Counted
<1>14. Queued(q, cs)
  BY <1>1 DEF Inv
<1>15. Playing(ll)
  <2>1. /\ y.st # "b3up" => y.unconf = <<>>
        /\ \A n \in DOMAIN y.played : y.played[n] = n
        /\ \A n \in DOMAIN y.unconf : y.unconf[n] = Len(y.played) + n
    BY <1>1, <1>4 DEF Inv, Playing, Saying
  <2> QED  BY <1>1, <1>4, <2>1 DEF Inv, Playing
<1>16. Filed(t, cs, f, r)
  BY <1>1, <1>5, <1>6 DEF Inv, Filed
<1>17. Recorded(t, q, ll, f)
  <2>1. ASSUME NEW o \in Plcis, ll[o].id # 0, o # p  PROVE Whole(t, q, ll[o], o, f[ll[o].id].data)
    <3>1. Whole(s, q, l[o], o, f[l[o].id].data) /\ ll[o] = l[o]
      BY <1>1, <1>4, <2>1 DEF Inv, Recorded
    <3>2. \A b : Passed(s, l[o], o, b) => Passed(t, l[o], o, b)
      BY <1>5, <1>6, <2>1 DEF Passed
    <3> QED  BY <3>1, <3>2 DEF Whole
  <2>2. Whole(t, q, y, p, f[x.id].data)
    <3>1. Whole(s, q, x, p, f[x.id].data)
      BY <1>1, <1>4 DEF Inv, Recorded
    <3>2. ASSUME NEW b \in Nat, Passed(s, x, p, b)  PROVE Passed(t, y, p, b)
      <4>1. y.sent \in Nat /\ x.sent \in Nat /\ y.sent >= x.sent
        <5>1. LineOk(ll)
          BY <1>3, Elements
        <5> QED  BY <1>2, <1>4, <5>1 DEF LineOk, Saying
      <4>2. b <= y.sent
        BY <3>2, <4>1 DEF Passed
      <4>3. m.type = "DATAB3_IND" => b < m.arg
        <5>1. m.type = "DATAB3_IND" => m.arg \in Nat /\ x.sent < m.arg
          <6>1. m \in FromBrick
            BY DEF Behind
          <6> QED  BY <1>6, <6>1, TellsIn DEF Saying
        <5> QED  BY <3>2, <4>1, <5>1 DEF Passed
      <4> QED  BY <1>5, <3>2, <4>2, <4>3 DEF Passed
    <3>3. \A b : Heard(q, y, p, b) => Heard(q, x, p, b)
      BY <1>4 DEF Heard
    <3>4. \A n \in DOMAIN f[x.id].data : f[x.id].data[n] \in Nat
      <4>1. x.id \in CallIds
        BY <1>2, <1>4 DEF LineOk
      <4>2. f[x.id].data \in Seq(Nat)
        BY <1>1, <4>1 DEF Shape, Files
      <4> QED  BY <4>2
    <3> QED  BY <3>1, <3>2, <3>3, <3>4 DEF Whole
  <2> QED  BY <1>4, <2>1, <2>2 DEF Recorded
<1> QED  BY <1>3, <1>7, <1>8, <1>9, <1>10, <1>11, <1>12, <1>13, <1>14, <1>15, <1>16, <1>17 DEF State, Inv

\* The lines but for what is played and acknowledged.
Alike(l, ll) ==
    /\ ll \in [Plcis -> Lines]
    /\ \A o \in Plcis : ll[o].id = l[o].id /\ ll[o].st = l[o].st /\ ll[o].sent = l[o].sent
LEMMA AlikeKeeps ==
    ASSUME NEW g, NEW s, NEW q, NEW l, NEW cs, NEW f, NEW r, Shape(g, s, q, l, cs, f, r),
           NEW ll, Alike(l, ll)
    PROVE  /\ Shape(g, s, q, ll, cs, f, r)
           /\ Numbered(l, r) => Numbered(ll, r)
           /\ Listed(l, cs) => Listed(ll, cs)
           /\ Told(s, l, cs, r) => Told(s, ll, cs, r)
           /\ Replied(s, q, l, cs) => Replied(s, q, ll, cs)
           /\ \A p \in Plcis : Beginning(s, ll, p) <=> Beginning(s, l, p)
<1>1. StreamOk(s) /\ LineOk(l) /\ ListOk(g, cs) /\ r \in Nat /\ ReplyOk(q)
  BY Elements
<1>2. Shape(g, s, q, ll, cs, f, r)
  BY DEF Shape, Alike
<1>3. Numbered(l, r) => Numbered(ll, r)
  BY DEF Numbered, Alike
<1>4. Listed(l, cs) => Listed(ll, cs)
  BY <1>1 DEF Listed, ListOk, Alike
<1>5. Told(s, l, cs, r) => Told(s, ll, cs, r)
  <2>1. \A k \in DOMAIN s : Tells(s[k]) => s[k].plci \in Plcis
    BY <1>1 DEF StreamOk
  <2> QED  BY <2>1 DEF Told, Alike
<1>6. Replied(s, q, l, cs) => Replied(s, q, ll, cs)
  <2>1. \A k \in DOMAIN q : q[k].plci \in Plcis
    BY <1>1 DEF ReplyOk
  <2> QED  BY <2>1 DEF Replied, Alike
<1>7. \A p \in Plcis : Beginning(s, ll, p) <=> Beginning(s, l, p)
  BY DEF Beginning, Alike
<1> QED  BY <1>2, <1>3, <1>4, <1>5, <1>6, <1>7

\* All that is under way to the brick from a block on are blocks of the same call.
LEMMA BlocksOnly ==
    ASSUME NEW g, NEW s, NEW q, NEW l, NEW cs, NEW f, NEW r, State(g, s, q, l, cs, f, r),
           NEW t, NEW m, Rest(FromProg, q, t, m), m.type = "DATAB3_REQ"
    PROVE  /\ m.plci \in Plcis /\ m.id = l[m.plci].id /\ m.id # 0 /\ m.arg \in Nat
           /\ Number(q, Reqs(m.id)) = Len(q)
           /\ \E c \in DOMAIN cs : cs[c].id = m.id /\ cs[c].plci = m.plci /\ m.arg + Len(q) = cs[c].usDataHandle + 1
           /\ ~Beginning(s, l, m.plci)
<1>1. Shape(g, s, q, l, cs, f, r) /\ Inv(s, q, l, cs, f, r)
  BY DEF State
<1>2. StreamOk(s) /\ LineOk(l) /\ ListOk(g, cs) /\ r \in Nat /\ ReplyOk(q)
  BY <1>1, Elements
<1>3. 1 \in DOMAIN q /\ q[1] = m
  BY DEF Rest
<1>4. m.plci \in Plcis /\ m.id = l[m.plci].id /\ m.id # 0 /\ m.arg \in Nat
  BY <1>1, <1>2, <1>3 DEF Inv, Replied, ReplyOk
<1>5. Number(q, Reqs(m.id)) = Len(q)
  <2>1. ASSUME NEW k \in DOMAIN q  PROVE q[k] \in Reqs(m.id)
    <3>1. q[k] \in FromProg /\ k \in Nat /\ k >= 1
      BY <1>1 DEF Shape
    <3>2. q[k].type = "DATAB3_REQ"
      BY <1>1, <1>3, <3>1 DEF Inv, Queued
    <3>3. q[k].id = m.id
      BY <1>1, <1>3 DEF Inv, Replied
    <3> QED  BY <3>1, <3>2, <3>3 DEF Reqs
  <2>2. q \in Seq(FromProg)
    BY <1>1 DEF Shape
  <2> QED  BY <2>1, <2>2, NumberAll
<1>6. PICK c \in DOMAIN cs : cs[c].id = m.id /\ m.arg + Len(q) = cs[c].usDataHandle + 1
  BY <1>1, <1>3 DEF Inv, Queued
<1>7. cs[c].plci = m.plci
  <2>1. l[cs[c].plci].id = m.id /\ cs[c].plci \in Plcis
    BY <1>1, <1>2, <1>6 DEF Inv, Listed, ListOk
  <2> QED  BY <1>1, <1>4, <2>1 DEF Inv, Numbered
<1>8. ~Beginning(s, l, m.plci)
  BY <1>1, <1>3, <1>4 DEF Inv, Begun
<1> QED  BY <1>4, <1>5, <1>6, <1>7, <1>8

LEMMA TallyTaken ==
    ASSUME NEW st, NEW n \in Nat, NEW u \in Nat, NEW played \in Nat, NEW unconf \in Nat,
           NEW req \in Nat, NEW conf \in Nat, Tally(st, n, u, played, unconf, req + 1, conf)
    PROVE  /\ Tally(st, n, u, played, unconf + 1, req, conf)
           /\ st # "b3up" => Tally(st, n, u, played, unconf, req, conf + 1)
BY DEF Tally

\* The brick takes a block to be played.
Took(x, y, b) == y.unconf = Append(x.unconf, b) /\ y.played = x.played /\ y.acked = x.acked
LEMMA TakesBlock ==
    ASSUME NEW g, NEW s, NEW q, NEW l, NEW cs, NEW f, NEW r, State(g, s, q, l, cs, f, r),
           NEW t, NEW m, Rest(FromProg, q, t, m), m.type = "DATAB3_REQ",
           NEW ll, NEW y, Changed(l, ll, m.plci, y), Alike(l, ll), l[m.plci].st = "b3up",
           Took(l[m.plci], y, m.arg)
    PROVE  State(g, s, t, ll, cs, f, r)
<1> DEFINE p == m.plci
           x == l[p]
<1>1. Shape(g, s, q, l, cs, f, r) /\ Inv(s, q, l, cs, f, r)
  BY DEF State
<1>2. StreamOk(s) /\ LineOk(l) /\ ListOk(g, cs) /\ r \in Nat /\ ReplyOk(q)
  BY <1>1, Elements
<1>3. Shape(g, s, t, l, cs, f, r) /\ Replied(s, t, l, cs) /\ Begun(s, t, l, cs) /\ Queued(t, cs)
  BY RestKeeps
<1>4. /\ Shape(g, s, t, ll, cs, f, r) /\ Numbered(ll, r) /\ Listed(ll, cs) /\ Told(s, ll, cs, r)
      /\ Replied(s, t, ll, cs)
  BY <1>1, <1>3, AlikeKeeps DEF Inv
<1>5. Ordered(s) /\ Filed(s, cs, f, r)
  BY <1>1 DEF Inv
<1>6. /\ p \in Plcis /\ ll[p] = y /\ y.id = x.id /\ x.id # 0
      /\ \A o \in Plcis : o # p => ll[o] = l[o]
      /\ \A o \in Plcis : ll[o].id = l[o].id /\ ll[o].sent = l[o].sent /\ ll[o].acked = l[o].acked
      /\ \A o \in Plcis : ll[o].played = l[o].played /\ ll[o].st = l[o].st
  BY BlocksOnly DEF Changed, Alike, Took
<1>7. x.unconf \in Seq(Nat) /\ x.played \in Seq(Nat) /\ m.arg \in Nat
  BY <1>2, <1>6, BlocksOnly DEF LineOk
<1>8. /\ Len(y.unconf) = Len(x.unconf) + 1 /\ Len(x.unconf) \in Nat /\ Len(x.played) \in Nat
      /\ DOMAIN y.unconf = 1 .. Len(x.unconf) + 1
      /\ \A n \in DOMAIN x.unconf : y.unconf[n] = x.unconf[n]
      /\ y.unconf[Len(x.unconf) + 1] = m.arg
      /\ DOMAIN x.unconf = 1 .. Len(x.unconf)
  <2> DEFINE u == x.unconf
             v == y.unconf
  <2>1. u \in Seq(Nat) /\ v = Append(u, m.arg) /\ m.arg \in Nat /\ Len(x.played) \in Nat
    BY <1>7 DEF Took
  <2> HIDE DEF u, v
  <2>2. /\ Len(v) = Len(u) + 1 /\ Len(u) \in Nat /\ Len(x.played) \in Nat
        /\ DOMAIN v = 1 .. Len(u) + 1
        /\ \A n \in DOMAIN u : v[n] = u[n]
        /\ v[Len(u) + 1] = m.arg
        /\ DOMAIN u = 1 .. Len(u)
    BY <2>1
  <2> QED  BY <2>2 DEF u, v
<1>9. Begun(s, t, ll, cs)
  <2>1. ASSUME NEW o \in Plcis, Beginning(s, ll, o)  PROVE Beginning(s, l, o) /\ o # p
    BY <1>1, <2>1, AlikeKeeps, BlocksOnly
  <2> QED  BY <1>3, <1>6, <2>1 DEF Begun
<1>10. Counted(s, t, ll, cs)
  <2>1. ASSUME NEW k \in DOMAIN cs
        PROVE  LET c == cs[k]  z == ll[c.plci]
               IN  Tally(z.st, c.NotAcknowledged, c.usDataHandle, Len(z.played), Len(z.unconf),
                         Number(t, Reqs(c.id)), Number(s, Confs(c.id)))
    <3> DEFINE c == cs[k]
               z == l[c.plci]
    <3>1. Tally(z.st, c.NotAcknowledged, c.usDataHandle, Len(z.played), Len(z.unconf),
                Number(q, Reqs(c.id)), Number(s, Confs(c.id)))
      BY <1>1 DEF Inv, Counted
    <3>2. /\ c.NotAcknowledged \in Nat /\ c.usDataHandle \in Nat
          /\ Len(z.unconf) \in Nat /\ Len(z.played) \in Nat
          /\ Number(t, Reqs(c.id)) \in Nat /\ Number(s, Confs(c.id)) \in Nat
      BY <1>3, CountedIn
    <3>3. CASE c.plci # p
      <4>1. ll[c.plci] = z
        BY <1>2, <1>6, <3>3 DEF ListOk
      <4>2. c.id # m.id
        <5>1. c.plci \in Plcis /\ l[c.plci].id = c.id
          BY <1>1, <1>2 DEF Inv, Listed, ListOk
        <5> QED  BY <1>1, <1>6, <3>3, <5>1, BlocksOnly DEF Inv, Numbered
      <4>3. m \notin Reqs(c.id)
        BY <4>2 DEF Reqs
      <4>4. Number(q, Reqs(c.id)) = Number(t, Reqs(c.id))
        BY <4>3 DEF Rest
      <4> QED  BY <3>1, <4>1, <4>4
    <3>4. CASE c.plci = p
      <4>1. ll[c.plci] = y /\ z = x /\ y.st = z.st /\ y.played = z.played /\ Len(y.unconf) = Len(z.unconf) + 1
        BY <1>6, <1>8, <3>4
      <4>2. c.id = m.id
        BY <1>1, <3>4, BlocksOnly DEF Inv, Listed
      <4>3. m \in Reqs(c.id)
        BY <4>2 DEF Reqs, Rest
      <4>4. Number(q, Reqs(c.id)) = Number(t, Reqs(c.id)) + 1
        BY <4>3 DEF Rest
      <4> HIDE DEF c, z, x
      <4>5. Tally(z.st, c.NotAcknowledged, c.usDataHandle, Len(z.played), Len(z.unconf) + 1,
                  Number(t, Reqs(c.id)), Number(s, Confs(c.id)))
        <5>1. Tally(z.st, c.NotAcknowledged, c.usDataHandle, Len(z.played), Len(z.unconf),
                    Number(t, Reqs(c.id)) + 1, Number(s, Confs(c.id)))
          BY <3>1, <4>4
        <5> QED  BY <3>2, <5>1, TallyTaken
      <4> QED  BY <4>1, <4>5 DEF c
    <3> QED  BY <3>3, <3>4
  <2> QED  BY <2>1 DEF Counted
<1>11. Playing(ll)
  <2>1. m.arg = Len(x.played) + (Len(x.unconf) + 1)
    <3>1. PICK c \in DOMAIN cs : cs[c].id = m.id /\ cs[c].plci = m.plci /\ m.arg + Len(q) = cs[c].usDataHandle + 1
      BY BlocksOnly
    <3>2. Tally(x.st, cs[c].NotAcknowledged, cs[c].usDataHandle, Len(x.played), Len(x.unconf),
                Number(q, Reqs(m.id)), Number(s, Confs(m.id)))
      BY <1>1, <3>1 DEF Inv, Counted
    <3>3. cs[c].usDataHandle = Len(x.played) + Len(x.unconf) + Len(q)
      <4>1. Number(q, Reqs(m.id)) = Len(q) /\ x.st = "b3up"
        BY BlocksOnly
      <4>2. Tally("b3up", cs[c].NotAcknowledged, cs[c].usDataHandle, Len(x.played), Len(x.unconf),
                  Len(q), Number(s, Confs(m.id)))
        BY <3>2, <4>1
      <4> HIDE DEF x
      <4> QED  BY ONLY <4>2 DEF Tally
    <3>4. Len(q) \in Nat
      BY DEF Rest
    <3>5. m.arg + Len(q) = (Len(x.played) + Len(x.unconf) + Len(q)) + 1
      BY <3>1, <3>3
    <3> DEFINE a == Len(x.played)
               b == Len(x.unconf)
    <3>6. m.arg \in Nat /\ a \in Nat /\ b \in Nat /\ m.arg + Len(q) = (a + b + Len(q)) + 1
      BY <1>7, <1>8, <3>5
    <3> HIDE DEF a, b
    <3>7. m.arg = a + (b + 1)
      BY <3>4, <3>6
    <3> QED  BY <3>7 DEF a, b
  <2>2. \A n \in DOMAIN y.unconf : y.unconf[n] = Len(y.played) + n
    <3>1. \A n \in DOMAIN x.unconf : x.unconf[n] = Len(x.played) + n
      BY <1>1, <1>6 DEF Inv, Playing
    <3>2. \A n \in DOMAIN y.unconf : n \in DOMAIN x.unconf \/ n = Len(x.unconf) + 1
      BY <1>8
    <3>3. Len(y.played) = Len(x.played)
      BY <1>6
    <3>4. m.arg = Len(y.played) + (Len(x.unconf) + 1)
      BY <2>1, <3>3
    <3>5. ASSUME NEW n \in DOMAIN x.unconf  PROVE y.unconf[n] = Len(y.played) + n
      BY <1>8, <3>1, <3>3
    <3>6. y.unconf[Len(x.unconf) + 1] = Len(y.played) + (Len(x.unconf) + 1)
      BY <1>8, <3>4
    <3> QED  BY <3>2, <3>5, <3>6
  <2>3. /\ y.st = "b3up"
        /\ \A n \in DOMAIN y.played : y.played[n] = n
    BY <1>1, <1>6 DEF Inv, Playing
  <2>4. ASSUME NEW o \in Plcis
        PROVE  /\ ll[o].st # "b3up" => ll[o].unconf = <<>>
               /\ \A n \in DOMAIN ll[o].played : ll[o].played[n] = n
               /\ \A n \in DOMAIN ll[o].unconf : ll[o].unconf[n] = Len(ll[o].played) + n
    <3>1. CASE o = p
      BY <1>6, <2>2, <2>3, <3>1
    <3>2. CASE o # p
      <4>1. ll[o] = l[o]
        BY <1>6, <3>2
      <4> QED  BY <1>1, <4>1 DEF Inv, Playing
    <3> QED  BY <3>1, <3>2
  <2> QED  BY <2>4 DEF Playing
<1>12. Recorded(s, t, ll, f)
  <2>1. ASSUME NEW o \in Plcis, ll[o].id # 0  PROVE Whole(s, t, ll[o], o, f[ll[o].id].data)
    <3>1. Whole(s, q, l[o], o, f[l[o].id].data) /\ ll[o].id = l[o].id
      BY <1>1, <1>6, <2>1 DEF Inv, Recorded
    <3>2. \A b : Heard(t, ll[o], o, b) => Heard(q, l[o], o, b)
      <4>1. \A b : Heard(t, ll[o], o, b) => Heard(t, l[o], o, b)
        BY <1>6 DEF Heard
      <4> QED  BY <4>1, RestKeeps
    <3>3. \A b : Passed(s, l[o], o, b) => Passed(s, ll[o], o, b)
      BY <1>6 DEF Passed
    <3> QED  BY <3>1, <3>2, <3>3 DEF Whole
  <2> QED  BY <2>1 DEF Recorded
<1> QED  BY <1>4, <1>3, <1>5, <1>9, <1>10, <1>11, <1>12 DEF State, Inv

\* A confirmation goes out about the call of a line.
LEMMA ConfBehind ==
    ASSUME NEW g, NEW s, NEW q, NEW l, NEW cs, NEW f, NEW r, Shape(g, s, q, l, cs, f, r),
           Numbered(l, r), Told(s, l, cs, r), Ordered(s), Replied(s, q, l, cs), Filed(s, cs, f, r),
           NEW t, NEW a, Behind(FromBrick, s, t, a), a.type \in ConfTypes,
           a.plci \in Plcis, a.id = l[a.plci].id, a.id # 0
    PROVE  /\ Shape(g, t, q, l, cs, f, r)
           /\ Told(t, l, cs, r) /\ Ordered(t) /\ Replied(t, q, l, cs) /\ Filed(t, cs, f, r)
           /\ \A x, p, b : Passed(s, x, p, b) => Passed(t, x, p, b)
           /\ \A p : Beginning(t, l, p) => Beginning(s, l, p)
<1>1. Shape(g, t, q, l, cs, f, r)
  BY DEF Shape, Behind
<1>2. /\ \A k \in DOMAIN s : k \in DOMAIN t /\ t[k] = s[k] /\ k < Len(t)
      /\ \A k \in DOMAIN t : k \in DOMAIN s \/ (k = Len(t) /\ t[k] = a)
  BY DEF Behind
<1>3. /\ a.type \notin IndTypes /\ Tells(a)
      /\ a.type \notin {"CONNECT_IND", "CONNECTB3ACTIVE_IND", "DISCONNECTB3_IND", "DISCONNECT_IND",
                        "DATAB3_IND"}
  BY DEF ConfTypes, IndTypes, Tells
<1>4. Told(t, l, cs, r)
  <2>1. a.id <= r /\ \A o \in Plcis : a.id = l[o].id => o = a.plci
    BY DEF Numbered
  <2> QED  BY <1>2, <1>3, <2>1 DEF Told
<1>5. Ordered(t)
  <2>1. ASSUME NEW j \in DOMAIN s, Tells(s[j])  PROVE Before(s[j], a)
    <3>1. s[j].type = "CONNECT_IND" => s[j].id = l[s[j].plci].id
      BY <2>1 DEF Told, ConfTypes
    <3> QED  BY <1>3, <3>1 DEF Before
  <2>2. ASSUME NEW j \in DOMAIN t, NEW k \in DOMAIN t, j < k, Tells(t[j]), Tells(t[k])
        PROVE  Before(t[j], t[k])
    <3>1. j \in DOMAIN s
      <4>1. k <= Len(t) /\ j \in Nat /\ k \in Nat /\ Len(t) \in Nat
        BY <1>1 DEF Shape
      <4> QED  BY <1>2, <2>2, <4>1
    <3>2. CASE k \in DOMAIN s
      BY <1>2, <2>2, <3>1, <3>2 DEF Ordered
    <3>3. CASE t[k] = a
      BY <1>2, <2>1, <2>2, <3>1, <3>3
    <3> QED  BY <1>2, <3>2, <3>3
  <2> QED  BY <2>2 DEF Ordered
<1>6. Replied(t, q, l, cs)
  BY <1>2, <1>3 DEF Replied
<1>7. Filed(t, cs, f, r)
  BY <1>2, <1>3 DEF Filed
<1>8. ASSUME NEW x, NEW p, NEW b, Passed(s, x, p, b)  PROVE Passed(t, x, p, b)
  BY <1>2, <1>3, <1>8 DEF Passed
<1>9. ASSUME NEW p, Beginning(t, l, p)  PROVE Beginning(s, l, p)
  BY <1>2, <1>3, <1>9 DEF Beginning, Starts
<1> QED  BY <1>1, <1>4, <1>5, <1>6, <1>7, <1>8, <1>9

\* The brick takes a block for a call that is not up, and confirms it.
LEMMA DropsBlock ==
    ASSUME NEW g, NEW s, NEW q, NEW l, NEW cs, NEW f, NEW r, State(g, s, q, l, cs, f, r),
           NEW t, NEW m, Rest(FromProg, q, t, m), m.type = "DATAB3_REQ", l[m.plci].st # "b3up",
           NEW u, NEW a, Behind(FromBrick, s, u, a), a.type = "DATAB3_CONF", a.plci = m.plci,
           a.id = m.id
    PROVE  State(g, u, t, l, cs, f, r)
<1>1. Shape(g, s, q, l, cs, f, r) /\ Inv(s, q, l, cs, f, r)
  BY DEF State
<1>2. StreamOk(s) /\ LineOk(l) /\ ListOk(g, cs) /\ r \in Nat /\ ReplyOk(q)
  BY <1>1, Elements
<1>3. /\ Shape(g, s, t, l, cs, f, r) /\ Replied(s, t, l, cs) /\ Begun(s, t, l, cs) /\ Queued(t, cs)
      /\ \A x, p, b : Heard(t, x, p, b) => Heard(q, x, p, b)
  BY RestKeeps
<1>4. m.plci \in Plcis /\ m.id = l[m.plci].id /\ m.id # 0 /\ ~Beginning(s, l, m.plci)
  BY BlocksOnly
<1>5. Numbered(l, r) /\ Listed(l, cs) /\ Playing(l) /\ Told(s, l, cs, r) /\ Ordered(s) /\ Filed(s, cs, f, r)
  BY <1>1 DEF Inv
<1>6. /\ Shape(g, u, t, l, cs, f, r)
      /\ Told(u, l, cs, r) /\ Ordered(u) /\ Replied(u, t, l, cs) /\ Filed(u, cs, f, r)
      /\ \A x, p, b : Passed(s, x, p, b) => Passed(u, x, p, b)
      /\ \A p : Beginning(u, l, p) => Beginning(s, l, p)
  <2>1. a.type \in ConfTypes
    BY DEF ConfTypes
  <2> QED  BY <1>3, <1>4, <1>5, <2>1, ConfBehind
<1>7. Begun(u, t, l, cs)
  <2>1. ASSUME NEW p \in Plcis, Beginning(u, l, p)
        PROVE  \A k \in DOMAIN u : u[k].type = "DATAB3_CONF" => u[k].id # l[p].id
    <3>1. Beginning(s, l, p) /\ p # m.plci
      BY <1>4, <1>6, <2>1
    <3>2. a.id # l[p].id
      BY <1>4, <1>5, <3>1 DEF Numbered
    <3>3. \A k \in DOMAIN s : s[k].type = "DATAB3_CONF" => s[k].id # l[p].id
      BY <1>3, <3>1 DEF Begun
    <3> QED  BY <3>2, <3>3 DEF Behind
  <2> QED  BY <1>3, <1>6, <2>1 DEF Begun
<1>8. Counted(u, t, l, cs)
  <2>1. ASSUME NEW k \in DOMAIN cs
        PROVE  LET c == cs[k]  z == l[c.plci]
               IN  Tally(z.st, c.NotAcknowledged, c.usDataHandle, Len(z.played), Len(z.unconf),
                         Number(t, Reqs(c.id)), Number(u, Confs(c.id)))
    <3> DEFINE c == cs[k]
               z == l[c.plci]
    <3>1. Tally(z.st, c.NotAcknowledged, c.usDataHandle, Len(z.played), Len(z.unconf),
                Number(q, Reqs(c.id)), Number(s, Confs(c.id)))
      BY <1>1 DEF Inv, Counted
    <3>2. /\ c.NotAcknowledged \in Nat /\ c.usDataHandle \in Nat
          /\ Len(z.unconf) \in Nat /\ Len(z.played) \in Nat
          /\ Number(t, Reqs(c.id)) \in Nat /\ Number(s, Confs(c.id)) \in Nat
      BY <1>3, CountedIn
    <3>3. CASE c.id # m.id
      <4>1. m \notin Reqs(c.id) /\ a \notin Confs(c.id)
        BY <3>3 DEF Reqs, Confs
      <4>2. Number(q, Reqs(c.id)) = Number(t, Reqs(c.id))
        BY <4>1 DEF Rest
      <4>3. Number(u, Confs(c.id)) = Number(s, Confs(c.id))
        BY <4>1 DEF Behind
      <4> QED  BY <3>1, <4>2, <4>3
    <3>4. CASE c.id = m.id
      <4>1. m \in Reqs(c.id) /\ a \in Confs(c.id)
        BY <3>4 DEF Reqs, Confs, Rest, Behind
      <4>2. Number(q, Reqs(c.id)) = Number(t, Reqs(c.id)) + 1
        BY <4>1 DEF Rest
      <4>3. Number(u, Confs(c.id)) = Number(s, Confs(c.id)) + 1
        BY <4>1 DEF Behind
      <4>4. c.plci = m.plci
        BY <1>2, <1>4, <1>5, <3>4 DEF Listed, ListOk, Numbered
      <4>5. z.st # "b3up"
        BY <4>4
      <4>6. Tally(z.st, c.NotAcknowledged, c.usDataHandle, Len(z.played), Len(z.unconf),
                  Number(t, Reqs(c.id)) + 1, Number(s, Confs(c.id)))
        BY <3>1, <4>2
      <4> HIDE DEF c, z
      <4>7. Tally(z.st, c.NotAcknowledged, c.usDataHandle, Len(z.played), Len(z.unconf),
                  Number(t, Reqs(c.id)), Number(s, Confs(c.id)) + 1)
        BY <3>2, <4>5, <4>6, TallyTaken
      <4> QED  BY <4>3, <4>7 DEF c, z
    <3> QED  BY <3>3, <3>4
  <2> QED  BY <2>1 DEF Counted
<1>9. Recorded(u, t, l, f)
  <2>1. ASSUME NEW o \in Plcis, l[o].id # 0  PROVE Whole(u, t, l[o], o, f[l[o].id].data)
    <3>1. Whole(s, q, l[o], o, f[l[o].id].data)
      BY <1>1, <2>1 DEF Inv, Recorded
    <3> QED  BY <1>3, <1>6, <3>1 DEF Whole
  <2> QED  BY <2>1 DEF Recorded
<1> QED  BY <1>3, <1>5, <1>6, <1>7, <1>8, <1>9 DEF State, Inv

\* The brick takes an acknowledgement.
LEMMA TakesAck ==
    ASSUME NEW g, NEW s, NEW q, NEW l, NEW cs, NEW f, NEW r, State(g, s, q, l, cs, f, r),
           NEW t, NEW m, Rest(FromProg, q, t, m), m.type = "DATAB3_RESP",
           NEW ll, NEW y, Changed(l, ll, m.plci, y), Alike(l, ll),
           y.unconf = l[m.plci].unconf, y.played = l[m.plci].played,
           y.acked = l[m.plci].acked \cup {m.arg}
    PROVE  State(g, s, t, ll, cs, f, r)
<1>1. Shape(g, s, q, l, cs, f, r) /\ Inv(s, q, l, cs, f, r)
  BY DEF State
<1>2. StreamOk(s) /\ LineOk(l) /\ ListOk(g, cs) /\ r \in Nat /\ ReplyOk(q)
  BY <1>1, Elements
<1>3. State(g, s, t, l, cs, f, r)
  BY TakesPlain
<1>4. Shape(g, s, t, l, cs, f, r) /\ Inv(s, t, l, cs, f, r)
  BY <1>3 DEF State
<1>5. /\ Shape(g, s, t, ll, cs, f, r) /\ Numbered(ll, r) /\ Listed(ll, cs) /\ Told(s, ll, cs, r)
      /\ Replied(s, t, ll, cs) /\ \A p \in Plcis : Beginning(s, ll, p) <=> Beginning(s, l, p)
  BY <1>4, AlikeKeeps DEF Inv
<1>6. Ordered(s) /\ Filed(s, cs, f, r) /\ Queued(t, cs)
  BY <1>4 DEF Inv
<1>7. \A o \in Plcis : /\ ll[o].id = l[o].id /\ ll[o].st = l[o].st /\ ll[o].sent = l[o].sent
                       /\ ll[o].unconf = l[o].unconf /\ ll[o].played = l[o].played
                       /\ \A b : b \in ll[o].acked => b \in l[o].acked \/ (o = m.plci /\ b = m.arg)
  BY DEF Changed, Alike
<1>8. Begun(s, t, ll, cs)
  BY <1>4, <1>5, <1>7 DEF Inv, Begun
<1>9. Counted(s, t, ll, cs)
  <2>1. \A k \in DOMAIN cs : cs[k].plci \in Plcis
    BY <1>2 DEF ListOk
  <2> QED  BY <1>4, <1>7, <2>1 DEF Inv, Counted
<1>10. Playing(ll)
  BY <1>4, <1>7 DEF Inv, Playing
<1>11. Recorded(s, t, ll, f)
  <2>1. ASSUME NEW o \in Plcis, ll[o].id # 0  PROVE Whole(s, t, ll[o], o, f[ll[o].id].data)
    <3>1. Whole(s, q, l[o], o, f[l[o].id].data) /\ ll[o].id = l[o].id
      BY <1>1, <1>7, <2>1 DEF Inv, Recorded
    <3>2. ASSUME NEW b, Heard(t, ll[o], o, b)  PROVE Heard(q, l[o], o, b)
      <4>1. CASE Heard(t, l[o], o, b)
        BY <4>1, RestKeeps
      <4>2. CASE o = m.plci /\ b = m.arg
        BY <4>2 DEF Heard, Rest
      <4> QED  BY <1>7, <3>2, <4>1, <4>2 DEF Heard
    <3>3. \A b : Passed(s, l[o], o, b) => Passed(s, ll[o], o, b)
      BY <1>7 DEF Passed
    <3> QED  BY <3>1, <3>2, <3>3 DEF Whole
  <2> QED  BY <2>1 DEF Recorded
<1> QED  BY <1>5, <1>6, <1>8, <1>9, <1>10, <1>11 DEF State, Inv

\* The brick takes the response to the end of a call: its line is free.
LEMMA TakesEnd ==
    ASSUME NEW g, NEW s, NEW q, NEW l, NEW cs, NEW f, NEW r, State(g, s, q, l, cs, f, r),
           NEW t, NEW m, Rest(FromProg, q, t, m), m.type = "DISCONNECT_RESP",
           NEW ll, Changed(l, ll, m.plci, Idle)
    PROVE  State(g, s, t, ll, cs, f, r)
<1> DEFINE p == m.plci
<1>1. Shape(g, s, q, l, cs, f, r) /\ Inv(s, q, l, cs, f, r)
  BY DEF State
<1>2. StreamOk(s) /\ LineOk(l) /\ ListOk(g, cs) /\ r \in Nat /\ ReplyOk(q)
  BY <1>1, Elements
<1>3. Shape(g, s, t, ll, cs, f, r)
  BY <1>1 DEF Shape, Rest, Changed
<1>4. /\ p \in Plcis /\ ll[p] = Idle /\ \A o \in Plcis : o # p => ll[o] = l[o]
      /\ Idle.id = 0 /\ Idle.st = "free" /\ Idle.unconf = <<>> /\ Idle.played = <<>>
  BY DEF Changed, Idle
<1>5. /\ NoneOn(cs, p) /\ Len(q) = 1
      /\ \A j \in DOMAIN s : Tells(s[j]) /\ s[j].plci = p => s[j].type \in ConfTypes
  BY <1>1 DEF Rest, Inv, Replied
<1>6. DOMAIN t = {} /\ Len(t) = 0
  <2>1. t \in Seq(FromProg) /\ Len(q) = Len(t) + 1 /\ Len(t) \in Nat
    BY DEF Rest
  <2> DEFINE n == Len(t)
  <2>2. Len(q) = n + 1 /\ n \in Nat
    BY <2>1
  <2> HIDE DEF n
  <2>3. n = 0
    BY <1>5, <2>2
  <2>4. Len(t) = 0
    BY <2>3 DEF n
  <2> QED  BY <2>1, <2>4
<1>7. Numbered(ll, r)
  BY <1>1, <1>2, <1>4 DEF Inv, Numbered
<1>8. Listed(ll, cs)
  BY <1>1, <1>2, <1>4, <1>5 DEF Inv, Listed, ListOk, NoneOn
<1>9. Told(s, ll, cs, r)
  <2>1. ASSUME NEW k \in DOMAIN s, Tells(s[k])
        PROVE  /\ s[k].id <= r
               /\ \A o \in Plcis : s[k].id = ll[o].id => o = s[k].plci
               /\ \/ s[k].id = ll[s[k].plci].id
                  \/ s[k].type \in ConfTypes /\ NoneOn(cs, s[k].plci)
               /\ s[k].type = "CONNECT_IND" => ll[s[k].plci].st \in {"offered", "clearing"}
               /\ s[k].type = "CONNECTB3ACTIVE_IND" => ll[s[k].plci].st \notin {"offered", "b3offered"}
               /\ s[k].type = "DISCONNECTB3_IND" => Down(ll[s[k].plci].st)
               /\ s[k].type = "DISCONNECT_IND" => ll[s[k].plci].st = "clearing"
               /\ s[k].type = "DATAB3_IND" => s[k].arg <= ll[s[k].plci].sent
    <3>1. s[k].plci \in Plcis /\ s[k].id # 0
      BY <1>2, <2>1 DEF StreamOk
    <3>2. /\ s[k].id <= r
          /\ \A o \in Plcis : s[k].id = l[o].id => o = s[k].plci
          /\ \/ s[k].id = l[s[k].plci].id
             \/ s[k].type \in ConfTypes /\ NoneOn(cs, s[k].plci)
          /\ s[k].type = "CONNECT_IND" => l[s[k].plci].st \in {"offered", "clearing"}
          /\ s[k].type = "CONNECTB3ACTIVE_IND" => l[s[k].plci].st \notin {"offered", "b3offered"}
          /\ s[k].type = "DISCONNECTB3_IND" => Down(l[s[k].plci].st)
          /\ s[k].type = "DISCONNECT_IND" => l[s[k].plci].st = "clearing"
          /\ s[k].type = "DATAB3_IND" => s[k].arg <= l[s[k].plci].sent
      BY <1>1, <2>1 DEF Inv, Told
    <3>3. CASE s[k].plci # p
      BY <1>4, <3>1, <3>2, <3>3
    <3>4. CASE s[k].plci = p
      <4>1. s[k].type \in ConfTypes /\ NoneOn(cs, s[k].plci)
        BY <1>5, <2>1, <3>4
      <4>2. \A o \in Plcis : s[k].id = ll[o].id => o = s[k].plci
        BY <1>4, <3>1, <3>2
      <4> QED  BY <3>2, <4>1, <4>2 DEF ConfTypes
    <3> QED  BY <3>3, <3>4
  <2> QED  BY <2>1 DEF Told
<1>10. Ordered(s) /\ Filed(s, cs, f, r)
  BY <1>1 DEF Inv
<1>11. Replied(s, t, ll, cs) /\ Queued(t, cs)
  BY <1>6 DEF Replied, Queued
<1>12. Begun(s, t, ll, cs)
  <2>1. ASSUME NEW o \in Plcis, Beginning(s, ll, o)  PROVE Beginning(s, l, o) /\ o # p
    <3>1. o # p
      BY <1>4, <1>5, <2>1 DEF Beginning, Early, Starts, Tells, ConfTypes
    <3> QED  BY <1>4, <2>1, <3>1 DEF Beginning
  <2> QED  BY <1>1, <1>4, <1>6, <2>1 DEF Inv, Begun
<1>13. Counted(s, t, ll, cs)
  <2>1. ASSUME NEW i  PROVE Number(t, Reqs(i)) = Number(q, Reqs(i))
    <3>1. m \notin Reqs(i)
      BY DEF Reqs
    <3> QED  BY <3>1 DEF Rest
  <2>2. \A k \in DOMAIN cs : ll[cs[k].plci] = l[cs[k].plci]
    BY <1>2, <1>4, <1>5 DEF NoneOn, ListOk
  <2> QED  BY <1>1, <2>1, <2>2 DEF Inv, Counted
<1>14. Playing(ll)
  BY <1>1, <1>4 DEF Inv, Playing
<1>15. Recorded(s, t, ll, f)
  <2>1. ASSUME NEW o \in Plcis, ll[o].id # 0  PROVE Whole(s, t, ll[o], o, f[ll[o].id].data)
    <3>1. Whole(s, q, l[o], o, f[l[o].id].data) /\ ll[o] = l[o]
      BY <1>1, <1>4, <2>1 DEF Inv, Recorded
    <3> QED  BY <3>1, RestKeeps DEF Whole
  <2> QED  BY <2>1 DEF Recorded
<1> QED  BY <1>3, <1>7, <1>8, <1>9, <1>10, <1>11, <1>12, <1>13, <1>14, <1>15 DEF State, Inv

--------------------------------------------------------------------------------
(* The brick plays, a call comes in *)

\* A block has been played and is confirmed.
PlayedOne(x, y) ==
    /\ x.unconf # <<>> /\ y.unconf = Tail(x.unconf) /\ y.played = Append(x.played, Head(x.unconf))
    /\ y.acked = x.acked

LEMMA TallyConfirmed ==
    ASSUME NEW st, NEW n \in Nat, NEW u \in Nat, NEW played \in Nat, NEW unconf \in Nat,
           NEW req \in Nat, NEW conf \in Nat, Tally(st, n, u, played, unconf + 1, req, conf)
    PROVE  Tally(st, n, u, played + 1, unconf, req, conf + 1)
BY DEF Tally

LEMMA Plays ==
    ASSUME NEW g, NEW s, NEW q, NEW l, NEW cs, NEW f, NEW r, State(g, s, q, l, cs, f, r),
           NEW p \in Plcis, l[p].st = "b3up",
           NEW t, NEW a, Behind(FromBrick, s, t, a), a.type = "DATAB3_CONF", a.plci = p,
           a.id = l[p].id,
           NEW ll, NEW y, Changed(l, ll, p, y), Alike(l, ll), PlayedOne(l[p], y)
    PROVE  State(g, t, q, ll, cs, f, r)
<1> DEFINE x == l[p]
<1>1. Shape(g, s, q, l, cs, f, r) /\ Inv(s, q, l, cs, f, r)
  BY DEF State
<1>2. StreamOk(s) /\ LineOk(l) /\ ListOk(g, cs) /\ r \in Nat /\ ReplyOk(q)
  BY <1>1, Elements
<1>3. /\ Numbered(l, r) /\ Listed(l, cs) /\ Told(s, l, cs, r) /\ Ordered(s) /\ Filed(s, cs, f, r)
      /\ Replied(s, q, l, cs) /\ Queued(q, cs) /\ Begun(s, q, l, cs)
  BY <1>1 DEF Inv
<1>4. /\ ll[p] = y /\ y.id = x.id /\ y.st = "b3up" /\ x.id # 0
      /\ \A o \in Plcis : o # p => ll[o] = l[o]
      /\ \A o \in Plcis : ll[o].id = l[o].id /\ ll[o].sent = l[o].sent /\ ll[o].acked = l[o].acked
  BY <1>2 DEF Changed, Alike, PlayedOne, LineOk
<1>5. /\ Shape(g, t, q, l, cs, f, r)
      /\ Told(t, l, cs, r) /\ Ordered(t) /\ Replied(t, q, l, cs) /\ Filed(t, cs, f, r)
      /\ \A z, o, b : Passed(s, z, o, b) => Passed(t, z, o, b)
      /\ \A o : Beginning(t, l, o) => Beginning(s, l, o)
  <2>1. a.type \in ConfTypes
    BY DEF ConfTypes
  <2> QED  BY <1>1, <1>3, <1>4, <2>1, ConfBehind
<1>6. /\ Shape(g, t, q, ll, cs, f, r) /\ Numbered(ll, r) /\ Listed(ll, cs) /\ Told(t, ll, cs, r)
      /\ Replied(t, q, ll, cs) /\ \A o \in Plcis : Beginning(t, ll, o) <=> Beginning(t, l, o)
  BY <1>3, <1>5, AlikeKeeps
<1>7. x.unconf \in Seq(Nat) /\ x.played \in Seq(Nat) /\ x.unconf # <<>>
  BY <1>2 DEF LineOk, PlayedOne
<1>8. /\ Len(y.unconf) \in Nat /\ Len(x.unconf) = Len(y.unconf) + 1
      /\ Len(y.played) = Len(x.played) + 1 /\ Len(x.played) \in Nat
      /\ \A n \in DOMAIN y.unconf : n \in Nat /\ n + 1 \in DOMAIN x.unconf /\ y.unconf[n] = x.unconf[n + 1]
      /\ \A n \in DOMAIN x.played : y.played[n] = x.played[n]
      /\ \A n \in DOMAIN y.played : n \in DOMAIN x.played \/ n = Len(x.played) + 1
      /\ 1 \in DOMAIN x.unconf /\ y.played[Len(x.played) + 1] = x.unconf[1]
  <2> DEFINE u == x.unconf
             v == y.unconf
             d == x.played
             e == y.played
  <2>1. u \in Seq(Nat) /\ u # <<>> /\ v = Tail(u) /\ d \in Seq(Nat) /\ e = Append(d, Head(u))
    BY <1>7 DEF PlayedOne
  <2> HIDE DEF u, v, d, e
  <2>2. Head(u) \in Nat /\ 1 \in DOMAIN u /\ u[1] = Head(u)
    BY <2>1, TailOf
  <2>3. /\ Len(v) \in Nat /\ Len(u) = Len(v) + 1
        /\ \A n \in DOMAIN v : n \in Nat /\ n + 1 \in DOMAIN u /\ v[n] = u[n + 1]
    BY <2>1, TailOf
  <2>4. /\ Len(e) = Len(d) + 1 /\ Len(d) \in Nat
        /\ \A n \in DOMAIN d : e[n] = d[n]
        /\ \A n \in DOMAIN e : n \in DOMAIN d \/ n = Len(d) + 1
        /\ e[Len(d) + 1] = Head(u)
    BY <2>1, <2>2
  <2> QED  BY <2>2, <2>3, <2>4 DEF u, v, d, e
<1>9. ~Beginning(s, l, p)
  BY <1>3, <1>7 DEF Begun
<1>10. Begun(t, q, ll, cs)
  <2>1. ASSUME NEW o \in Plcis, Beginning(t, ll, o)
        PROVE  /\ ll[o].unconf = <<>> /\ ll[o].played = <<>>
               /\ \A k \in DOMAIN t : t[k].type = "DATAB3_CONF" => t[k].id # ll[o].id
               /\ \A k \in DOMAIN q : q[k].type = "DATAB3_REQ" => q[k].plci # o
               /\ \A k \in DOMAIN cs : cs[k].plci = o => Fresh(cs[k])
    <3>1. Beginning(s, l, o) /\ o # p /\ ll[o] = l[o]
      BY <1>4, <1>5, <1>6, <1>9, <2>1
    <3>2. a.id # l[o].id
      BY <1>3, <1>4, <3>1 DEF Numbered
    <3>3. \A k \in DOMAIN t : t[k].type = "DATAB3_CONF" => t[k].id # ll[o].id
      BY <1>3, <3>1, <3>2 DEF Begun, Behind
    <3> QED  BY <1>3, <3>1, <3>3 DEF Begun
  <2> QED  BY <2>1 DEF Begun
<1>11. Counted(t, q, ll, cs)
  <2>1. ASSUME NEW k \in DOMAIN cs
        PROVE  LET c == cs[k]  z == ll[c.plci]
               IN  Tally(z.st, c.NotAcknowledged, c.usDataHandle, Len(z.played), Len(z.unconf),
                         Number(q, Reqs(c.id)), Number(t, Confs(c.id)))
    <3> DEFINE c == cs[k]
               z == l[c.plci]
    <3>1. Tally(z.st, c.NotAcknowledged, c.usDataHandle, Len(z.played), Len(z.unconf),
                Number(q, Reqs(c.id)), Number(s, Confs(c.id)))
      BY <1>1 DEF Inv, Counted
    <3>2. /\ c.NotAcknowledged \in Nat /\ c.usDataHandle \in Nat
          /\ Number(q, Reqs(c.id)) \in Nat /\ Number(s, Confs(c.id)) \in Nat
      BY <1>1, CountedIn
    <3>3. CASE c.plci # p
      <4>1. ll[c.plci] = z
        BY <1>2, <1>4, <3>3 DEF ListOk
      <4>2. c.id # a.id
        <5>1. c.plci \in Plcis /\ l[c.plci].id = c.id
          BY <1>2, <1>3 DEF Listed, ListOk
        <5> QED  BY <1>3, <1>4, <3>3, <5>1 DEF Numbered
      <4>3. a \notin Confs(c.id)
        BY <4>2 DEF Confs
      <4>4. Number(t, Confs(c.id)) = Number(s, Confs(c.id))
        BY <4>3 DEF Behind
      <4> QED  BY <3>1, <4>1, <4>4
    <3>4. CASE c.plci = p
      <4>1. ll[c.plci] = y /\ z = x /\ y.st = z.st
        BY <1>4, <3>4
      <4>2. c.id = a.id
        BY <1>3, <3>4 DEF Listed
      <4>3. a \in Confs(c.id)
        BY <4>2 DEF Confs, Behind
      <4>4. Number(t, Confs(c.id)) = Number(s, Confs(c.id)) + 1
        BY <4>3 DEF Behind
      <4>5. Tally(z.st, c.NotAcknowledged, c.usDataHandle, Len(x.played), Len(y.unconf) + 1,
                  Number(q, Reqs(c.id)), Number(s, Confs(c.id)))
        BY <1>8, <3>1, <4>1
      <4> HIDE DEF c, z, x
      <4>6. Tally(z.st, c.NotAcknowledged, c.usDataHandle, Len(x.played) + 1, Len(y.unconf),
                  Number(q, Reqs(c.id)), Number(s, Confs(c.id)) + 1)
        BY <1>8, <3>2, <4>5, TallyConfirmed
      <4>7. Tally(y.st, c.NotAcknowledged, c.usDataHandle, Len(y.played), Len(y.unconf),
                  Number(q, Reqs(c.id)), Number(t, Confs(c.id)))
        BY <1>8, <4>1, <4>4, <4>6
      <4> QED  BY <4>1, <4>7 DEF c
    <3> QED  BY <3>3, <3>4
  <2> QED  BY <2>1 DEF Counted
<1>12. Playing(ll)
  <2>1. /\ \A n \in DOMAIN x.played : x.played[n] = n
        /\ \A n \in DOMAIN x.unconf : x.unconf[n] = Len(x.played) + n
    BY <1>1 DEF Inv, Playing
  <2>2. \A n \in DOMAIN y.played : y.played[n] = n
    BY <1>8, <2>1
  <2>3. ASSUME NEW n \in DOMAIN y.unconf  PROVE y.unconf[n] = Len(y.played) + n
    <3>1. n \in Nat /\ y.unconf[n] = Len(x.played) + (n + 1)
      BY <1>8, <2>1
    <3> DEFINE d == Len(x.played)
    <3>2. Len(y.played) = d + 1 /\ d \in Nat /\ y.unconf[n] = d + (n + 1)
      BY <1>8, <3>1
    <3> HIDE DEF d
    <3>3. d + (n + 1) = (d + 1) + n
      BY <3>1, <3>2
    <3> QED  BY <3>2, <3>3
  <2>4. ASSUME NEW o \in Plcis
        PROVE  /\ ll[o].st # "b3up" => ll[o].unconf = <<>>
               /\ \A n \in DOMAIN ll[o].played : ll[o].played[n] = n
               /\ \A n \in DOMAIN ll[o].unconf : ll[o].unconf[n] = Len(ll[o].played) + n
    <3>1. CASE o = p
      BY <1>4, <2>2, <2>3, <3>1
    <3>2. CASE o # p
      <4>1. ll[o] = l[o]
        BY <1>4, <3>2
      <4> QED  BY <1>1, <4>1 DEF Inv, Playing
    <3> QED  BY <3>1, <3>2
  <2> QED  BY <2>4 DEF Playing
<1>13. Recorded(t, q, ll, f)
  <2>1. ASSUME NEW o \in Plcis, ll[o].id # 0  PROVE Whole(t, q, ll[o], o, f[ll[o].id].data)
    <3>1. Whole(s, q, l[o], o, f[l[o].id].data) /\ ll[o].id = l[o].id
      BY <1>1, <1>4, <2>1 DEF Inv, Recorded
    <3>2. \A b : Heard(q, ll[o], o, b) => Heard(q, l[o], o, b)
      BY <1>4 DEF Heard
    <3>3. \A b : Passed(s, l[o], o, b) => Passed(t, ll[o], o, b)
      <4>1. \A b : Passed(t, l[o], o, b) => Passed(t, ll[o], o, b)
        BY <1>4 DEF Passed
      <4> QED  BY <1>5, <4>1
    <3> QED  BY <3>1, <3>2, <3>3 DEF Whole
  <2> QED  BY <2>1 DEF Recorded
<1> QED  BY <1>3, <1>5, <1>6, <1>10, <1>11, <1>12, <1>13 DEF State, Inv

\* A call comes in on line p.
Rung(x, i) ==
    /\ x.id = i /\ x.st = "offered" /\ x.unconf = <<>> /\ x.played = <<>> /\ x.acked = {}
LEMMA Rings ==
    ASSUME NEW g, NEW s, NEW l, NEW cs, NEW f, NEW r, State(g, s, <<>>, l, cs, f, r),
           r < MaxCalls, NEW p \in Plcis, l[p].st = "free",
           NEW t, NEW a, Behind(FromBrick, s, t, a), a.type = "CONNECT_IND", a.plci = p, a.id = r + 1,
           NEW ll, NEW y, Changed(l, ll, p, y), Rung(y, r + 1)
    PROVE  State(g, t, <<>>, ll, cs, f, r + 1)
<1>1. Shape(g, s, <<>>, l, cs, f, r) /\ Inv(s, <<>>, l, cs, f, r)
  BY DEF State
<1>2. StreamOk(s) /\ LineOk(l) /\ ListOk(g, cs) /\ r \in Nat /\ r + 1 \in CallIds /\ r + 1 > r
  <2>1. StreamOk(s) /\ LineOk(l) /\ ListOk(g, cs) /\ r \in Nat
    BY <1>1, Elements
  <2> QED  BY <2>1, Constants DEF CallIds
<1>3. Shape(g, t, <<>>, ll, cs, f, r + 1)
  <2>1. r + 1 \in 0 .. MaxCalls
    BY <1>2 DEF CallIds
  <2> QED  BY <1>1, <2>1 DEF Shape, Behind, Changed
<1>4. /\ ll[p] = y /\ y.id = r + 1 /\ y.st = "offered" /\ l[p].id = 0
      /\ \A o \in Plcis : o # p => ll[o] = l[o]
  BY <1>2 DEF Changed, Rung, LineOk
<1>5. /\ \A k \in DOMAIN s : k \in DOMAIN t /\ t[k] = s[k] /\ k < Len(t)
      /\ \A k \in DOMAIN t : k \in DOMAIN s \/ (k = Len(t) /\ t[k] = a)
  BY DEF Behind
<1>6. \A o \in Plcis : l[o].id \in Nat /\ l[o].id <= r
  BY <1>1, <1>2 DEF Inv, Numbered, LineOk
<1>7. NoneOn(cs, p) /\ \A k \in DOMAIN cs : cs[k].plci \in Plcis /\ cs[k].id # r + 1
  <2>1. \A k \in DOMAIN cs : cs[k].plci \in Plcis /\ l[cs[k].plci].id = cs[k].id /\ cs[k].id # 0
    BY <1>1, <1>2 DEF Inv, Listed, ListOk
  <2>2. \A k \in DOMAIN cs : cs[k].id <= r
    BY <1>6, <2>1
  <2> QED  BY <1>2, <1>4, <2>1, <2>2 DEF NoneOn
<1>8. Numbered(ll, r + 1)
  <2>1. \A o \in Plcis : ll[o].id <= r + 1
    BY <1>2, <1>4, <1>6
  <2>2. \A o \in Plcis : l[o].id # r + 1
    BY <1>2, <1>6
  <2>3. ASSUME NEW o \in Plcis, NEW n \in Plcis, ll[o].id = ll[n].id, ll[o].id # 0  PROVE o = n
    <3>1. CASE o = p \/ n = p
      BY <1>4, <2>2, <2>3, <3>1
    <3>2. CASE o # p /\ n # p
      BY <1>1, <1>4, <2>3, <3>2 DEF Inv, Numbered
    <3> QED  BY <3>1, <3>2
  <2> QED  BY <2>1, <2>3 DEF Numbered
<1>9. Listed(ll, cs)
  BY <1>1, <1>4, <1>7 DEF Inv, Listed, NoneOn
<1>10. Told(t, ll, cs, r + 1)
  <2>1. ASSUME NEW k \in DOMAIN s, Tells(s[k])
        PROVE  /\ s[k].id <= r + 1
               /\ \A o \in Plcis : s[k].id = ll[o].id => o = s[k].plci
               /\ \/ s[k].id = ll[s[k].plci].id
                  \/ s[k].type \in ConfTypes /\ NoneOn(cs, s[k].plci)
               /\ s[k].type = "CONNECT_IND" => ll[s[k].plci].st \in {"offered", "clearing"}
               /\ s[k].type = "CONNECTB3ACTIVE_IND" => ll[s[k].plci].st \notin {"offered", "b3offered"}
               /\ s[k].type = "DISCONNECTB3_IND" => Down(ll[s[k].plci].st)
               /\ s[k].type = "DISCONNECT_IND" => ll[s[k].plci].st = "clearing"
               /\ s[k].type = "DATAB3_IND" => s[k].arg <= ll[s[k].plci].sent
    <3>1. s[k].plci \in Plcis /\ s[k].id # 0 /\ s[k].id \in Nat
      BY <1>2, <2>1 DEF StreamOk
    <3>2. /\ s[k].id <= r
          /\ \A o \in Plcis : s[k].id = l[o].id => o = s[k].plci
          /\ \/ s[k].id = l[s[k].plci].id
             \/ s[k].type \in ConfTypes /\ NoneOn(cs, s[k].plci)
          /\ s[k].type = "CONNECT_IND" => l[s[k].plci].st \in {"offered", "clearing"}
          /\ s[k].type = "CONNECTB3ACTIVE_IND" => l[s[k].plci].st \notin {"offered", "b3offered"}
          /\ s[k].type = "DISCONNECTB3_IND" => Down(l[s[k].plci].st)
          /\ s[k].type = "DISCONNECT_IND" => l[s[k].plci].st = "clearing"
          /\ s[k].type = "DATAB3_IND" => s[k].arg <= l[s[k].plci].sent
      BY <1>1, <2>1 DEF Inv, Told
    <3>3. s[k].id <= r + 1 /\ s[k].id # r + 1
      BY <1>2, <3>1, <3>2
    <3>4. \A o \in Plcis : s[k].id = ll[o].id => o = s[k].plci
      BY <1>4, <3>2, <3>3
    <3>5. CASE s[k].plci # p
      BY <1>4, <3>1, <3>2, <3>3, <3>4, <3>5
    <3>6. CASE s[k].plci = p
      <4>1. s[k].type \in ConfTypes /\ NoneOn(cs, s[k].plci)
        BY <1>4, <3>1, <3>2, <3>6
      <4> QED  BY <3>3, <3>4, <4>1 DEF ConfTypes
    <3> QED  BY <3>5, <3>6
  <2>2. \A o \in Plcis : a.id = ll[o].id => o = p
    BY <1>2, <1>4, <1>6
  <2> QED  BY <1>2, <1>4, <1>5, <2>1, <2>2 DEF Told
<1>11. Ordered(t)
  <2>1. ASSUME NEW j \in DOMAIN s, Tells(s[j])  PROVE Before(s[j], a)
    <3>1. s[j].plci = p => s[j].type \in ConfTypes /\ s[j].id # r + 1
      <4>1. s[j].id \in Nat /\ s[j].id <= r /\ s[j].id # 0
        BY <1>1, <1>2, <2>1 DEF Inv, Told, StreamOk
      <4>2. s[j].plci = p => s[j].type \in ConfTypes
        BY <1>1, <1>4, <2>1, <4>1 DEF Inv, Told
      <4> QED  BY <1>2, <4>1, <4>2
    <3> QED  BY <3>1 DEF Before, ConfTypes
  <2>2. ASSUME NEW j \in DOMAIN t, NEW k \in DOMAIN t, j < k, Tells(t[j]), Tells(t[k])
        PROVE  Before(t[j], t[k])
    <3>1. j \in DOMAIN s
      <4>1. k <= Len(t) /\ j \in Nat /\ k \in Nat /\ Len(t) \in Nat
        BY <1>3 DEF Shape
      <4> QED  BY <1>5, <2>2, <4>1
    <3>2. CASE k \in DOMAIN s
      BY <1>1, <1>5, <2>2, <3>1, <3>2 DEF Inv, Ordered
    <3>3. CASE t[k] = a
      BY <1>5, <2>1, <2>2, <3>1, <3>3
    <3> QED  BY <1>5, <3>2, <3>3
  <2> QED  BY <2>2 DEF Ordered
<1>12. Replied(t, <<>>, ll, cs) /\ Queued(<<>>, cs)
  BY DEF Replied, Queued
<1>13. Begun(t, <<>>, ll, cs)
  <2>1. ASSUME NEW o \in Plcis, o # p, Beginning(t, ll, o)  PROVE Beginning(s, l, o) /\ ll[o] = l[o]
    BY <1>4, <1>5, <2>1 DEF Beginning, Starts
  <2>2. \A o \in Plcis : a.type = "DATAB3_CONF" => a.id # ll[o].id
    OBVIOUS
  <2>3. \A k \in DOMAIN s : s[k].type = "DATAB3_CONF" => s[k].id # r + 1
    <3>1. ASSUME NEW k \in DOMAIN s, s[k].type = "DATAB3_CONF"  PROVE s[k].id # r + 1
      <4>1. Tells(s[k])
        BY <3>1 DEF Tells
      <4>2. s[k].id \in Nat /\ s[k].id <= r
        BY <1>1, <1>2, <4>1 DEF Inv, Told, StreamOk
      <4> QED  BY <1>2, <4>2
    <3> QED  BY <3>1
  <2>4. ASSUME NEW o \in Plcis, Beginning(t, ll, o)
        PROVE  /\ ll[o].unconf = <<>> /\ ll[o].played = <<>>
               /\ \A k \in DOMAIN t : t[k].type = "DATAB3_CONF" => t[k].id # ll[o].id
               /\ \A k \in DOMAIN cs : cs[k].plci = o => Fresh(cs[k])
    <3>1. CASE o = p
      BY <1>4, <1>5, <1>7, <2>3, <3>1 DEF Rung, NoneOn
    <3>2. CASE o # p
      BY <1>1, <1>5, <2>1, <2>4, <3>2 DEF Inv, Begun
    <3> QED  BY <3>1, <3>2
  <2> QED  BY <2>4 DEF Begun
<1>14. Counted(t, <<>>, ll, cs)
  <2>1. ASSUME NEW i  PROVE Number(t, Confs(i)) = Number(s, Confs(i))
    <3>1. a \notin Confs(i)
      BY DEF Confs
    <3> QED  BY <3>1 DEF Behind
  <2>2. \A k \in DOMAIN cs : ll[cs[k].plci] = l[cs[k].plci]
    BY <1>4, <1>7 DEF NoneOn
  <2> QED  BY <1>1, <2>1, <2>2 DEF Inv, Counted
<1>15. Playing(ll)
  <2>1. ASSUME NEW o \in Plcis
        PROVE  /\ ll[o].st # "b3up" => ll[o].unconf = <<>>
               /\ \A n \in DOMAIN ll[o].played : ll[o].played[n] = n
               /\ \A n \in DOMAIN ll[o].unconf : ll[o].unconf[n] = Len(ll[o].played) + n
    <3>1. CASE o = p
      BY <1>4, <3>1 DEF Rung
    <3>2. CASE o # p
      <4>1. ll[o] = l[o]
        BY <1>4, <3>2
      <4> QED  BY <1>1, <4>1 DEF Inv, Playing
    <3> QED  BY <3>1, <3>2
  <2> QED  BY <2>1 DEF Playing
<1>16. Filed(t, cs, f, r + 1)
  <2>1. Filed(s, cs, f, r)
    BY <1>1 DEF Inv
  <2>2. \A i \in CallIds : i > r + 1 => f[i] = Empty
    <3>1. \A i \in CallIds : i > r + 1 => i > r
      BY <1>2 DEF CallIds
    <3> QED  BY <2>1, <3>1 DEF Filed
  <2>3. f[r + 1] = Empty
    BY <1>2, <2>1 DEF Filed
  <2>4. \A j \in DOMAIN t : t[j].type = "CONNECT_IND" =>
           f[t[j].id] = Empty /\ \A k \in DOMAIN cs : cs[k].id # t[j].id
    BY <1>5, <1>7, <2>1, <2>3 DEF Filed
  <2> QED  BY <2>1, <2>2, <2>4 DEF Filed
<1>17. Recorded(t, <<>>, ll, f)
  <2>1. ASSUME NEW o \in Plcis, ll[o].id # 0, o # p  PROVE Whole(t, <<>>, ll[o], o, f[ll[o].id].data)
    <3>1. Whole(s, <<>>, l[o], o, f[l[o].id].data) /\ ll[o] = l[o]
      BY <1>1, <1>4, <2>1 DEF Inv, Recorded
    <3>2. \A b : Passed(s, l[o], o, b) => Passed(t, l[o], o, b)
      BY <1>5 DEF Passed
    <3> QED  BY <3>1, <3>2 DEF Whole
  <2>2. Whole(t, <<>>, y, p, f[r + 1].data)
    <3>1. f[r + 1].data = <<>>
      BY <1>1, <1>2 DEF Inv, Filed, Empty
    <3>2. \A b : ~Heard(<<>>, y, p, b)
      BY DEF Heard, Rung
    <3> QED  BY <3>1, <3>2 DEF Whole
  <2> QED  BY <1>4, <2>1, <2>2 DEF Recorded
<1> QED  BY <1>3, <1>8, <1>9, <1>10, <1>11, <1>12, <1>13, <1>14, <1>15, <1>16, <1>17 DEF State, Inv

\* The program has registered, and asked for calls.
LEMMA Begins ==
    ASSUME NEW g \in Configs, NEW f, f = [i \in CallIds |-> Empty]
    PROVE  /\ State(g, <<>>, <<>>, [p \in Plcis |-> Idle], <<>>, f, 0)
           /\ \A r : State(g, <<>>, <<>>, [p \in Plcis |-> Idle], <<>>, f, r) =>
                        State(g, <<ListenConf>>, <<>>, [p \in Plcis |-> Idle], <<>>, f, r)
<1> DEFINE l == [p \in Plcis |-> Idle]
<1>1. Idle.id = 0 /\ Idle.st = "free" /\ Idle.unconf = <<>> /\ Idle.played = <<>>
  BY DEF Idle
<1>2. \A p \in Plcis : l[p] = Idle
  OBVIOUS
<1>3. l \in [Plcis -> Lines]
  BY DEF Lines
<1>4. Empty \in Files /\ Empty.data = <<>> /\ Empty.size = 0
  BY DEF Empty, Files
<1>5. f \in [CallIds -> Files] /\ \A i \in CallIds : f[i] = Empty
  BY <1>4
<1>6. 0 \in 0 .. MaxCalls
  BY Constants
<1> HIDE DEF l
<1>7. Shape(g, <<>>, <<>>, l, <<>>, f, 0)
  BY <1>3, <1>5, <1>6 DEF Shape
<1>8. Numbered(l, 0) /\ Listed(l, <<>>) /\ Playing(l)
  BY <1>1, <1>2 DEF Numbered, Listed, Playing
<1>9. Told(<<>>, l, <<>>, 0) /\ Ordered(<<>>) /\ Replied(<<>>, <<>>, l, <<>>) /\ Queued(<<>>, <<>>)
  BY DEF Told, Ordered, Replied, Queued
<1>10. Begun(<<>>, <<>>, l, <<>>) /\ Counted(<<>>, <<>>, l, <<>>)
  BY <1>1, <1>2 DEF Begun, Counted
<1>11. Filed(<<>>, <<>>, f, 0)
  BY <1>4, <1>5 DEF Filed
<1>12. Recorded(<<>>, <<>>, l, f)
  BY <1>1, <1>2 DEF Recorded
<1>13. State(g, <<>>, <<>>, l, <<>>, f, 0)
  BY <1>7, <1>8, <1>9, <1>10, <1>11, <1>12 DEF State, Inv
<1>14. ASSUME NEW r, State(g, <<>>, <<>>, l, <<>>, f, r)
       PROVE  State(g, <<ListenConf>>, <<>>, l, <<>>, f, r)
  <2> DEFINE s == <<ListenConf>>
  <2>1. ListenConf \in FromBrick /\ ListenConf.type = "LISTEN_CONF" /\ ~Tells(ListenConf)
    BY DEF FromBrick, ListenConf, NoMsg, Tells
  <2>2. s \in Seq(FromBrick) /\ \A k \in DOMAIN s : s[k] = ListenConf
    <3> HIDE DEF ListenConf
    <3> QED  BY <2>1
  <2> HIDE DEF s
  <2>3. Shape(g, <<>>, <<>>, l, <<>>, f, r) /\ Inv(<<>>, <<>>, l, <<>>, f, r)
    BY <1>14 DEF State
  <2>4. Shape(g, s, <<>>, l, <<>>, f, r)
    BY <2>2, <2>3 DEF Shape
  <2>5. Numbered(l, r) /\ Listed(l, <<>>) /\ Playing(l) /\ Queued(<<>>, <<>>)
    BY <2>3 DEF Inv
  <2>6. Told(s, l, <<>>, r) /\ Ordered(s) /\ Replied(s, <<>>, l, <<>>)
    BY <2>1, <2>2 DEF Told, Ordered, Replied
  <2>7. Begun(s, <<>>, l, <<>>) /\ Counted(s, <<>>, l, <<>>)
    BY <1>1, <1>2, <2>1, <2>2 DEF Begun, Counted
  <2>8. Filed(s, <<>>, f, r)
    BY <1>4, <1>5, <2>1, <2>2 DEF Filed
  <2>9. Recorded(s, <<>>, l, f)
    BY <1>1, <1>2 DEF Recorded
  <2>10. State(g, s, <<>>, l, <<>>, f, r)
    BY <2>4, <2>5, <2>6, <2>7, <2>8, <2>9 DEF State, Inv
  <2> QED  BY <2>10 DEF s
<1> QED  BY <1>13, <1>14 DEF l

--------------------------------------------------------------------------------
(* The steps of the program *)

PcValues == {"init", "poll", "exit", "killed"}

LEMMA Bridge ==
    IInv <=> /\ pc \in PcValues /\ Control
             /\ State(cfg, toProg, toBrick, line, calls, files, rung)
BY DEF IInv, Typed, PcValues, State, Shape

\* capi_event has a message.
LEMMA EventFacts ==
    ASSUME IInv, NEW type, Event(type)
    PROVE  /\ cfg' = cfg /\ line' = line /\ rung' = rung /\ cfg \in Configs
           /\ State(cfg, toProg, <<>>, line, calls, files, rung)
           /\ Rest(FromBrick, toProg, Tail(toProg), capi) /\ capi.type = type
           /\ calls \in Seq(CallRecords(cfg)) /\ capi \in FromBrick
<1>1. State(cfg, toProg, toBrick, line, calls, files, rung)
  BY Bridge
<1>2. /\ cfg' = cfg /\ line' = line /\ rung' = rung /\ toBrick = <<>> /\ toProg # <<>>
      /\ capi.type = type
  BY DEF Event
<1>3. Shape(cfg, toProg, toBrick, line, calls, files, rung)
  BY <1>1 DEF State
<1>4. cfg \in Configs /\ toProg \in Seq(FromBrick) /\ calls \in Seq(CallRecords(cfg))
  BY <1>3 DEF Shape
<1>5. Rest(FromBrick, toProg, Tail(toProg), capi)
  BY <1>2, <1>4, RestOf DEF capi
<1>6. capi \in FromBrick
  BY <1>5 DEF Rest
<1> QED  BY <1>1, <1>2, <1>4, <1>5, <1>6

\* A message of Plain.
Harmless(a, p, x) ==
    /\ a \in FromProg /\ a.plci = p /\ a.id = x.id
    /\ a.type = "DISCONNECT_REQ" => Down(x.st)
    /\ a.type \notin {"DATAB3_REQ", "DATAB3_RESP", "DISCONNECT_RESP"}

LEMMA PlainOf ==
    ASSUME NEW p, NEW x
    PROVE  /\ <<>> \in Seq(FromProg) /\ Plain(<<>>, p, x)
           /\ \A a : Harmless(a, p, x) => <<a>> \in Seq(FromProg) /\ Plain(<<a>>, p, x)
           /\ \A a, b : Harmless(a, p, x) /\ Harmless(b, p, x) =>
                           <<a, b>> \in Seq(FromProg) /\ Plain(<<a, b>>, p, x)
           /\ \A a, b, c : Harmless(a, p, x) /\ Harmless(b, p, x) /\ Harmless(c, p, x) =>
                              <<a, b, c>> \in Seq(FromProg) /\ Plain(<<a, b, c>>, p, x)
<1>1. <<>> \in Seq(FromProg) /\ Plain(<<>>, p, x)
  BY DEF Plain
<1>2. ASSUME NEW a, Harmless(a, p, x)
      PROVE  <<a>> \in Seq(FromProg) /\ Plain(<<a>>, p, x)
  BY <1>2 DEF Plain, Harmless
<1>3. ASSUME NEW a, NEW b, Harmless(a, p, x), Harmless(b, p, x)
      PROVE  <<a, b>> \in Seq(FromProg) /\ Plain(<<a, b>>, p, x)
  BY <1>3 DEF Plain, Harmless
<1>4. ASSUME NEW a, NEW b, NEW c, Harmless(a, p, x), Harmless(b, p, x), Harmless(c, p, x)
      PROVE  <<a, b, c>> \in Seq(FromProg) /\ Plain(<<a, b, c>>, p, x)
  BY <1>4 DEF Plain, Harmless
<1> QED  BY <1>1, <1>2, <1>3, <1>4

\* The program's messages about the call of capi.
LEMMA AboutIn ==
    ASSUME capi \in FromBrick, Tells(capi), NEW type \in AnswerTypes, NEW arg \in Nat
    PROVE  /\ About(type, arg) \in FromProg
           /\ About(type, arg).type = type /\ About(type, arg).plci = capi.plci
           /\ About(type, arg).id = capi.id /\ About(type, arg).arg = arg
<1>1. capi \in Tellings
  BY TellsIn
<1>2. capi.plci \in Plcis /\ capi.b3 \in BOOLEAN /\ capi.id \in CallIds
  BY <1>1 DEF Tellings
<1> QED  BY <1>2 DEF About, FromProg

LEMMA AboutHarmless ==
    ASSUME capi \in FromBrick, Tells(capi), capi.id = line[capi.plci].id,
           NEW type \in AnswerTypes \ {"DATAB3_REQ", "DATAB3_RESP", "DISCONNECT_RESP"},
           type = "DISCONNECT_REQ" => Down(line[capi.plci].st), NEW arg \in Nat
    PROVE  Harmless(About(type, arg), capi.plci, line[capi.plci])
BY AboutIn DEF Harmless

\* Whatever is told of a line's call.
LEMMA IndFacts ==
    ASSUME IInv, NEW type \in IndTypes, Event(type)
    PROVE  /\ capi \in FromBrick /\ Tells(capi) /\ capi.plci \in Plcis /\ capi.arg \in Nat
           /\ capi.id = line[capi.plci].id /\ capi.id \in CallIds
           /\ capi.b3 <=> type \in NcciTypes
           /\ \A k \in DOMAIN Tail(toProg) :
                 Tail(toProg)[k].plci = capi.plci => Tail(toProg)[k].type # "CONNECT_IND"
<1>1. /\ State(cfg, toProg, <<>>, line, calls, files, rung)
      /\ Rest(FromBrick, toProg, Tail(toProg), capi) /\ capi.type = type /\ capi \in FromBrick
  BY EventFacts
<1>2. /\ Tells(capi) /\ capi.plci \in Plcis /\ capi.arg \in Nat
      /\ capi.b3 <=> type \in NcciTypes
  BY <1>1, TellsIn
<1>3. /\ capi.type \in IndTypes => capi.id = line[capi.plci].id
      /\ capi.id \in CallIds
      /\ capi.id = line[capi.plci].id => \A k \in DOMAIN Tail(toProg) :
            Tail(toProg)[k].plci = capi.plci => Tail(toProg)[k].type # "CONNECT_IND"
  <2> DEFINE t == Tail(toProg)
             m == capi
  <2>1. State(cfg, toProg, <<>>, line, calls, files, rung) /\ Rest(FromBrick, toProg, t, m) /\ Tells(m)
    BY <1>1, <1>2
  <2> HIDE DEF t, m
  <2>2. /\ m.type \in IndTypes => m.id = line[m.plci].id
        /\ m.id \in CallIds
        /\ m.id = line[m.plci].id => \A k \in DOMAIN t : t[k].plci = m.plci => t[k].type # "CONNECT_IND"
    BY <2>1, HeadFacts
  <2> QED  BY <2>2 DEF t, m
<1> QED  BY <1>1, <1>2, <1>3

\* The program answers with messages of Plain; of the calls it changes at most states.
LEMMA Plainly ==
    ASSUME IInv, NEW type \in IndTypes, Event(type), files' = files,
           NEW cs \in Seq(CallRecords(cfg)), SameCalls(calls, cs), calls' = cs,
           NEW ms \in Seq(FromProg), Plain(ms, capi.plci, line[capi.plci]),
           NEW next, Sends(ms, next)
    PROVE  State(cfg', toProg', toBrick', line', calls', files', rung')
<1>1. /\ State(cfg, toProg, <<>>, line, calls, files, rung)
      /\ Rest(FromBrick, toProg, Tail(toProg), capi) /\ capi.type = type
      /\ cfg' = cfg /\ line' = line /\ rung' = rung
  BY EventFacts
<1>2. type # "DATAB3_CONF"
  BY DEF IndTypes
<1>3. State(cfg, Tail(toProg), <<>>, line, calls, files, rung)
  BY <1>1, <1>2, TakesProg
<1>4. State(cfg, Tail(toProg), <<>>, line, cs, files, rung)
  BY <1>3, KeepsCalls
<1>5. /\ capi.plci \in Plcis
      /\ \A k \in DOMAIN Tail(toProg) :
            Tail(toProg)[k].plci = capi.plci => Tail(toProg)[k].type # "CONNECT_IND"
  BY IndFacts
<1>6. State(cfg, Tail(toProg), ms, line, cs, files, rung)
  BY <1>4, <1>5, PutsPlain
<1>7. toProg' = Tail(toProg) /\ toBrick' = ms
  BY DEF Sends
<1> QED  BY <1>1, <1>6, <1>7

\* NEWSTATE leaves the rest of a call alone.
LEMMA NewStates ==
    ASSUME calls \in Seq(CallRecords(cfg)), NEW k, k = 0 \/ k \in DOMAIN calls,
           NEW st \in States \ {"OverlapReceiving"}
    PROVE  NewState(calls, k, st) \in Seq(CallRecords(cfg)) /\ SameCalls(calls, NewState(calls, k, st))
<1>1. CASE k = 0
  BY <1>1 DEF NewState, SameCalls
<1>2. CASE k # 0
  <2> DEFINE c == calls[k]
             d == [c EXCEPT !.state = st]
  <2>1. c \in CallRecords(cfg) /\ k \in DOMAIN calls
    BY <1>2
  <2>2. /\ d \in CallRecords(cfg)
        /\ d.id = c.id /\ d.plci = c.plci /\ d.rxfp = c.rxfp
        /\ d.usDataHandle = c.usDataHandle /\ d.NotAcknowledged = c.NotAcknowledged
    BY <2>1 DEF CallRecords, Shapes
  <2>3. NewState(calls, k, st) = [calls EXCEPT ![k] = d]
    BY <1>2 DEF NewState
  <2> HIDE DEF d
  <2>4. [calls EXCEPT ![k] = d] \in Seq(CallRecords(cfg))
    BY <2>1, <2>2
  <2>5. SameCalls(calls, [calls EXCEPT ![k] = d])
    BY <2>1, <2>2 DEF SameCalls
  <2> QED  BY <2>3, <2>4, <2>5
<1> QED  BY <1>1, <1>2

LEMMA Infos ==
    ASSUME IInv, InfoInd
    PROVE  State(cfg', toProg', toBrick', line', calls', files', rung')
<1> DEFINE k == ByIdent
           waits == k # 0 /\ calls[k].state = "OverlapReceiving"
           cs == IF waits THEN [calls EXCEPT ![k].ncnt = @ + 1] ELSE calls
           complete == waits /\ cs[k].ncnt >= cfg.ncnt
           a == About("INFO_RESP", 0)
           b(arg) == About("CONNECT_RESP", arg)
           ds(st) == NewState(cs, k, st)
<1>1. /\ Event("INFO_IND") /\ files' = files
      /\ \/ ~complete /\ calls' = cs /\ Sends(<<a>>, "poll")
         \/ complete /\ calls' = ds("D_ConnectPending") /\ Sends(<<a, b(0)>>, "poll")
         \/ complete /\ calls' = ds("IgnoreDisconnect") /\ Sends(<<a, b(1)>>, "poll")
  BY DEF InfoInd
<1>2. "INFO_IND" \in IndTypes
  BY DEF IndTypes
<1>3. /\ capi \in FromBrick /\ Tells(capi) /\ capi.plci \in Plcis
      /\ capi.id = line[capi.plci].id /\ calls \in Seq(CallRecords(cfg)) /\ cfg \in Configs
  BY <1>1, <1>2, IndFacts, EventFacts
<1>4. /\ Harmless(a, capi.plci, line[capi.plci])
      /\ Harmless(b(0), capi.plci, line[capi.plci]) /\ Harmless(b(1), capi.plci, line[capi.plci])
  BY <1>3, AboutHarmless DEF AnswerTypes
<1>5. k = 0 \/ k \in DOMAIN calls
  BY <1>3, Lookup
<1>6. CASE waits
  <2> DEFINE c == calls[k]
             d == [c EXCEPT !.ncnt = @ + 1]
             e(st) == [d EXCEPT !.state = st]
  <2>1. c \in CallRecords(cfg) /\ k \in DOMAIN calls /\ k # 0
    BY <1>3, <1>5, <1>6
  <2>2. c.state = "OverlapReceiving" /\ c.ncnt \in Nat /\ c.ncnt < cfg.ncnt /\ cfg.ncnt \in Nat
    <3>1. c \in Shapes(cfg) /\ cfg.ncnt \in Nat /\ cfg.has \in Nat
      BY <1>3, <2>1, Options DEF CallRecords
    <3> QED  BY <1>6, <3>1, ShapeIn
  <2>3. cs = [calls EXCEPT ![k] = d] /\ cs[k] = d /\ d.ncnt = c.ncnt + 1
    BY <1>6, <2>1 DEF CallRecords, Shapes
  <2>4. /\ d.id = c.id /\ d.plci = c.plci /\ d.rxfp = c.rxfp
        /\ d.usDataHandle = c.usDataHandle /\ d.NotAcknowledged = c.NotAcknowledged
        /\ \A st \in States :
              /\ e(st).id = c.id /\ e(st).plci = c.plci /\ e(st).rxfp = c.rxfp
              /\ e(st).usDataHandle = c.usDataHandle /\ e(st).NotAcknowledged = c.NotAcknowledged
    BY <2>1 DEF CallRecords, Shapes
  <2>5. CASE ~complete
    <3>1. d.ncnt < cfg.ncnt
      <4>1. ~(cs[k].ncnt >= cfg.ncnt)
        BY <1>6, <2>5
      <4> HIDE DEF cs, d
      <4> QED  BY <2>2, <2>3, <4>1
    <3>2. d \in CallRecords(cfg)
      BY <2>1, <2>2, <2>3, <3>1 DEF CallRecords, Shapes
    <3>3. cs \in Seq(CallRecords(cfg)) /\ SameCalls(calls, cs)
      <4> HIDE DEF d
      <4> QED  BY <1>3, <2>1, <2>3, <2>4, <3>2 DEF SameCalls
    <3>4. calls' = cs /\ Sends(<<a>>, "poll")
      BY <1>1, <2>5
    <3> HIDE DEF cs, a
    <3> QED  BY <1>1, <1>2, <1>4, <3>3, <3>4, PlainOf, Plainly
  <2>6. CASE complete
    <3>1. ASSUME NEW st \in States \ {"OverlapReceiving"}
          PROVE  ds(st) \in Seq(CallRecords(cfg)) /\ SameCalls(calls, ds(st))
      <4>1. e(st) \in CallRecords(cfg)
        <5>1. c.ncnt + 1 \in 0 .. cfg.ncnt
          BY <2>2
        <5>2. e(st) = [c EXCEPT !.ncnt = c.ncnt + 1, !.state = st]
          BY <2>1 DEF CallRecords, Shapes
        <5> DEFINE n == c.ncnt + 1
        <5>3. e(st) = [c EXCEPT !.ncnt = n, !.state = st] /\ n \in 0 .. cfg.ncnt
          BY <5>1, <5>2
        <5> HIDE DEF e, d, n
        <5>4. e(st) \in Shapes(cfg)
          BY <2>1, <5>3 DEF CallRecords, Shapes
        <5>5. e(st).NotAcknowledged = c.NotAcknowledged /\ e(st).b3 = c.b3
          BY <2>1, <5>3 DEF CallRecords, Shapes
        <5> QED  BY <2>1, <5>4, <5>5 DEF CallRecords
      <4>2. ds(st) = [calls EXCEPT ![k] = e(st)]
        BY <2>1, <2>3 DEF NewState
      <4>3. /\ e(st).id = c.id /\ e(st).plci = c.plci /\ e(st).rxfp = c.rxfp
            /\ e(st).usDataHandle = c.usDataHandle /\ e(st).NotAcknowledged = c.NotAcknowledged
        BY <2>4
      <4> HIDE DEF e, ds
      <4>4. [calls EXCEPT ![k] = e(st)] \in Seq(CallRecords(cfg))
        BY <1>3, <2>1, <4>1
      <4>5. SameCalls(calls, [calls EXCEPT ![k] = e(st)])
        BY <1>3, <2>1, <4>3 DEF SameCalls
      <4> QED  BY <4>2, <4>4, <4>5
    <3>2. \/ calls' = ds("D_ConnectPending") /\ Sends(<<a, b(0)>>, "poll")
          \/ calls' = ds("IgnoreDisconnect") /\ Sends(<<a, b(1)>>, "poll")
      BY <1>1, <2>6
    <3>3. "D_ConnectPending" \in States \ {"OverlapReceiving"} /\ "IgnoreDisconnect" \in States \ {"OverlapReceiving"}
      BY DEF States
    <3> HIDE DEF ds, a, b
    <3>4. CASE calls' = ds("D_ConnectPending") /\ Sends(<<a, b(0)>>, "poll")
      BY <1>1, <1>2, <1>4, <3>1, <3>3, <3>4, PlainOf, Plainly
    <3>5. CASE calls' = ds("IgnoreDisconnect") /\ Sends(<<a, b(1)>>, "poll")
      BY <1>1, <1>2, <1>4, <3>1, <3>3, <3>5, PlainOf, Plainly
    <3> QED  BY <3>2, <3>4, <3>5
  <2> QED  BY <2>5, <2>6
<1>7. CASE ~waits
  <2>1. cs = calls /\ ~complete
    BY <1>7
  <2>2. calls' = calls /\ Sends(<<a>>, "poll")
    BY <1>1, <2>1
  <2>3. SameCalls(calls, calls)
    BY DEF SameCalls
  <2> HIDE DEF cs, a
  <2> QED  BY <1>1, <1>2, <1>3, <1>4, <2>2, <2>3, PlainOf, Plainly
<1> QED  BY <1>6, <1>7

LEMMA ActiveInds ==
    ASSUME IInv, ConnectActiveInd
    PROVE  State(cfg', toProg', toBrick', line', calls', files', rung')
<1> DEFINE a == About("CONNECTACTIVE_RESP", 0)
           ds == NewState(calls, ByIdent, "D_Connected")
<1>1. Event("CONNECTACTIVE_IND") /\ files' = files /\ calls' = ds /\ \E next : Sends(<<a>>, next)
  BY DEF ConnectActiveInd
<1>2. "CONNECTACTIVE_IND" \in IndTypes /\ "D_Connected" \in States \ {"OverlapReceiving"}
  BY DEF IndTypes, States
<1>3. /\ capi \in FromBrick /\ Tells(capi) /\ capi.plci \in Plcis
      /\ capi.id = line[capi.plci].id /\ calls \in Seq(CallRecords(cfg)) /\ cfg \in Configs
  BY <1>1, <1>2, IndFacts, EventFacts
<1>4. Harmless(a, capi.plci, line[capi.plci])
  BY <1>3, AboutHarmless DEF AnswerTypes
<1>5. ds \in Seq(CallRecords(cfg)) /\ SameCalls(calls, ds)
  BY <1>2, <1>3, Lookup, NewStates
<1> HIDE DEF a, ds
<1> QED  BY <1>1, <1>2, <1>4, <1>5, PlainOf, Plainly

LEMMA DownInds ==
    ASSUME IInv, DisconnectB3Ind
    PROVE  State(cfg', toProg', toBrick', line', calls', files', rung')
<1> DEFINE a == About("DISCONNECTB3_RESP", 0)
           b == About("DISCONNECT_REQ", 0)
           ds == NewState(calls, ByIdent, "D_DisconnectPending")
<1>1. Event("DISCONNECTB3_IND") /\ files' = files /\ calls' = ds /\ Sends(<<a, b>>, "poll")
  BY DEF DisconnectB3Ind
<1>2. "DISCONNECTB3_IND" \in IndTypes /\ "D_DisconnectPending" \in States \ {"OverlapReceiving"}
  BY DEF IndTypes, States
<1>3. /\ capi \in FromBrick /\ Tells(capi) /\ capi.plci \in Plcis
      /\ capi.id = line[capi.plci].id /\ calls \in Seq(CallRecords(cfg)) /\ cfg \in Configs
  BY <1>1, <1>2, IndFacts, EventFacts
<1>4. Down(line[capi.plci].st)
  <2>1. /\ State(cfg, toProg, <<>>, line, calls, files, rung)
        /\ Rest(FromBrick, toProg, Tail(toProg), capi) /\ capi.type = "DISCONNECTB3_IND"
    BY <1>1, EventFacts
  <2>2. Told(toProg, line, calls, rung) /\ 1 \in DOMAIN toProg /\ toProg[1] = capi
    BY <2>1 DEF State, Inv, Rest
  <2> QED  BY <1>3, <2>1, <2>2 DEF Told
<1>5. Harmless(a, capi.plci, line[capi.plci]) /\ Harmless(b, capi.plci, line[capi.plci])
  BY <1>3, <1>4, AboutHarmless DEF AnswerTypes
<1>6. ds \in Seq(CallRecords(cfg)) /\ SameCalls(calls, ds)
  BY <1>2, <1>3, Lookup, NewStates
<1> HIDE DEF a, b, ds
<1> QED  BY <1>1, <1>2, <1>5, <1>6, PlainOf, Plainly

LEMMA B3Inds ==
    ASSUME IInv, ConnectB3Ind
    PROVE  State(cfg', toProg', toBrick', line', calls', files', rung')
<1> DEFINE a == About("CONNECTB3_RESP", 0)
           k == ByPlci
           ds == [NewState(calls, k, "B_ConnectPending") EXCEPT ![k].b3 = TRUE]
<1>1. /\ Event("CONNECTB3_IND") /\ files' = files
      /\ \/ k = 0 /\ calls' = calls /\ Sends(<<>>, "poll")
         \/ k # 0 /\ calls' = ds /\ Sends(<<a>>, "poll")
  BY DEF ConnectB3Ind, Quiet
<1>2. "CONNECTB3_IND" \in IndTypes /\ "B_ConnectPending" \in States \ {"OverlapReceiving"}
  BY DEF IndTypes, States
<1>3. /\ capi \in FromBrick /\ Tells(capi) /\ capi.plci \in Plcis
      /\ capi.id = line[capi.plci].id /\ calls \in Seq(CallRecords(cfg)) /\ cfg \in Configs
  BY <1>1, <1>2, IndFacts, EventFacts
<1>4. Harmless(a, capi.plci, line[capi.plci])
  BY <1>3, AboutHarmless DEF AnswerTypes
<1>5. CASE k = 0
  <2>1. SameCalls(calls, calls)
    BY DEF SameCalls
  <2> HIDE DEF k
  <2> QED  BY <1>1, <1>2, <1>3, <1>5, <2>1, PlainOf, Plainly
<1>6. CASE k # 0
  <2> DEFINE c == calls[k]
             d == [c EXCEPT !.state = "B_ConnectPending", !.b3 = TRUE]
  <2>1. c \in CallRecords(cfg) /\ k \in DOMAIN calls
    BY <1>3, <1>6, Lookup
  <2>2. /\ d \in CallRecords(cfg)
        /\ d.id = c.id /\ d.plci = c.plci /\ d.rxfp = c.rxfp
        /\ d.usDataHandle = c.usDataHandle /\ d.NotAcknowledged = c.NotAcknowledged
    BY <1>2, <2>1 DEF CallRecords, Shapes
  <2>3. ds = [calls EXCEPT ![k] = d]
    BY <1>6, <2>1 DEF NewState
  <2> HIDE DEF d
  <2>4. [calls EXCEPT ![k] = d] \in Seq(CallRecords(cfg))
    BY <1>3, <2>1, <2>2
  <2>5. SameCalls(calls, [calls EXCEPT ![k] = d])
    BY <1>3, <2>1, <2>2 DEF SameCalls
  <2>6. calls' = ds /\ Sends(<<a>>, "poll")
    BY <1>1, <1>6
  <2> HIDE DEF ds, a
  <2> QED  BY <1>1, <1>2, <1>4, <2>3, <2>4, <2>5, <2>6, PlainOf, Plainly
<1> QED  BY <1>5, <1>6

LEMMA Incoming ==
    ASSUME IInv, ConnectInd
    PROVE  State(cfg', toProg', toBrick', line', calls', files', rung')
<1> DEFINE a(arg) == About("CONNECT_RESP", arg)
           ds == NewState(calls, ByIdent, "IgnoreDisconnect")
<1>1. /\ Event("CONNECT_IND") /\ files' = files
      /\ \/ cfg.ncnt > 0 /\ calls' = Enqueued("OverlapReceiving") /\ Sends(<<>>, "poll")
         \/ calls' = Enqueued("D_ConnectPending") /\ Sends(<<a(0)>>, "poll")
         \/ calls' = ds /\ Sends(<<a(1)>>, "poll")
         \/ calls' = calls /\ Sends(<<a(8)>>, "poll")
  BY DEF ConnectInd, Quiet, NewState
<1>2. "CONNECT_IND" \in IndTypes /\ "IgnoreDisconnect" \in States \ {"OverlapReceiving"}
  BY DEF IndTypes, States
<1>3. /\ capi \in FromBrick /\ Tells(capi) /\ capi.plci \in Plcis /\ capi.id \in CallIds
      /\ capi.id = line[capi.plci].id /\ calls \in Seq(CallRecords(cfg)) /\ cfg \in Configs
      /\ cfg' = cfg /\ line' = line /\ rung' = rung
  BY <1>1, <1>2, IndFacts, EventFacts
<1>4. /\ Harmless(a(0), capi.plci, line[capi.plci])
      /\ Harmless(a(1), capi.plci, line[capi.plci]) /\ Harmless(a(8), capi.plci, line[capi.plci])
  BY <1>3, AboutHarmless DEF AnswerTypes
<1>5. SameCalls(calls, calls) /\ ds \in Seq(CallRecords(cfg)) /\ SameCalls(calls, ds)
  <2>1. SameCalls(calls, calls)
    BY DEF SameCalls
  <2> QED  BY <1>2, <1>3, <2>1, Lookup, NewStates
\* What alloc_call makes.
<1> DEFINE New(st) == [id |-> capi.id, plci |-> capi.plci, b3 |-> FALSE, state |-> st, ncnt |-> 0,
                       txfp |-> FALSE, rxfp |-> "null", txlen |-> 0, doSend |-> FALSE,
                       wavestate |-> 0, usDataHandle |-> 0, NotAcknowledged |-> 0]
<1>6. ASSUME NEW st \in States, st = "OverlapReceiving" => cfg.ncnt > 0
      PROVE  State(cfg, Tail(toProg), <<>>, line, Enqueued(st), files, rung)
  <2>1. Enqueued(st) = <<New(st)>> \o calls
    BY DEF Enqueued
  <2>2. 0 \in 0 .. cfg.ncnt /\ 0 \in 0 .. cfg.has /\ 0 <= Limit(cfg)
    BY <1>3, Options
  <2>3. New(st) \in CallRecords(cfg) /\ Fresh(New(st)) /\ New(st).id = capi.id /\ New(st).plci = capi.plci
    BY <1>3, <1>6, <2>2 DEF CallRecords, Shapes, Fresh
  <2>4. /\ State(cfg, toProg, <<>>, line, calls, files, rung)
        /\ Rest(FromBrick, toProg, Tail(toProg), capi) /\ capi.type = "CONNECT_IND"
    BY <1>1, EventFacts
  <2> HIDE DEF New
  <2>5. State(cfg, Tail(toProg), <<>>, line, <<New(st)>> \o calls, files, rung)
    BY <2>3, <2>4, Enqueues
  <2> QED  BY <2>1, <2>5
<1>7. CASE cfg.ncnt > 0 /\ calls' = Enqueued("OverlapReceiving") /\ Sends(<<>>, "poll")
  <2>1. State(cfg, Tail(toProg), <<>>, line, Enqueued("OverlapReceiving"), files, rung)
    BY <1>6, <1>7 DEF States
  <2>2. toBrick' = <<>> /\ toProg' = Tail(toProg)
    BY <1>7 DEF Sends
  <2> QED  BY <1>1, <1>3, <1>7, <2>1, <2>2
<1>8. CASE calls' = Enqueued("D_ConnectPending") /\ Sends(<<a(0)>>, "poll")
  <2>1. State(cfg, Tail(toProg), <<>>, line, Enqueued("D_ConnectPending"), files, rung)
    BY <1>6 DEF States
  <2>2. toBrick' = <<a(0)>> /\ toProg' = Tail(toProg)
    BY <1>8 DEF Sends
  <2>3. \A j \in DOMAIN Tail(toProg) :
           Tail(toProg)[j].plci = capi.plci => Tail(toProg)[j].type # "CONNECT_IND"
    BY <1>1, <1>2, IndFacts
  <2>4. <<a(0)>> \in Seq(FromProg) /\ Plain(<<a(0)>>, capi.plci, line[capi.plci])
    BY <1>4, PlainOf
  <2> HIDE DEF a
  <2>5. State(cfg, Tail(toProg), <<a(0)>>, line, Enqueued("D_ConnectPending"), files, rung)
    BY <1>3, <2>1, <2>3, <2>4, PutsPlain
  <2> QED  BY <1>1, <1>3, <1>8, <2>2, <2>5
<1> HIDE DEF a, ds
<1>9. CASE calls' = ds /\ Sends(<<a(1)>>, "poll")
  BY <1>1, <1>2, <1>4, <1>5, <1>9, PlainOf, Plainly
<1>10. CASE calls' = calls /\ Sends(<<a(8)>>, "poll")
  BY <1>1, <1>2, <1>3, <1>4, <1>5, <1>10, PlainOf, Plainly
<1> QED  BY <1>1, <1>7, <1>8, <1>9, <1>10

LEMMA DataInds ==
    ASSUME IInv, DataB3Ind
    PROVE  State(cfg', toProg', toBrick', line', calls', files', rung')
<1> DEFINE k == ByIdent
           a == About("DATAB3_RESP", capi.arg)
           i == calls[k].id
<1>1. /\ Event("DATAB3_IND") /\ calls' = calls
      /\ \/ files' = files /\ Sends(<<>>, "poll")
         \/ k # 0 /\ calls[k].rxfp # "open" /\ files' = files /\ Sends(<<a>>, "poll")
         \/ /\ k # 0 /\ calls[k].rxfp = "open"
            /\ (\E part \in {{}, {capi.arg}} : files' = Written(k, part)) /\ Sends(<<a>>, "poll")
  BY DEF DataB3Ind, Quiet
<1>2. "DATAB3_IND" \in IndTypes
  BY DEF IndTypes
<1>3. /\ capi \in FromBrick /\ Tells(capi) /\ capi.plci \in Plcis /\ capi.id \in CallIds
      /\ capi.id = line[capi.plci].id /\ calls \in Seq(CallRecords(cfg)) /\ cfg \in Configs
      /\ cfg' = cfg /\ line' = line /\ rung' = rung /\ capi.arg \in Nat
      /\ State(cfg, toProg, <<>>, line, calls, files, rung)
      /\ Rest(FromBrick, toProg, Tail(toProg), capi) /\ capi.type = "DATAB3_IND"
  BY <1>1, <1>2, IndFacts, EventFacts
<1>4. /\ a \in FromProg /\ a.type = "DATAB3_RESP" /\ a.plci = capi.plci /\ a.id = capi.id
      /\ a.arg = capi.arg
  BY <1>3, AboutIn DEF AnswerTypes
<1>5. ASSUME k # 0
      PROVE  k \in DOMAIN calls /\ i = capi.id
  <2>1. k \in DOMAIN calls /\ calls[k].plci = capi.plci
    BY <1>3, <1>5, Lookup
  <2> HIDE DEF k
  <2>2. \A j \in DOMAIN calls : calls[j].plci = capi.plci => calls[j].id = capi.id
    BY <1>3, HeadFacts
  <2> QED  BY <2>1, <2>2
<1>6. files \in [CallIds -> Files] /\ Filed(toProg, calls, files, rung)
  BY <1>3 DEF State, Shape, Inv
<1>7. ASSUME Stored(calls, files, files', capi.id, capi.arg), Sends(<<a>>, "poll")
      PROVE  State(cfg', toProg', toBrick', line', calls', files', rung')
  <2> DEFINE t == Tail(toProg)
             m == capi
             ff == files'
  <2>1. /\ State(cfg, toProg, <<>>, line, calls, files, rung)
        /\ Rest(FromBrick, toProg, t, m) /\ m.type = "DATAB3_IND"
        /\ a \in FromProg /\ a.type = "DATAB3_RESP" /\ a.plci = m.plci /\ a.id = m.id /\ a.arg = m.arg
        /\ Stored(calls, files, ff, m.id, m.arg)
    BY <1>3, <1>4, <1>7
  <2>2. toBrick' = <<a>> /\ toProg' = t
    BY <1>7 DEF Sends
  <2> HIDE DEF t, m, ff, a
  <2>3. State(cfg, t, <<a>>, line, calls, ff, rung)
    BY <2>1, Stores
  <2> QED  BY <1>1, <1>3, <2>2, <2>3 DEF ff
<1>8. CASE files' = files /\ Sends(<<>>, "poll")
  <2>1. SameCalls(calls, calls)
    BY DEF SameCalls
  <2> QED  BY <1>1, <1>2, <1>3, <1>8, <2>1, PlainOf, Plainly
<1>9. CASE k # 0 /\ calls[k].rxfp # "open" /\ files' = files /\ Sends(<<a>>, "poll")
  <2>1. files[capi.id] = Empty
    BY <1>5, <1>6, <1>9 DEF Filed
  <2>2. Stored(calls, files, files', capi.id, capi.arg)
    BY <1>6, <1>9, <2>1 DEF Stored
  <2> QED  BY <1>7, <1>9, <2>2
<1>10. ASSUME k # 0, calls[k].rxfp = "open", Sends(<<a>>, "poll"),
              NEW part \in {{}, {capi.arg}}, files' = Written(k, part)
       PROVE  State(cfg', toProg', toBrick', line', calls', files', rung')
  <2>1. k \in DOMAIN calls /\ i = capi.id
    BY <1>5, <1>10
  <2> DEFINE x == files[capi.id]
             z == Append(x.data, capi.arg)
             w == x.part \cup part
             y == [x EXCEPT !.data = z, !.part = w]
             h == [files EXCEPT ![i].data = Append(@, capi.arg), ![i].part = @ \cup part]
  <2>2. x \in Files
    BY <1>3, <1>6
  <2>3. y \in Files /\ y.data = Append(x.data, capi.arg)
    <3>1. x.data \in Seq(Nat)
      BY <2>2 DEF Files
    <3>2. z \in Seq(Nat)
      BY <1>3, <3>1
    <3>3. w \in SUBSET Nat
      BY <1>3, <1>10, <2>2 DEF Files
    <3>4. y \in Files /\ y.data = z
      <4> HIDE DEF z, w
      <4> QED  BY <2>2, <3>2, <3>3 DEF Files
    <3> QED  BY <3>4
  <2>4. h = [files EXCEPT ![capi.id] = y]
    <3>1. files \in [CallIds -> Files] /\ capi.id \in CallIds
      BY <1>3, <1>6
    <3> QED  BY <2>1, <3>1
  <2>8. files' = h
    BY <1>10 DEF Written
  <2> HIDE DEF y, h
  <2>5. /\ h \in [CallIds -> Files] /\ h[capi.id] = y
        /\ \A j \in CallIds : j # capi.id => h[j] = files[j]
    BY <1>3, <1>6, <2>3, <2>4
  <2>6. \E j \in DOMAIN calls : calls[j].id = capi.id /\ calls[j].rxfp = "open"
    BY <1>10, <2>1
  <2>7. Stored(calls, files, h, capi.id, capi.arg)
    BY <2>3, <2>5, <2>6 DEF Stored
  <2> QED  BY <1>7, <1>10, <2>7, <2>8
<1> QED  BY <1>1, <1>8, <1>9, <1>10

LEMMA EndInds ==
    ASSUME IInv, DisconnectInd
    PROVE  State(cfg', toProg', toBrick', line', calls', files', rung')
<1> DEFINE k == ByIdent
           a == About("DISCONNECT_RESP", 0)
           t == Tail(toProg)
           p == capi.plci
<1>1. Event("DISCONNECT_IND") /\ FreeCall(k) /\ toBrick' = <<a>> /\ toProg' = t
  BY DEF DisconnectInd, Sends
<1>2. "DISCONNECT_IND" \in IndTypes /\ "DISCONNECT_IND" \notin NcciTypes
  BY DEF IndTypes, NcciTypes
<1>3. /\ capi \in FromBrick /\ Tells(capi) /\ p \in Plcis /\ capi.id \in CallIds /\ ~capi.b3
      /\ capi.id = line[p].id /\ calls \in Seq(CallRecords(cfg)) /\ cfg \in Configs
      /\ cfg' = cfg /\ line' = line /\ rung' = rung
      /\ State(cfg, toProg, <<>>, line, calls, files, rung)
      /\ Rest(FromBrick, toProg, t, capi) /\ capi.type = "DISCONNECT_IND"
  BY <1>1, <1>2, IndFacts, EventFacts
<1>4. a \in FromProg /\ a.type = "DISCONNECT_RESP" /\ a.plci = p /\ a.id = capi.id
  BY <1>3, AboutIn DEF AnswerTypes
<1>5. line[p].st = "clearing"
  <2>1. Told(toProg, line, calls, rung) /\ 1 \in DOMAIN toProg /\ toProg[1] = capi
    BY <1>3 DEF State, Inv, Rest
  <2> QED  BY <1>3, <2>1 DEF Told
<1>6. \A j \in DOMAIN t : Tells(t[j]) /\ t[j].plci = p => t[j].type \in ConfTypes
  <2> DEFINE m == capi
  <2>1. Rest(FromBrick, toProg, t, m) /\ Tells(m) /\ m.type = "DISCONNECT_IND" /\ m.plci = p
    BY <1>3
  <2>2. Ordered(toProg)
    BY <1>3 DEF State, Inv
  <2> HIDE DEF t, m, p
  <2>3. ASSUME NEW j \in DOMAIN t, Tells(t[j]), t[j].plci = p
        PROVE  t[j].type \in ConfTypes
    <3>1. j + 1 \in DOMAIN toProg /\ t[j] = toProg[j + 1] /\ 1 \in DOMAIN toProg /\ toProg[1] = m /\ 1 < j + 1
      BY <2>1 DEF Rest
    <3>2. Before(m, t[j])
      BY <2>1, <2>2, <2>3, <3>1 DEF Ordered
    <3> QED  BY <2>1, <2>3, <3>2 DEF Before
  <2> QED  BY <2>3
<1>7. State(cfg, t, <<>>, line, calls, files, rung)
  <2> DEFINE m == capi
  <2>1. Rest(FromBrick, toProg, t, m) /\ m.type # "DATAB3_CONF"
    BY <1>3
  <2> HIDE DEF t, m
  <2> QED  BY <1>3, <2>1, TakesProg
<1> HIDE DEF t, a, p
<1>8. CASE k = 0
  <2>1. calls' = calls /\ files' = files
    BY <1>1, <1>8 DEF FreeCall
  <2>2. NoneOn(calls, p)
    BY <1>3, <1>8, Lookup DEF NoneOn, p
  <2>3. State(cfg, t, <<a>>, line, calls, files, rung)
    BY <1>3, <1>4, <1>5, <1>6, <1>7, <2>2, PutsEnd
  <2> QED  BY <1>1, <1>3, <2>1, <2>3
<1>9. CASE k # 0
  <2> DEFINE ds == RemoveAt(calls, k)
             i == calls[k].id
             h == IF calls[k].rxfp = "open"
                    THEN [files EXCEPT ![i].size = Len(files[i].data)] ELSE files
  <2>1. k \in DOMAIN calls /\ calls[k].plci = p
    BY <1>3, <1>9, Lookup DEF p
  <2>2. calls' = ds /\ files' = h
    BY <1>1, <1>9 DEF FreeCall
  <2>3. Without(CallRecords(cfg), calls, ds, k)
    BY <1>3, <2>1, CutOut DEF RemoveAt
  <2>4. files \in [CallIds -> Files] /\ Filed(toProg, calls, files, rung) /\ i \in CallIds
    <3>1. calls[k].id \in CallIds
      BY <1>3, <2>1, CallsIn
    <3> QED  BY <1>3, <3>1 DEF State, Shape, Inv
  <2>5. Sized(files, h, i)
    <3>1. CASE calls[k].rxfp # "open"
      <4>1. files[i] = Empty /\ h = files
        BY <2>1, <2>4, <3>1 DEF Filed
      <4>2. files[i].size = Len(files[i].data)
        BY <4>1 DEF Empty
      <4> HIDE DEF h, i
      <4> QED  BY <2>4, <4>1, <4>2 DEF Sized
    <3>2. CASE calls[k].rxfp = "open"
      <4> DEFINE x == files[i]
                 y == [x EXCEPT !.size = Len(x.data)]
      <4>1. x \in Files
        BY <2>4
      <4>2. y \in Files /\ y.data = x.data /\ y.size = Len(x.data)
        <5>1. x.data \in Seq(Nat) /\ x.part \in SUBSET Nat /\ x = [data |-> x.data, part |-> x.part, size |-> x.size]
          BY <4>1 DEF Files
        <5>2. Len(x.data) \in Nat
          BY <5>1
        <5>3. y = [data |-> x.data, part |-> x.part, size |-> Len(x.data)]
          BY <5>1
        <5> HIDE DEF x, y
        <5> QED  BY <5>1, <5>2, <5>3 DEF Files
      <4>3. h = [files EXCEPT ![i] = y]
        BY <3>2
      <4> HIDE DEF y, h, i
      <4>4. h \in [CallIds -> Files] /\ h[i] = y /\ \A j \in CallIds : j # i => h[j] = files[j]
        BY <2>4, <4>2, <4>3
      <4> QED  BY <4>2, <4>4 DEF Sized
    <3> QED  BY <3>1, <3>2
  <2> HIDE DEF ds, h
  <2>6. State(cfg, t, <<>>, line, ds, h, rung) /\ NoneOn(ds, calls[k].plci)
    BY <1>7, <2>1, <2>3, <2>5, Frees
  <2>7. NoneOn(ds, p)
    BY <2>1, <2>6
  <2>8. State(cfg, t, <<a>>, line, ds, h, rung)
    BY <1>3, <1>4, <1>5, <1>6, <2>6, <2>7, PutsEnd
  <2> QED  BY <1>1, <1>3, <2>2, <2>8
<1> QED  BY <1>8, <1>9

LEMMA OtherConfs ==
    ASSUME IInv, Conf
    PROVE  State(cfg', toProg', toBrick', line', calls', files', rung')
<1>1. PICK type \in {"LISTEN_CONF", "FACILITY_CONF", "DISCONNECTB3_CONF", "DISCONNECT_CONF"} :
         Event(type)
  BY DEF Conf
<1>2. calls' = calls /\ files' = files /\ toBrick' = <<>> /\ toProg' = Tail(toProg)
  BY DEF Conf, Quiet, Sends
<1>3. /\ State(cfg, toProg, <<>>, line, calls, files, rung)
      /\ Rest(FromBrick, toProg, Tail(toProg), capi) /\ capi.type = type
      /\ cfg' = cfg /\ line' = line /\ rung' = rung
  BY <1>1, EventFacts
<1>4. type # "DATAB3_CONF"
  OBVIOUS
<1>5. State(cfg, Tail(toProg), <<>>, line, calls, files, rung)
  BY <1>3, <1>4, TakesProg
<1> QED  BY <1>2, <1>3, <1>5

\* The blocks nextwavestate has put when the call c has become d.
LEMMA BlocksIn ==
    ASSUME capi \in FromBrick, Tells(capi), NEW k, NEW c, NEW d,
           c.id = capi.id, c.plci = capi.plci, c.usDataHandle = calls[k].usDataHandle,
           c.usDataHandle \in Nat, d.usDataHandle \in Nat, d.usDataHandle - c.usDataHandle \in Nat,
           d.NotAcknowledged = c.NotAcknowledged + (d.usDataHandle - c.usDataHandle)
    PROVE  Blocks(k, d) \in Seq(FromProg) /\ Announcement(Blocks(k, d), c, d)
<1> DEFINE u == c.usDataHandle
           v == d.usDataHandle
           b == Blocks(k, d)
<1>1. u \in Nat /\ v \in Nat /\ v - u \in Nat /\ v = u + (v - u)
  OBVIOUS
<1>2. b = [n \in 1 .. v - u |-> About("DATAB3_REQ", u + n)]
  BY DEF Blocks
<1> HIDE DEF u, v, b
<1>3. \A n \in 1 .. v - u : u + n \in Nat
  BY <1>1
<1>4. \A n \in 1 .. v - u :
         /\ About("DATAB3_REQ", u + n) \in FromProg
         /\ About("DATAB3_REQ", u + n).type = "DATAB3_REQ"
         /\ About("DATAB3_REQ", u + n).plci = capi.plci
         /\ About("DATAB3_REQ", u + n).id = capi.id
         /\ About("DATAB3_REQ", u + n).arg = u + n
  BY <1>3, AboutIn DEF AnswerTypes
<1>5. b \in Seq(FromProg) /\ Len(b) = v - u /\ DOMAIN b = 1 .. v - u
  BY <1>1, <1>2, <1>4
<1>6. \A n \in DOMAIN b : /\ b[n].type = "DATAB3_REQ" /\ b[n].plci = c.plci /\ b[n].id = c.id
                          /\ b[n].arg = u + n
  BY <1>2, <1>4, <1>5
<1>7. v = u + Len(b) /\ d.NotAcknowledged = c.NotAcknowledged + Len(b)
  BY <1>1, <1>5 DEF u, v
<1>8. Announcement(b, c, d)
  BY <1>6, <1>7 DEF Announcement, u, v
<1> QED  BY <1>5, <1>8 DEF b

LEMMA DataConfs ==
    ASSUME IInv, DataB3Conf
    PROVE  State(cfg', toProg', toBrick', line', calls', files', rung')
<1> DEFINE k == ByIdent
           c == calls[k]
           c1 == [c EXCEPT !.NotAcknowledged = @ - 1]
           d(created) == SendData(c1, created)
           t == Tail(toProg)
           m == capi
<1>1. /\ Event("DATAB3_CONF") /\ files' = files
      /\ \/ k = 0 /\ calls' = calls /\ Sends(<<>>, "poll")
         \/ k # 0 /\ \E created \in BOOLEAN : /\ calls' = [calls EXCEPT ![k] = d(created)]
                                              /\ Sends(Blocks(k, d(created)), "poll")
  BY DEF DataB3Conf, Quiet
<1>2. /\ State(cfg, toProg, <<>>, line, calls, files, rung)
      /\ Rest(FromBrick, toProg, t, m) /\ m.type = "DATAB3_CONF"
      /\ cfg' = cfg /\ line' = line /\ rung' = rung /\ m \in FromBrick
      /\ calls \in Seq(CallRecords(cfg)) /\ cfg \in Configs
  BY <1>1, EventFacts
<1>3. Tells(m)
  BY <1>2 DEF Tells
<1>4. /\ k # 0 => k \in DOMAIN calls /\ c.plci = m.plci
      /\ k = 0 => \A j \in DOMAIN calls : ~(calls[j].plci = m.plci /\ (m.b3 => calls[j].b3))
  BY <1>2, Lookup
<1> HIDE DEF m, t, k
<1>5. CASE k = 0
  <2>1. \A j \in DOMAIN calls : calls[j].id # m.id
    <3>1. ASSUME NEW j \in DOMAIN calls, calls[j].id = m.id
          PROVE  FALSE
      <4>1. calls[j].b3 /\ calls[j].plci = m.plci
        BY <1>2, <3>1, PlayedFacts
      <4> QED  BY <1>4, <1>5, <4>1
    <3> QED  BY <3>1
  <2>2. State(cfg, t, <<>>, line, calls, files, rung)
    BY <1>2, <2>1, TakesProg
  <2>3. calls' = calls /\ toBrick' = <<>> /\ toProg' = t
    BY <1>1, <1>5 DEF Sends, t
  <2> QED  BY <1>1, <1>2, <2>2, <2>3
<1>6. CASE k # 0
  <2>1. k \in DOMAIN calls /\ c.plci = m.plci /\ c \in CallRecords(cfg)
    BY <1>2, <1>4, <1>6
  <2>2. c.id = m.id
    BY <1>2, <1>3, <2>1, HeadFacts
  <2>3. /\ c.NotAcknowledged \in Nat /\ c.NotAcknowledged >= 1 /\ c.b3
        /\ ~Beginning(t, line, m.plci)
    BY <1>2, <2>1, <2>2, PlayedFacts
  <2>4. c.NotAcknowledged <= Limit(cfg) /\ Limit(cfg) \in Nat /\ c.usDataHandle \in Nat
    BY <1>2, <2>1, Options, CallIn
  <2>5. /\ c1 \in CallRecords(cfg) /\ c1 \in Shapes(cfg)
        /\ c1.id = c.id /\ c1.plci = c.plci /\ c1.rxfp = c.rxfp /\ c1.b3 = c.b3
        /\ c1.NotAcknowledged = c.NotAcknowledged - 1 /\ c1.usDataHandle = c.usDataHandle
    <3>1. c.NotAcknowledged - 1 \in Nat /\ c.NotAcknowledged - 1 <= Limit(cfg)
      BY <2>3, <2>4
    <3> QED  BY <2>1, <2>3, <3>1 DEF CallRecords, Shapes
  <2> DEFINE cs1 == [calls EXCEPT ![k] = c1]
  <2> HIDE DEF c1
  <2>6. /\ cs1 \in Seq(CallRecords(cfg)) /\ Further(calls, cs1, k)
        /\ cs1[k] = c1 /\ k \in DOMAIN cs1
        /\ cs1[k].NotAcknowledged = calls[k].NotAcknowledged - 1
        /\ cs1[k].usDataHandle = calls[k].usDataHandle
    BY <1>2, <2>1, <2>5 DEF Further
  <2> HIDE DEF cs1
  <2>7. State(cfg, t, <<>>, line, cs1, files, rung)
    BY <1>2, <2>1, <2>2, <2>6, Confirmed
  <2>8. PICK created \in BOOLEAN : /\ calls' = [calls EXCEPT ![k] = d(created)]
                                   /\ Sends(Blocks(k, d(created)), "poll")
    BY <1>1, <1>6
  <2> DEFINE e == d(created)
             ds == [calls EXCEPT ![k] = e]
             b == Blocks(k, e)
  <2>9. Sending(c1, e, 1)
    BY <1>2, <2>5, SendsOne
  <2>10. calls' = ds /\ toBrick' = b /\ toProg' = t
    BY <2>8 DEF Sends, t
  <2> HIDE DEF d, e
  <2>11. /\ e \in Shapes(cfg) /\ e.id = c1.id /\ e.plci = c1.plci /\ e.b3 = c1.b3
         /\ e.rxfp # "open" => c1.rxfp # "open"
         /\ e.usDataHandle - c1.usDataHandle \in 0 .. 1
         /\ e.NotAcknowledged = c1.NotAcknowledged + (e.usDataHandle - c1.usDataHandle)
    BY <2>9 DEF Sending
  <2>12. e.usDataHandle \in Nat /\ c1.usDataHandle \in Nat /\ c1.NotAcknowledged \in Nat
    BY <1>2, <2>5, <2>11, Options, ShapeIn
  <2>13. e \in CallRecords(cfg)
    <3>1. e.NotAcknowledged <= Limit(cfg)
      BY <2>3, <2>4, <2>5, <2>11, <2>12
    <3> QED  BY <2>3, <2>5, <2>11, <3>1 DEF CallRecords
  <2>14. b \in Seq(FromProg) /\ Announcement(b, c1, e)
    <3>1. e.usDataHandle - c1.usDataHandle \in Nat
      BY <2>11
    <3>2. c1.id = capi.id /\ c1.plci = capi.plci /\ c1.usDataHandle = calls[k].usDataHandle
      BY <2>1, <2>2, <2>5 DEF m
    <3>3. capi \in FromBrick /\ Tells(capi)
      BY <1>2, <1>3 DEF m
    <3> QED  BY <2>11, <2>12, <3>1, <3>2, <3>3, BlocksIn
  <2> HIDE DEF b
  <2>15. /\ ds \in Seq(CallRecords(cfg)) /\ ds[k] = e /\ Further(cs1, ds, k)
    <3>1. ds \in Seq(CallRecords(cfg)) /\ ds[k] = e
      BY <1>2, <2>1, <2>13
    <3> QED  BY <2>1, <2>5, <2>6, <2>11, <3>1 DEF Further, cs1
  <2> HIDE DEF ds
  <2>16. Announcement(b, cs1[k], ds[k]) /\ ~Beginning(t, line, cs1[k].plci)
    BY <2>1, <2>3, <2>5, <2>6, <2>14, <2>15
  <2>17. <<>> \in Seq(FromProg) /\ Plain(<<>>, cs1[k].plci, line[cs1[k].plci])
    BY PlainOf
  <2>18. State(cfg, t, <<>> \o b, line, ds, files, rung)
    BY <2>6, <2>7, <2>14, <2>15, <2>16, <2>17, SendsBlocks
  <2>19. <<>> \o b = b
    BY <2>14
  <2> QED  BY <1>1, <1>2, <2>10, <2>18, <2>19
<1> QED  BY <1>5, <1>6

LEMMA UpInds ==
    ASSUME IInv, ConnectB3ActiveInd
    PROVE  State(cfg', toProg', toBrick', line', calls', files', rung')
<1> DEFINE k == ByIdent
           c == calls[k]
           c1 == Opened(c)
           d(created) == Fill(c1, created)
           t == Tail(toProg)
           m == capi
           a1 == About("FACILITY_REQ", 0)
           a2 == About("CONNECTB3ACTIVE_RESP", 0)
           a3 == About("DISCONNECTB3_REQ", 0)
           cs == [calls EXCEPT ![k].state = "Connected", ![k].doSend = TRUE]
<1>1. /\ Event("CONNECTB3ACTIVE_IND") /\ files' = files
      /\ \/ calls' = calls /\ Sends(<<>>, "killed")
         \/ k # 0 /\ \E created \in BOOLEAN :
                        /\ calls' = [calls EXCEPT ![k] = d(created)]
                        /\ Sends(<<a1, a2>> \o Blocks(k, d(created)), "poll")
         \/ k # 0 /\ calls' = cs /\ Sends(<<a1, a2>> \o <<a3>>, "poll")
  BY DEF ConnectB3ActiveInd, Disconnects
<1>2. "CONNECTB3ACTIVE_IND" \in IndTypes /\ "CONNECTB3ACTIVE_IND" \in NcciTypes
  BY DEF IndTypes, NcciTypes
<1>3. /\ State(cfg, toProg, <<>>, line, calls, files, rung)
      /\ Rest(FromBrick, toProg, t, m) /\ m.type = "CONNECTB3ACTIVE_IND"
      /\ cfg' = cfg /\ line' = line /\ rung' = rung /\ m \in FromBrick
      /\ calls \in Seq(CallRecords(cfg)) /\ cfg \in Configs
  BY <1>1, EventFacts
<1>4. /\ Tells(m) /\ m.plci \in Plcis /\ m.b3 /\ m.id = line[m.plci].id
      /\ \A j \in DOMAIN t : t[j].plci = m.plci => t[j].type # "CONNECT_IND"
  BY <1>1, <1>2, IndFacts
<1>5. k # 0 => k \in DOMAIN calls /\ c.plci = m.plci /\ c.b3
  BY <1>3, <1>4, Lookup
<1>6. /\ Harmless(a1, m.plci, line[m.plci]) /\ Harmless(a2, m.plci, line[m.plci])
      /\ Harmless(a3, m.plci, line[m.plci])
  BY <1>3, <1>4, AboutHarmless DEF AnswerTypes
<1> HIDE DEF m, t, k, a1, a2, a3
<1>7. CASE calls' = calls /\ Sends(<<>>, "killed")
  <2>1. SameCalls(calls, calls)
    BY DEF SameCalls
  <2>2. <<>> \in Seq(FromProg) /\ Plain(<<>>, capi.plci, line[capi.plci])
    BY PlainOf
  <2> QED  BY <1>1, <1>2, <1>3, <1>7, <2>1, <2>2, Plainly
<1>8. CASE k # 0 /\ calls' = cs /\ Sends(<<a1, a2>> \o <<a3>>, "poll")
  <2> DEFINE e == [c EXCEPT !.state = "Connected", !.doSend = TRUE]
  <2>1. k \in DOMAIN calls /\ c \in CallRecords(cfg)
    BY <1>3, <1>5, <1>8
  <2>2. /\ e \in CallRecords(cfg)
        /\ e.id = c.id /\ e.plci = c.plci /\ e.rxfp = c.rxfp
        /\ e.usDataHandle = c.usDataHandle /\ e.NotAcknowledged = c.NotAcknowledged
    <3>1. /\ e.id = c.id /\ e.plci = c.plci /\ e.rxfp = c.rxfp /\ e.b3 = c.b3
          /\ e.usDataHandle = c.usDataHandle /\ e.NotAcknowledged = c.NotAcknowledged
      BY <2>1 DEF CallRecords, Shapes
    <3>2. c \in Shapes(cfg) /\ "Connected" \in States
      BY <2>1 DEF CallRecords, States
    <3>3. e \in Shapes(cfg)
      BY <3>2 DEF Shapes
    <3> QED  BY <2>1, <3>1, <3>3 DEF CallRecords
  <2>3. cs = [calls EXCEPT ![k] = e]
    BY <2>1
  <2> HIDE DEF e, cs
  <2>4. cs \in Seq(CallRecords(cfg)) /\ SameCalls(calls, cs)
    BY <1>3, <2>1, <2>2, <2>3 DEF SameCalls
  <2>5. <<a1, a2>> \o <<a3>> = <<a1, a2, a3>>
    BY TripleOf
  <2>6. <<a1, a2, a3>> \in Seq(FromProg) /\ Plain(<<a1, a2, a3>>, capi.plci, line[capi.plci])
    BY <1>6, PlainOf DEF m
  <2>7. calls' = cs /\ Sends(<<a1, a2, a3>>, "poll")
    BY <1>8, <2>5
  <2> QED  BY <1>1, <1>2, <2>4, <2>6, <2>7, Plainly
<1>9. CASE k # 0 /\ \E created \in BOOLEAN :
                        /\ calls' = [calls EXCEPT ![k] = d(created)]
                        /\ Sends(<<a1, a2>> \o Blocks(k, d(created)), "poll")
  <2>1. k \in DOMAIN calls /\ c.plci = m.plci /\ c.b3 /\ c \in CallRecords(cfg)
    BY <1>3, <1>5, <1>9
  <2>2. c.id = m.id
    BY <1>3, <1>4, <2>1, HeadFacts
  <2>3. Fresh(c)
    <3>1. Begun(toProg, <<>>, line, calls) /\ 1 \in DOMAIN toProg /\ toProg[1] = m
      BY <1>3 DEF State, Inv, Rest
    <3>2. Beginning(toProg, line, m.plci)
      BY <1>3, <3>1 DEF Beginning, Starts
    <3> QED  BY <1>4, <2>1, <3>1, <3>2 DEF Begun
  <2>4. ~Beginning(t, line, m.plci)
    <3>1. Told(toProg, line, calls, rung) /\ Ordered(toProg) /\ 1 \in DOMAIN toProg /\ toProg[1] = m
      BY <1>3 DEF State, Inv, Rest
    <3>2. ~Early(line[m.plci].st)
      BY <1>3, <1>4, <3>1 DEF Told, Early
    <3>3. ASSUME NEW j \in DOMAIN t, Starts(t[j], m.plci)
          PROVE  FALSE
      <4>1. /\ j + 1 \in DOMAIN toProg /\ t[j] = toProg[j + 1] /\ 1 < j + 1
        BY <1>3 DEF Rest
      <4>2. t[j].plci = m.plci /\ t[j].type = "CONNECTB3ACTIVE_IND"
        BY <1>4, <3>3 DEF Starts
      <4>3. Before(m, t[j])
        BY <1>4, <3>1, <4>1, <4>2 DEF Ordered, Tells
      <4> QED  BY <1>3, <4>2, <4>3 DEF Before
    <3> QED  BY <3>2, <3>3 DEF Beginning
  <2>5. State(cfg, t, <<>>, line, calls, files, rung)
    BY <1>3, TakesProg
  <2>6. Limit(cfg) \in Nat /\ cfg.says \in Nat /\ cfg.has \in Nat
    BY <1>3, Options
  <2>7. /\ c1 \in Shapes(cfg)
        /\ c1.id = c.id /\ c1.plci = c.plci /\ c1.rxfp = c.rxfp /\ c1.b3 = c.b3
        /\ c1.NotAcknowledged = c.NotAcknowledged /\ c1.usDataHandle = c.usDataHandle
    <3>1. c1 = [c EXCEPT !.state = "Connected", !.wavestate = 0, !.doSend = TRUE, !.txfp = TRUE,
                         !.txlen = cfg.says]
      BY DEF Opened
    <3>2. /\ c.usDataHandle = 0 /\ c.NotAcknowledged = 0 /\ c.rxfp = "null" /\ cfg.says + 0 = cfg.says
          /\ "Connected" \in States /\ c \in Shapes(cfg)
      BY <2>1, <2>3, <2>6 DEF Fresh, States, CallRecords
    <3> HIDE DEF c1
    <3>3. /\ c1.id = c.id /\ c1.plci = c.plci /\ c1.rxfp = c.rxfp /\ c1.b3 = c.b3
          /\ c1.NotAcknowledged = c.NotAcknowledged /\ c1.usDataHandle = c.usDataHandle
          /\ c1.txlen = cfg.says /\ c1.state = "Connected"
      BY <3>1, <3>2 DEF Shapes
    <3>4. c1 \in Shapes(cfg)
      BY <2>6, <3>1, <3>2, <3>3 DEF Shapes
    <3> QED  BY <3>3, <3>4
  <2>8. PICK created \in BOOLEAN : /\ calls' = [calls EXCEPT ![k] = d(created)]
                                   /\ Sends(<<a1, a2>> \o Blocks(k, d(created)), "poll")
    BY <1>9
  <2> DEFINE e == d(created)
             ds == [calls EXCEPT ![k] = e]
             b == Blocks(k, e)
             n == Limit(cfg)
  <2> HIDE DEF c1
  <2>9. Sending(c1, e, n)
    BY <1>3, <2>7, Fills
  <2>10. calls' = ds /\ toBrick' = <<a1, a2>> \o b /\ toProg' = t
    BY <2>8 DEF Sends, t
  <2> HIDE DEF d, e
  <2>11. /\ e \in Shapes(cfg) /\ e.id = c1.id /\ e.plci = c1.plci /\ e.b3 = c1.b3
         /\ e.rxfp # "open" => c1.rxfp # "open"
         /\ e.usDataHandle - c1.usDataHandle \in 0 .. n
         /\ e.NotAcknowledged = c1.NotAcknowledged + (e.usDataHandle - c1.usDataHandle)
    BY <2>9 DEF Sending
  <2>12. /\ e.usDataHandle \in Nat /\ c1.usDataHandle \in Nat /\ c1.NotAcknowledged = 0 /\ n \in Nat
         /\ c.NotAcknowledged = 0
    <3>1. cfg.has \in Nat /\ cfg.ncnt \in Nat /\ c.NotAcknowledged = 0
      BY <1>3, <2>3, Options DEF Fresh
    <3> QED  BY <2>6, <2>7, <2>11, <3>1, ShapeIn
  <2>13. e \in CallRecords(cfg)
    <3>1. e.NotAcknowledged <= n
      BY <2>11, <2>12
    <3> QED  BY <2>1, <2>7, <2>11, <3>1 DEF CallRecords
  <2>14. b \in Seq(FromProg) /\ Announcement(b, c, e)
    <3>1. e.usDataHandle - c.usDataHandle \in Nat /\ c.usDataHandle \in Nat
      BY <2>7, <2>11, <2>12
    <3>2. c.id = capi.id /\ c.plci = capi.plci /\ c.usDataHandle = calls[k].usDataHandle
      BY <2>1, <2>2 DEF m
    <3>3. capi \in FromBrick /\ Tells(capi)
      BY <1>3, <1>4 DEF m
    <3>4. e.NotAcknowledged = c.NotAcknowledged + (e.usDataHandle - c.usDataHandle)
      BY <2>7, <2>11, <2>12
    <3> QED  BY <2>12, <3>1, <3>2, <3>3, <3>4, BlocksIn
  <2> HIDE DEF b, n
  <2>15. ds \in Seq(CallRecords(cfg)) /\ ds[k] = e /\ Further(calls, ds, k)
    <3>1. ds \in Seq(CallRecords(cfg)) /\ ds[k] = e
      BY <1>3, <2>1, <2>13
    <3> QED  BY <2>1, <2>7, <2>11, <3>1 DEF Further
  <2> HIDE DEF ds
  <2>16. Announcement(b, calls[k], ds[k]) /\ ~Beginning(t, line, calls[k].plci)
    BY <2>1, <2>4, <2>14, <2>15
  <2>17. <<a1, a2>> \in Seq(FromProg) /\ Plain(<<a1, a2>>, calls[k].plci, line[calls[k].plci])
    BY <1>6, <2>1, PlainOf
  <2>18. State(cfg, t, <<a1, a2>> \o b, line, ds, files, rung)
    BY <2>1, <2>5, <2>14, <2>15, <2>16, <2>17, SendsBlocks
  <2> QED  BY <1>1, <1>3, <2>10, <2>18
<1> QED  BY <1>1, <1>7, <1>8, <1>9

--------------------------------------------------------------------------------
(* The steps of the brick and the callers *)

LEMMA Behinds ==
    ASSUME NEW X, NEW s \in Seq(X)
    PROVE  /\ s \o <<>> = s
           /\ \A a \in X : s \o <<a>> = Append(s, a) /\ Behind(X, s, s \o <<a>>, a)
           /\ \A a, b \in X : /\ Behind(X, s, Append(s, a), a)
                              /\ Behind(X, Append(s, a), s \o <<a, b>>, b)
<1>1. s \o <<>> = s
  OBVIOUS
<1>2. ASSUME NEW a \in X
      PROVE  s \o <<a>> = Append(s, a) /\ Behind(X, s, s \o <<a>>, a)
  <2>1. s \o <<a>> = Append(s, a)
    OBVIOUS
  <2>2. Behind(X, s, Append(s, a), a)
    BY BehindOf
  <2> QED  BY <2>1, <2>2
<1>3. ASSUME NEW a \in X, NEW b \in X
      PROVE  Behind(X, s, Append(s, a), a) /\ Behind(X, Append(s, a), s \o <<a, b>>, b)
  <2>1. Behind(X, s, Append(s, a), a)
    BY BehindOf
  <2>2. Append(s, a) \in Seq(X)
    OBVIOUS
  <2>3. Behind(X, Append(s, a), Append(Append(s, a), b), b)
    BY <2>2, BehindOf
  <2>4. s \o <<a, b>> = Append(Append(s, a), b)
    OBVIOUS
  <2> QED  BY <2>1, <2>3, <2>4
<1> QED  BY <1>1, <1>2, <1>3

\* What the lines may become.
LEMMA LinesTo ==
    ASSUME NEW x \in Busy
    PROVE  /\ \A st \in {"offered", "b3offered", "b3up", "b3down", "clearing"} :
                 /\ [x EXCEPT !.st = st] \in Busy /\ [x EXCEPT !.st = st].st = st
                 /\ [x EXCEPT !.st = st].id = x.id /\ [x EXCEPT !.st = st].played = x.played
                 /\ [x EXCEPT !.st = st].unconf = x.unconf /\ [x EXCEPT !.st = st].sent = x.sent
                 /\ [x EXCEPT !.st = st].acked = x.acked
           /\ [x EXCEPT !.st = x.st] = x
           /\ [x EXCEPT !.st = "b3down", !.unconf = <<>>] \in Busy
           /\ [x EXCEPT !.st = "b3down", !.unconf = <<>>].st = "b3down"
           /\ [x EXCEPT !.st = "b3down", !.unconf = <<>>].unconf = <<>>
           /\ [x EXCEPT !.st = "b3down", !.unconf = <<>>].id = x.id
           /\ [x EXCEPT !.st = "b3down", !.unconf = <<>>].played = x.played
           /\ [x EXCEPT !.st = "b3down", !.unconf = <<>>].sent = x.sent
           /\ [x EXCEPT !.st = "b3down", !.unconf = <<>>].acked = x.acked
<1>1. ASSUME NEW st \in {"offered", "b3offered", "b3up", "b3down", "clearing"}
      PROVE  /\ [x EXCEPT !.st = st] \in Busy /\ [x EXCEPT !.st = st].st = st
             /\ [x EXCEPT !.st = st].id = x.id /\ [x EXCEPT !.st = st].played = x.played
             /\ [x EXCEPT !.st = st].unconf = x.unconf /\ [x EXCEPT !.st = st].sent = x.sent
             /\ [x EXCEPT !.st = st].acked = x.acked
  BY DEF Busy
<1>2. [x EXCEPT !.st = x.st] = x
  BY Zenon DEF Busy
<1>3. /\ [x EXCEPT !.st = "b3down", !.unconf = <<>>] \in Busy
      /\ [x EXCEPT !.st = "b3down", !.unconf = <<>>].st = "b3down"
      /\ [x EXCEPT !.st = "b3down", !.unconf = <<>>].unconf = <<>>
      /\ [x EXCEPT !.st = "b3down", !.unconf = <<>>].id = x.id
      /\ [x EXCEPT !.st = "b3down", !.unconf = <<>>].played = x.played
      /\ [x EXCEPT !.st = "b3down", !.unconf = <<>>].sent = x.sent
      /\ [x EXCEPT !.st = "b3down", !.unconf = <<>>].acked = x.acked
  <2> DEFINE z == <<>>
  <2>1. z \in Seq(Nat)
    OBVIOUS
  <2> HIDE DEF z
  <2>2. /\ [x EXCEPT !.st = "b3down", !.unconf = z] \in Busy
        /\ [x EXCEPT !.st = "b3down", !.unconf = z].st = "b3down"
        /\ [x EXCEPT !.st = "b3down", !.unconf = z].unconf = z
        /\ [x EXCEPT !.st = "b3down", !.unconf = z].id = x.id
        /\ [x EXCEPT !.st = "b3down", !.unconf = z].played = x.played
        /\ [x EXCEPT !.st = "b3down", !.unconf = z].sent = x.sent
        /\ [x EXCEPT !.st = "b3down", !.unconf = z].acked = x.acked
    BY <2>1 DEF Busy
  <2> QED  BY <2>2 DEF z
<1> QED  BY <1>1, <1>2, <1>3

\* The types of what the invariant speaks of.
LEMMA Here ==
    ASSUME IInv
    PROVE  /\ State(cfg, toProg, toBrick, line, calls, files, rung)
           /\ cfg \in Configs /\ toProg \in Seq(FromBrick) /\ toBrick \in Seq(FromProg)
           /\ line \in [Plcis -> Lines] /\ rung \in 0 .. MaxCalls
           /\ \A p \in Plcis : line[p].st # "free" => line[p] \in Busy /\ line[p].id \in CallIds
                                                      /\ line[p].id # 0
<1>1. State(cfg, toProg, toBrick, line, calls, files, rung)
  BY Bridge
<1>2. /\ cfg \in Configs /\ toProg \in Seq(FromBrick) /\ toBrick \in Seq(FromProg)
      /\ line \in [Plcis -> Lines] /\ rung \in 0 .. MaxCalls
  BY <1>1 DEF State, Shape
<1>3. \A p \in Plcis : line[p].st # "free" => line[p] \in Busy /\ line[p].id \in CallIds /\ line[p].id # 0
  <2>1. ASSUME NEW p \in Plcis, line[p].st # "free"
        PROVE  line[p] \in Busy /\ line[p].id \in CallIds /\ line[p].id # 0
    <3>1. line[p] \in Lines
      BY <1>2
    <3> QED  BY <2>1, <3>1, LineIn
  <2> QED  BY <2>1
<1> QED  BY <1>1, <1>2, <1>3

\* a is the brick's message of this type about the call with this number on line p.
Message(a, type, p, i, arg) ==
    a \in FromBrick /\ a.type = type /\ a.plci = p /\ a.id = i /\ a.arg = arg

LEMMA IndIn ==
    ASSUME IInv, NEW p \in Plcis, line[p].st # "free", NEW arg \in Nat
    PROVE  /\ \A type \in NcciTypes : Message(Ind(p, TRUE, type, arg), type, p, line[p].id, arg)
           /\ \A type \in IndTypes \ NcciTypes :
                 Message(Ind(p, FALSE, type, arg), type, p, line[p].id, arg)
           /\ \A type \in ConfTypes, b3 \in BOOLEAN :
                 Message(Ind(p, b3, type, arg), type, p, line[p].id, arg)
<1>1. line[p].id \in CallIds
  BY Here
<1>2. ASSUME NEW b3 \in BOOLEAN, NEW type \in IndTypes \cup ConfTypes,
             type \in IndTypes => (b3 <=> type \in NcciTypes)
      PROVE  Message(Ind(p, b3, type, arg), type, p, line[p].id, arg)
  BY <1>1, <1>2 DEF Ind, FromBrick, Tellings, Message
<1>3. ASSUME NEW type \in NcciTypes
      PROVE  Message(Ind(p, TRUE, type, arg), type, p, line[p].id, arg)
  <2>1. type \in IndTypes \cup ConfTypes /\ (TRUE <=> type \in NcciTypes)
    BY DEF IndTypes, NcciTypes
  <2> QED  BY <1>2, <2>1
<1>4. ASSUME NEW type \in IndTypes \ NcciTypes
      PROVE  Message(Ind(p, FALSE, type, arg), type, p, line[p].id, arg)
  BY <1>2
<1>5. ASSUME NEW type \in ConfTypes, NEW b3 \in BOOLEAN
      PROVE  Message(Ind(p, b3, type, arg), type, p, line[p].id, arg)
  <2>1. type \notin IndTypes
    BY DEF IndTypes, ConfTypes
  <2> QED  BY <1>2, <2>1
<1> QED  BY <1>3, <1>4, <1>5

LEMMA ChangedTo ==
    ASSUME IInv, NEW p \in Plcis, NEW y \in Lines
    PROVE  Changed(line, [line EXCEPT ![p] = y], p, y)
BY Here DEF Changed

\* Without a message to the brick, the call on a line becomes y and the program is told a.
LEMMA Moving ==
    ASSUME IInv, NEW p \in Plcis, line[p].st # "free", NEW y \in Busy, NEW a \in FromBrick,
           Moves(p, y, <<a>>), rung' = rung, Saying(toProg, line[p], y, p, a)
    PROVE  State(cfg', toProg', toBrick', line', calls', files', rung')
<1>1. /\ line' = [line EXCEPT ![p] = y] /\ toProg' = toProg \o <<a>> /\ toBrick' = toBrick
      /\ cfg' = cfg /\ calls' = calls /\ files' = files
  BY DEF Moves, Becomes
<1> DEFINE ll == [line EXCEPT ![p] = y]
           t == toProg \o <<a>>
<1>2. Changed(line, ll, p, y)
  BY ChangedTo DEF Lines
<1>3. Behind(FromBrick, toProg, t, a)
  BY Here, Behinds
<1> HIDE DEF ll, t
<1>4. State(cfg, t, toBrick, ll, calls, files, rung)
  BY <1>2, <1>3, Here, Says
<1> QED  BY <1>1, <1>4 DEF ll, t

LEMMA Digits ==
    ASSUME IInv, NEW p \in Plcis, Digit(p)
    PROVE  State(cfg', toProg', toBrick', line', calls', files', rung')
<1> DEFINE x == line[p]
           n == x.digits + 1
           y == [x EXCEPT !.digits = n]
           a(right) == Ind(p, FALSE, "INFO_IND", right)
<1>1. x.st = "offered" /\ rung' = rung
  BY DEF Digit
<1>2. x \in Busy /\ x.id # 0
  BY <1>1, Here
<1>3. PICK right \in {0, 1} : Moves(p, y, <<a(right)>>)
  <2>1. y = [x EXCEPT !.digits = @ + 1]
    BY <1>2 DEF Busy
  <2> HIDE DEF y
  <2> QED  BY <2>1 DEF Digit
<1>4. /\ y \in Busy /\ y.st = x.st /\ y.id = x.id /\ y.played = x.played /\ y.unconf = x.unconf
      /\ y.sent = x.sent /\ y.acked = x.acked /\ x.sent \in Nat
  <2>1. n \in Nat
    BY <1>2 DEF Busy
  <2> HIDE DEF n
  <2> QED  BY <1>2, <2>1 DEF Busy
<1>5. /\ a(right) \in FromBrick /\ a(right).type = "INFO_IND" /\ a(right).plci = p
      /\ a(right).id = x.id
  <2>1. "INFO_IND" \in IndTypes \ NcciTypes /\ right \in Nat
    BY DEF IndTypes, NcciTypes
  <2>2. Message(a(right), "INFO_IND", p, x.id, right)
    BY <1>1, <2>1, IndIn
  <2> QED  BY <2>2 DEF Message
<1> HIDE DEF y, a
<1>6. Saying(toProg, x, y, p, a(right))
  BY <1>1, <1>2, <1>4, <1>5 DEF Saying, Early, Down, IndTypes
<1> QED  BY <1>1, <1>3, <1>4, <1>5, <1>6, Moving

LEMMA Speaks ==
    ASSUME IInv, NEW p \in Plcis, Speak(p)
    PROVE  State(cfg', toProg', toBrick', line', calls', files', rung')
<1> DEFINE x == line[p]
           n == x.sent + 1
           y == [x EXCEPT !.sent = n]
           a == Ind(p, TRUE, "DATAB3_IND", n)
<1>1. x.st = "b3up" /\ rung' = rung
  BY DEF Speak
<1>2. x \in Busy /\ x.id # 0
  BY <1>1, Here
<1>3. Moves(p, y, <<a>>)
  <2>1. y = [x EXCEPT !.sent = @ + 1]
    BY <1>2 DEF Busy
  <2> HIDE DEF y
  <2> QED  BY <2>1 DEF Speak
<1>4. /\ y \in Busy /\ y.st = x.st /\ y.id = x.id /\ y.played = x.played /\ y.unconf = x.unconf
      /\ y.sent = n /\ y.acked = x.acked /\ x.sent \in Nat /\ n \in Nat
  <2>1. n \in Nat
    BY <1>2 DEF Busy
  <2> HIDE DEF n
  <2> QED  BY <1>2, <2>1 DEF Busy
<1>5. a \in FromBrick /\ a.type = "DATAB3_IND" /\ a.plci = p /\ a.id = x.id /\ a.arg = n
  <2>1. "DATAB3_IND" \in NcciTypes
    BY DEF NcciTypes
  <2> HIDE DEF n
  <2>2. Message(a, "DATAB3_IND", p, x.id, n)
    BY <1>1, <1>4, <2>1, IndIn
  <2> QED  BY <2>2 DEF Message
<1> HIDE DEF y, a
<1>6. Saying(toProg, x, y, p, a)
  BY <1>1, <1>2, <1>4, <1>5 DEF Saying, Early, Down, IndTypes
<1> QED  BY <1>1, <1>3, <1>4, <1>5, <1>6, Moving

LEMMA HangsUp ==
    ASSUME IInv, NEW p \in Plcis, HangUp(p)
    PROVE  State(cfg', toProg', toBrick', line', calls', files', rung')
<1> DEFINE x == line[p]
           y1 == [x EXCEPT !.st = "b3down", !.unconf = <<>>]
           y2 == [x EXCEPT !.st = "clearing"]
           a1 == Ind(p, TRUE, "DISCONNECTB3_IND", 0)
           a2 == Ind(p, FALSE, "DISCONNECT_IND", 0)
<1>1. /\ \/ x.st \in {"b3offered", "b3up"} /\ Moves(p, y1, <<a1>>)
         \/ x.st \in {"offered", "b3down"} /\ Moves(p, y2, <<a2>>)
      /\ rung' = rung
  BY DEF HangUp
<1>2. x \in Busy /\ x.id # 0 /\ x.sent \in Nat /\ x.st # "free"
  <2>1. x.st # "free"
    BY <1>1
  <2>2. x \in Busy /\ x.id # 0
    BY <2>1, Here
  <2> QED  BY <2>1, <2>2 DEF Busy
<1>3. /\ y1 \in Busy /\ y1.st = "b3down" /\ y1.id = x.id /\ y1.played = x.played /\ y1.unconf = <<>>
      /\ y1.sent = x.sent /\ y1.acked = x.acked
      /\ y2 \in Busy /\ y2.st = "clearing" /\ y2.id = x.id /\ y2.played = x.played
      /\ y2.unconf = x.unconf /\ y2.sent = x.sent /\ y2.acked = x.acked
  BY <1>2, LinesTo
<1>4. /\ a1 \in FromBrick /\ a1.type = "DISCONNECTB3_IND" /\ a1.plci = p /\ a1.id = x.id
      /\ a2 \in FromBrick /\ a2.type = "DISCONNECT_IND" /\ a2.plci = p /\ a2.id = x.id
  <2>1. "DISCONNECTB3_IND" \in NcciTypes /\ "DISCONNECT_IND" \in IndTypes \ NcciTypes
    BY DEF IndTypes, NcciTypes
  <2>2. Message(a1, "DISCONNECTB3_IND", p, x.id, 0) /\ Message(a2, "DISCONNECT_IND", p, x.id, 0)
    BY <1>2, <2>1, IndIn
  <2> QED  BY <2>2 DEF Message
<1> HIDE DEF y1, y2, a1, a2
<1>5. CASE x.st \in {"b3offered", "b3up"} /\ Moves(p, y1, <<a1>>)
  <2>1. Saying(toProg, x, y1, p, a1)
    BY <1>2, <1>3, <1>4, <1>5 DEF Saying, Early, Down, IndTypes
  <2> QED  BY <1>1, <1>2, <1>3, <1>4, <1>5, <2>1, Moving
<1>6. CASE x.st \in {"offered", "b3down"} /\ Moves(p, y2, <<a2>>)
  <2>1. Saying(toProg, x, y2, p, a2)
    BY <1>2, <1>3, <1>4, <1>6 DEF Saying, Early, Down, IndTypes
  <2> QED  BY <1>1, <1>2, <1>3, <1>4, <1>6, <2>1, Moving
<1> QED  BY <1>1, <1>5, <1>6

LEMMA Playback ==
    ASSUME IInv, NEW p \in Plcis, Play(p)
    PROVE  State(cfg', toProg', toBrick', line', calls', files', rung')
<1> DEFINE x == line[p]
           y == [x EXCEPT !.played = Append(@, Head(x.unconf)), !.unconf = Tail(@)]
           a == Ind(p, TRUE, "DATAB3_CONF", 0)
           ll == [line EXCEPT ![p] = y]
           t == toProg \o <<a>>
<1>1. /\ line' = ll /\ toProg' = t /\ toBrick' = toBrick /\ cfg' = cfg /\ calls' = calls
      /\ files' = files /\ rung' = rung /\ x.st = "b3up" /\ x.unconf # <<>>
  BY DEF Play, Moves, Becomes
<1>2. x \in Busy
  BY <1>1, Here
<1>3. /\ x.played \in Seq(Nat) /\ x.unconf \in Seq(Nat) /\ Head(x.unconf) \in Nat
      /\ Tail(x.unconf) \in Seq(Nat) /\ Append(x.played, Head(x.unconf)) \in Seq(Nat)
  <2>1. x.played \in Seq(Nat) /\ x.unconf \in Seq(Nat)
    BY <1>2 DEF Busy
  <2>2. Head(x.unconf) \in Nat /\ Tail(x.unconf) \in Seq(Nat)
    BY <1>1, <2>1
  <2> QED  BY <2>1, <2>2
<1>4. /\ y \in Busy /\ y.st = x.st /\ y.id = x.id /\ y.sent = x.sent /\ y.acked = x.acked
      /\ y.unconf = Tail(x.unconf) /\ y.played = Append(x.played, Head(x.unconf))
  <2> DEFINE v == Append(x.played, Head(x.unconf))
             w == Tail(x.unconf)
  <2>1. y = [x EXCEPT !.played = v, !.unconf = w] /\ v \in Seq(Nat) /\ w \in Seq(Nat)
    BY <1>2, <1>3 DEF Busy
  <2> HIDE DEF y, v, w
  <2>2. /\ y \in Busy /\ y.st = x.st /\ y.id = x.id /\ y.sent = x.sent /\ y.acked = x.acked
        /\ y.unconf = w /\ y.played = v
    BY <1>2, <2>1 DEF Busy
  <2> QED  BY <2>2 DEF v, w
<1>5. a \in FromBrick /\ a.type = "DATAB3_CONF" /\ a.plci = p /\ a.id = x.id
  <2>1. "DATAB3_CONF" \in ConfTypes
    BY DEF ConfTypes
  <2>2. Message(a, "DATAB3_CONF", p, x.id, 0)
    BY <1>1, <2>1, IndIn
  <2> QED  BY <2>2 DEF Message
<1> HIDE DEF y, a
<1>6. Changed(line, ll, p, y)
  BY <1>4, ChangedTo DEF Lines
<1>7. Behind(FromBrick, toProg, t, a)
  BY <1>5, Here, Behinds
<1> HIDE DEF t, ll
<1>8. PlayedOne(x, y)
  BY <1>1, <1>4 DEF PlayedOne
<1>9. Alike(line, ll)
  BY <1>4, <1>6 DEF Alike, Changed
<1>10. State(cfg, t, toBrick, ll, calls, files, rung)
  BY <1>1, <1>5, <1>6, <1>7, <1>8, <1>9, Here, Plays
<1> QED  BY <1>1, <1>10

LEMMA RingsUp ==
    ASSUME IInv, NEW p \in Plcis, Ring(p)
    PROVE  State(cfg', toProg', toBrick', line', calls', files', rung')
<1> DEFINE i == rung + 1
           y == [Idle EXCEPT !.st = "offered", !.id = i]
           a(right) == [type |-> "CONNECT_IND", plci |-> p, b3 |-> FALSE, id |-> i, arg |-> right]
           ll == [line EXCEPT ![p] = y]
           t(right) == toProg \o <<a(right)>>
<1>1. PICK right \in {0, 1} :
         /\ line' = ll /\ toProg' = t(right) /\ toBrick' = toBrick /\ toBrick = <<>> /\ cfg' = cfg
         /\ calls' = calls /\ files' = files
  BY DEF Ring, Moves, Becomes
<1>2. rung' = i /\ line[p].st = "free" /\ rung < cfg.rings
  BY DEF Ring
<1>3. i \in CallIds /\ rung < MaxCalls
  <2>1. cfg.rings \in 0 .. MaxCalls
    BY Here, AnswerMachineAssumption
  <2> QED  BY <1>2, <2>1, Here, Constants DEF CallIds
<1>4. y \in Busy /\ y.id = i /\ y.st = "offered" /\ y.unconf = <<>> /\ y.played = <<>> /\ y.acked = {}
  <2> HIDE DEF i
  <2>1. /\ Idle \in [st : {"free"}, id : Nat, digits : Nat, played : Seq(Nat), unconf : Seq(Nat),
                    sent : Nat, acked : SUBSET Nat]
        /\ Idle.unconf = <<>> /\ Idle.played = <<>> /\ Idle.acked = {}
    BY DEF Idle
  <2>2. /\ y \in Busy /\ y.id = i /\ y.st = "offered" /\ y.unconf = Idle.unconf
        /\ y.played = Idle.played /\ y.acked = Idle.acked
    BY <1>3, <2>1 DEF Busy
  <2> QED  BY <2>1, <2>2
<1>5. /\ a(right) \in FromBrick /\ a(right).type = "CONNECT_IND" /\ a(right).plci = p
      /\ a(right).id = i
  <2> HIDE DEF i
  <2> QED  BY <1>3 DEF FromBrick, Tellings, IndTypes, NcciTypes
<1> DEFINE m == a(right)
           u == t(right)
<1> HIDE DEF y, i
<1>6. Changed(line, ll, p, y)
  BY <1>4, ChangedTo DEF Lines
<1>7. Behind(FromBrick, toProg, u, m)
  <2> HIDE DEF m
  <2>1. u = toProg \o <<m>> /\ m \in FromBrick
    BY <1>5 DEF m
  <2> HIDE DEF u, t
  <2> QED  BY <2>1, Here, Behinds
<1>8. m.type = "CONNECT_IND" /\ m.plci = p /\ m.id = rung + 1
  BY <1>5 DEF i
<1> HIDE DEF u, m, a, t, ll
<1>9. Rung(y, rung + 1)
  BY <1>4 DEF Rung, i
<1>10. State(cfg, toProg, <<>>, line, calls, files, rung)
  BY <1>1, Here
<1>11. State(cfg, u, <<>>, ll, calls, files, rung + 1)
  BY <1>2, <1>3, <1>6, <1>7, <1>8, <1>9, <1>10, Rings
<1> QED  BY <1>1, <1>2, <1>11 DEF u, i

\* A confirmation is told of a line that does not change.
LEMMA ConfSaid ==
    ASSUME NEW s, NEW x \in Busy, NEW p, NEW a, NEW type \in ConfTypes \ {"DATAB3_CONF"}, NEW arg,
           Message(a, type, p, x.id, arg)
    PROVE  Saying(s, x, x, p, a)
<1>1. a.type \in ConfTypes /\ a.type # "DATAB3_CONF" /\ a.plci = p /\ a.id = x.id
  BY DEF Message
<1>2. x.id # 0 /\ x.sent \in Nat
  BY DEF Busy, CallIds
<1>3. a.type \in (IndTypes \cup ConfTypes) \ {"CONNECT_IND", "DATAB3_CONF"} /\ a.type \notin IndTypes
  BY <1>1 DEF IndTypes, ConfTypes
<1> QED  BY <1>1, <1>2, <1>3 DEF Saying, IndTypes

\* What the brick takes is about the call of a line.
LEMMA TakesHead ==
    ASSUME IInv, toBrick # <<>>, NEW m, m = Head(toBrick)
    PROVE  /\ m \in FromProg /\ Rest(FromProg, toBrick, Tail(toBrick), m)
           /\ m.plci \in Plcis /\ m.id = line[m.plci].id /\ m.id # 0 /\ m.b3 \in BOOLEAN
           /\ line[m.plci].st # "free" /\ line[m.plci] \in Busy
           /\ \A j \in DOMAIN toProg : toProg[j].type = "CONNECT_IND" => toProg[j].plci # m.plci
           /\ m.type = "DISCONNECT_REQ" => Down(line[m.plci].st)
<1>1. State(cfg, toProg, toBrick, line, calls, files, rung) /\ toBrick \in Seq(FromProg)
  BY Here
<1>2. Rest(FromProg, toBrick, Tail(toBrick), m)
  BY <1>1, RestOf
<1>3. m \in FromProg /\ 1 \in DOMAIN toBrick /\ toBrick[1] = m
  BY <1>2 DEF Rest
<1>4. m.plci \in Plcis /\ m.id \in CallIds /\ m.id # 0 /\ m.b3 \in BOOLEAN
  BY <1>3 DEF FromProg, CallIds
<1>5. Replied(toProg, toBrick, line, calls)
  BY <1>1 DEF State, Inv
<1>6. /\ m.id = line[m.plci].id
      /\ \A j \in DOMAIN toProg : toProg[j].type = "CONNECT_IND" => toProg[j].plci # m.plci
      /\ m.type = "DISCONNECT_REQ" => Down(line[m.plci].st)
  BY <1>3, <1>5 DEF Replied
<1>7. line[m.plci].st # "free" /\ line[m.plci] \in Busy
  <2>1. line[m.plci] \in Lines
    BY <1>4, Here
  <2> QED  BY <1>4, <1>6, <2>1, LineIn
<1> QED  BY <1>2, <1>3, <1>4, <1>6, <1>7

\* The brick takes a message that is no block, and tells a; or a and b; or nothing.
LEMMA Taking ==
    ASSUME IInv, toBrick # <<>>, toBrick' = Tail(toBrick), rung' = rung, NEW m, m = Head(toBrick),
           m.type # "DATAB3_REQ", NEW y \in Busy, NEW a \in FromBrick, NEW p, p = m.plci,
           Becomes(p, y, <<a>>), Saying(toProg, line[p], y, p, a)
    PROVE  State(cfg', toProg', toBrick', line', calls', files', rung')
<1> DEFINE ll == [line EXCEPT ![p] = y]
           s == toProg \o <<a>>
           t == Tail(toBrick)
<1>1. /\ line' = ll /\ toProg' = s /\ toBrick' = t /\ cfg' = cfg /\ calls' = calls /\ files' = files
  BY DEF Becomes
<1>2. p \in Plcis /\ Rest(FromProg, toBrick, t, m)
  BY TakesHead
<1>3. Changed(line, ll, p, y)
  BY <1>2, ChangedTo DEF Lines
<1>4. Behind(FromBrick, toProg, s, a)
  BY Here, Behinds
<1> HIDE DEF ll, s, t
<1>5. State(cfg, toProg, t, line, calls, files, rung)
  BY <1>2, Here, TakesPlain
<1>6. State(cfg, s, t, ll, calls, files, rung)
  BY <1>3, <1>4, <1>5, Says
<1> QED  BY <1>1, <1>6

LEMMA TakingTwo ==
    ASSUME IInv, toBrick # <<>>, toBrick' = Tail(toBrick), rung' = rung, NEW m, m = Head(toBrick),
           m.type # "DATAB3_REQ", NEW y \in Busy, NEW z \in Busy, NEW a \in FromBrick,
           NEW b \in FromBrick, NEW p, p = m.plci, Becomes(p, y, <<a, b>>),
           Saying(toProg, line[p], z, p, a), Saying(Append(toProg, a), z, y, p, b)
    PROVE  State(cfg', toProg', toBrick', line', calls', files', rung')
<1> DEFINE ll == [line EXCEPT ![p] = y]
           l1 == [line EXCEPT ![p] = z]
           s == toProg \o <<a, b>>
           s1 == Append(toProg, a)
           t == Tail(toBrick)
<1>1. /\ line' = ll /\ toProg' = s /\ toBrick' = t /\ cfg' = cfg /\ calls' = calls /\ files' = files
  BY DEF Becomes
<1>2. p \in Plcis /\ Rest(FromProg, toBrick, t, m)
  BY TakesHead
<1>3. Changed(line, l1, p, z) /\ Changed(line, ll, p, y)
  BY <1>2, ChangedTo DEF Lines
<1>4. Behind(FromBrick, toProg, s1, a) /\ Behind(FromBrick, s1, s, b)
  BY Here, Behinds
<1>5. Saying(s1, z, y, p, b)
  OBVIOUS
<1> HIDE DEF ll, l1, s, s1, t
<1>6. State(cfg, toProg, t, line, calls, files, rung)
  BY <1>2, Here, TakesPlain
<1>7. State(cfg, s1, t, l1, calls, files, rung)
  BY <1>3, <1>4, <1>6, Says
<1>8. l1[p] = z /\ Changed(l1, ll, p, y)
  BY <1>3 DEF Changed
<1>9. State(cfg, s, t, ll, calls, files, rung)
  BY <1>4, <1>5, <1>7, <1>8, Says
<1> QED  BY <1>1, <1>9

LEMMA TakingNone ==
    ASSUME IInv, toBrick # <<>>, toBrick' = Tail(toBrick), rung' = rung, NEW m, m = Head(toBrick),
           m.type # "DATAB3_REQ", NEW p, p = m.plci, Becomes(p, line[p], <<>>)
    PROVE  State(cfg', toProg', toBrick', line', calls', files', rung')
<1> DEFINE ll == [line EXCEPT ![p] = line[p]]
           t == Tail(toBrick)
<1>1. /\ line' = ll /\ toProg' = toProg \o <<>> /\ toBrick' = t /\ cfg' = cfg /\ calls' = calls
      /\ files' = files
  BY DEF Becomes
<1>2. p \in Plcis /\ Rest(FromProg, toBrick, t, m)
  BY TakesHead
<1>3. ll = line /\ toProg \o <<>> = toProg
  BY <1>2, Here, Behinds
<1> HIDE DEF ll, t
<1>4. State(cfg, toProg, t, line, calls, files, rung)
  BY <1>2, Here, TakesPlain
<1> QED  BY <1>1, <1>3, <1>4

LEMMA Taken ==
    ASSUME IInv, BrickTakes
    PROVE  State(cfg', toProg', toBrick', line', calls', files', rung')
<1> DEFINE m == Head(toBrick)
           p == m.plci
           x == line[p]
           To(st, ms) == Becomes(p, [x EXCEPT !.st = st], ms)
           C(type) == Ind(p, m.b3, type, 0)
           y(st) == [x EXCEPT !.st = st]
           d == [x EXCEPT !.st = "b3down", !.unconf = <<>>]
           i1 == Ind(p, FALSE, "CONNECTACTIVE_IND", 0)
           i2 == Ind(p, TRUE, "CONNECTB3_IND", 0)
           i3 == Ind(p, TRUE, "CONNECTB3ACTIVE_IND", 0)
           i4 == Ind(p, TRUE, "DISCONNECTB3_IND", 0)
           i5 == Ind(p, FALSE, "DISCONNECT_IND", 0)
           t == Tail(toBrick)
<1>1. toBrick # <<>> /\ toBrick' = t /\ rung' = rung
  BY DEF BrickTakes
<1>2. /\ m \in FromProg /\ Rest(FromProg, toBrick, t, m)
      /\ p \in Plcis /\ m.id = x.id /\ m.id # 0 /\ m.b3 \in BOOLEAN
      /\ x.st # "free" /\ x \in Busy
      /\ \A j \in DOMAIN toProg : toProg[j].type = "CONNECT_IND" => toProg[j].plci # p
      /\ m.type = "DISCONNECT_REQ" => Down(x.st)
  BY <1>1, TakesHead
<1>3. /\ Message(i1, "CONNECTACTIVE_IND", p, x.id, 0) /\ Message(i2, "CONNECTB3_IND", p, x.id, 0)
      /\ Message(i3, "CONNECTB3ACTIVE_IND", p, x.id, 0) /\ Message(i4, "DISCONNECTB3_IND", p, x.id, 0)
      /\ Message(i5, "DISCONNECT_IND", p, x.id, 0)
  <2>1. /\ "CONNECTACTIVE_IND" \in IndTypes \ NcciTypes /\ "CONNECTB3_IND" \in NcciTypes
        /\ "CONNECTB3ACTIVE_IND" \in NcciTypes /\ "DISCONNECTB3_IND" \in NcciTypes
        /\ "DISCONNECT_IND" \in IndTypes \ NcciTypes
    BY DEF IndTypes, NcciTypes
  <2> QED  BY <1>2, <2>1, IndIn
<1>4. \A type \in ConfTypes : Message(C(type), type, p, x.id, 0)
  BY <1>2, IndIn
<1>5. x.st \in {"offered", "b3offered", "b3up", "b3down", "clearing"} /\ x.id # 0 /\ x.sent \in Nat
  BY <1>2, SMTT(40), SMTT(41), ZenonT(30) DEF Busy
<1>6. /\ \A st \in {"offered", "b3offered", "b3up", "b3down", "clearing"} :
            /\ y(st) \in Busy /\ y(st).st = st
            /\ y(st).id = x.id /\ y(st).played = x.played
            /\ y(st).unconf = x.unconf /\ y(st).sent = x.sent
            /\ y(st).acked = x.acked
      /\ y(x.st) = x
      /\ d \in Busy /\ d.st = "b3down" /\ d.unconf = <<>> /\ d.id = x.id /\ d.played = x.played
      /\ d.sent = x.sent /\ d.acked = x.acked
  BY <1>2, LinesTo
<1>7. ASSUME NEW type \in ConfTypes \ {"DATAB3_CONF"}
      PROVE  C(type) \in FromBrick /\ Saying(toProg, x, x, p, C(type))
  <2>1. Message(C(type), type, p, x.id, 0)
    BY <1>4
  <2> HIDE DEF C, x
  <2> QED  BY <1>2, <2>1, ConfSaid DEF Message
<1>8. CASE m.type = "CONNECT_RESP" /\ x.st = "offered" /\ m.arg = 0
  <2> DEFINE z == y("b3offered")
  <2>1. Becomes(p, z, <<i1, i2>>)
    BY <1>8 DEF BrickTakes
  <2>2. /\ z \in Busy /\ z.st = "b3offered" /\ z.id = x.id /\ z.played = x.played
        /\ z.unconf = x.unconf /\ z.sent = x.sent /\ z.acked = x.acked
    BY <1>6
  <2> HIDE DEF z, y, x, i1, i2
  <2>3. Saying(toProg, x, z, p, i1)
    BY <1>2, <1>3, <1>5, <1>8, <2>2 DEF Saying, Message, Early, Down, IndTypes
  <2>4. Saying(Append(toProg, i1), z, z, p, i2)
    BY <1>3, <1>5, <2>2 DEF Saying, Message, Early, Down, IndTypes
  <2>5. i1 \in FromBrick /\ i2 \in FromBrick
    BY <1>3 DEF Message
  <2> QED  BY <1>1, <1>8, <2>1, <2>2, <2>3, <2>4, <2>5, TakingTwo DEF x
<1>9. CASE m.type = "CONNECT_RESP" /\ x.st = "offered" /\ m.arg # 0
  <2> DEFINE z == y("clearing")
  <2>1. Becomes(p, z, <<i5>>)
    BY <1>9 DEF BrickTakes
  <2>2. /\ z \in Busy /\ z.st = "clearing" /\ z.id = x.id /\ z.played = x.played
        /\ z.unconf = x.unconf /\ z.sent = x.sent /\ z.acked = x.acked
    BY <1>6
  <2> HIDE DEF z, y, x, i5
  <2>3. Saying(toProg, x, z, p, i5) /\ i5 \in FromBrick
    BY <1>3, <1>5, <1>9, <2>2 DEF Saying, Message, Early, Down, IndTypes
  <2> QED  BY <1>1, <1>9, <2>1, <2>2, <2>3, Taking DEF x
<1>10. CASE m.type = "CONNECTB3_RESP" /\ x.st = "b3offered"
  <2> DEFINE z == y("b3up")
  <2>1. Becomes(p, z, <<i3>>)
    BY <1>10 DEF BrickTakes
  <2>2. /\ z \in Busy /\ z.st = "b3up" /\ z.id = x.id /\ z.played = x.played
        /\ z.unconf = x.unconf /\ z.sent = x.sent /\ z.acked = x.acked
    BY <1>6
  <2> HIDE DEF z, y, x, i3
  <2>3. Saying(toProg, x, z, p, i3) /\ i3 \in FromBrick
    BY <1>3, <1>5, <1>10, <2>2 DEF Saying, Message, Early, Down, IndTypes
  <2> QED  BY <1>1, <1>10, <2>1, <2>2, <2>3, Taking DEF x
<1>11. ASSUME NEW type \in ConfTypes \ {"DATAB3_CONF"}, m.type # "DATAB3_REQ",
              Becomes(p, y(x.st), <<C(type)>>)
       PROVE  State(cfg', toProg', toBrick', line', calls', files', rung')
  <2>1. Becomes(p, x, <<C(type)>>)
    BY <1>6, <1>11
  <2>2. C(type) \in FromBrick /\ Saying(toProg, x, x, p, C(type))
    BY <1>7
  <2> HIDE DEF C, x, y
  <2> QED  BY <1>1, <1>2, <1>11, <2>1, <2>2, Taking DEF x
<1>12. CASE m.type = "FACILITY_REQ"
  <2>1. Becomes(p, y(x.st), <<C("FACILITY_CONF")>>)
    BY <1>12 DEF BrickTakes
  <2> QED  BY <1>11, <1>12, <2>1, SMTT(40), SMTT(41), ZenonT(30) DEF ConfTypes
<1>13. CASE m.type = "DATAB3_REQ" /\ x.st = "b3up"
  <2> DEFINE v == Append(x.unconf, m.arg)
             z == [x EXCEPT !.unconf = v]
             ll == [line EXCEPT ![p] = z]
  <2>1. Becomes(p, z, <<>>)
    <3>1. Becomes(p, [x EXCEPT !.unconf = Append(@, m.arg)], <<>>)
      BY <1>13 DEF BrickTakes
    <3>2. z = [x EXCEPT !.unconf = Append(@, m.arg)]
      BY <1>2 DEF Busy
    <3> QED  BY <3>1, <3>2
  <2>2. v \in Seq(Nat)
    BY <1>2 DEF Busy, FromProg
  <2>3. /\ z \in Busy /\ z.st = x.st /\ z.id = x.id /\ z.played = x.played
        /\ z.unconf = v /\ z.sent = x.sent /\ z.acked = x.acked
    <3> HIDE DEF v
    <3> QED  BY <1>2, <2>2 DEF Busy
  <2>4. Took(x, z, m.arg)
    BY <2>3 DEF Took
  <2> HIDE DEF z
  <2>5. /\ line' = ll /\ toProg' = toProg \o <<>> /\ cfg' = cfg /\ calls' = calls /\ files' = files
    BY <2>1 DEF Becomes
  <2>6. Changed(line, ll, p, z)
    BY <1>2, <2>3, ChangedTo DEF Lines
  <2>7. Alike(line, ll)
    <3> HIDE DEF ll
    <3> QED  BY <2>3, <2>6 DEF Alike, Changed
  <2> HIDE DEF ll, t, m
  <2>8. State(cfg, toProg, t, ll, calls, files, rung)
    BY <1>2, <1>13, <2>4, <2>6, <2>7, Here, TakesBlock
  <2>9. toProg \o <<>> = toProg
    BY Here, Behinds
  <2> QED  BY <1>1, <2>5, <2>8, <2>9
<1>14. CASE m.type = "DATAB3_REQ" /\ x.st # "b3up"
  <2> DEFINE a == C("DATAB3_CONF")
             u == toProg \o <<a>>
             ll == [line EXCEPT ![p] = x]
  <2>1. Becomes(p, y(x.st), <<a>>)
    BY <1>14 DEF BrickTakes
  <2>2. Becomes(p, x, <<a>>)
    BY <1>6, <2>1
  <2>3. /\ line' = ll /\ toProg' = u /\ cfg' = cfg /\ calls' = calls /\ files' = files
    BY <2>2 DEF Becomes
  <2>4. ll = line
    BY <1>2, Here
  <2>5. a \in FromBrick /\ a.type = "DATAB3_CONF" /\ a.plci = p /\ a.id = m.id
    BY <1>2, <1>4 DEF Message, ConfTypes
  <2> HIDE DEF a
  <2>6. Behind(FromBrick, toProg, u, a)
    BY <2>5, Here, Behinds
  <2> HIDE DEF ll, t, u, m
  <2>7. State(cfg, u, t, line, calls, files, rung)
    BY <1>2, <1>14, <2>5, <2>6, Here, DropsBlock
  <2> QED  BY <1>1, <2>3, <2>4, <2>7
<1>15. CASE m.type = "DATAB3_RESP"
  <2> DEFINE v == x.acked \cup {m.arg}
             z == [x EXCEPT !.acked = v]
             ll == [line EXCEPT ![p] = z]
  <2>1. Becomes(p, z, <<>>)
    <3>1. Becomes(p, [x EXCEPT !.acked = @ \cup {m.arg}], <<>>)
      BY <1>15 DEF BrickTakes
    <3>2. z = [x EXCEPT !.acked = @ \cup {m.arg}]
      BY <1>2 DEF Busy
    <3> QED  BY <3>1, <3>2, SMTT(40), SMTT(41), ZenonT(30)
  <2>2. v \in SUBSET Nat
    BY <1>2 DEF Busy, FromProg
  <2>3. /\ z \in Busy /\ z.st = x.st /\ z.id = x.id /\ z.played = x.played
        /\ z.unconf = x.unconf /\ z.sent = x.sent /\ z.acked = v
    <3> HIDE DEF v
    <3> QED  BY <1>2, <2>2 DEF Busy
  <2> HIDE DEF z
  <2>4. /\ line' = ll /\ toProg' = toProg \o <<>> /\ cfg' = cfg /\ calls' = calls /\ files' = files
    BY <2>1 DEF Becomes
  <2>5. Changed(line, ll, p, z)
    BY <1>2, <2>3, ChangedTo DEF Lines
  <2>6. Alike(line, ll)
    <3> HIDE DEF ll
    <3> QED  BY <2>3, <2>5 DEF Alike, Changed
  <2> HIDE DEF ll, t, m
  <2>7. State(cfg, toProg, t, ll, calls, files, rung)
    BY <1>2, <1>15, <2>3, <2>5, <2>6, Here, TakesAck
  <2>8. toProg \o <<>> = toProg
    BY Here, Behinds
  <2> QED  BY <1>1, <2>4, <2>7, <2>8
<1>16. CASE m.type = "DISCONNECTB3_REQ" /\ x.st = "b3up"
  <2> DEFINE c == C("DISCONNECTB3_CONF")
  <2>1. Becomes(p, d, <<c, i4>>)
    BY <1>16 DEF BrickTakes
  <2>2. c \in FromBrick /\ Saying(toProg, x, x, p, c)
    BY <1>7 DEF ConfTypes
  <2> HIDE DEF d, x, c, i4
  <2>3. Saying(Append(toProg, c), x, d, p, i4) /\ i4 \in FromBrick
    BY <1>3, <1>5, <1>6, <1>16 DEF Saying, Message, Early, Down, IndTypes
  <2>4. d \in Busy /\ x \in Busy
    BY <1>2, <1>6
  <2> QED  BY <1>1, <1>16, <2>1, <2>2, <2>3, <2>4, TakingTwo DEF x
<1>17. CASE m.type = "DISCONNECTB3_REQ" /\ x.st # "b3up"
  <2>1. Becomes(p, y(x.st), <<C("DISCONNECTB3_CONF")>>)
    BY <1>17 DEF BrickTakes
  <2> QED  BY <1>11, <1>17, <2>1, SMTT(40), SMTT(41), ZenonT(30) DEF ConfTypes
<1>18. CASE m.type = "DISCONNECT_REQ" /\ x.st # "clearing"
  <2> DEFINE c == C("DISCONNECT_CONF")
             z == y("clearing")
  <2>1. Becomes(p, z, <<c, i5>>)
    BY <1>2, <1>18 DEF BrickTakes
  <2>2. c \in FromBrick /\ Saying(toProg, x, x, p, c)
    BY <1>7 DEF ConfTypes
  <2>3. /\ z \in Busy /\ z.st = "clearing" /\ z.id = x.id /\ z.played = x.played
        /\ z.unconf = x.unconf /\ z.sent = x.sent /\ z.acked = x.acked
    BY <1>6
  <2> HIDE DEF x, c, i5, z, y
  <2>4. x.st = "b3down"
    BY <1>2, <1>18 DEF Down
  <2>5. Saying(Append(toProg, c), x, z, p, i5) /\ i5 \in FromBrick
    BY <1>3, <1>5, <2>3, <2>4 DEF Saying, Message, Early, Down, IndTypes
  <2>6. z \in Busy /\ x \in Busy
    BY <1>2, <2>3
  <2> QED  BY <1>1, <1>18, <2>1, <2>2, <2>5, <2>6, TakingTwo, SMTT(40), SMTT(41), ZenonT(30) DEF x
<1>19. CASE m.type = "DISCONNECT_REQ" /\ x.st = "clearing"
  <2>1. Becomes(p, y(x.st), <<C("DISCONNECT_CONF")>>)
    BY <1>19 DEF BrickTakes
  <2> QED  BY <1>11, <1>19, <2>1 DEF ConfTypes
<1>20. CASE m.type = "DISCONNECT_RESP" /\ x.st = "clearing"
  <2> DEFINE ll == [line EXCEPT ![p] = Idle]
  <2>1. Becomes(p, Idle, <<>>)
    BY <1>20 DEF BrickTakes
  <2>2. /\ line' = ll /\ toProg' = toProg \o <<>> /\ cfg' = cfg /\ calls' = calls /\ files' = files
    BY <2>1 DEF Becomes
  <2>3. Changed(line, ll, p, Idle)
    BY <1>2, ChangedTo DEF Lines
  <2> HIDE DEF ll, t, m
  <2>4. State(cfg, toProg, t, ll, calls, files, rung)
    BY <1>2, <1>20, <2>3, Here, TakesEnd
  <2>5. toProg \o <<>> = toProg
    BY Here, Behinds
  <2> QED  BY <1>1, <2>2, <2>4, <2>5
<1>21. CASE \/ m.type \notin {"CONNECT_RESP", "CONNECTB3_RESP", "FACILITY_REQ", "DATAB3_REQ",
                              "DATAB3_RESP", "DISCONNECTB3_REQ", "DISCONNECT_REQ", "DISCONNECT_RESP"}
            \/ m.type = "CONNECT_RESP" /\ x.st # "offered"
            \/ m.type = "CONNECTB3_RESP" /\ x.st # "b3offered"
            \/ m.type = "DISCONNECT_RESP" /\ x.st # "clearing"
  <2>1. Becomes(p, y(x.st), <<>>)
    BY <1>21 DEF BrickTakes
  <2>2. Becomes(p, x, <<>>) /\ m.type # "DATAB3_REQ"
    BY <1>6, <1>21, <2>1
  <2> HIDE DEF x, y
  <2> QED  BY <1>1, <2>2, TakingNone, SMTT(40), SMTT(41), ZenonT(30) DEF x
<1> QED
  BY <1>8, <1>9, <1>10, <1>12, <1>13, <1>14, <1>15, <1>16, <1>17, <1>18, <1>19, <1>20, <1>21, SMTT(40), SMTT(41), ZenonT(30)

--------------------------------------------------------------------------------
(* The invariant holds *)

LEMMA InitInv ==
    ASSUME Init
    PROVE  IInv
<1>1. /\ pc = "init" /\ cfg \in Configs /\ toProg = <<>> /\ toBrick = <<>> /\ calls = <<>>
      /\ rung = 0 /\ line = [p \in Plcis |-> Idle]
      /\ files = [i \in CallIds |-> [data |-> <<>>, part |-> {}, size |-> 0]]
  BY DEF Init
<1>2. files = [i \in CallIds |-> Empty]
  BY <1>1, Zenon DEF Empty
<1>3. Control
  BY <1>1, <1>2 DEF Control
<1>4. State(cfg, toProg, toBrick, line, calls, files, rung)
  <2>1. State(cfg, <<>>, <<>>, [p \in Plcis |-> Idle], <<>>, files, 0)
    BY <1>1, <1>2, Begins
  <2> QED  BY <1>1, <2>1
<1>5. pc \in PcValues
  BY <1>1 DEF PcValues
<1> QED  BY <1>3, <1>4, <1>5, Bridge

LEMMA Starting ==
    ASSUME IInv, Start
    PROVE  State(cfg', toProg', toBrick', line', calls', files', rung')
<1>1. /\ toProg' = <<ListenConf>> /\ calls' = calls /\ cfg' = cfg /\ toBrick' = toBrick
      /\ line' = line /\ rung' = rung /\ files' = files /\ pc = "init"
  BY DEF Start, ListenConf
<1>2. /\ toBrick = <<>> /\ calls = <<>> /\ rung = 0
      /\ line = [p \in Plcis |-> Idle] /\ files = [i \in CallIds |-> Empty]
  BY <1>1, Bridge DEF Control
<1>3. State(cfg, <<>>, <<>>, [p \in Plcis |-> Idle], <<>>, files, 0)
  BY <1>2, Here, Begins
<1>4. State(cfg, <<ListenConf>>, <<>>, [p \in Plcis |-> Idle], <<>>, files, 0)
  BY <1>2, <1>3, Here, Begins
<1> QED  BY <1>1, <1>2, <1>4

\* The program goes on, or ends.
LEMMA Going ==
    ASSUME CapiEvent
    PROVE  pc' \in {"poll", "exit", "killed"}
<1>1. \A ms, next : Sends(ms, next) => pc' = next
  BY DEF Sends
<1>2. CASE ConnectInd \/ InfoInd
  BY <1>1, <1>2 DEF ConnectInd, InfoInd, Quiet
<1>3. CASE ConnectActiveInd \/ ConnectB3Ind
  BY <1>1, <1>3 DEF ConnectActiveInd, ConnectB3Ind, Quiet
<1>4. CASE ConnectB3ActiveInd
  BY <1>1, <1>4 DEF ConnectB3ActiveInd
<1>5. CASE DataB3Conf \/ DataB3Ind
  BY <1>1, <1>5 DEF DataB3Conf, DataB3Ind, Quiet
<1>6. CASE DisconnectB3Ind \/ DisconnectInd
  BY <1>1, <1>6 DEF DisconnectB3Ind, DisconnectInd
<1>7. CASE Conf
  BY <1>1, <1>7 DEF Conf, Quiet
<1> QED  BY <1>2, <1>3, <1>4, <1>5, <1>6, <1>7 DEF CapiEvent

\* Before main begins nothing else moves.
LEMMA Waiting ==
    ASSUME IInv, pc = "init"
    PROVE  /\ ~BrickTakes
           /\ \A p \in Plcis : ~Play(p) /\ ~Ring(p) /\ ~Digit(p) /\ ~Speak(p) /\ ~HangUp(p)
<1>1. toBrick = <<>> /\ \A p \in Plcis : line[p].st = "free"
  BY Bridge DEF Control, Idle
<1>2. ~BrickTakes
  BY <1>1 DEF BrickTakes
<1>3. ASSUME NEW p \in Plcis
      PROVE  ~Play(p) /\ ~Ring(p) /\ ~Digit(p) /\ ~Speak(p) /\ ~HangUp(p)
  <2>1. ~Play(p) /\ ~Digit(p) /\ ~Speak(p) /\ ~HangUp(p)
    BY <1>1 DEF Play, Digit, Speak, HangUp
  <2>2. ~Ring(p)
    BY DEF Ring
  <2> QED  BY <2>1, <2>2
<1> QED  BY <1>2, <1>3

LEMMA Later ==
    ASSUME State(cfg', toProg', toBrick', line', calls', files', rung'),
           pc' \in {"poll", "exit", "killed"}
    PROVE  IInv'
<1>1. pc' # "init" /\ pc' \in {"init", "poll", "exit", "killed"}
  OBVIOUS
<1>2. Control'
  BY <1>1 DEF Control
<1>3. Typed'
  BY <1>1 DEF State, Shape, Typed
<1>4. Inv(toProg', toBrick', line', calls', files', rung')
  BY DEF State
<1> QED  BY <1>2, <1>3, <1>4 DEF IInv

LEMMA NextInv ==
    ASSUME IInv, [Next]_vars
    PROVE  IInv'
<1>1. CASE Start
  BY <1>1, Starting, Later DEF Start
<1>2. CASE CapiEvent
  <2>1. State(cfg', toProg', toBrick', line', calls', files', rung')
    BY <1>2, Incoming, Infos, ActiveInds, B3Inds, UpInds, DataConfs, DataInds, DownInds, EndInds,
       OtherConfs DEF CapiEvent
  <2> QED  BY <1>2, <2>1, Going, Later
<1>3. ASSUME pc # "init", pc' = pc
      PROVE  pc' \in {"poll", "exit", "killed"}
  BY <1>3, Bridge DEF PcValues
<1>4. CASE BrickTakes
  <2>1. pc' = pc
    BY <1>4 DEF BrickTakes, Becomes
  <2> QED  BY <1>3, <1>4, <2>1, Taken, Waiting, Later, SMTT(40), SMTT(41), ZenonT(30)
<1>5. ASSUME NEW p \in Plcis, Play(p) \/ Ring(p) \/ Digit(p) \/ Speak(p) \/ HangUp(p)
      PROVE  IInv'
  <2>1. pc' = pc
    BY <1>5 DEF Play, Ring, Digit, Speak, HangUp, Moves, Becomes
  <2>2. State(cfg', toProg', toBrick', line', calls', files', rung')
    BY <1>5, Playback, RingsUp, Digits, Speaks, HangsUp
  <2> QED  BY <1>3, <1>5, <2>1, <2>2, Waiting, Later
<1>6. CASE UNCHANGED vars
  <2>1. /\ pc' = pc /\ calls' = calls /\ cfg' = cfg /\ toBrick' = toBrick /\ toProg' = toProg
        /\ line' = line /\ rung' = rung /\ files' = files
    BY <1>6 DEF vars
  <2>2. Control' /\ Typed'
    BY <2>1 DEF IInv, Control, Typed
  <2>3. Inv(toProg', toBrick', line', calls', files', rung')
    BY <2>1 DEF IInv
  <2> QED  BY <2>2, <2>3 DEF IInv
<1> QED  BY <1>1, <1>2, <1>4, <1>5, <1>6 DEF Next, Main, Brick, Caller

\* All that the properties rest on holds whatever the brick and the callers do.
THEOREM Invariance == Spec => []IInv
<1>1. Init => IInv
  BY InitInv
<1>2. IInv /\ [Next]_vars => IInv'
  BY NextInv
<1> QED  BY <1>1, <1>2, PTL DEF Spec

--------------------------------------------------------------------------------
(* The properties *)

LEMMA Parts ==
    ASSUME IInv
    PROVE  /\ Counted(toProg, toBrick, line, calls) /\ Listed(line, calls) /\ Playing(line)
           /\ Filed(toProg, calls, files, rung) /\ Recorded(toProg, toBrick, line, files)
           /\ ListOk(cfg, calls) /\ LineOk(line)
<1>1. State(cfg, toProg, toBrick, line, calls, files, rung)
  BY Here
<1>2. Shape(cfg, toProg, toBrick, line, calls, files, rung)
  BY <1>1 DEF State
<1>3. ListOk(cfg, calls) /\ LineOk(line)
  BY <1>2, Elements
<1> QED  BY <1>1, <1>3 DEF State, Inv

LEMMA Types ==
    ASSUME IInv
    PROVE  TypeOK
<1>1. pc \in {"init", "poll", "exit", "killed"} /\ cfg \in Configs /\ rung \in 0 .. MaxCalls
  BY DEF IInv, Typed
<1>2. ASSUME NEW k \in DOMAIN calls
      PROVE  /\ calls[k].id \in CallIds /\ calls[k].plci \in Plcis
             /\ calls[k].state \in States /\ calls[k].ncnt \in 0 .. cfg.ncnt
             /\ calls[k].rxfp \in {"null", "open", "failed"}
             /\ calls[k].NotAcknowledged \in Nat /\ calls[k].usDataHandle \in 0 .. cfg.has
  <2>1. calls[k] \in CallRecords(cfg)
    BY Parts DEF ListOk
  <2> QED  BY <2>1 DEF CallRecords, Shapes
<1>3. ASSUME NEW p \in Plcis
      PROVE  line[p].id \in CallIds \cup {0} /\ line[p].sent \in Nat
  BY Parts DEF LineOk
<1> QED  BY <1>1, <1>2, <1>3 DEF TypeOK

\* How many messages of a type are under way for a call.
LEMMA OfThese ==
    ASSUME IInv, NEW i
    PROVE  /\ Of(i, "DATAB3_REQ", toBrick) = Number(toBrick, Reqs(i))
           /\ Of(i, "DATAB3_CONF", toProg) = Number(toProg, Confs(i))
<1>1. /\ \A n \in DOMAIN toBrick : toBrick[n] \in FromProg
      /\ \A n \in DOMAIN toProg : toProg[n] \in FromBrick
  BY Here
<1>2. {n \in DOMAIN toBrick : toBrick[n].id = i /\ toBrick[n].type = "DATAB3_REQ"}
         = {n \in DOMAIN toBrick : toBrick[n] \in Reqs(i)}
  BY <1>1 DEF Reqs
<1>3. {n \in DOMAIN toProg : toProg[n].id = i /\ toProg[n].type = "DATAB3_CONF"}
         = {n \in DOMAIN toProg : toProg[n] \in Confs(i)}
  BY <1>1 DEF Confs
<1> QED  BY <1>2, <1>3 DEF Of, Number, PlacesOf

\* The variables have their types: of the call NEWSTATE, nextwavestate and SendData
\* leave in the list, and of what the brick knows.
THEOREM TypeCorrect == Spec => []TypeOK
<1>1. IInv => TypeOK
  BY Types
<1> QED  BY <1>1, Invariance, PTL

\* NotAcknowledged counts the blocks of a call that is up which are not known to be
\* played, and they are never more than the window, however the confirmations of
\* the calls are mixed.
THEOREM WindowCorrect == Spec => []WindowKept
<1>1. ASSUME IInv  PROVE WindowKept
  <2>1. ASSUME NEW k \in DOMAIN calls,
               line[calls[k].plci].id = calls[k].id, line[calls[k].plci].st = "b3up"
        PROVE  /\ calls[k].NotAcknowledged = Of(calls[k].id, "DATAB3_REQ", toBrick)
                                             + Len(line[calls[k].plci].unconf)
                                             + Of(calls[k].id, "DATAB3_CONF", toProg)
               /\ calls[k].NotAcknowledged <= Window
    <3> DEFINE c == calls[k]
               x == line[c.plci]
    <3>1. Tally(x.st, c.NotAcknowledged, c.usDataHandle, Len(x.played), Len(x.unconf),
                Number(toBrick, Reqs(c.id)), Number(toProg, Confs(c.id)))
      BY <1>1, Parts DEF Counted
    <3>2. c.NotAcknowledged = Number(toBrick, Reqs(c.id)) + Len(x.unconf) + Number(toProg, Confs(c.id))
      <4> HIDE DEF x, c
      <4> QED  BY <2>1, <3>1 DEF Tally, x, c
    <3>3. c.NotAcknowledged <= Window
      <4>1. c \in CallRecords(cfg) /\ Window = Limit(cfg)
        BY <1>1, Parts, Here, Options DEF ListOk
      <4> QED  BY <4>1 DEF CallRecords
    <3> QED  BY <1>1, <3>2, <3>3, OfThese
  <2> QED  BY <1>1, <2>1, Types DEF WindowKept
<1> QED  BY <1>1, Invariance, PTL

\* Callers hear the announcement from its first block on, in order; the recording
\* begins when all of it has been sent but for the block SendData drops.
THEOREM AnnouncedInOrder == Spec => []Announced
<1>1. ASSUME IInv  PROVE Announced
  <2>1. \A p \in Plcis : \A n \in DOMAIN line[p].played : line[p].played[n] = n
    BY <1>1, Parts DEF Playing
  <2>2. ASSUME NEW k \in DOMAIN calls, calls[k].rxfp # "null"
        PROVE  calls[k].usDataHandle >= Min({cfg.has, cfg.says - 1})
    <3> DEFINE u == calls[k].usDataHandle
               h == cfg.has
               z == cfg.says - 1
    <3>1. h \in Nat /\ z \in Int /\ u \in Nat
      BY <1>1, Here, Options, Parts DEF ListOk
    <3>2. u = h \/ u >= z
      <4>1. calls[k] \in Shapes(cfg)
        BY <1>1, Parts DEF ListOk, CallRecords
      <4> QED  BY <2>2, <4>1 DEF Shapes
    <3> HIDE DEF u, h, z
    <3>3. \E m \in {h, z} : \A n \in {h, z} : m <= n
      BY <3>1
    <3>4. Min({h, z}) \in {h, z} /\ \A n \in {h, z} : Min({h, z}) <= n
      BY <3>3 DEF Min
    <3>5. u >= Min({h, z})
      BY <3>1, <3>2, <3>4
    <3> QED  BY <3>5 DEF u, h, z
  <2> QED  BY <2>1, <2>2 DEF Announced
<1> QED  BY <1>1, Invariance, PTL

\* A recording has its blocks in order and none is left out, though the last write
\* of one may have been cut short: what the brick counts as received after the first
\* block written has been written at least in part.
THEOREM NoBlockLeftOut == Spec => []NoneLeftOut
<1>1. ASSUME IInv  PROVE NoneLeftOut
  <2>1. ASSUME NEW p \in Plcis, line[p].id # 0
        PROVE  LET data == files[line[p].id].data
               IN  /\ \A n \in 1 .. Len(data) - 1 : data[n] < data[n + 1]
                   /\ \A n \in DOMAIN data, b \in line[p].acked : b > data[n] => b \in Range(data)
    <3> DEFINE data == files[line[p].id].data
    <3>1. Whole(toProg, toBrick, line[p], p, data)
      BY <1>1, <2>1, Parts DEF Recorded
    <3>2. data \in Seq(Nat) /\ line[p].acked \subseteq Nat
      <4>1. line[p].id \in CallIds /\ line[p].acked \subseteq Nat
        BY <1>1, <2>1, Parts DEF LineOk
      <4>2. files \in [CallIds -> Files]
        BY <1>1 DEF IInv, Typed
      <4> QED  BY <4>1, <4>2 DEF Files
    <3> HIDE DEF data
    <3>3. ASSUME NEW n \in 1 .. Len(data) - 1
          PROVE  data[n] < data[n + 1]
      <4>1. n \in DOMAIN data /\ n + 1 \in DOMAIN data /\ n < n + 1
        BY <3>2
      <4> QED  BY <3>1, <4>1 DEF Whole
    <3>4. ASSUME NEW n \in DOMAIN data, NEW b \in line[p].acked, b > data[n]
          PROVE  b \in Range(data)
      <4>1. b \in Nat /\ Heard(toBrick, line[p], p, b)
        BY <3>2 DEF Heard
      <4>2. \E m \in DOMAIN data : data[m] = b
        BY <3>1, <3>4, <4>1 DEF Whole
      <4> QED  BY <4>2 DEF Range
    <3> QED  BY <3>3, <3>4 DEF data
  <2> QED  BY <2>1 DEF NoneLeftOut
<1> QED  BY <1>1, Invariance, PTL

\* The header of a message whose call is over has its size.
THEOREM HeadersRight == Spec => []HeaderRight
<1>1. IInv => HeaderRight
  BY Parts DEF Filed, HeaderRight
<1> QED  BY <1>1, Invariance, PTL
================================================================================
