------------------------------ MODULE FaxRecvProofs ------------------------------
(****************************************************************************)
(* Proofs about FaxRecv, for any number of calls, lines, blocks and reboots *)
(* of the brick.                                                            *)
(****************************************************************************)
EXTENDS FaxRecv, FiniteSetTheorems, WellFoundedInduction, TLAPS

--------------------------------------------------------------------------------
(* How many messages of a kind are under way, and parts of sequences *)

\* The places in q of the elements of T, and how many they are.
PlacesOf(q, T) == {k \in DOMAIN q : q[k] \in T}
Number(q, T) == Cardinality(PlacesOf(q, T))

One(b) == IF b THEN 1 ELSE 0

\* Places are counted wherever they are.
LEMMA Shifted ==
    ASSUME NEW a \in Nat, NEW P \in SUBSET Nat, IsFiniteSet(P)
    PROVE  /\ IsFiniteSet({a + i : i \in P})
           /\ Cardinality({a + i : i \in P}) = Cardinality(P)
<1> DEFINE T == {a + i : i \in P}
           f == [i \in P |-> a + i]
<1>1. f \in Injection(P, T)
  <2>1. f \in [P -> T]
    OBVIOUS
  <2>2. \A i, j \in P : f[i] = f[j] => i = j
    OBVIOUS
  <2> QED  BY <2>1, <2>2 DEF Injection, IsInjective
<1>2. f \in Surjection(P, T)
  <2>1. f \in [P -> T]
    OBVIOUS
  <2>2. \A t \in T : \E i \in P : f[i] = t
    OBVIOUS
  <2> QED  BY <2>1, <2>2 DEF Surjection
<1>3. ExistsBijection(P, T)
  BY <1>1, <1>2 DEF ExistsBijection, Bijection
<1> HIDE DEF T
<1>4. IsFiniteSet(T) /\ Cardinality(T) = Cardinality(P)
  BY <1>3, FS_Bijection
<1> QED  BY <1>4 DEF T

\* The places of a sequence are finitely many, none if no element is in T.
LEMMA NumberType ==
    ASSUME NEW S, NEW q \in Seq(S), NEW T
    PROVE  /\ PlacesOf(q, T) \in SUBSET (1 .. Len(q)) /\ IsFiniteSet(PlacesOf(q, T))
           /\ Number(q, T) \in Nat
           /\ Number(q, T) = 0 <=> \A k \in DOMAIN q : q[k] \notin T
<1>1. PlacesOf(q, T) \in SUBSET (1 .. Len(q)) /\ Len(q) \in Nat
  BY DEF PlacesOf
<1>2. IsFiniteSet(1 .. Len(q))
  BY <1>1, FS_Interval
<1>3. IsFiniteSet(PlacesOf(q, T))
  BY <1>1, <1>2, FS_Subset
<1>4. Number(q, T) \in Nat /\ (Number(q, T) = 0 <=> PlacesOf(q, T) = {})
  BY <1>3, FS_CardinalityType, FS_EmptySet DEF Number
<1>5. PlacesOf(q, T) = {} <=> \A k \in DOMAIN q : q[k] \notin T
  BY DEF PlacesOf
<1> QED  BY <1>1, <1>3, <1>4, <1>5

\* An empty sequence, and one of a single element.
LEMMA NumberOne ==
    ASSUME NEW m, NEW T
    PROVE  /\ Number(<<>>, T) = 0
           /\ Number(<<m>>, T) = One(m \in T)
<1>1. PlacesOf(<<>>, T) = {}
  BY DEF PlacesOf
<1>2. CASE m \in T
  <2>1. PlacesOf(<<m>>, T) = {1}
    BY <1>2 DEF PlacesOf
  <2> QED  BY <1>1, <1>2, <2>1, FS_EmptySet, FS_Singleton DEF Number, One
<1>3. CASE m \notin T
  <2>1. PlacesOf(<<m>>, T) = {}
    BY <1>3 DEF PlacesOf
  <2> QED  BY <1>1, <1>3, <2>1, FS_EmptySet DEF Number, One
<1> QED  BY <1>2, <1>3

\* Behind one another two sequences have the elements of both.
LEMMA NumberConcat ==
    ASSUME NEW S, NEW q \in Seq(S), NEW r \in Seq(S), NEW T
    PROVE  Number(q \o r, T) = Number(q, T) + Number(r, T)
<1> DEFINE A == PlacesOf(q, T)
           P == PlacesOf(r, T)
           C == {Len(q) + i : i \in P}
<1>1. /\ A \in SUBSET (1 .. Len(q)) /\ IsFiniteSet(A)
      /\ P \in SUBSET (1 .. Len(r)) /\ IsFiniteSet(P)
      /\ Cardinality(A) \in Nat /\ Cardinality(P) \in Nat
  BY NumberType DEF Number
<1>2. Len(q) \in Nat /\ Len(r) \in Nat
  OBVIOUS
<1>3. IsFiniteSet(C) /\ Cardinality(C) = Cardinality(P)
  <2>1. P \in SUBSET Nat
    BY <1>1
  <2> HIDE DEF P
  <2> QED  BY <1>1, <1>2, <2>1, Shifted
<1>4. PlacesOf(q \o r, T) = A \cup C
  <2>1. /\ DOMAIN (q \o r) = 1 .. Len(q) + Len(r)
        /\ \A k \in 1 .. Len(q) : (q \o r)[k] = q[k]
        /\ \A k \in 1 .. Len(r) : (q \o r)[Len(q) + k] = r[k]
    OBVIOUS
  <2>2. ASSUME NEW k \in 1 .. Len(q)  PROVE k \in PlacesOf(q \o r, T) <=> k \in A \cup C
    <3>1. k \notin C
      BY <1>1, <1>2
    <3>2. k \in DOMAIN (q \o r) /\ k \in DOMAIN q /\ (q \o r)[k] = q[k]
      BY <1>2, <2>1
    <3> QED  BY <3>1, <3>2 DEF PlacesOf
  <2>3. ASSUME NEW k \in 1 .. Len(r)
        PROVE  Len(q) + k \in PlacesOf(q \o r, T) <=> Len(q) + k \in A \cup C
    <3>1. Len(q) + k \notin A
      BY <1>1, <1>2
    <3>2. Len(q) + k \in C <=> k \in P
      BY <1>1, <1>2
    <3>3. Len(q) + k \in DOMAIN (q \o r) /\ k \in DOMAIN r /\ (q \o r)[Len(q) + k] = r[k]
      BY <1>2, <2>1
    <3> QED  BY <3>1, <3>2, <3>3 DEF PlacesOf
  <2>4. \A k \in 1 .. Len(q) + Len(r) :
           k \in 1 .. Len(q) \/ \E i \in 1 .. Len(r) : k = Len(q) + i
    <3>1. ASSUME NEW k \in 1 .. Len(q) + Len(r), k \notin 1 .. Len(q)
          PROVE  k - Len(q) \in 1 .. Len(r) /\ k = Len(q) + (k - Len(q))
      BY <1>2, <3>1
    <3> QED  BY <3>1
  <2>5. PlacesOf(q \o r, T) \subseteq 1 .. Len(q) + Len(r) /\ A \cup C \subseteq 1 .. Len(q) + Len(r)
    <3>1. PlacesOf(q \o r, T) \subseteq 1 .. Len(q) + Len(r)
      BY <2>1 DEF PlacesOf
    <3>2. A \subseteq 1 .. Len(q) + Len(r)
      BY <1>1, <1>2
    <3>3. C \subseteq 1 .. Len(q) + Len(r)
      BY <1>1, <1>2
    <3> QED  BY <3>1, <3>2, <3>3
  <2> HIDE DEF A, P, C
  <2>6. \A k : k \in PlacesOf(q \o r, T) <=> k \in A \cup C
    BY <2>2, <2>3, <2>4, <2>5
  <2> QED  BY <2>6
<1>5. A \cap C = {}
  BY <1>1, <1>2
<1> HIDE DEF A, P, C
<1>6. Cardinality(A \cup C) = Cardinality(A) + Cardinality(C) - Cardinality(A \cap C)
  BY <1>1, <1>3, FS_Union
<1>7. Cardinality(A \cap C) = 0
  BY <1>5, FS_EmptySet
<1>8. Number(q \o r, T) = Cardinality(A) + Cardinality(C) - 0
  BY <1>4, <1>6, <1>7 DEF Number
<1>9. Number(q, T) = Cardinality(A) /\ Number(r, T) = Cardinality(P)
  BY DEF Number, A, P
<1> QED  BY <1>1, <1>3, <1>8, <1>9

\* One element more, and the first element of those there are.
LEMMA NumberAppend ==
    ASSUME NEW S, NEW q \in Seq(S), NEW m \in S, NEW T
    PROVE  Number(Append(q, m), T) = Number(q, T) + One(m \in T)
<1>1. Append(q, m) = q \o <<m>> /\ <<m>> \in Seq(S)
  OBVIOUS
<1>2. Number(q \o <<m>>, T) = Number(q, T) + Number(<<m>>, T)
  BY <1>1, NumberConcat
<1> QED  BY <1>1, <1>2, NumberOne

LEMMA NumberTail ==
    ASSUME NEW S, NEW q \in Seq(S), q # <<>>, NEW T
    PROVE  /\ Head(q) \in S /\ Tail(q) \in Seq(S)
           /\ Number(q, T) = One(Head(q) \in T) + Number(Tail(q), T)
<1>1. Head(q) \in S /\ Tail(q) \in Seq(S) /\ <<Head(q)>> \in Seq(S)
  OBVIOUS
<1>2. q = <<Head(q)>> \o Tail(q)
  OBVIOUS
<1>3. Number(<<Head(q)>> \o Tail(q), T) = Number(<<Head(q)>>, T) + Number(Tail(q), T)
  BY <1>1, NumberConcat
<1> QED  BY <1>1, <1>2, <1>3, NumberOne

\* The elements of the rest of a sequence, and of two sequences behind one another.
LEMMA TailOf ==
    ASSUME NEW X, NEW s \in Seq(X), s # <<>>
    PROVE  /\ Tail(s) \in Seq(X) /\ Head(s) \in X /\ 1 \in DOMAIN s /\ s[1] = Head(s)
           /\ \A k \in DOMAIN Tail(s) : k + 1 \in DOMAIN s /\ Tail(s)[k] = s[k + 1] /\ k \in Nat
           /\ \A k \in DOMAIN s : k # 1 => k - 1 \in DOMAIN Tail(s) /\ Tail(s)[k - 1] = s[k] /\ k \in Nat
<1>1. Len(s) \in Nat /\ Len(s) > 0 /\ DOMAIN s = 1 .. Len(s)
  OBVIOUS
<1>2. Tail(s) \in Seq(X) /\ Len(Tail(s)) = Len(s) - 1 /\ DOMAIN Tail(s) = 1 .. Len(s) - 1
  BY <1>1
<1>3. \A k \in 1 .. Len(s) - 1 : Tail(s)[k] = s[k + 1]
  BY <1>1
<1>4. Head(s) \in X /\ s[1] = Head(s)
  BY <1>1
<1>5. ASSUME NEW k \in DOMAIN s, k # 1
      PROVE  k - 1 \in DOMAIN Tail(s) /\ Tail(s)[k - 1] = s[k] /\ k \in Nat
  BY <1>1, <1>2, <1>3, <1>5
<1> QED  BY <1>1, <1>2, <1>3, <1>4, <1>5

LEMMA ConcatOf ==
    ASSUME NEW X, NEW s \in Seq(X), NEW t \in Seq(X)
    PROVE  /\ s \o t \in Seq(X) /\ Len(s) \in Nat /\ Len(t) \in Nat
           /\ Len(s \o t) = Len(s) + Len(t)
           /\ DOMAIN s = 1 .. Len(s) /\ DOMAIN t = 1 .. Len(t)
           /\ DOMAIN (s \o t) = 1 .. Len(s) + Len(t)
           /\ \A k \in DOMAIN s : k \in DOMAIN (s \o t) /\ (s \o t)[k] = s[k]
           /\ \A k \in DOMAIN (s \o t) :
                 \/ k \in DOMAIN s
                 \/ k > Len(s) /\ k - Len(s) \in DOMAIN t /\ (s \o t)[k] = t[k - Len(s)]
<1>1. Len(s) \in Nat /\ Len(t) \in Nat /\ DOMAIN s = 1 .. Len(s) /\ DOMAIN t = 1 .. Len(t)
  OBVIOUS
<1>2. s \o t \in Seq(X) /\ Len(s \o t) = Len(s) + Len(t) /\ DOMAIN (s \o t) = 1 .. Len(s) + Len(t)
  BY <1>1
<1>3. \A k \in DOMAIN s : k \in DOMAIN (s \o t) /\ (s \o t)[k] = s[k]
  BY <1>1, <1>2
<1>4. ASSUME NEW k \in DOMAIN (s \o t), k \notin DOMAIN s
      PROVE  k > Len(s) /\ k - Len(s) \in DOMAIN t /\ (s \o t)[k] = t[k - Len(s)]
  <2>1. k \in Nat /\ k > Len(s) /\ k <= Len(s) + Len(t)
    BY <1>1, <1>2, <1>4
  <2>2. k - Len(s) \in 1 .. Len(t) /\ k = Len(s) + (k - Len(s))
    BY <1>1, <2>1
  <2> QED  BY <1>1, <2>1, <2>2
<1>5. \A k \in DOMAIN (s \o t) :
         \/ k \in DOMAIN s
         \/ k > Len(s) /\ k - Len(s) \in DOMAIN t /\ (s \o t)[k] = t[k - Len(s)]
  BY <1>4
<1> QED  BY <1>1, <1>2, <1>3, <1>5

LEMMA PairOf ==
    ASSUME NEW a, NEW b
    PROVE  <<a>> \o <<b>> = <<a, b>>
<1> DEFINE S == {a, b}
           r == <<a>> \o <<b>>
           t == <<a, b>>
<1>1. <<a>> \in Seq(S) /\ <<b>> \in Seq(S) /\ Len(<<a>>) = 1 /\ Len(<<b>>) = 1
  OBVIOUS
<1>2. r \in Seq(S) /\ Len(r) = 2 /\ r[1] = a /\ r[2] = b
  BY <1>1
<1>3. t \in Seq(S) /\ Len(t) = 2 /\ t[1] = a /\ t[2] = b
  OBVIOUS
<1> HIDE DEF r, t, S
<1>4. r = t
  BY <1>2, <1>3
<1> QED  BY <1>4 DEF r, t

\* cs2 is cs without its i-th element.
Without(X, cs, cs2, i) ==
    /\ cs2 \in Seq(X) /\ Len(cs2) + 1 = Len(cs) /\ Len(cs2) \in Nat
    /\ \A k \in DOMAIN cs2 : \/ k \in DOMAIN cs /\ k < i /\ cs2[k] = cs[k]
                             \/ k + 1 \in DOMAIN cs /\ k + 1 > i /\ cs2[k] = cs[k + 1]
    /\ \A k \in DOMAIN cs : k # i => \E j \in DOMAIN cs2 : cs2[j] = cs[k]

LEMMA CutOut ==
    ASSUME NEW X, NEW cs \in Seq(X), NEW i \in DOMAIN cs
    PROVE  Without(X, cs, SubSeq(cs, 1, i - 1) \o SubSeq(cs, i + 1, Len(cs)), i)
<1> DEFINE a == SubSeq(cs, 1, i - 1)
           b == SubSeq(cs, i + 1, Len(cs))
<1>1. i \in Nat /\ Len(cs) \in Nat /\ i >= 1 /\ i <= Len(cs) /\ DOMAIN cs = 1 .. Len(cs)
  OBVIOUS
<1>2. a \in Seq(X) /\ Len(a) = i - 1 /\ \A k \in 1 .. i - 1 : a[k] = cs[k]
  BY <1>1
<1>3. b \in Seq(X) /\ Len(b) = Len(cs) - i /\ \A k \in 1 .. Len(cs) - i : b[k] = cs[i + k]
  <2>1. i + 1 \in Nat /\ i + 1 >= 1 /\ Len(cs) - (i + 1) + 1 = Len(cs) - i /\ Len(cs) - i \in Nat
    BY <1>1, SMTT(30)
  <2>2. b \in Seq(X) /\ Len(b) = Len(cs) - i
    BY <1>1, <2>1
  <2>3. ASSUME NEW k \in 1 .. Len(cs) - i  PROVE b[k] = cs[i + k]
    <3>1. b[k] = cs[i + 1 + k - 1] /\ i + 1 + k - 1 = i + k
      BY <1>1, <2>1, SMTT(30)
    <3> QED  BY <3>1
  <2> QED  BY <2>2, <2>3
<1> HIDE DEF a, b
<1> DEFINE c == a \o b
<1>5. /\ c \in Seq(X) /\ Len(c) = Len(cs) - 1 /\ DOMAIN c = 1 .. Len(cs) - 1
      /\ \A k \in 1 .. i - 1 : c[k] = a[k]
      /\ \A k \in 1 .. Len(cs) - i : c[i - 1 + k] = b[k]
  <2>1. c \in Seq(X) /\ Len(c) = Len(a) + Len(b) /\ DOMAIN c = 1 .. Len(a) + Len(b)
    <3>1. a \in Seq(X) /\ b \in Seq(X)
      BY <1>2, <1>3
    <3> QED  BY ONLY <3>1, ConcatOf
  <2>2. Len(a) + Len(b) = Len(cs) - 1
    BY <1>1, <1>2, <1>3
  <2>3. ASSUME NEW k \in 1 .. Len(b)  PROVE c[Len(a) + k] = b[k]
    BY <1>2, <1>3, SMTT(30)
  <2>4. \A k \in 1 .. i - 1 : c[k] = a[k]
    BY <1>2, <1>3, ConcatOf
  <2> QED  BY <1>2, <1>3, <2>1, <2>2, <2>3, <2>4
<1> HIDE DEF c
<1>6. ASSUME NEW k \in DOMAIN c
      PROVE  \/ k \in DOMAIN cs /\ k < i /\ c[k] = cs[k]
             \/ k + 1 \in DOMAIN cs /\ k + 1 > i /\ c[k] = cs[k + 1]
  <2>1. CASE k < i
    BY <1>1, <1>2, <1>5, <2>1
  <2>2. CASE ~(k < i)
    <3>1. k - i + 1 \in 1 .. Len(cs) - i /\ i - 1 + (k - i + 1) = k /\ i + (k - i + 1) = k + 1
      BY <1>1, <1>5, <2>2
    <3>2. c[k] = b[k - i + 1] /\ b[k - i + 1] = cs[k + 1]
      BY <1>3, <1>5, <3>1, SMTT(30)
    <3> QED  BY <1>1, <1>5, <2>2, <3>2
  <2> QED  BY <2>1, <2>2
<1>7. ASSUME NEW k \in DOMAIN cs, k # i  PROVE \E j \in DOMAIN c : c[j] = cs[k]
  <2>1. CASE k < i
    <3>1. k \in 1 .. i - 1 /\ k \in DOMAIN c
      BY <1>1, <1>5, <2>1
    <3> QED  BY <1>2, <1>5, <3>1
  <2>2. CASE k > i
    <3>1. k - i \in 1 .. Len(cs) - i /\ i - 1 + (k - i) = k - 1 /\ i + (k - i) = k /\ k - 1 \in DOMAIN c
      BY <1>1, <1>5, <2>2
    <3>2. c[k - 1] = b[k - i] /\ b[k - i] = cs[k]
      BY <1>3, <1>5, <3>1
    <3> QED  BY <3>1, <3>2
  <2> QED  BY <1>1, <1>7, <2>1, <2>2
<1>8. Len(c) + 1 = Len(cs) /\ Len(c) \in Nat
  BY <1>1, <1>5
<1>9. Without(X, cs, c, i)
  BY <1>5, <1>6, <1>7, <1>8 DEF Without
<1> QED  BY <1>9 DEF c, a, b

\* A set of numbers has a smallest one: the intervals up to its numbers are finite,
\* and of these one has no smaller one.
LEMMA Least ==
    ASSUME NEW S, S \subseteq Nat, S # {}
    PROVE  \E m \in S : \A n \in S : m <= n
<1> DEFINE T == {0 .. n : n \in S}
<1>1. T \subseteq FiniteSubsetsOf(Nat) /\ T # {}
  <2>1. \A n \in S : 0 .. n \subseteq Nat /\ IsFiniteSet(0 .. n)
    BY FS_Interval
  <2> QED  BY <2>1 DEF FiniteSubsetsOf
<1>2. IsWellFoundedOn(StrictSubsetOrdering(Nat), FiniteSubsetsOf(Nat))
  BY FS_StrictSubsetOrderingWellFounded
<1>3. PICK t \in T : \A u \in T : <<u, t>> \notin StrictSubsetOrdering(Nat)
  BY <1>1, <1>2, WFMin
<1>4. PICK m \in S : t = 0 .. m
  OBVIOUS
<1>5. ASSUME NEW n \in S, ~(m <= n)  PROVE FALSE
  <2>1. 0 .. n \in T /\ 0 .. n \in SUBSET Nat /\ 0 .. m \in SUBSET Nat
    OBVIOUS
  <2>2. 0 .. n \subseteq 0 .. m /\ m \in 0 .. m /\ m \notin 0 .. n
    BY <1>5
  <2>3. <<0 .. n, 0 .. m>> \in StrictSubsetOrdering(Nat)
    BY <2>1, <2>2 DEF StrictSubsetOrdering
  <2> QED  BY <1>3, <1>4, <2>1, <2>3
<1>6. \A n \in S : m <= n
  BY <1>5
<1> QED  BY <1>6

--------------------------------------------------------------------------------
(* Types *)

\* What the brick sends: about a call, or a confirmation.
LiveTypes == {"CONNECT_IND", "INFO_IND", "CONNECTACTIVE_IND", "CONNECTB3_IND",
              "CONNECTB3ACTIVE_IND", "DATAB3_IND", "DISCONNECTB3_IND", "DISCONNECT_IND"}
ConfTypes == {"LISTEN_CONF", "DISCONNECTB3_CONF", "DISCONNECT_CONF"}

\* What the program sends about a call.
AnswerTypes == {"CONNECT_RESP", "INFO_RESP", "CONNECTACTIVE_RESP", "CONNECTB3_RESP",
                "CONNECTB3ACTIVE_RESP", "DATAB3_RESP", "DISCONNECTB3_RESP",
                "DISCONNECTB3_REQ", "DISCONNECT_REQ", "DISCONNECT_RESP"}

\* The messages about the fax connection, and those that come only when the program
\* has been told of it.
NcciTypes == {"CONNECTB3_IND", "CONNECTB3ACTIVE_IND", "DATAB3_IND", "DISCONNECTB3_IND"}
B3Types == NcciTypes \ {"CONNECTB3_IND"}

Tellings == {m \in [type : LiveTypes, plci : Plcis, b3 : BOOLEAN, id : CallIds, arg : Nat] :
                m.b3 <=> m.type \in NcciTypes}
Confirmations == [type : ConfTypes, plci : Plcis \cup {0}, b3 : BOOLEAN,
                  id : CallIds \cup {0}, arg : {0}]
Answers == [type : AnswerTypes, plci : Plcis, b3 : BOOLEAN, id : CallIds, arg : Nat]

FromBrick == Tellings \cup Confirmations
FromProg == Answers \cup {Listen}

Busy == [st : {"offered", "active", "b3offered", "b3up", "b3down", "clearing"},
         id : CallIds, right : BOOLEAN, sent : 0 .. MaxBlocks, unacked : 0 .. Window,
         digits : 0 .. Ncnt]
Lines == {Idle} \cup {l \in Busy : l.unacked <= l.sent}

Records == {c \in [id : CallIds, plci : Plcis, b3 : BOOLEAN, state : States,
                   ncnt : 0 .. Ncnt, fp : Nat] :
               /\ c.fp = 0 \/ c.fp >= 4
               /\ c.state = "OverlapReceiving" => c.ncnt < Ncnt}

Blocks == [id : CallIds, block : Nat, took : Took]

Typed ==
    /\ pc \in {"init", "poll", "event", "register", "exit", "killed"}
    /\ back \in {"poll", "event"}
    /\ cfd \in {0, 3} /\ pfd \in {0, 3}
    /\ capi \in FromBrick \cup {NoMsg}
    /\ calls \in Seq(Records)
    /\ conn \in {"up", "gone", "rst", "reset", "dead"}
    /\ toBrick \in Seq(FromProg) /\ toProg \in Seq(FromBrick)
    /\ brick \in {"up", "down"} /\ listening \in BOOLEAN
    /\ line \in [Plcis -> Lines]
    /\ rung \in 0 .. MaxCalls /\ reboots \in 0 .. MaxReboots
    /\ files \in [CallIds -> Seq(Blocks)]

--------------------------------------------------------------------------------
(* The inductive invariant *)

\* What is under way to the program: the message capi_event is at is its first.
Stream(m, s) == IF m = NoMsg THEN s ELSE <<m>> \o s
Coming == Stream(capi, toProg)

\* Where the program is, and its socket.
Control ==
    /\ pc = "init" => calls = <<>> /\ conn = "dead" /\ toBrick = <<>> /\ toProg = <<>>
    /\ pc \in {"init", "poll", "exit"} => capi = NoMsg
    /\ pc = "event" => capi # NoMsg
    /\ pc = "register" => conn = "dead" /\ (back = "poll" <=> capi = NoMsg)
    /\ cfd = 0 <=> pc \in {"init", "register"}
    /\ pfd = 0 <=> pc = "init"
    /\ rung <= MaxCalls

\* The calls the program has and those it has not heard of are no more than have
\* come in.
Offers == {m \in FromBrick : m.type = "CONNECT_IND"}
Room(s, cs, r) == Len(cs) + Number(s, Offers) <= r

\* On a connection the brick has forgotten there is nothing.
Alone(up, q, l) == ~up => q = <<>> /\ l = [p \in Plcis |-> Idle]

\* The messages about a call.
Live(m) == m.type \in LiveTypes

\* What may be under way about a call whose line is in this state.
Sayable(st) ==
    CASE st = "offered" -> {"CONNECT_IND", "INFO_IND"}
      [] st = "active" -> {"CONNECT_IND", "INFO_IND", "CONNECTACTIVE_IND"}
      [] st = "b3offered" -> {"CONNECT_IND", "INFO_IND", "CONNECTACTIVE_IND", "CONNECTB3_IND"}
      [] st = "b3up" -> LiveTypes \ {"DISCONNECTB3_IND", "DISCONNECT_IND"}
      [] st = "b3down" -> LiveTypes \ {"DISCONNECT_IND"}
      [] st = "clearing" -> LiveTypes
      [] OTHER -> {}

\* A message is about the call its line has.
Told(s, up, l, r) ==
    \A k \in DOMAIN s : Live(s[k]) =>
        /\ s[k].id <= r
        /\ up => /\ l[s[k].plci].id = s[k].id
                 /\ s[k].type \in Sayable(l[s[k].plci].st)
                 /\ s[k].type = "DATAB3_IND" => s[k].arg <= l[s[k].plci].sent

\* a is under way before b.
Before(a, b) ==
    /\ a.id = b.id <=> a.plci = b.plci
    /\ a.plci = b.plci =>
        /\ b.type # "CONNECT_IND" /\ a.type # "DISCONNECT_IND"
        /\ b.type = "CONNECTB3_IND" => a.type \notin B3Types
        /\ a.type = "DATAB3_IND" /\ b.type = "DATAB3_IND" => a.arg < b.arg
Ordered(s) == \A j, k \in DOMAIN s : j < k /\ Live(s[j]) /\ Live(s[k]) => Before(s[j], s[k])

\* Each line has its own call; the program's calls on a line are older, the newest
\* comes first.
Numbered(s, l, cs, r) ==
    /\ \A p \in Plcis : l[p].id <= r
    /\ \A p, o \in Plcis : l[p].id = l[o].id /\ l[p].id # 0 => p = o
    /\ \A k \in DOMAIN cs : cs[k].id <= r
    /\ \A j, k \in DOMAIN cs : j < k /\ cs[j].plci = cs[k].plci => cs[j].id > cs[k].id
    /\ \A k \in DOMAIN cs, p \in Plcis :
          /\ cs[k].id = l[p].id => cs[k].plci = p
          /\ cs[k].plci = p /\ l[p].id # 0 => cs[k].id <= l[p].id
    /\ \A k \in DOMAIN cs, j \in DOMAIN s : Live(s[j]) =>
          /\ cs[k].id = s[j].id => cs[k].plci = s[j].plci /\ s[j].type # "CONNECT_IND"
          /\ cs[k].plci = s[j].plci => cs[k].id <= s[j].id

\* The program has call i, knows that its fax connection is up, or will.
Has(cs, i) == \E k \in DOMAIN cs : cs[k].id = i
HasB3(cs, i) == \E k \in DOMAIN cs : cs[k].id = i /\ cs[k].b3
Expects(s, i) == \E j \in DOMAIN s : s[j].type = "CONNECTB3_IND" /\ s[j].id = i
Joined(s, cs, i) == HasB3(cs, i) \/ Expects(s, i)

\* The states of a line behind the program's acceptance, and with a fax connection.
OnLine == {"active", "b3offered", "b3up", "b3down"}
OnB3 == {"b3offered", "b3up", "b3down"}

\* The program refuses the call on line p; it accepts that call and has not refused it
\* before.
Refuses(m, p) == m.type = "CONNECT_RESP" /\ m.plci = p /\ m.arg # 0
Accepts(q, k, l) == /\ q[k].type = "CONNECT_RESP" /\ q[k].arg = 0 /\ l[q[k].plci].st = "offered"
                    /\ \A j \in DOMAIN q : j < k => ~Refuses(q[j], q[k].plci)

\* An accepted call is one that the program has; a call it does not have is offered to
\* it, or refused by it.
Known(s, q, l, cs) ==
    /\ \A k \in DOMAIN s : /\ s[k].type \in NcciTypes \cup {"CONNECTACTIVE_IND"} => Has(cs, s[k].id)
                           /\ s[k].type \in B3Types => Joined(s, cs, s[k].id)
    /\ \A p \in Plcis : /\ l[p].st \in OnLine => Has(cs, l[p].id)
                        /\ l[p].st \in OnB3 => Joined(s, cs, l[p].id)
    /\ \A k \in DOMAIN q : Accepts(q, k, l) => Has(cs, q[k].id)
    /\ \A p \in Plcis : l[p].st = "offered" =>
          \/ Has(cs, l[p].id)
          \/ \E k \in DOMAIN s : s[k].type = "CONNECT_IND" /\ s[k].id = l[p].id
          \/ \E k \in DOMAIN q : Refuses(q[k], p)

\* What is under way to the brick is about the call its line has, and the response
\* to the end of that call is the last of it.
Closing(m) == m.type = "DISCONNECT_RESP"
Replied(s, q, l) ==
    /\ \A k \in DOMAIN q : q[k].type # "LISTEN_REQ" => l[q[k].plci].id = q[k].id
    /\ \A j, k \in DOMAIN q : j < k /\ Closing(q[j]) /\ q[k].type # "LISTEN_REQ"
                              => q[j].plci # q[k].plci
    /\ \A k \in DOMAIN q : Closing(q[k]) =>
          /\ l[q[k].plci].st = "clearing"
          /\ \A j \in DOMAIN s : Live(s[j]) => s[j].plci # q[k].plci

\* The blocks the brick counts as received, or will, are in the file.
DataResps(p) == {m \in FromProg : m.type = "DATAB3_RESP" /\ m.plci = p}
Stored(q, l, f) ==
    \A p \in Plcis : l[p].id # 0 =>
        l[p].sent - l[p].unacked + Number(q, DataResps(p)) <= Len(f[l[p].id])

\* A call is for the right number and has all its digits, or it is not accepted.
Wanted(l) == l.right /\ l.digits >= Ncnt
Infos(p) == {m \in FromBrick : m.type = "INFO_IND" /\ m.plci = p}
Right(s, q, up, l, cs) ==
    /\ \A p \in Plcis : l[p].st \in OnLine => Wanted(l[p])
    /\ \A k \in DOMAIN q : Accepts(q, k, l) => Wanted(l[q[k].plci])
    /\ up => \A k \in DOMAIN s : s[k].type \in {"CONNECT_IND", "INFO_IND"} /\ s[k].arg = 1
                                 => l[s[k].plci].right
    /\ \A p \in Plcis : l[p].id # 0 =>
          /\ Number(s, Infos(p)) <= l[p].digits
          /\ \A k \in DOMAIN cs : cs[k].id = l[p].id =>
                cs[k].ncnt + Number(s, Infos(p)) <= l[p].digits

\* The blocks under way follow one another and those in the file.
IsBlock(s, k, i, n) == k \in DOMAIN s /\ s[k].type = "DATAB3_IND" /\ s[k].id = i /\ s[k].arg = n
Filed(s, l, f, r) ==
    /\ \A i \in CallIds : \A n \in DOMAIN f[i] : f[i][n] = [id |-> i, block |-> n, took |-> "whole"]
    /\ \A i \in CallIds : i > r => f[i] = <<>>
    /\ \A k \in DOMAIN s : s[k].type = "DATAB3_IND" =>
          /\ s[k].arg > Len(f[s[k].id])
          /\ s[k].arg = Len(f[s[k].id]) + 1 \/ \E j \in DOMAIN s : IsBlock(s, j, s[k].id, s[k].arg - 1)
    /\ \A p \in Plcis : l[p].id # 0 =>
          \/ l[p].sent = Len(f[l[p].id])
          \/ l[p].sent > Len(f[l[p].id]) /\ \E j \in DOMAIN s : IsBlock(s, j, l[p].id, l[p].sent)

\* As long as the brick has not been rebooted, it has every call the program has.
Alive(q, l, cs) ==
    /\ \A k \in DOMAIN cs : l[cs[k].plci].id = cs[k].id
    /\ \A k \in DOMAIN q : Closing(q[k]) => ~Has(cs, q[k].id)

Base == Typed /\ Control /\ Room(Coming, calls, rung)

Whole(s, q, up, l, cs, r, f) ==
    /\ Alone(up, q, l)
    /\ Told(s, up, l, r) /\ Ordered(s) /\ Numbered(s, l, cs, r)
    /\ Known(s, q, l, cs) /\ Replied(s, q, l) /\ Stored(q, l, f) /\ Right(s, q, up, l, cs)

\* This holds until the handler replaces the connection in the middle of capi_event.
Settled ==
    /\ Base
    /\ Whole(Coming, toBrick, conn = "up", line, calls, rung, files)
    /\ ~FilesFail /\ pc # "killed" => Filed(Coming, line, files, rung)
    /\ reboots = 0 => (pc = "init" \/ conn = "up") /\ Alive(toBrick, line, calls)

\* It does so for a brick that has been rebooted.
IInv ==
    /\ Base /\ replaced \in BOOLEAN
    /\ replaced => reboots # 0
    /\ ~replaced => Settled

--------------------------------------------------------------------------------
(* Sequences of messages *)

LEMMA Bounds == /\ Ncnt \in Nat /\ Window \in Nat /\ MaxCalls \in Nat /\ MaxBlocks \in Nat
                /\ MaxReboots \in Nat
BY FaxRecvAssumption

\* What comes to the program.
LEMMA NoneFromBrick == NoMsg \notin FromBrick /\ ~Live(NoMsg) /\ NoMsg \notin Offers
                       /\ \A p : NoMsg \notin Infos(p)
BY DEF FromBrick, Tellings, Confirmations, NoMsg, LiveTypes, ConfTypes, Live, Offers, Infos

LEMMA StreamFacts ==
    ASSUME NEW m \in FromBrick \cup {NoMsg}, NEW s \in Seq(FromBrick)
    PROVE  /\ Stream(m, s) \in Seq(FromBrick)
           /\ Stream(NoMsg, s) = s
           /\ m # NoMsg => Stream(m, s) # <<>> /\ Head(Stream(m, s)) = m /\ Tail(Stream(m, s)) = s
           /\ \A t \in Seq(FromBrick) : Stream(m, s \o t) = Stream(m, s) \o t
           /\ s # <<>> => Stream(Head(s), Tail(s)) = s /\ Head(s) \in FromBrick /\ Tail(s) \in Seq(FromBrick)
<1>1. CASE m = NoMsg
  <2>1. s # <<>> => Stream(Head(s), Tail(s)) = s
    <3>1. ASSUME s # <<>>  PROVE Head(s) \in FromBrick /\ s = <<Head(s)>> \o Tail(s)
      BY <3>1
    <3> QED  BY <3>1, NoneFromBrick DEF Stream
  <2> QED  BY <1>1, <2>1, SMTT(40), SMTT(41), ZenonT(30) DEF Stream
<1>2. CASE m # NoMsg
  <2>1. m \in FromBrick /\ Stream(NoMsg, s) = s /\ \A r : Stream(m, r) = <<m>> \o r
    BY <1>2 DEF Stream
  <2>2. /\ <<m>> \o s \in Seq(FromBrick) /\ <<m>> \o s # <<>>
        /\ Head(<<m>> \o s) = m /\ Tail(<<m>> \o s) = s
    <3> DEFINE r == <<m>> \o s
    <3>1. <<m>> \in Seq(FromBrick) /\ Len(<<m>>) = 1 /\ <<m>>[1] = m
      BY <2>1
    <3>2. /\ r \in Seq(FromBrick) /\ Len(r) = 1 + Len(s) /\ DOMAIN r = 1 .. 1 + Len(s)
          /\ Len(s) \in Nat /\ r[1] = m /\ \A k \in DOMAIN s : r[k + 1] = s[k]
      BY <3>1
    <3> HIDE DEF r
    <3>3. r # <<>> /\ Head(r) = m
      BY <3>2
    <3>4. Tail(r) = s
      <4>1. Tail(r) \in Seq(FromBrick) /\ Len(Tail(r)) = Len(s) /\ DOMAIN s = 1 .. Len(s)
            /\ \A k \in 1 .. Len(s) : Tail(r)[k] = r[k + 1]
        BY <3>2, <3>3
      <4> QED  BY <3>2, <4>1
    <3> QED  BY <3>2, <3>3, <3>4 DEF r
  <2>3. ASSUME NEW t \in Seq(FromBrick)  PROVE <<m>> \o (s \o t) = (<<m>> \o s) \o t
    <3>1. <<m>> \in Seq(FromBrick)
      BY <2>1
    <3>2. ASSUME NEW r \in Seq(FromBrick)  PROVE r \o (s \o t) = (r \o s) \o t
      OBVIOUS
    <3> QED  BY <3>1, <3>2
  <2>4. s # <<>> => Stream(Head(s), Tail(s)) = s
    <3>1. ASSUME s # <<>>  PROVE Head(s) \in FromBrick /\ s = <<Head(s)>> \o Tail(s)
      BY <3>1
    <3> QED  BY <3>1, NoneFromBrick DEF Stream
  <2>5. s # <<>> => Head(s) \in FromBrick /\ Tail(s) \in Seq(FromBrick)
    OBVIOUS
  <2> QED  BY <2>1, <2>2, <2>3, <2>4, <2>5
<1> QED  BY <1>1, <1>2

\* The brick has sent the message m about a call, or none, and perhaps a confirmation.
Extends(s, s2, m) ==
    /\ s2 \in Seq(FromBrick) /\ Len(s2) \in Nat
    /\ \A k \in DOMAIN s : k \in DOMAIN s2 /\ s2[k] = s[k] /\ k < Len(s2) + 1
    /\ \A k \in DOMAIN s2 : k \in DOMAIN s \/ ~Live(s2[k]) \/ (k = Len(s2) /\ Len(s) < k /\ s2[k] = m)
    /\ Live(m) => Len(s2) \in DOMAIN s2 /\ s2[Len(s2)] = m
    /\ Number(s2, Offers) = Number(s, Offers) + One(m \in Offers)
    /\ \A p : Number(s2, Infos(p)) = Number(s, Infos(p)) + One(m \in Infos(p))

LEMMA ExtendsBy ==
    ASSUME NEW s \in Seq(FromBrick), NEW t \in Seq(FromBrick), NEW m \in FromBrick \cup {NoMsg},
           \A k \in DOMAIN t : Live(t[k]) => k = Len(t) /\ t[k] = m,
           Live(m) => Len(t) \in DOMAIN t /\ t[Len(t)] = m
    PROVE  Extends(s, s \o t, m)
<1>1. ASSUME NEW T, \A x \in T : Live(x)
      PROVE  Number(t, T) = One(m \in T)
  <2>1. CASE m \in T
    <3>1. Live(m) /\ Len(t) \in DOMAIN t /\ t[Len(t)] = m
      BY <1>1, <2>1
    <3>2. PlacesOf(t, T) = {Len(t)}
      BY <1>1, <2>1, <3>1 DEF PlacesOf
    <3> QED  BY <2>1, <3>2, FS_Singleton DEF Number, One
  <2>2. CASE m \notin T
    <3>1. PlacesOf(t, T) = {}
      BY <1>1, <2>2 DEF PlacesOf
    <3> QED  BY <2>2, <3>1, FS_EmptySet DEF Number, One
  <2> QED  BY <2>1, <2>2
<1>2. \A x \in Offers : Live(x)
  BY DEF Offers, Live, LiveTypes
<1>3. ASSUME NEW p  PROVE \A x \in Infos(p) : Live(x)
  BY DEF Infos, Live, LiveTypes
<1>4. Number(s \o t, Offers) = Number(s, Offers) + One(m \in Offers)
  BY <1>1, <1>2, NumberConcat
<1>5. ASSUME NEW p  PROVE Number(s \o t, Infos(p)) = Number(s, Infos(p)) + One(m \in Infos(p))
  BY <1>1, <1>3, NumberConcat
<1>6. /\ s \o t \in Seq(FromBrick) /\ Len(s \o t) \in Nat
      /\ \A k \in DOMAIN s : k \in DOMAIN (s \o t) /\ (s \o t)[k] = s[k] /\ k < Len(s \o t) + 1
  BY ConcatOf
<1>7. ASSUME NEW k \in DOMAIN (s \o t), k \notin DOMAIN s, Live((s \o t)[k])
      PROVE  k = Len(s \o t) /\ Len(s) < k /\ (s \o t)[k] = m
  <2>1. k > Len(s) /\ k - Len(s) \in DOMAIN t /\ (s \o t)[k] = t[k - Len(s)]
    BY <1>7, ConcatOf
  <2>2. k - Len(s) = Len(t) /\ t[k - Len(s)] = m
    BY <1>7, <2>1
  <2>3. k \in Nat /\ Len(s) \in Nat /\ Len(t) \in Nat /\ Len(s \o t) = Len(s) + Len(t)
    BY ConcatOf
  <2> QED  BY <2>1, <2>2, <2>3
<1>8. Live(m) => Len(s \o t) \in DOMAIN (s \o t) /\ (s \o t)[Len(s \o t)] = m
  <2>1. ASSUME Live(m)  PROVE Len(s \o t) \in DOMAIN (s \o t) /\ (s \o t)[Len(s \o t)] = m
    <3>1. Len(t) \in DOMAIN t /\ t[Len(t)] = m
      BY <2>1
    <3>2. Len(s) \in Nat /\ Len(t) \in 1 .. Len(t) /\ Len(s \o t) = Len(s) + Len(t)
      BY <3>1, ConcatOf
    <3> QED  BY <3>1, <3>2
  <2> QED  BY <2>1
<1> QED  BY <1>4, <1>5, <1>6, <1>7, <1>8 DEF Extends

--------------------------------------------------------------------------------
(* Looking for a call *)

LEMMA FirstOfIn ==
    ASSUME NEW S, S \subseteq Nat
    PROVE  /\ S = {} => FirstOf(S) = 0
           /\ S # {} => FirstOf(S) \in S /\ \A n \in S : FirstOf(S) <= n
<1>1. CASE S = {}
  BY <1>1 DEF FirstOf
<1>2. CASE S # {}
  <2>1. \E m \in S : \A n \in S : m <= n
    BY <1>2, Least
  <2> QED  BY <1>2, <2>1 DEF FirstOf, Min
<1> QED  BY <1>1, <1>2

\* getCallbyPlci and getCallbyIdent find the first call there is.
LEMMA Lookup ==
    ASSUME calls \in Seq(Records)
    PROVE  /\ ByPlci # 0 => /\ ByPlci \in DOMAIN calls /\ calls[ByPlci].plci = capi.plci
                            /\ \A k \in DOMAIN calls : calls[k].plci = capi.plci => ByPlci <= k
           /\ ByPlci = 0 => \A k \in DOMAIN calls : calls[k].plci # capi.plci
           /\ ByIdent # 0 => /\ ByIdent \in DOMAIN calls /\ calls[ByIdent].plci = capi.plci
                             /\ capi.b3 => calls[ByIdent].b3
                             /\ \A k \in DOMAIN calls :
                                   calls[k].plci = capi.plci /\ (capi.b3 => calls[k].b3) => ByIdent <= k
           /\ ByIdent = 0 => \A k \in DOMAIN calls :
                                ~(calls[k].plci = capi.plci /\ (capi.b3 => calls[k].b3))
<1> DEFINE A == {k \in DOMAIN calls : calls[k].plci = capi.plci}
           B == {k \in DOMAIN calls : calls[k].plci = capi.plci /\ calls[k].b3}
<1>1. A \subseteq Nat /\ B \subseteq Nat /\ 0 \notin A /\ 0 \notin B
  OBVIOUS
<1>2. ByPlci = FirstOf(A) /\ ByIdent = IF capi.b3 THEN FirstOf(B) ELSE FirstOf(A)
  BY DEF ByPlci, ByIdent
<1> HIDE DEF A, B
<1>3. /\ ByPlci # 0 => ByPlci \in A /\ \A k \in A : ByPlci <= k
      /\ ByPlci = 0 => A = {}
  BY <1>1, <1>2, FirstOfIn
<1>4. ASSUME capi.b3
      PROVE  /\ ByIdent # 0 => ByIdent \in B /\ \A k \in B : ByIdent <= k
             /\ ByIdent = 0 => B = {}
  BY <1>1, <1>2, <1>4, FirstOfIn
<1>5. ASSUME ~capi.b3
      PROVE  /\ ByIdent # 0 => ByIdent \in A /\ \A k \in A : ByIdent <= k
             /\ ByIdent = 0 => A = {}
  BY <1>1, <1>2, <1>5, FirstOfIn
<1> USE DEF A, B
<1>6. CASE capi.b3
  BY <1>3, <1>4, <1>6
<1>7. CASE ~capi.b3
  BY <1>3, <1>5, <1>7
<1> QED  BY <1>6, <1>7

\* capi_event has its message.
LEMMA AtEvent ==
    ASSUME Typed, Control, pc = "event"
    PROVE  /\ capi \in FromBrick /\ capi # NoMsg /\ toProg \in Seq(FromBrick)
           /\ Coming \in Seq(FromBrick) /\ Coming # <<>>
           /\ Head(Coming) = capi /\ Tail(Coming) = toProg
           /\ 1 \in DOMAIN Coming /\ Coming[1] = capi
<1>1. /\ capi \in FromBrick \cup {NoMsg} /\ capi # NoMsg /\ toProg \in Seq(FromBrick)
  BY DEF Typed, Control
<1>2. Coming \in Seq(FromBrick) /\ Coming # <<>> /\ Head(Coming) = capi /\ Tail(Coming) = toProg
  BY <1>1, StreamFacts DEF Coming
<1>3. 1 \in DOMAIN Coming /\ Coming[1] = Head(Coming)
  BY <1>2, TailOf
<1> QED  BY <1>1, <1>2, <1>3

\* The call a message is about is the newest on its line: it is the one that is found.
LEMMA FindsIt ==
    ASSUME Typed, Control, pc = "event", Live(capi), Numbered(Coming, line, calls, rung),
           NEW k \in DOMAIN calls, calls[k].id = capi.id
    PROVE  /\ calls[k].plci = capi.plci /\ ByPlci = k
           /\ (capi.b3 => calls[k].b3) => ByIdent = k
<1>1. /\ capi \in FromBrick /\ 1 \in DOMAIN Coming /\ Coming[1] = capi
      /\ calls \in Seq(Records)
  BY AtEvent DEF Typed
<1>2. /\ \A j \in DOMAIN calls : /\ calls[j].id = capi.id => calls[j].plci = capi.plci
                                 /\ calls[j].plci = capi.plci => calls[j].id <= capi.id
      /\ \A i, j \in DOMAIN calls : i < j /\ calls[i].plci = calls[j].plci => calls[i].id > calls[j].id
  BY <1>1 DEF Numbered
<1>3. calls[k].plci = capi.plci
  BY <1>2
<1>4. \A j \in DOMAIN calls : calls[j].id \in Nat /\ j \in Nat
  BY <1>1 DEF Records, CallIds
<1>5. ASSUME NEW j \in DOMAIN calls, calls[j].plci = capi.plci, j <= k  PROVE j = k
  <2>1. CASE j < k
    <3>1. calls[j].id > calls[k].id /\ calls[j].id <= capi.id
      BY <1>2, <1>3, <1>5, <2>1
    <3> QED  BY <1>4, <3>1
  <2> QED  BY <1>4, <1>5, <2>1
<1>6. ByPlci = k
  <2>1. ByPlci \in DOMAIN calls /\ calls[ByPlci].plci = capi.plci /\ ByPlci <= k
    BY <1>1, <1>3, Lookup
  <2> QED  BY <1>5, <2>1
<1>7. ASSUME capi.b3 => calls[k].b3  PROVE ByIdent = k
  <2>1. ByIdent \in DOMAIN calls /\ calls[ByIdent].plci = capi.plci /\ ByIdent <= k
    BY <1>1, <1>3, <1>7, Lookup
  <2> QED  BY <1>5, <2>1
<1> QED  BY <1>3, <1>6, <1>7

\* A message of an accepted call finds that call.
LEMMA AcceptedFound ==
    ASSUME Typed, Control, pc = "event", Ordered(Coming), Numbered(Coming, line, calls, rung),
           Known(Coming, toBrick, line, calls),
           capi.type \in NcciTypes \cup {"CONNECTACTIVE_IND"}
    PROVE  /\ ByPlci \in DOMAIN calls /\ calls[ByPlci].id = capi.id
           /\ capi.type # "CONNECTB3_IND" => ByIdent = ByPlci
<1>1. /\ capi \in FromBrick /\ 1 \in DOMAIN Coming /\ Coming[1] = capi /\ Live(capi)
      /\ Coming \in Seq(FromBrick) /\ (capi.b3 <=> capi.type \in NcciTypes)
  <2>1. capi \in FromBrick /\ 1 \in DOMAIN Coming /\ Coming[1] = capi /\ Coming \in Seq(FromBrick)
    BY AtEvent
  <2>2. capi.type \in LiveTypes
    BY DEF NcciTypes, LiveTypes
  <2>3. capi \in Tellings
    BY <2>1, <2>2 DEF FromBrick, Confirmations, LiveTypes, ConfTypes
  <2> QED  BY <2>1, <2>2, <2>3 DEF Live, Tellings
<1>2. PICK k \in DOMAIN calls : calls[k].id = capi.id
  BY <1>1 DEF Known, Has
<1>3. ByPlci = k /\ calls[k].plci = capi.plci
  BY <1>1, <1>2, FindsIt
<1>4. CASE capi.type \in B3Types
  <2>1. Joined(Coming, calls, capi.id)
    BY <1>1, <1>4 DEF Known
  <2>2. ~Expects(Coming, capi.id)
    <3>1. ASSUME NEW j \in DOMAIN Coming, Coming[j].type = "CONNECTB3_IND", Coming[j].id = capi.id
          PROVE  FALSE
      <4>1. j # 1 /\ j \in Nat /\ 1 < j
        BY <1>1, <1>4, <3>1 DEF B3Types
      <4>2. Live(Coming[j])
        BY <3>1 DEF Live, LiveTypes
      <4>3. Before(capi, Coming[j])
        BY <1>1, <4>1, <4>2 DEF Ordered
      <4> QED  BY <1>4, <3>1, <4>3 DEF Before
    <3> QED  BY <3>1 DEF Expects
  <2>3. PICK i \in DOMAIN calls : calls[i].id = capi.id /\ calls[i].b3
    BY <2>1, <2>2 DEF Joined, HasB3
  <2>4. ByPlci = i /\ ByIdent = i
    BY <1>1, <2>3, FindsIt
  <2> QED  BY <1>2, <1>3, <2>4
<1>5. CASE capi.type = "CONNECTACTIVE_IND"
  <2>1. ~capi.b3
    BY <1>1, <1>5 DEF NcciTypes
  <2> QED  BY <1>1, <1>2, <1>3, <2>1, FindsIt
<1>6. CASE capi.type = "CONNECTB3_IND"
  BY <1>2, <1>3, <1>6
<1> QED  BY <1>4, <1>5, <1>6 DEF B3Types

--------------------------------------------------------------------------------
(* The program has taken a message *)

LEMMA ToldTail ==
    ASSUME NEW s \in Seq(FromBrick), s # <<>>, NEW up, NEW l, NEW r, Told(s, up, l, r)
    PROVE  Told(Tail(s), up, l, r)
<1>1. \A k \in DOMAIN Tail(s) : k + 1 \in DOMAIN s /\ Tail(s)[k] = s[k + 1]
  BY TailOf
<1> QED  BY <1>1 DEF Told

LEMMA OrderedTail ==
    ASSUME NEW s \in Seq(FromBrick), s # <<>>, Ordered(s)
    PROVE  /\ Ordered(Tail(s))
           /\ \A k \in DOMAIN Tail(s) : Live(Head(s)) /\ Live(Tail(s)[k]) => Before(Head(s), Tail(s)[k])
<1>1. /\ \A k \in DOMAIN Tail(s) : k + 1 \in DOMAIN s /\ Tail(s)[k] = s[k + 1] /\ k \in Nat
      /\ 1 \in DOMAIN s /\ s[1] = Head(s)
  BY TailOf
<1>2. ASSUME NEW j \in DOMAIN Tail(s), NEW k \in DOMAIN Tail(s), j < k,
             Live(Tail(s)[j]), Live(Tail(s)[k])
      PROVE  Before(Tail(s)[j], Tail(s)[k])
  <2>1. j + 1 < k + 1
    BY <1>1, <1>2
  <2> QED  BY <1>1, <1>2, <2>1 DEF Ordered
<1>3. ASSUME NEW k \in DOMAIN Tail(s), Live(Head(s)), Live(Tail(s)[k])
      PROVE  Before(Head(s), Tail(s)[k])
  <2>1. 1 < k + 1
    BY <1>1, TailOf
  <2> QED  BY <1>1, <1>3, <2>1 DEF Ordered
<1> QED  BY <1>2, <1>3 DEF Ordered

LEMMA NumberedTail ==
    ASSUME NEW s \in Seq(FromBrick), s # <<>>, NEW l, NEW cs, NEW r, Numbered(s, l, cs, r)
    PROVE  Numbered(Tail(s), l, cs, r)
<1>1. \A k \in DOMAIN Tail(s) : k + 1 \in DOMAIN s /\ Tail(s)[k] = s[k + 1]
  BY TailOf
<1>2. \A k \in DOMAIN cs, j \in DOMAIN Tail(s) : Live(Tail(s)[j]) =>
          /\ cs[k].id = Tail(s)[j].id => cs[k].plci = Tail(s)[j].plci /\ Tail(s)[j].type # "CONNECT_IND"
          /\ cs[k].plci = Tail(s)[j].plci => cs[k].id <= Tail(s)[j].id
  BY <1>1 DEF Numbered
<1> QED  BY <1>2 DEF Numbered

\* What happens to the calls: they stay, one is new, or one is freed.
Kept(cs, cs2) ==
    /\ cs2 \in Seq(Records) /\ Len(cs2) = Len(cs) /\ DOMAIN cs2 = DOMAIN cs
    /\ \A k \in DOMAIN cs : /\ cs2[k].id = cs[k].id /\ cs2[k].plci = cs[k].plci
                            /\ cs[k].b3 => cs2[k].b3

LEMMA NumberedKept ==
    ASSUME NEW s, NEW l, NEW cs, NEW cs2, NEW r, Numbered(s, l, cs, r), Kept(cs, cs2)
    PROVE  Numbered(s, l, cs2, r)
BY DEF Numbered, Kept

\* The new call is the first of the list.
New(cs, cs2, m) ==
    /\ cs2 \in Seq(Records) /\ Len(cs2) = Len(cs) + 1 /\ Len(cs) \in Nat
    /\ DOMAIN cs = 1 .. Len(cs) /\ DOMAIN cs2 = 1 .. Len(cs) + 1
    /\ cs2[1].id = m.id /\ cs2[1].plci = m.plci /\ cs2[1].ncnt = 0
    /\ \A k \in DOMAIN cs : cs2[k + 1] = cs[k]

LEMMA NewFacts ==
    ASSUME NEW cs, NEW cs2, NEW m, New(cs, cs2, m)
    PROVE  \A k \in DOMAIN cs2 : k \in Nat /\ (k # 1 => 1 < k /\ k - 1 \in DOMAIN cs /\ cs2[k] = cs[k - 1])
<1>1. ASSUME NEW k \in DOMAIN cs2, k # 1
      PROVE  1 < k /\ k - 1 \in DOMAIN cs /\ cs2[k] = cs[k - 1]
  <2>1. k - 1 \in 1 .. Len(cs) /\ k - 1 + 1 = k /\ 1 < k
    BY <1>1 DEF New
  <2> QED  BY <2>1 DEF New
<1>2. \A k \in DOMAIN cs2 : k \in Nat
  BY DEF New
<1> QED  BY <1>1, <1>2

LEMMA NumberedNew ==
    ASSUME NEW s \in Seq(FromBrick), s # <<>>, NEW l \in [Plcis -> Lines], NEW cs, NEW cs2,
           NEW r, NEW up, Numbered(s, l, cs, r), Told(s, up, l, r), Ordered(s),
           ~up => \A p \in Plcis : l[p].id = 0,
           Head(s).type = "CONNECT_IND", Head(s) \in Tellings, New(cs, cs2, Head(s))
    PROVE  Numbered(Tail(s), l, cs2, r)
<1> DEFINE m == Head(s)
           t == Tail(s)
<1>1. /\ 1 \in DOMAIN s /\ s[1] = m /\ Live(m) /\ m.plci \in Plcis /\ m.id \in Nat /\ m.id # 0
  <2>1. 1 \in DOMAIN s /\ s[1] = m
    BY TailOf
  <2> QED  BY <2>1 DEF Live, Tellings, CallIds
<1>2. /\ m.id <= r
      /\ up => l[m.plci].id = m.id
  BY <1>1 DEF Told
<1>3. \A k \in DOMAIN t : Live(t[k]) => Before(m, t[k])
  BY <1>1, OrderedTail
<1>4. Numbered(t, l, cs, r)
  BY NumberedTail
<1>5. \A k \in DOMAIN cs2 : k \in Nat /\ (k # 1 => 1 < k /\ k - 1 \in DOMAIN cs /\ cs2[k] = cs[k - 1])
  BY NewFacts
<1>6. \A k \in DOMAIN cs : /\ cs[k].id = m.id => FALSE
                           /\ cs[k].plci = m.plci => cs[k].id <= m.id
  BY <1>1 DEF Numbered
<1>7. cs2[1].id = m.id /\ cs2[1].plci = m.plci
  BY DEF New
<1> HIDE DEF m, t
<1>8. \A k \in DOMAIN cs2 : cs2[k].id <= r
  BY <1>2, <1>4, <1>5, <1>7 DEF Numbered
<1>9. ASSUME NEW j \in DOMAIN cs2, NEW k \in DOMAIN cs2, j < k, cs2[j].plci = cs2[k].plci
      PROVE  cs2[j].id > cs2[k].id
  <2>1. k # 1 /\ k - 1 \in DOMAIN cs /\ cs2[k] = cs[k - 1] /\ k \in Nat /\ j \in Nat
    BY <1>5, <1>9
  <2>2. CASE j = 1
    <3>1. cs[k - 1].id <= m.id /\ cs[k - 1].id # m.id
      BY <1>6, <1>7, <1>9, <2>1, <2>2
    <3>2. cs2 \in Seq(Records) /\ cs2[k].id \in Nat
      BY DEF New, Records, CallIds
    <3> QED  BY <1>1, <1>7, <2>1, <2>2, <3>1, <3>2
  <2>3. CASE j # 1
    <3>1. j - 1 \in DOMAIN cs /\ cs2[j] = cs[j - 1] /\ j - 1 < k - 1
      BY <1>5, <1>9, <2>1, <2>3
    <3> QED  BY <1>4, <1>9, <2>1, <3>1 DEF Numbered
  <2> QED  BY <2>2, <2>3
<1>10. ASSUME NEW k \in DOMAIN cs2, NEW p \in Plcis
       PROVE  /\ cs2[k].id = l[p].id => cs2[k].plci = p
              /\ cs2[k].plci = p /\ l[p].id # 0 => cs2[k].id <= l[p].id
  <2>1. CASE k = 1
    <3>1. ASSUME m.id = l[p].id  PROVE m.plci = p
      <4>1. l[p].id # 0 /\ up
        BY <1>1, <3>1
      <4>2. l[m.plci].id = l[p].id
        BY <1>2, <3>1, <4>1
      <4> QED  BY <1>1, <1>4, <4>1, <4>2 DEF Numbered
    <3>2. ASSUME m.plci = p, l[p].id # 0  PROVE m.id <= l[p].id
      <4>1. up
        BY <3>2
      <4> QED  BY <1>1, <1>2, <3>2, <4>1
    <3> QED  BY <1>7, <2>1, <3>1, <3>2
  <2>2. CASE k # 1
    BY <1>4, <1>5, <2>2 DEF Numbered
  <2> QED  BY <2>1, <2>2
<1>11. ASSUME NEW k \in DOMAIN cs2, NEW j \in DOMAIN t, Live(t[j])
       PROVE  /\ cs2[k].id = t[j].id => cs2[k].plci = t[j].plci /\ t[j].type # "CONNECT_IND"
              /\ cs2[k].plci = t[j].plci => cs2[k].id <= t[j].id
  <2>1. CASE k = 1
    <3>1. Before(m, t[j])
      BY <1>3, <1>11
    <3> QED  BY <1>1, <1>7, <2>1, <3>1 DEF Before
  <2>2. CASE k # 1
    BY <1>4, <1>5, <1>11, <2>2 DEF Numbered
  <2> QED  BY <2>1, <2>2
<1>12. /\ \A p \in Plcis : l[p].id <= r
       /\ \A p, o \in Plcis : l[p].id = l[o].id /\ l[p].id # 0 => p = o
  BY <1>4 DEF Numbered
<1>13. Numbered(t, l, cs2, r)
  BY <1>8, <1>9, <1>10, <1>11, <1>12 DEF Numbered
<1> QED  BY <1>13 DEF t

\* One call is taken off the list.
Less(cs, cs2, i) ==
    /\ cs2 \in Seq(Records) /\ i \in DOMAIN cs /\ Len(cs2) + 1 = Len(cs) /\ Len(cs2) \in Nat
    /\ \A k \in DOMAIN cs2 : \/ k \in DOMAIN cs /\ k < i /\ cs2[k] = cs[k]
                             \/ k + 1 \in DOMAIN cs /\ k + 1 > i /\ cs2[k] = cs[k + 1]
    /\ \A k \in DOMAIN cs : k # i => \E j \in DOMAIN cs2 : cs2[j] = cs[k]

LEMMA LessFacts ==
    ASSUME NEW cs \in Seq(Records), NEW i \in DOMAIN cs
    PROVE  Less(cs, RemoveAt(cs, i), i)
BY CutOut DEF Without, Less, RemoveAt

LEMMA NumberedLess ==
    ASSUME NEW s, NEW l, NEW cs \in Seq(Records), NEW cs2, NEW r, NEW i,
           Numbered(s, l, cs, r), Less(cs, cs2, i)
    PROVE  Numbered(s, l, cs2, r)
<1>1. \A k \in DOMAIN cs2 : \E n \in DOMAIN cs : cs2[k] = cs[n]
  BY DEF Less
<1>2. ASSUME NEW j \in DOMAIN cs2, NEW k \in DOMAIN cs2, j < k
      PROVE  \E m, n \in DOMAIN cs : m < n /\ cs2[j] = cs[m] /\ cs2[k] = cs[n]
  <2>1. j \in Nat /\ k \in Nat /\ i \in Nat
    BY DEF Less
  <2>2. CASE k < i /\ k \in DOMAIN cs /\ cs2[k] = cs[k]
    <3>1. j \in DOMAIN cs /\ cs2[j] = cs[j]
      BY <1>2, <2>1, <2>2 DEF Less
    <3> QED  BY <1>2, <2>2, <3>1
  <2>3. CASE k + 1 > i /\ k + 1 \in DOMAIN cs /\ cs2[k] = cs[k + 1]
    <3>1. CASE j \in DOMAIN cs /\ cs2[j] = cs[j]
      <4>1. j < k + 1
        BY <1>2, <2>1
      <4> QED  BY <2>3, <3>1, <4>1
    <3>2. CASE j + 1 \in DOMAIN cs /\ cs2[j] = cs[j + 1]
      <4>1. j + 1 < k + 1
        BY <1>2, <2>1
      <4> QED  BY <2>3, <3>2, <4>1
    <3> QED  BY <3>1, <3>2 DEF Less
  <2> QED  BY <2>2, <2>3 DEF Less
<1>3. \A k \in DOMAIN cs2 : cs2[k].id <= r
  BY <1>1 DEF Numbered
<1>4. \A j, k \in DOMAIN cs2 : j < k /\ cs2[j].plci = cs2[k].plci => cs2[j].id > cs2[k].id
  BY <1>2 DEF Numbered
<1>5. \A k \in DOMAIN cs2, p \in Plcis :
          /\ cs2[k].id = l[p].id => cs2[k].plci = p
          /\ cs2[k].plci = p /\ l[p].id # 0 => cs2[k].id <= l[p].id
  BY <1>1 DEF Numbered
<1>6. \A k \in DOMAIN cs2, j \in DOMAIN s : Live(s[j]) =>
          /\ cs2[k].id = s[j].id => cs2[k].plci = s[j].plci /\ s[j].type # "CONNECT_IND"
          /\ cs2[k].plci = s[j].plci => cs2[k].id <= s[j].id
  BY <1>1 DEF Numbered
<1> QED  BY <1>3, <1>4, <1>5, <1>6 DEF Numbered

--------------------------------------------------------------------------------
(* The brick has changed a line, or taken a message, or the program has listened *)

LEMMA LiveIn ==
    ASSUME NEW m \in FromBrick, Live(m)
    PROVE  /\ m \in Tellings /\ m.plci \in Plcis /\ m.id \in CallIds /\ m.id \in Nat /\ m.id # 0
           /\ m.arg \in Nat /\ (m.b3 <=> m.type \in NcciTypes)
BY DEF FromBrick, Live, Tellings, Confirmations, LiveTypes, ConfTypes, CallIds

LEMMA LineIn ==
    ASSUME NEW x \in Lines
    PROVE  /\ x.id \in Nat /\ x.sent \in Nat /\ x.unacked \in Nat /\ x.digits \in Nat
           /\ x.unacked <= x.sent
           /\ x.id # 0 <=> x.st # "free"
           /\ x.id = 0 => x = Idle
           /\ x.id # 0 => x \in Busy /\ x.id \in CallIds
<1>1. CASE x = Idle
  BY <1>1 DEF Idle
<1>2. CASE x \in Busy /\ x.unacked <= x.sent
  BY <1>2, Bounds DEF Busy, CallIds
<1> QED  BY <1>1, <1>2 DEF Lines

\* The blocks of the fax on line p.
Datas(p) == {m \in FromBrick : m.type = "DATAB3_IND" /\ m.plci = p}

\* The brick tells m of the call on a line that goes from x to y.
Says(x, y, m) ==
    /\ m.id = x.id /\ x.id # 0 /\ x.st # "clearing"
    /\ m.type \in Sayable(y.st) /\ m.type # "CONNECT_IND"
    /\ m.type = "CONNECTB3_IND" => x.st = "active"
    /\ m.type = "DATAB3_IND" => m.arg = x.sent + 1
    /\ m.type = "INFO_IND" /\ m.arg = 1 => x.right
    /\ m.type \in NcciTypes \cup {"CONNECTACTIVE_IND"} => y.st \in OnLine
    /\ m.type \in B3Types => x.st \in OnB3

\* Line p goes on from x to y, with the same call.
Onward(p, x, y, m) ==
    /\ y.id = x.id /\ y.right = x.right
    /\ y.digits = x.digits + One(m \in Infos(p)) /\ y.sent = x.sent + One(m \in Datas(p))
    /\ Sayable(x.st) \subseteq Sayable(y.st)
    /\ x.st = "clearing" => y.st = "clearing"
    /\ y.st = "offered" => x.st = "offered"
    /\ y.st \in OnB3 => x.st \in OnB3 \/ (m.type = "CONNECTB3_IND" /\ m.plci = p)
    /\ Live(m) /\ m.plci = p => Says(x, y, m)
Turn(l, l2, m) == \A p \in Plcis : Onward(p, l[p], l2[p], m)

\* d messages have been taken; a line is accepted by the one that is taken.
Takes(q, q2, d, l, l2) ==
    /\ d \in {0, 1} /\ (d = 1 => 1 \in DOMAIN q)
    /\ \A k \in DOMAIN q2 : k \in Nat /\ (q2[k].type = "LISTEN_REQ" \/ (k + d \in DOMAIN q /\ q2[k] = q[k + d]))
    /\ \A k \in DOMAIN q : k \in Nat /\ (k > d => k - d \in DOMAIN q2 /\ q2[k - d] = q[k])
    /\ \A p \in Plcis :
          /\ d = 1 /\ Refuses(q[1], p) => l2[p].st # "offered"
          /\ l2[p].st \in OnLine /\ l[p].st \notin OnLine
                => d = 1 /\ Accepts(q, 1, l) /\ q[1].plci = p
          /\ l2[p].sent - l2[p].unacked + Number(q2, DataResps(p))
                <= l[p].sent - l[p].unacked + Number(q, DataResps(p))

\* The elements of a longer stream.
LEMMA Longer ==
    ASSUME NEW s \in Seq(FromBrick), NEW s2, NEW m \in Tellings \cup {NoMsg}, Extends(s, s2, m)
    PROVE  \A k \in DOMAIN s2 : /\ k \in Nat /\ s2[k] \in FromBrick
                                /\ Live(s2[k]) => \/ k \in DOMAIN s /\ s2[k] = s[k] /\ s[k] \in FromBrick
                                                  \/ k = Len(s2) /\ Len(s) < k /\ s2[k] = m /\ m \in Tellings
<1>1. ~Live(NoMsg)
  BY NoneFromBrick
<1>2. s2 \in Seq(FromBrick)
  BY DEF Extends
<1>3. \A k \in DOMAIN s2 : k \in Nat /\ s2[k] \in FromBrick
  BY <1>2
<1>4. \A k \in DOMAIN s : s[k] \in FromBrick
  OBVIOUS
<1> QED  BY <1>1, <1>3, <1>4 DEF Extends

LEMMA TurnTold ==
    ASSUME NEW s \in Seq(FromBrick), NEW s2, NEW m \in Tellings \cup {NoMsg}, NEW up, NEW r \in Nat,
           NEW l \in [Plcis -> Lines], NEW l2 \in [Plcis -> Lines], NEW cs,
           Extends(s, s2, m), Turn(l, l2, m), Numbered(s, l, cs, r), Told(s, up, l, r)
    PROVE  Told(s2, up, l2, r)
<1> SUFFICES ASSUME NEW k \in DOMAIN s2, Live(s2[k])
             PROVE  /\ s2[k].id <= r
                    /\ up => /\ l2[s2[k].plci].id = s2[k].id
                             /\ s2[k].type \in Sayable(l2[s2[k].plci].st)
                             /\ s2[k].type = "DATAB3_IND" => s2[k].arg <= l2[s2[k].plci].sent
  BY DEF Told
<1> DEFINE a == s2[k]
           p == a.plci
<1>1. a \in FromBrick /\ Live(a)
  BY Longer
<1>2. p \in Plcis /\ a.arg \in Nat /\ a \in Tellings
  BY <1>1, LiveIn
<1>3. Onward(p, l[p], l2[p], m) /\ l[p] \in Lines /\ l2[p] \in Lines
  BY <1>2 DEF Turn
<1>4. CASE k \in DOMAIN s /\ a = s[k]
  <2>1. /\ a.id <= r
        /\ up => l[p].id = a.id /\ a.type \in Sayable(l[p].st) /\ (a.type = "DATAB3_IND" => a.arg <= l[p].sent)
    BY <1>1, <1>4 DEF Told
  <2>2. l2[p].sent >= l[p].sent /\ l[p].sent \in Nat /\ l2[p].sent \in Nat
    <3>1. l[p].sent \in Nat /\ l2[p].sent \in Nat /\ One(m \in Datas(p)) \in {0, 1}
      BY <1>3, LineIn DEF One
    <3>2. l2[p].sent = l[p].sent + One(m \in Datas(p))
      BY <1>3 DEF Onward
    <3> QED  BY <3>1, <3>2
  <2>3. l2[p].id = l[p].id /\ Sayable(l[p].st) \subseteq Sayable(l2[p].st)
    BY <1>3 DEF Onward
  <2>4. l[p].sent >= a.arg => l2[p].sent >= a.arg
    BY ONLY <2>2, <1>2
  <2>5. a.type = "DATAB3_IND" /\ up => a.arg <= l2[p].sent
    BY <2>1, <2>4, <2>2, <1>2
  <2> QED  BY <2>1, <2>3, <2>5
<1>5. CASE a = m /\ m \in Tellings
  <2>1. Says(l[p], l2[p], m)
    BY <1>1, <1>3, <1>5 DEF Onward
  <2>2. a.id = l[p].id /\ l2[p].id = l[p].id /\ a.type \in Sayable(l2[p].st) /\ l[p].id <= r
    BY <1>2, <1>3, <1>5, <2>1 DEF Says, Onward, Numbered
  <2>3. ASSUME a.type = "DATAB3_IND"  PROVE a.arg <= l2[p].sent
    <3>1. m \in Datas(p)
      BY <1>1, <1>5, <2>3 DEF Datas
    <3>2. a.arg = l[p].sent + 1 /\ l2[p].sent = l[p].sent + 1
      BY <1>3, <1>5, <2>1, <2>3, <3>1 DEF Says, Onward, One
    <3> QED  BY <1>2, <3>2
  <2> QED  BY <2>2, <2>3
<1> QED  BY <1>1, <1>4, <1>5, Longer

LEMMA TurnOrdered ==
    ASSUME NEW s \in Seq(FromBrick), NEW s2, NEW m \in Tellings \cup {NoMsg}, NEW r \in Nat,
           NEW l \in [Plcis -> Lines], NEW l2 \in [Plcis -> Lines], NEW cs,
           Extends(s, s2, m), Turn(l, l2, m), Numbered(s, l, cs, r),
           Live(m) => Told(s, TRUE, l, r), Ordered(s)
    PROVE  Ordered(s2)
<1> SUFFICES ASSUME NEW j \in DOMAIN s2, NEW k \in DOMAIN s2, j < k, Live(s2[j]), Live(s2[k])
             PROVE  Before(s2[j], s2[k])
  BY DEF Ordered
<1>1. j \in Nat /\ k \in Nat /\ Len(s2) \in Nat /\ Len(s) \in Nat /\ \A i \in DOMAIN s : i <= Len(s)
  BY Longer DEF Extends
<1>2. CASE k \in DOMAIN s /\ s2[k] = s[k]
  <2>1. j \in DOMAIN s /\ s2[j] = s[j]
    <3>1. ASSUME Len(s) < j  PROVE FALSE
      BY <1>1, <1>2, <3>1
    <3> QED  BY <3>1, Longer
  <2> QED  BY <1>2, <2>1 DEF Ordered
<1>3. CASE k = Len(s2) /\ s2[k] = m /\ m \in Tellings
  <2>1. j \in DOMAIN s /\ s2[j] = s[j] /\ s[j] \in FromBrick
    <3>1. j # Len(s2)
      BY <1>1, <1>3
    <3> QED  BY <3>1, Longer
  <2> DEFINE a == s[j]
             p == m.plci
             o == a.plci
  <2>2. Live(m) /\ Live(a) /\ a \in FromBrick /\ m \in FromBrick
    BY <1>3, <2>1 DEF FromBrick
  <2>3. p \in Plcis /\ o \in Plcis /\ a.id # 0 /\ a.arg \in Nat
    BY <2>2, LiveIn
  <2>4. Says(l[p], l2[p], m)
    BY <2>2, <2>3 DEF Turn, Onward
  <2>5. l[o].id = a.id /\ a.type \in Sayable(l[o].st) /\ (a.type = "DATAB3_IND" => a.arg <= l[o].sent)
    BY <2>1, <2>2 DEF Told
  <2>6. a.id = m.id <=> o = p
    BY <2>3, <2>4, <2>5 DEF Says, Numbered
  <2>7. ASSUME o = p
        PROVE  /\ m.type # "CONNECT_IND" /\ a.type # "DISCONNECT_IND"
               /\ m.type = "CONNECTB3_IND" => a.type \notin B3Types
               /\ a.type = "DATAB3_IND" /\ m.type = "DATAB3_IND" => a.arg < m.arg
    <3>1. a.type \in Sayable(l[p].st) /\ l[p].st # "clearing"
      BY <2>4, <2>5, <2>7 DEF Says
    <3>2. a.type # "DISCONNECT_IND"
      BY <3>1 DEF Sayable, LiveTypes
    <3>3. m.type = "CONNECTB3_IND" => a.type \notin B3Types
      <4>1. m.type = "CONNECTB3_IND" => l[p].st = "active"
        BY <2>4 DEF Says
      <4> QED  BY <3>1, <4>1 DEF Sayable, B3Types, NcciTypes
    <3>4. ASSUME a.type = "DATAB3_IND", m.type = "DATAB3_IND"  PROVE a.arg < m.arg
      <4>1. a.arg <= l[p].sent /\ m.arg = l[p].sent + 1
        BY <2>4, <2>5, <2>7, <3>4 DEF Says
      <4>2. l[p].sent \in Nat
        BY <2>3, LineIn
      <4> QED  BY <2>3, <4>1, <4>2
    <3> QED  BY <2>4, <3>2, <3>3, <3>4 DEF Says
  <2>8. Before(a, m)
    BY <2>6, <2>7 DEF Before
  <2> QED  BY <1>3, <2>1, <2>8
<1> QED  BY <1>2, <1>3, Longer

LEMMA TurnNumbered ==
    ASSUME NEW s \in Seq(FromBrick), NEW s2, NEW m \in Tellings \cup {NoMsg}, NEW r \in Nat,
           NEW l \in [Plcis -> Lines], NEW l2 \in [Plcis -> Lines], NEW cs,
           Extends(s, s2, m), Turn(l, l2, m), Numbered(s, l, cs, r)
    PROVE  Numbered(s2, l2, cs, r)
<1>1. \A p \in Plcis : l2[p].id = l[p].id
  BY DEF Turn, Onward
<1>2. ASSUME NEW k \in DOMAIN cs, NEW j \in DOMAIN s2, Live(s2[j])
      PROVE  /\ cs[k].id = s2[j].id => cs[k].plci = s2[j].plci /\ s2[j].type # "CONNECT_IND"
             /\ cs[k].plci = s2[j].plci => cs[k].id <= s2[j].id
  <2>1. CASE j \in DOMAIN s /\ s2[j] = s[j]
    BY <1>2, <2>1 DEF Numbered
  <2>2. CASE s2[j] = m /\ m \in Tellings
    <3>1. Live(m) /\ m.plci \in Plcis
      BY <1>2, <2>2 DEF Tellings
    <3>2. Says(l[m.plci], l2[m.plci], m)
      BY <3>1 DEF Turn, Onward
    <3>3. m.id = l[m.plci].id /\ m.id # 0 /\ m.type # "CONNECT_IND"
      BY <3>2 DEF Says
    <3> QED  BY <2>2, <3>1, <3>3 DEF Numbered
  <2> QED  BY <1>2, <2>1, <2>2, Longer
<1>3. /\ \A p \in Plcis : l2[p].id <= r
      /\ \A p, o \in Plcis : l2[p].id = l2[o].id /\ l2[p].id # 0 => p = o
      /\ \A k \in DOMAIN cs, p \in Plcis :
          /\ cs[k].id = l2[p].id => cs[k].plci = p
          /\ cs[k].plci = p /\ l2[p].id # 0 => cs[k].id <= l2[p].id
  BY <1>1 DEF Numbered
<1>4. /\ \A k \in DOMAIN cs : cs[k].id <= r
      /\ \A j, k \in DOMAIN cs : j < k /\ cs[j].plci = cs[k].plci => cs[j].id > cs[k].id
  BY DEF Numbered
<1> QED  BY <1>2, <1>3, <1>4 DEF Numbered

LEMMA AnswerIn ==
    ASSUME NEW m \in FromProg, m.type # "LISTEN_REQ"
    PROVE  m \in Answers /\ m.plci \in Plcis /\ m.id \in CallIds /\ m.id \in Nat /\ m.id # 0
BY DEF FromProg, Answers, Listen, NoMsg, CallIds

\* What is still under way has been before.
LEMMA TakesFacts ==
    ASSUME NEW q \in Seq(FromProg), NEW q2, NEW d, NEW l, NEW l2, Takes(q, q2, d, l, l2),
           NEW k \in DOMAIN q2, q2[k].type # "LISTEN_REQ"
    PROVE  /\ k + d \in DOMAIN q /\ q2[k] = q[k + d] /\ q2[k] \in FromProg /\ k \in Nat /\ d \in Nat
           /\ q2[k].plci \in Plcis
<1>1. k + d \in DOMAIN q /\ q2[k] = q[k + d] /\ k \in Nat /\ d \in {0, 1}
  BY DEF Takes
<1>2. q[k + d] \in FromProg
  BY <1>1
<1> QED  BY <1>1, <1>2, AnswerIn

LEMMA TakesAccepts ==
    ASSUME NEW q \in Seq(FromProg), NEW q2, NEW d, NEW l, NEW l2, NEW m,
           Takes(q, q2, d, l, l2), Turn(l, l2, m), NEW k \in DOMAIN q2, Accepts(q2, k, l2)
    PROVE  /\ k + d \in DOMAIN q /\ q2[k] = q[k + d] /\ Accepts(q, k + d, l)
           /\ q2[k].plci \in Plcis
<1>1. q2[k].type = "CONNECT_RESP" /\ q2[k].arg = 0 /\ l2[q2[k].plci].st = "offered"
  BY DEF Accepts
<1>2. k + d \in DOMAIN q /\ q2[k] = q[k + d] /\ k \in Nat /\ d \in Nat /\ q2[k].plci \in Plcis
  BY <1>1, TakesFacts
<1> DEFINE p == q2[k].plci
<1>3. l[p].st = "offered"
  BY <1>1, <1>2 DEF Turn, Onward
<1>4. ASSUME NEW j \in DOMAIN q, j < k + d, Refuses(q[j], p)  PROVE FALSE
  <2>1. j \in Nat /\ d \in {0, 1} /\ j >= 1
    BY DEF Takes
  <2>2. CASE j > d
    <3>1. j - d \in DOMAIN q2 /\ q2[j - d] = q[j] /\ j - d < k
      BY <1>2, <1>4, <2>1, <2>2 DEF Takes
    <3> QED  BY <1>4, <3>1 DEF Accepts
  <2>3. CASE ~(j > d)
    <3>1. j = 1 /\ d = 1
      BY <2>1, <2>3
    <3> QED  BY <1>1, <1>2, <1>4, <3>1 DEF Takes
  <2> QED  BY <2>2, <2>3
<1> QED  BY <1>1, <1>2, <1>3, <1>4 DEF Accepts

LEMMA TurnReplied ==
    ASSUME NEW s \in Seq(FromBrick), NEW s2, NEW m \in Tellings \cup {NoMsg},
           NEW q \in Seq(FromProg), NEW q2, NEW d,
           NEW l \in [Plcis -> Lines], NEW l2 \in [Plcis -> Lines],
           Extends(s, s2, m), Turn(l, l2, m), Takes(q, q2, d, l, l2), Replied(s, q, l)
    PROVE  Replied(s2, q2, l2)
<1>1. ASSUME NEW k \in DOMAIN q2, q2[k].type # "LISTEN_REQ"
      PROVE  l2[q2[k].plci].id = q2[k].id
  <2>1. k + d \in DOMAIN q /\ q2[k] = q[k + d] /\ q2[k].plci \in Plcis
    BY <1>1, TakesFacts
  <2>2. l2[q2[k].plci].id = l[q2[k].plci].id
    BY <2>1 DEF Turn, Onward
  <2> QED  BY <1>1, <2>1, <2>2 DEF Replied
<1>2. ASSUME NEW j \in DOMAIN q2, NEW k \in DOMAIN q2, j < k, Closing(q2[j]), q2[k].type # "LISTEN_REQ"
      PROVE  q2[j].plci # q2[k].plci
  <2>1. q2[j].type # "LISTEN_REQ"
    BY <1>2 DEF Closing
  <2>2. /\ k + d \in DOMAIN q /\ q2[k] = q[k + d] /\ k \in Nat /\ d \in Nat
        /\ j + d \in DOMAIN q /\ q2[j] = q[j + d] /\ j \in Nat
    BY <1>2, <2>1, TakesFacts
  <2>3. j + d < k + d
    BY <1>2, <2>2
  <2> QED  BY <1>2, <2>2, <2>3 DEF Replied
<1>3. ASSUME NEW k \in DOMAIN q2, Closing(q2[k])
      PROVE  /\ l2[q2[k].plci].st = "clearing"
             /\ \A j \in DOMAIN s2 : Live(s2[j]) => s2[j].plci # q2[k].plci
  <2>1. q2[k].type # "LISTEN_REQ"
    BY <1>3 DEF Closing
  <2> DEFINE p == q2[k].plci
  <2>2. k + d \in DOMAIN q /\ q2[k] = q[k + d] /\ p \in Plcis
    BY <2>1, TakesFacts
  <2>3. l[p].st = "clearing" /\ \A j \in DOMAIN s : Live(s[j]) => s[j].plci # p
    BY <1>3, <2>2 DEF Replied
  <2>4. Onward(p, l[p], l2[p], m)
    BY <2>2 DEF Turn
  <2>5. ASSUME NEW j \in DOMAIN s2, Live(s2[j])  PROVE s2[j].plci # p
    <3>1. CASE j \in DOMAIN s /\ s2[j] = s[j]
      BY <2>3, <2>5, <3>1
    <3>2. CASE s2[j] = m
      BY <2>3, <2>4, <2>5, <3>2 DEF Onward, Says
    <3> QED  BY <2>5, <3>1, <3>2, Longer
  <2> QED  BY <2>3, <2>4, <2>5 DEF Onward
<1> QED  BY <1>1, <1>2, <1>3 DEF Replied

LEMMA TurnKnown ==
    ASSUME NEW s \in Seq(FromBrick), NEW s2, NEW m \in Tellings \cup {NoMsg},
           NEW q \in Seq(FromProg), NEW q2, NEW d, NEW cs,
           NEW l \in [Plcis -> Lines], NEW l2 \in [Plcis -> Lines],
           Extends(s, s2, m), Turn(l, l2, m), Takes(q, q2, d, l, l2), Replied(s, q, l),
           Known(s, q, l, cs)
    PROVE  Known(s2, q2, l2, cs)
<1>1. \A k \in DOMAIN s : k \in DOMAIN s2 /\ s2[k] = s[k]
  BY DEF Extends
<1>2. \A i : Joined(s, cs, i) => Joined(s2, cs, i)
  BY <1>1 DEF Joined, Expects
<1>3. ASSUME NEW p \in Plcis, l2[p].st \in OnLine  PROVE Has(cs, l2[p].id)
  <2>1. l2[p].id = l[p].id
    BY DEF Turn, Onward
  <2>2. CASE l[p].st \in OnLine
    BY <2>1, <2>2 DEF Known
  <2>3. CASE l[p].st \notin OnLine
    <3>1. 1 \in DOMAIN q /\ Accepts(q, 1, l) /\ q[1].plci = p
      BY <1>3, <2>3 DEF Takes
    <3>2. Has(cs, q[1].id) /\ q[1].type # "LISTEN_REQ"
      BY <3>1 DEF Known, Accepts
    <3>3. l[p].id = q[1].id
      BY <3>1, <3>2 DEF Replied
    <3> QED  BY <2>1, <3>2, <3>3
  <2> QED  BY <2>2, <2>3
<1>4. ASSUME NEW k \in DOMAIN s2
      PROVE  /\ s2[k].type \in NcciTypes \cup {"CONNECTACTIVE_IND"} => Has(cs, s2[k].id)
             /\ s2[k].type \in B3Types => Joined(s2, cs, s2[k].id)
  <2>1. s2[k].type \in NcciTypes \cup {"CONNECTACTIVE_IND"} => Live(s2[k])
    BY DEF Live, LiveTypes, NcciTypes
  <2>2. s2[k].type \in B3Types => s2[k].type \in NcciTypes
    BY DEF B3Types
  <2>3. CASE k \in DOMAIN s /\ s2[k] = s[k]
    BY <1>2, <2>3 DEF Known
  <2>4. CASE Live(s2[k]) /\ s2[k] = m /\ m \in Tellings
    <3> DEFINE p == m.plci
    <3>1. p \in Plcis /\ Onward(p, l[p], l2[p], m)
      BY <2>4 DEF Tellings, Turn
    <3>2. Says(l[p], l2[p], m) /\ l2[p].id = l[p].id
      BY <2>4, <3>1 DEF Onward
    <3>3. m.type \in NcciTypes \cup {"CONNECTACTIVE_IND"} => Has(cs, m.id)
      BY <1>3, <3>1, <3>2 DEF Says
    <3>4. m.type \in B3Types => Joined(s, cs, m.id)
      BY <3>1, <3>2 DEF Says, Known
    <3> QED  BY <1>2, <2>4, <3>3, <3>4
  <2> QED  BY <2>1, <2>2, <2>3, <2>4, Longer
<1>5. ASSUME NEW p \in Plcis, l2[p].st \in OnB3  PROVE Joined(s2, cs, l2[p].id)
  <2>1. Onward(p, l[p], l2[p], m) /\ l2[p].id = l[p].id
    BY DEF Turn, Onward
  <2>2. CASE l[p].st \in OnB3
    BY <1>2, <2>1, <2>2 DEF Known
  <2>3. CASE m.type = "CONNECTB3_IND" /\ m.plci = p
    <3>1. Live(m)
      BY <2>3 DEF Live, LiveTypes
    <3>2. Len(s2) \in DOMAIN s2 /\ s2[Len(s2)] = m /\ m.id = l[p].id
      BY <2>1, <2>3, <3>1 DEF Extends, Onward, Says
    <3> QED  BY <2>1, <2>3, <3>2 DEF Joined, Expects
  <2> QED  BY <1>5, <2>1, <2>2, <2>3 DEF Onward
<1>6. ASSUME NEW k \in DOMAIN q2, Accepts(q2, k, l2)  PROVE Has(cs, q2[k].id)
  BY <1>6, TakesAccepts DEF Known
<1>7. ASSUME NEW p \in Plcis, l2[p].st = "offered"
      PROVE  \/ Has(cs, l2[p].id)
             \/ \E k \in DOMAIN s2 : s2[k].type = "CONNECT_IND" /\ s2[k].id = l2[p].id
             \/ \E k \in DOMAIN q2 : Refuses(q2[k], p)
  <2>1. l[p].st = "offered" /\ l2[p].id = l[p].id
    BY <1>7 DEF Turn, Onward
  <2>2. ASSUME NEW k \in DOMAIN q, Refuses(q[k], p)  PROVE \E j \in DOMAIN q2 : Refuses(q2[j], p)
    <3>1. k \in Nat /\ d \in {0, 1} /\ k >= 1
      BY DEF Takes
    <3>2. ~(k > d) => k = 1 /\ d = 1
      BY <3>1
    <3>3. k > d
      BY <1>7, <2>2, <3>2 DEF Takes
    <3> QED  BY <2>2, <3>3 DEF Takes
  <2> QED  BY <1>1, <2>1, <2>2 DEF Known
<1> QED  BY <1>3, <1>4, <1>5, <1>6, <1>7 DEF Known

LEMMA TurnStored ==
    ASSUME NEW q \in Seq(FromProg), NEW q2 \in Seq(FromProg), NEW d, NEW m, NEW f,
           NEW l \in [Plcis -> Lines], NEW l2 \in [Plcis -> Lines], f \in [CallIds -> Seq(Blocks)],
           Turn(l, l2, m), Takes(q, q2, d, l, l2), Stored(q, l, f)
    PROVE  Stored(q2, l2, f)
<1> SUFFICES ASSUME NEW p \in Plcis, l2[p].id # 0
             PROVE  l2[p].sent - l2[p].unacked + Number(q2, DataResps(p)) <= Len(f[l2[p].id])
  BY DEF Stored
<1>1. l2[p].id = l[p].id /\ l[p] \in Lines /\ l2[p] \in Lines
  BY DEF Turn, Onward
<1> DEFINE a == l[p].sent
           b == l[p].unacked
           c == Number(q, DataResps(p))
           x == l2[p].sent
           y == l2[p].unacked
           z == Number(q2, DataResps(p))
           n == Len(f[l[p].id])
<1>2. a - b + c <= n
  BY <1>1 DEF Stored
<1>3. x - y + z <= a - b + c
  BY DEF Takes
<1>4. a \in Nat /\ b \in Nat /\ x \in Nat /\ y \in Nat
  BY <1>1, LineIn
<1>5. c \in Nat /\ z \in Nat
  BY NumberType
<1>6. n \in Nat
  <2>1. l[p].id \in CallIds
    BY <1>1, LineIn
  <2>2. f[l[p].id] \in Seq(Blocks)
    BY <2>1
  <2> QED  BY <2>2
<1>7. n = Len(f[l2[p].id])
  BY <1>1
<1> HIDE DEF a, b, c, x, y, z, n
<1>8. x - y + z <= n
  BY ONLY <1>2, <1>3, <1>4, <1>5, <1>6
<1> QED  BY <1>7, <1>8 DEF x, y, z

LEMMA TurnRight ==
    ASSUME NEW s \in Seq(FromBrick), NEW s2, NEW m \in Tellings \cup {NoMsg}, NEW up,
           NEW q \in Seq(FromProg), NEW q2, NEW d, NEW cs \in Seq(Records),
           NEW l \in [Plcis -> Lines], NEW l2 \in [Plcis -> Lines],
           Extends(s, s2, m), Turn(l, l2, m), Takes(q, q2, d, l, l2),
           Right(s, q, up, l, cs)
    PROVE  Right(s2, q2, up, l2, cs)
<1>1. ASSUME NEW p \in Plcis
      PROVE  /\ l2[p].id = l[p].id /\ l2[p].digits = l[p].digits + One(m \in Infos(p))
             /\ l2[p].digits \in Nat /\ l[p].digits \in Nat /\ One(m \in Infos(p)) \in Nat
             /\ Wanted(l[p]) => Wanted(l2[p])
  <2>1. l2[p].id = l[p].id /\ l2[p].right = l[p].right /\ l2[p].digits = l[p].digits + One(m \in Infos(p))
    BY DEF Turn, Onward
  <2>2. l2[p].digits \in Nat /\ l[p].digits \in Nat
    BY LineIn
  <2>3. One(m \in Infos(p)) \in Nat
    BY DEF One
  <2>4. l[p].digits >= Ncnt => l2[p].digits >= Ncnt
    BY <2>1, <2>2, <2>3, Bounds
  <2> QED  BY <2>1, <2>2, <2>3, <2>4 DEF Wanted
<1>2. ASSUME NEW p \in Plcis, l2[p].st \in OnLine  PROVE Wanted(l2[p])
  <2>1. CASE l[p].st \in OnLine
    BY <1>1, <2>1 DEF Right
  <2>2. CASE l[p].st \notin OnLine
    <3>1. 1 \in DOMAIN q /\ Accepts(q, 1, l) /\ q[1].plci = p
      BY <1>2, <2>2 DEF Takes
    <3> QED  BY <1>1, <3>1 DEF Right
  <2> QED  BY <2>1, <2>2
<1>3. ASSUME NEW k \in DOMAIN q2, Accepts(q2, k, l2)  PROVE Wanted(l2[q2[k].plci])
  BY <1>1, <1>3, TakesAccepts DEF Right
<1>4. ASSUME up, NEW k \in DOMAIN s2, s2[k].type \in {"CONNECT_IND", "INFO_IND"}, s2[k].arg = 1
      PROVE  l2[s2[k].plci].right
  <2>1. Live(s2[k]) /\ s2[k] \in FromBrick
    BY <1>4, Longer DEF Live, LiveTypes
  <2> DEFINE p == s2[k].plci
  <2>2. p \in Plcis
    BY <2>1, LiveIn
  <2>3. Onward(p, l[p], l2[p], m)
    BY <2>2 DEF Turn
  <2>4. l2[p].right = l[p].right
    BY <2>3 DEF Onward
  <2>5. CASE k \in DOMAIN s /\ s2[k] = s[k]
    BY <1>4, <2>4, <2>5 DEF Right
  <2>6. CASE s2[k] = m
    <3>1. Says(l[p], l2[p], m)
      BY <2>1, <2>3, <2>6 DEF Onward
    <3>2. m.type = "INFO_IND"
      BY <1>4, <2>6, <3>1 DEF Says
    <3> QED  BY <1>4, <2>4, <2>6, <3>1, <3>2 DEF Says
  <2> QED  BY <2>1, <2>5, <2>6, Longer
<1>5. ASSUME NEW p \in Plcis, l2[p].id # 0
      PROVE  /\ Number(s2, Infos(p)) <= l2[p].digits
             /\ \A k \in DOMAIN cs : cs[k].id = l2[p].id =>
                   cs[k].ncnt + Number(s2, Infos(p)) <= l2[p].digits
  <2> DEFINE a == Number(s, Infos(p))
             o == One(m \in Infos(p))
             g == l[p].digits
  <2>1. Number(s2, Infos(p)) = a + o
    BY DEF Extends
  <2>2. l2[p].digits = g + o /\ g \in Nat /\ o \in Nat /\ l2[p].id = l[p].id
    BY <1>1
  <2>3. a <= g /\ a \in Nat
    BY <1>5, <2>2, NumberType DEF Right
  <2>4. \A k \in DOMAIN cs : cs[k].ncnt \in Nat /\ (cs[k].id = l[p].id => cs[k].ncnt + a <= g)
    <3>1. \A k \in DOMAIN cs : cs[k].ncnt \in Nat
      BY Bounds DEF Records
    <3> QED  BY <1>5, <2>2, <3>1 DEF Right
  <2> HIDE DEF a, o, g
  <2>5. \A n \in Nat : n + a <= g => n + (a + o) <= g + o
    BY ONLY <2>2, <2>3
  <2>6. a + o <= g + o
    BY ONLY <2>2, <2>3
  <2> QED  BY <2>1, <2>2, <2>4, <2>5, <2>6
<1> QED  BY <1>2, <1>3, <1>4, <1>5 DEF Right

LEMMA TurnFiled ==
    ASSUME NEW s \in Seq(FromBrick), NEW s2, NEW m \in Tellings \cup {NoMsg}, NEW r \in Nat,
           NEW l \in [Plcis -> Lines], NEW l2 \in [Plcis -> Lines],
           NEW f \in [CallIds -> Seq(Blocks)],
           Extends(s, s2, m), Turn(l, l2, m), Filed(s, l, f, r)
    PROVE  Filed(s2, l2, f, r)
<1>1. ASSUME NEW j \in DOMAIN s, NEW i, NEW n, IsBlock(s, j, i, n)  PROVE IsBlock(s2, j, i, n)
  BY <1>1 DEF Extends, IsBlock
<1>2. ASSUME NEW p \in Plcis, l[p].id # 0
      PROVE  /\ l[p].sent \in Nat /\ Len(f[l[p].id]) \in Nat /\ l[p].sent >= Len(f[l[p].id])
             /\ l[p].sent = Len(f[l[p].id]) \/ \E j \in DOMAIN s : IsBlock(s, j, l[p].id, l[p].sent)
  <2>1. l[p].sent \in Nat /\ l[p].id \in CallIds
    BY <1>2, LineIn
  <2>2. f[l[p].id] \in Seq(Blocks)
    BY <2>1
  <2>3. Len(f[l[p].id]) \in Nat
    BY <2>2
  <2> QED  BY <1>2, <2>1, <2>3 DEF Filed
<1>3. ASSUME NEW k \in DOMAIN s2, s2[k].type = "DATAB3_IND"
      PROVE  /\ s2[k].arg > Len(f[s2[k].id])
             /\ s2[k].arg = Len(f[s2[k].id]) + 1 \/ \E j \in DOMAIN s2 : IsBlock(s2, j, s2[k].id, s2[k].arg - 1)
  <2>1. Live(s2[k])
    BY <1>3 DEF Live, LiveTypes
  <2>2. CASE k \in DOMAIN s /\ s2[k] = s[k]
    <3>1. /\ s[k].arg > Len(f[s[k].id])
          /\ s[k].arg = Len(f[s[k].id]) + 1 \/ \E j \in DOMAIN s : IsBlock(s, j, s[k].id, s[k].arg - 1)
      BY <1>3, <2>2 DEF Filed
    <3> QED  BY <1>1, <2>2, <3>1 DEF Extends
  <2>3. CASE s2[k] = m /\ m \in Tellings
    <3> DEFINE p == m.plci
    <3>1. p \in Plcis /\ Onward(p, l[p], l2[p], m)
      BY <2>3 DEF Tellings, Turn
    <3>2. Says(l[p], l2[p], m)
      BY <2>1, <2>3, <3>1 DEF Onward
    <3>3. m.id = l[p].id /\ m.id # 0 /\ m.arg = l[p].sent + 1
      BY <1>3, <2>3, <3>2 DEF Says
    <3> DEFINE a == l[p].sent
               n == Len(f[m.id])
    <3>4. /\ a \in Nat /\ n \in Nat /\ a >= n /\ m.arg = a + 1
          /\ a = n \/ \E j \in DOMAIN s : IsBlock(s, j, m.id, a)
      BY <1>2, <3>1, <3>3
    <3> HIDE DEF a, n
    <3>5. m.arg > n /\ m.arg - 1 = a /\ (a = n => m.arg = n + 1)
      BY ONLY <3>4
    <3>6. m.arg = n + 1 \/ \E j \in DOMAIN s2 : IsBlock(s2, j, m.id, m.arg - 1)
      BY <1>1, <3>4, <3>5 DEF Extends
    <3> QED  BY <2>3, <3>5, <3>6 DEF n
  <2> QED  BY <2>1, <2>2, <2>3, Longer
<1>4. ASSUME NEW p \in Plcis, l2[p].id # 0
      PROVE  \/ l2[p].sent = Len(f[l2[p].id])
             \/ l2[p].sent > Len(f[l2[p].id]) /\ \E j \in DOMAIN s2 : IsBlock(s2, j, l2[p].id, l2[p].sent)
  <2>1. l2[p].id = l[p].id /\ l2[p].sent = l[p].sent + One(m \in Datas(p)) /\ Onward(p, l[p], l2[p], m)
    BY DEF Turn, Onward
  <2>2. CASE m \notin Datas(p)
    <3>1. l2[p].sent = l[p].sent
      BY <1>2, <1>4, <2>1, <2>2 DEF One
    <3>2. \/ l[p].sent = Len(f[l[p].id])
          \/ l[p].sent > Len(f[l[p].id]) /\ \E j \in DOMAIN s : IsBlock(s, j, l[p].id, l[p].sent)
      BY <1>4, <2>1 DEF Filed
    <3> QED  BY <1>1, <2>1, <3>1, <3>2 DEF Extends
  <2>3. CASE m \in Datas(p)
    <3>1. m.type = "DATAB3_IND" /\ m.plci = p /\ Live(m)
      BY <2>3 DEF Datas, Live, LiveTypes
    <3>2. m.id = l[p].id /\ m.arg = l[p].sent + 1
      BY <2>1, <3>1 DEF Onward, Says
    <3>3. l2[p].sent = l[p].sent + 1
      BY <2>1, <2>3 DEF One
    <3>4. IsBlock(s2, Len(s2), l2[p].id, l2[p].sent) /\ Len(s2) \in DOMAIN s2
      BY <2>1, <3>1, <3>2, <3>3 DEF IsBlock, Extends
    <3>5. l2[p].sent > Len(f[l2[p].id])
      BY <1>2, <1>4, <2>1, <3>3
    <3> QED  BY <3>4, <3>5
  <2> QED  BY <2>2, <2>3
<1> QED  BY <1>3, <1>4 DEF Filed

LEMMA TurnAlive ==
    ASSUME NEW m, NEW q \in Seq(FromProg), NEW q2, NEW d, NEW cs \in Seq(Records), NEW l, NEW l2,
           Turn(l, l2, m), Takes(q, q2, d, l, l2), Alive(q, l, cs)
    PROVE  Alive(q2, l2, cs)
<1>1. ASSUME NEW k \in DOMAIN cs  PROVE l2[cs[k].plci].id = cs[k].id
  <2>1. cs[k].plci \in Plcis
    BY DEF Records
  <2> QED  BY <2>1 DEF Turn, Onward, Alive
<1>2. ASSUME NEW k \in DOMAIN q2, Closing(q2[k])  PROVE ~Has(cs, q2[k].id)
  <2>1. q2[k].type # "LISTEN_REQ"
    BY <1>2 DEF Closing
  <2> QED  BY <1>2, <2>1, TakesFacts DEF Alive
<1> QED  BY <1>1, <1>2 DEF Alive

\* All of it: a step of the brick or of the alarm clock.
LEMMA TurnWhole ==
    ASSUME NEW s \in Seq(FromBrick), NEW s2, NEW m \in Tellings \cup {NoMsg}, NEW up, NEW r \in Nat,
           NEW q \in Seq(FromProg), NEW q2 \in Seq(FromProg), NEW d, NEW cs \in Seq(Records),
           NEW l \in [Plcis -> Lines], NEW l2 \in [Plcis -> Lines],
           NEW f \in [CallIds -> Seq(Blocks)],
           Extends(s, s2, m), Turn(l, l2, m), Takes(q, q2, d, l, l2), Live(m) => up,
           ~up => q2 = q /\ l2 = l,
           Whole(s, q, up, l, cs, r, f)
    PROVE  /\ Whole(s2, q2, up, l2, cs, r, f)
           /\ Filed(s, l, f, r) => Filed(s2, l2, f, r)
           /\ Alive(q, l, cs) => Alive(q2, l2, cs)
<1>1. /\ Alone(up, q, l) /\ Told(s, up, l, r) /\ Ordered(s) /\ Numbered(s, l, cs, r)
      /\ Known(s, q, l, cs) /\ Replied(s, q, l) /\ Stored(q, l, f) /\ Right(s, q, up, l, cs)
  BY DEF Whole
<1>2. Alone(up, q2, l2)
  BY <1>1 DEF Alone
<1>3. Told(s2, up, l2, r)
  BY <1>1, TurnTold
<1>4. Ordered(s2)
  <2>1. Live(m) => Told(s, TRUE, l, r)
    BY <1>1 DEF Told
  <2> QED  BY <1>1, <2>1, TurnOrdered
<1>5. Numbered(s2, l2, cs, r)
  BY <1>1, TurnNumbered
<1>6. Known(s2, q2, l2, cs)
  BY <1>1, TurnKnown
<1>7. Replied(s2, q2, l2)
  BY <1>1, TurnReplied
<1>8. Stored(q2, l2, f)
  BY <1>1, TurnStored
<1>9. Right(s2, q2, up, l2, cs)
  BY <1>1, TurnRight
<1>10. Filed(s, l, f, r) => Filed(s2, l2, f, r)
  BY TurnFiled
<1>11. Alive(q, l, cs) => Alive(q2, l2, cs)
  BY TurnAlive
<1> QED  BY <1>2, <1>3, <1>4, <1>5, <1>6, <1>7, <1>8, <1>9, <1>10, <1>11 DEF Whole

--------------------------------------------------------------------------------
(* The end of a call *)

\* The program has answered that the call on line p is over, the line is free.
LEMMA OverWhole ==
    ASSUME NEW s \in Seq(FromBrick), NEW up, NEW r \in Nat,
           NEW q \in Seq(FromProg), q # <<>>, NEW cs \in Seq(Records),
           NEW l \in [Plcis -> Lines], NEW p \in Plcis,
           NEW f \in [CallIds -> Seq(Blocks)], up,
           Closing(Head(q)), Head(q).plci = p,
           Whole(s, q, up, l, cs, r, f)
    PROVE  /\ Whole(s, Tail(q), up, [l EXCEPT ![p] = Idle], cs, r, f)
           /\ Filed(s, l, f, r) => Filed(s, [l EXCEPT ![p] = Idle], f, r)
           /\ Alive(q, l, cs) => Alive(Tail(q), [l EXCEPT ![p] = Idle], cs)
<1> DEFINE l2 == [l EXCEPT ![p] = Idle]
           q2 == Tail(q)
<1>1. /\ Alone(up, q, l) /\ Told(s, up, l, r) /\ Ordered(s) /\ Numbered(s, l, cs, r)
      /\ Known(s, q, l, cs) /\ Replied(s, q, l) /\ Stored(q, l, f) /\ Right(s, q, up, l, cs)
  BY DEF Whole
<1>2. /\ l2[p] = Idle /\ Idle.id = 0 /\ Idle.st = "free"
      /\ \A o \in Plcis : o # p => l2[o] = l[o]
  BY DEF Idle
<1>3. /\ 1 \in DOMAIN q /\ q[1] = Head(q) /\ q2 \in Seq(FromProg)
      /\ \A k \in DOMAIN q2 : k + 1 \in DOMAIN q /\ q2[k] = q[k + 1] /\ k \in Nat /\ q2[k] \in FromProg
      /\ \A k \in DOMAIN q : k # 1 => k - 1 \in DOMAIN q2 /\ q2[k - 1] = q[k] /\ k \in Nat
  BY TailOf
<1>4. /\ l[p].st = "clearing"
      /\ \A j \in DOMAIN s : Live(s[j]) => s[j].plci # p
  BY <1>1, <1>3 DEF Replied
<1>5. \A k \in DOMAIN q2 : q2[k].type # "LISTEN_REQ" => q2[k].plci # p /\ q2[k].plci \in Plcis
  <2>1. ASSUME NEW k \in DOMAIN q2, q2[k].type # "LISTEN_REQ"  PROVE q2[k].plci # p /\ q2[k].plci \in Plcis
    <3>1. k + 1 \in DOMAIN q /\ q2[k] = q[k + 1] /\ 1 < k + 1 /\ k \in Nat /\ k >= 1
      BY <1>3
    <3>2. q2[k].plci # p
      BY <1>1, <1>3, <2>1, <3>1 DEF Replied
    <3> QED  BY <1>3, <2>1, <3>2, AnswerIn
  <2> QED  BY <2>1
<1>6. \A j \in DOMAIN s : Live(s[j]) => s[j].plci \in Plcis /\ l2[s[j].plci] = l[s[j].plci] /\ s[j] \in FromBrick
  <2>1. \A j \in DOMAIN s : s[j] \in FromBrick
    OBVIOUS
  <2> QED  BY <1>2, <1>4, <2>1, LiveIn
<1>7. \A k \in DOMAIN q2 : q2[k].type # "LISTEN_REQ" => l2[q2[k].plci] = l[q2[k].plci]
  BY <1>2, <1>5
<1> HIDE DEF l2, q2
<1>8. Alone(up, q2, l2)
  BY DEF Alone
<1>9. Told(s, up, l2, r)
  BY <1>1, <1>6 DEF Told
<1>10. Numbered(s, l2, cs, r)
  <2>1. \A o \in Plcis : l2[o].id = l[o].id \/ l2[o].id = 0
    BY <1>2
  <2>2. \A k \in DOMAIN cs : cs[k].id # 0
    BY DEF Records, CallIds
  <2>3. \A o \in Plcis : l2[o].id <= r
    BY <1>1, <2>1, SMTT(40), SMTT(41), ZenonT(30) DEF Numbered
  <2>4. \A n, o \in Plcis : l2[n].id = l2[o].id /\ l2[n].id # 0 => n = o
    BY <1>1, <2>1 DEF Numbered
  <2>5. \A k \in DOMAIN cs, o \in Plcis :
          /\ cs[k].id = l2[o].id => cs[k].plci = o
          /\ cs[k].plci = o /\ l2[o].id # 0 => cs[k].id <= l2[o].id
    BY <1>1, <2>1, <2>2 DEF Numbered
  <2>6. /\ \A k \in DOMAIN cs : cs[k].id <= r
        /\ \A j, k \in DOMAIN cs : j < k /\ cs[j].plci = cs[k].plci => cs[j].id > cs[k].id
        /\ \A k \in DOMAIN cs, j \in DOMAIN s : Live(s[j]) =>
              /\ cs[k].id = s[j].id => cs[k].plci = s[j].plci /\ s[j].type # "CONNECT_IND"
              /\ cs[k].plci = s[j].plci => cs[k].id <= s[j].id
    BY <1>1 DEF Numbered
  <2> QED  BY <2>3, <2>4, <2>5, <2>6 DEF Numbered
<1>11. \A k \in DOMAIN q2 : Accepts(q2, k, l2) => k + 1 \in DOMAIN q /\ q2[k] = q[k + 1] /\ Accepts(q, k + 1, l)
  <2> SUFFICES ASSUME NEW k \in DOMAIN q2, Accepts(q2, k, l2)
               PROVE  k + 1 \in DOMAIN q /\ q2[k] = q[k + 1] /\ Accepts(q, k + 1, l)
    OBVIOUS
  <2>1. q2[k].type # "LISTEN_REQ"
    BY DEF Accepts
  <2>2. k + 1 \in DOMAIN q /\ q2[k] = q[k + 1] /\ k \in Nat /\ l2[q2[k].plci] = l[q2[k].plci]
    BY <1>3, <1>7, <2>1
  <2>3. ASSUME NEW j \in DOMAIN q, j < k + 1  PROVE ~Refuses(q[j], q2[k].plci)
    <3>1. CASE j = 1
      BY <1>3, <3>1 DEF Refuses, Closing
    <3>2. CASE j # 1
      <4>1. j - 1 \in DOMAIN q2 /\ q2[j - 1] = q[j] /\ j - 1 < k
        BY <1>3, <2>2, <2>3, <3>2
      <4> QED  BY <4>1 DEF Accepts
    <3> QED  BY <3>1, <3>2
  <2> QED  BY <2>2, <2>3 DEF Accepts
<1>12. Known(s, q2, l2, cs)
  <2>1. \A o \in Plcis : l2[o].st \in OnLine \cup {"offered"} => l2[o] = l[o] /\ o # p
    BY <1>2 DEF OnLine
  <2>2. /\ \A k \in DOMAIN s : /\ s[k].type \in NcciTypes \cup {"CONNECTACTIVE_IND"} => Has(cs, s[k].id)
                               /\ s[k].type \in B3Types => Joined(s, cs, s[k].id)
        /\ \A o \in Plcis : /\ l2[o].st \in OnLine => Has(cs, l2[o].id)
                            /\ l2[o].st \in OnB3 => Joined(s, cs, l2[o].id)
    <3>1. OnB3 \subseteq OnLine
      BY DEF OnLine, OnB3
    <3> QED  BY <1>1, <2>1, <3>1 DEF Known
  <2>3. \A k \in DOMAIN q2 : Accepts(q2, k, l2) => Has(cs, q2[k].id)
    BY <1>1, <1>11 DEF Known
  <2>4. ASSUME NEW o \in Plcis, l2[o].st = "offered"
        PROVE  \/ Has(cs, l2[o].id)
               \/ \E k \in DOMAIN s : s[k].type = "CONNECT_IND" /\ s[k].id = l2[o].id
               \/ \E k \in DOMAIN q2 : Refuses(q2[k], o)
    <3>1. l2[o] = l[o]
      BY <2>1, <2>4
    <3>2. ASSUME NEW k \in DOMAIN q, Refuses(q[k], o)  PROVE \E j \in DOMAIN q2 : Refuses(q2[j], o)
      <4>1. k # 1
        BY <1>3, <3>2 DEF Refuses, Closing
      <4> QED  BY <1>3, <3>2, <4>1
    <3> QED  BY <1>1, <2>4, <3>1, <3>2 DEF Known
  <2> QED  BY <2>2, <2>3, <2>4 DEF Known
<1>13. Replied(s, q2, l2)
  <2>1. ASSUME NEW k \in DOMAIN q2, q2[k].type # "LISTEN_REQ"  PROVE l2[q2[k].plci].id = q2[k].id
    <3>1. k + 1 \in DOMAIN q /\ q2[k] = q[k + 1] /\ l2[q2[k].plci] = l[q2[k].plci]
      BY <1>3, <1>7, <2>1
    <3> QED  BY <1>1, <2>1, <3>1 DEF Replied
  <2>2. ASSUME NEW j \in DOMAIN q2, NEW k \in DOMAIN q2, j < k, Closing(q2[j]), q2[k].type # "LISTEN_REQ"
        PROVE  q2[j].plci # q2[k].plci
    <3>1. /\ j + 1 \in DOMAIN q /\ q2[j] = q[j + 1] /\ j \in Nat
          /\ k + 1 \in DOMAIN q /\ q2[k] = q[k + 1] /\ k \in Nat
      BY <1>3
    <3>2. j + 1 < k + 1
      BY <2>2, <3>1
    <3> QED  BY <1>1, <2>2, <3>1, <3>2 DEF Replied
  <2>3. ASSUME NEW k \in DOMAIN q2, Closing(q2[k])
        PROVE  /\ l2[q2[k].plci].st = "clearing"
               /\ \A j \in DOMAIN s : Live(s[j]) => s[j].plci # q2[k].plci
    <3>1. q2[k].type # "LISTEN_REQ"
      BY <2>3 DEF Closing
    <3>2. k + 1 \in DOMAIN q /\ q2[k] = q[k + 1] /\ l2[q2[k].plci] = l[q2[k].plci]
      BY <1>3, <1>7, <3>1
    <3> QED  BY <1>1, <2>3, <3>2 DEF Replied
  <2> QED  BY <2>1, <2>2, <2>3 DEF Replied
<1>14. Stored(q2, l2, f)
  <2> SUFFICES ASSUME NEW o \in Plcis, l2[o].id # 0
               PROVE  l2[o].sent - l2[o].unacked + Number(q2, DataResps(o)) <= Len(f[l2[o].id])
    BY DEF Stored
  <2>1. l2[o] = l[o]
    BY <1>2
  <2>2. Head(q) \notin DataResps(o)
    BY DEF DataResps, Closing
  <2>3. Number(q, DataResps(o)) = 0 + Number(q2, DataResps(o))
    BY <2>2, NumberTail DEF One, q2
  <2>4. Number(q2, DataResps(o)) \in Nat
    BY <1>3, NumberType
  <2>5. Number(q, DataResps(o)) = Number(q2, DataResps(o))
    BY <2>3, <2>4
  <2> QED  BY <1>1, <2>1, <2>5 DEF Stored
<1>15. Right(s, q2, up, l2, cs)
  <2>1. \A o \in Plcis : l2[o].id # 0 => l2[o] = l[o]
    BY <1>2
  <2>2. \A o \in Plcis : l2[o].st \in OnLine => l2[o] = l[o]
    BY <1>2 DEF OnLine
  <2>3. \A k \in DOMAIN q2 : Accepts(q2, k, l2) => Wanted(l2[q2[k].plci])
    <3>1. \A k \in DOMAIN q2 : Accepts(q2, k, l2) => l2[q2[k].plci] = l[q2[k].plci]
      BY <1>7 DEF Accepts
    <3> QED  BY <1>1, <1>11, <3>1 DEF Right
  <2>4. \A k \in DOMAIN s : s[k].type \in {"CONNECT_IND", "INFO_IND"} => Live(s[k])
    BY DEF Live, LiveTypes
  <2>5. \A k \in DOMAIN s : s[k].type \in {"CONNECT_IND", "INFO_IND"} /\ s[k].arg = 1 => l2[s[k].plci].right
    BY <1>1, <1>6, <2>4 DEF Right
  <2>6. \A o \in Plcis : l2[o].st \in OnLine => Wanted(l2[o])
    BY <1>1, <2>2 DEF Right
  <2>7. \A o \in Plcis : l2[o].id # 0 =>
          /\ Number(s, Infos(o)) <= l2[o].digits
          /\ \A k \in DOMAIN cs : cs[k].id = l2[o].id =>
                cs[k].ncnt + Number(s, Infos(o)) <= l2[o].digits
    BY <1>1, <2>1 DEF Right
  <2> QED  BY <2>3, <2>5, <2>6, <2>7 DEF Right
<1>16. Filed(s, l, f, r) => Filed(s, l2, f, r)
  <2>1. \A o \in Plcis : l2[o].id # 0 => l2[o] = l[o]
    BY <1>2
  <2> QED  BY <2>1 DEF Filed
<1>17. Alive(q, l, cs) => Alive(q2, l2, cs)
  <2> SUFFICES ASSUME Alive(q, l, cs)  PROVE Alive(q2, l2, cs)
    OBVIOUS
  <2>1. ASSUME NEW k \in DOMAIN cs  PROVE l2[cs[k].plci].id = cs[k].id
    <3>1. cs[k].plci \in Plcis /\ l[cs[k].plci].id = cs[k].id
      BY DEF Records, Alive
    <3>2. cs[k].plci # p
      <4>1. ~Has(cs, q[1].id) /\ q[1].type # "LISTEN_REQ"
        BY <1>3 DEF Alive, Closing
      <4>2. l[p].id = q[1].id
        BY <1>1, <1>3, <4>1 DEF Replied
      <4> QED  BY <3>1, <4>1, <4>2 DEF Has
    <3> QED  BY <1>2, <3>1, <3>2
  <2>2. \A k \in DOMAIN q2 : Closing(q2[k]) => ~Has(cs, q2[k].id)
    BY <1>3 DEF Alive
  <2> QED  BY <2>1, <2>2 DEF Alive
<1>18. Whole(s, q2, up, l2, cs, r, f)
  BY <1>1, <1>8, <1>9, <1>10, <1>12, <1>13, <1>14, <1>15 DEF Whole
<1> QED  BY <1>16, <1>17, <1>18 DEF l2, q2

--------------------------------------------------------------------------------
(* A call comes in *)

\* m offers call r + 1 on line p, which was free.
Offered(m, p, l, l2, r) ==
    /\ m.type = "CONNECT_IND" /\ m.plci = p /\ m.id = r + 1 /\ r + 1 \in CallIds
    /\ l[p].st = "free" /\ \A o \in Plcis : o # p => l2[o] = l[o]
    /\ l2[p].st = "offered" /\ l2[p].id = r + 1 /\ l2[p].sent = 0 /\ l2[p].unacked = 0
    /\ l2[p].digits = 0 /\ (m.arg = 1 => l2[p].right)

LEMMA RingWhole ==
    ASSUME NEW s \in Seq(FromBrick), NEW s2, NEW m \in Tellings, NEW up, up, NEW r \in Nat,
           NEW q \in Seq(FromProg), NEW cs \in Seq(Records),
           NEW l \in [Plcis -> Lines], NEW l2 \in [Plcis -> Lines], NEW p \in Plcis,
           NEW f \in [CallIds -> Seq(Blocks)],
           Extends(s, s2, m), Offered(m, p, l, l2, r), Whole(s, q, up, l, cs, r, f)
    PROVE  /\ Whole(s2, q, up, l2, cs, r + 1, f)
           /\ Filed(s, l, f, r) => Filed(s2, l2, f, r + 1)
           /\ Alive(q, l, cs) => Alive(q, l2, cs)
<1>0. /\ m.type = "CONNECT_IND" /\ m.plci = p /\ m.id = r + 1 /\ r + 1 \in CallIds
      /\ l[p].st = "free" /\ \A o \in Plcis : o # p => l2[o] = l[o]
      /\ l2[p].st = "offered" /\ l2[p].id = r + 1 /\ l2[p].sent = 0 /\ l2[p].unacked = 0
      /\ l2[p].digits = 0 /\ (m.arg = 1 => l2[p].right)
  BY DEF Offered
<1> USE <1>0
<1>1. /\ Alone(up, q, l) /\ Told(s, up, l, r) /\ Ordered(s) /\ Numbered(s, l, cs, r)
      /\ Known(s, q, l, cs) /\ Replied(s, q, l) /\ Stored(q, l, f) /\ Right(s, q, up, l, cs)
  BY DEF Whole
<1>2. l[p].id = 0 /\ m \in FromBrick /\ Live(m)
  BY LineIn DEF FromBrick, Tellings, Live
<1>3. \A k \in DOMAIN s : Live(s[k]) => /\ s[k].id <= r /\ s[k].id # r + 1 /\ s[k].id \in Nat
                                        /\ s[k].plci \in Plcis /\ s[k].plci # p
                                        /\ l2[s[k].plci] = l[s[k].plci]
  <2>1. ASSUME NEW k \in DOMAIN s, Live(s[k])
        PROVE  /\ s[k].id <= r /\ s[k].id # r + 1 /\ s[k].id \in Nat
               /\ s[k].plci \in Plcis /\ s[k].plci # p /\ l2[s[k].plci] = l[s[k].plci]
    <3>1. s[k] \in FromBrick
      OBVIOUS
    <3>2. s[k].plci \in Plcis /\ s[k].id \in Nat /\ s[k].id # 0
      BY <2>1, <3>1, LiveIn
    <3>3. s[k].id <= r /\ l[s[k].plci].id = s[k].id
      BY <1>1, <2>1 DEF Told
    <3> QED  BY <1>2, <3>2, <3>3
  <2> QED  BY <2>1
<1>4. \A k \in DOMAIN s2 : /\ k \in Nat
                           /\ Live(s2[k]) => \/ k \in DOMAIN s /\ s2[k] = s[k]
                                             \/ k = Len(s2) /\ Len(s) < k /\ s2[k] = m
  BY Longer
<1>5. /\ \A k \in DOMAIN s : k \in DOMAIN s2 /\ s2[k] = s[k]
      /\ Len(s2) \in DOMAIN s2 /\ s2[Len(s2)] = m
  BY <1>2 DEF Extends
<1>6. \A k \in DOMAIN q : q[k].type # "LISTEN_REQ" =>
          /\ q[k].plci \in Plcis /\ q[k].plci # p /\ l2[q[k].plci] = l[q[k].plci]
          /\ l[q[k].plci].id = q[k].id
  <2>1. ASSUME NEW k \in DOMAIN q, q[k].type # "LISTEN_REQ"
        PROVE  /\ q[k].plci \in Plcis /\ q[k].plci # p /\ l2[q[k].plci] = l[q[k].plci]
               /\ l[q[k].plci].id = q[k].id
    <3>1. q[k].plci \in Plcis /\ q[k].id # 0
      BY <2>1, AnswerIn
    <3>2. l[q[k].plci].id = q[k].id
      BY <1>1, <2>1 DEF Replied
    <3> QED  BY <1>2, <3>1, <3>2
  <2> QED  BY <2>1
<1>7. \A k \in DOMAIN cs : cs[k].id \in Nat /\ cs[k].id <= r /\ cs[k].id # r + 1 /\ cs[k].plci \in Plcis
  <2>1. ASSUME NEW k \in DOMAIN cs
        PROVE  cs[k].id \in Nat /\ cs[k].id <= r /\ cs[k].plci \in Plcis
    <3>1. cs[k] \in Records
      OBVIOUS
    <3>2. cs[k].id \in Nat /\ cs[k].plci \in Plcis
      BY <3>1 DEF Records, CallIds
    <3>3. cs[k].id <= r
      BY <1>1 DEF Numbered
    <3> QED  BY <3>2, <3>3
  <2> QED  BY <2>1
<1>8. \A o \in Plcis : l[o].id \in Nat /\ l[o].id <= r /\ l[o].id # r + 1
  <2>1. \A o \in Plcis : l[o].id \in Nat /\ l[o].id <= r
    BY <1>1, LineIn DEF Numbered
  <2> QED  BY <2>1
<1>9. Alone(up, q, l2)
  BY DEF Alone
<1>10. Told(s2, up, l2, r + 1)
  <2>1. ASSUME NEW k \in DOMAIN s, Live(s[k])
        PROVE  /\ s[k].id <= r + 1 /\ l2[s[k].plci].id = s[k].id
               /\ s[k].type \in Sayable(l2[s[k].plci].st)
               /\ s[k].type = "DATAB3_IND" => s[k].arg <= l2[s[k].plci].sent
    BY <1>1, <1>3, <2>1 DEF Told
  <2>2. /\ m.id <= r + 1 /\ l2[p].id = m.id /\ m.type \in Sayable(l2[p].st)
        /\ m.type # "DATAB3_IND"
    BY DEF Sayable
  <2> QED  BY <1>4, <2>1, <2>2, SMTT(40), SMTT(41), ZenonT(30) DEF Told
<1>11. Ordered(s2)
  <2> SUFFICES ASSUME NEW j \in DOMAIN s2, NEW k \in DOMAIN s2, j < k, Live(s2[j]), Live(s2[k])
               PROVE  Before(s2[j], s2[k])
    BY DEF Ordered
  <2>1. j \in Nat /\ k \in Nat /\ Len(s2) \in Nat /\ Len(s) \in Nat /\ \A i \in DOMAIN s : i <= Len(s)
    BY <1>4 DEF Extends
  <2>2. CASE k \in DOMAIN s /\ s2[k] = s[k]
    <3>1. j \in DOMAIN s /\ s2[j] = s[j]
      <4>1. ASSUME Len(s) < j  PROVE FALSE
        BY <2>1, <2>2, <4>1
      <4> QED  BY <1>4, <4>1
    <3> QED  BY <1>1, <2>2, <3>1 DEF Ordered
  <2>3. CASE k = Len(s2) /\ s2[k] = m
    <3>1. j \in DOMAIN s /\ s2[j] = s[j]
      <4>1. j # Len(s2)
        BY <2>1, <2>3
      <4> QED  BY <1>4, <4>1
    <3>2. s[j].id # m.id /\ s[j].plci # m.plci
      BY <1>3, <3>1
    <3> QED  BY <2>3, <3>1, <3>2 DEF Before
  <2> QED  BY <1>4, <2>2, <2>3
<1>12. Numbered(s2, l2, cs, r + 1)
  <2>1. \A o \in Plcis : l2[o].id <= r + 1
    <3>1. ASSUME NEW o \in Plcis  PROVE l2[o].id <= r + 1
      <4>1. CASE o = p
        BY <4>1
      <4>2. CASE o # p
        <5>1. l2[o].id = l[o].id
          BY <4>2
        <5> QED  BY <1>8, <5>1
      <4> QED  BY <4>1, <4>2
    <3> QED  BY <3>1
  <2>2. ASSUME NEW n \in Plcis, NEW o \in Plcis, l2[n].id = l2[o].id, l2[n].id # 0  PROVE n = o
    <3>1. CASE n = p \/ o = p
      BY <1>8, <2>2, <3>1
    <3>2. CASE n # p /\ o # p
      <4>1. l[n].id = l[o].id /\ l[n].id # 0
        BY <2>2, <3>2
      <4> QED  BY <1>1, <4>1 DEF Numbered
    <3> QED  BY <3>1, <3>2
  <2>3. \A k \in DOMAIN cs : cs[k].id <= r + 1
    BY <1>7
  <2>4. \A k \in DOMAIN cs, o \in Plcis :
          /\ cs[k].id = l2[o].id => cs[k].plci = o
          /\ cs[k].plci = o /\ l2[o].id # 0 => cs[k].id <= l2[o].id
    <3>1. ASSUME NEW k \in DOMAIN cs, NEW o \in Plcis
          PROVE  /\ cs[k].id = l2[o].id => cs[k].plci = o
                 /\ cs[k].plci = o /\ l2[o].id # 0 => cs[k].id <= l2[o].id
      <4>1. CASE o = p
        BY <1>7, <4>1
      <4>2. CASE o # p
        BY <1>1, <4>2 DEF Numbered
      <4> QED  BY <4>1, <4>2
    <3> QED  BY <3>1
  <2>5. ASSUME NEW k \in DOMAIN cs, NEW j \in DOMAIN s2, Live(s2[j])
        PROVE  /\ cs[k].id = s2[j].id => cs[k].plci = s2[j].plci /\ s2[j].type # "CONNECT_IND"
               /\ cs[k].plci = s2[j].plci => cs[k].id <= s2[j].id
    <3>1. CASE j \in DOMAIN s /\ s2[j] = s[j]
      BY <1>1, <2>5, <3>1 DEF Numbered
    <3>2. CASE s2[j] = m
      BY <1>7, <3>2
    <3> QED  BY <1>4, <2>5, <3>1, <3>2
  <2>6. \A j, k \in DOMAIN cs : j < k /\ cs[j].plci = cs[k].plci => cs[j].id > cs[k].id
    BY <1>1 DEF Numbered
  <2> QED  BY <2>1, <2>2, <2>3, <2>4, <2>5, <2>6 DEF Numbered
<1>13. \A k \in DOMAIN q : Accepts(q, k, l2) => Accepts(q, k, l) /\ l2[q[k].plci] = l[q[k].plci]
  BY <1>6 DEF Accepts
<1>14. Known(s2, q, l2, cs)
  <2>1. \A i : Joined(s, cs, i) => Joined(s2, cs, i)
    BY <1>5 DEF Joined, Expects
  <2>2. ASSUME NEW k \in DOMAIN s2
        PROVE  /\ s2[k].type \in NcciTypes \cup {"CONNECTACTIVE_IND"} => Has(cs, s2[k].id)
               /\ s2[k].type \in B3Types => Joined(s2, cs, s2[k].id)
    <3>1. s2[k].type \in NcciTypes \cup {"CONNECTACTIVE_IND"} => Live(s2[k])
      BY DEF Live, LiveTypes, NcciTypes
    <3>2. s2[k].type \in B3Types => s2[k].type \in NcciTypes
      BY DEF B3Types
    <3>3. CASE k \in DOMAIN s /\ s2[k] = s[k]
      BY <1>1, <2>1, <3>3 DEF Known
    <3>4. CASE s2[k] = m
      BY <3>4 DEF NcciTypes, B3Types
    <3> QED  BY <1>4, <3>1, <3>2, <3>3, <3>4
  <2>3. \A o \in Plcis : l2[o].st \in OnLine \cup OnB3 => l2[o] = l[o]
    BY DEF OnLine, OnB3
  <2>4. \A o \in Plcis : /\ l2[o].st \in OnLine => Has(cs, l2[o].id)
                         /\ l2[o].st \in OnB3 => Joined(s2, cs, l2[o].id)
    BY <1>1, <2>1, <2>3 DEF Known
  <2>5. \A k \in DOMAIN q : Accepts(q, k, l2) => Has(cs, q[k].id)
    BY <1>1, <1>13 DEF Known
  <2>6. ASSUME NEW o \in Plcis, l2[o].st = "offered"
        PROVE  \/ Has(cs, l2[o].id)
               \/ \E k \in DOMAIN s2 : s2[k].type = "CONNECT_IND" /\ s2[k].id = l2[o].id
               \/ \E k \in DOMAIN q : Refuses(q[k], o)
    <3>1. CASE o = p
      BY <1>5, <3>1
    <3>2. CASE o # p
      <4>1. l2[o] = l[o] /\ l[o].st = "offered"
        BY <2>6, <3>2
      <4>2. \/ Has(cs, l[o].id)
            \/ \E k \in DOMAIN s : s[k].type = "CONNECT_IND" /\ s[k].id = l[o].id
            \/ \E k \in DOMAIN q : Refuses(q[k], o)
        BY <1>1, <4>1 DEF Known
      <4> QED  BY <1>5, <4>1, <4>2
    <3> QED  BY <3>1, <3>2
  <2> QED  BY <2>2, <2>4, <2>5, <2>6 DEF Known
<1>15. Replied(s2, q, l2)
  <2>1. \A k \in DOMAIN q : q[k].type # "LISTEN_REQ" => l2[q[k].plci].id = q[k].id
    BY <1>6
  <2>2. \A j, k \in DOMAIN q : j < k /\ Closing(q[j]) /\ q[k].type # "LISTEN_REQ" => q[j].plci # q[k].plci
    BY <1>1 DEF Replied
  <2>3. ASSUME NEW k \in DOMAIN q, Closing(q[k])
        PROVE  /\ l2[q[k].plci].st = "clearing"
               /\ \A j \in DOMAIN s2 : Live(s2[j]) => s2[j].plci # q[k].plci
    <3>1. q[k].type # "LISTEN_REQ"
      BY <2>3 DEF Closing
    <3>2. l[q[k].plci].st = "clearing" /\ \A j \in DOMAIN s : Live(s[j]) => s[j].plci # q[k].plci
      BY <1>1, <2>3 DEF Replied
    <3> QED  BY <1>4, <1>6, <3>1, <3>2
  <2> QED  BY <2>1, <2>2, <2>3 DEF Replied
<1>16. Stored(q, l2, f)
  <2> SUFFICES ASSUME NEW o \in Plcis, l2[o].id # 0
               PROVE  l2[o].sent - l2[o].unacked + Number(q, DataResps(o)) <= Len(f[l2[o].id])
    BY DEF Stored
  <2>1. CASE o = p
    <3>1. \A k \in DOMAIN q : q[k] \notin DataResps(p)
      BY <1>6 DEF DataResps
    <3>2. Number(q, DataResps(p)) = 0
      BY <3>1, NumberType
    <3>3. f[r + 1] \in Seq(Blocks)
      OBVIOUS
    <3>4. Len(f[r + 1]) \in Nat
      BY <3>3
    <3> QED  BY <2>1, <3>2, <3>4
  <2>2. CASE o # p
    BY <1>1, <2>2 DEF Stored
  <2> QED  BY <2>1, <2>2
<1>17. m \notin Infos(p) /\ \A o \in Plcis : Number(s2, Infos(o)) = Number(s, Infos(o))
  <2>1. \A o : m \notin Infos(o)
    BY DEF Infos
  <2>2. \A o : Number(s, Infos(o)) \in Nat
    BY NumberType
  <2> QED  BY <2>1, <2>2 DEF Extends, One
<1>18. Right(s2, q, up, l2, cs)
  <2>1. \A o \in Plcis : l2[o].st \in OnLine => l2[o] = l[o]
    BY DEF OnLine
  <2>2. \A o \in Plcis : l2[o].st \in OnLine => Wanted(l2[o])
    BY <1>1, <2>1 DEF Right
  <2>3. \A k \in DOMAIN q : Accepts(q, k, l2) => Wanted(l2[q[k].plci])
    BY <1>1, <1>13 DEF Right
  <2>4. ASSUME NEW k \in DOMAIN s2, s2[k].type \in {"CONNECT_IND", "INFO_IND"}, s2[k].arg = 1
        PROVE  l2[s2[k].plci].right
    <3>1. Live(s2[k])
      BY <2>4 DEF Live, LiveTypes
    <3>2. CASE k \in DOMAIN s /\ s2[k] = s[k]
      BY <1>1, <1>3, <2>4, <3>1, <3>2 DEF Right
    <3>3. CASE s2[k] = m
      BY <2>4, <3>3
    <3> QED  BY <1>4, <3>1, <3>2, <3>3
  <2>5. ASSUME NEW o \in Plcis, l2[o].id # 0
        PROVE  /\ Number(s2, Infos(o)) <= l2[o].digits
               /\ \A k \in DOMAIN cs : cs[k].id = l2[o].id =>
                     cs[k].ncnt + Number(s2, Infos(o)) <= l2[o].digits
    <3>1. CASE o = p
      <4>1. \A k \in DOMAIN s : s[k] \notin Infos(p)
        BY <1>3 DEF Infos, Live, LiveTypes
      <4>2. Number(s2, Infos(p)) = 0
        BY <1>17, <4>1, NumberType
      <4> QED  BY <1>7, <3>1, <4>2
    <3>2. CASE o # p
      BY <1>1, <1>17, <2>5, <3>2 DEF Right
    <3> QED  BY <3>1, <3>2
  <2> QED  BY <2>2, <2>3, <2>4, <2>5 DEF Right
<1>19. Filed(s, l, f, r) => Filed(s2, l2, f, r + 1)
  <2> SUFFICES ASSUME Filed(s, l, f, r)  PROVE Filed(s2, l2, f, r + 1)
    OBVIOUS
  <2>1. \A j \in DOMAIN s : \A i, n : IsBlock(s, j, i, n) => j \in DOMAIN s2 /\ IsBlock(s2, j, i, n)
    BY <1>5 DEF IsBlock
  <2>2. \A i \in CallIds : i > r + 1 => f[i] = <<>>
    <3>1. \A i \in CallIds : i > r + 1 => i > r
      BY DEF CallIds
    <3> QED  BY <3>1 DEF Filed
  <2>3. f[r + 1] = <<>>
    <3>1. r + 1 > r
      OBVIOUS
    <3> QED  BY <3>1 DEF Filed
  <2>4. ASSUME NEW k \in DOMAIN s2, s2[k].type = "DATAB3_IND"
        PROVE  /\ s2[k].arg > Len(f[s2[k].id])
               /\ s2[k].arg = Len(f[s2[k].id]) + 1 \/ \E j \in DOMAIN s2 : IsBlock(s2, j, s2[k].id, s2[k].arg - 1)
    <3>1. Live(s2[k])
      BY <2>4 DEF Live, LiveTypes
    <3>2. k \in DOMAIN s /\ s2[k] = s[k]
      BY <1>4, <2>4, <3>1
    <3> QED  BY <2>1, <2>4, <3>2 DEF Filed
  <2>5. ASSUME NEW o \in Plcis, l2[o].id # 0
        PROVE  \/ l2[o].sent = Len(f[l2[o].id])
               \/ l2[o].sent > Len(f[l2[o].id]) /\ \E j \in DOMAIN s2 : IsBlock(s2, j, l2[o].id, l2[o].sent)
    <3>1. CASE o = p
      BY <2>3, <3>1
    <3>2. CASE o # p
      BY <2>1, <2>5, <3>2, SMTT(40), SMTT(41), ZenonT(30) DEF Filed
    <3> QED  BY <3>1, <3>2
  <2>6. \A i \in CallIds : \A n \in DOMAIN f[i] : f[i][n] = [id |-> i, block |-> n, took |-> "whole"]
    BY DEF Filed
  <2> QED  BY <2>2, <2>4, <2>5, <2>6 DEF Filed
<1>20. Alive(q, l, cs) => Alive(q, l2, cs)
  <2>1. ASSUME Alive(q, l, cs), NEW k \in DOMAIN cs  PROVE l2[cs[k].plci].id = cs[k].id
    <3>1. l[cs[k].plci].id = cs[k].id /\ cs[k].id # 0
      BY <2>1 DEF Alive, Records, CallIds
    <3> QED  BY <1>2, <1>7, <3>1
  <2> QED  BY <2>1 DEF Alive
<1>21. Whole(s2, q, up, l2, cs, r + 1, f)
  BY <1>9, <1>10, <1>11, <1>12, <1>14, <1>15, <1>16, <1>18 DEF Whole
<1> QED  BY <1>19, <1>20, <1>21

--------------------------------------------------------------------------------
(* The brick is rebooted, the program registers *)

LEMMA GoneWhole ==
    ASSUME NEW s, NEW up, NEW r \in Nat, NEW q, NEW cs \in Seq(Records), NEW l, NEW f,
           Whole(s, q, up, l, cs, r, f)
    PROVE  /\ Whole(s, <<>>, FALSE, [p \in Plcis |-> Idle], cs, r, f)
           /\ Filed(s, l, f, r) => Filed(s, [p \in Plcis |-> Idle], f, r)
<1> DEFINE l2 == [p \in Plcis |-> Idle]
<1>1. /\ Told(s, up, l, r) /\ Ordered(s) /\ Numbered(s, l, cs, r) /\ Known(s, q, l, cs)
  BY DEF Whole
<1>2. \A p \in Plcis : l2[p].id = 0 /\ l2[p].st = "free"
  BY DEF Idle
<1>3. l2 = [p \in Plcis |-> Idle]
  OBVIOUS
<1> HIDE DEF l2
<1>4. Alone(FALSE, <<>>, l2)
  BY <1>3 DEF Alone
<1>5. Told(s, FALSE, l2, r)
  BY <1>1 DEF Told
<1>6. Numbered(s, l2, cs, r)
  <2>1. \A p \in Plcis : l2[p].id <= r
    BY <1>2
  <2>2. \A k \in DOMAIN cs : cs[k].id # 0
    BY DEF Records, CallIds
  <2> QED  BY <1>1, <1>2, <2>1, <2>2 DEF Numbered
<1>7. Known(s, <<>>, l2, cs)
  BY <1>1, <1>2 DEF Known, OnLine, OnB3
<1>8. Replied(s, <<>>, l2) /\ Stored(<<>>, l2, f) /\ Right(s, <<>>, FALSE, l2, cs)
  BY <1>2 DEF Replied, Stored, Right, OnLine
<1>9. Filed(s, l, f, r) => Filed(s, l2, f, r)
  BY <1>2 DEF Filed
<1> QED  BY <1>1, <1>3, <1>4, <1>5, <1>6, <1>7, <1>8, <1>9 DEF Whole

LEMMA FreshWhole ==
    ASSUME NEW s, NEW r \in Nat, NEW q, NEW cs \in Seq(Records), NEW l, NEW f,
           Whole(s, q, FALSE, l, cs, r, f)
    PROVE  /\ Whole(<<>>, <<Listen>>, TRUE, l, cs, r, f)
           /\ Filed(s, l, f, r) => Filed(<<>>, l, f, r)
           /\ Alive(<<Listen>>, l, <<>>)
<1>1. l = [p \in Plcis |-> Idle]
  BY DEF Whole, Alone
<1>2. \A p \in Plcis : l[p].id = 0 /\ l[p].st = "free"
  BY <1>1 DEF Idle
<1>3. <<Listen>>[1] = Listen /\ DOMAIN <<Listen>> = {1} /\ Listen.type = "LISTEN_REQ"
  BY DEF Listen, NoMsg
<1>4. Told(<<>>, TRUE, l, r) /\ Ordered(<<>>)
  BY DEF Told, Ordered
<1>5. Numbered(s, l, cs, r)
  BY DEF Whole
<1>6. Numbered(<<>>, l, cs, r)
  BY <1>5 DEF Numbered
<1>7. Known(<<>>, <<Listen>>, l, cs)
  BY <1>2, <1>3 DEF Known, OnLine, OnB3, Accepts
<1>8. Replied(<<>>, <<Listen>>, l) /\ Stored(<<Listen>>, l, f) /\ Alone(TRUE, <<Listen>>, l)
  BY <1>2, <1>3 DEF Replied, Stored, Closing, Alone
<1>9. Right(<<>>, <<Listen>>, TRUE, l, cs)
  BY <1>2, <1>3 DEF Right, OnLine, Accepts
<1>10. Filed(s, l, f, r) => Filed(<<>>, l, f, r)
  BY <1>2 DEF Filed
<1>11. Alive(<<Listen>>, l, <<>>)
  BY <1>3 DEF Alive, Closing
<1> QED  BY <1>4, <1>6, <1>7, <1>8, <1>9, <1>10, <1>11 DEF Whole

--------------------------------------------------------------------------------
(* capi_event *)

\* The program sends ms; on a connection that the brick has forgotten they get lost.
Puts(up, q, q2, ms) == q2 = IF up THEN q \o ms ELSE q

\* The responses to m are about its call.  Only the end of a call is answered by the
\* response that closes it; with option -n a call is accepted when the digits are there.
Replies(m, ms, cs, cs2) ==
    /\ ms \in Seq(Answers)
    /\ \A k \in DOMAIN ms :
          /\ Live(m) /\ ms[k].plci = m.plci /\ ms[k].id = m.id
          /\ Closing(ms[k]) => m.type = "DISCONNECT_IND" /\ Len(ms) = 1
          /\ ms[k].type = "CONNECT_RESP" /\ ms[k].arg = 0 =>
                /\ m.arg = 1
                /\ \/ m.type = "CONNECT_IND" /\ Ncnt = 0 /\ Has(cs2, m.id)
                   \/ m.type = "INFO_IND" /\ \A j \in DOMAIN cs : cs[j].id = m.id => cs[j].ncnt + 1 >= Ncnt
    /\ m.type = "CONNECT_IND" => Has(cs2, m.id) \/ \E k \in DOMAIN ms : Refuses(ms[k], m.plci)

\* What becomes of the calls.
Changed(m, cs, cs2) ==
    \/ Kept(cs, cs2) /\ \A k \in DOMAIN cs : cs2[k].ncnt = cs[k].ncnt
    \/ /\ m.type = "INFO_IND" /\ Kept(cs, cs2)
       /\ \A k \in DOMAIN cs : cs2[k].ncnt <= cs[k].ncnt + One(cs[k].plci = m.plci)
    \/ m.type = "CONNECT_IND" /\ New(cs, cs2, m)
    \/ m.type = "DISCONNECT_IND" /\ \E i : Less(cs, cs2, i) /\ cs[i].plci = m.plci
Changes(m, cs, cs2) ==
    Changed(m, cs, cs2) /\ (m.type = "CONNECTB3_IND" => HasB3(cs2, m.id))

\* What becomes of the files: a block is acknowledged when it is written, perhaps only
\* in part.
Adds(m, f, f2) ==
    \E t \in Took :
        /\ t = "part" => FilesFail
        /\ f2 = [f EXCEPT ![m.id] = Append(@, [id |-> m.id, block |-> m.arg, took |-> t])]
Writes(m, ms, f, f2) ==
    /\ f2 = f \/ (m.type = "DATAB3_IND" /\ Adds(m, f, f2))
    /\ \A k \in DOMAIN ms : ms[k].type = "DATAB3_RESP" =>
          Len(ms) = 1 /\ m.type = "DATAB3_IND" /\ Adds(m, f, f2)

\* The responses are behind the messages that are under way.
Queued(up, q, q2, ms) ==
    /\ q2 \in Seq(FromProg) /\ ms \in Seq(FromProg) /\ Len(q) \in Nat
    /\ \A k \in DOMAIN q : k \in DOMAIN q2 /\ q2[k] = q[k] /\ k \in Nat /\ k <= Len(q)
    /\ \A k \in DOMAIN q2 : /\ k \in Nat
                            /\ \/ k \in DOMAIN q /\ q2[k] = q[k]
                               \/ /\ up /\ k > Len(q) /\ k - Len(q) \in DOMAIN ms
                                  /\ q2[k] = ms[k - Len(q)]
    /\ up => \A k \in DOMAIN ms : \E j \in DOMAIN q2 : q2[j] = ms[k]
    /\ \A T : Number(q2, T) <= Number(q, T) + Number(ms, T)

LEMMA PutsFacts ==
    ASSUME NEW up, NEW q \in Seq(FromProg), NEW q2, NEW ms \in Seq(Answers), Puts(up, q, q2, ms)
    PROVE  Queued(up, q, q2, ms)
<1>1. ms \in Seq(FromProg)
  BY DEF FromProg
<1>2. /\ q \o ms \in Seq(FromProg)
      /\ \A k \in DOMAIN q : k \in DOMAIN (q \o ms) /\ (q \o ms)[k] = q[k]
      /\ \A k \in DOMAIN (q \o ms) : \/ k \in DOMAIN q
                                     \/ /\ k > Len(q) /\ k - Len(q) \in DOMAIN ms
                                        /\ (q \o ms)[k] = ms[k - Len(q)]
      /\ Len(q) \in Nat /\ DOMAIN q = 1 .. Len(q)
  BY <1>1, ConcatOf
<1>3. \A k \in DOMAIN ms : Len(q) + k \in DOMAIN (q \o ms) /\ (q \o ms)[Len(q) + k] = ms[k]
  BY <1>1
<1>4. ASSUME NEW T
      PROVE  /\ Number(q \o ms, T) = Number(q, T) + Number(ms, T)
             /\ Number(q, T) \in Nat /\ Number(ms, T) \in Nat
  BY <1>1, NumberConcat, NumberType
<1>5. \A k \in DOMAIN (q \o ms) : k \in Nat
  BY <1>2
<1>6. CASE up
  <2>1. q2 = q \o ms
    BY <1>6 DEF Puts
  <2>2. \A T : Number(q2, T) <= Number(q, T) + Number(ms, T)
    BY <1>4, <2>1
  <2>3. \A k \in DOMAIN ms : \E j \in DOMAIN q2 : q2[j] = ms[k]
    BY <1>3, <2>1
  <2> QED  BY <1>1, <1>2, <1>5, <1>6, <2>1, <2>2, <2>3 DEF Queued
<1>7. CASE ~up
  <2>1. q2 = q
    BY <1>7 DEF Puts
  <2>2. \A T : Number(q2, T) <= Number(q, T) + Number(ms, T)
    BY <1>4, <2>1
  <2> QED  BY <1>1, <1>2, <1>7, <2>1, <2>2 DEF Queued
<1> QED  BY <1>6, <1>7

\* The message that is handled is the first, those behind it come later.
LEMMA FirstFacts ==
    ASSUME NEW s \in Seq(FromBrick), s # <<>>, NEW up, NEW l \in [Plcis -> Lines], NEW r,
           Told(s, up, l, r), Ordered(s), Live(Head(s))
    PROVE  /\ 1 \in DOMAIN s /\ s[1] = Head(s) /\ Head(s) \in FromBrick /\ Head(s) \in Tellings
           /\ Head(s).plci \in Plcis /\ Head(s).id \in Nat /\ Head(s).id # 0 /\ Head(s).id \in CallIds
           /\ Head(s).id <= r
           /\ up => l[Head(s).plci].id = Head(s).id /\ Head(s).type \in Sayable(l[Head(s).plci].st)
           /\ up /\ Head(s).type = "DISCONNECT_IND" => l[Head(s).plci].st = "clearing"
           /\ \A k \in DOMAIN Tail(s) : Live(Tail(s)[k]) => Before(Head(s), Tail(s)[k])
<1>1. 1 \in DOMAIN s /\ s[1] = Head(s) /\ Head(s) \in FromBrick
  BY TailOf
<1>2. /\ Head(s) \in Tellings /\ Head(s).plci \in Plcis /\ Head(s).id \in Nat /\ Head(s).id # 0
      /\ Head(s).id \in CallIds
  BY <1>1, LiveIn
<1>3. /\ Head(s).id <= r
      /\ up => l[Head(s).plci].id = Head(s).id /\ Head(s).type \in Sayable(l[Head(s).plci].st)
  BY <1>1 DEF Told
<1>4. up /\ Head(s).type = "DISCONNECT_IND" => l[Head(s).plci].st = "clearing"
  BY <1>3 DEF Sayable, LiveTypes
<1>5. \A k \in DOMAIN Tail(s) : Live(Tail(s)[k]) => Before(Head(s), Tail(s)[k])
  BY OrderedTail
<1> QED  BY <1>1, <1>2, <1>3, <1>4, <1>5

LEMMA EventReplied ==
    ASSUME NEW s \in Seq(FromBrick), s # <<>>, NEW up, NEW l \in [Plcis -> Lines], NEW r, NEW cs, NEW cs2,
           NEW q \in Seq(FromProg), NEW q2, NEW ms,
           Told(s, up, l, r), Ordered(s), Replied(s, q, l),
           Replies(Head(s), ms, cs, cs2), Puts(up, q, q2, ms)
    PROVE  Replied(Tail(s), q2, l)
<1> DEFINE m == Head(s)
           t == Tail(s)
<1>1. ms \in Seq(Answers)
  BY DEF Replies
<1>2. /\ \A k \in DOMAIN q : k \in DOMAIN q2 /\ q2[k] = q[k] /\ k \in Nat /\ k <= Len(q)
      /\ \A k \in DOMAIN q2 : /\ k \in Nat
                              /\ \/ k \in DOMAIN q /\ q2[k] = q[k]
                                 \/ /\ up /\ k > Len(q) /\ k - Len(q) \in DOMAIN ms
                                    /\ q2[k] = ms[k - Len(q)]
  <2>1. Queued(up, q, q2, ms)
    BY <1>1, PutsFacts
  <2> QED  BY ONLY <2>1 DEF Queued
<1>7. Len(q) \in Nat
  OBVIOUS
<1>3. \A k \in DOMAIN t : k + 1 \in DOMAIN s /\ t[k] = s[k + 1]
  BY TailOf
<1>4. ASSUME NEW k \in DOMAIN q2, q2[k].type # "LISTEN_REQ"  PROVE l[q2[k].plci].id = q2[k].id
  <2>1. CASE k \in DOMAIN q /\ q2[k] = q[k]
    BY <1>4, <2>1 DEF Replied
  <2>2. CASE up /\ k - Len(q) \in DOMAIN ms /\ q2[k] = ms[k - Len(q)]
    <3>1. Live(m) /\ q2[k].plci = m.plci /\ q2[k].id = m.id
      BY <2>2 DEF Replies
    <3> QED  BY <2>2, <3>1, FirstFacts
  <2> QED  BY <1>2, <2>1, <2>2
<1>5. ASSUME NEW j \in DOMAIN q2, NEW k \in DOMAIN q2, j < k, Closing(q2[j]), q2[k].type # "LISTEN_REQ"
      PROVE  q2[j].plci # q2[k].plci
  <2>1. j \in Nat /\ k \in Nat /\ Len(q) \in Nat
    BY <1>2, <1>7
  <2>2. CASE k \in DOMAIN q /\ q2[k] = q[k]
    <3>1. k <= Len(q)
      BY <1>2, <2>2
    <3>2. ~(j > Len(q))
      BY <1>5, <2>1, <3>1
    <3>3. j \in DOMAIN q /\ q2[j] = q[j]
      BY <1>2, <3>2
    <3> QED  BY <1>5, <2>2, <3>3 DEF Replied
  <2>3. CASE up /\ k - Len(q) \in DOMAIN ms /\ q2[k] = ms[k - Len(q)]
    <3>1. Live(m) /\ q2[k].plci = m.plci
      BY <2>3 DEF Replies
    <3>2. CASE j \in DOMAIN q /\ q2[j] = q[j]
      <4>1. 1 \in DOMAIN s /\ s[1] = m
        BY TailOf
      <4>2. m.plci # q[j].plci
        BY <1>5, <3>1, <3>2, <4>1 DEF Replied
      <4> QED  BY <3>1, <3>2, <4>2
    <3>3. CASE j > Len(q) /\ j - Len(q) \in DOMAIN ms /\ q2[j] = ms[j - Len(q)]
      <4>1. Len(ms) = 1 /\ DOMAIN ms = {1}
        <5>1. Len(ms) = 1
          BY <1>5, <3>3 DEF Replies
        <5> QED  BY <1>1, <5>1
      <4>2. j - Len(q) = 1 /\ k - Len(q) = 1
        BY <2>3, <3>3, <4>1
      <4> QED  BY <1>5, <2>1, <4>2
    <3> QED  BY <1>2, <3>2, <3>3
  <2> QED  BY <1>2, <2>2, <2>3
<1>6. ASSUME NEW k \in DOMAIN q2, Closing(q2[k])
      PROVE  /\ l[q2[k].plci].st = "clearing"
             /\ \A j \in DOMAIN t : Live(t[j]) => t[j].plci # q2[k].plci
  <2>1. CASE k \in DOMAIN q /\ q2[k] = q[k]
    BY <1>3, <1>6, <2>1 DEF Replied
  <2>2. CASE up /\ k - Len(q) \in DOMAIN ms /\ q2[k] = ms[k - Len(q)]
    <3>1. Live(m) /\ q2[k].plci = m.plci /\ m.type = "DISCONNECT_IND"
      BY <1>6, <2>2 DEF Replies
    <3>2. l[m.plci].st = "clearing" /\ \A j \in DOMAIN t : Live(t[j]) => Before(m, t[j])
      BY <2>2, <3>1, FirstFacts
    <3> QED  BY <3>1, <3>2 DEF Before
  <2> QED  BY <1>2, <2>1, <2>2
<1> QED  BY <1>4, <1>5, <1>6 DEF Replied

\* A call that is not the one that ends is still there.
Stays(m, cs, i) ==
    m.type = "DISCONNECT_IND" => \A k \in DOMAIN cs : cs[k].plci = m.plci => cs[k].id # i

LEMMA ChangesHas ==
    ASSUME NEW m, NEW cs \in Seq(Records), NEW cs2, NEW i, Changes(m, cs, cs2), Stays(m, cs, i)
    PROVE  /\ Has(cs, i) => Has(cs2, i)
           /\ HasB3(cs, i) => HasB3(cs2, i)
<1>1. ASSUME Kept(cs, cs2)  PROVE (Has(cs, i) => Has(cs2, i)) /\ (HasB3(cs, i) => HasB3(cs2, i))
  BY <1>1 DEF Kept, Has, HasB3
<1>2. ASSUME New(cs, cs2, m)  PROVE (Has(cs, i) => Has(cs2, i)) /\ (HasB3(cs, i) => HasB3(cs2, i))
  <2>1. ASSUME NEW k \in DOMAIN cs  PROVE k + 1 \in DOMAIN cs2 /\ cs2[k + 1] = cs[k]
    BY <1>2 DEF New
  <2> QED  BY <2>1 DEF Has, HasB3
<1>3. ASSUME m.type = "DISCONNECT_IND", NEW n, Less(cs, cs2, n), cs[n].plci = m.plci
      PROVE  (Has(cs, i) => Has(cs2, i)) /\ (HasB3(cs, i) => HasB3(cs2, i))
  <2>1. n \in DOMAIN cs /\ cs[n].id # i
    BY <1>3 DEF Less, Stays
  <2>2. \A k \in DOMAIN cs : cs[k].id = i => \E j \in DOMAIN cs2 : cs2[j] = cs[k]
    BY <1>3, <2>1 DEF Less
  <2> QED  BY <2>2 DEF Has, HasB3
<1> QED  BY <1>1, <1>2, <1>3 DEF Changes, Changed

\* The calls on the other lines stay.
LEMMA OthersStay ==
    ASSUME NEW s \in Seq(FromBrick), s # <<>>, NEW up, NEW l \in [Plcis -> Lines], NEW r,
           NEW cs \in Seq(Records), NEW q,
           Alone(up, q, l), Told(s, up, l, r), Ordered(s), Numbered(s, l, cs, r)
    PROVE  /\ \A k \in DOMAIN Tail(s) : Live(Tail(s)[k]) => Stays(Head(s), cs, Tail(s)[k].id)
           /\ \A p \in Plcis : l[p].st \notin {"free", "clearing"} => Stays(Head(s), cs, l[p].id)
<1> DEFINE m == Head(s)
<1>1. m.type = "DISCONNECT_IND" => Live(m)
  BY DEF Live, LiveTypes
<1>2. ASSUME NEW k \in DOMAIN Tail(s), Live(Tail(s)[k]), m.type = "DISCONNECT_IND",
             NEW j \in DOMAIN cs, cs[j].plci = m.plci, cs[j].id = Tail(s)[k].id
      PROVE  FALSE
  <2>1. Before(m, Tail(s)[k])
    BY <1>1, <1>2, OrderedTail
  <2>2. k + 1 \in DOMAIN s /\ Tail(s)[k] = s[k + 1]
    BY TailOf
  <2>3. cs[j].plci = Tail(s)[k].plci
    BY <1>2, <2>2 DEF Numbered
  <2> QED  BY <1>2, <2>1, <2>3 DEF Before
<1>3. ASSUME NEW p \in Plcis, l[p].st \notin {"free", "clearing"}, m.type = "DISCONNECT_IND",
             NEW j \in DOMAIN cs, cs[j].plci = m.plci, cs[j].id = l[p].id
      PROVE  FALSE
  <2>1. up
    BY <1>3 DEF Alone, Idle
  <2>2. l[m.plci].st = "clearing"
    BY <1>1, <1>3, <2>1, FirstFacts
  <2>3. cs[j].plci = p
    BY <1>3 DEF Numbered
  <2> QED  BY <1>3, <2>2, <2>3
<1> QED  BY <1>2, <1>3 DEF Stays

\* A message that comes completes the number of a call the program has.
LEMMA Completes ==
    ASSUME NEW s \in Seq(FromBrick), s # <<>>, NEW up, up, NEW l \in [Plcis -> Lines], NEW r, NEW cs,
           NEW q \in Seq(FromProg), NEW q2, NEW ms \in Seq(Answers),
           Told(s, up, l, r), Ordered(s), Known(s, q, l, cs),
           Puts(up, q, q2, ms), NEW k \in DOMAIN q2, k > Len(q), Accepts(q2, k, l),
           q2[k].plci = Head(s).plci, Head(s).type = "INFO_IND"
    PROVE  Has(cs, Head(s).id)
<1> DEFINE m == Head(s)
           p == m.plci
<1>1. Live(m)
  BY DEF Live, LiveTypes
<1>2. /\ 1 \in DOMAIN s /\ s[1] = m /\ p \in Plcis /\ l[p].id = m.id
      /\ \A j \in DOMAIN Tail(s) : Live(Tail(s)[j]) => Before(m, Tail(s)[j])
  BY <1>1, FirstFacts
<1>3. l[p].st = "offered"
  BY DEF Accepts
<1>4. ASSUME NEW j \in DOMAIN s, s[j].type = "CONNECT_IND", s[j].id = l[p].id  PROVE FALSE
  <2>1. Live(s[j]) /\ j # 1
    BY <1>2, <1>4 DEF Live, LiveTypes
  <2>2. j - 1 \in DOMAIN Tail(s) /\ Tail(s)[j - 1] = s[j]
    BY <2>1, TailOf
  <2> QED  BY <1>2, <1>4, <2>1, <2>2 DEF Before
<1>5. ASSUME NEW j \in DOMAIN q, Refuses(q[j], p)  PROVE FALSE
  <2>1. j \in DOMAIN q2 /\ q2[j] = q[j] /\ j \in Nat /\ j <= Len(q) /\ k \in Nat
    <3>1. Queued(up, q, q2, ms)
      BY PutsFacts
    <3> QED  BY ONLY <3>1, j \in DOMAIN q, k \in DOMAIN q2 DEF Queued
  <2>2. Len(q) \in Nat /\ j < k
    BY <2>1
  <2> QED  BY <1>5, <2>1, <2>2 DEF Accepts
<1> QED  BY <1>2, <1>3, <1>4, <1>5 DEF Known

LEMMA EventKnown ==
    ASSUME NEW s \in Seq(FromBrick), s # <<>>, NEW up, NEW l \in [Plcis -> Lines], NEW r,
           NEW cs \in Seq(Records), NEW cs2, NEW q \in Seq(FromProg), NEW q2, NEW ms,
           Alone(up, q, l), Told(s, up, l, r), Ordered(s), Numbered(s, l, cs, r),
           Known(s, q, l, cs), Replied(s, q, l),
           Replies(Head(s), ms, cs, cs2), Changes(Head(s), cs, cs2), Puts(up, q, q2, ms)
    PROVE  Known(Tail(s), q2, l, cs2)
<1> DEFINE m == Head(s)
           t == Tail(s)
<1>1. ms \in Seq(Answers)
  BY DEF Replies
<1>2. /\ \A k \in DOMAIN q : k \in DOMAIN q2 /\ q2[k] = q[k] /\ k \in Nat /\ k <= Len(q)
      /\ \A k \in DOMAIN q2 : /\ k \in Nat
                              /\ \/ k \in DOMAIN q /\ q2[k] = q[k]
                                 \/ /\ up /\ k > Len(q) /\ k - Len(q) \in DOMAIN ms
                                    /\ q2[k] = ms[k - Len(q)]
      /\ up => \A k \in DOMAIN ms : \E j \in DOMAIN q2 : q2[j] = ms[k]
  <2>1. Queued(up, q, q2, ms)
    BY <1>1, PutsFacts
  <2> QED  BY ONLY <2>1 DEF Queued
<1>3. /\ \A k \in DOMAIN t : k + 1 \in DOMAIN s /\ t[k] = s[k + 1]
      /\ 1 \in DOMAIN s /\ s[1] = m
      /\ \A k \in DOMAIN s : k # 1 => k - 1 \in DOMAIN t /\ t[k - 1] = s[k]
  BY TailOf
<1>4. /\ \A k \in DOMAIN t : Live(t[k]) => Stays(m, cs, t[k].id)
      /\ \A p \in Plcis : l[p].st \notin {"free", "clearing"} => Stays(m, cs, l[p].id)
  BY OthersStay, Zenon
<1>5. ASSUME NEW i, Stays(m, cs, i)
      PROVE  /\ Has(cs, i) => Has(cs2, i)
             /\ Joined(s, cs, i) => Joined(t, cs2, i)
  <2>1. (Has(cs, i) => Has(cs2, i)) /\ (HasB3(cs, i) => HasB3(cs2, i))
    BY <1>5, ChangesHas
  <2>2. ASSUME NEW j \in DOMAIN s, s[j].type = "CONNECTB3_IND", s[j].id = i
        PROVE  HasB3(cs2, i) \/ Expects(t, i)
    <3>1. CASE j = 1
      BY <1>3, <2>2, <3>1 DEF Changes, Changed
    <3>2. CASE j # 1
      <4>1. j - 1 \in DOMAIN t /\ t[j - 1] = s[j]
        BY <1>3, <3>2
      <4> QED  BY <2>2, <4>1 DEF Expects
    <3> QED  BY <3>1, <3>2
  <2> QED  BY <2>1, <2>2 DEF Joined, Expects
<1>6. ASSUME NEW k \in DOMAIN t
      PROVE  /\ t[k].type \in NcciTypes \cup {"CONNECTACTIVE_IND"} => Has(cs2, t[k].id)
             /\ t[k].type \in B3Types => Joined(t, cs2, t[k].id)
  <2>1. t[k].type \in NcciTypes \cup {"CONNECTACTIVE_IND"} => Live(t[k])
    BY DEF Live, LiveTypes, NcciTypes
  <2>2. t[k].type \in B3Types => t[k].type \in NcciTypes
    BY DEF B3Types
  <2>3. /\ t[k].type \in NcciTypes \cup {"CONNECTACTIVE_IND"} => Has(cs, t[k].id)
        /\ t[k].type \in B3Types => Joined(s, cs, t[k].id)
    BY <1>3 DEF Known
  <2> QED  BY <1>4, <1>5, <2>1, <2>2, <2>3
<1>7. ASSUME NEW p \in Plcis
      PROVE  /\ l[p].st \in OnLine => Has(cs2, l[p].id)
             /\ l[p].st \in OnB3 => Joined(t, cs2, l[p].id)
  <2>1. l[p].st \in OnLine \cup OnB3 => Stays(m, cs, l[p].id)
    BY <1>4 DEF OnLine, OnB3
  <2> QED  BY <1>5, <2>1 DEF Known
<1>8. ASSUME NEW k \in DOMAIN q2, Accepts(q2, k, l)  PROVE Has(cs2, q2[k].id)
  <2>1. q2[k].type = "CONNECT_RESP" /\ q2[k].arg = 0 /\ l[q2[k].plci].st = "offered"
    BY <1>8 DEF Accepts
  <2>2. CASE k \in DOMAIN q /\ q2[k] = q[k]
    <3>1. Accepts(q, k, l)
      BY <1>2, <1>8, <2>2 DEF Accepts
    <3>2. Has(cs, q[k].id) /\ l[q[k].plci].id = q[k].id /\ q[k].plci \in Plcis
      <4>1. q[k] \in FromProg
        BY <2>2
      <4> QED  BY <2>1, <2>2, <3>1, <4>1, AnswerIn DEF Known, Replied
    <3> QED  BY <1>4, <1>5, <2>1, <2>2, <3>2
  <2>3. CASE up /\ k > Len(q) /\ k - Len(q) \in DOMAIN ms /\ q2[k] = ms[k - Len(q)]
    <3>1. /\ Live(m) /\ q2[k].plci = m.plci /\ q2[k].id = m.id
          /\ (m.type = "CONNECT_IND" /\ Has(cs2, m.id)) \/ m.type = "INFO_IND"
      BY <2>1, <2>3 DEF Replies
    <3>2. CASE m.type = "INFO_IND"
      <4>1. Has(cs, m.id)
        BY <1>1, <1>8, <2>3, <3>1, <3>2, Completes
      <4>2. Stays(m, cs, m.id)
        BY <3>2 DEF Stays
      <4> QED  BY <1>5, <3>1, <4>1, <4>2
    <3> QED  BY <3>1, <3>2
  <2> QED  BY <1>2, <2>2, <2>3
<1>9. ASSUME NEW p \in Plcis, l[p].st = "offered"
      PROVE  \/ Has(cs2, l[p].id)
             \/ \E k \in DOMAIN t : t[k].type = "CONNECT_IND" /\ t[k].id = l[p].id
             \/ \E k \in DOMAIN q2 : Refuses(q2[k], p)
  <2>1. Stays(m, cs, l[p].id)
    BY <1>4, <1>9
  <2>2. CASE Has(cs, l[p].id)
    BY <1>5, <2>1, <2>2
  <2>3. ASSUME NEW k \in DOMAIN s, s[k].type = "CONNECT_IND", s[k].id = l[p].id
        PROVE  \/ Has(cs2, l[p].id)
               \/ \E j \in DOMAIN t : t[j].type = "CONNECT_IND" /\ t[j].id = l[p].id
               \/ \E j \in DOMAIN q2 : Refuses(q2[j], p)
    <3>1. CASE k # 1
      <4>1. k - 1 \in DOMAIN t /\ t[k - 1] = s[k]
        BY <1>3, <3>1
      <4> QED  BY <2>3, <4>1
    <3>2. CASE k = 1
      <4>1. up
        BY <1>9 DEF Alone, Idle
      <4>2. m.type = "CONNECT_IND" /\ m.id = l[p].id /\ Live(m)
        BY <1>3, <2>3, <3>2 DEF Live, LiveTypes
      <4>3. m.plci \in Plcis /\ l[m.plci].id = m.id /\ m.id # 0
        BY <4>1, <4>2, FirstFacts
      <4>4. m.plci = p
        BY <4>2, <4>3 DEF Numbered
      <4>5. Has(cs2, m.id) \/ \E j \in DOMAIN ms : Refuses(ms[j], m.plci)
        BY <4>2 DEF Replies
      <4> QED  BY <1>2, <4>1, <4>2, <4>4, <4>5
    <3> QED  BY <3>1, <3>2
  <2>4. ASSUME NEW k \in DOMAIN q, Refuses(q[k], p)  PROVE \E j \in DOMAIN q2 : Refuses(q2[j], p)
    BY <1>2, <2>4
  <2> QED  BY <1>9, <2>2, <2>3, <2>4 DEF Known
<1> QED  BY <1>6, <1>7, <1>8, <1>9 DEF Known

\* What is written to the files.
Longest(m, f, f2) ==
    /\ f2 \in [CallIds -> Seq(Blocks)]
    /\ \A i \in CallIds : i # m.id => f2[i] = f[i]
    /\ Len(f[m.id]) \in Nat /\ Len(f2[m.id]) = Len(f[m.id]) + 1
    /\ ~FilesFail => f2[m.id][Len(f[m.id]) + 1] = [id |-> m.id, block |-> m.arg, took |-> "whole"]
    /\ DOMAIN f2[m.id] = 1 .. Len(f[m.id]) + 1
    /\ \A n \in 1 .. Len(f[m.id]) : n \in DOMAIN f[m.id] /\ f2[m.id][n] = f[m.id][n]

LEMMA WrittenFacts ==
    ASSUME NEW m \in Tellings, NEW f \in [CallIds -> Seq(Blocks)], NEW f2, Adds(m, f, f2)
    PROVE  Longest(m, f, f2)
<1>0. PICK t \in Took :
         /\ t = "part" => FilesFail
         /\ f2 = [f EXCEPT ![m.id] = Append(@, [id |-> m.id, block |-> m.arg, took |-> t])]
  BY DEF Adds
<1>1. m.id \in CallIds /\ [id |-> m.id, block |-> m.arg, took |-> t] \in Blocks
  BY <1>0 DEF Tellings, Blocks
<1> DEFINE b == [id |-> m.id, block |-> m.arg, took |-> t]
           g == f[m.id]
           h == Append(g, b)
<1>2. g \in Seq(Blocks) /\ b \in Blocks
  BY <1>1
<1> HIDE DEF b, g
<1>3. /\ h \in Seq(Blocks) /\ Len(g) \in Nat /\ Len(h) = Len(g) + 1 /\ h[Len(g) + 1] = b
      /\ DOMAIN h = 1 .. Len(g) + 1 /\ DOMAIN g = 1 .. Len(g)
      /\ \A n \in 1 .. Len(g) : h[n] = g[n]
  BY <1>2
<1>4. f2[m.id] = h /\ \A i \in CallIds : i # m.id => f2[i] = f[i]
  BY <1>0, <1>1 DEF b, g
<1>5. f2 \in [CallIds -> Seq(Blocks)]
  <2>1. f2 = [f EXCEPT ![m.id] = h]
    BY <1>0 DEF b, g
  <2> HIDE DEF h
  <2> QED  BY <1>1, <1>3, <2>1
<1> HIDE DEF h
<1>6. ~FilesFail => b = [id |-> m.id, block |-> m.arg, took |-> "whole"]
  BY <1>0 DEF b, Took
<1> QED  BY <1>3, <1>4, <1>5, <1>6 DEF g, h, Longest

LEMMA EventStored ==
    ASSUME NEW s \in Seq(FromBrick), s # <<>>, NEW up, NEW l \in [Plcis -> Lines], NEW r,
           NEW cs, NEW cs2, NEW q \in Seq(FromProg), NEW q2, NEW ms,
           NEW f \in [CallIds -> Seq(Blocks)], NEW f2,
           Alone(up, q, l), Told(s, up, l, r), Ordered(s), Stored(q, l, f),
           Replies(Head(s), ms, cs, cs2), Puts(up, q, q2, ms), Writes(Head(s), ms, f, f2)
    PROVE  Stored(q2, l, f2)
<1> DEFINE m == Head(s)
<1> SUFFICES ASSUME NEW p \in Plcis, l[p].id # 0
             PROVE  l[p].sent - l[p].unacked + Number(q2, DataResps(p)) <= Len(f2[l[p].id])
  BY DEF Stored
<1>1. ms \in Seq(Answers)
  BY DEF Replies
<1>2. Queued(up, q, q2, ms)
  BY <1>1, PutsFacts
<1>3. up
  BY DEF Alone, Idle
<1> DEFINE a == l[p].sent
           b == l[p].unacked
           c == Number(q, DataResps(p))
           d == Number(ms, DataResps(p))
           e == Number(q2, DataResps(p))
           n == Len(f[l[p].id])
           o == Len(f2[l[p].id])
<1>4. e <= c + d
  BY ONLY <1>2 DEF Queued
<1>5. a - b + c <= n
  BY DEF Stored
<1>6. a \in Nat /\ b \in Nat /\ l[p].id \in CallIds
  BY LineIn
<1>7. n \in Nat
  <2>1. f[l[p].id] \in Seq(Blocks)
    BY <1>6
  <2> QED  BY <2>1
<1>8. c \in Nat /\ d \in Nat /\ e \in Nat
  <2>1. q2 \in Seq(FromProg)
    BY ONLY <1>2 DEF Queued
  <2> QED  BY <1>1, <2>1, NumberType
<1>9. o \in Nat /\ n + d <= o
  <2>1. CASE \E k \in DOMAIN ms : ms[k] \in DataResps(p)
    <3>1. PICK k \in DOMAIN ms : ms[k].type = "DATAB3_RESP" /\ ms[k].plci = p
      BY <2>1 DEF DataResps
    <3>2. /\ Live(m) /\ m.plci = p /\ Len(ms) = 1 /\ m.type = "DATAB3_IND"
          /\ Adds(m, f, f2)
      BY <3>1 DEF Replies, Writes
    <3>3. m \in Tellings /\ l[p].id = m.id
      BY <1>3, <3>2, FirstFacts
    <3>4. Len(f2[m.id]) = Len(f[m.id]) + 1
      <4>1. Longest(m, f, f2)
        BY <3>2, <3>3, WrittenFacts
      <4> QED  BY ONLY <4>1 DEF Longest
    <3>5. d <= 1
      <4>1. ms = <<ms[1]>>
        BY <1>1, <3>2
      <4>2. Number(<<ms[1]>>, DataResps(p)) <= 1
        BY NumberOne DEF One
      <4> QED  BY <4>1, <4>2
    <3>6. o = n + 1
      BY <3>3, <3>4
    <3> HIDE DEF d, n, o
    <3> QED  BY ONLY <1>7, <1>8, <3>5, <3>6
  <2>2. CASE \A k \in DOMAIN ms : ms[k] \notin DataResps(p)
    <3>1. d = 0
      BY <1>1, <2>2, NumberType
    <3>2. o \in Nat /\ n <= o
      <4>1. CASE f2 = f
        BY <1>7, <4>1
      <4>2. CASE m.type = "DATAB3_IND" /\ Adds(m, f, f2)
        <5>1. Live(m)
          BY <4>2 DEF Live, LiveTypes
        <5>2. m \in Tellings
          BY <5>1, FirstFacts
        <5>3. /\ \A i \in CallIds : i # m.id => f2[i] = f[i]
              /\ Len(f[m.id]) \in Nat /\ Len(f2[m.id]) = Len(f[m.id]) + 1
          <6>1. Longest(m, f, f2)
            BY <4>2, <5>2, WrittenFacts
          <6> QED  BY ONLY <6>1 DEF Longest
        <5>4. CASE l[p].id = m.id
          BY <5>3, <5>4
        <5>5. CASE l[p].id # m.id
          BY <1>6, <1>7, <5>3, <5>5
        <5> QED  BY <5>4, <5>5
      <4> QED  BY <4>1, <4>2 DEF Writes
    <3> HIDE DEF d, n, o
    <3> QED  BY ONLY <1>7, <3>1, <3>2
  <2> QED  BY <2>1, <2>2
<1> HIDE DEF a, b, c, d, e, n, o
<1>10. a - b + e <= o
  BY ONLY <1>4, <1>5, <1>6, <1>7, <1>8, <1>9
<1> QED  BY <1>10 DEF a, b, e, o

LEMMA EventRight ==
    ASSUME NEW s \in Seq(FromBrick), s # <<>>, NEW up, NEW l \in [Plcis -> Lines], NEW r,
           NEW cs \in Seq(Records), NEW cs2, NEW q \in Seq(FromProg), NEW q2, NEW ms,
           Alone(up, q, l), Told(s, up, l, r), Ordered(s), Numbered(s, l, cs, r),
           Known(s, q, l, cs), Right(s, q, up, l, cs),
           Replies(Head(s), ms, cs, cs2), Changes(Head(s), cs, cs2), Puts(up, q, q2, ms)
    PROVE  Right(Tail(s), q2, up, l, cs2)
<1> DEFINE m == Head(s)
           t == Tail(s)
<1>1. ms \in Seq(Answers)
  BY DEF Replies
<1>2. Queued(up, q, q2, ms)
  BY <1>1, PutsFacts
<1>3. /\ \A k \in DOMAIN t : k + 1 \in DOMAIN s /\ t[k] = s[k + 1]
      /\ 1 \in DOMAIN s /\ s[1] = m /\ m \in FromBrick /\ t \in Seq(FromBrick)
  BY TailOf
<1>4. ASSUME NEW p
      PROVE  /\ Number(s, Infos(p)) = One(m \in Infos(p)) + Number(t, Infos(p))
             /\ Number(s, Infos(p)) \in Nat /\ Number(t, Infos(p)) \in Nat
  <2>1. Number(s, Infos(p)) = One(Head(s) \in Infos(p)) + Number(Tail(s), Infos(p))
    BY NumberTail
  <2>2. Number(s, Infos(p)) \in Nat /\ Number(t, Infos(p)) \in Nat
    BY <1>3, NumberType
  <2> QED  BY <2>1, <2>2
<1>5. ASSUME NEW k \in DOMAIN q2, Accepts(q2, k, l)  PROVE Wanted(l[q2[k].plci])
  <2>1. q2[k].type = "CONNECT_RESP" /\ q2[k].arg = 0 /\ l[q2[k].plci].st = "offered"
    BY <1>5 DEF Accepts
  <2>2. CASE k \in DOMAIN q /\ q2[k] = q[k]
    <3>1. \A j \in DOMAIN q : j \in DOMAIN q2 /\ q2[j] = q[j]
      BY ONLY <1>2 DEF Queued
    <3>2. Accepts(q, k, l)
      BY <1>5, <2>2, <3>1 DEF Accepts
    <3> QED  BY <2>2, <3>2 DEF Right
  <2>3. CASE up /\ k > Len(q) /\ k - Len(q) \in DOMAIN ms /\ q2[k] = ms[k - Len(q)]
    <3> DEFINE p == m.plci
    <3>1. /\ Live(m) /\ q2[k].plci = p /\ q2[k].id = m.id /\ m.arg = 1
          /\ \/ m.type = "CONNECT_IND" /\ Ncnt = 0
             \/ m.type = "INFO_IND" /\ \A j \in DOMAIN cs : cs[j].id = m.id => cs[j].ncnt + 1 >= Ncnt
      BY <2>1, <2>3 DEF Replies
    <3>2. p \in Plcis /\ l[p].id = m.id /\ m.id # 0
      BY <2>3, <3>1, FirstFacts
    <3>3. l[p].right
      BY <1>3, <2>3, <3>1 DEF Right
    <3>4. l[p].digits \in Nat
      BY <3>2, LineIn
    <3>5. l[p].digits >= Ncnt
      <4>1. CASE Ncnt = 0
        BY <3>4, <4>1
      <4>2. CASE m.type = "INFO_IND" /\ \A j \in DOMAIN cs : cs[j].id = m.id => cs[j].ncnt + 1 >= Ncnt
        <5>1. Has(cs, m.id)
          BY <1>1, <1>5, <2>3, <3>1, <4>2, Completes
        <5>2. PICK j \in DOMAIN cs : cs[j].id = m.id
          BY <5>1 DEF Has
        <5>3. cs[j].ncnt + 1 >= Ncnt /\ cs[j].ncnt \in Nat /\ Ncnt \in Nat
          BY <4>2, <5>2, Bounds DEF Records
        <5>4. cs[j].ncnt + Number(s, Infos(p)) <= l[p].digits
          BY <3>2, <5>2 DEF Right
        <5>5. m \in Infos(p)
          BY <1>3, <4>2 DEF Infos
        <5>6. Number(s, Infos(p)) = 1 + Number(t, Infos(p)) /\ Number(t, Infos(p)) \in Nat
          BY <1>4, <5>5 DEF One
        <5> DEFINE a == cs[j].ncnt
                   b == Number(s, Infos(p))
                   c == Number(t, Infos(p))
                   g == l[p].digits
        <5>7. a + 1 >= Ncnt /\ a \in Nat /\ Ncnt \in Nat /\ a + b <= g /\ b = 1 + c /\ c \in Nat /\ g \in Nat
          BY <3>4, <5>3, <5>4, <5>6
        <5> HIDE DEF a, b, c, g
        <5>8. g >= Ncnt
          BY ONLY <5>7
        <5> QED  BY <5>8 DEF g
      <4> QED  BY <3>1, <4>1, <4>2
    <3> QED  BY <3>1, <3>3, <3>5 DEF Wanted
  <2>4. \/ k \in DOMAIN q /\ q2[k] = q[k]
        \/ up /\ k > Len(q) /\ k - Len(q) \in DOMAIN ms /\ q2[k] = ms[k - Len(q)]
    BY ONLY <1>2, k \in DOMAIN q2 DEF Queued
  <2> QED  BY <2>2, <2>3, <2>4
<1>6. up => \A k \in DOMAIN t : t[k].type \in {"CONNECT_IND", "INFO_IND"} /\ t[k].arg = 1
                                => l[t[k].plci].right
  BY <1>3 DEF Right
<1>7. ASSUME NEW p \in Plcis, l[p].id # 0
      PROVE  /\ Number(t, Infos(p)) <= l[p].digits
             /\ \A k \in DOMAIN cs2 : cs2[k].id = l[p].id =>
                   cs2[k].ncnt + Number(t, Infos(p)) <= l[p].digits
  <2> DEFINE o == One(m \in Infos(p))
             a == Number(s, Infos(p))
             b == Number(t, Infos(p))
             g == l[p].digits
  <2>1. a = o + b /\ o \in {0, 1} /\ a \in Nat /\ b \in Nat /\ g \in Nat /\ a <= g
    BY <1>4, <1>7, LineIn DEF One, Right
  <2>2. \A k \in DOMAIN cs : cs[k].id = l[p].id => cs[k].ncnt + a <= g
    BY <1>7 DEF Right
  <2>3. \A k \in DOMAIN cs : cs[k].ncnt \in Nat
    BY Bounds DEF Records
  <2>4. b <= g
    <3> HIDE DEF o, a, b, g
    <3> QED  BY ONLY <2>1
  <2>5. ASSUME NEW x \in Nat, NEW y \in Nat, x <= y + o, y + a <= g  PROVE x + b <= g
    <3> HIDE DEF o, a, b, g
    <3> QED  BY ONLY <2>1, <2>5
  <2>6. ASSUME NEW k \in DOMAIN cs2, cs2[k].id = l[p].id  PROVE cs2[k].ncnt + b <= g
    <3>1. ASSUME Kept(cs, cs2), \A i \in DOMAIN cs : cs2[i].ncnt = cs[i].ncnt
          PROVE  cs2[k].ncnt + b <= g
      <4>1. k \in DOMAIN cs /\ cs[k].id = l[p].id /\ cs2[k].ncnt = cs[k].ncnt
        BY <2>6, <3>1 DEF Kept
      <4>2. cs[k].ncnt + a <= g /\ cs[k].ncnt \in Nat
        BY <2>2, <2>3, <4>1
      <4> DEFINE y == cs[k].ncnt
      <4>3. y + a <= g /\ y \in Nat
        BY <4>2
      <4>4. y + b <= g
        <5> HIDE DEF y, o, a, b, g
        <5> QED  BY ONLY <2>1, <4>3
      <4> QED  BY <4>1, <4>4
    <3>2. ASSUME m.type = "INFO_IND", Kept(cs, cs2),
                 \A i \in DOMAIN cs : cs2[i].ncnt <= cs[i].ncnt + One(cs[i].plci = m.plci)
          PROVE  cs2[k].ncnt + b <= g
      <4>1. k \in DOMAIN cs /\ cs[k].id = l[p].id /\ cs2[k].ncnt <= cs[k].ncnt + One(cs[k].plci = m.plci)
        BY <2>6, <3>2 DEF Kept
      <4>2. cs[k].plci = p
        BY <4>1 DEF Numbered
      <4>3. m \in Infos(p) <=> p = m.plci
        BY <1>3, <3>2 DEF Infos
      <4>4. One(cs[k].plci = m.plci) = o
        BY <4>2, <4>3 DEF One
      <4>5. cs2[k].ncnt \in Nat
        <5>1. cs2[k] \in Records
          BY <3>2 DEF Kept
        <5> QED  BY <5>1, Bounds DEF Records
      <4>6. cs[k].ncnt + a <= g /\ cs[k].ncnt \in Nat
        BY <2>2, <2>3, <4>1
      <4>7. cs2[k].ncnt <= cs[k].ncnt + o
        BY <4>1, <4>4
      <4> HIDE DEF o, a, b, g
      <4> QED  BY <2>5, <4>5, <4>6, <4>7
    <3>3. ASSUME m.type = "CONNECT_IND", New(cs, cs2, m)  PROVE cs2[k].ncnt + b <= g
      <4>1. CASE k = 1
        <5>1. cs2[k].ncnt = 0
          BY <3>3, <4>1 DEF New
        <5> HIDE DEF b, g, a, o
        <5> QED  BY <2>1, <2>4, <5>1
      <4>2. CASE k # 1
        <5>1. k - 1 \in DOMAIN cs /\ cs2[k] = cs[k - 1]
          BY <3>3, <4>2, NewFacts
        <5>2. cs[k - 1].ncnt + a <= g /\ cs[k - 1].ncnt \in Nat
          BY <2>2, <2>3, <2>6, <5>1
        <5> DEFINE y == cs[k - 1].ncnt
        <5>3. y + a <= g /\ y \in Nat
          BY <5>2
        <5>4. y + b <= g
          <6> HIDE DEF y, o, a, b, g
          <6> QED  BY ONLY <2>1, <5>3
        <5> QED  BY <5>1, <5>4
      <4> QED  BY <4>1, <4>2
    <3>4. ASSUME NEW i, Less(cs, cs2, i)  PROVE cs2[k].ncnt + b <= g
      <4>1. PICK j \in DOMAIN cs : cs2[k] = cs[j]
        BY <3>4 DEF Less
      <4> DEFINE y == cs[j].ncnt
      <4>2. y + a <= g /\ y \in Nat
        BY <2>2, <2>3, <2>6, <4>1
      <4>3. y + b <= g
        <5> HIDE DEF y, o, a, b, g
        <5> QED  BY ONLY <2>1, <4>2
      <4> QED  BY <4>1, <4>3
    <3> QED  BY <3>1, <3>2, <3>3, <3>4 DEF Changes, Changed
  <2> QED  BY <2>4, <2>6
<1> QED  BY <1>5, <1>6, <1>7 DEF Right

LEMMA EventFiled ==
    ASSUME NEW s \in Seq(FromBrick), s # <<>>, NEW up, NEW l \in [Plcis -> Lines], NEW r \in Nat, NEW q,
           NEW cs, NEW f \in [CallIds -> Seq(Blocks)], NEW f2,
           Alone(up, q, l), Told(s, up, l, r), Ordered(s), Numbered(s, l, cs, r), Filed(s, l, f, r),
           Head(s).type = "DATAB3_IND" => Adds(Head(s), f, f2),
           Head(s).type # "DATAB3_IND" => f2 = f, ~FilesFail
    PROVE  Filed(Tail(s), l, f2, r)
<1> DEFINE m == Head(s)
           t == Tail(s)
<1>1. /\ \A k \in DOMAIN t : k + 1 \in DOMAIN s /\ t[k] = s[k + 1]
      /\ 1 \in DOMAIN s /\ s[1] = m
      /\ \A k \in DOMAIN s : k # 1 => k - 1 \in DOMAIN t /\ t[k - 1] = s[k]
      /\ t \in Seq(FromBrick)
  BY TailOf
<1>2. ASSUME NEW j \in DOMAIN s, NEW i, NEW n, IsBlock(s, j, i, n)
      PROVE  (j = 1 /\ m.type = "DATAB3_IND" /\ m.id = i /\ m.arg = n) \/ \E k \in DOMAIN t : IsBlock(t, k, i, n)
  <2>1. CASE j = 1
    BY <1>1, <1>2, <2>1 DEF IsBlock
  <2>2. CASE j # 1
    <3>1. j - 1 \in DOMAIN t /\ t[j - 1] = s[j]
      BY <1>1, <2>2
    <3> QED  BY <1>2, <3>1 DEF IsBlock
  <2> QED  BY <2>1, <2>2
<1>3. CASE m.type # "DATAB3_IND"
  <2>1. f2 = f
    BY <1>3
  <2>2. \A j \in DOMAIN s : \A i, n : IsBlock(s, j, i, n) => \E k \in DOMAIN t : IsBlock(t, k, i, n)
    BY <1>2, <1>3
  <2>3. ASSUME NEW k \in DOMAIN t, t[k].type = "DATAB3_IND"
        PROVE  /\ t[k].arg > Len(f[t[k].id])
               /\ t[k].arg = Len(f[t[k].id]) + 1 \/ \E j \in DOMAIN t : IsBlock(t, j, t[k].id, t[k].arg - 1)
    <3>1. k + 1 \in DOMAIN s /\ t[k] = s[k + 1]
      BY <1>1
    <3> QED  BY <2>2, <2>3, <3>1 DEF Filed
  <2>4. \A p \in Plcis : l[p].id # 0 =>
          \/ l[p].sent = Len(f[l[p].id])
          \/ l[p].sent > Len(f[l[p].id]) /\ \E j \in DOMAIN t : IsBlock(t, j, l[p].id, l[p].sent)
    BY <2>2 DEF Filed
  <2> QED  BY <2>1, <2>3, <2>4 DEF Filed
<1>4. CASE m.type = "DATAB3_IND"
  <2>1. Live(m)
    BY <1>4 DEF Live, LiveTypes
  <2>2. /\ m \in Tellings /\ m.plci \in Plcis /\ m.id \in CallIds /\ m.id <= r /\ m.arg \in Nat
        /\ up => l[m.plci].id = m.id
        /\ \A k \in DOMAIN t : Live(t[k]) => Before(m, t[k])
    <3>1. m \in Tellings
      BY <2>1, FirstFacts
    <3>2. m.arg \in Nat
      BY <3>1 DEF Tellings
    <3> QED  BY <2>1, <3>1, <3>2, FirstFacts
  <2>3. Longest(m, f, f2)
    BY <1>4, <2>2, WrittenFacts
  <2> DEFINE n == Len(f[m.id])
  <2>4. /\ f2 \in [CallIds -> Seq(Blocks)]
        /\ \A i \in CallIds : i # m.id => f2[i] = f[i]
        /\ n \in Nat /\ Len(f2[m.id]) = n + 1
        /\ ~FilesFail => f2[m.id][n + 1] = [id |-> m.id, block |-> m.arg, took |-> "whole"]
        /\ DOMAIN f2[m.id] = 1 .. n + 1
        /\ \A x \in 1 .. n : x \in DOMAIN f[m.id] /\ f2[m.id][x] = f[m.id][x]
    BY ONLY <2>3 DEF Longest
  <2>5. \A k \in DOMAIN t : t[k].type = "DATAB3_IND" =>
           /\ Live(t[k]) /\ t[k] \in FromBrick /\ t[k].arg \in Nat /\ t[k].id \in CallIds
           /\ t[k].id = m.id => t[k].arg > m.arg
    <3> SUFFICES ASSUME NEW k \in DOMAIN t, t[k].type = "DATAB3_IND"
                 PROVE  /\ Live(t[k]) /\ t[k] \in FromBrick /\ t[k].arg \in Nat /\ t[k].id \in CallIds
                        /\ t[k].id = m.id => t[k].arg > m.arg
      OBVIOUS
    <3>1. Live(t[k]) /\ t[k] \in FromBrick
      BY <1>1 DEF Live, LiveTypes
    <3>2. t[k].arg \in Nat /\ t[k].id \in CallIds
      BY <3>1, LiveIn
    <3>3. t[k].id = m.id => m.arg < t[k].arg
      BY <1>4, <2>2, <3>1 DEF Before
    <3> QED  BY <2>2, <3>1, <3>2, <3>3
  <2>6. m.arg = n + 1
    <3>1. m.arg = n + 1 \/ \E j \in DOMAIN s : IsBlock(s, j, m.id, m.arg - 1)
      BY <1>1, <1>4 DEF Filed
    <3>2. ASSUME NEW j \in DOMAIN s, IsBlock(s, j, m.id, m.arg - 1)  PROVE FALSE
      <4>1. m.arg # m.arg - 1
        BY <2>2
      <4>2. PICK k \in DOMAIN t : IsBlock(t, k, m.id, m.arg - 1)
        BY <1>2, <3>2, <4>1
      <4>3. t[k].arg > m.arg /\ t[k].arg = m.arg - 1
        BY <2>5, <4>2 DEF IsBlock
      <4> QED  BY <2>2, <4>3
    <3> QED  BY <3>1, <3>2
  <2>7. \A i \in CallIds : \A x \in DOMAIN f2[i] : f2[i][x] = [id |-> i, block |-> x, took |-> "whole"]
    <3>1. ASSUME NEW x \in DOMAIN f2[m.id]
          PROVE  f2[m.id][x] = [id |-> m.id, block |-> x, took |-> "whole"]
      <4>1. x \in 1 .. n \/ x = n + 1
        BY <2>4
      <4>2. CASE x \in 1 .. n
        BY <2>2, <2>4, <4>2 DEF Filed
      <4>3. CASE x = n + 1
        BY <2>4, <2>6, <4>3
      <4> QED  BY <4>1, <4>2, <4>3
    <3>2. ASSUME NEW i \in CallIds, i # m.id, NEW x \in DOMAIN f2[i]
          PROVE  f2[i][x] = [id |-> i, block |-> x, took |-> "whole"]
      <4>1. f2[i] = f[i]
        BY <2>4, <3>2
      <4> QED  BY <3>2, <4>1 DEF Filed
    <3> QED  BY <3>1, <3>2
  <2>8. \A i \in CallIds : i > r => f2[i] = <<>>
    <3>1. ASSUME NEW i \in CallIds, i > r  PROVE i # m.id
      BY <2>2, <3>1 DEF CallIds
    <3>2. \A i \in CallIds : i > r => f2[i] = f[i]
      BY <2>4, <3>1
    <3> QED  BY <3>2 DEF Filed
  <2>9. ASSUME NEW k \in DOMAIN t, t[k].type = "DATAB3_IND"
        PROVE  /\ t[k].arg > Len(f2[t[k].id])
               /\ t[k].arg = Len(f2[t[k].id]) + 1 \/ \E j \in DOMAIN t : IsBlock(t, j, t[k].id, t[k].arg - 1)
    <3>1. k + 1 \in DOMAIN s /\ t[k] = s[k + 1]
      BY <1>1
    <3>2. /\ t[k].arg > Len(f[t[k].id])
          /\ t[k].arg = Len(f[t[k].id]) + 1 \/ \E j \in DOMAIN s : IsBlock(s, j, t[k].id, t[k].arg - 1)
      BY <2>9, <3>1 DEF Filed
    <3>3. t[k].arg \in Nat /\ t[k].id \in CallIds /\ (t[k].id = m.id => t[k].arg > m.arg)
      BY <2>5, <2>9
    <3>4. CASE t[k].id # m.id
      <4>1. f2[t[k].id] = f[t[k].id]
        BY <2>4, <3>3, <3>4
      <4> QED  BY <1>2, <3>2, <3>4, <4>1
    <3>5. CASE t[k].id = m.id
      <4> DEFINE a == t[k].arg
      <4>1. a > n + 1 /\ Len(f2[t[k].id]) = n + 1 /\ a \in Nat /\ n \in Nat
        BY <2>4, <2>6, <3>3, <3>5
      <4>2. a # n + 1
        BY ONLY <4>1
      <4>3. PICK j \in DOMAIN s : IsBlock(s, j, m.id, a - 1)
        <5>1. a = n + 1 \/ \E j \in DOMAIN s : IsBlock(s, j, m.id, a - 1)
          BY <3>2, <3>5
        <5> QED  BY ONLY <4>2, <5>1
      <4>4. CASE \E i \in DOMAIN t : IsBlock(t, i, m.id, a - 1)
        BY <3>5, <4>1, <4>4
      <4>5. CASE m.arg = a - 1
        <5>1. a - 1 = n + 1 /\ a \in Nat /\ n \in Nat
          BY <2>6, <4>1, <4>5
        <5>2. a = n + 1 + 1
          <6> HIDE DEF a, n
          <6> QED  BY ONLY <5>1
        <5> QED  BY <4>1, <5>2
      <4> QED  BY <1>2, <4>3, <4>4, <4>5
    <3> QED  BY <3>4, <3>5
  <2>10. ASSUME NEW p \in Plcis, l[p].id # 0
         PROVE  \/ l[p].sent = Len(f2[l[p].id])
                \/ l[p].sent > Len(f2[l[p].id]) /\ \E j \in DOMAIN t : IsBlock(t, j, l[p].id, l[p].sent)
    <3>1. \/ l[p].sent = Len(f[l[p].id])
          \/ l[p].sent > Len(f[l[p].id]) /\ \E j \in DOMAIN s : IsBlock(s, j, l[p].id, l[p].sent)
      BY <2>10 DEF Filed
    <3>2. l[p].id \in CallIds /\ l[p].sent \in Nat
      BY <2>10, LineIn
    <3>3. CASE l[p].id # m.id
      <4>1. f2[l[p].id] = f[l[p].id]
        BY <2>4, <3>2, <3>3
      <4> QED  BY <1>2, <3>1, <3>3, <4>1
    <3>4. CASE l[p].id = m.id
      <4> DEFINE a == l[p].sent
      <4>1. up
        BY <2>10 DEF Alone, Idle
      <4>2. m.arg <= a
        <5>1. l[m.plci].id = m.id /\ m.arg <= l[m.plci].sent
          BY <1>1, <1>4, <2>1, <4>1 DEF Told
        <5>2. m.plci = p
          BY <2>2, <2>10, <3>4, <5>1 DEF Numbered
        <5> QED  BY <5>1, <5>2
      <4>3. CASE m.arg = a
        <5>1. a = n + 1 /\ Len(f2[l[p].id]) = n + 1
          BY <2>4, <2>6, <3>4, <4>3
        <5> QED  BY <5>1
      <4>4. CASE \E j \in DOMAIN t : IsBlock(t, j, m.id, a)
        <5>1. PICK j \in DOMAIN t : t[j].type = "DATAB3_IND" /\ t[j].id = m.id /\ t[j].arg = a /\ IsBlock(t, j, m.id, a)
          BY <4>4 DEF IsBlock
        <5>2. a > m.arg
          BY <2>5, <5>1
        <5>3. a > Len(f2[l[p].id])
          BY <2>4, <2>6, <3>4, <5>2
        <5> QED  BY <3>4, <5>1, <5>3
      <4>5. a # n
        BY <2>4, <2>6, <3>2, <4>2
      <4>6. \E j \in DOMAIN s : IsBlock(s, j, m.id, a)
        BY <3>1, <3>4, <4>5
      <4> QED  BY <1>2, <4>3, <4>4, <4>6
    <3> QED  BY <3>3, <3>4
  <2> QED  BY <2>7, <2>8, <2>9, <2>10 DEF Filed
<1> QED  BY <1>3, <1>4

LEMMA EventAlive ==
    ASSUME NEW s \in Seq(FromBrick), s # <<>>, NEW l \in [Plcis -> Lines], NEW r,
           NEW cs \in Seq(Records), NEW cs2, NEW q \in Seq(FromProg), NEW q2, NEW ms,
           Told(s, TRUE, l, r), Ordered(s), Numbered(s, l, cs, r), Replied(s, q, l), Alive(q, l, cs),
           Replies(Head(s), ms, cs, cs2), Changes(Head(s), cs, cs2), Puts(TRUE, q, q2, ms),
           Head(s).type = "DISCONNECT_IND" => ~Has(cs2, Head(s).id)
    PROVE  Alive(q2, l, cs2)
<1> DEFINE m == Head(s)
<1>1. ms \in Seq(Answers)
  BY DEF Replies
<1>2. \A k \in DOMAIN q2 : \/ k \in DOMAIN q /\ q2[k] = q[k]
                         \/ (k - Len(q) \in DOMAIN ms /\ q2[k] = ms[k - Len(q)])
  <2>1. Queued(TRUE, q, q2, ms)
    BY <1>1, PutsFacts
  <2> QED  BY ONLY <2>1, Zenon DEF Queued
<1>3. 1 \in DOMAIN s /\ s[1] = m
  BY TailOf
<1>4. m.type = "CONNECT_IND" => Live(m)
  BY DEF Live, LiveTypes
<1>5. ASSUME NEW k \in DOMAIN cs2
      PROVE  \/ \E j \in DOMAIN cs : cs2[k].id = cs[j].id /\ cs2[k].plci = cs[j].plci
             \/ (m.type = "CONNECT_IND" /\ cs2[k].id = m.id /\ cs2[k].plci = m.plci)
  <2>1. CASE Kept(cs, cs2)
    BY <2>1 DEF Kept
  <2>2. CASE m.type = "CONNECT_IND" /\ New(cs, cs2, m)
    <3>1. CASE k = 1
      BY <2>2, <3>1 DEF New
    <3>2. CASE k # 1
      BY <2>2, <3>2, NewFacts
    <3> QED  BY <3>1, <3>2
  <2>3. ASSUME NEW i, Less(cs, cs2, i)  PROVE \E j \in DOMAIN cs : cs2[k] = cs[j]
    BY <2>3 DEF Less
  <2> QED  BY <2>1, <2>2, <2>3 DEF Changes, Changed
<1>6. ASSUME NEW k \in DOMAIN cs2  PROVE l[cs2[k].plci].id = cs2[k].id
  <2>1. m.type = "CONNECT_IND" => l[m.plci].id = m.id
    BY <1>3, <1>4 DEF Told
  <2> QED  BY <1>5, <2>1 DEF Alive
<1>7. ASSUME NEW k \in DOMAIN q2, Closing(q2[k])  PROVE ~Has(cs2, q2[k].id)
  <2>1. CASE k \in DOMAIN q /\ q2[k] = q[k]
    <3>1. ~Has(cs, q[k].id)
      BY <1>7, <2>1 DEF Alive
    <3>2. m.type = "CONNECT_IND" => m.id # q[k].id
      <4>1. ASSUME m.type = "CONNECT_IND", m.id = q[k].id  PROVE FALSE
        <5>1. q[k].type # "LISTEN_REQ"
          BY <1>7, <2>1 DEF Closing
        <5>2. l[q[k].plci].id = m.id /\ l[q[k].plci].st = "clearing"
              /\ \A j \in DOMAIN s : Live(s[j]) => s[j].plci # q[k].plci
          BY <1>7, <2>1, <4>1, <5>1 DEF Replied
        <5>3. l[m.plci].id = m.id /\ m.plci # q[k].plci /\ m.plci \in Plcis /\ m.id # 0
          BY <1>3, <1>4, <4>1, <5>2, FirstFacts
        <5>4. q[k].plci \in Plcis
          BY <2>1, <5>1, AnswerIn
        <5> QED  BY <5>2, <5>3, <5>4 DEF Numbered
      <4> QED  BY <4>1
    <3> QED  BY <1>5, <2>1, <3>1, <3>2 DEF Has
  <2>2. CASE k - Len(q) \in DOMAIN ms /\ q2[k] = ms[k - Len(q)]
    BY <1>7, <2>2 DEF Replies
  <2> QED  BY <1>2, <2>1, <2>2
<1> QED  BY <1>6, <1>7 DEF Alive

\* All of it: capi_event is through with its message.
LEMMA EventWhole ==
    ASSUME NEW s \in Seq(FromBrick), s # <<>>, NEW up, NEW l \in [Plcis -> Lines], NEW r \in Nat,
           NEW cs \in Seq(Records), NEW cs2, NEW q \in Seq(FromProg), NEW q2, NEW ms,
           NEW f \in [CallIds -> Seq(Blocks)], NEW f2,
           Replies(Head(s), ms, cs, cs2), Changes(Head(s), cs, cs2), Puts(up, q, q2, ms),
           Writes(Head(s), ms, f, f2), Whole(s, q, up, l, cs, r, f)
    PROVE  Whole(Tail(s), q2, up, l, cs2, r, f2)
<1> DEFINE m == Head(s)
<1>1. /\ Alone(up, q, l) /\ Told(s, up, l, r) /\ Ordered(s) /\ Numbered(s, l, cs, r)
      /\ Known(s, q, l, cs) /\ Replied(s, q, l) /\ Stored(q, l, f) /\ Right(s, q, up, l, cs)
  BY DEF Whole
<1>2. Alone(up, q2, l)
  BY <1>1 DEF Alone, Puts
<1>3. Told(Tail(s), up, l, r)
  BY <1>1, ToldTail
<1>4. Ordered(Tail(s))
  BY <1>1, OrderedTail
<1>5. Numbered(Tail(s), l, cs2, r)
  <2>1. Numbered(Tail(s), l, cs, r)
    BY <1>1, NumberedTail
  <2>2. CASE Kept(cs, cs2)
    BY <2>1, <2>2, NumberedKept
  <2>3. CASE m.type = "CONNECT_IND" /\ New(cs, cs2, m)
    <3>1. Live(m)
      BY <2>3 DEF Live, LiveTypes
    <3>2. m \in Tellings
      BY <1>1, <3>1, FirstFacts
    <3>3. ~up => \A p \in Plcis : l[p].id = 0
      BY <1>1 DEF Alone, Idle
    <3> QED  BY <1>1, <2>3, <3>2, <3>3, NumberedNew
  <2>4. ASSUME NEW i, Less(cs, cs2, i)  PROVE Numbered(Tail(s), l, cs2, r)
    BY <2>1, <2>4, NumberedLess
  <2> QED  BY <2>2, <2>3, <2>4 DEF Changes, Changed
<1>6. Known(Tail(s), q2, l, cs2)
  BY <1>1, EventKnown
<1>7. Replied(Tail(s), q2, l)
  BY <1>1, EventReplied
<1>8. Stored(q2, l, f2)
  BY <1>1, EventStored
<1>9. Right(Tail(s), q2, up, l, cs2)
  BY <1>1, EventRight
<1> QED  BY <1>2, <1>3, <1>4, <1>5, <1>6, <1>7, <1>8, <1>9 DEF Whole

--------------------------------------------------------------------------------
(* The descriptors *)

\* There is one for the file of every call: no more calls are there than have come in.
LEMMA FileOpens ==
    ASSUME calls \in Seq(Records), Len(calls) <= MaxCalls, cfd = 3
    PROVE  LowestFd(Open(calls, cfd)) \in Nat /\ LowestFd(Open(calls, cfd)) >= 4
<1> DEFINE S == (3 .. MaxCalls + 4) \ Open(calls, cfd)
           D == 4 .. MaxCalls + 4
           K == 1 .. Len(calls)
           h == [d \in D |-> CHOOSE k \in K : calls[k].fp = d]
<1>1. MaxCalls \in Nat /\ Len(calls) \in Nat /\ DOMAIN calls = K
  BY Bounds
<1>2. S # {}
  <2> SUFFICES ASSUME S = {}  PROVE FALSE
    OBVIOUS
  <2>1. \A d \in D : \E k \in K : calls[k].fp = d
    <3>1. ASSUME NEW d \in D  PROVE \E k \in K : calls[k].fp = d
      <4>1. d \in 3 .. MaxCalls + 4 /\ d # cfd
        BY <1>1
      <4>2. d \in Open(calls, cfd)
        BY <4>1
      <4> QED  BY <1>1, <4>1, <4>2 DEF Open
    <3> QED  BY <3>1
  <2>2. h \in [D -> K] /\ \A d \in D : calls[h[d]].fp = d
    BY <2>1
  <2>3. /\ IsFiniteSet(D) /\ Cardinality(D) = MaxCalls + 1
        /\ IsFiniteSet(K) /\ Cardinality(K) = Len(calls)
    <3>1. /\ 4 \in Int /\ MaxCalls + 4 \in Int /\ 1 \in Int /\ Len(calls) \in Int
      BY <1>1
    <3>2. \A a, b \in Int : /\ IsFiniteSet(a .. b)
                           /\ Cardinality(a .. b) = IF a > b THEN 0 ELSE b - a + 1
      BY FS_Interval
    <3>3. IsFiniteSet(D) /\ Cardinality(D) = MaxCalls + 1
      <4> DEFINE b == MaxCalls + 4
      <4>1. b \in Int /\ ~(4 > b) /\ b - 4 + 1 = MaxCalls + 1 /\ D = 4 .. b
        BY <1>1
      <4> HIDE DEF b, D
      <4>2. IsFiniteSet(4 .. b) /\ Cardinality(4 .. b) = IF 4 > b THEN 0 ELSE b - 4 + 1
        BY <3>1, <3>2, <4>1
      <4> QED  BY <4>1, <4>2
    <3>4. IsFiniteSet(K) /\ Cardinality(K) = Len(calls)
      <4> DEFINE b == Len(calls)
      <4>1. b \in Int /\ b \in Nat /\ K = 1 .. b
        BY <1>1
      <4> HIDE DEF b, K
      <4>2. IsFiniteSet(1 .. b) /\ Cardinality(1 .. b) = IF 1 > b THEN 0 ELSE b - 1 + 1
        BY <3>1, <3>2, <4>1
      <4>3. Cardinality(1 .. b) = b
        BY ONLY <4>1, <4>2
      <4>4. IsFiniteSet(K) /\ Cardinality(K) = b
        BY <4>1, <4>2, <4>3
      <4> QED  BY <4>4 DEF b
    <3> QED  BY <3>3, <3>4
  <2>4. Cardinality(K) < Cardinality(D)
    BY <1>1, <2>3
  <2> HIDE DEF h, D, K
  <2>5. \E c, d \in D : c # d /\ h[c] = h[d]
    BY <2>2, <2>3, <2>4, FS_PigeonHole
  <2> QED  BY <2>2, <2>5
<1>3. S \subseteq Nat /\ 3 \notin S /\ \A n \in S : n \in Nat /\ n >= 3
  BY <1>1 DEF Open
<1>4. PICK n \in S : \A o \in S : n <= o
  BY <1>2, <1>3, Least
<1>5. LowestFd(Open(calls, cfd)) \in S
  BY <1>4 DEF LowestFd, Min
<1> QED  BY <1>3, <1>5

\* As the files do not take it, the socket gets the number it had.
LEMMA SocketOpens ==
    ASSUME calls \in Seq(Records), cfd = 0
    PROVE  LowestFd(Open(calls, cfd)) = 3
<1> DEFINE S == (3 .. MaxCalls + 4) \ Open(calls, cfd)
<1>1. MaxCalls \in Nat /\ 3 \in 3 .. MaxCalls + 4 /\ \A n \in S : n >= 3 /\ n \in Nat
  BY Bounds
<1>2. \A k \in DOMAIN calls : calls[k].fp # 3
  BY DEF Records
<1>3. 3 \in S
  BY <1>1, <1>2 DEF Open
<1> QED  BY <1>1, <1>3 DEF LowestFd, Min

--------------------------------------------------------------------------------
(* capi_event: what each message makes of the state *)

\* One or two responses are sent.
LEMMA OneSent ==
    ASSUME capi \in Tellings, NEW t \in AnswerTypes, NEW a \in Nat
    PROVE  /\ <<About(t, a)>> \in Seq(Answers) /\ DOMAIN <<About(t, a)>> = {1}
           /\ Len(<<About(t, a)>>) = 1
           /\ <<About(t, a)>>[1] = About(t, a)
<1>1. About(t, a) \in Answers
  BY DEF Tellings, Answers, About
<1> QED  BY <1>1

LEMMA TwoSent ==
    ASSUME capi \in Tellings, NEW t \in AnswerTypes, NEW a \in Nat, NEW u \in AnswerTypes, NEW b \in Nat
    PROVE  /\ <<About(t, a), About(u, b)>> \in Seq(Answers)
           /\ DOMAIN <<About(t, a), About(u, b)>> = {1, 2}
           /\ Len(<<About(t, a), About(u, b)>>) = 2
           /\ <<About(t, a), About(u, b)>>[1] = About(t, a)
           /\ <<About(t, a), About(u, b)>>[2] = About(u, b)
<1>1. About(t, a) \in Answers /\ About(u, b) \in Answers
  BY DEF Tellings, Answers, About
<1> QED  BY <1>1

\* What the responses and the files are worth.
Proper(m, ms, cs, cs2, f, f2, dead) ==
    /\ Replies(m, ms, cs, cs2) /\ Writes(m, ms, f, f2)
    /\ m.type = "CONNECTB3_IND" => HasB3(cs2, m.id)
    /\ m.type = "DISCONNECT_IND" => ~Has(cs2, m.id)
    /\ IF m.type = "DATAB3_IND" THEN Adds(m, f, f2) \/ FilesFail \/ dead ELSE f2 = f

\* capi_event is through with its message: it has sent ms and goes on at next.
Outcome(ms, next) ==
    /\ ms \in Seq(Answers) /\ next \in {"poll", "exit", "killed"} /\ Sends(ms, next)
    /\ Changed(capi, calls, calls') /\ files' \in [CallIds -> Seq(Blocks)]
    /\ Whole(Coming, toBrick, conn = "up", line, calls, rung, files)
       => Proper(capi, ms, calls, calls', files, files', pc' = "killed")

\* A message about a call.
LEMMA AtTelling ==
    ASSUME Base, pc = "event", Live(capi)
    PROVE  /\ capi \in Tellings /\ calls \in Seq(Records) /\ files \in [CallIds -> Seq(Blocks)]
           /\ capi.id \in CallIds /\ capi.plci \in Plcis /\ (capi.b3 <=> capi.type \in NcciTypes)
           /\ Ncnt \in Nat
<1>1. capi \in FromBrick
  BY AtEvent DEF Base
<1> QED  BY <1>1, LiveIn, Bounds DEF Base, Typed

\* A call with another number of digits.
Dialled(c, n, st) == [c EXCEPT !.ncnt = n, !.state = st]

LEMMA RecordWith ==
    ASSUME NEW c \in Records, NEW n \in 0 .. Ncnt, NEW st \in States, st = "OverlapReceiving" => n < Ncnt
    PROVE  /\ Dialled(c, n, st) \in Records /\ Dialled(c, n, st).id = c.id
           /\ Dialled(c, n, st).plci = c.plci /\ Dialled(c, n, st).b3 = c.b3
           /\ Dialled(c, n, st).ncnt = n
           /\ st = c.state => Dialled(c, n, st) = [c EXCEPT !.ncnt = n]
BY DEF Records, Dialled

\* The calls stay as they are, but for one.
LEMMA SameCalls ==
    ASSUME NEW m, NEW cs \in Seq(Records)
    PROVE  Changed(m, cs, cs)
BY DEF Changed, Kept

LEMMA OneChanged ==
    ASSUME NEW m, NEW cs \in Seq(Records), NEW cs2, NEW k \in DOMAIN cs, NEW x \in Records,
           cs2 = [cs EXCEPT ![k] = x],
           x.id = cs[k].id, x.plci = cs[k].plci, cs[k].b3 => x.b3, x.ncnt = cs[k].ncnt
    PROVE  Changed(m, cs, cs2)
<1>1. /\ cs2 \in Seq(Records) /\ Len(cs2) = Len(cs) /\ DOMAIN cs2 = DOMAIN cs
      /\ cs2[k] = x /\ \A j \in DOMAIN cs : j # k => cs2[j] = cs[j]
  OBVIOUS
<1>2. Kept(cs, cs2) /\ \A j \in DOMAIN cs : cs2[j].ncnt = cs[j].ncnt
  BY <1>1 DEF Kept
<1> QED  BY <1>2 DEF Changed

\* NEWSTATE.
LEMMA StateChanged ==
    ASSUME NEW m, NEW cs \in Seq(Records), NEW k, k # 0 => k \in DOMAIN cs,
           NEW st \in States \ {"OverlapReceiving"}
    PROVE  Changed(m, cs, NewState(cs, k, st))
<1>1. CASE k = 0
  BY <1>1, SameCalls DEF NewState
<1>2. CASE k # 0
  <2> DEFINE x == [cs[k] EXCEPT !.state = st]
  <2>1. k \in DOMAIN cs /\ cs[k] \in Records
    BY <1>2
  <2>2. x \in Records /\ x.id = cs[k].id /\ x.plci = cs[k].plci /\ x.b3 = cs[k].b3 /\ x.ncnt = cs[k].ncnt
    BY <2>1 DEF Records
  <2>4. cs[k].b3 => x.b3
    BY <2>2
  <2>3. NewState(cs, k, st) = [cs EXCEPT ![k] = x]
    BY <1>2 DEF NewState
  <2> HIDE DEF x
  <2> QED  BY <2>1, <2>2, <2>3, <2>4, OneChanged
<1> QED  BY <1>1, <1>2

\* createNewCallPtr.
LEMMA EnqueuedNew ==
    ASSUME capi \in Tellings, calls \in Seq(Records), NEW st \in States,
           st = "OverlapReceiving" => 0 < Ncnt
    PROVE  New(calls, Enqueued(st), capi) /\ Has(Enqueued(st), capi.id)
<1> DEFINE x == [id |-> capi.id, plci |-> capi.plci, b3 |-> FALSE, state |-> st, ncnt |-> 0, fp |-> 0]
<1>1. x \in Records
  BY Bounds DEF Records, Tellings
<1>2. x.id = capi.id /\ x.plci = capi.plci /\ x.ncnt = 0
  OBVIOUS
<1>3. Enqueued(st) = <<x>> \o calls
  BY DEF Enqueued
<1> HIDE DEF x
<1> DEFINE y == <<x>> \o calls
<1>4. /\ y \in Seq(Records) /\ Len(y) = Len(calls) + 1 /\ Len(calls) \in Nat
      /\ DOMAIN calls = 1 .. Len(calls) /\ DOMAIN y = 1 .. Len(calls) + 1
      /\ y[1] = x /\ \A k \in DOMAIN calls : y[k + 1] = calls[k]
  <2>1. <<x>> \in Seq(Records) /\ Len(<<x>>) = 1 /\ <<x>>[1] = x
    BY <1>1
  <2> QED  BY <2>1
<1> HIDE DEF y
<1>5. New(calls, y, capi) /\ Has(y, capi.id)
  BY <1>2, <1>4 DEF New, Has
<1> QED  BY <1>3, <1>5 DEF y

\* CAPI2_CONNECT_IND
LEMMA ConnectIndOutcome ==
    ASSUME Base, ConnectInd
    PROVE  \E ms, next : Outcome(ms, next)
<1>1. pc = "event" /\ capi.type = "CONNECT_IND" /\ Live(capi) /\ files' = files
  BY DEF ConnectInd, Event, Live, LiveTypes
<1>2. /\ capi \in Tellings /\ calls \in Seq(Records) /\ files \in [CallIds -> Seq(Blocks)]
      /\ Ncnt \in Nat
  BY <1>1, AtTelling
<1>3. ASSUME NEW ms \in Seq(Answers), Sends(ms, "poll"), Changed(capi, calls, calls'),
             Replies(capi, ms, calls, calls'), \A k \in DOMAIN ms : ms[k].type # "DATAB3_RESP"
      PROVE  Outcome(ms, "poll")
  <2>1. Proper(capi, ms, calls, calls', files, files', pc' = "killed")
    BY <1>1, <1>3 DEF Proper, Writes
  <2> QED  BY <1>1, <1>2, <1>3, <2>1 DEF Outcome
<1>4. CASE Ncnt > 0 /\ calls' = Enqueued("OverlapReceiving") /\ Sends(<<>>, "poll")
  <2>1. New(calls, calls', capi) /\ Has(calls', capi.id)
    BY <1>2, <1>4, EnqueuedNew DEF States
  <2>2. <<>> \in Seq(Answers) /\ DOMAIN <<>> = {}
    OBVIOUS
  <2>3. Replies(capi, <<>>, calls, calls')
    BY <2>1, <2>2 DEF Replies
  <2> QED  BY <1>1, <1>3, <1>4, <2>1, <2>2, <2>3 DEF Changed
<1> DEFINE ms(a) == <<About("CONNECT_RESP", a)>>
<1>5. ASSUME NEW a \in Nat
      PROVE  /\ ms(a) \in Seq(Answers) /\ DOMAIN ms(a) = {1} /\ Len(ms(a)) = 1
             /\ ms(a)[1].type = "CONNECT_RESP" /\ ms(a)[1].arg = a
             /\ ms(a)[1].plci = capi.plci /\ ms(a)[1].id = capi.id
  <2>1. "CONNECT_RESP" \in AnswerTypes
    BY DEF AnswerTypes
  <2>2. ms(a) \in Seq(Answers) /\ DOMAIN ms(a) = {1} /\ Len(ms(a)) = 1 /\ ms(a)[1] = About("CONNECT_RESP", a)
    BY <1>2, <2>1, OneSent
  <2> HIDE DEF ms
  <2> QED  BY <2>2 DEF About
<1> HIDE DEF ms
<1>6. CASE Ncnt = 0 /\ Matches /\ calls' = Enqueued("D_ConnectPending") /\ Sends(ms(0), "poll")
  <2>1. New(calls, calls', capi) /\ Has(calls', capi.id)
    BY <1>2, <1>6, EnqueuedNew DEF States
  <2>2. Replies(capi, ms(0), calls, calls')
    BY <1>1, <1>5, <1>6, <2>1 DEF Replies, Closing, Matches
  <2> QED  BY <1>1, <1>3, <1>5, <1>6, <2>1, <2>2 DEF Changed
<1>7. ASSUME NEW a \in Nat, a # 0, Changed(capi, calls, calls'), Sends(ms(a), "poll")
      PROVE  Outcome(ms(a), "poll")
  <2>1. Refuses(ms(a)[1], capi.plci)
    BY <1>5, <1>7 DEF Refuses
  <2>2. Replies(capi, ms(a), calls, calls')
    BY <1>1, <1>5, <1>7, <2>1 DEF Replies, Closing
  <2> QED  BY <1>3, <1>5, <1>7, <2>2
<1>8. CASE calls' = NewState(calls, ByIdent, "IgnoreDisconnect") /\ Sends(ms(1), "poll")
  <2>1. Changed(capi, calls, calls')
    BY <1>2, <1>8, StateChanged, Lookup DEF States
  <2> QED  BY <1>7, <1>8, <2>1
<1>9. CASE calls' = calls /\ Sends(ms(8), "poll")
  <2>1. Changed(capi, calls, calls')
    BY <1>2, <1>9, SameCalls
  <2> QED  BY <1>7, <1>9, <2>1
<1>10. \/ Ncnt > 0 /\ calls' = Enqueued("OverlapReceiving") /\ Sends(<<>>, "poll")
       \/ Ncnt = 0 /\ Matches /\ calls' = Enqueued("D_ConnectPending") /\ Sends(ms(0), "poll")
       \/ calls' = NewState(calls, ByIdent, "IgnoreDisconnect") /\ Sends(ms(1), "poll")
       \/ calls' = calls /\ Sends(ms(8), "poll")
  BY DEF ConnectInd, ms
<1> QED  BY <1>4, <1>6, <1>8, <1>9, <1>10

\* CAPI2_INFO_IND
LEMMA InfoIndOutcome ==
    ASSUME Base, InfoInd
    PROVE  \E ms, next : Outcome(ms, next)
<1>1. pc = "event" /\ capi.type = "INFO_IND" /\ Live(capi) /\ files' = files
  BY DEF InfoInd, Event, Live, LiveTypes
<1>2. /\ capi \in Tellings /\ calls \in Seq(Records) /\ files \in [CallIds -> Seq(Blocks)]
      /\ Ncnt \in Nat /\ ~capi.b3
  BY <1>1, AtTelling DEF NcciTypes
<1>3. ByIdent # 0 => ByIdent \in DOMAIN calls /\ calls[ByIdent].plci = capi.plci
  BY <1>2, Lookup
<1> DEFINE k == ByIdent
           complete == Waits(k) /\ Collected(k)[k].ncnt >= Ncnt
           one == <<About("INFO_RESP", 0)>>
           two(a) == <<About("INFO_RESP", 0), About("CONNECT_RESP", a)>>
\* one more digit of the k-th call
<1> DEFINE Counted == /\ Kept(calls, calls')
                      /\ \A j \in DOMAIN calls : calls'[j].ncnt <= calls[j].ncnt + One(calls[j].plci = capi.plci)
<1>4. ASSUME NEW x \in Records, k # 0, x.id = calls[k].id, x.plci = calls[k].plci,
             x.b3 = calls[k].b3, x.ncnt = calls[k].ncnt + 1, calls' = [calls EXCEPT ![k] = x]
      PROVE  Counted
  <2>1. /\ calls' \in Seq(Records) /\ Len(calls') = Len(calls) /\ DOMAIN calls' = DOMAIN calls
        /\ calls'[k] = x /\ \A j \in DOMAIN calls : j # k => calls'[j] = calls[j]
        /\ \A j \in DOMAIN calls : calls[j].ncnt \in Nat
    <3>1. \A j \in DOMAIN calls : calls[j].ncnt \in Nat
      BY <1>2 DEF Records
    <3> HIDE DEF k
    <3> QED  BY <1>2, <1>3, <1>4, <3>1 DEF k
  <2>2. Kept(calls, calls')
    BY <1>4, <2>1 DEF Kept
  <2>3. ASSUME NEW j \in DOMAIN calls
        PROVE  calls'[j].ncnt <= calls[j].ncnt + One(calls[j].plci = capi.plci)
    <3>1. CASE j = k
      BY <1>3, <1>4, <2>1, <3>1 DEF One
    <3>2. CASE j # k
      <4>1. calls'[j] = calls[j] /\ calls[j].ncnt \in Nat
        BY <2>1, <3>2
      <4> QED  BY <4>1 DEF One
    <3> QED  BY <3>1, <3>2
  <2> QED  BY <2>2, <2>3
<1>5. Counted => Changed(capi, calls, calls')
  BY <1>1 DEF Changed
<1> HIDE DEF Counted
<1>6. Waits(k) => /\ k # 0 /\ k \in DOMAIN calls /\ calls[k] \in Records /\ calls[k].state = "OverlapReceiving"
                  /\ Collected(k) = [calls EXCEPT ![k].ncnt = calls[k].ncnt + 1]
                  /\ Collected(k)[k].ncnt = calls[k].ncnt + 1 /\ calls[k].ncnt < Ncnt
                  /\ calls[k].ncnt \in 0 .. Ncnt
  <2>1. ASSUME Waits(k)
        PROVE  /\ k # 0 /\ k \in DOMAIN calls /\ calls[k] \in Records /\ calls[k].state = "OverlapReceiving"
               /\ Collected(k) = [calls EXCEPT ![k].ncnt = calls[k].ncnt + 1]
    BY <1>2, <1>3, <2>1 DEF Waits, Collected
  <2>2. ASSUME Waits(k)  PROVE calls[k].ncnt < Ncnt /\ calls[k].ncnt \in 0 .. Ncnt
    BY <2>1, <2>2 DEF Records
  <2>3. ASSUME Waits(k)  PROVE Collected(k)[k].ncnt = calls[k].ncnt + 1
    <3>1. k \in DOMAIN calls /\ calls[k] \in Records
          /\ Collected(k) = [calls EXCEPT ![k] = [calls[k] EXCEPT !.ncnt = calls[k].ncnt + 1]]
      BY <1>2, <2>1, <2>3
    <3>2. Collected(k)[k] = [calls[k] EXCEPT !.ncnt = calls[k].ncnt + 1]
      BY <3>1
    <3> QED  BY <3>1, <3>2 DEF Records
  <2> QED  BY <2>1, <2>2, <2>3
<1>7. CASE ~complete /\ calls' = Collected(k) /\ Sends(one, "poll")
  <2>1. Changed(capi, calls, calls')
    <3>1. CASE ~Waits(k)
      BY <1>2, <1>7, <3>1, SameCalls DEF Collected
    <3>2. CASE Waits(k)
      <4> DEFINE x == Dialled(calls[k], calls[k].ncnt + 1, calls[k].state)
      <4>1. calls[k].ncnt + 1 < Ncnt
        <5>1. ~(Collected(k)[k].ncnt >= Ncnt)
          BY <1>7, <3>2
        <5> QED  BY <1>2, <1>6, <3>2, <5>1
      <4>2. x \in Records /\ x.id = calls[k].id /\ x.plci = calls[k].plci /\ x.b3 = calls[k].b3
            /\ x.ncnt = calls[k].ncnt + 1 /\ x = [calls[k] EXCEPT !.ncnt = calls[k].ncnt + 1]
        <5>1. calls[k] \in Records /\ calls[k].ncnt + 1 \in 0 .. Ncnt /\ calls[k].state \in States
          BY <1>2, <1>6, <3>2, <4>1 DEF Records
        <5> QED  BY <4>1, <5>1, RecordWith
      <4>3. calls' = [calls EXCEPT ![k] = x]
        BY <1>6, <1>7, <3>2, <4>2
      <4> HIDE DEF x
      <4> QED  BY <1>4, <1>5, <1>6, <3>2, <4>2, <4>3
    <3> QED  BY <3>1, <3>2
  <2>2. /\ one \in Seq(Answers) /\ DOMAIN one = {1} /\ one[1].type = "INFO_RESP"
        /\ one[1].plci = capi.plci /\ one[1].id = capi.id
    <3>1. "INFO_RESP" \in AnswerTypes
      BY DEF AnswerTypes
    <3>2. one \in Seq(Answers) /\ DOMAIN one = {1} /\ one[1] = About("INFO_RESP", 0)
      BY <1>2, <3>1, OneSent
    <3> HIDE DEF one
    <3> QED  BY <3>2 DEF About
  <2> HIDE DEF one
  <2>3. Replies(capi, one, calls, calls')
    BY <1>1, <2>2 DEF Replies, Closing
  <2>4. Proper(capi, one, calls, calls', files, files', pc' = "killed")
    BY <1>1, <2>2, <2>3 DEF Proper, Writes
  <2>5. Outcome(one, "poll")
    BY <1>1, <1>2, <1>7, <2>1, <2>2, <2>4 DEF Outcome
  <2> QED  BY <2>5
<1>8. ASSUME NEW st \in {"D_ConnectPending", "IgnoreDisconnect"}, NEW a \in {0, 1}, complete,
             calls' = NewState(Collected(k), k, st), Sends(two(a), "poll"), a = 0 => Matches
      PROVE  Outcome(two(a), "poll")
  <2>1. Changed(capi, calls, calls')
    <3> DEFINE x == Dialled(calls[k], calls[k].ncnt + 1, st)
    <3>1. x \in Records /\ x.id = calls[k].id /\ x.plci = calls[k].plci /\ x.b3 = calls[k].b3
          /\ x.ncnt = calls[k].ncnt + 1
      <4>1. /\ calls[k] \in Records /\ calls[k].ncnt + 1 \in 0 .. Ncnt /\ st \in States
            /\ st # "OverlapReceiving"
        BY <1>2, <1>6, <1>8 DEF States
      <4> QED  BY <4>1, RecordWith
    <3>2. calls' = [calls EXCEPT ![k] = x]
      <4>1. calls' = [Collected(k) EXCEPT ![k].state = st]
        BY <1>6, <1>8 DEF NewState
      <4> QED  BY <1>2, <1>6, <1>8, <4>1 DEF Dialled
    <3> HIDE DEF x
    <3> QED  BY <1>4, <1>5, <1>6, <1>8, <3>1, <3>2
  <2>2. /\ two(a) \in Seq(Answers) /\ DOMAIN two(a) = {1, 2}
        /\ two(a)[1].type = "INFO_RESP" /\ two(a)[2].type = "CONNECT_RESP" /\ two(a)[2].arg = a
        /\ \A i \in {1, 2} : two(a)[i].plci = capi.plci /\ two(a)[i].id = capi.id
    <3>1. "INFO_RESP" \in AnswerTypes /\ "CONNECT_RESP" \in AnswerTypes
      BY DEF AnswerTypes
    <3>2. /\ two(a) \in Seq(Answers) /\ DOMAIN two(a) = {1, 2} /\ two(a)[1] = About("INFO_RESP", 0)
          /\ two(a)[2] = About("CONNECT_RESP", a)
      BY <1>2, <3>1, TwoSent
    <3> HIDE DEF two
    <3> QED  BY <3>2 DEF About
  <2> HIDE DEF two
  <2>3. ASSUME Whole(Coming, toBrick, conn = "up", line, calls, rung, files)
        PROVE  Proper(capi, two(a), calls, calls', files, files', pc' = "killed")
    <3>1. \A j \in DOMAIN calls : calls[j].id = capi.id => calls[j].ncnt + 1 >= Ncnt
      <4>1. ASSUME NEW j \in DOMAIN calls, calls[j].id = capi.id  PROVE calls[j].ncnt + 1 >= Ncnt
        <5>1. Numbered(Coming, line, calls, rung)
          BY <2>3 DEF Whole
        <5>2. k = j
          BY <1>1, <1>2, <4>1, <5>1, FindsIt DEF Base
        <5> QED  BY <1>6, <1>8, <5>2
      <4> QED  BY <4>1
    <3>2. Replies(capi, two(a), calls, calls')
      BY <1>1, <1>8, <2>2, <3>1 DEF Replies, Closing, Matches
    <3> QED  BY <1>1, <2>2, <3>2 DEF Proper, Writes
  <2> QED  BY <1>1, <1>2, <1>8, <2>1, <2>2, <2>3 DEF Outcome
<1>9. \/ ~complete /\ calls' = Collected(k) /\ Sends(one, "poll")
      \/ complete /\ Matches /\ calls' = NewState(Collected(k), k, "D_ConnectPending") /\ Sends(two(0), "poll")
      \/ complete /\ calls' = NewState(Collected(k), k, "IgnoreDisconnect") /\ Sends(two(1), "poll")
  BY DEF InfoInd
<1> HIDE DEF complete, two, one, k
<1> QED  BY <1>7, <1>8, <1>9

\* The responses neither close nor accept the call, nor acknowledge a block.
Plain(m, ms) ==
    \A k \in DOMAIN ms : /\ ms[k].plci = m.plci /\ ms[k].id = m.id
                         /\ ms[k].type \notin {"DISCONNECT_RESP", "CONNECT_RESP", "DATAB3_RESP"}

LEMMA PlainSent ==
    ASSUME capi \in Tellings, capi.type # "CONNECT_IND", NEW ms \in Seq(Answers), NEW cs2,
           Plain(capi, ms)
    PROVE  Replies(capi, ms, calls, cs2) /\ Writes(capi, ms, files, files)
BY DEF Replies, Writes, Closing, Live, Tellings, Plain

\* CAPI2_CONNECTACTIVE_IND
LEMMA ConnectActiveIndOutcome ==
    ASSUME Base, ConnectActiveInd
    PROVE  \E ms, next : Outcome(ms, next)
<1>1. pc = "event" /\ capi.type = "CONNECTACTIVE_IND" /\ Live(capi) /\ files' = files
  BY DEF ConnectActiveInd, Event, Live, LiveTypes
<1>2. capi \in Tellings /\ calls \in Seq(Records) /\ files \in [CallIds -> Seq(Blocks)]
  BY <1>1, AtTelling
<1> DEFINE ms == <<About("CONNECTACTIVE_RESP", 0)>>
           next == IF ByIdent = 0 THEN "killed" ELSE "poll"
<1>3. calls' = NewState(calls, ByIdent, "D_Connected") /\ Sends(ms, next)
  BY DEF ConnectActiveInd
<1>4. Changed(capi, calls, calls')
  BY <1>2, <1>3, StateChanged, Lookup DEF States
<1>5. ms \in Seq(Answers) /\ DOMAIN ms = {1} /\ ms[1] = About("CONNECTACTIVE_RESP", 0)
  <2>1. "CONNECTACTIVE_RESP" \in AnswerTypes
    BY DEF AnswerTypes
  <2> QED  BY <1>2, <2>1, OneSent
<1> HIDE DEF ms
<1>6. Replies(capi, ms, calls, calls') /\ Writes(capi, ms, files, files)
  <2>1. Plain(capi, ms)
    BY <1>5 DEF About, Plain
  <2> QED  BY <1>1, <1>2, <1>5, <2>1, PlainSent
<1>7. Proper(capi, ms, calls, calls', files, files', pc' = "killed")
  BY <1>1, <1>6 DEF Proper
<1>8. Outcome(ms, next)
  BY <1>1, <1>2, <1>3, <1>4, <1>5, <1>7 DEF Outcome
<1> QED  BY <1>8

\* CAPI2_CONNECTB3_IND
LEMMA ConnectB3IndOutcome ==
    ASSUME Base, ConnectB3Ind
    PROVE  \E ms, next : Outcome(ms, next)
<1>1. pc = "event" /\ capi.type = "CONNECTB3_IND" /\ Live(capi) /\ files' = files
  BY DEF ConnectB3Ind, Event, Live, LiveTypes
<1>2. capi \in Tellings /\ calls \in Seq(Records) /\ files \in [CallIds -> Seq(Blocks)]
  BY <1>1, AtTelling
<1>3. ByPlci # 0 => ByPlci \in DOMAIN calls /\ calls[ByPlci].plci = capi.plci
  BY <1>2, Lookup
<1>4. ASSUME Whole(Coming, toBrick, conn = "up", line, calls, rung, files)
      PROVE  ByPlci # 0 /\ calls[ByPlci].id = capi.id
  <2>1. Ordered(Coming) /\ Numbered(Coming, line, calls, rung) /\ Known(Coming, toBrick, line, calls)
    BY <1>4 DEF Whole
  <2>2. ByPlci \in DOMAIN calls /\ calls[ByPlci].id = capi.id
    BY <1>1, <2>1, AcceptedFound DEF Base, NcciTypes
  <2> QED  BY <1>2, <2>2
<1>5. CASE ByPlci = 0
  <2>1. calls' = calls /\ Sends(<<>>, "poll")
    BY <1>5 DEF ConnectB3Ind
  <2>2. Changed(capi, calls, calls') /\ <<>> \in Seq(Answers)
    BY <1>2, <2>1, SameCalls
  <2>3. Outcome(<<>>, "poll")
    BY <1>1, <1>2, <1>4, <1>5, <2>1, <2>2 DEF Outcome
  <2> QED  BY <2>3
<1>6. CASE ByPlci # 0
  <2> DEFINE ms == <<About("CONNECTB3_RESP", 0)>>
             x == [calls[ByPlci] EXCEPT !.state = "B_ConnectPending", !.b3 = TRUE]
  <2>1. calls' = [NewState(calls, ByPlci, "B_ConnectPending") EXCEPT ![ByPlci].b3 = TRUE]
        /\ Sends(ms, "poll")
    BY <1>6 DEF ConnectB3Ind
  <2>2. calls' = [calls EXCEPT ![ByPlci] = x]
    BY <1>2, <1>3, <1>6, <2>1 DEF NewState
  <2>3. calls[ByPlci] \in Records
    BY <1>2, <1>3, <1>6
  <2>4. x \in Records /\ x.id = calls[ByPlci].id /\ x.plci = calls[ByPlci].plci /\ x.b3
        /\ x.ncnt = calls[ByPlci].ncnt
    BY <2>3 DEF Records, States
  <2> HIDE DEF x
  <2>5. Changed(capi, calls, calls')
    BY <1>2, <1>3, <1>6, <2>2, <2>4, OneChanged
  <2>6. DOMAIN calls' = DOMAIN calls /\ calls'[ByPlci] = x
    BY <1>2, <1>3, <1>6, <2>2
  <2>7. ms \in Seq(Answers) /\ DOMAIN ms = {1} /\ ms[1] = About("CONNECTB3_RESP", 0)
    <3>1. "CONNECTB3_RESP" \in AnswerTypes
      BY DEF AnswerTypes
    <3> QED  BY <1>2, <3>1, OneSent
  <2> HIDE DEF ms
  <2>8. Replies(capi, ms, calls, calls') /\ Writes(capi, ms, files, files)
    <3>1. Plain(capi, ms)
      BY <2>7 DEF About, Plain
    <3> QED  BY <1>1, <1>2, <2>7, <3>1, PlainSent
  <2>9. ASSUME Whole(Coming, toBrick, conn = "up", line, calls, rung, files)
        PROVE  Proper(capi, ms, calls, calls', files, files', pc' = "killed")
    <3>1. HasB3(calls', capi.id)
      BY <1>3, <1>4, <1>6, <2>4, <2>6, <2>9 DEF HasB3
    <3> QED  BY <1>1, <2>8, <3>1 DEF Proper
  <2>10. Outcome(ms, "poll")
    BY <1>1, <1>2, <2>1, <2>5, <2>7, <2>9 DEF Outcome
  <2> QED  BY <2>10
<1> QED  BY <1>5, <1>6

\* CAPI2_CONNECTB3ACTIVE_IND
LEMMA ConnectB3ActiveIndOutcome ==
    ASSUME Base, ConnectB3ActiveInd
    PROVE  \E ms, next : Outcome(ms, next)
<1>1. pc = "event" /\ capi.type = "CONNECTB3ACTIVE_IND" /\ Live(capi) /\ files' = files
  BY DEF ConnectB3ActiveInd, Event, Live, LiveTypes
<1>2. capi \in Tellings /\ calls \in Seq(Records) /\ files \in [CallIds -> Seq(Blocks)]
  BY <1>1, AtTelling
<1>3. ByIdent # 0 => ByIdent \in DOMAIN calls /\ calls[ByIdent] \in Records
  BY <1>2, Lookup
<1>4. ASSUME NEW ms \in Seq(Answers), Sends(ms, "poll"), Changed(capi, calls, calls'),
             \A k \in DOMAIN ms : /\ ms[k].plci = capi.plci /\ ms[k].id = capi.id
                                  /\ ms[k].type \in {"CONNECTB3ACTIVE_RESP", "DISCONNECTB3_REQ"}
      PROVE  Outcome(ms, "poll")
  <2>1. Replies(capi, ms, calls, calls') /\ Writes(capi, ms, files, files)
    <3>1. Plain(capi, ms)
      BY <1>4 DEF Plain
    <3> QED  BY <1>1, <1>2, <1>4, <3>1, PlainSent
  <2>2. Proper(capi, ms, calls, calls', files, files', pc' = "killed")
    BY <1>1, <2>1 DEF Proper
  <2> QED  BY <1>1, <1>2, <1>4, <2>2 DEF Outcome
<1> DEFINE one == <<About("CONNECTB3ACTIVE_RESP", 0)>>
           two == <<About("CONNECTB3ACTIVE_RESP", 0), About("DISCONNECTB3_REQ", 0)>>
<1>5. /\ one \in Seq(Answers) /\ DOMAIN one = {1} /\ one[1] = About("CONNECTB3ACTIVE_RESP", 0)
      /\ two \in Seq(Answers) /\ DOMAIN two = {1, 2} /\ two[1] = About("CONNECTB3ACTIVE_RESP", 0)
      /\ two[2] = About("DISCONNECTB3_REQ", 0)
  <2>1. "CONNECTB3ACTIVE_RESP" \in AnswerTypes /\ "DISCONNECTB3_REQ" \in AnswerTypes
    BY DEF AnswerTypes
  <2> QED  BY <1>2, <2>1, OneSent, TwoSent
<1>6. /\ DoDisconnect("Connected").state = "B_DisconnectPending"
      /\ one \o DoDisconnect("Connected").ms = two
  <2>1. DoDisconnect("Connected") = [state |-> "B_DisconnectPending", ms |-> <<About("DISCONNECTB3_REQ", 0)>>]
    BY DEF DoDisconnect
  <2>2. DoDisconnect("Connected").state = "B_DisconnectPending"
        /\ DoDisconnect("Connected").ms = <<About("DISCONNECTB3_REQ", 0)>>
    BY <2>1
  <2>3. one \o <<About("DISCONNECTB3_REQ", 0)>> = two
    BY PairOf
  <2> QED  BY <2>2, <2>3
<1>7. \/ calls' = calls /\ Sends(one, "poll")
      \/ ByIdent # 0 /\ calls' = WithFile(ByIdent) /\ Sends(one, "poll")
      \/ ByIdent # 0 /\ calls' = NewState(calls, ByIdent, "B_DisconnectPending") /\ Sends(two, "poll")
  BY <1>6 DEF ConnectB3ActiveInd
<1> HIDE DEF one, two
<1>8. \A k \in DOMAIN one : /\ one[k].plci = capi.plci /\ one[k].id = capi.id
                            /\ one[k].type \in {"CONNECTB3ACTIVE_RESP", "DISCONNECTB3_REQ"}
  BY <1>5 DEF About
<1>9. \A k \in DOMAIN two : /\ two[k].plci = capi.plci /\ two[k].id = capi.id
                            /\ two[k].type \in {"CONNECTB3ACTIVE_RESP", "DISCONNECTB3_REQ"}
  BY <1>5 DEF About
<1>10. CASE calls' = calls /\ Sends(one, "poll")
  BY <1>2, <1>4, <1>5, <1>8, <1>10, SameCalls
<1>11. CASE ByIdent # 0 /\ calls' = NewState(calls, ByIdent, "B_DisconnectPending") /\ Sends(two, "poll")
  <2>1. Changed(capi, calls, calls')
    BY <1>2, <1>3, <1>11, StateChanged DEF States
  <2> QED  BY <1>4, <1>5, <1>9, <1>11, <2>1
<1>12. CASE ByIdent # 0 /\ calls' = WithFile(ByIdent) /\ Sends(one, "poll")
  <2> DEFINE k == ByIdent
             fd == LowestFd(Open(calls, cfd))
             x == [calls[k] EXCEPT !.state = "Connected", !.fp = fd]
  <2>1. fd \in Nat /\ fd >= 4
    <3>1. Len(calls) + Number(Coming, Offers) <= rung /\ rung <= MaxCalls
      BY DEF Base, Room, Control
    <3>2. Number(Coming, Offers) \in Nat /\ Len(calls) \in Nat /\ MaxCalls \in Nat /\ rung \in Nat
      BY <1>1, <1>2, AtEvent, NumberType, Bounds DEF Base, Typed
    <3>3. Len(calls) <= MaxCalls
      BY <3>1, <3>2
    <3>4. cfd = 3
      BY <1>1 DEF Base, Control, Typed
    <3> QED  BY <1>2, <3>3, <3>4, FileOpens
  <2>2. calls' = [calls EXCEPT ![k] = x]
    BY <1>2, <1>3, <1>12 DEF WithFile
  <2> HIDE DEF fd
  <2>3. x \in Records /\ x.id = calls[k].id /\ x.plci = calls[k].plci /\ x.b3 = calls[k].b3
        /\ x.ncnt = calls[k].ncnt
    BY <1>3, <1>12, <2>1 DEF Records, States
  <2>5. calls[k].b3 => x.b3
    BY <2>3
  <2> HIDE DEF x
  <2>4. Changed(capi, calls, calls')
    BY <1>2, <1>3, <1>12, <2>2, <2>3, <2>5, OneChanged
  <2> QED  BY <1>4, <1>5, <1>8, <1>12, <2>4
<1> QED  BY <1>7, <1>10, <1>11, <1>12

\* CAPI2_DATAB3_IND
LEMMA DataB3IndOutcome ==
    ASSUME Base, DataB3Ind
    PROVE  \E ms, next : Outcome(ms, next)
<1>1. pc = "event" /\ capi.type = "DATAB3_IND" /\ Live(capi) /\ calls' = calls
  BY DEF DataB3Ind, Event, Live, LiveTypes
<1>2. /\ capi \in Tellings /\ calls \in Seq(Records) /\ files \in [CallIds -> Seq(Blocks)]
      /\ capi.id \in CallIds /\ capi.arg \in Nat
  BY <1>1, AtTelling DEF Tellings
<1>3. ByIdent # 0 => ByIdent \in DOMAIN calls /\ calls[ByIdent] \in Records
  BY <1>2, Lookup
<1>4. ASSUME Whole(Coming, toBrick, conn = "up", line, calls, rung, files)
      PROVE  ByIdent # 0 /\ calls[ByIdent].id = capi.id
  <2>1. Ordered(Coming) /\ Numbered(Coming, line, calls, rung) /\ Known(Coming, toBrick, line, calls)
    BY <1>4 DEF Whole
  <2>2. ByIdent \in DOMAIN calls /\ calls[ByIdent].id = capi.id
    BY <1>1, <2>1, AcceptedFound DEF Base, NcciTypes
  <2> QED  BY <1>2, <2>2
<1>5. Changed(capi, calls, calls')
  BY <1>1, <1>2, SameCalls
<1>6. Replies(capi, <<>>, calls, calls') /\ Writes(capi, <<>>, files, files) /\ <<>> \in Seq(Answers)
  <2>1. Plain(capi, <<>>) /\ <<>> \in Seq(Answers)
    BY DEF Plain
  <2> QED  BY <1>1, <1>2, <2>1, PlainSent
<1>7. CASE ByIdent = 0 /\ files' = files /\ Sends(<<>>, "poll")
  <2>1. Outcome(<<>>, "poll")
    BY <1>2, <1>4, <1>5, <1>6, <1>7 DEF Outcome
  <2> QED  BY <2>1
<1>8. CASE files' = files /\ Sends(<<>>, "killed")
  <2>1. pc' = "killed"
    <3>1. ~(Len(<<>>) > 1)
      OBVIOUS
    <3> QED  BY <1>8, <3>1 DEF Sends
  <2>2. Proper(capi, <<>>, calls, calls', files, files', pc' = "killed")
    BY <1>1, <1>6, <1>8, <2>1 DEF Proper
  <2>3. Outcome(<<>>, "killed")
    BY <1>2, <1>5, <1>6, <1>8, <2>2 DEF Outcome
  <2> QED  BY <2>3
<1>9. CASE FilesFail /\ files' = files /\ Sends(<<>>, "poll")
  <2>1. Proper(capi, <<>>, calls, calls', files, files', pc' = "killed")
    BY <1>1, <1>6, <1>9 DEF Proper
  <2>2. Outcome(<<>>, "poll")
    BY <1>2, <1>5, <1>6, <1>9, <2>1 DEF Outcome
  <2> QED  BY <2>2
<1> DEFINE ms == <<About("DATAB3_RESP", capi.arg)>>
<1>10. ASSUME NEW t \in Took, t = "part" => FilesFail,
              ByIdent # 0, files' = Written(ByIdent, t), Sends(ms, "poll")
       PROVE  \E out, next : Outcome(out, next)
  <2>1. /\ ms \in Seq(Answers) /\ DOMAIN ms = {1} /\ Len(ms) = 1
        /\ ms[1] = About("DATAB3_RESP", capi.arg)
    <3>1. "DATAB3_RESP" \in AnswerTypes
      BY DEF AnswerTypes
    <3> QED  BY <1>2, <3>1, OneSent
  <2>2. files' \in [CallIds -> Seq(Blocks)]
    <3> DEFINE b == [id |-> capi.id, block |-> capi.arg, took |-> t]
               i == calls[ByIdent].id
    <3>1. b \in Blocks /\ i \in CallIds
      BY <1>2, <1>3, <1>10 DEF Blocks, Records
    <3>2. files' = [files EXCEPT ![i] = Append(files[i], b)]
      BY <1>10 DEF Written, Entry
    <3> HIDE DEF b, i
    <3>3. Append(files[i], b) \in Seq(Blocks)
      BY <1>2, <3>1
    <3> QED  BY <1>2, <3>1, <3>2, <3>3
  <2> HIDE DEF ms
  <2>3. ASSUME Whole(Coming, toBrick, conn = "up", line, calls, rung, files)
        PROVE  Proper(capi, ms, calls, calls', files, files', pc' = "killed")
    <3>1. Adds(capi, files, files')
      BY <1>4, <1>10, <2>3 DEF Adds, Written, Entry
    <3>2. Replies(capi, ms, calls, calls') /\ Writes(capi, ms, files, files')
      BY <1>1, <2>1, <3>1 DEF Replies, Writes, About, Closing
    <3> QED  BY <1>1, <3>1, <3>2 DEF Proper
  <2>4. Outcome(ms, "poll")
    BY <1>5, <1>10, <2>1, <2>2, <2>3 DEF Outcome
  <2> QED  BY <2>4
<1>11. \/ ByIdent = 0 /\ files' = files /\ Sends(<<>>, "poll")
       \/ files' = files /\ Sends(<<>>, "killed")
       \/ FilesFail /\ files' = files /\ Sends(<<>>, "poll")
       \/ \E t \in Took : /\ t = "part" => FilesFail
                          /\ ByIdent # 0 /\ files' = Written(ByIdent, t) /\ Sends(ms, "poll")
  BY DEF DataB3Ind
<1> QED  BY <1>7, <1>8, <1>9, <1>10, <1>11

\* CAPI2_DISCONNECTB3_IND
LEMMA DisconnectB3IndOutcome ==
    ASSUME Base, DisconnectB3Ind
    PROVE  \E ms, next : Outcome(ms, next)
<1>1. pc = "event" /\ capi.type = "DISCONNECTB3_IND" /\ Live(capi) /\ files' = files
  BY DEF DisconnectB3Ind, Event, Live, LiveTypes
<1>2. capi \in Tellings /\ calls \in Seq(Records) /\ files \in [CallIds -> Seq(Blocks)]
  BY <1>1, AtTelling
<1> DEFINE ms == <<About("DISCONNECTB3_RESP", 0), About("DISCONNECT_REQ", 0)>>
<1>3. calls' = NewState(calls, ByIdent, "D_DisconnectPending") /\ Sends(ms, "poll")
  BY DEF DisconnectB3Ind
<1>4. Changed(capi, calls, calls')
  BY <1>2, <1>3, StateChanged, Lookup DEF States
<1>5. /\ ms \in Seq(Answers) /\ DOMAIN ms = {1, 2}
      /\ ms[1] = About("DISCONNECTB3_RESP", 0) /\ ms[2] = About("DISCONNECT_REQ", 0)
  <2>1. "DISCONNECTB3_RESP" \in AnswerTypes /\ "DISCONNECT_REQ" \in AnswerTypes
    BY DEF AnswerTypes
  <2> QED  BY <1>2, <2>1, TwoSent
<1> HIDE DEF ms
<1>6. Replies(capi, ms, calls, calls') /\ Writes(capi, ms, files, files)
  <2>1. Plain(capi, ms)
    BY <1>5 DEF About, Plain
  <2> QED  BY <1>1, <1>2, <1>5, <2>1, PlainSent
<1>7. Proper(capi, ms, calls, calls', files, files', pc' = "killed")
  BY <1>1, <1>6 DEF Proper
<1>8. Outcome(ms, "poll")
  BY <1>1, <1>2, <1>3, <1>4, <1>5, <1>7 DEF Outcome
<1> QED  BY <1>8

\* CAPI2_DISCONNECT_IND
LEMMA DisconnectIndOutcome ==
    ASSUME Base, DisconnectInd
    PROVE  \E ms, next : Outcome(ms, next)
<1>1. pc = "event" /\ capi.type = "DISCONNECT_IND" /\ Live(capi) /\ files' = files
  BY DEF DisconnectInd, Event, Live, LiveTypes
<1>2. /\ capi \in Tellings /\ calls \in Seq(Records) /\ files \in [CallIds -> Seq(Blocks)]
      /\ ~capi.b3
  BY <1>1, AtTelling DEF NcciTypes
<1> DEFINE ms == <<About("DISCONNECT_RESP", 0)>>
           next == IF Daemon THEN "poll" ELSE "exit"
<1>3. calls' = FreeCall(ByIdent) /\ Sends(ms, next)
  BY DEF DisconnectInd
<1>4. ByIdent # 0 => /\ ByIdent \in DOMAIN calls /\ calls[ByIdent].plci = capi.plci
                     /\ Less(calls, calls', ByIdent)
  <2>1. ByIdent # 0 => ByIdent \in DOMAIN calls /\ calls[ByIdent].plci = capi.plci
    BY <1>2, Lookup
  <2>2. ByIdent # 0 => calls' = RemoveAt(calls, ByIdent)
    BY <1>3 DEF FreeCall
  <2> QED  BY <1>2, <2>1, <2>2, LessFacts
<1>5. Changed(capi, calls, calls')
  <2>1. CASE ByIdent = 0
    BY <1>2, <1>3, <2>1, SameCalls DEF FreeCall
  <2>2. CASE ByIdent # 0
    BY <1>1, <1>4, <2>2 DEF Changed
  <2> QED  BY <2>1, <2>2
<1>6. /\ ms \in Seq(Answers) /\ DOMAIN ms = {1} /\ Len(ms) = 1
      /\ ms[1] = About("DISCONNECT_RESP", 0)
  <2>1. "DISCONNECT_RESP" \in AnswerTypes
    BY DEF AnswerTypes
  <2> QED  BY <1>2, <2>1, OneSent
<1> HIDE DEF ms
<1>7. Replies(capi, ms, calls, calls') /\ Writes(capi, ms, files, files)
  BY <1>1, <1>6 DEF Replies, Writes, About
<1>8. ASSUME Whole(Coming, toBrick, conn = "up", line, calls, rung, files)
      PROVE  Proper(capi, ms, calls, calls', files, files', pc' = "killed")
  <2>1. Numbered(Coming, line, calls, rung)
    BY <1>8 DEF Whole
  <2>2. \A k \in DOMAIN calls : calls[k].id = capi.id => ByIdent = k
    BY <1>1, <1>2, <2>1, FindsIt DEF Base
  <2>3. ~Has(calls', capi.id)
    <3>1. CASE ByIdent = 0
      <4>1. calls' = calls /\ \A k \in DOMAIN calls : k # 0
        BY <1>2, <1>3, <3>1 DEF FreeCall
      <4> QED  BY <2>2, <3>1, <4>1 DEF Has
    <3>2. CASE ByIdent # 0
      <4> SUFFICES ASSUME NEW k \in DOMAIN calls', calls'[k].id = capi.id  PROVE FALSE
        BY DEF Has
      <4> DEFINE i == ByIdent
      <4>1. Less(calls, calls', i) /\ i \in Nat
        BY <1>2, <1>4, <3>2
      <4>2. CASE k \in DOMAIN calls /\ k < i /\ calls'[k] = calls[k]
        BY <1>2, <2>2, <4>1, <4>2
      <4>3. CASE k + 1 \in DOMAIN calls /\ k + 1 > i /\ calls'[k] = calls[k + 1]
        <5>1. i = k + 1
          BY <2>2, <4>3
        <5> QED  BY ONLY <4>1, <4>3, <5>1
      <4> QED  BY <4>1, <4>2, <4>3 DEF Less
    <3> QED  BY <3>1, <3>2
  <2> QED  BY <1>1, <1>7, <2>3 DEF Proper
<1>9. Outcome(ms, next)
  BY <1>1, <1>2, <1>3, <1>5, <1>6, <1>8 DEF Outcome
<1> QED  BY <1>9

\* The confirmations
LEMMA ConfOutcome ==
    ASSUME Base, Conf
    PROVE  \E ms, next : Outcome(ms, next)
<1>1. /\ capi.type \in ConfTypes /\ files' = files /\ calls' = calls /\ Sends(<<>>, "poll")
      /\ calls \in Seq(Records) /\ files \in [CallIds -> Seq(Blocks)]
  BY DEF Conf, Event, ConfTypes, Base, Typed
<1>2. Changed(capi, calls, calls') /\ <<>> \in Seq(Answers)
  BY <1>1, SameCalls
<1>3. Proper(capi, <<>>, calls, calls', files, files', pc' = "killed")
  BY <1>1 DEF Proper, Replies, Writes, ConfTypes
<1>4. Outcome(<<>>, "poll")
  BY <1>1, <1>2, <1>3 DEF Outcome
<1> QED  BY <1>4

LEMMA EventOutcome ==
    ASSUME Base, CapiEvent
    PROVE  /\ pc = "event" /\ capi' = NoMsg /\ UNCHANGED <<back, cfd, pfd, far>>
           /\ \E ms, next : Outcome(ms, next)
<1>1. pc = "event" /\ capi' = NoMsg /\ UNCHANGED <<back, cfd, pfd, far>>
  BY DEF CapiEvent, ConnectInd, InfoInd, ConnectActiveInd, ConnectB3Ind, ConnectB3ActiveInd,
         DataB3Ind, DisconnectB3Ind, DisconnectInd, Conf, Event
<1>2. \E ms, next : Outcome(ms, next)
  BY ConnectIndOutcome, InfoIndOutcome, ConnectActiveIndOutcome, ConnectB3IndOutcome,
     ConnectB3ActiveIndOutcome, DataB3IndOutcome, DisconnectB3IndOutcome, DisconnectIndOutcome,
     ConfOutcome DEF CapiEvent
<1> QED  BY <1>1, <1>2

LEMMA EventBase ==
    ASSUME Base, CapiEvent
    PROVE  Base'
<1>1. /\ pc = "event" /\ capi' = NoMsg
      /\ back' = back /\ cfd' = cfd /\ pfd' = pfd /\ brick' = brick /\ listening' = listening
      /\ line' = line /\ rung' = rung /\ reboots' = reboots
  BY EventOutcome DEF far
<1>2. PICK ms, next : Outcome(ms, next)
  BY EventOutcome
<1>3. /\ ms \in Seq(FromProg) /\ pc' \in {"poll", "exit", "killed"} /\ toProg' = toProg
      /\ conn' \in {"up", "gone", "rst", "reset", "dead"}
      /\ toBrick' = IF conn = "up" THEN toBrick \o ms ELSE toBrick
      /\ files' \in [CallIds -> Seq(Blocks)]
      /\ Changed(capi, calls, calls')
  <2>1. ms \in Seq(FromProg) /\ pc' \in {"poll", "exit", "killed"} /\ toProg' = toProg
        /\ toBrick' = IF conn = "up" THEN toBrick \o ms ELSE toBrick
    BY <1>2 DEF Outcome, Sends, FromProg
  <2>2. conn' \in {"up", "gone", "rst", "reset", "dead"}
    BY <1>2 DEF Outcome, Sends, Base, Typed
  <2> QED  BY <1>2, <2>1, <2>2 DEF Outcome
<1>4. calls \in Seq(Records) /\ calls' \in Seq(Records)
  BY <1>3 DEF Changed, Kept, New, Less, Base, Typed
<1>5. toBrick' \in Seq(FromProg)
  BY <1>3 DEF Base, Typed
<1>6. Typed'
  BY <1>1, <1>3, <1>4, <1>5 DEF Base, Typed
<1>7. Control'
  BY <1>1, <1>3 DEF Base, Control
<1>8. /\ capi \in FromBrick /\ toProg \in Seq(FromBrick) /\ Coming \in Seq(FromBrick) /\ Coming # <<>>
      /\ Head(Coming) = capi /\ Tail(Coming) = toProg
  BY <1>1, AtEvent DEF Base
<1>9. Coming' = toProg
  BY <1>1, <1>3 DEF Coming, Stream
<1>10. Room(toProg, calls', rung)
  <2> DEFINE n == Number(toProg, Offers)
             o == One(capi \in Offers)
  <2>1. Number(Coming, Offers) = o + n /\ n \in Nat /\ o \in {0, 1}
    <3>1. Number(Coming, Offers) = One(Head(Coming) \in Offers) + Number(Tail(Coming), Offers)
      BY <1>8, NumberTail
    <3>2. n \in Nat
      BY <1>8, NumberType
    <3>3. o \in {0, 1}
      BY DEF One
    <3> QED  BY <1>8, <3>1, <3>2, <3>3
  <2>2. Len(calls) \in Nat /\ Len(calls') \in Nat /\ rung \in Nat /\ Len(calls) + (o + n) <= rung
    BY <1>4, <2>1 DEF Base, Room, Typed
  <2>3. CASE Len(calls') = Len(calls)
    <3> HIDE DEF n, o
    <3>1. Len(calls') + n <= rung
      BY <2>1, <2>2, <2>3
    <3> QED  BY <3>1 DEF n, Room
  <2>4. CASE capi.type = "CONNECT_IND" /\ New(calls, calls', capi)
    <3>1. o = 1 /\ Len(calls') = Len(calls) + 1
      BY <1>8, <2>4 DEF One, Offers, New
    <3> HIDE DEF n, o
    <3>2. Len(calls') + n <= rung
      BY <2>1, <2>2, <3>1
    <3> QED  BY <3>2 DEF n, Room
  <2>5. ASSUME NEW i, Less(calls, calls', i)  PROVE Room(toProg, calls', rung)
    <3>1. Len(calls') + 1 = Len(calls)
      BY <2>5 DEF Less
    <3> HIDE DEF n, o
    <3>2. Len(calls') + n <= rung
      BY <2>1, <2>2, <3>1
    <3> QED  BY <3>2 DEF n, Room
  <2> QED  BY <1>3, <2>3, <2>4, <2>5 DEF Changed, Kept
<1>11. Room(Coming', calls', rung')
  BY <1>1, <1>9, <1>10
<1> QED  BY <1>6, <1>7, <1>11 DEF Base

LEMMA EventInv ==
    ASSUME Settled, CapiEvent
    PROVE  Settled'
<1>1. /\ pc = "event" /\ capi' = NoMsg
      /\ line' = line /\ rung' = rung /\ reboots' = reboots
  BY EventOutcome DEF far, Settled
<1>2. PICK ms, next : Outcome(ms, next)
  BY EventOutcome DEF Settled
<1>3. Base' /\ Base
  BY EventBase DEF Settled
<1>4. /\ toProg' = toProg
      /\ conn' = "up" <=> conn = "up"
      /\ Puts(conn = "up", toBrick, toBrick', ms)
      /\ pc' \in {"poll", "exit", "killed"}
  <2>1. toProg' = toProg /\ pc' \in {"poll", "exit", "killed"}
    BY <1>2 DEF Outcome, Sends
  <2>2. conn' = "up" <=> conn = "up"
    BY <1>2, <1>3 DEF Outcome, Sends, Base, Typed
  <2>3. Puts(conn = "up", toBrick, toBrick', ms)
    BY <1>2 DEF Outcome, Sends, Puts
  <2> QED  BY <2>1, <2>2, <2>3
<1>5. /\ capi \in FromBrick /\ Coming \in Seq(FromBrick) /\ Coming # <<>>
      /\ Head(Coming) = capi /\ Tail(Coming) = toProg
  BY <1>1, <1>3, AtEvent DEF Base
<1>6. Coming' = toProg
  BY <1>1, <1>4 DEF Coming, Stream
<1>7. /\ line \in [Plcis -> Lines] /\ rung \in Nat /\ calls \in Seq(Records)
      /\ toBrick \in Seq(FromProg) /\ files \in [CallIds -> Seq(Blocks)]
  BY <1>3 DEF Base, Typed
<1>8. /\ Whole(Coming, toBrick, conn = "up", line, calls, rung, files)
      /\ Proper(capi, ms, calls, calls', files, files', pc' = "killed")
      /\ Changed(capi, calls, calls')
  BY <1>2 DEF Settled, Outcome
<1>9. /\ Replies(capi, ms, calls, calls') /\ Changes(capi, calls, calls')
      /\ Writes(capi, ms, files, files')
  BY <1>8 DEF Proper, Changes
<1>10. Whole(Coming', toBrick', conn = "up", line, calls', rung, files')
  BY <1>4, <1>5, <1>6, <1>7, <1>8, <1>9, EventWhole
<1>11. Whole(Coming', toBrick', conn' = "up", line', calls', rung', files')
  <2>1. CASE conn = "up"
    <3>1. (conn = "up") = TRUE /\ (conn' = "up") = TRUE
      BY <1>4, <2>1
    <3> QED  BY <1>1, <1>10, <3>1
  <2>2. CASE conn # "up"
    <3>1. (conn = "up") = FALSE /\ (conn' = "up") = FALSE
      BY <1>4, <2>2
    <3> QED  BY <1>1, <1>10, <3>1
  <2> QED  BY <2>1, <2>2
<1>12. /\ Alone(conn = "up", toBrick, line) /\ Told(Coming, conn = "up", line, rung) /\ Ordered(Coming)
       /\ Numbered(Coming, line, calls, rung) /\ Replied(Coming, toBrick, line)
  BY <1>8 DEF Whole
<1>13. ASSUME ~FilesFail, pc' # "killed"  PROVE Filed(Coming', line', files', rung')
  <2>1. Filed(Coming, line, files, rung)
    BY <1>1, <1>13 DEF Settled
  <2>2. IF capi.type = "DATAB3_IND" THEN Adds(capi, files, files') ELSE files' = files
    BY <1>8, <1>13 DEF Proper
  <2>3. Filed(Tail(Coming), line, files', rung)
    BY <1>5, <1>7, <1>12, <1>13, <2>1, <2>2, EventFiled
  <2> QED  BY <1>1, <1>5, <1>6, <2>3
<1>14. ASSUME reboots' = 0
       PROVE  conn' = "up" /\ Alive(toBrick', line', calls')
  <2>1. conn = "up" /\ Alive(toBrick, line, calls)
    BY <1>1, <1>14 DEF Settled
  <2>2. /\ Told(Coming, TRUE, line, rung) /\ Puts(TRUE, toBrick, toBrick', ms)
    <3>1. (conn = "up") = TRUE
      BY <2>1
    <3> QED  BY <1>4, <1>12, <3>1
  <2>3. Head(Coming).type = "DISCONNECT_IND" => ~Has(calls', Head(Coming).id)
    BY <1>5, <1>8 DEF Proper
  <2>4. Alive(toBrick', line, calls')
    BY <1>5, <1>7, <1>9, <1>12, <2>1, <2>2, <2>3, EventAlive
  <2> QED  BY <1>1, <1>4, <2>1, <2>4
<1> QED  BY <1>3, <1>11, <1>13, <1>14 DEF Settled

--------------------------------------------------------------------------------
(* The brick: what its steps make of the state *)

\* The messages t tell m of a call, or nothing.
Tells(t, m) ==
    /\ t \in Seq(FromBrick)
    /\ \A k \in DOMAIN t : Live(t[k]) => k = Len(t) /\ t[k] = m
    /\ Live(m) => Len(t) \in DOMAIN t /\ t[Len(t)] = m

LEMMA TellsNone == Tells(<<>>, NoMsg)
BY NoneFromBrick DEF Tells

LEMMA TellsOne ==
    ASSUME NEW m \in Tellings
    PROVE  Tells(<<m>>, m)
BY DEF Tells, FromBrick

LEMMA TellsConf ==
    ASSUME NEW c \in Confirmations
    PROVE  /\ Tells(<<c>>, NoMsg)
           /\ \A m \in Tellings : Tells(<<c>> \o <<m>>, m)
<1>1. c \in FromBrick /\ ~Live(c)
  BY DEF FromBrick, Confirmations, Live, LiveTypes, ConfTypes
<1>2. Tells(<<c>>, NoMsg)
  BY <1>1, NoneFromBrick DEF Tells
<1>3. ASSUME NEW m \in Tellings  PROVE Tells(<<c>> \o <<m>>, m)
  <2>1. m \in FromBrick /\ <<c>> \o <<m>> = <<c, m>>
    BY PairOf DEF FromBrick
  <2>2. /\ <<c, m>> \in Seq(FromBrick) /\ Len(<<c, m>>) = 2 /\ DOMAIN <<c, m>> = {1, 2}
        /\ <<c, m>>[1] = c /\ <<c, m>>[2] = m
    BY <1>1, <2>1
  <2> QED  BY <1>1, <2>1, <2>2 DEF Tells
<1> QED  BY <1>2, <1>3

\* A line whose call nothing happens to.
LEMMA OnwardSame ==
    ASSUME NEW p \in Plcis, NEW x \in Lines, NEW m \in Tellings \cup {NoMsg}, m = NoMsg \/ m.plci # p
    PROVE  Onward(p, x, x, m)
<1>1. m \notin Infos(p) /\ m \notin Datas(p) /\ ~(Live(m) /\ m.plci = p)
  BY NoneFromBrick DEF Infos, Datas, FromBrick, Tellings, Confirmations
<1>2. x.digits + 0 = x.digits /\ x.sent + 0 = x.sent
  BY LineIn
<1> QED  BY <1>1, <1>2 DEF Onward, One

LEMMA TurnOne ==
    ASSUME NEW l \in [Plcis -> Lines], NEW p \in Plcis, NEW y, NEW m \in Tellings \cup {NoMsg},
           m = NoMsg \/ m.plci = p, Onward(p, l[p], y, m)
    PROVE  Turn(l, [l EXCEPT ![p] = y], m)
<1> DEFINE l2 == [l EXCEPT ![p] = y]
<1>1. l2[p] = y /\ \A o \in Plcis : o # p => l2[o] = l[o]
  OBVIOUS
<1> HIDE DEF l2
<1>2. ASSUME NEW o \in Plcis  PROVE Onward(o, l[o], l2[o], m)
  <2>1. CASE o = p
    BY <1>1, <2>1
  <2>2. CASE o # p
    BY <1>1, <2>2, OnwardSame
  <2> QED  BY <2>1, <2>2
<1>3. Turn(l, l2, m)
  BY <1>2 DEF Turn
<1> QED  BY <1>3 DEF l2

LEMMA TurnNone ==
    ASSUME NEW l \in [Plcis -> Lines]
    PROVE  Turn(l, l, NoMsg)
BY OnwardSame DEF Turn

\* A line goes on, and no message of the program is the reason.
Quiet(x, y) == /\ y.st \in OnLine => x.st \in OnLine
               /\ y.sent - y.unacked <= x.sent - x.unacked

LEMMA TakesNone ==
    ASSUME NEW q \in Seq(FromProg), NEW l, NEW l2, \A p \in Plcis : Quiet(l[p], l2[p]),
           \A p \in Plcis : /\ l[p].sent \in Nat /\ l[p].unacked \in Nat
                            /\ l2[p].sent \in Nat /\ l2[p].unacked \in Nat
    PROVE  Takes(q, q, 0, l, l2)
<1>1. \A k \in DOMAIN q : k \in Nat /\ k + 0 = k /\ k - 0 = k
  OBVIOUS
<1>2. ASSUME NEW p \in Plcis
      PROVE  l2[p].sent - l2[p].unacked + Number(q, DataResps(p))
                <= l[p].sent - l[p].unacked + Number(q, DataResps(p))
  <2> DEFINE a == l2[p].sent
             b == l2[p].unacked
             c == l[p].sent
             e == l[p].unacked
             n == Number(q, DataResps(p))
  <2>1. a \in Nat /\ b \in Nat /\ c \in Nat /\ e \in Nat /\ n \in Nat /\ a - b <= c - e
    BY NumberType DEF Quiet
  <2> HIDE DEF a, b, c, e, n
  <2>2. a - b + n <= c - e + n
    BY ONLY <2>1
  <2> QED  BY <2>2 DEF a, b, c, e, n
<1>3. \A p \in Plcis : ~(l2[p].st \in OnLine /\ l[p].st \notin OnLine)
  BY DEF Quiet
<1> QED  BY <1>1, <1>2, <1>3 DEF Takes

\* A line goes on because of a message of the program.
Reacts(m, p, x, y) ==
    /\ Refuses(m, p) => y.st # "offered"
    /\ y.st \in OnLine /\ x.st \notin OnLine =>
          m.type = "CONNECT_RESP" /\ m.arg = 0 /\ x.st = "offered" /\ m.plci = p
    /\ y.sent - y.unacked <= x.sent - x.unacked + One(m \in DataResps(p))

LEMMA TakesOne ==
    ASSUME NEW q \in Seq(FromProg), q # <<>>, NEW l, NEW l2,
           \A p \in Plcis : Reacts(Head(q), p, l[p], l2[p]),
           \A p \in Plcis : /\ l[p].sent \in Nat /\ l[p].unacked \in Nat
                            /\ l2[p].sent \in Nat /\ l2[p].unacked \in Nat
    PROVE  Takes(q, Tail(q), 1, l, l2)
<1>1. /\ 1 \in DOMAIN q /\ q[1] = Head(q) /\ Tail(q) \in Seq(FromProg)
      /\ \A k \in DOMAIN Tail(q) : k + 1 \in DOMAIN q /\ Tail(q)[k] = q[k + 1] /\ k \in Nat
      /\ \A k \in DOMAIN q : k # 1 => k - 1 \in DOMAIN Tail(q) /\ Tail(q)[k - 1] = q[k] /\ k \in Nat
  BY TailOf
<1>2. \A k \in DOMAIN q : k \in Nat /\ (k > 1 => k # 1)
  OBVIOUS
<1>3. ASSUME NEW p \in Plcis
      PROVE  l2[p].sent - l2[p].unacked + Number(Tail(q), DataResps(p))
                <= l[p].sent - l[p].unacked + Number(q, DataResps(p))
  <2> DEFINE a == l2[p].sent
             b == l2[p].unacked
             c == l[p].sent
             e == l[p].unacked
             n == Number(Tail(q), DataResps(p))
             o == One(Head(q) \in DataResps(p))
             w == Number(q, DataResps(p))
  <2>1. a - b <= c - e + o
    BY DEF Reacts
  <2>2. /\ a \in Nat /\ b \in Nat /\ c \in Nat /\ e \in Nat /\ n \in Nat /\ o \in Nat
        /\ w = o + n
    <3>1. w = o + n
      BY NumberTail
    <3>2. n \in Nat
      BY <1>1, NumberType
    <3>3. o \in Nat
      BY DEF One
    <3> QED  BY <3>1, <3>2, <3>3
  <2> HIDE DEF a, b, c, e, n, o, w
  <2>3. a - b + n <= c - e + w
    BY ONLY <2>1, <2>2
  <2> QED  BY <2>3 DEF a, b, c, e, n, w
<1>4. ASSUME NEW p \in Plcis
      PROVE  /\ Refuses(q[1], p) => l2[p].st # "offered"
             /\ l2[p].st \in OnLine /\ l[p].st \notin OnLine => Accepts(q, 1, l) /\ q[1].plci = p
  BY <1>1, <1>2 DEF Reacts, Accepts
<1> QED  BY <1>1, <1>2, <1>3, <1>4 DEF Takes

\* What a step of the brick leaves of the types and of the bound on the calls.
LEMMA MovesBase ==
    ASSUME Base, NEW p \in Plcis, NEW y \in Lines, NEW t, NEW m \in Tellings \cup {NoMsg},
           Tells(t, m), Moves(p, y, t), toBrick' \in Seq(FromProg), listening' \in BOOLEAN,
           rung' \in 0 .. MaxCalls, rung' = rung + One(m \in Offers)
    PROVE  /\ Base' /\ Extends(Coming, Coming', m) /\ Coming \in Seq(FromBrick)
           /\ line' = [line EXCEPT ![p] = y] /\ line' \in [Plcis -> Lines]
           /\ conn = "up" /\ conn' = "up" /\ pc # "init" /\ pc' = pc
           /\ UNCHANGED <<calls, reboots, files>>
<1>1. /\ conn = "up" /\ conn' = "up" /\ toProg' = toProg \o t
      /\ line' = [line EXCEPT ![p] = y]
      /\ UNCHANGED <<pc, capi, back, cfd, pfd, calls, brick, reboots, files>>
  BY DEF Moves, prog
<1>2. t \in Seq(FromBrick) /\ toProg \in Seq(FromBrick) /\ capi \in FromBrick \cup {NoMsg}
  BY DEF Tells, Base, Typed
<1>3. line' \in [Plcis -> Lines]
  BY <1>1 DEF Base, Typed
<1>4. Typed'
  BY <1>1, <1>2, <1>3 DEF Base, Typed
<1>5. pc # "init" /\ pc # "register"
  BY <1>1 DEF Base, Control
<1>6. Control'
  BY <1>1, <1>5, Bounds DEF Base, Control
<1>7. Coming' = Coming \o t /\ Coming \in Seq(FromBrick)
  <2>1. Coming' = Stream(capi, toProg \o t)
    BY <1>1 DEF Coming
  <2>2. /\ \A r \in Seq(FromBrick) : Stream(capi, toProg \o r) = Stream(capi, toProg) \o r
        /\ Stream(capi, toProg) \in Seq(FromBrick)
    BY <1>2, StreamFacts
  <2> QED  BY <1>2, <2>1, <2>2 DEF Coming
<1>8. Extends(Coming, Coming \o t, m)
  <2>1. m \in FromBrick \cup {NoMsg}
    BY DEF FromBrick
  <2> QED  BY <1>2, <1>7, <2>1, ExtendsBy DEF Tells
<1>9. Room(Coming', calls', rung')
  <2> DEFINE n == Number(Coming, Offers)
             o == One(m \in Offers)
             n2 == Number(Coming \o t, Offers)
  <2>1. n2 = n + o /\ n \in Nat /\ o \in Nat
    BY <1>7, <1>8, NumberType DEF Extends, One
  <2>2. Len(calls) \in Nat /\ rung \in Nat /\ Len(calls) + n <= rung /\ rung' = rung + o
    BY DEF Base, Room, Typed
  <2> HIDE DEF n, o, n2
  <2>3. Len(calls) + n2 <= rung + o
    BY <2>1, <2>2
  <2> QED  BY <1>1, <1>7, <2>2, <2>3 DEF n2, Room
<1> QED  BY <1>1, <1>3, <1>4, <1>5, <1>6, <1>7, <1>8, <1>9 DEF Base

\* A step that is a turn of the lines.
LEMMA TurnInv ==
    ASSUME Settled, Base', NEW m \in Tellings \cup {NoMsg}, NEW d,
           Extends(Coming, Coming', m), Turn(line, line', m), Takes(toBrick, toBrick', d, line, line'),
           Live(m) => conn = "up", conn # "up" => toBrick' = toBrick /\ line' = line,
           conn' = "up" <=> conn = "up", UNCHANGED <<calls, rung, reboots, files>>,
           pc = "init" => pc' = "init", pc = "killed" => pc' = "killed"
    PROVE  Settled'
<1>1. /\ Coming \in Seq(FromBrick) /\ toBrick \in Seq(FromProg) /\ toBrick' \in Seq(FromProg)
      /\ line \in [Plcis -> Lines] /\ line' \in [Plcis -> Lines] /\ rung \in Nat
      /\ calls \in Seq(Records) /\ files \in [CallIds -> Seq(Blocks)]
  <2>1. capi \in FromBrick \cup {NoMsg} /\ toProg \in Seq(FromBrick)
    BY DEF Settled, Base, Typed
  <2>2. Coming \in Seq(FromBrick)
    BY <2>1, StreamFacts DEF Coming
  <2> QED  BY <2>2 DEF Settled, Base, Typed
<1>2. Whole(Coming, toBrick, conn = "up", line, calls, rung, files)
  BY DEF Settled
<1>3. /\ Whole(Coming', toBrick', conn = "up", line', calls, rung, files)
      /\ Filed(Coming, line, files, rung) => Filed(Coming', line', files, rung)
      /\ Alive(toBrick, line, calls) => Alive(toBrick', line', calls)
  BY <1>1, <1>2, TurnWhole, ZenonT(30)
<1>4. Whole(Coming', toBrick', conn' = "up", line', calls', rung', files')
  <2>1. (conn' = "up") = (conn = "up")
    OBVIOUS
  <2> QED  BY <1>3, <2>1
<1>5. ~FilesFail /\ pc' # "killed" => Filed(Coming', line', files', rung')
  BY <1>3 DEF Settled
<1>6. reboots' = 0 => (pc' = "init" \/ conn' = "up") /\ Alive(toBrick', line', calls')
  BY <1>3 DEF Settled
<1> QED  BY <1>4, <1>5, <1>6 DEF Settled

\* A step that leaves the calls, the lines and what is under way alone.
LEMMA SameInv ==
    ASSUME Settled, Base', Coming' = Coming, UNCHANGED <<toBrick, line, calls, rung, reboots, files>>,
           conn' = "up" <=> conn = "up",
           pc = "init" => pc' = "init", pc = "killed" => pc' = "killed"
    PROVE  Settled'
<1>1. Whole(Coming', toBrick', conn' = "up", line', calls', rung', files')
  <2>1. (conn' = "up") = (conn = "up")
    OBVIOUS
  <2> QED  BY <2>1 DEF Settled
<1>2. ~FilesFail /\ pc' # "killed" => Filed(Coming', line', files', rung')
  BY DEF Settled
<1>3. reboots' = 0 => (pc' = "init" \/ conn' = "up") /\ Alive(toBrick', line', calls')
  BY DEF Settled
<1> QED  BY <1>1, <1>2, <1>3 DEF Settled

\* The call on line p goes on to y, the brick sends t, which tells m of it.
Goes(p, y, t, m) ==
    /\ y \in Lines /\ m \in Tellings \cup {NoMsg} /\ Tells(t, m) /\ Moves(p, y, t)
    /\ m = NoMsg \/ (m.plci = p /\ m.type # "CONNECT_IND")
    /\ Onward(p, line[p], y, m)

LEMMA GoesBase ==
    ASSUME Base, NEW p \in Plcis, NEW y, NEW t, NEW m, Goes(p, y, t, m),
           toBrick' \in Seq(FromProg), rung' = rung, listening' \in BOOLEAN
    PROVE  Base'
<1>1. m \notin Offers
  BY NoneFromBrick DEF Goes, Offers
<1>2. rung' \in 0 .. MaxCalls /\ rung' = rung + One(m \in Offers)
  BY <1>1 DEF Base, Typed, One
<1> QED  BY <1>2, MovesBase DEF Goes

LEMMA GoesInv ==
    ASSUME Settled, NEW p \in Plcis, NEW y, NEW t, NEW m, Goes(p, y, t, m),
           toBrick' \in Seq(FromProg), rung' = rung, listening' \in BOOLEAN,
           NEW d, Takes(toBrick, toBrick', d, line, line')
    PROVE  Settled'
<1>1. m \notin Offers /\ m \in Tellings \cup {NoMsg} /\ y \in Lines /\ Tells(t, m) /\ Moves(p, y, t)
      /\ (m = NoMsg \/ m.plci = p) /\ Onward(p, line[p], y, m)
  BY NoneFromBrick DEF Goes, Offers
<1>2. rung' \in 0 .. MaxCalls /\ rung' = rung + One(m \in Offers) /\ Base
  BY <1>1 DEF Settled, Base, Typed, One
<1>3. /\ Base' /\ Extends(Coming, Coming', m)
      /\ line' = [line EXCEPT ![p] = y]
      /\ conn = "up" /\ conn' = "up" /\ pc' = pc /\ UNCHANGED <<calls, reboots, files>>
  BY <1>1, <1>2, MovesBase
<1>4. Turn(line, line', m)
  BY <1>1, <1>2, <1>3, TurnOne DEF Base, Typed
<1> QED  BY <1>1, <1>3, <1>4, TurnInv

\* A message m of the brick about the call on line p.
IndOk(p, t, a, m) ==
    /\ m \in Tellings /\ Tells(<<m>>, m) /\ m.plci = p /\ m.type = t /\ m.arg = a
    /\ m.id = line[p].id

LEMMA BusyLine ==
    ASSUME Base, NEW p \in Plcis, line[p].st # "free"
    PROVE  line[p] \in Busy /\ line[p].id # 0 /\ line[p].id \in CallIds /\ line[p].unacked <= line[p].sent
<1>1. line[p] \in Lines
  BY DEF Base, Typed
<1> QED  BY <1>1, LineIn

LEMMA IndFacts ==
    ASSUME Base, NEW p \in Plcis, line[p].st # "free", NEW t \in LiveTypes, t \notin NcciTypes,
           NEW a \in Nat, NEW m, m = Ind(p, FALSE, t, a)
    PROVE  IndOk(p, t, a, m)
<1>1. line[p].id \in CallIds
  BY BusyLine
<1>2. m \in Tellings
  BY <1>1 DEF Ind, Tellings
<1> QED  BY <1>2, TellsOne DEF Ind, IndOk

LEMMA IndFactsB3 ==
    ASSUME Base, NEW p \in Plcis, line[p].st # "free", NEW t \in LiveTypes, t \in NcciTypes,
           NEW a \in Nat, NEW m, m = Ind(p, TRUE, t, a)
    PROVE  IndOk(p, t, a, m)
<1>1. line[p].id \in CallIds
  BY BusyLine
<1>2. m \in Tellings
  BY <1>1 DEF Ind, Tellings
<1> QED  BY <1>2, TellsOne DEF Ind, IndOk

\* What counts on the line is what the brick tells.
LEMMA Counts ==
    ASSUME NEW p, NEW m \in Tellings, m.plci = p
    PROVE  /\ One(m \in Infos(p)) = One(m.type = "INFO_IND")
           /\ One(m \in Datas(p)) = One(m.type = "DATAB3_IND")
BY DEF One, Infos, Datas, FromBrick

\* A line goes on to another state.
LEMMA OnwardTo ==
    ASSUME NEW p, NEW x \in Lines, NEW st, NEW m \in Tellings, m.plci = p,
           m.type \notin {"INFO_IND", "DATAB3_IND"},
           Sayable(x.st) \subseteq Sayable(st), x.st # "clearing", st # "offered",
           st \in OnB3 => x.st \in OnB3 \/ m.type = "CONNECTB3_IND",
           Says(x, [x EXCEPT !.st = st], m)
    PROVE  Onward(p, x, [x EXCEPT !.st = st], m)
<1>1. x.digits + 0 = x.digits /\ x.sent + 0 = x.sent
  BY LineIn
<1>2. /\ [x EXCEPT !.st = st].id = x.id /\ [x EXCEPT !.st = st].right = x.right
      /\ [x EXCEPT !.st = st].digits = x.digits /\ [x EXCEPT !.st = st].sent = x.sent
      /\ [x EXCEPT !.st = st].st = st
  BY LineIn DEF Lines, Idle, Busy
<1> QED  BY <1>1, <1>2, Counts DEF Onward, One

LEMMA BusyTo ==
    ASSUME NEW x \in Busy, x.unacked <= x.sent,
           NEW st \in {"offered", "active", "b3offered", "b3up", "b3down", "clearing"}
    PROVE  /\ [x EXCEPT !.st = st] \in Lines
           /\ [x EXCEPT !.st = st].st = st /\ [x EXCEPT !.st = st].sent = x.sent
           /\ [x EXCEPT !.st = st].unacked = x.unacked
           /\ x \in Lines /\ x.sent \in Nat /\ x.unacked \in Nat /\ x.digits \in Nat
<1>1. [x EXCEPT !.st = st] \in Busy
  BY DEF Busy
<1>2. /\ [x EXCEPT !.st = st].st = st /\ [x EXCEPT !.st = st].sent = x.sent
      /\ [x EXCEPT !.st = st].unacked = x.unacked
  BY DEF Busy
<1>3. x \in Lines
  BY DEF Lines
<1> QED  BY <1>1, <1>2, <1>3, LineIn DEF Lines

\* The callers.
LEMMA DigitGoes ==
    ASSUME Base, NEW p \in Plcis, Digit(p)
    PROVE  \E y, t, m : Goes(p, y, t, m) /\ Quiet(line[p], y)
<1> DEFINE x == line[p]
           y == [x EXCEPT !.digits = x.digits + 1]
           a == IF x.right THEN 1 ELSE 0
           m == Ind(p, FALSE, "INFO_IND", a)
<1>1. x.st = "offered" /\ x.digits < Ncnt /\ Moves(p, y, <<m>>)
  BY DEF Digit
<1>2. /\ m \in Tellings /\ Tells(<<m>>, m) /\ m.plci = p /\ m.type = "INFO_IND" /\ m.arg = a
      /\ m.id = x.id /\ x \in Busy /\ x.id # 0 /\ x.unacked <= x.sent
  <2>1. "INFO_IND" \in LiveTypes /\ "INFO_IND" \notin NcciTypes /\ a \in Nat /\ line[p].st # "free"
    BY <1>1 DEF LiveTypes, NcciTypes
  <2>2. m = Ind(p, FALSE, "INFO_IND", a)
    OBVIOUS
  <2> HIDE DEF a, m, y
  <2>3. IndOk(p, "INFO_IND", a, m)
    BY <2>1, <2>2, IndFacts
  <2>4. x \in Busy /\ x.id # 0 /\ x.unacked <= x.sent
    BY <2>1, BusyLine
  <2> QED  BY <2>3, <2>4 DEF IndOk
<1>3. y \in Lines
  BY <1>1, <1>2, Bounds DEF Lines, Busy
<1>4. /\ y.id = x.id /\ y.right = x.right /\ y.sent = x.sent /\ y.digits = x.digits + 1
      /\ y.st = x.st /\ y.unacked = x.unacked /\ x.sent \in Nat /\ x.unacked \in Nat
  BY <1>2, Bounds DEF Busy
<1>5. m.arg = 1 => x.right
  <2>1. a = 1 => x.right
    OBVIOUS
  <2> HIDE DEF a, m
  <2> QED  BY <1>2, <2>1
<1> HIDE DEF x, y, m, a
<1>6. Says(x, y, m)
  BY <1>1, <1>2, <1>4, <1>5 DEF Says, Sayable, NcciTypes, B3Types
<1>7. Onward(p, x, y, m)
  BY <1>1, <1>2, <1>4, <1>6, Counts DEF Onward, One, OnB3
<1>8. Goes(p, y, <<m>>, m)
  BY <1>1, <1>2, <1>3, <1>7 DEF Goes, x
<1>9. Quiet(x, y)
  BY <1>4 DEF Quiet
<1> QED  BY <1>8, <1>9 DEF x

LEMMA OfferB3Goes ==
    ASSUME Base, NEW p \in Plcis, OfferB3(p)
    PROVE  \E y, t, m : Goes(p, y, t, m) /\ Quiet(line[p], y)
<1> DEFINE x == line[p]
           y == [x EXCEPT !.st = "b3offered"]
           m == Ind(p, TRUE, "CONNECTB3_IND", 0)
<1>1. x.st = "active" /\ Moves(p, y, <<m>>)
  BY DEF OfferB3
<1>2. /\ m \in Tellings /\ Tells(<<m>>, m) /\ m.plci = p /\ m.type = "CONNECTB3_IND"
      /\ m.id = x.id /\ x \in Busy /\ x.id # 0 /\ x.unacked <= x.sent
  <2>1. "CONNECTB3_IND" \in LiveTypes /\ "CONNECTB3_IND" \in NcciTypes /\ 0 \in Nat /\ line[p].st # "free"
    BY <1>1 DEF LiveTypes, NcciTypes
  <2>2. m = Ind(p, TRUE, "CONNECTB3_IND", 0)
    OBVIOUS
  <2> HIDE DEF m, y
  <2>3. IndOk(p, "CONNECTB3_IND", 0, m)
    BY <2>1, <2>2, IndFactsB3
  <2>4. x \in Busy /\ x.id # 0 /\ x.unacked <= x.sent
    BY <2>1, BusyLine
  <2> QED  BY <2>3, <2>4 DEF IndOk
<1> HIDE DEF x, m
<1>3. /\ y \in Lines /\ y.st = "b3offered" /\ y.sent = x.sent /\ y.unacked = x.unacked
      /\ x \in Lines /\ x.sent \in Nat /\ x.unacked \in Nat
  BY <1>2, BusyTo
<1>4. Says(x, y, m)
  BY <1>1, <1>2, <1>3 DEF Says, Sayable, NcciTypes, B3Types, OnLine
<1>5. Onward(p, x, y, m)
  BY <1>1, <1>2, <1>3, <1>4, OnwardTo DEF Sayable
<1>6. Goes(p, y, <<m>>, m)
  BY <1>1, <1>2, <1>3, <1>5 DEF Goes, x
<1>7. Quiet(x, y)
  BY <1>1, <1>3 DEF Quiet, OnLine
<1> QED  BY <1>6, <1>7 DEF x

LEMMA BlockGoes ==
    ASSUME Base, NEW p \in Plcis, Block(p)
    PROVE  \E y, t, m : Goes(p, y, t, m) /\ Quiet(line[p], y)
<1> DEFINE x == line[p]
           y == [x EXCEPT !.sent = x.sent + 1, !.unacked = x.unacked + 1]
           m == Ind(p, TRUE, "DATAB3_IND", x.sent + 1)
<1>1. x.st = "b3up" /\ x.sent < MaxBlocks /\ x.unacked < Window /\ Moves(p, y, <<m>>)
  BY DEF Block
<1>2. x.sent + 1 \in Nat
  BY LineIn DEF Base, Typed
<1>3. /\ m \in Tellings /\ Tells(<<m>>, m) /\ m.plci = p /\ m.type = "DATAB3_IND" /\ m.arg = x.sent + 1
      /\ m.id = x.id /\ x \in Busy /\ x.id # 0 /\ x.unacked <= x.sent
  <2> DEFINE a == x.sent + 1
  <2>1. "DATAB3_IND" \in LiveTypes /\ "DATAB3_IND" \in NcciTypes /\ a \in Nat /\ line[p].st # "free"
    BY <1>1, <1>2 DEF LiveTypes, NcciTypes
  <2>2. m = Ind(p, TRUE, "DATAB3_IND", a)
    OBVIOUS
  <2>3. x \in Busy /\ x.id # 0 /\ x.unacked <= x.sent
    BY <2>1, BusyLine
  <2> HIDE DEF a, m, y
  <2>4. IndOk(p, "DATAB3_IND", a, m)
    BY <2>1, <2>2, IndFactsB3
  <2>5. m \in Tellings /\ Tells(<<m>>, m) /\ m.plci = p /\ m.type = "DATAB3_IND" /\ m.arg = a
        /\ m.id = x.id
    BY <2>4 DEF IndOk
  <2> QED  BY <2>3, <2>5 DEF a
<1>4. y \in Lines
  <2>1. /\ x \in Busy /\ x.sent \in Nat /\ x.unacked \in Nat /\ x.unacked <= x.sent
        /\ x.sent < MaxBlocks /\ x.unacked < Window /\ MaxBlocks \in Nat /\ Window \in Nat
    BY <1>1, <1>3, Bounds DEF Busy
  <2> HIDE DEF x
  <2>2. x.sent + 1 \in 0 .. MaxBlocks /\ x.unacked + 1 \in 0 .. Window /\ x.unacked + 1 <= x.sent + 1
    BY <2>1
  <2>3. y \in Busy /\ y.unacked = x.unacked + 1 /\ y.sent = x.sent + 1
    BY <2>1, <2>2 DEF Busy
  <2> QED  BY <2>2, <2>3 DEF Lines
<1>5. /\ y.id = x.id /\ y.right = x.right /\ y.sent = x.sent + 1 /\ y.digits = x.digits
      /\ y.st = x.st /\ y.unacked = x.unacked + 1 /\ x.sent \in Nat /\ x.unacked \in Nat
      /\ x.digits \in Nat
  BY <1>3, Bounds DEF Busy
<1> HIDE DEF x, y, m
<1>6. Says(x, y, m)
  BY <1>1, <1>3, <1>5 DEF Says, Sayable, NcciTypes, B3Types, OnLine, OnB3, LiveTypes
<1>7. Onward(p, x, y, m)
  BY <1>1, <1>3, <1>5, <1>6, Counts DEF Onward, One
<1>8. Goes(p, y, <<m>>, m)
  BY <1>1, <1>3, <1>4, <1>7 DEF Goes, x
<1>9. Quiet(x, y)
  BY <1>5 DEF Quiet
<1> QED  BY <1>8, <1>9 DEF x

LEMMA HangUpGoes ==
    ASSUME Base, NEW p \in Plcis, HangUp(p)
    PROVE  \E y, t, m : Goes(p, y, t, m) /\ Quiet(line[p], y)
<1> DEFINE x == line[p]
<1>1. ASSUME NEW st \in {"b3down", "clearing"}, NEW b \in BOOLEAN,
             NEW ty \in {"DISCONNECTB3_IND", "DISCONNECT_IND"},
             IF st = "b3down" THEN b /\ ty = "DISCONNECTB3_IND" /\ x.st \in {"b3offered", "b3up"}
                              ELSE ~b /\ ty = "DISCONNECT_IND" /\ x.st \in {"offered", "active", "b3down"},
             Moves(p, [x EXCEPT !.st = st], <<Ind(p, b, ty, 0)>>)
      PROVE  \E y, t, m : Goes(p, y, t, m) /\ Quiet(x, y)
  <2> DEFINE y == [x EXCEPT !.st = st]
             m == Ind(p, b, ty, 0)
  <2>1. ty \in LiveTypes /\ (b <=> ty \in NcciTypes) /\ 0 \in Nat /\ line[p].st # "free"
    BY <1>1 DEF LiveTypes, NcciTypes
  <2>2. /\ m \in Tellings /\ Tells(<<m>>, m) /\ m.plci = p /\ m.type = ty
        /\ m.id = x.id /\ x \in Busy /\ x.id # 0 /\ x.unacked <= x.sent
    <3>1. ASSUME b = TRUE  PROVE IndOk(p, ty, 0, m)
      <4>1. m = Ind(p, TRUE, ty, 0) /\ ty \in NcciTypes
        BY <2>1, <3>1
      <4> HIDE DEF m, y
      <4> QED  BY <2>1, <4>1, IndFactsB3
    <3>2. ASSUME b = FALSE  PROVE IndOk(p, ty, 0, m)
      <4>1. m = Ind(p, FALSE, ty, 0) /\ ty \notin NcciTypes
        BY <2>1, <3>2
      <4> HIDE DEF m, y
      <4> QED  BY <2>1, <4>1, IndFacts
    <3>3. IndOk(p, ty, 0, m)
      BY <3>1, <3>2
    <3>4. x \in Busy /\ x.id # 0 /\ x.unacked <= x.sent
      BY <2>1, BusyLine
    <3> HIDE DEF m, y
    <3> QED  BY <3>3, <3>4 DEF IndOk
  <2> HIDE DEF x, m
  <2>3. /\ y \in Lines /\ y.st = st /\ y.sent = x.sent /\ y.unacked = x.unacked
        /\ x \in Lines /\ x.sent \in Nat /\ x.unacked \in Nat
    <3>1. st \in {"offered", "active", "b3offered", "b3up", "b3down", "clearing"}
      BY <1>1
    <3> QED  BY <2>2, <3>1, BusyTo
  <2>4. Says(x, y, m)
    BY <1>1, <2>2, <2>3 DEF Says, Sayable, NcciTypes, B3Types, OnLine, OnB3, LiveTypes
  <2>5. Sayable(x.st) \subseteq Sayable(st)
    BY <1>1 DEF Sayable, LiveTypes
  <2>6. Onward(p, x, y, m)
    BY <1>1, <2>2, <2>3, <2>4, <2>5, OnwardTo DEF OnB3
  <2>7. Goes(p, y, <<m>>, m)
    BY <1>1, <2>2, <2>3, <2>6 DEF Goes, x, m
  <2>8. Quiet(x, y)
    BY <1>1, <2>3 DEF Quiet, OnLine
  <2> QED  BY <2>7, <2>8
<1>2. \/ /\ x.st \in {"b3offered", "b3up"}
         /\ Moves(p, [x EXCEPT !.st = "b3down"], <<Ind(p, TRUE, "DISCONNECTB3_IND", 0)>>)
      \/ /\ x.st \in {"offered", "active", "b3down"}
         /\ Moves(p, [x EXCEPT !.st = "clearing"], <<Ind(p, FALSE, "DISCONNECT_IND", 0)>>)
  BY DEF HangUp
<1> HIDE DEF x
<1>3. \E y, t, m : Goes(p, y, t, m) /\ Quiet(x, y)
  BY <1>1, <1>2
<1> QED  BY <1>3 DEF x

\* As no message of the program is the reason, all the brick has got to read stays.
LEMMA CallersTake ==
    ASSUME Base, NEW p \in Plcis, NEW y, NEW t, NEW m, Goes(p, y, t, m), Quiet(line[p], y),
           toBrick' = toBrick
    PROVE  Takes(toBrick, toBrick', 0, line, line')
<1>1. line \in [Plcis -> Lines] /\ toBrick \in Seq(FromProg)
  BY DEF Base, Typed
<1>2. y \in Lines /\ line' = [line EXCEPT ![p] = y]
  BY DEF Goes, Moves
<1>3. line'[p] = y /\ \A o \in Plcis : o # p => line'[o] = line[o]
  BY <1>1, <1>2
<1>4. \A o \in Plcis : line[o] \in Lines /\ line'[o] \in Lines
  BY <1>1, <1>2, <1>3
<1>5. \A x \in Lines : x.sent \in Nat /\ x.unacked \in Nat /\ Quiet(x, x)
  BY LineIn DEF Quiet
<1>6. \A o \in Plcis : Quiet(line[o], line'[o])
  BY <1>3, <1>4, <1>5
<1> HIDE DEF Quiet
<1>7. Takes(toBrick, toBrick, 0, line, line')
  BY <1>1, <1>4, <1>5, <1>6, TakesNone
<1> QED  BY <1>7

LEMMA CallersGo ==
    ASSUME Base, NEW p \in Plcis, Digit(p) \/ OfferB3(p) \/ Block(p) \/ HangUp(p)
    PROVE  /\ \E y, t, m : Goes(p, y, t, m) /\ Quiet(line[p], y)
           /\ UNCHANGED <<toBrick, listening, rung>>
<1>1. \E y, t, m : Goes(p, y, t, m) /\ Quiet(line[p], y)
  BY DigitGoes, OfferB3Goes, BlockGoes, HangUpGoes
<1>2. UNCHANGED <<toBrick, listening, rung>>
  BY DEF Digit, OfferB3, Block, HangUp
<1> QED  BY <1>1, <1>2

LEMMA CallersBase ==
    ASSUME Base, NEW p \in Plcis, Digit(p) \/ OfferB3(p) \/ Block(p) \/ HangUp(p)
    PROVE  Base'
<1>1. PICK y, t, m : Goes(p, y, t, m)
  BY CallersGo
<1>2. toBrick' \in Seq(FromProg) /\ rung' = rung /\ listening' \in BOOLEAN
  BY CallersGo DEF Base, Typed
<1> QED  BY <1>1, <1>2, GoesBase

LEMMA CallersInv ==
    ASSUME Settled, NEW p \in Plcis, Digit(p) \/ OfferB3(p) \/ Block(p) \/ HangUp(p)
    PROVE  Settled'
<1>1. Base
  BY DEF Settled
<1>2. PICK y, t, m : Goes(p, y, t, m) /\ Quiet(line[p], y)
  BY <1>1, CallersGo
<1>3. toBrick' \in Seq(FromProg) /\ rung' = rung /\ listening' \in BOOLEAN /\ toBrick' = toBrick
  BY <1>1, CallersGo DEF Base, Typed
<1>4. Takes(toBrick, toBrick', 0, line, line')
  BY <1>1, <1>2, <1>3, CallersTake
<1> QED  BY <1>2, <1>3, <1>4, GoesInv

\* The line goes on to another state, and the brick tells of it.
LEMMA StateGoes ==
    ASSUME Base, NEW p \in Plcis, line[p].st \notin {"free", "clearing"},
           NEW st \in {"active", "b3up", "b3down", "clearing"}, NEW ty, NEW t, NEW m,
           IndOk(p, ty, 0, m), Tells(t, m), Moves(p, [line[p] EXCEPT !.st = st], t),
           ty \notin {"INFO_IND", "DATAB3_IND", "CONNECT_IND", "CONNECTB3_IND"},
           Sayable(line[p].st) \subseteq Sayable(st), ty \in Sayable(st),
           st \in OnB3 => line[p].st \in OnB3, ty \in B3Types => line[p].st \in OnB3,
           ty \in NcciTypes \cup {"CONNECTACTIVE_IND"} => st \in OnLine
    PROVE  /\ Goes(p, [line[p] EXCEPT !.st = st], t, m)
           /\ [line[p] EXCEPT !.st = st].st = st
           /\ [line[p] EXCEPT !.st = st].sent - [line[p] EXCEPT !.st = st].unacked
                 = line[p].sent - line[p].unacked
<1> DEFINE x == line[p]
           y == [x EXCEPT !.st = st]
<1>1. m \in Tellings /\ m.plci = p /\ m.type = ty /\ m.id = x.id
  BY DEF IndOk
<1>2. x \in Busy /\ x.id # 0 /\ x.unacked <= x.sent
  BY BusyLine
<1>3. Moves(p, y, t) /\ x.st \notin {"free", "clearing"}
  OBVIOUS
<1>4. /\ Sayable(x.st) \subseteq Sayable(st) /\ (st \in OnB3 => x.st \in OnB3)
      /\ (ty \in B3Types => x.st \in OnB3)
  OBVIOUS
<1> HIDE DEF x
<1>5. /\ y \in Lines /\ y.st = st /\ y.sent = x.sent /\ y.unacked = x.unacked
      /\ x \in Lines
  <2>1. st \in {"offered", "active", "b3offered", "b3up", "b3down", "clearing"}
    OBVIOUS
  <2> QED  BY <1>2, <2>1, BusyTo
<1>6. Says(x, y, m)
  BY <1>1, <1>2, <1>3, <1>4, <1>5 DEF Says
<1>7. Onward(p, x, y, m)
  BY <1>1, <1>3, <1>4, <1>5, <1>6, OnwardTo
<1>8. Goes(p, y, t, m)
  BY <1>1, <1>3, <1>5, <1>7 DEF Goes, x
<1> QED  BY <1>5, <1>8 DEF x

\* The line stays as it is, the brick confirms or says nothing.
LEMMA SameGoes ==
    ASSUME Base, NEW p \in Plcis, NEW t, Tells(t, NoMsg), Moves(p, line[p], t)
    PROVE  Goes(p, line[p], t, NoMsg)
<1>1. line[p] \in Lines
  BY DEF Base, Typed
<1>2. Onward(p, line[p], line[p], NoMsg)
  BY <1>1, OnwardSame
<1> QED  BY <1>1, <1>2 DEF Goes

\* The brick's confirmation of a request.
LEMMA ConfFacts ==
    ASSUME Base, NEW p \in Plcis, NEW b \in BOOLEAN, NEW ty \in ConfTypes, NEW c, c = Ind(p, b, ty, 0)
    PROVE  c \in Confirmations
<1>1. line[p].id \in CallIds \cup {0}
  <2>1. line[p] \in Lines
    BY DEF Base, Typed
  <2> QED  BY <2>1 DEF Lines, Idle, Busy
<1> QED  BY <1>1 DEF Ind, Confirmations

\* The message of the program moves line p, or it is behind the end of the call.
Responds(h, p) ==
    \/ \E y, t, m : Goes(p, y, t, m) /\ Reacts(h, p, line[p], y)
    \/ Closing(h) /\ Moves(p, Idle, <<>>)

LEMMA ConnectRespGoes ==
    ASSUME Base, NEW h \in Answers, NEW p, p = h.plci, Moves(p, Reaction(h).line, Reaction(h).ms),
           h.type = "CONNECT_RESP", line[p].st = "offered"
    PROVE  Responds(h, p)
<1> DEFINE x == line[p]
           Y(st) == [x EXCEPT !.st = st]
<1>1. p \in Plcis /\ p = h.plci /\ x.st = "offered" /\ h.type = "CONNECT_RESP"
  BY DEF Answers
<1>2. ASSUME NEW st \in {"active", "clearing"}, NEW ty \in {"CONNECTACTIVE_IND", "DISCONNECT_IND"},
             NEW m, IndOk(p, ty, 0, m), Moves(p, Y(st), <<m>>),
             st = "active" <=> h.arg = 0, st = "active" <=> ty = "CONNECTACTIVE_IND"
      PROVE  Responds(h, p)
  <2>1. Sayable(x.st) \subseteq Sayable(st) /\ ty \in Sayable(st) /\ x.st \notin {"free", "clearing"}
    BY <1>1, <1>2 DEF Sayable, LiveTypes
  <2>2. /\ ty \notin {"INFO_IND", "DATAB3_IND", "CONNECT_IND", "CONNECTB3_IND"}
        /\ st \notin OnB3 /\ ty \notin B3Types
        /\ ty \in NcciTypes \cup {"CONNECTACTIVE_IND"} => st \in OnLine
    BY <1>2 DEF OnB3, B3Types, NcciTypes, OnLine
  <2>3. Tells(<<m>>, m)
    BY <1>2 DEF IndOk
  <2>4. Goes(p, Y(st), <<m>>, m) /\ Y(st).st = st /\ Y(st).sent - Y(st).unacked = x.sent - x.unacked
    <3>1. st \in {"active", "b3up", "b3down", "clearing"}
      OBVIOUS
    <3> QED  BY <1>1, <1>2, <2>1, <2>2, <2>3, <3>1, StateGoes
  <2>5. x.sent - x.unacked + One(h \in DataResps(p)) >= x.sent - x.unacked
    <3>1. x \in Lines
      BY <1>1 DEF Base, Typed
    <3>2. x.sent \in Nat /\ x.unacked \in Nat
      BY <3>1, LineIn
    <3> HIDE DEF x
    <3> QED  BY <3>2 DEF One
  <2> HIDE DEF x, Y
  <2>6. Reacts(h, p, x, Y(st))
    BY <1>1, <1>2, <2>4, <2>5 DEF Reacts, Refuses, OnLine
  <2> QED  BY <2>4, <2>6 DEF Responds, x
<1>3. ASSUME h.arg = 0  PROVE Responds(h, p)
  <2> DEFINE m == Ind(p, FALSE, "CONNECTACTIVE_IND", 0)
  <2>1. Moves(p, Y("active"), <<m>>)
    BY <1>1, <1>3 DEF Reaction
  <2>2. /\ "CONNECTACTIVE_IND" \in LiveTypes /\ "CONNECTACTIVE_IND" \notin NcciTypes /\ 0 \in Nat
        /\ line[p].st # "free" /\ m = Ind(p, FALSE, "CONNECTACTIVE_IND", 0)
    BY <1>1 DEF LiveTypes, NcciTypes
  <2> HIDE DEF m, Y
  <2>3. IndOk(p, "CONNECTACTIVE_IND", 0, m)
    BY <1>1, <2>2, IndFacts
  <2> QED  BY <1>2, <1>3, <2>1, <2>3
<1>4. ASSUME h.arg # 0  PROVE Responds(h, p)
  <2> DEFINE m == Ind(p, FALSE, "DISCONNECT_IND", 0)
  <2>1. Moves(p, Y("clearing"), <<m>>)
    BY <1>1, <1>4 DEF Reaction
  <2>2. /\ "DISCONNECT_IND" \in LiveTypes /\ "DISCONNECT_IND" \notin NcciTypes /\ 0 \in Nat
        /\ line[p].st # "free" /\ m = Ind(p, FALSE, "DISCONNECT_IND", 0)
    BY <1>1 DEF LiveTypes, NcciTypes
  <2> HIDE DEF m, Y
  <2>3. IndOk(p, "DISCONNECT_IND", 0, m)
    BY <1>1, <2>2, IndFacts
  <2> QED  BY <1>2, <1>4, <2>1, <2>3
<1> QED  BY <1>3, <1>4

\* The requests to take a connection down, and the response that takes it up, are
\* answered by a message about the call, behind a confirmation or alone.
LEMMA MovedGoes ==
    ASSUME Base, NEW h \in Answers, NEW p \in Plcis, h.type # "CONNECT_RESP",
           line[p].st \notin {"free", "clearing"},
           NEW st \in {"b3up", "b3down", "clearing"}, NEW ty, NEW t, NEW m,
           IndOk(p, ty, 0, m), Tells(t, m), Moves(p, [line[p] EXCEPT !.st = st], t),
           \/ st = "b3up" /\ ty = "CONNECTB3ACTIVE_IND" /\ line[p].st = "b3offered"
           \/ st = "b3down" /\ ty = "DISCONNECTB3_IND" /\ line[p].st = "b3up"
           \/ st = "clearing" /\ ty = "DISCONNECT_IND"
    PROVE  Responds(h, p)
<1> DEFINE x == line[p]
           y == [x EXCEPT !.st = st]
<1>1. x \in Lines /\ x.st \notin {"free", "clearing"}
  BY DEF Base, Typed
<1>2. /\ ty \notin {"INFO_IND", "DATAB3_IND", "CONNECT_IND", "CONNECTB3_IND"} /\ ty \in Sayable(st)
      /\ Sayable(x.st) \subseteq Sayable(st)
  <2>1. Sayable(x.st) \subseteq LiveTypes
    BY DEF Sayable, LiveTypes
  <2> QED  BY <2>1 DEF Sayable, LiveTypes
<1>3. /\ st \in OnB3 => x.st \in OnB3
      /\ ty \in B3Types => x.st \in OnB3
      /\ ty \in NcciTypes \cup {"CONNECTACTIVE_IND"} => st \in OnLine
      /\ st \in OnLine => x.st \in OnLine
  BY DEF OnB3, B3Types, NcciTypes, OnLine
<1>4. st \in {"active", "b3up", "b3down", "clearing"}
  OBVIOUS
<1>5. Goes(p, y, t, m) /\ y.st = st /\ y.sent - y.unacked = x.sent - x.unacked
  BY <1>1, <1>2, <1>3, <1>4, StateGoes
<1>6. x.sent \in Nat /\ x.unacked \in Nat
  BY <1>1, LineIn
<1>7. Goes(p, y, t, m)
  BY <1>5
<1> HIDE DEF x, y
<1>8. Reacts(h, p, x, y)
  BY <1>3, <1>5, <1>6 DEF Reacts, Refuses, One
<1> QED  BY <1>7, <1>8 DEF Responds, x

LEMMA ConnectB3RespGoes ==
    ASSUME Base, NEW h \in Answers, NEW p, p = h.plci, Moves(p, Reaction(h).line, Reaction(h).ms),
           h.type = "CONNECTB3_RESP", line[p].st = "b3offered"
    PROVE  Responds(h, p)
<1> DEFINE m == Ind(p, TRUE, "CONNECTB3ACTIVE_IND", 0)
<1>1. p \in Plcis /\ Moves(p, [line[p] EXCEPT !.st = "b3up"], <<m>>)
  BY DEF Reaction, Answers
<1>2. /\ "CONNECTB3ACTIVE_IND" \in LiveTypes /\ "CONNECTB3ACTIVE_IND" \in NcciTypes /\ 0 \in Nat
      /\ line[p].st # "free" /\ m = Ind(p, TRUE, "CONNECTB3ACTIVE_IND", 0)
  BY DEF LiveTypes, NcciTypes
<1> HIDE DEF m
<1>3. IndOk(p, "CONNECTB3ACTIVE_IND", 0, m)
  BY <1>1, <1>2, IndFactsB3
<1>4. Tells(<<m>>, m)
  BY <1>3 DEF IndOk
<1> QED  BY <1>1, <1>3, <1>4, MovedGoes

LEMMA DisconnectB3ReqGoes ==
    ASSUME Base, NEW h \in Answers, NEW p, p = h.plci, Moves(p, Reaction(h).line, Reaction(h).ms),
           h.type = "DISCONNECTB3_REQ", line[p].st = "b3up"
    PROVE  Responds(h, p)
<1> DEFINE m == Ind(p, TRUE, "DISCONNECTB3_IND", 0)
           c == Ind(p, h.b3, "DISCONNECTB3_CONF", 0)
<1>1. p \in Plcis /\ h.b3 \in BOOLEAN /\ Moves(p, [line[p] EXCEPT !.st = "b3down"], <<c>> \o <<m>>)
  BY DEF Reaction, Answers
<1>2. /\ "DISCONNECTB3_IND" \in LiveTypes /\ "DISCONNECTB3_IND" \in NcciTypes /\ 0 \in Nat
      /\ "DISCONNECTB3_CONF" \in ConfTypes /\ line[p].st # "free"
      /\ m = Ind(p, TRUE, "DISCONNECTB3_IND", 0) /\ c = Ind(p, h.b3, "DISCONNECTB3_CONF", 0)
  BY DEF LiveTypes, NcciTypes, ConfTypes
<1> HIDE DEF m, c
<1>3. IndOk(p, "DISCONNECTB3_IND", 0, m)
  BY <1>1, <1>2, IndFactsB3
<1>4. c \in Confirmations
  BY <1>1, <1>2, ConfFacts
<1>5. Tells(<<c>> \o <<m>>, m)
  BY <1>3, <1>4, TellsConf DEF IndOk
<1> QED  BY <1>1, <1>3, <1>5, MovedGoes

LEMMA DisconnectReqGoes ==
    ASSUME Base, NEW h \in Answers, NEW p, p = h.plci, Moves(p, Reaction(h).line, Reaction(h).ms),
           h.type = "DISCONNECT_REQ", line[p].st \notin {"free", "clearing"}
    PROVE  Responds(h, p)
<1> DEFINE m == Ind(p, FALSE, "DISCONNECT_IND", 0)
           c == Ind(p, h.b3, "DISCONNECT_CONF", 0)
<1>1. p \in Plcis /\ h.b3 \in BOOLEAN /\ Moves(p, [line[p] EXCEPT !.st = "clearing"], <<c>> \o <<m>>)
  BY DEF Reaction, Answers
<1>2. /\ "DISCONNECT_IND" \in LiveTypes /\ "DISCONNECT_IND" \notin NcciTypes /\ 0 \in Nat
      /\ "DISCONNECT_CONF" \in ConfTypes /\ line[p].st # "free"
      /\ m = Ind(p, FALSE, "DISCONNECT_IND", 0) /\ c = Ind(p, h.b3, "DISCONNECT_CONF", 0)
  BY DEF LiveTypes, NcciTypes, ConfTypes
<1> HIDE DEF m, c
<1>3. IndOk(p, "DISCONNECT_IND", 0, m)
  BY <1>1, <1>2, IndFacts
<1>4. c \in Confirmations
  BY <1>1, <1>2, ConfFacts
<1>5. Tells(<<c>> \o <<m>>, m)
  BY <1>3, <1>4, TellsConf DEF IndOk
<1> QED  BY <1>1, <1>3, <1>5, MovedGoes

LEMMA DataB3RespGoes ==
    ASSUME Base, NEW h \in Answers, NEW p, p = h.plci, Moves(p, Reaction(h).line, Reaction(h).ms),
           h.type = "DATAB3_RESP", line[p].unacked > 0
    PROVE  Responds(h, p)
<1> DEFINE x == line[p]
           y == [x EXCEPT !.unacked = x.unacked - 1]
<1>1. p \in Plcis /\ p = h.plci /\ h.type = "DATAB3_RESP" /\ Moves(p, y, <<>>) /\ x.unacked > 0
  BY DEF Reaction, Answers
<1>2. x \in Lines
  BY <1>1 DEF Base, Typed
<1>3. x \in Busy /\ x.unacked <= x.sent
  BY <1>1, <1>2 DEF Lines, Idle
<1>4. x.sent \in Nat /\ x.unacked \in Nat /\ x.digits \in Nat
  BY <1>2, LineIn
<1> HIDE DEF x
<1>5. y \in Lines
  BY <1>1, <1>3, Bounds DEF Busy, Lines
<1>6. /\ y.id = x.id /\ y.right = x.right /\ y.sent = x.sent /\ y.digits = x.digits
      /\ y.st = x.st /\ y.unacked = x.unacked - 1
  BY <1>3 DEF Busy
<1>7. ~Live(NoMsg) /\ NoMsg \notin Infos(p) /\ NoMsg \notin Datas(p)
  BY NoneFromBrick DEF Infos, Datas
<1> HIDE DEF y
<1>8. Onward(p, x, y, NoMsg)
  BY <1>4, <1>6, <1>7 DEF Onward, One
<1>9. Goes(p, y, <<>>, NoMsg)
  BY <1>1, <1>5, <1>8, TellsNone DEF Goes, x
<1>10. One(h \in DataResps(p)) = 1
  BY <1>1 DEF One, DataResps, FromProg
<1>11. Reacts(h, p, x, y)
  BY <1>1, <1>4, <1>6, <1>10 DEF Reacts, Refuses
<1> QED  BY <1>9, <1>11 DEF Responds, x

\* Any other message leaves the line as it is.
LEMMA OtherGoes ==
    ASSUME Base, NEW h \in Answers, NEW p, p = h.plci, NEW t, Moves(p, line[p], t),
           \/ t = <<>>
           \/ \E b \in BOOLEAN, ty \in ConfTypes : t = <<Ind(p, b, ty, 0)>>,
           ~(h.type = "CONNECT_RESP" /\ line[p].st = "offered")
    PROVE  Responds(h, p)
<1> DEFINE x == line[p]
<1>1. p \in Plcis /\ x \in Lines
  BY DEF Answers, Base, Typed
<1>2. Tells(t, NoMsg)
  <2>1. CASE t = <<>>
    BY <2>1, TellsNone
  <2>2. CASE \E b \in BOOLEAN, ty \in ConfTypes : t = <<Ind(p, b, ty, 0)>>
    <3>1. PICK b \in BOOLEAN, ty \in ConfTypes : t = <<Ind(p, b, ty, 0)>>
      BY <2>2
    <3> DEFINE c == Ind(p, b, ty, 0)
    <3>2. c = Ind(p, b, ty, 0) /\ t = <<c>>
      BY <3>1
    <3> HIDE DEF c
    <3>3. c \in Confirmations
      BY <1>1, <3>2, ConfFacts
    <3> QED  BY <3>2, <3>3, TellsConf
  <2> QED  BY <2>1, <2>2
<1>3. Goes(p, x, t, NoMsg)
  BY <1>1, <1>2, SameGoes
<1>4. x.sent \in Nat /\ x.unacked \in Nat /\ ~(h.type = "CONNECT_RESP" /\ x.st = "offered")
  BY <1>1, LineIn
<1> HIDE DEF x
<1>5. Reacts(h, p, x, x)
  BY <1>4 DEF Reacts, Refuses, One
<1> QED  BY <1>3, <1>5 DEF Responds, x

LEMMA ReactionGoes ==
    ASSUME Base, NEW h \in Answers, Moves(h.plci, Reaction(h).line, Reaction(h).ms)
    PROVE  /\ Responds(h, h.plci)
           /\ h.plci \in Plcis
<1> DEFINE p == h.plci
           x == line[p]
<1>1. p \in Plcis /\ x \in Lines /\ h.b3 \in BOOLEAN
  BY DEF Answers, Base, Typed
<1>2. [x EXCEPT !.st = x.st] = x
  BY <1>1 DEF Lines, Idle, Busy
<1>3. CASE h.type = "CONNECT_RESP" /\ x.st = "offered"
  BY <1>1, <1>3, ConnectRespGoes
<1>4. CASE h.type = "CONNECTB3_RESP" /\ x.st = "b3offered"
  BY <1>1, <1>4, ConnectB3RespGoes
<1>5. CASE h.type = "DATAB3_RESP" /\ x.unacked > 0
  BY <1>1, <1>5, DataB3RespGoes
<1>6. CASE h.type = "DISCONNECTB3_REQ" /\ x.st = "b3up"
  BY <1>1, <1>6, DisconnectB3ReqGoes
<1>7. CASE h.type = "DISCONNECTB3_REQ" /\ x.st # "b3up"
  <2>1. Moves(p, x, <<Ind(p, h.b3, "DISCONNECTB3_CONF", 0)>>)
    BY <1>2, <1>7 DEF Reaction
  <2>2. "DISCONNECTB3_CONF" \in ConfTypes
    BY DEF ConfTypes
  <2> QED  BY <1>1, <1>7, <2>1, <2>2, OtherGoes
<1>8. CASE h.type = "DISCONNECT_REQ" /\ x.st \notin {"free", "clearing"}
  BY <1>1, <1>8, DisconnectReqGoes
<1>9. CASE h.type = "DISCONNECT_REQ" /\ x.st \in {"free", "clearing"}
  <2>1. Moves(p, x, <<Ind(p, h.b3, "DISCONNECT_CONF", 0)>>)
    BY <1>2, <1>9 DEF Reaction
  <2>2. "DISCONNECT_CONF" \in ConfTypes
    BY DEF ConfTypes
  <2> QED  BY <1>1, <1>9, <2>1, <2>2, OtherGoes
<1>10. CASE h.type = "DISCONNECT_RESP" /\ x.st = "clearing"
  <2>1. Reaction(h) = [line |-> Idle, ms |-> <<>>]
    BY <1>10 DEF Reaction
  <2>2. Moves(p, Idle, <<>>)
    BY <2>1
  <2> QED  BY <1>1, <1>10, <2>2 DEF Responds, Closing
<1>11. CASE /\ ~(h.type = "CONNECT_RESP" /\ x.st = "offered")
            /\ ~(h.type = "CONNECTB3_RESP" /\ x.st = "b3offered")
            /\ ~(h.type = "DATAB3_RESP" /\ x.unacked > 0)
            /\ h.type \notin {"DISCONNECTB3_REQ", "DISCONNECT_REQ"}
            /\ ~(h.type = "DISCONNECT_RESP" /\ x.st = "clearing")
  <2>1. Moves(p, x, <<>>)
    BY <1>2, <1>11 DEF Reaction
  <2> QED  BY <1>1, <1>11, <2>1, OtherGoes, SMTT(40), SMTT(41), ZenonT(30)
<1> QED  BY <1>1, <1>3, <1>4, <1>5, <1>6, <1>7, <1>8, <1>9, <1>10, <1>11

\* The brick takes what the program has sent.
LEMMA BrickTakesCases ==
    ASSUME Base, BrickTakes
    PROVE  /\ toBrick # <<>> /\ toBrick \in Seq(FromProg) /\ toBrick' = Tail(toBrick)
           /\ Head(toBrick) \in FromProg /\ toBrick' \in Seq(FromProg) /\ rung' = rung
           /\ listening' \in BOOLEAN
           /\ \/ /\ Head(toBrick) = Listen
                 /\ toProg' = Append(toProg, [NoMsg EXCEPT !.type = "LISTEN_CONF"])
                 /\ UNCHANGED <<pc, capi, prog, conn, brick, line, reboots, files>> /\ conn = "up"
              \/ /\ Head(toBrick) \in Answers /\ Head(toBrick).plci \in Plcis
                 /\ Responds(Head(toBrick), Head(toBrick).plci)
<1>1. toBrick # <<>> /\ toBrick \in Seq(FromProg) /\ toBrick' = Tail(toBrick) /\ rung' = rung
  BY DEF BrickTakes, Base, Typed
<1>2. Head(toBrick) \in FromProg /\ toBrick' \in Seq(FromProg)
  BY <1>1
<1> DEFINE h == Head(toBrick)
<1>3. CASE h.type = "LISTEN_REQ"
  <2>1. h = Listen
    BY <1>2, <1>3 DEF FromProg, Answers, AnswerTypes
  <2>2. /\ toProg' = Append(toProg, [NoMsg EXCEPT !.type = "LISTEN_CONF"]) /\ listening' = TRUE
        /\ UNCHANGED <<pc, capi, prog, conn, brick, line, reboots, files>> /\ conn = "up"
    BY <1>3 DEF BrickTakes
  <2> QED  BY <1>1, <1>2, <2>1, <2>2
<1>4. CASE h.type # "LISTEN_REQ"
  <2>1. h \in Answers
    BY <1>2, <1>4 DEF FromProg, Listen, NoMsg
  <2>2. Moves(h.plci, Reaction(h).line, Reaction(h).ms) /\ listening' = listening
    BY <1>4 DEF BrickTakes
  <2>3. listening' \in BOOLEAN
    BY <2>2 DEF Base, Typed
  <2> HIDE DEF h
  <2>4. Responds(h, h.plci) /\ h.plci \in Plcis
    BY <2>1, <2>2, ReactionGoes
  <2> QED  BY <1>1, <1>2, <2>1, <2>3, <2>4 DEF h
<1> QED  BY <1>3, <1>4

LEMMA ConfirmedBase ==
    ASSUME Base, NEW c \in Confirmations, toProg' = Append(toProg, c), pc # "init", conn = "up",
           toBrick' \in Seq(FromProg), listening' \in BOOLEAN,
           UNCHANGED <<pc, capi, prog, conn, brick, line, rung, reboots, files>>
    PROVE  Base' /\ Extends(Coming, Coming', NoMsg)
<1>1. /\ UNCHANGED <<pc, capi, back, cfd, pfd, calls, conn, brick, line, rung, reboots, files>>
  BY DEF prog
<1>2. c \in FromBrick /\ toProg \in Seq(FromBrick) /\ capi \in FromBrick \cup {NoMsg}
  BY DEF Base, Typed, FromBrick
<1>3. toProg' = toProg \o <<c>> /\ <<c>> \in Seq(FromBrick) /\ toProg' \in Seq(FromBrick)
  BY <1>2
<1>4. Typed'
  BY <1>1, <1>3 DEF Base, Typed
<1>5. Control'
  <2>1. pc # "register"
    BY DEF Base, Control
  <2> QED  BY <1>1, <2>1, Bounds DEF Base, Control
<1>6. Coming' = Coming \o <<c>> /\ Coming \in Seq(FromBrick)
  <2>1. Coming' = Stream(capi, toProg \o <<c>>)
    BY <1>1, <1>3 DEF Coming
  <2>2. /\ \A r \in Seq(FromBrick) : Stream(capi, toProg \o r) = Stream(capi, toProg) \o r
        /\ Stream(capi, toProg) \in Seq(FromBrick)
    BY <1>2, StreamFacts
  <2> QED  BY <1>3, <2>1, <2>2 DEF Coming
<1>7. Extends(Coming, Coming \o <<c>>, NoMsg)
  <2>1. Tells(<<c>>, NoMsg)
    BY TellsConf
  <2> QED  BY <1>3, <1>6, <2>1, ExtendsBy DEF Tells
<1>8. Room(Coming', calls', rung')
  <2> DEFINE n == Number(Coming, Offers)
             n2 == Number(Coming \o <<c>>, Offers)
  <2>1. n2 = n
    <3>1. n2 = n + One(NoMsg \in Offers)
      BY <1>7 DEF Extends
    <3>2. One(NoMsg \in Offers) = 0 /\ n \in Nat
      BY <1>6, NoneFromBrick, NumberType DEF One
    <3> HIDE DEF n, n2
    <3> QED  BY <3>1, <3>2
  <2>2. Len(calls) + n <= rung
    BY DEF Base, Room
  <2> HIDE DEF n, n2
  <2> QED  BY <1>1, <1>6, <2>1, <2>2 DEF n2, Room
<1> QED  BY <1>4, <1>5, <1>6, <1>7, <1>8 DEF Base

LEMMA ListenConf == [NoMsg EXCEPT !.type = "LISTEN_CONF"] \in Confirmations
BY DEF NoMsg, Confirmations, ConfTypes

LEMMA BrickTakesBase ==
    ASSUME Base, BrickTakes
    PROVE  Base'
<1>1. /\ toBrick # <<>> /\ toBrick' \in Seq(FromProg) /\ rung' = rung /\ listening' \in BOOLEAN
  BY BrickTakesCases
<1>2. CASE /\ toProg' = Append(toProg, [NoMsg EXCEPT !.type = "LISTEN_CONF"]) /\ conn = "up"
           /\ UNCHANGED <<pc, capi, prog, conn, brick, line, reboots, files>>
  <2> DEFINE c == [NoMsg EXCEPT !.type = "LISTEN_CONF"]
  <2>1. c \in Confirmations /\ toProg' = Append(toProg, c)
    BY <1>2, ListenConf
  <2>2. pc # "init"
    BY <1>1 DEF Base, Control
  <2> HIDE DEF c
  <2>3. UNCHANGED <<pc, capi, prog, conn, brick, line, rung, reboots, files>>
    BY <1>1, <1>2
  <2> QED  BY <1>1, <1>2, <2>1, <2>2, <2>3, ConfirmedBase
<1>3. CASE Head(toBrick).plci \in Plcis /\ Responds(Head(toBrick), Head(toBrick).plci)
  <2> DEFINE p == Head(toBrick).plci
  <2>1. CASE \E y, t, m : Goes(p, y, t, m)
    BY <1>1, <1>3, <2>1, GoesBase
  <2>2. CASE Moves(p, Idle, <<>>)
    <3>1. Idle \in Lines /\ Tells(<<>>, NoMsg) /\ NoMsg \in Tellings \cup {NoMsg}
      BY TellsNone DEF Lines
    <3>2. rung' \in 0 .. MaxCalls /\ rung' = rung + One(NoMsg \in Offers)
      BY <1>1, NoneFromBrick DEF Base, Typed, One
    <3> QED  BY <1>1, <1>3, <2>2, <3>1, <3>2, MovesBase
  <2> QED  BY <1>3, <2>1, <2>2 DEF Responds
<1> QED  BY <1>2, <1>3, BrickTakesCases

\* The message of the program that the line goes on with is taken.
LEMMA BrickGoesTakes ==
    ASSUME Base, toBrick # <<>>, Head(toBrick) \in Answers, NEW p, p = Head(toBrick).plci,
           NEW y, NEW t, NEW m, Goes(p, y, t, m), Reacts(Head(toBrick), p, line[p], y)
    PROVE  Takes(toBrick, Tail(toBrick), 1, line, line')
<1>1. line \in [Plcis -> Lines] /\ toBrick \in Seq(FromProg) /\ p \in Plcis
  BY DEF Base, Typed, Answers
<1>2. y \in Lines /\ line' = [line EXCEPT ![p] = y]
  BY DEF Goes, Moves
<1>3. line'[p] = y /\ \A o \in Plcis : o # p => line'[o] = line[o]
  BY <1>1, <1>2
<1>4. \A o \in Plcis : line[o] \in Lines /\ line'[o] \in Lines
  BY <1>1, <1>2, <1>3
<1>5. \A x \in Lines : x.sent \in Nat /\ x.unacked \in Nat
  BY LineIn
<1>6. ASSUME NEW o \in Plcis, o # p, NEW x \in Lines  PROVE Reacts(Head(toBrick), o, x, x)
  BY <1>5, <1>6 DEF Reacts, Refuses, One
<1>7. \A o \in Plcis : Reacts(Head(toBrick), o, line[o], line'[o])
  BY <1>3, <1>4, <1>6
<1> HIDE DEF Reacts
<1> QED  BY <1>1, <1>4, <1>5, <1>7, TakesOne

LEMMA BrickTakesInv ==
    ASSUME Settled, BrickTakes
    PROVE  Settled'
<1>1. Base /\ Base'
  BY BrickTakesBase DEF Settled
<1>2. /\ toBrick # <<>> /\ toBrick \in Seq(FromProg) /\ toBrick' = Tail(toBrick)
      /\ toBrick' \in Seq(FromProg) /\ rung' = rung /\ listening' \in BOOLEAN
  BY <1>1, BrickTakesCases
<1>3. CASE /\ Head(toBrick) = Listen /\ conn = "up"
           /\ toProg' = Append(toProg, [NoMsg EXCEPT !.type = "LISTEN_CONF"])
           /\ UNCHANGED <<pc, capi, prog, conn, brick, line, reboots, files>>
  <2> DEFINE c == [NoMsg EXCEPT !.type = "LISTEN_CONF"]
  <2>1. c \in Confirmations /\ toProg' = Append(toProg, c)
    BY <1>3, ListenConf
  <2>2. pc # "init"
    BY <1>1, <1>2 DEF Base, Control
  <2> HIDE DEF c
  <2>3. UNCHANGED <<pc, capi, prog, conn, brick, line, rung, reboots, files>>
    BY <1>2, <1>3
  <2>4. Extends(Coming, Coming', NoMsg)
    BY <1>1, <1>2, <1>3, <2>1, <2>2, <2>3, ConfirmedBase
  <2>5. line \in [Plcis -> Lines] /\ line' = line
    BY <1>1, <2>3 DEF Base, Typed
  <2>6. Turn(line, line', NoMsg)
    BY <2>5, TurnNone
  <2>7. Takes(toBrick, toBrick', 1, line, line')
    <3>1. \A p \in Plcis : line[p] \in Lines /\ line'[p] = line[p]
      BY <2>5
    <3>2. \A p \in Plcis : /\ line[p].sent \in Nat /\ line[p].unacked \in Nat
                           /\ line'[p].sent \in Nat /\ line'[p].unacked \in Nat
      BY <3>1, LineIn
    <3>3. \A p \in Plcis : Reacts(Head(toBrick), p, line[p], line'[p])
      <4>1. ~Refuses(Listen, 0) /\ Listen.type = "LISTEN_REQ"
        BY DEF Refuses, Listen, NoMsg
      <4> QED  BY <1>3, <3>1, <3>2, <4>1 DEF Reacts, Refuses, One
    <3> QED  BY <1>2, <3>2, <3>3, TakesOne
  <2>8. /\ UNCHANGED <<calls, rung, reboots, files>>
        /\ conn' = conn /\ pc' = pc /\ NoMsg \in Tellings \cup {NoMsg} /\ ~Live(NoMsg)
    BY <2>3, NoneFromBrick DEF prog
  <2> QED  BY <1>1, <1>3, <2>4, <2>6, <2>7, <2>8, TurnInv
<1>4. CASE /\ Head(toBrick) \in Answers /\ Head(toBrick).plci \in Plcis
           /\ Responds(Head(toBrick), Head(toBrick).plci)
  <2> DEFINE p == Head(toBrick).plci
  <2>1. CASE \E y, t, m : Goes(p, y, t, m) /\ Reacts(Head(toBrick), p, line[p], y)
    <3>1. PICK y, t, m : Goes(p, y, t, m) /\ Reacts(Head(toBrick), p, line[p], y)
      BY <2>1
    <3>2. Takes(toBrick, toBrick', 1, line, line')
      BY <1>1, <1>2, <1>4, <3>1, BrickGoesTakes
    <3> QED  BY <1>2, <1>4, <3>1, <3>2, GoesInv
  <2>2. CASE Closing(Head(toBrick)) /\ Moves(p, Idle, <<>>)
    <3>1. Idle \in Lines /\ Tells(<<>>, NoMsg) /\ NoMsg \in Tellings \cup {NoMsg}
      BY TellsNone DEF Lines
    <3>2. rung' \in 0 .. MaxCalls /\ rung' = rung + One(NoMsg \in Offers)
      BY <1>1, <1>2, NoneFromBrick DEF Base, Typed, One
    <3>3. /\ Coming \in Seq(FromBrick) /\ line' = [line EXCEPT ![p] = Idle]
          /\ conn = "up" /\ conn' = "up" /\ pc # "init" /\ pc' = pc
          /\ UNCHANGED <<calls, reboots, files>>
      BY <1>1, <1>2, <1>4, <2>2, <3>1, <3>2, MovesBase
    <3>4. Coming' = Coming
      <4>1. toProg' = toProg \o <<>> /\ capi' = capi /\ toProg \in Seq(FromBrick)
        BY <1>1, <2>2 DEF Moves, Base, Typed
      <4> QED  BY <4>1 DEF Coming
    <3>5. /\ rung \in Nat /\ calls \in Seq(Records) /\ line \in [Plcis -> Lines]
          /\ files \in [CallIds -> Seq(Blocks)]
      BY <1>1 DEF Base, Typed
    <3>6. Whole(Coming, toBrick, TRUE, line, calls, rung, files)
      <4>1. (conn = "up") = TRUE
        BY <3>3
      <4> QED  BY <4>1 DEF Settled
    <3>7. /\ Whole(Coming, Tail(toBrick), TRUE, line', calls, rung, files)
          /\ Filed(Coming, line, files, rung) => Filed(Coming, line', files, rung)
          /\ Alive(toBrick, line, calls) => Alive(Tail(toBrick), line', calls)
      BY <1>2, <1>4, <2>2, <3>3, <3>5, <3>6, OverWhole
    <3>8. Whole(Coming', toBrick', conn' = "up", line', calls', rung', files')
      <4>1. (conn' = "up") = TRUE
        BY <3>3
      <4> QED  BY <1>2, <3>3, <3>4, <3>7, <4>1
    <3>9. ~FilesFail /\ pc' # "killed" => Filed(Coming', line', files', rung')
      BY <1>2, <3>3, <3>4, <3>7 DEF Settled
    <3>10. reboots' = 0 => (pc' = "init" \/ conn' = "up") /\ Alive(toBrick', line', calls')
      BY <1>2, <3>3, <3>7 DEF Settled
    <3> QED  BY <1>1, <3>8, <3>9, <3>10 DEF Settled
  <2> QED  BY <1>4, <2>1, <2>2 DEF Responds
<1> QED  BY <1>1, <1>3, <1>4, BrickTakesCases

\* A call comes in on a free line.
Rings(p, y, m) ==
    /\ y \in Lines /\ m \in Tellings /\ Moves(p, y, <<m>>)
    /\ line[p].st = "free" /\ rung + 1 \in CallIds /\ rung' = rung + 1
    /\ m.type = "CONNECT_IND" /\ m.plci = p /\ m.id = rung + 1
    /\ y.st = "offered" /\ y.id = rung + 1 /\ y.sent = 0 /\ y.unacked = 0 /\ y.digits = 0
    /\ m.arg = 1 => y.right
    /\ UNCHANGED <<toBrick, listening>>

LEMMA RingRings ==
    ASSUME Base, NEW p \in Plcis, Ring(p)
    PROVE  \E y, m : Rings(p, y, m)
<1> DEFINE i == rung + 1
<1>1. /\ line[p].st = "free" /\ rung' = i /\ i \in CallIds /\ UNCHANGED <<toBrick, listening>>
  BY Bounds DEF Ring, Base, Typed, CallIds
<1>2. PICK r \in {0, 1}, b \in BOOLEAN :
         /\ r = 1 => b
         /\ Moves(p, [Idle EXCEPT !.st = "offered", !.id = i, !.right = b],
                  <<[type |-> "CONNECT_IND", plci |-> p, b3 |-> FALSE, id |-> i, arg |-> r]>>)
  <2>1. PICK r \in {0, 1} :
           Moves(p, [Idle EXCEPT !.st = "offered", !.id = rung', !.right = (r = 1)],
                 <<[type |-> "CONNECT_IND", plci |-> p, b3 |-> FALSE, id |-> rung', arg |-> r]>>)
    BY DEF Ring
  <2>2. Moves(p, [Idle EXCEPT !.st = "offered", !.id = i, !.right = (r = 1)],
              <<[type |-> "CONNECT_IND", plci |-> p, b3 |-> FALSE, id |-> i, arg |-> r]>>)
    BY <1>1, <2>1
  <2>3. (r = 1) \in BOOLEAN
    OBVIOUS
  <2> HIDE DEF i
  <2> WITNESS r \in {0, 1}, (r = 1) \in BOOLEAN
  <2> QED  BY <2>2
<1> DEFINE y == [Idle EXCEPT !.st = "offered", !.id = i, !.right = b]
           m == [type |-> "CONNECT_IND", plci |-> p, b3 |-> FALSE, id |-> i, arg |-> r]
<1>3. /\ y \in [st : {"free", "offered"}, id : CallIds \cup {0}, right : BOOLEAN, sent : {0},
                unacked : {0}, digits : {0}]
      /\ y.st = "offered" /\ y.id = i /\ y.right = b
  <2>1. Idle \in [st : {"free", "offered"}, id : CallIds \cup {0}, right : BOOLEAN, sent : {0},
                  unacked : {0}, digits : {0}]
    BY DEF Idle
  <2> HIDE DEF i
  <2> QED  BY <1>1, <2>1
<1>4. Moves(p, y, <<m>>)
  BY <1>2
<1>5. m \in Tellings /\ m.type = "CONNECT_IND" /\ m.plci = p /\ m.id = i /\ m.arg = r
  BY <1>1 DEF Tellings, LiveTypes, NcciTypes
<1> HIDE DEF y, m
<1>6. /\ y.st = "offered" /\ y.id = i /\ y.sent = 0 /\ y.unacked = 0 /\ y.digits = 0
      /\ y.right = b
  BY <1>3
<1>7. y \in Lines
  <2>1. 0 \in 0 .. MaxBlocks /\ 0 \in 0 .. Window /\ 0 \in 0 .. Ncnt
    BY Bounds
  <2>2. y \in Busy
    BY <1>1, <1>3, <2>1 DEF Busy
  <2> QED  BY <1>6, <2>2 DEF Lines
<1>8. Rings(p, y, m)
  BY <1>1, <1>2, <1>4, <1>5, <1>6, <1>7 DEF Rings
<1> QED  BY <1>8

LEMMA RingsBase ==
    ASSUME Base, NEW p \in Plcis, NEW y, NEW m, Rings(p, y, m)
    PROVE  /\ Base' /\ Extends(Coming, Coming', m) /\ Coming \in Seq(FromBrick)
           /\ line' = [line EXCEPT ![p] = y] /\ line' \in [Plcis -> Lines]
           /\ conn = "up" /\ conn' = "up" /\ pc # "init" /\ pc' = pc
           /\ UNCHANGED <<calls, reboots, files>>
<1>1. /\ y \in Lines /\ m \in Tellings /\ Moves(p, y, <<m>>) /\ rung' = rung + 1 /\ rung + 1 \in CallIds
      /\ m \in Offers
  BY DEF Rings, Offers, FromBrick
<1>2. toBrick' \in Seq(FromProg) /\ listening' \in BOOLEAN
  BY DEF Rings, Base, Typed
<1>3. rung' \in 0 .. MaxCalls /\ rung' = rung + One(m \in Offers)
  BY <1>1, Bounds DEF CallIds, One
<1>4. Tells(<<m>>, m)
  BY <1>1, TellsOne
<1> QED  BY <1>1, <1>2, <1>3, <1>4, MovesBase

LEMMA RingBase ==
    ASSUME Base, NEW p \in Plcis, Ring(p)
    PROVE  Base'
BY RingRings, RingsBase

LEMMA RingInv ==
    ASSUME Settled, NEW p \in Plcis, Ring(p)
    PROVE  Settled'
<1>1. Base
  BY DEF Settled
<1>2. PICK y, m : Rings(p, y, m)
  BY <1>1, RingRings
<1>3. /\ Base' /\ Extends(Coming, Coming', m) /\ Coming \in Seq(FromBrick)
      /\ line' = [line EXCEPT ![p] = y] /\ line' \in [Plcis -> Lines]
      /\ conn = "up" /\ conn' = "up" /\ pc # "init" /\ pc' = pc
      /\ UNCHANGED <<calls, reboots, files>>
  BY <1>1, <1>2, RingsBase
<1>4. /\ rung \in Nat /\ calls \in Seq(Records) /\ line \in [Plcis -> Lines]
      /\ files \in [CallIds -> Seq(Blocks)] /\ toBrick \in Seq(FromProg)
  BY <1>1 DEF Base, Typed
<1>5. Whole(Coming, toBrick, TRUE, line, calls, rung, files)
  <2>1. (conn = "up") = TRUE
    BY <1>3
  <2> QED  BY <2>1 DEF Settled
<1>6. line'[p] = y /\ \A o \in Plcis : o # p => line'[o] = line[o]
  BY <1>3, <1>4
<1>7. /\ m \in Tellings /\ Offered(m, p, line, line', rung)
      /\ rung' = rung + 1 /\ toBrick' = toBrick
  BY <1>2, <1>6 DEF Rings, Offered
<1>8. /\ Whole(Coming', toBrick, TRUE, line', calls, rung + 1, files)
      /\ Filed(Coming, line, files, rung) => Filed(Coming', line', files, rung + 1)
      /\ Alive(toBrick, line, calls) => Alive(toBrick, line', calls)
  BY <1>3, <1>4, <1>5, <1>7, RingWhole
<1>9. Whole(Coming', toBrick', conn' = "up", line', calls', rung', files')
  <2>1. (conn' = "up") = TRUE
    BY <1>3
  <2> QED  BY <1>3, <1>7, <1>8, <2>1
<1>10. ~FilesFail /\ pc' # "killed" => Filed(Coming', line', files', rung')
  BY <1>3, <1>7, <1>8 DEF Settled
<1>11. reboots' = 0 => (pc' = "init" \/ conn' = "up") /\ Alive(toBrick', line', calls')
  BY <1>3, <1>7, <1>8 DEF Settled
<1> QED  BY <1>3, <1>9, <1>10, <1>11 DEF Settled

LEMMA RebootBase ==
    ASSUME Base, Reboot
    PROVE  Base' /\ Coming' = Coming
<1>1. /\ UNCHANGED <<pc, capi, back, cfd, pfd, calls, toProg, rung, files>>
      /\ conn' = IF conn = "up" THEN "gone" ELSE conn
      /\ toBrick' = <<>> /\ listening' = FALSE /\ line' = [p \in Plcis |-> Idle] /\ brick' = "down"
      /\ reboots < MaxReboots /\ reboots' = reboots + 1
  BY DEF Reboot, prog
<1>2. reboots' \in 0 .. MaxReboots
  BY <1>1, Bounds DEF Base, Typed
<1>3. line' \in [Plcis -> Lines]
  BY <1>1 DEF Lines
<1>4. Typed'
  <2>1. /\ toBrick' \in Seq(FromProg) /\ listening' \in BOOLEAN /\ brick' \in {"up", "down"}
        /\ conn' \in {"up", "gone", "rst", "reset", "dead"}
    <3>1. conn \in {"up", "gone", "rst", "reset", "dead"}
      BY DEF Base, Typed
    <3>2. conn' \in {"up", "gone", "rst", "reset", "dead"}
      BY <1>1, <3>1
    <3>3. toBrick' \in Seq(FromProg) /\ brick' \in {"up", "down"}
      BY <1>1
    <3>4. listening' \in BOOLEAN
      BY <1>1, Zenon
    <3> QED  BY <3>2, <3>3, <3>4
  <2>2. /\ pc' = pc /\ capi' = capi /\ back' = back /\ cfd' = cfd /\ pfd' = pfd /\ calls' = calls
        /\ toProg' = toProg /\ rung' = rung /\ files' = files
    BY <1>1
  <2> QED  BY <1>2, <1>3, <2>1, <2>2 DEF Base, Typed
<1>5. Control'
  BY <1>1 DEF Base, Control
<1>6. Coming' = Coming
  BY <1>1 DEF Coming
<1>7. Room(Coming', calls', rung')
  BY <1>1, <1>6 DEF Base
<1> QED  BY <1>4, <1>5, <1>6, <1>7 DEF Base

LEMMA RebootInv ==
    ASSUME Settled, Reboot
    PROVE  Settled'
<1>1. Base /\ Base' /\ Coming' = Coming
  BY RebootBase DEF Settled
<1>2. /\ UNCHANGED <<pc, calls, rung, files>> /\ conn' # "up"
      /\ toBrick' = <<>> /\ line' = [p \in Plcis |-> Idle] /\ reboots' = reboots + 1
  BY DEF Reboot, prog
<1>3. rung \in Nat /\ calls \in Seq(Records) /\ reboots \in Nat
  BY <1>1, Bounds DEF Base, Typed
<1>4. Whole(Coming, toBrick, conn = "up", line, calls, rung, files)
  BY DEF Settled
<1>5. /\ Whole(Coming, <<>>, FALSE, [p \in Plcis |-> Idle], calls, rung, files)
      /\ Filed(Coming, line, files, rung) => Filed(Coming, [p \in Plcis |-> Idle], files, rung)
  BY <1>3, <1>4, GoneWhole
<1>6. Whole(Coming', toBrick', conn' = "up", line', calls', rung', files')
  <2>1. (conn' = "up") = FALSE
    BY <1>2
  <2> QED  BY <1>1, <1>2, <1>5, <2>1
<1>7. ~FilesFail /\ pc' # "killed" => Filed(Coming', line', files', rung')
  BY <1>1, <1>2, <1>5 DEF Settled
<1>8. reboots' # 0
  BY <1>2, <1>3
<1> QED  BY <1>1, <1>6, <1>7, <1>8 DEF Settled

--------------------------------------------------------------------------------
(* The signal handler *)

LEMMA AlarmBase ==
    ASSUME Base, Alarm
    PROVE  /\ Base' /\ Coming' = Coming /\ pc # "init" /\ pc' \in {pc, "killed"}
           /\ toBrick' = IF conn = "up" THEN toBrick \o <<Listen>> ELSE toBrick
           /\ (conn' = "up" <=> conn = "up")
           /\ UNCHANGED <<line, calls, rung, reboots, files>>
<1>1. /\ pc \in {"poll", "event"} /\ pc' \in {pc, "killed"}
      /\ UNCHANGED <<capi, back, cfd, pfd, calls, toProg, brick, listening, line, rung, reboots, files>>
      /\ toBrick' = IF conn = "up" THEN toBrick \o <<Listen>> ELSE toBrick
  BY DEF Alarm, Sends, prog, far
<1>2. conn' \in {"up", "gone", "rst", "reset", "dead"} /\ (conn' = "up" <=> conn = "up")
  BY DEF Alarm, Sends, Base, Typed
<1>3. toBrick' \in Seq(FromProg)
  <2>1. Listen \in FromProg /\ toBrick \in Seq(FromProg)
    BY DEF FromProg, Base, Typed
  <2> QED  BY <1>1, <2>1
<1>4. Typed'
  BY <1>1, <1>2, <1>3 DEF Base, Typed
<1>5. Control'
  BY <1>1 DEF Base, Control
<1>6. Coming' = Coming
  BY <1>1 DEF Coming
<1>7. Room(Coming', calls', rung')
  BY <1>1, <1>6 DEF Base
<1> QED  BY <1>1, <1>2, <1>4, <1>5, <1>6, <1>7 DEF Base

LEMMA AlarmInv ==
    ASSUME Settled, Alarm
    PROVE  Settled'
<1>1. Base
  BY DEF Settled
<1>2. /\ Base' /\ Coming' = Coming /\ pc # "init" /\ pc' \in {pc, "killed"}
      /\ toBrick' = IF conn = "up" THEN toBrick \o <<Listen>> ELSE toBrick
      /\ (conn' = "up" <=> conn = "up")
      /\ UNCHANGED <<line, calls, rung, reboots, files>>
  BY <1>1, AlarmBase
<1>3. CASE conn = "up"
  <2>1. /\ capi \in FromBrick \cup {NoMsg} /\ toProg \in Seq(FromBrick)
        /\ line \in [Plcis -> Lines] /\ toBrick \in Seq(FromProg)
    BY <1>1 DEF Base, Typed
  <2>2. Coming \in Seq(FromBrick)
    BY <2>1, StreamFacts DEF Coming
  <2>3. Extends(Coming, Coming', NoMsg)
    <3>1. <<>> \in Seq(FromBrick) /\ Coming \o <<>> = Coming
      BY <2>2
    <3>2. Tells(<<>>, NoMsg)
      BY TellsNone
    <3>3. Extends(Coming, Coming \o <<>>, NoMsg)
      BY <2>2, <3>1, <3>2, ExtendsBy DEF Tells
    <3> QED  BY <1>2, <3>1, <3>3
  <2>4. Turn(line, line', NoMsg)
    BY <1>2, <2>1, TurnNone
  <2>5. Listen \in FromProg /\ Listen.type = "LISTEN_REQ" /\ \A p : Listen \notin DataResps(p)
    BY DEF FromProg, Listen, NoMsg, DataResps
  <2>6. toBrick' = Append(toBrick, Listen)
    BY <1>2, <1>3, <2>1, <2>5
  <2>7. \A p \in Plcis : Number(toBrick', DataResps(p)) = Number(toBrick, DataResps(p))
    <3>1. ASSUME NEW p \in Plcis
          PROVE  Number(toBrick', DataResps(p)) = Number(toBrick, DataResps(p))
      <4>1. Number(Append(toBrick, Listen), DataResps(p))
               = Number(toBrick, DataResps(p)) + One(Listen \in DataResps(p))
        BY <2>1, <2>5, NumberAppend
      <4>2. One(Listen \in DataResps(p)) = 0 /\ Number(toBrick, DataResps(p)) \in Nat
        BY <2>1, <2>5, NumberType DEF One
      <4> QED  BY <2>6, <4>1, <4>2
    <3> QED  BY <3>1
  <2>8. Takes(toBrick, toBrick', 0, line, line')
    <3>1. /\ \A k \in DOMAIN toBrick' : k \in Nat /\ (toBrick'[k].type = "LISTEN_REQ"
                                           \/ (k + 0 \in DOMAIN toBrick /\ toBrick'[k] = toBrick[k + 0]))
          /\ \A k \in DOMAIN toBrick : k \in Nat /\ k - 0 \in DOMAIN toBrick' /\ toBrick'[k - 0] = toBrick[k]
      BY <2>1, <2>5, <2>6
    <3>2. \A p \in Plcis : /\ line[p].sent \in Nat /\ line[p].unacked \in Nat
                           /\ Number(toBrick, DataResps(p)) \in Nat
      BY <2>1, LineIn, NumberType
    <3>3. \A p \in Plcis : line'[p].sent - line'[p].unacked + Number(toBrick', DataResps(p))
                              <= line[p].sent - line[p].unacked + Number(toBrick, DataResps(p))
      BY <1>2, <2>7, <3>2
    <3>4. line' = line
      BY <1>2
    <3> QED  BY <3>1, <3>3, <3>4 DEF Takes
  <2>9. NoMsg \in Tellings \cup {NoMsg} /\ ~Live(NoMsg)
    BY NoneFromBrick
  <2> QED  BY <1>2, <1>3, <2>3, <2>4, <2>8, <2>9, TurnInv
<1>4. CASE conn # "up"
  BY <1>2, <1>4, SameInv
<1> QED  BY <1>3, <1>4

LEMMA AlarmFailsBase ==
    ASSUME Base, AlarmFails
    PROVE  /\ Base' /\ Coming' = Coming /\ pc \notin {"init", "killed"} /\ conn # "up" /\ conn' # "up"
           /\ pc' = "register"
           /\ UNCHANGED <<toBrick, line, calls, rung, reboots, files>>
<1>1. /\ pc \in {"poll", "event"} /\ pc' = "register" /\ back' = pc
      /\ cfd' = 0 /\ conn = "reset" /\ conn' = "dead"
      /\ UNCHANGED <<capi, pfd, calls, toBrick, toProg, brick, listening, line, rung, reboots, files>>
  BY DEF AlarmFails, far
<1>2. Typed'
  BY <1>1 DEF Base, Typed
<1>3. Control'
  BY <1>1 DEF Base, Control
<1>4. Coming' = Coming
  BY <1>1 DEF Coming
<1>5. Room(Coming', calls', rung')
  BY <1>1, <1>4 DEF Base
<1> QED  BY <1>1, <1>2, <1>3, <1>4, <1>5 DEF Base

LEMMA RegisterTypes ==
    ASSUME Base, Register, cfd = 0
    PROVE  /\ cfd' = 3 /\ conn' = "up" /\ toBrick' = <<Listen>> /\ toProg' = <<>>
           /\ toBrick' \in Seq(FromProg) /\ toProg' \in Seq(FromBrick) /\ listening' \in BOOLEAN
           /\ UNCHANGED <<capi, back, calls, brick, line, rung, reboots, files>>
<1>1. /\ cfd' = LowestFd(Open(calls, cfd))
      /\ conn' = "up" /\ toBrick' = <<Listen>> /\ toProg' = <<>>
      /\ UNCHANGED <<capi, back, calls, brick, line, rung, reboots, files>>
  BY DEF Register
<1>2. cfd' = 3
  <2>1. calls \in Seq(Records)
    BY DEF Base, Typed
  <2> QED  BY <1>1, <2>1, SocketOpens
<1>3. toBrick' \in Seq(FromProg) /\ toProg' \in Seq(FromBrick)
  BY <1>1 DEF FromProg
<1>4. listening' \in BOOLEAN
  BY Zenon DEF Register
<1> QED  BY <1>1, <1>2, <1>3, <1>4

LEMMA StartBase ==
    ASSUME Base, Start
    PROVE  Base' /\ Coming' = <<>> /\ calls' = <<>>
<1>1. pc = "init" /\ pc' = "poll" /\ Register /\ pfd' = cfd'
  BY DEF Start
<1>2. cfd = 0 /\ calls = <<>> /\ capi = NoMsg /\ toProg = <<>>
  BY <1>1 DEF Base, Control
<1>3. /\ cfd' = 3 /\ conn' = "up" /\ toBrick' = <<Listen>> /\ toProg' = <<>>
      /\ toBrick' \in Seq(FromProg) /\ toProg' \in Seq(FromBrick) /\ listening' \in BOOLEAN
      /\ UNCHANGED <<capi, back, calls, brick, line, rung, reboots, files>>
  BY <1>1, <1>2, RegisterTypes
<1>4. Typed'
  BY <1>1, <1>3 DEF Base, Typed
<1>5. Control'
  BY <1>1, <1>2, <1>3 DEF Base, Control
<1>6. Coming' = <<>> /\ Coming = <<>>
  BY <1>2, <1>3 DEF Coming, Stream
<1>7. Room(Coming', calls', rung')
  BY <1>3, <1>6 DEF Base
<1> QED  BY <1>2, <1>3, <1>4, <1>5, <1>6, <1>7 DEF Base

LEMMA StartInv ==
    ASSUME Settled, Start
    PROVE  Settled'
<1>1. Base /\ Base' /\ Coming' = <<>> /\ calls' = <<>>
  BY StartBase DEF Settled
<1>2. pc = "init" /\ pc' = "poll"
  BY DEF Start
<1>3. conn = "dead" /\ cfd = 0 /\ calls = <<>>
  BY <1>1, <1>2 DEF Base, Control
<1>4. /\ conn' = "up" /\ toBrick' = <<Listen>> /\ UNCHANGED <<calls, line, rung, reboots, files>>
  BY <1>3 DEF Start, Register
<1>5. rung \in Nat /\ calls \in Seq(Records)
  BY <1>1 DEF Base, Typed
<1>6. Whole(Coming, toBrick, FALSE, line, calls, rung, files)
  <2>1. (conn = "up") = FALSE
    BY <1>3
  <2> QED  BY <2>1 DEF Settled
<1>7. /\ Whole(<<>>, <<Listen>>, TRUE, line, calls, rung, files)
      /\ Filed(Coming, line, files, rung) => Filed(<<>>, line, files, rung)
      /\ Alive(<<Listen>>, line, <<>>)
  BY <1>5, <1>6, FreshWhole
<1>8. Whole(Coming', toBrick', conn' = "up", line', calls', rung', files')
  <2>1. (conn' = "up") = TRUE
    BY <1>4
  <2> QED  BY <1>1, <1>4, <1>7, <2>1
<1>9. ~FilesFail /\ pc' # "killed" => Filed(Coming', line', files', rung')
  BY <1>1, <1>2, <1>4, <1>7 DEF Settled
<1>10. Alive(toBrick', line', calls')
  BY <1>1, <1>4, <1>7
<1> QED  BY <1>1, <1>4, <1>8, <1>9, <1>10 DEF Settled

LEMMA AlarmRegistersBase ==
    ASSUME Base, AlarmRegisters
    PROVE  /\ Base' /\ (back = "poll" => Coming' = <<>>)
           /\ pc = "register" /\ pc' = back /\ conn = "dead"
           /\ conn' = "up" /\ toBrick' = <<Listen>> /\ UNCHANGED <<calls, line, rung, reboots, files>>
<1>1. pc = "register" /\ pc' = back /\ Register /\ pfd' = pfd
  BY DEF AlarmRegisters
<1>2. cfd = 0 /\ pfd # 0 /\ conn = "dead" /\ (back = "poll" <=> capi = NoMsg)
  BY <1>1 DEF Base, Control
<1>3. /\ cfd' = 3 /\ conn' = "up" /\ toBrick' = <<Listen>> /\ toProg' = <<>>
      /\ toBrick' \in Seq(FromProg) /\ toProg' \in Seq(FromBrick) /\ listening' \in BOOLEAN
      /\ UNCHANGED <<capi, back, calls, brick, line, rung, reboots, files>>
  BY <1>1, <1>2, RegisterTypes
<1>4. pc' \in {"poll", "event"}
  BY <1>1 DEF Base, Typed
<1>5. Typed'
  BY <1>1, <1>3, <1>4 DEF Base, Typed
<1>6. Control'
  <2>1. rung' <= MaxCalls
    BY <1>3 DEF Base, Control
  <2> QED  BY <1>1, <1>2, <1>3, <1>4, <2>1 DEF Control
<1>7. Coming' = Stream(capi, <<>>)
  BY <1>3 DEF Coming
<1>8. Room(Coming', calls', rung')
  <2>1. /\ <<>> \in Seq(FromBrick) /\ toProg \in Seq(FromBrick) /\ capi \in FromBrick \cup {NoMsg}
        /\ <<>> \o toProg = toProg
    BY DEF Base, Typed
  <2> DEFINE s == Stream(capi, <<>>)
  <2>2. s \in Seq(FromBrick) /\ \A t \in Seq(FromBrick) : Stream(capi, <<>> \o t) = s \o t
    BY <2>1, StreamFacts
  <2>3. Coming = s \o toProg
    BY <2>1, <2>2 DEF Coming
  <2> HIDE DEF s
  <2>4. Number(s \o toProg, Offers) = Number(s, Offers) + Number(toProg, Offers)
    BY <2>1, <2>2, NumberConcat
  <2>5. Number(s, Offers) \in Nat /\ Number(toProg, Offers) \in Nat
    BY <2>1, <2>2, NumberType
  <2>6. Len(calls) + Number(s \o toProg, Offers) <= rung /\ Len(calls) \in Nat /\ rung \in Nat
    BY <2>3 DEF Base, Room, Typed
  <2> DEFINE n == Number(s, Offers)
             n2 == Number(toProg, Offers)
             n3 == Number(s \o toProg, Offers)
             c == Len(calls)
  <2>7. n3 = n + n2 /\ n \in Nat /\ n2 \in Nat /\ c + n3 <= rung /\ c \in Nat /\ rung \in Nat
    BY <2>4, <2>5, <2>6
  <2> HIDE DEF n, n2, n3, c
  <2>8. c + n <= rung
    BY ONLY <2>7
  <2> QED  BY <1>3, <1>7, <2>8 DEF n, c, s, Room
<1>9. back = "poll" => Coming' = <<>>
  BY <1>2, <1>7 DEF Stream
<1> QED  BY <1>1, <1>2, <1>3, <1>5, <1>6, <1>8, <1>9 DEF Base

LEMMA AlarmRegistersInv ==
    ASSUME Settled, AlarmRegisters, back = "poll"
    PROVE  Settled'
<1>1. /\ Base /\ Base' /\ Coming' = <<>> /\ pc = "register" /\ pc' = "poll" /\ conn = "dead"
      /\ conn' = "up" /\ toBrick' = <<Listen>> /\ UNCHANGED <<calls, line, rung, reboots, files>>
  BY AlarmRegistersBase DEF Settled
<1>2. rung \in Nat /\ calls \in Seq(Records)
  BY <1>1 DEF Base, Typed
<1>3. Whole(Coming, toBrick, FALSE, line, calls, rung, files)
  <2>1. (conn = "up") = FALSE
    BY <1>1
  <2> QED  BY <2>1 DEF Settled
<1>4. /\ Whole(<<>>, <<Listen>>, TRUE, line, calls, rung, files)
      /\ Filed(Coming, line, files, rung) => Filed(<<>>, line, files, rung)
  BY <1>2, <1>3, FreshWhole
<1>5. Whole(Coming', toBrick', conn' = "up", line', calls', rung', files')
  <2>1. (conn' = "up") = TRUE
    BY <1>1
  <2> QED  BY <1>1, <1>4, <2>1
<1>6. ~FilesFail /\ pc' # "killed" => Filed(Coming', line', files', rung')
  BY <1>1, <1>4 DEF Settled
<1>7. reboots' # 0
  BY <1>1 DEF Settled
<1> QED  BY <1>1, <1>5, <1>6, <1>7 DEF Settled

--------------------------------------------------------------------------------
(* The other steps *)

\* Steps that leave the calls, the lines and what is under way alone.
Rests == /\ Coming' = Coming /\ UNCHANGED <<toBrick, line, calls, rung, reboots, files>>
         /\ conn' = "up" <=> conn = "up"
         /\ pc # "init" \/ pc' = "init"
         /\ pc # "killed" \/ pc' = "killed"

LEMMA GetRests ==
    ASSUME Base, Get
    PROVE  Base' /\ Rests
<1>1. /\ pc = "poll" /\ pc' = "event" /\ toProg # <<>>
      /\ capi' = Head(toProg) /\ toProg' = Tail(toProg)
      /\ UNCHANGED <<back, cfd, pfd, calls, conn, toBrick, brick, listening, line, rung, reboots, files>>
  BY DEF Get, prog, far
<1>2. capi = NoMsg /\ toProg \in Seq(FromBrick)
  BY <1>1 DEF Base, Control, Typed
<1>3. capi' \in FromBrick /\ toProg' \in Seq(FromBrick) /\ capi' # NoMsg
  BY <1>1, <1>2, NoneFromBrick
<1>4. Typed'
  BY <1>1, <1>3 DEF Base, Typed
<1>5. Control'
  BY <1>1, <1>3 DEF Base, Control
<1>6. Coming' = Coming
  <2>1. Stream(Head(toProg), Tail(toProg)) = toProg /\ Stream(NoMsg, toProg) = toProg
    <3>1. NoMsg \in FromBrick \cup {NoMsg}
      OBVIOUS
    <3> QED  BY <1>1, <1>2, <3>1, StreamFacts
  <2> QED  BY <1>1, <1>2, <2>1 DEF Coming
<1>7. Room(Coming', calls', rung')
  BY <1>1, <1>6 DEF Base
<1> QED  BY <1>1, <1>4, <1>5, <1>6, <1>7 DEF Base, Rests

LEMMA GetFailsRests ==
    ASSUME Base, GetFails
    PROVE  Base' /\ Rests
<1>1. /\ pc = "poll" /\ conn \in {"reset", "dead"} /\ conn' = "dead"
      /\ UNCHANGED <<pc, capi, back, cfd, pfd, calls, toBrick, toProg, brick, listening, line, rung,
                     reboots, files>>
  BY DEF GetFails, prog, far
<1>2. Typed'
  BY <1>1 DEF Base, Typed
<1>3. Control'
  BY <1>1 DEF Base, Control
<1>4. Coming' = Coming
  BY <1>1 DEF Coming
<1>5. Room(Coming', calls', rung')
  BY <1>1, <1>4 DEF Base
<1> QED  BY <1>1, <1>2, <1>3, <1>4, <1>5 DEF Base, Rests

LEMMA BrickUpRests ==
    ASSUME Base, BrickUp
    PROVE  Base' /\ Rests
<1>1. /\ brick' = "up"
      /\ UNCHANGED <<pc, capi, back, cfd, pfd, calls, conn, toBrick, toProg, listening, line, rung,
                     reboots, files>>
  BY DEF BrickUp, prog, net
<1>2. Typed'
  BY <1>1 DEF Base, Typed
<1>3. Control'
  BY <1>1 DEF Base, Control
<1>4. Coming' = Coming
  BY <1>1 DEF Coming
<1>5. Room(Coming', calls', rung')
  BY <1>1, <1>4 DEF Base
<1> QED  BY <1>1, <1>2, <1>3, <1>4, <1>5 DEF Base, Rests

LEMMA ResetRests ==
    ASSUME Base, Reset
    PROVE  Base' /\ Rests
<1>1. /\ conn = "rst" /\ conn' = "reset"
      /\ UNCHANGED <<pc, capi, back, cfd, pfd, calls, toBrick, toProg, brick, listening, line, rung,
                     reboots, files>>
  BY DEF Reset, prog, far
<1>2. Typed'
  BY <1>1 DEF Base, Typed
<1>3. Control'
  BY <1>1 DEF Base, Control
<1>4. Coming' = Coming
  BY <1>1 DEF Coming
<1>5. Room(Coming', calls', rung')
  BY <1>1, <1>4 DEF Base
<1> QED  BY <1>1, <1>2, <1>3, <1>4, <1>5 DEF Base, Rests

LEMMA StutterRests ==
    ASSUME Base, UNCHANGED vars
    PROVE  Base' /\ Rests
<1>1. UNCHANGED <<pc, capi, back, cfd, pfd, calls, conn, toBrick, toProg, brick, listening, line, rung,
                  reboots, files>>
  BY DEF vars, prog, net, far
<1>2. Typed'
  BY <1>1 DEF Base, Typed
<1>3. Control'
  BY <1>1 DEF Base, Control
<1>4. Coming' = Coming
  BY <1>1 DEF Coming
<1>5. Room(Coming', calls', rung')
  BY <1>1, <1>4 DEF Base
<1> QED  BY <1>1, <1>2, <1>3, <1>4, <1>5 DEF Base, Rests

LEMMA RestsInv ==
    ASSUME Settled, Base', Rests
    PROVE  Settled'
BY SameInv DEF Rests

LEMMA AlarmFailsInv ==
    ASSUME Settled, AlarmFails
    PROVE  Settled'
<1>1. Base
  BY DEF Settled
<1>2. Base' /\ Rests
  BY <1>1, AlarmFailsBase DEF Rests
<1> QED  BY <1>2, RestsInv

--------------------------------------------------------------------------------
(* Theorems *)

LEMMA InitBase ==
    ASSUME Init
    PROVE  Base /\ Coming = <<>> /\ calls = <<>>
<1>1. /\ pc = "init" /\ back = "poll" /\ cfd = 0 /\ pfd = 0 /\ capi = NoMsg /\ calls = <<>>
      /\ conn = "dead" /\ toBrick = <<>> /\ toProg = <<>> /\ brick = "up"
      /\ line = [p \in Plcis |-> Idle] /\ rung = 0 /\ reboots = 0
      /\ files = [i \in CallIds |-> <<>>]
  BY DEF Init
<1>2. listening \in BOOLEAN
  BY Zenon DEF Init
<1>3. Typed
  <2>1. line \in [Plcis -> Lines] /\ files \in [CallIds -> Seq(Blocks)]
    BY <1>1 DEF Lines
  <2>2. rung \in 0 .. MaxCalls /\ reboots \in 0 .. MaxReboots
    BY <1>1, Bounds
  <2> QED  BY <1>1, <1>2, <2>1, <2>2 DEF Typed
<1>4. Control
  BY <1>1, Bounds DEF Control
<1>5. Coming = <<>>
  BY <1>1 DEF Coming, Stream
<1>6. Room(Coming, calls, rung)
  <2>1. Number(<<>>, Offers) = 0
    BY NumberOne
  <2> QED  BY <1>1, <1>5, <2>1 DEF Room
<1> QED  BY <1>1, <1>3, <1>4, <1>5, <1>6 DEF Base

LEMMA InitInv ==
    ASSUME Init
    PROVE  Settled
<1>1. Base /\ Coming = <<>> /\ calls = <<>>
  BY InitBase
<1>2. /\ pc = "init" /\ toBrick = <<>> /\ conn = "dead"
      /\ line = [p \in Plcis |-> Idle] /\ rung = 0 /\ files = [i \in CallIds |-> <<>>]
  BY DEF Init
<1>3. /\ \A p \in Plcis : line[p].id = 0 /\ line[p].st = "free"
      /\ \A i \in CallIds : files[i] = <<>>
  BY <1>2 DEF Idle
<1>4. Whole(<<>>, <<>>, FALSE, line, <<>>, 0, files)
  <2>1. Alone(FALSE, <<>>, line) /\ Told(<<>>, FALSE, line, 0) /\ Ordered(<<>>)
    BY <1>2 DEF Alone, Told, Ordered
  <2>2. Numbered(<<>>, line, <<>>, 0)
    BY <1>3 DEF Numbered
  <2>3. Known(<<>>, <<>>, line, <<>>)
    BY <1>3 DEF Known, OnLine, OnB3
  <2>4. Replied(<<>>, <<>>, line) /\ Stored(<<>>, line, files)
    BY <1>3 DEF Replied, Stored
  <2>5. Right(<<>>, <<>>, FALSE, line, <<>>)
    BY <1>3 DEF Right, OnLine
  <2> QED  BY <2>1, <2>2, <2>3, <2>4, <2>5 DEF Whole
<1>5. Whole(Coming, toBrick, conn = "up", line, calls, rung, files)
  <2>1. (conn = "up") = FALSE
    BY <1>2
  <2> QED  BY <1>1, <1>2, <1>4, <2>1
<1>6. Filed(Coming, line, files, rung)
  BY <1>1, <1>3 DEF Filed
<1>7. Alive(toBrick, line, calls)
  BY <1>1, <1>2 DEF Alive
<1> QED  BY <1>1, <1>2, <1>5, <1>6, <1>7 DEF Settled

LEMMA NextBase ==
    ASSUME Base, [Next]_vars
    PROVE  Base'
<1>1. CASE Main
  BY <1>1, StartBase, GetRests, GetFailsRests, EventBase DEF Main
<1>2. CASE Handler
  BY <1>2, AlarmBase, AlarmFailsBase, AlarmRegistersBase DEF Handler
<1>3. CASE BrickTakes \/ Reboot \/ BrickUp \/ Reset
  BY <1>3, BrickTakesBase, RebootBase, BrickUpRests, ResetRests
<1>4. ASSUME NEW p \in Plcis, Ring(p) \/ Digit(p) \/ OfferB3(p) \/ Block(p) \/ HangUp(p)
      PROVE  Base'
  BY <1>4, RingBase, CallersBase
<1>5. CASE UNCHANGED vars
  BY <1>5, StutterRests
<1> QED  BY <1>1, <1>2, <1>3, <1>4, <1>5 DEF Next

LEMMA NextSettled ==
    ASSUME Settled, [Next]_vars, AlarmRegisters => back = "poll"
    PROVE  Settled'
<1>1. Base
  BY DEF Settled
<1>2. CASE Main
  <2>1. CASE Start
    BY <2>1, StartInv
  <2>2. CASE Get \/ GetFails
    BY <1>1, <2>2, GetRests, GetFailsRests, RestsInv
  <2>3. CASE CapiEvent
    BY <2>3, EventInv
  <2> QED  BY <1>2, <2>1, <2>2, <2>3 DEF Main
<1>3. CASE Handler
  BY <1>3, AlarmInv, AlarmFailsInv, AlarmRegistersInv DEF Handler
<1>4. CASE BrickTakes \/ Reboot
  BY <1>4, BrickTakesInv, RebootInv
<1>5. CASE BrickUp \/ Reset \/ UNCHANGED vars
  BY <1>1, <1>5, BrickUpRests, ResetRests, StutterRests, RestsInv
<1>6. ASSUME NEW p \in Plcis, Ring(p) \/ Digit(p) \/ OfferB3(p) \/ Block(p) \/ HangUp(p)
      PROVE  Settled'
  BY <1>6, RingInv, CallersInv
<1> QED  BY <1>2, <1>3, <1>4, <1>5, <1>6 DEF Next

\* What the steps make of the history, and that the brick's reboots are not forgotten.
LEMMA ReplacedStep ==
    ASSUME Next
    PROVE  \/ replaced' = replaced
           \/ AlarmRegisters /\ back = "event" /\ replaced' = TRUE
<1>1. CASE Start \/ Get \/ GetFails
  BY <1>1 DEF Start, Get, GetFails, prog
<1>2. CASE CapiEvent
  <2>1. \E type : Event(type)
    BY <1>2 DEF CapiEvent, ConnectInd, InfoInd, ConnectActiveInd, ConnectB3Ind, ConnectB3ActiveInd,
                DataB3Ind, DisconnectB3Ind, DisconnectInd, Conf
  <2> QED  BY <2>1 DEF Event
<1>3. CASE Alarm \/ AlarmFails
  BY <1>3 DEF Alarm, AlarmFails, prog
<1>4. CASE AlarmRegisters
  BY <1>4 DEF AlarmRegisters
<1>5. CASE BrickTakes \/ Reboot \/ BrickUp \/ Reset
  BY <1>5 DEF BrickTakes, Moves, Reboot, BrickUp, Reset, prog
<1>6. ASSUME NEW p \in Plcis, Ring(p) \/ Digit(p) \/ OfferB3(p) \/ Block(p) \/ HangUp(p)
      PROVE  replaced' = replaced
  BY <1>6 DEF Ring, Digit, OfferB3, Block, HangUp, Moves, prog
<1> QED  BY <1>1, <1>2, <1>3, <1>4, <1>5, <1>6 DEF Next, Main, Handler

LEMMA RebootsStep ==
    ASSUME Next
    PROVE  reboots' = reboots \/ reboots' = reboots + 1
<1>1. CASE Start \/ Get \/ GetFails
  BY <1>1 DEF Start, Register, Get, GetFails, far
<1>2. CASE CapiEvent
  <2>1. \E type : Event(type)
    BY <1>2 DEF CapiEvent, ConnectInd, InfoInd, ConnectActiveInd, ConnectB3Ind, ConnectB3ActiveInd,
                DataB3Ind, DisconnectB3Ind, DisconnectInd, Conf
  <2> QED  BY <2>1 DEF Event, far
<1>3. CASE Handler
  BY <1>3 DEF Handler, Alarm, AlarmFails, AlarmRegisters, Register, far
<1>4. CASE BrickTakes \/ Reboot \/ BrickUp \/ Reset
  BY <1>4 DEF BrickTakes, Moves, Reboot, BrickUp, Reset, far
<1>5. ASSUME NEW p \in Plcis, Ring(p) \/ Digit(p) \/ OfferB3(p) \/ Block(p) \/ HangUp(p)
      PROVE  reboots' = reboots
  BY <1>5 DEF Ring, Digit, OfferB3, Block, HangUp, Moves
<1> QED  BY <1>1, <1>2, <1>3, <1>4, <1>5 DEF Next, Main

LEMMA NextInv ==
    ASSUME IInv, [Next]_vars
    PROVE  IInv'
<1>1. Base /\ Base' /\ replaced \in BOOLEAN
  BY NextBase DEF IInv
<1>2. reboots \in Nat /\ back \in {"poll", "event"}
  BY <1>1 DEF Base, Typed
<1>3. \/ replaced' = replaced
      \/ AlarmRegisters /\ back = "event" /\ replaced' = TRUE
  BY ReplacedStep DEF vars, prog
<1>4. reboots # 0 => reboots' # 0
  <2>1. reboots' = reboots \/ reboots' = reboots + 1
    BY RebootsStep DEF vars, far
  <2> QED  BY <1>2, <2>1
<1>5. ASSUME AlarmRegisters, ~replaced  PROVE reboots # 0
  <2>1. conn = "dead" /\ pc = "register"
    BY <1>1, <1>5, AlarmRegistersBase
  <2> QED  BY <1>5, <2>1 DEF IInv, Settled
<1>6. replaced' \in BOOLEAN
  BY <1>1, <1>3
<1>7. replaced' => reboots' # 0
  <2>1. CASE replaced
    BY <1>4, <2>1 DEF IInv
  <2>2. CASE ~replaced /\ replaced'
    <3>1. AlarmRegisters
      BY <1>3, <2>2
    <3> QED  BY <1>4, <1>5, <2>2, <3>1
  <2> QED  BY <2>1, <2>2
<1>8. ASSUME ~replaced'  PROVE Settled'
  <2>1. ~replaced
    BY <1>3, <1>8
  <2>2. AlarmRegisters => back = "poll"
    <3>1. AlarmRegisters => replaced' = IF back = "event" THEN TRUE ELSE replaced
      BY DEF AlarmRegisters
    <3> QED  BY <1>2, <1>8, <3>1
  <2> QED  BY <2>1, <2>2, NextSettled DEF IInv
<1> QED  BY <1>1, <1>6, <1>7, <1>8 DEF IInv

\* With the handler at any point, also within capi_event, the types, the place of the
\* program and the bound on the calls are kept.
THEOREM BaseInvariance == Spec => []Base
<1>1. Init => Base
  BY InitBase
<1>2. Base /\ [Next]_vars => Base'
  BY NextBase
<1> QED  BY <1>1, <1>2, PTL DEF Spec

\* And so is all the rest, until the handler has replaced the connection at a message.
THEOREM Invariance == Spec => []IInv
<1>1. Init => IInv
  <2>1. ASSUME Init  PROVE Settled /\ replaced = FALSE
    BY <2>1, InitInv DEF Init
  <2>2. Init => replaced \in BOOLEAN /\ ~replaced /\ Settled
    BY <2>1
  <2>3. Settled => Base
    BY DEF Settled
  <2> QED  BY <2>2, <2>3 DEF IInv
<1>2. IInv /\ [Next]_vars => IInv'
  BY NextInv
<1> QED  BY <1>1, <1>2, PTL DEF Spec

LEMMA BaseTypes ==
    ASSUME Base, replaced \in BOOLEAN
    PROVE  TypeOK
<1>1. \A k \in DOMAIN calls : calls[k] \in Records
  BY DEF Base, Typed
<1>2. ASSUME NEW k \in DOMAIN calls
      PROVE  /\ calls[k].id \in CallIds /\ calls[k].plci \in Plcis
             /\ calls[k].state \in States
             /\ calls[k].ncnt \in 0 .. Ncnt
             /\ calls[k].fp = 0 \/ calls[k].fp >= 3
  BY <1>1 DEF Records
<1>3. ASSUME NEW p \in Plcis
      PROVE  line[p].unacked \in 0 .. Window /\ line[p].sent \in 0 .. MaxBlocks
  <2>1. line[p] \in Lines
    BY DEF Base, Typed
  <2> QED  BY <2>1, Bounds DEF Lines, Busy, Idle
<1>4. /\ pc \in {"init", "poll", "event", "register", "exit", "killed"}
      /\ back \in {"poll", "event"}
      /\ cfd \in Nat /\ (cfd = 0 => pc \in {"init", "register"})
      /\ pc = "event" => capi # NoMsg
      /\ conn \in {"up", "gone", "rst", "reset", "dead"}
      /\ rung \in 0 .. MaxCalls /\ reboots \in 0 .. MaxReboots
  BY DEF Base, Typed, Control
<1> QED  BY <1>2, <1>3, <1>4 DEF TypeOK

\* The variables have their types: each call that capi_event keeps has a state, no more
\* digits than are waited for, and no file or one that is not a standard stream.
THEOREM TypeCorrect == Spec => []TypeOK
<1>1. IInv => TypeOK
  BY BaseTypes DEF IInv
<1> QED  BY <1>1, Invariance, PTL

\* The main loop polls the socket of the connection there is, though it has copied
\* cfg.fd once and the handler replaces it: the lowest free descriptor is its own.
THEOREM SocketPolled == Spec => []PollsOwnSocket
<1>1. Base => PollsOwnSocket
  BY DEF Base, Typed, Control, PollsOwnSocket
<1> QED  BY <1>1, BaseInvariance, PTL

\* getCallbyIdent finds the call that the message of an accepted call is about,
\* whatever calls of earlier registrations are in the list, until the handler has
\* replaced the connection in the middle of capi_event (so in the next four).
THEOREM CallsFound == Spec => []FindsCall
<1>1. ASSUME Settled, pc = "event"  PROVE FindsCall
  <2>1. /\ Typed /\ Control /\ Ordered(Coming) /\ Numbered(Coming, line, calls, rung)
        /\ Known(Coming, toBrick, line, calls) /\ capi \in FromBrick
    <3>1. Typed /\ Control
      BY <1>1 DEF Settled, Base
    <3>2. capi \in FromBrick
      BY <1>1, <3>1, AtEvent
    <3> QED  BY <1>1, <3>1, <3>2 DEF Settled, Whole
  <2>2. ASSUME capi.type \in NcciTypes \cup {"CONNECTACTIVE_IND"}
        PROVE  LET k == IF capi.type = "CONNECTB3_IND" THEN ByPlci ELSE ByIdent
               IN  k # 0 /\ calls[k].id = capi.id
    <3>1. /\ ByPlci \in DOMAIN calls /\ calls[ByPlci].id = capi.id
          /\ capi.type # "CONNECTB3_IND" => ByIdent = ByPlci
      BY <1>1, <2>1, <2>2, AcceptedFound
    <3>2. 0 \notin DOMAIN calls
      BY <2>1 DEF Typed
    <3> QED  BY <3>1, <3>2
  <2>3. ASSUME capi.type \in {"DISCONNECT_IND", "INFO_IND"}, NEW j \in DOMAIN calls, calls[j].id = capi.id
        PROVE  ByIdent # 0 /\ calls[ByIdent].id = capi.id
    <3>1. Live(capi) /\ capi.type \notin NcciTypes
      BY <2>3 DEF Live, LiveTypes, NcciTypes
    <3>2. ~capi.b3
      BY <2>1, <3>1, AtEvent DEF FromBrick, Tellings, Confirmations, ConfTypes, LiveTypes, Live
    <3>3. ByIdent = j
      BY <1>1, <2>1, <2>3, <3>1, <3>2, FindsIt
    <3>4. 0 \notin DOMAIN calls
      BY <2>1 DEF Typed
    <3> QED  BY <2>3, <3>3, <3>4
  <2> QED  BY <2>2, <2>3 DEF FindsCall, NcciTypes
<1>2. IInv => FindsCall
  BY <1>1 DEF IInv, FindsCall
<1> QED  BY <1>2, Invariance, PTL

\* No message of the program about a call is under way when its line is another call's.
THEOREM NoneStray == Spec => []NothingStray
<1>1. IInv => NothingStray
  BY DEF IInv, Settled, Whole, Replied, NothingStray
<1> QED  BY <1>1, Invariance, PTL

\* Of the blocks that the brick counts as received none is left out of the file: fwrite()
\* has taken each as a whole or in part.
THEOREM AcksStored == Spec => []AckedStored
<1>1. ASSUME Settled, NEW p \in Plcis, line[p].id # 0
      PROVE  line[p].sent - line[p].unacked <= Len(files[line[p].id])
  <2>1. line[p] \in Lines /\ toBrick \in Seq(FromProg) /\ files \in [CallIds -> Seq(Blocks)]
    BY <1>1 DEF Settled, Base, Typed
  <2>2. line[p].sent \in Nat /\ line[p].unacked \in Nat /\ line[p].id \in CallIds
    BY <1>1, <2>1, LineIn
  <2>3. Number(toBrick, DataResps(p)) \in Nat
    BY <2>1, NumberType
  <2>4. line[p].sent - line[p].unacked + Number(toBrick, DataResps(p)) <= Len(files[line[p].id])
    BY <1>1 DEF Settled, Whole, Stored
  <2>5. Len(files[line[p].id]) \in Nat
    BY <2>1, <2>2
  <2> DEFINE a == line[p].sent
             b == line[p].unacked
             n == Number(toBrick, DataResps(p))
             f == Len(files[line[p].id])
  <2>6. a \in Nat /\ b \in Nat /\ n \in Nat /\ f \in Nat /\ a - b + n <= f
    BY <2>2, <2>3, <2>4, <2>5
  <2> HIDE DEF a, b, n, f
  <2>7. a - b <= f
    BY ONLY <2>6
  <2> QED  BY <2>7 DEF a, b, f
<1>2. IInv => AckedStored
  BY <1>1 DEF IInv, AckedStored
<1> QED  BY <1>2, Invariance, PTL

\* Only calls for the right number, with all digits, go on.
THEOREM RightAccepted == Spec => []AcceptsRight
<1>1. IInv => AcceptsRight
  BY DEF IInv, Settled, Whole, Right, Wanted, OnLine, AcceptsRight
<1> QED  BY <1>1, Invariance, PTL

\* A step either writes the block of capi to its file or leaves the files alone.
LEMMA FilesChange ==
    ASSUME Settled, [Next]_vars
    PROVE  \/ files' = files
           \/ /\ pc = "event" /\ capi.type = "DATAB3_IND" /\ Adds(capi, files, files')
<1>1. CASE CapiEvent
  <2>1. pc = "event"
    BY <1>1, EventOutcome DEF Settled
  <2>2. PICK ms, next : Outcome(ms, next)
    BY <1>1, EventOutcome DEF Settled
  <2>3. Writes(capi, ms, files, files')
    BY <2>2 DEF Outcome, Proper, Settled
  <2> QED  BY <2>1, <2>3 DEF Writes
<1>2. CASE Start \/ Get \/ GetFails \/ Handler \/ BrickTakes \/ Reboot \/ BrickUp \/ Reset \/ UNCHANGED vars
  <2>1. files' = files
    <3>1. CASE Start \/ Get \/ GetFails \/ Handler
      BY <3>1 DEF Start, Register, Get, GetFails, Handler, Alarm, AlarmFails, AlarmRegisters
    <3>2. CASE BrickTakes \/ Reboot \/ BrickUp \/ Reset
      BY <3>2 DEF BrickTakes, Moves, Reboot, BrickUp, Reset
    <3>3. CASE UNCHANGED vars
      BY <3>3 DEF vars
    <3> QED  BY <1>2, <3>1, <3>2, <3>3
  <2> QED  BY <2>1
<1>3. ASSUME NEW p \in Plcis, Ring(p) \/ Digit(p) \/ OfferB3(p) \/ Block(p) \/ HangUp(p)
      PROVE  files' = files
  BY <1>3 DEF Ring, Digit, OfferB3, Block, HangUp, Moves
<1> QED  BY <1>1, <1>2, <1>3 DEF Next, Main

\* The file of a fax has its blocks in order, each as a whole, none missing, if files do
\* not fail.
THEOREM FilesOrdered ==
    ASSUME ~FilesFail
    PROVE  Spec => []FilesInOrder
<1>1. Init => FilesInOrder
  BY DEF Init, FilesInOrder
<1>2. ASSUME IInv, FilesInOrder, [Next]_vars, ~replaced'  PROVE FilesInOrder'
  <2>0. ~replaced /\ Settled
    <3>1. replaced' = replaced \/ replaced' = TRUE
      BY <1>2, ReplacedStep DEF vars, prog
    <3> QED  BY <1>2, <3>1 DEF IInv
  <2>1. CASE files' = files
    BY <1>2, <2>0, <2>1 DEF FilesInOrder
  <2>2. CASE pc = "event" /\ capi.type = "DATAB3_IND" /\ Adds(capi, files, files')
    <3>1. /\ line \in [Plcis -> Lines] /\ rung \in Nat /\ files \in [CallIds -> Seq(Blocks)]
          /\ Typed /\ Control
      BY <2>0 DEF Settled, Base, Typed
    <3>2. /\ capi \in FromBrick /\ Coming \in Seq(FromBrick) /\ Coming # <<>> /\ Head(Coming) = capi
      BY <2>2, <3>1, AtEvent
    <3>3. /\ Alone(conn = "up", toBrick, line) /\ Told(Coming, conn = "up", line, rung)
          /\ Ordered(Coming) /\ Numbered(Coming, line, calls, rung)
          /\ Filed(Coming, line, files, rung)
      BY <2>0, <2>2 DEF Settled, Whole
    <3>4. Filed(Tail(Coming), line, files', rung)
      BY <2>2, <3>1, <3>2, <3>3, EventFiled
    <3> QED  BY <3>4 DEF Filed, FilesInOrder
  <2> QED  BY <1>2, <2>0, <2>1, <2>2, FilesChange
<1>3. IInv /\ FilesInOrder /\ [Next]_vars => FilesInOrder'
  <2>1. replaced' => FilesInOrder'
    BY DEF FilesInOrder
  <2> QED  BY <1>2, <2>1
<1> QED  BY <1>1, <1>3, Invariance, PTL DEF Spec

\* As long as the brick is not rebooted, the calls the program keeps are those the brick
\* has: none is left over.
THEOREM AllAlive ==
    ASSUME MaxReboots = 0
    PROVE  Spec => []CallsAlive
<1>1. IInv => CallsAlive
  <2>1. ASSUME IInv  PROVE CallsAlive
    <3>1. Base /\ TypeOK
      BY <2>1, BaseTypes DEF IInv
    <3>2. reboots = 0
      BY <3>1 DEF Base, Typed
    <3>3. Settled
      BY <2>1, <3>2 DEF IInv
    <3> QED  BY <3>1, <3>2, <3>3 DEF Settled, Alive, CallsAlive
  <2> QED  BY <2>1
<1> QED  BY <1>1, Invariance, PTL
================================================================================
