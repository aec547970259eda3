----------------------------- MODULE CapiTestFacts -----------------------------
(****************************************************************************)
(* The inductive invariant IInv of CapiTest, and what the functions of the  *)
(* program make of it: SendData, doDisconnect, free_appl, set_listen,       *)
(* alloc_appl, check_appl, alloc_call_struct, gen_call, gen_next_call, and  *)
(* what capi_event does with each message.                                  *)
(****************************************************************************)
EXTENDS CapiTest, FiniteSetTheorems, WellFoundedInduction, SequenceTheorems, TLAPS

--------------------------------------------------------------------------------
(* How many messages of a kind are under way, and parts of sequences *)

\* The places in q of the elements of T, and how many they are.
PlacesOf(q, T) == {k \in DOMAIN q : q[k] \in T}
Number(q, T) == Cardinality(PlacesOf(q, T))

One(b) == IF b THEN 1 ELSE 0

\* Places are counted wherever they are.
LEMMA Shifted ==
    ASSUME NEW a \in Nat, NEW P \in SUBSET Nat, IsFiniteSet(P)
    PROVE  /\ IsFiniteSet({a + i : i \in P})
           /\ Cardinality({a + i : i \in P}) = Cardinality(P)
<1> DEFINE T == {a + i : i \in P}
           f == [i \in P |-> a + i]
<1>1. f \in Injection(P, T)
  <2>1. f \in [P -> T]
    OBVIOUS
  <2>2. \A i, j \in P : f[i] = f[j] => i = j
    OBVIOUS
  <2> QED  BY <2>1, <2>2 DEF Injection, IsInjective
<1>2. f \in Surjection(P, T)
  <2>1. f \in [P -> T]
    OBVIOUS
  <2>2. \A t \in T : \E i \in P : f[i] = t
    OBVIOUS
  <2> QED  BY <2>1, <2>2 DEF Surjection
<1>3. ExistsBijection(P, T)
  BY <1>1, <1>2 DEF ExistsBijection, Bijection
<1> HIDE DEF T
<1>4. IsFiniteSet(T) /\ Cardinality(T) = Cardinality(P)
  BY <1>3, FS_Bijection
<1> QED  BY <1>4 DEF T

\* The places of a sequence are finitely many, none if no element is in T.
LEMMA NumberType ==
    ASSUME NEW S, NEW q \in Seq(S), NEW T
    PROVE  /\ PlacesOf(q, T) \in SUBSET (1 .. Len(q)) /\ IsFiniteSet(PlacesOf(q, T))
           /\ Number(q, T) \in Nat
           /\ Number(q, T) = 0 <=> \A k \in DOMAIN q : q[k] \notin T
<1>1. PlacesOf(q, T) \in SUBSET (1 .. Len(q)) /\ Len(q) \in Nat
  BY DEF PlacesOf
<1>2. IsFiniteSet(1 .. Len(q))
  BY <1>1, FS_Interval
<1>3. IsFiniteSet(PlacesOf(q, T))
  BY <1>1, <1>2, FS_Subset
<1>4. Number(q, T) \in Nat /\ (Number(q, T) = 0 <=> PlacesOf(q, T) = {})
  BY <1>3, FS_CardinalityType, FS_EmptySet DEF Number
<1>5. PlacesOf(q, T) = {} <=> \A k \in DOMAIN q : q[k] \notin T
  BY DEF PlacesOf
<1> QED  BY <1>1, <1>3, <1>4, <1>5

\* A part of T has no more.
LEMMA NumberSubset ==
    ASSUME NEW S, NEW q \in Seq(S), NEW T, NEW U, U \subseteq T
    PROVE  Number(q, U) <= Number(q, T)
<1>1. PlacesOf(q, U) \in SUBSET PlacesOf(q, T)
  BY DEF PlacesOf
<1>2. IsFiniteSet(PlacesOf(q, T))
  BY NumberType
<1> QED  BY <1>1, <1>2, FS_Subset DEF Number

\* An empty sequence, and one of a single element.
LEMMA NumberOne ==
    ASSUME NEW m, NEW T
    PROVE  /\ Number(<<>>, T) = 0
           /\ Number(<<m>>, T) = One(m \in T)
<1>1. PlacesOf(<<>>, T) = {}
  BY DEF PlacesOf
<1>2. CASE m \in T
  <2>1. PlacesOf(<<m>>, T) = {1}
    BY <1>2 DEF PlacesOf
  <2> QED  BY <1>1, <1>2, <2>1, FS_EmptySet, FS_Singleton DEF Number, One
<1>3. CASE m \notin T
  <2>1. PlacesOf(<<m>>, T) = {}
    BY <1>3 DEF PlacesOf
  <2> QED  BY <1>1, <1>3, <2>1, FS_EmptySet DEF Number, One
<1> QED  BY <1>2, <1>3

\* Behind one another two sequences have the elements of both.
LEMMA NumberConcat ==
    ASSUME NEW S, NEW q \in Seq(S), NEW r \in Seq(S), NEW T
    PROVE  Number(q \o r, T) = Number(q, T) + Number(r, T)
<1> DEFINE A == PlacesOf(q, T)
           P == PlacesOf(r, T)
           C == {Len(q) + i : i \in P}
<1>1. /\ A \in SUBSET (1 .. Len(q)) /\ IsFiniteSet(A)
      /\ P \in SUBSET (1 .. Len(r)) /\ IsFiniteSet(P)
      /\ Cardinality(A) \in Nat /\ Cardinality(P) \in Nat
  BY NumberType DEF Number
<1>2. Len(q) \in Nat /\ Len(r) \in Nat
  OBVIOUS
<1>3. IsFiniteSet(C) /\ Cardinality(C) = Cardinality(P)
  <2>1. P \in SUBSET Nat
    BY <1>1
  <2> HIDE DEF P
  <2> QED  BY <1>1, <1>2, <2>1, Shifted
<1>4. PlacesOf(q \o r, T) = A \cup C
  <2>1. /\ DOMAIN (q \o r) = 1 .. Len(q) + Len(r)
        /\ \A k \in 1 .. Len(q) : (q \o r)[k] = q[k]
        /\ \A k \in 1 .. Len(r) : (q \o r)[Len(q) + k] = r[k]
    OBVIOUS
  <2>2. ASSUME NEW k \in 1 .. Len(q)  PROVE k \in PlacesOf(q \o r, T) <=> k \in A \cup C
    <3>1. k \notin C
      BY <1>1, <1>2
    <3>2. k \in DOMAIN (q \o r) /\ k \in DOMAIN q /\ (q \o r)[k] = q[k]
      BY <1>2, <2>1
    <3> QED  BY <3>1, <3>2 DEF PlacesOf
  <2>3. ASSUME NEW k \in 1 .. Len(r)
        PROVE  Len(q) + k \in PlacesOf(q \o r, T) <=> Len(q) + k \in A \cup C
    <3>1. Len(q) + k \notin A
      BY <1>1, <1>2
    <3>2. Len(q) + k \in C <=> k \in P
      BY <1>1, <1>2
    <3>3. Len(q) + k \in DOMAIN (q \o r) /\ k \in DOMAIN r /\ (q \o r)[Len(q) + k] = r[k]
      BY <1>2, <2>1
    <3> QED  BY <3>1, <3>2, <3>3 DEF PlacesOf
  <2>4. \A k \in 1 .. Len(q) + Len(r) :
           k \in 1 .. Len(q) \/ \E i \in 1 .. Len(r) : k = Len(q) + i
    <3>1. ASSUME NEW k \in 1 .. Len(q) + Len(r), k \notin 1 .. Len(q)
          PROVE  k - Len(q) \in 1 .. Len(r) /\ k = Len(q) + (k - Len(q))
      BY <1>2, <3>1
    <3> QED  BY <3>1
  <2>5. PlacesOf(q \o r, T) \subseteq 1 .. Len(q) + Len(r) /\ A \cup C \subseteq 1 .. Len(q) + Len(r)
    <3>1. PlacesOf(q \o r, T) \subseteq 1 .. Len(q) + Len(r)
      BY <2>1 DEF PlacesOf
    <3>2. A \subseteq 1 .. Len(q) + Len(r)
      BY <1>1, <1>2
    <3>3. C \subseteq 1 .. Len(q) + Len(r)
      BY <1>1, <1>2
    <3> QED  BY <3>1, <3>2, <3>3
  <2> HIDE DEF A, P, C
  <2>6. \A k : k \in PlacesOf(q \o r, T) <=> k \in A \cup C
    BY <2>2, <2>3, <2>4, <2>5
  <2> QED  BY <2>6
<1>5. A \cap C = {}
  BY <1>1, <1>2
<1> HIDE DEF A, P, C
<1>6. Cardinality(A \cup C) = Cardinality(A) + Cardinality(C) - Cardinality(A \cap C)
  BY <1>1, <1>3, FS_Union
<1>7. Cardinality(A \cap C) = 0
  BY <1>5, FS_EmptySet
<1>8. Number(q \o r, T) = Cardinality(A) + Cardinality(C) - 0
  BY <1>4, <1>6, <1>7 DEF Number
<1>9. Number(q, T) = Cardinality(A) /\ Number(r, T) = Cardinality(P)
  BY DEF Number, A, P
<1> QED  BY <1>1, <1>3, <1>8, <1>9

LEMMA NumberTail ==
    ASSUME NEW S, NEW q \in Seq(S), q # <<>>, NEW T
    PROVE  /\ Head(q) \in S /\ Tail(q) \in Seq(S)
           /\ Number(q, T) = One(Head(q) \in T) + Number(Tail(q), T)
<1>1. Head(q) \in S /\ Tail(q) \in Seq(S) /\ <<Head(q)>> \in Seq(S)
  OBVIOUS
<1>2. q = <<Head(q)>> \o Tail(q)
  OBVIOUS
<1>3. Number(<<Head(q)>> \o Tail(q), T) = Number(<<Head(q)>>, T) + Number(Tail(q), T)
  BY <1>1, NumberConcat
<1> QED  BY <1>1, <1>2, <1>3, NumberOne

\* The elements of the rest of a sequence, and of two sequences behind one another.
LEMMA TailOf ==
    ASSUME NEW X, NEW s \in Seq(X), s # <<>>
    PROVE  /\ Tail(s) \in Seq(X) /\ Head(s) \in X /\ 1 \in DOMAIN s /\ s[1] = Head(s)
           /\ \A k \in DOMAIN Tail(s) : k + 1 \in DOMAIN s /\ Tail(s)[k] = s[k + 1] /\ k \in Nat
           /\ \A k \in DOMAIN s : k # 1 => k - 1 \in DOMAIN Tail(s) /\ Tail(s)[k - 1] = s[k] /\ k \in Nat
<1>1. Len(s) \in Nat /\ Len(s) > 0 /\ DOMAIN s = 1 .. Len(s)
  OBVIOUS
<1>2. Tail(s) \in Seq(X) /\ Len(Tail(s)) = Len(s) - 1 /\ DOMAIN Tail(s) = 1 .. Len(s) - 1
  BY <1>1
<1>3. \A k \in 1 .. Len(s) - 1 : Tail(s)[k] = s[k + 1]
  BY <1>1
<1>4. Head(s) \in X /\ s[1] = Head(s)
  BY <1>1
<1>5. ASSUME NEW k \in DOMAIN s, k # 1
      PROVE  k - 1 \in DOMAIN Tail(s) /\ Tail(s)[k - 1] = s[k] /\ k \in Nat
  BY <1>1, <1>2, <1>3, <1>5
<1> QED  BY <1>1, <1>2, <1>3, <1>4, <1>5

LEMMA ConcatOf ==
    ASSUME NEW X, NEW s \in Seq(X), NEW t \in Seq(X)
    PROVE  /\ s \o t \in Seq(X) /\ Len(s) \in Nat /\ Len(t) \in Nat
           /\ Len(s \o t) = Len(s) + Len(t)
           /\ DOMAIN s = 1 .. Len(s) /\ DOMAIN t = 1 .. Len(t)
           /\ DOMAIN (s \o t) = 1 .. Len(s) + Len(t)
           /\ \A k \in DOMAIN s : k \in DOMAIN (s \o t) /\ (s \o t)[k] = s[k]
           /\ \A k \in DOMAIN (s \o t) :
                 \/ k \in DOMAIN s
                 \/ k > Len(s) /\ k - Len(s) \in DOMAIN t /\ (s \o t)[k] = t[k - Len(s)]
<1>1. Len(s) \in Nat /\ Len(t) \in Nat /\ DOMAIN s = 1 .. Len(s) /\ DOMAIN t = 1 .. Len(t)
  OBVIOUS
<1>2. s \o t \in Seq(X) /\ Len(s \o t) = Len(s) + Len(t) /\ DOMAIN (s \o t) = 1 .. Len(s) + Len(t)
  BY <1>1
<1>3. \A k \in DOMAIN s : k \in DOMAIN (s \o t) /\ (s \o t)[k] = s[k]
  BY <1>1, <1>2
<1>4. ASSUME NEW k \in DOMAIN (s \o t), k \notin DOMAIN s
      PROVE  k > Len(s) /\ k - Len(s) \in DOMAIN t /\ (s \o t)[k] = t[k - Len(s)]
  <2>1. k \in Nat /\ k > Len(s) /\ k <= Len(s) + Len(t)
    BY <1>1, <1>2, <1>4
  <2>2. k - Len(s) \in 1 .. Len(t) /\ k = Len(s) + (k - Len(s))
    BY <1>1, <2>1
  <2> QED  BY <1>1, <2>1, <2>2
<1>5. \A k \in DOMAIN (s \o t) :
         \/ k \in DOMAIN s
         \/ k > Len(s) /\ k - Len(s) \in DOMAIN t /\ (s \o t)[k] = t[k - Len(s)]
  BY <1>4
<1> QED  BY <1>1, <1>2, <1>3, <1>5

\* cs2 is cs without its i-th element.
Without(X, cs, cs2, i) ==
    /\ cs2 \in Seq(X) /\ Len(cs2) + 1 = Len(cs) /\ Len(cs2) \in Nat
    /\ \A k \in DOMAIN cs2 : \/ k \in DOMAIN cs /\ k < i /\ cs2[k] = cs[k]
                             \/ k + 1 \in DOMAIN cs /\ k + 1 > i /\ cs2[k] = cs[k + 1]
    /\ \A k \in DOMAIN cs : k # i => \E j \in DOMAIN cs2 : cs2[j] = cs[k]

LEMMA CutOut ==
    ASSUME NEW X, NEW cs \in Seq(X), NEW i \in DOMAIN cs
    PROVE  Without(X, cs, SubSeq(cs, 1, i - 1) \o SubSeq(cs, i + 1, Len(cs)), i)
<1> DEFINE a == SubSeq(cs, 1, i - 1)
           b == SubSeq(cs, i + 1, Len(cs))
<1>1. i \in Nat /\ Len(cs) \in Nat /\ i >= 1 /\ i <= Len(cs) /\ DOMAIN cs = 1 .. Len(cs)
  OBVIOUS
<1>2. a \in Seq(X) /\ Len(a) = i - 1 /\ \A k \in 1 .. i - 1 : a[k] = cs[k]
  BY <1>1
<1>3. b \in Seq(X) /\ Len(b) = Len(cs) - i /\ \A k \in 1 .. Len(cs) - i : b[k] = cs[i + k]
  <2>1. i + 1 \in Nat /\ i + 1 >= 1 /\ Len(cs) - (i + 1) + 1 = Len(cs) - i /\ Len(cs) - i \in Nat
    BY <1>1, SMTT(30), SMTT(31), ZenonT(30)
  <2>2. b \in Seq(X) /\ Len(b) = Len(cs) - i
    BY <1>1, <2>1
  <2>3. ASSUME NEW k \in 1 .. Len(cs) - i  PROVE b[k] = cs[i + k]
    <3>1. b[k] = cs[i + 1 + k - 1] /\ i + 1 + k - 1 = i + k
      BY <1>1, <2>1, SMTT(30), SMTT(31), ZenonT(30)
    <3> QED  BY <3>1
  <2> QED  BY <2>2, <2>3
<1> HIDE DEF a, b
<1> DEFINE c == a \o b
<1>5. /\ c \in Seq(X) /\ Len(c) = Len(cs) - 1 /\ DOMAIN c = 1 .. Len(cs) - 1
      /\ \A k \in 1 .. i - 1 : c[k] = a[k]
      /\ \A k \in 1 .. Len(cs) - i : c[i - 1 + k] = b[k]
  <2>1. c \in Seq(X) /\ Len(c) = Len(a) + Len(b) /\ DOMAIN c = 1 .. Len(a) + Len(b)
    <3>1. a \in Seq(X) /\ b \in Seq(X)
      BY <1>2, <1>3
    <3> QED  BY ONLY <3>1, ConcatOf
  <2>2. Len(a) + Len(b) = Len(cs) - 1
    BY <1>1, <1>2, <1>3
  <2>3. ASSUME NEW k \in 1 .. Len(b)  PROVE c[Len(a) + k] = b[k]
    BY <1>2, <1>3, SMTT(30), SMTT(31), ZenonT(30)
  <2>4. \A k \in 1 .. i - 1 : c[k] = a[k]
    BY <1>2, <1>3, ConcatOf
  <2> QED  BY <1>2, <1>3, <2>1, <2>2, <2>3, <2>4
<1> HIDE DEF c
<1>6. ASSUME NEW k \in DOMAIN c
      PROVE  \/ k \in DOMAIN cs /\ k < i /\ c[k] = cs[k]
             \/ k + 1 \in DOMAIN cs /\ k + 1 > i /\ c[k] = cs[k + 1]
  <2>1. CASE k < i
    BY SMTT(40), SMTT(41), ZenonT(30), <1>1, <1>2, <1>5, <2>1
  <2>2. CASE ~(k < i)
    <3>1. k - i + 1 \in 1 .. Len(cs) - i /\ i - 1 + (k - i + 1) = k /\ i + (k - i + 1) = k + 1
      BY <1>1, <1>5, <2>2
    <3>2. c[k] = b[k - i + 1] /\ b[k - i + 1] = cs[k + 1]
      BY <1>3, <1>5, <3>1, SMTT(30), SMTT(31), ZenonT(30)
    <3> QED  BY <1>1, <1>5, <2>2, <3>2
  <2> QED  BY <2>1, <2>2
<1>7. ASSUME NEW k \in DOMAIN cs, k # i  PROVE \E j \in DOMAIN c : c[j] = cs[k]
  <2>1. CASE k < i
    <3>1. k \in 1 .. i - 1 /\ k \in DOMAIN c
      BY <1>1, <1>5, <2>1
    <3> QED  BY <1>2, <1>5, <3>1
  <2>2. CASE k > i
    <3>1. k - i \in 1 .. Len(cs) - i /\ i - 1 + (k - i) = k - 1 /\ i + (k - i) = k /\ k - 1 \in DOMAIN c
      BY <1>1, <1>5, <2>2
    <3>2. c[k - 1] = b[k - i] /\ b[k - i] = cs[k]
      BY <1>3, <1>5, <3>1
    <3> QED  BY <3>1, <3>2
  <2> QED  BY <1>1, <1>7, <2>1, <2>2
<1>8. Len(c) + 1 = Len(cs) /\ Len(c) \in Nat
  BY <1>1, <1>5
<1>9. Without(X, cs, c, i)
  BY <1>5, <1>6, <1>7, <1>8 DEF Without
<1> QED  BY <1>9 DEF c, a, b

\* A set of numbers has a smallest one: the intervals up to its numbers are finite,
\* and of these one has no smaller one.
LEMMA Least ==
    ASSUME NEW S, S \subseteq Nat, S # {}
    PROVE  \E m \in S : \A n \in S : m <= n
<1> DEFINE T == {0 .. n : n \in S}
<1>1. T \subseteq FiniteSubsetsOf(Nat) /\ T # {}
  <2>1. \A n \in S : 0 .. n \subseteq Nat /\ IsFiniteSet(0 .. n)
    BY FS_Interval
  <2> QED  BY <2>1 DEF FiniteSubsetsOf
<1>2. IsWellFoundedOn(StrictSubsetOrdering(Nat), FiniteSubsetsOf(Nat))
  BY FS_StrictSubsetOrderingWellFounded
<1>3. PICK t \in T : \A u \in T : <<u, t>> \notin StrictSubsetOrdering(Nat)
  BY <1>1, <1>2, WFMin
<1>4. PICK m \in S : t = 0 .. m
  OBVIOUS
<1>5. ASSUME NEW n \in S, ~(m <= n)  PROVE FALSE
  <2>1. 0 .. n \in T /\ 0 .. n \in SUBSET Nat /\ 0 .. m \in SUBSET Nat
    OBVIOUS
  <2>2. 0 .. n \subseteq 0 .. m /\ m \in 0 .. m /\ m \notin 0 .. n
    BY <1>5
  <2>3. <<0 .. n, 0 .. m>> \in StrictSubsetOrdering(Nat)
    BY <2>1, <2>2 DEF StrictSubsetOrdering
  <2> QED  BY <1>3, <1>4, <2>1, <2>3
<1>6. \A n \in S : m <= n
  BY <1>5
<1> QED  BY <1>6

--------------------------------------------------------------------------------
(* The inductive invariant: g is cfg, t the program's state with the messages *)
(* to the brick, s those to the program, l the brick's calls, ls who listens  *)

Limit(g) == IF g.usWindowSize = 0 THEN 1 ELSE g.usWindowSize

Call == [id : Nat, state : States, active : BOOLEAN, plci : BOOLEAN, b3 : BOOLEAN,
         doSend : BOOLEAN, NotAcknowledged : Nat, sentPackets : Nat]
Appl == [id : Nat, fd : Nat, listen : BOOLEAN, active_calls : Nat, calls : Seq(Call), polled : BOOLEAN]
Polled == [fd : Nat, arg : Nat, revents : BOOLEAN]
Types == {"LISTEN_REQ", "RELEASE", "CONNECT_REQ", "CONNECT_RESP", "CONNECTACTIVE_RESP",
          "CONNECTB3_REQ", "CONNECTB3_RESP", "CONNECTB3ACTIVE_RESP", "DATAB3_REQ", "DATAB3_RESP",
          "DISCONNECTB3_REQ", "DISCONNECTB3_RESP", "DISCONNECT_REQ", "DISCONNECT_RESP",
          "LISTEN_CONF", "CONNECT_IND", "CONNECT_CONF", "CONNECTACTIVE_IND", "CONNECTB3_CONF",
          "CONNECTB3_IND", "CONNECTB3ACTIVE_IND", "DATAB3_CONF", "DATAB3_IND", "DISCONNECTB3_CONF",
          "DISCONNECTB3_IND", "DISCONNECT_CONF", "DISCONNECT_IND"}
Message == [type : Types, appl : Nat, id : Nat, b3 : BOOLEAN, info : Nat]
State == [appls : Seq(Appl), pollfds : Seq(Polled), made : Nat, dialled : Nat,
          ms : Seq(Message)]
LineStates == {"free", "offered", "dialling", "active", "b3offered", "b3up", "b3down", "clearing"}
Lines == [st : LineStates, appl : Nat, unconf : Nat, played : Nat]

\* A call of the program.
CallRight(g, c, dl) ==
    /\ c.id \in 1 .. dl /\ c.active = ~g.recv /\ (c.b3 => c.plci)
    /\ c.NotAcknowledged <= Limit(g)
    /\ c.doSend \/ c.NotAcknowledged > 0 => c.b3

ApplRight(g, a, md, dl) ==
    /\ a.id \in 1 .. md /\ a.fd >= 3 /\ a.active_calls = Len(a.calls)
    /\ \A j \in DOMAIN a.calls : CallRight(g, a.calls[j], dl)

\* Applications have identifiers and descriptors of their own, calls numbers of their
\* own wherever they are.
Apart(as) ==
    /\ \A k, n \in DOMAIN as : as[k].id = as[n].id \/ as[k].fd = as[n].fd => k = n
    /\ \A k, n \in DOMAIN as : \A i \in DOMAIN as[k].calls, j \in DOMAIN as[n].calls :
          as[k].calls[i].id = as[n].calls[j].id => k = n /\ i = j

\* The poll list.
Polls(as, fds) ==
    /\ Len(fds) <= MaxFd
    /\ \A k \in DOMAIN as : as[k].polled <=> \E n \in DOMAIN fds : fds[n].fd = as[k].fd
    /\ \A n \in DOMAIN fds : \E k \in DOMAIN as : as[k].fd = fds[n].fd /\ as[k].id = fds[n].arg
    /\ \A m, n \in DOMAIN fds : fds[m].fd = fds[n].fd => m = n

Structured(g, t) ==
    /\ t \in State /\ t.made \in ApplIds \cup {0} /\ t.dialled \in CallIds \cup {0}
    /\ \A k \in DOMAIN t.appls : ApplRight(g, t.appls[k], t.made, t.dialled)
    /\ Apart(t.appls) /\ Polls(t.appls, t.pollfds)

\* A message to the program, and one to the brick.
Posted(g, m, a, l, dl) ==
    /\ m.appl = a /\ m.id \in 0 .. dl
    /\ m.id = 0 <=> m.type = "LISTEN_CONF"
    /\ m.id # 0 => l[m.id].appl = a
    /\ m.type \in {"CONNECTB3ACTIVE_IND", "DATAB3_CONF"} => m.b3
    /\ m.type \in {"CONNECT_IND", "CONNECTB3_IND"} => g.recv

Asked(g, m, l, md, dl) ==
    /\ m.appl \in 1 .. md /\ m.id \in 0 .. dl
    /\ m.id = 0 <=> m.type \in {"LISTEN_REQ", "RELEASE"}
    /\ m.id # 0 => IF m.type = "CONNECT_REQ" THEN l[m.id] = Idle ELSE l[m.id].appl = m.appl
    /\ m.type = "DATAB3_REQ" => m.b3
    /\ m.type \in {"CONNECT_RESP", "CONNECTB3_RESP"} => g.recv
    /\ m.type \in {"CONNECT_REQ", "CONNECTB3_REQ"} => ~g.recv

Known(g, l, i, md, dl) ==
    /\ l[i].appl \in 0 .. md
    /\ i > dl \/ l[i].appl = 0 => l[i] = Idle
    /\ l[i].st \in {"dialling", "active"} => ~g.recv

Mailed(g, t, s, l) ==
    /\ s \in [ApplIds -> Seq(Message)] /\ l \in [CallIds -> Lines]
    /\ \A a \in ApplIds : \A n \in DOMAIN s[a] : Posted(g, s[a][n], a, l, t.dialled)
    /\ \A n \in DOMAIN t.ms : Asked(g, t.ms[n], l, t.made, t.dialled)
    /\ \A i \in CallIds : Known(g, l, i, t.made, t.dialled)

\* An application that is given up is gone, and nothing is said behind that.
Released(t) ==
    \A n \in DOMAIN t.ms : t.ms[n].type = "RELEASE" =>
        n = Len(t.ms) /\ \A k \in DOMAIN t.appls : t.appls[k].id # t.ms[n].appl

\* The queue that has what is under way to the program about call i.
In(s, l, i) == IF l[i].appl = 0 THEN <<>> ELSE s[l[i].appl]

\* On its way to the B channel a call has one turn: a message of these, or the other
\* side.
TokTypes(g) ==
    {"CONNECT_REQ", "CONNECT_RESP", "CONNECTB3_REQ", "CONNECTB3_RESP", "CONNECT_IND",
     "CONNECTB3_IND", "CONNECTB3ACTIVE_IND"} \cup (IF g.recv THEN {} ELSE {"CONNECTACTIVE_IND"})
Toks(g, i) == {m \in Message : m.id = i /\ m.type \in TokTypes(g)}
Turn(g, q, s, l, i) ==
    Number(q, Toks(g, i)) + Number(In(s, l, i), Toks(g, i)) + One(l[i].st = "dialling")

\* The blocks of call i which the program has not been told to be taken.
Typed(i, type) == {m \in Message : m.id = i /\ m.type = type}
Unread(q, s, l, i) ==
    Number(q, Typed(i, "DATAB3_REQ")) + l[i].unconf + Number(In(s, l, i), Typed(i, "DATAB3_CONF"))

\* As long as a call has a turn nothing has been sent.
Turns(g, t, s, l) ==
    \A i \in CallIds : /\ Turn(g, t.ms, s, l, i) <= 1
                       /\ Turn(g, t.ms, s, l, i) = 1 => Unread(t.ms, s, l, i) = 0

\* A call c of the application a is that of its line, or will be; its blocks are
\* counted; it is not offered any more.
Fit(g, q, s, l, a, c) ==
    /\ l[c.id].appl = a \/ \E n \in DOMAIN q : q[n].type = "CONNECT_REQ" /\ q[n].id = c.id /\ q[n].appl = a
    /\ Turn(g, q, s, l, c.id) = 1 => ~c.doSend /\ c.NotAcknowledged = 0
    /\ Unread(q, s, l, c.id) <= c.NotAcknowledged
    /\ l[c.id].st = "b3up" => Unread(q, s, l, c.id) = c.NotAcknowledged
    /\ Number(In(s, l, c.id), Typed(c.id, "CONNECT_IND")) = 0

Fits(g, t, s, l) ==
    \A k \in DOMAIN t.appls : \A j \in DOMAIN t.appls[k].calls :
        Fit(g, t.ms, s, l, t.appls[k].id, t.appls[k].calls[j])

Inv(g, t, s, l) ==
    /\ Structured(g, t) /\ Mailed(g, t, s, l) /\ Released(t)
    /\ Turns(g, t, s, l) /\ Fits(g, t, s, l)

\* Who listens has told the brick, or is about to; a full application does not, and
\* with one call to a connection somebody does.
Asks(m, a, info) == m.type = "LISTEN_REQ" /\ m.appl = a /\ (m.info = 1 <=> info = 1)
Heard(g, t, ls) ==
    \A k \in DOMAIN t.appls : t.appls[k].listen =>
        /\ g.recv /\ t.appls[k].active_calls < g.callperappl
        /\ \A n \in DOMAIN t.ms : ~Asks(t.ms[n], t.appls[k].id, 0)
        /\ t.appls[k].id \in ls \/ \E n \in DOMAIN t.ms : Asks(t.ms[n], t.appls[k].id, 1)

Listened(g, t) ==
    g.recv /\ g.callperappl = 1 => \E k \in DOMAIN t.appls : t.appls[k].listen

\* Without signals only the call dialled last may have a turn, and is in the first
\* application; the others are full.
Numbers(as) == {i \in CallIds : \E k \in DOMAIN as : \E j \in DOMAIN as[k].calls : as[k].calls[j].id = i}
Chain(g, t, s, l) ==
    /\ \A k \in DOMAIN t.appls : \A j \in DOMAIN t.appls[k].calls :
          Turn(g, t.ms, s, l, t.appls[k].calls[j].id) = 1 =>
              /\ k = 1 /\ t.appls[k].calls[j].id = t.dialled
              /\ \A n \in DOMAIN t.appls : n # 1 => t.appls[n].active_calls >= g.callperappl
    /\ Cardinality(Numbers(t.appls)) <= g.MaxActivCalls

\* The calls that will lead to another one, or that may take an application.
DueTypes(g) == IF g.recv THEN {"CONNECT_IND"}
               ELSE {"CONNECTACTIVE_IND", "CONNECTB3_REQ", "CONNECTB3ACTIVE_IND"}
Dues(g, i) == {m \in Message : m.id = i /\ m.type \in DueTypes(g)}
Due(g, q, s, l) == {i \in CallIds : Number(q, Dues(g, i)) + Number(In(s, l, i), Dues(g, i)) > 0}

Bounded(g, t, s, l, an, sg) ==
    LET due == Cardinality(Due(g, t.ms, s, l))
    IN  /\ an <= g.answers /\ sg <= g.signals
        /\ g.recv => t.dialled = an /\ t.made + due <= 1 + t.dialled
        /\ ~g.recv => /\ t.dialled + due <= 1 + sg + an /\ t.made <= 1 + t.dialled
                      /\ g.MaxActivCalls = 0 => t.dialled = 0

Control ==
    /\ cfg \in Configs /\ pc \in {"init", "poll", "exit", "killed"}
    /\ at \in Nat /\ answered \in Nat /\ signals \in Nat
    /\ pc = "poll" => appls # <<>> /\ at <= Len(pollfds)
    /\ pc = "init" => /\ made = 0 /\ dialled = 0 /\ answered = 0 /\ signals = 0 /\ appls = <<>>
                      /\ at = 0 /\ pollfds = <<>> /\ toBrick = <<>>

\* The program's state with the messages to the brick.
Program == [appls |-> appls, pollfds |-> pollfds, made |-> made, dialled |-> dialled,
            ms |-> toBrick]

\* All of it, where any application is left.
Whole(g, t, s, l, ls, an, sg) ==
    /\ Inv(g, t, s, l) /\ ls \subseteq 1 .. t.made /\ Heard(g, t, ls)
    /\ t.appls # <<>> => Listened(g, t)
    /\ ~g.recv /\ sg = 0 => Chain(g, t, s, l)
    /\ Bounded(g, t, s, l, an, sg)

IInv == Control /\ Whole(cfg, Program, toProg, line, listens, answered, signals)
--------------------------------------------------------------------------------
(* Constants, and what is under way about a call *)

LEMMA Constants ==
    /\ MaxCalls \in Nat /\ MaxSignals \in Nat
    /\ CallIds = 1 .. MaxCalls + MaxSignals + 1 /\ ApplIds = 1 .. MaxCalls + MaxSignals + 2
    /\ \A i \in CallIds : i \in Nat /\ i # 0
    /\ \A a \in ApplIds : a \in Nat /\ a # 0
BY CapiTestAssumption DEF CallIds, ApplIds

LEMMA Options ==
    ASSUME NEW g \in Configs
    PROVE  /\ g.recv \in BOOLEAN /\ g.MaxActivCalls \in Nat /\ g.callperappl \in Nat
           /\ g.callperappl # 0 /\ g.usWindowSize \in Nat /\ g.maxSentPackets \in Nat
           /\ g.answers \in Nat /\ g.answers <= MaxCalls
           /\ g.signals \in Nat /\ g.signals <= MaxSignals /\ g.plays \in Nat
           /\ Limit(g) \in Nat /\ Limit(g) >= 1
BY CapiTestAssumption DEF Limit

LEMMA MessageIs ==
    ASSUME NEW type \in Types, NEW a \in Nat, NEW i \in Nat, NEW b3 \in BOOLEAN, NEW info \in Nat
    PROVE  /\ Msg(type, a, i, b3, info) \in Message
           /\ Msg(type, a, i, b3, info).type = type /\ Msg(type, a, i, b3, info).appl = a
           /\ Msg(type, a, i, b3, info).id = i /\ Msg(type, a, i, b3, info).b3 = b3
           /\ Msg(type, a, i, b3, info).info = info
BY DEF Msg, Message

LEMMA MessageIn ==
    ASSUME NEW m \in Message
    PROVE  /\ m.type \in Types /\ m.appl \in Nat /\ m.id \in Nat /\ m.b3 \in BOOLEAN /\ m.info \in Nat
           /\ \A g, i : m \in Toks(g, i) <=> m.id = i /\ m.type \in TokTypes(g)
           /\ \A g, i : m \in Dues(g, i) <=> m.id = i /\ m.type \in DueTypes(g)
           /\ \A i, type : m \in Typed(i, type) <=> m.id = i /\ m.type = type
BY DEF Message, Toks, Dues, Typed

\* Messages about call i.
AboutCall(T, i) == \A m \in T : m.id = i

LEMMA AboutCalls ==
    ASSUME NEW g, NEW i, NEW type
    PROVE  AboutCall(Toks(g, i), i) /\ AboutCall(Dues(g, i), i) /\ AboutCall(Typed(i, type), i)
BY DEF AboutCall, Toks, Dues, Typed

\* Nothing of a sequence is in T if no element is.
LEMMA NumberNone ==
    ASSUME NEW q \in Seq(Message), NEW T, \A n \in DOMAIN q : q[n] \notin T
    PROVE  Number(q, T) = 0
BY NumberType

LEMMA NumberSome ==
    ASSUME NEW q \in Seq(Message), NEW T, NEW n \in DOMAIN q, q[n] \in T
    PROVE  Number(q, T) \in Nat /\ Number(q, T) >= 1
BY NumberType

\* The queues to the applications, and the lines.
Held(s, l) ==
    /\ s \in [ApplIds -> Seq(Message)] /\ l \in [CallIds -> Lines]
    /\ \A i \in CallIds : l[i].appl \in ApplIds \cup {0}

LEMMA InType ==
    ASSUME NEW s, NEW l, Held(s, l), NEW i \in CallIds
    PROVE  /\ In(s, l, i) \in Seq(Message)
           /\ l[i].appl = 0 => In(s, l, i) = <<>>
           /\ l[i].appl # 0 => l[i].appl \in ApplIds /\ In(s, l, i) = s[l[i].appl]
<1>1. <<>> \in Seq(Message)
  OBVIOUS
<1> QED  BY <1>1, Constants DEF In, Held

LEMMA OneType == ASSUME NEW b \in BOOLEAN PROVE One(b) \in {0, 1} /\ (b => One(b) = 1) /\ (~b => One(b) = 0)
BY DEF One

\* What the invariant counts of a call, in terms of the two queues.
LEMMA Counted ==
    ASSUME NEW g, NEW q \in Seq(Message), NEW s, NEW l, Held(s, l), NEW i \in CallIds
    PROVE  /\ In(s, l, i) \in Seq(Message)
           /\ \A T : Number(q, T) \in Nat /\ Number(In(s, l, i), T) \in Nat
           /\ Turn(g, q, s, l, i) \in Nat /\ Unread(q, s, l, i) \in Nat
           /\ Turn(g, q, s, l, i) = Number(q, Toks(g, i)) + Number(In(s, l, i), Toks(g, i))
                                    + One(l[i].st = "dialling")
           /\ Unread(q, s, l, i) = Number(q, Typed(i, "DATAB3_REQ")) + l[i].unconf
                                   + Number(In(s, l, i), Typed(i, "DATAB3_CONF"))
           /\ l[i].unconf \in Nat
<1>1. In(s, l, i) \in Seq(Message)
  BY InType
<1>2. \A T : Number(q, T) \in Nat /\ Number(In(s, l, i), T) \in Nat
  BY <1>1, NumberType
<1>3. l[i].unconf \in Nat /\ One(l[i].st = "dialling") \in {0, 1}
  BY OneType DEF Lines, Held
<1>4. /\ Turn(g, q, s, l, i) = Number(q, Toks(g, i)) + Number(In(s, l, i), Toks(g, i))
                               + One(l[i].st = "dialling")
      /\ Unread(q, s, l, i) = Number(q, Typed(i, "DATAB3_REQ")) + l[i].unconf
                              + Number(In(s, l, i), Typed(i, "DATAB3_CONF"))
  BY DEF Turn, Unread
<1>5. /\ Number(q, Toks(g, i)) \in Nat /\ Number(In(s, l, i), Toks(g, i)) \in Nat
      /\ Number(q, Typed(i, "DATAB3_REQ")) \in Nat /\ Number(In(s, l, i), Typed(i, "DATAB3_CONF")) \in Nat
  BY <1>2
<1>6. Turn(g, q, s, l, i) \in Nat /\ Unread(q, s, l, i) \in Nat
  BY SMTT(40), SMTT(41), ZenonT(30), <1>3, <1>4, <1>5
<1> QED  BY <1>1, <1>2, <1>3, <1>4, <1>6

\* The program puts r behind what is under way to the brick.
LEMMA PutCounts ==
    ASSUME NEW g, NEW q \in Seq(Message), NEW r \in Seq(Message), NEW s, NEW l, Held(s, l),
           NEW i \in CallIds
    PROVE  /\ Turn(g, q \o r, s, l, i) = Turn(g, q, s, l, i) + Number(r, Toks(g, i))
           /\ Unread(q \o r, s, l, i) = Unread(q, s, l, i) + Number(r, Typed(i, "DATAB3_REQ"))
           /\ Number(r, Toks(g, i)) \in Nat /\ Number(r, Typed(i, "DATAB3_REQ")) \in Nat
<1>1. q \o r \in Seq(Message)
  OBVIOUS
<1>2. \A T : Number(q \o r, T) = Number(q, T) + Number(r, T) /\ Number(r, T) \in Nat
  BY NumberConcat, NumberType
<1>3. /\ Number(q \o r, Toks(g, i)) = Number(q, Toks(g, i)) + Number(r, Toks(g, i))
      /\ Number(q \o r, Typed(i, "DATAB3_REQ")) = Number(q, Typed(i, "DATAB3_REQ")) + Number(r, Typed(i, "DATAB3_REQ"))
      /\ Number(r, Toks(g, i)) \in Nat /\ Number(r, Typed(i, "DATAB3_REQ")) \in Nat
  BY <1>2
<1>4. /\ Number(q, Toks(g, i)) \in Nat /\ Number(In(s, l, i), Toks(g, i)) \in Nat
      /\ Number(q, Typed(i, "DATAB3_REQ")) \in Nat /\ l[i].unconf \in Nat
      /\ Number(In(s, l, i), Typed(i, "DATAB3_CONF")) \in Nat /\ One(l[i].st = "dialling") \in {0, 1}
  BY Counted, OneType
<1>5. /\ Turn(g, q, s, l, i) = Number(q, Toks(g, i)) + Number(In(s, l, i), Toks(g, i))
                               + One(l[i].st = "dialling")
      /\ Unread(q, s, l, i) = Number(q, Typed(i, "DATAB3_REQ")) + l[i].unconf
                              + Number(In(s, l, i), Typed(i, "DATAB3_CONF"))
  BY DEF Turn, Unread
<1> DEFINE q2 == q \o r
<1>6. q2 \in Seq(Message)
  BY <1>1
<1> HIDE DEF q2
<1>7. /\ Turn(g, q2, s, l, i) = Number(q2, Toks(g, i)) + Number(In(s, l, i), Toks(g, i))
                               + One(l[i].st = "dialling")
      /\ Unread(q2, s, l, i) = Number(q2, Typed(i, "DATAB3_REQ")) + l[i].unconf
                              + Number(In(s, l, i), Typed(i, "DATAB3_CONF"))
  BY DEF Turn, Unread
<1>8. /\ Number(q2, Toks(g, i)) = Number(q, Toks(g, i)) + Number(r, Toks(g, i))
      /\ Number(q2, Typed(i, "DATAB3_REQ")) = Number(q, Typed(i, "DATAB3_REQ")) + Number(r, Typed(i, "DATAB3_REQ"))
  BY <1>3 DEF q2
<1>9. /\ Turn(g, q2, s, l, i) = Turn(g, q, s, l, i) + Number(r, Toks(g, i))
      /\ Unread(q2, s, l, i) = Unread(q, s, l, i) + Number(r, Typed(i, "DATAB3_REQ"))
  <2> DEFINE a == Number(q, Toks(g, i))
             b == Number(r, Toks(g, i))
             c == Number(In(s, l, i), Toks(g, i))
             d == One(l[i].st = "dialling")
             e == Number(q, Typed(i, "DATAB3_REQ"))
             f == Number(r, Typed(i, "DATAB3_REQ"))
             h == Number(In(s, l, i), Typed(i, "DATAB3_CONF"))
             u == l[i].unconf
  <2>1. /\ a \in Nat /\ b \in Nat /\ c \in Nat /\ d \in Nat /\ e \in Nat /\ f \in Nat /\ h \in Nat
        /\ u \in Nat
    BY SMTT(40), SMTT(41), ZenonT(30), <1>3, <1>4
  <2>2. /\ Turn(g, q2, s, l, i) = (a + b) + c + d /\ Turn(g, q, s, l, i) = a + c + d
        /\ Unread(q2, s, l, i) = (e + f) + u + h /\ Unread(q, s, l, i) = e + u + h
    BY <1>5, <1>7, <1>8
  <2> HIDE DEF a, b, c, d, e, f, h, u
  <2>3. /\ Turn(g, q2, s, l, i) = Turn(g, q, s, l, i) + b
        /\ Unread(q2, s, l, i) = Unread(q, s, l, i) + f
    BY <2>1, <2>2
  <2> QED  BY <2>3 DEF b, f
<1> QED  BY <1>3, <1>9 DEF q2

\* The queue of the application a loses its first message m, or gets x behind it:
\* what is under way about the calls of that application, and of the others.
Taken(s, a) == [s EXCEPT ![a] = Tail(@)]
Given(s, a, x) == [s EXCEPT ![a] = @ \o x]
Belongs(m, l) == m.id \in CallIds => l[m.id].appl = m.appl

LEMMA TakeIn ==
    ASSUME NEW s, NEW l, Held(s, l), NEW i \in CallIds,
           NEW a \in ApplIds, s[a] # <<>>, Head(s[a]).appl = a, Belongs(Head(s[a]), l),
           NEW T, AboutCall(T, i)
    PROVE  LET s2 == Taken(s, a)
           IN  /\ Held(s2, l)
               /\ Number(In(s, l, i), T) = One(Head(s[a]) \in T) + Number(In(s2, l, i), T)
<1> DEFINE s2 == Taken(s, a)
<1>1. /\ Head(s[a]) \in Message /\ Tail(s[a]) \in Seq(Message)
      /\ Number(s[a], T) = One(Head(s[a]) \in T) + Number(Tail(s[a]), T)
  <2>1. s[a] \in Seq(Message)
    BY DEF Held
  <2> QED  BY <2>1, NumberTail
<1>2. Held(s2, l)
  BY <1>1 DEF Held, Taken
<1>3. CASE l[i].appl = a
  <2>1. s2[a] = Tail(s[a])
    BY DEF Held, Taken
  <2> HIDE DEF s2
  <2>2. In(s, l, i) = s[a] /\ In(s2, l, i) = Tail(s[a])
    BY <1>3, <2>1, Constants DEF In
  <2> QED  BY <1>1, <1>2, <2>2 DEF s2
<1>4. CASE l[i].appl # a
  <2>1. Head(s[a]) \notin T
    BY <1>4 DEF AboutCall, Belongs
  <2>2. In(s2, l, i) = In(s, l, i)
    BY <1>4 DEF In, Taken, Held
  <2>3. In(s, l, i) \in Seq(Message)
    BY InType
  <2>4. Number(In(s, l, i), T) \in Nat
    BY <2>3, NumberType
  <2>5. One(Head(s[a]) \in T) = 0
    BY <2>1 DEF One
  <2> QED  BY <1>2, <2>2, <2>4, <2>5
<1> QED  BY <1>3, <1>4

LEMMA PostIn ==
    ASSUME NEW s, NEW l, NEW l2, Held(s, l), Held(s, l2), NEW i \in CallIds, l2[i].appl = l[i].appl,
           NEW a \in ApplIds, NEW x \in Seq(Message), \A n \in DOMAIN x : x[n].appl = a /\ Belongs(x[n], l),
           NEW T, AboutCall(T, i)
    PROVE  LET s2 == Given(s, a, x)
           IN  /\ Held(s2, l2)
               /\ Number(In(s2, l2, i), T) = Number(In(s, l, i), T) + Number(x, T)
<1> DEFINE s2 == Given(s, a, x)
<1>0. s[a] \in Seq(Message)
  BY DEF Held
<1>1. s[a] \o x \in Seq(Message) /\ Number(s[a] \o x, T) = Number(s[a], T) + Number(x, T)
  BY <1>0, NumberConcat
<1>2. Held(s2, l2)
  BY <1>1 DEF Held, Given
<1>3. CASE l[i].appl = a
  <2>1. s2[a] = s[a] \o x
    BY DEF Held, Given
  <2> HIDE DEF s2
  <2>2. In(s, l, i) = s[a] /\ In(s2, l2, i) = s[a] \o x
    BY <1>3, <2>1, Constants DEF In
  <2> QED  BY <1>1, <1>2, <2>2 DEF s2
<1>4. CASE l[i].appl # a
  <2>1. \A n \in DOMAIN x : x[n] \notin T
    BY <1>4 DEF AboutCall, Belongs
  <2>2. In(s2, l2, i) = In(s, l, i)
    BY <1>4 DEF In, Given, Held
  <2>3. In(s, l, i) \in Seq(Message)
    BY InType
  <2>4. Number(In(s, l, i), T) \in Nat /\ Number(x, T) = 0
    BY <2>1, <2>3, NumberType
  <2> QED  BY <1>2, <2>2, <2>4
<1> QED  BY <1>3, <1>4

--------------------------------------------------------------------------------
(* What the program does to its state and says *)

\* No application has been given up.
Open(t) == \A n \in DOMAIN t.ms : t.ms[n].type # "RELEASE"

LEMMA StateIn ==
    ASSUME NEW t \in State
    PROVE  /\ t.appls \in Seq(Appl) /\ t.pollfds \in Seq(Polled) /\ t.made \in Nat /\ t.dialled \in Nat
           /\ t.ms \in Seq(Message)
           /\ t = [appls |-> t.appls, pollfds |-> t.pollfds, made |-> t.made, dialled |-> t.dialled,
                   ms |-> t.ms]
           /\ Len(t.appls) \in Nat /\ DOMAIN t.appls = 1 .. Len(t.appls)
           /\ \A k \in DOMAIN t.appls :
                 /\ k \in Nat /\ t.appls[k] \in Appl /\ t.appls[k].id \in Nat /\ t.appls[k].fd \in Nat
                 /\ t.appls[k].listen \in BOOLEAN /\ t.appls[k].active_calls \in Nat
                 /\ t.appls[k].calls \in Seq(Call) /\ Len(t.appls[k].calls) \in Nat
                 /\ DOMAIN t.appls[k].calls = 1 .. Len(t.appls[k].calls)
                 /\ \A j \in DOMAIN t.appls[k].calls :
                       /\ t.appls[k].calls[j] \in Call /\ t.appls[k].calls[j].id \in Nat
                       /\ t.appls[k].calls[j].NotAcknowledged \in Nat
<1>1. /\ t.appls \in Seq(Appl) /\ t.pollfds \in Seq(Polled) /\ t.made \in Nat /\ t.dialled \in Nat
      /\ t.ms \in Seq(Message)
      /\ t = [appls |-> t.appls, pollfds |-> t.pollfds, made |-> t.made, dialled |-> t.dialled,
              ms |-> t.ms]
  BY DEF State
<1>2. Len(t.appls) \in Nat /\ DOMAIN t.appls = 1 .. Len(t.appls)
  BY <1>1
<1>3. ASSUME NEW k \in DOMAIN t.appls
      PROVE  /\ k \in Nat /\ t.appls[k] \in Appl /\ t.appls[k].id \in Nat /\ t.appls[k].fd \in Nat
             /\ t.appls[k].listen \in BOOLEAN /\ t.appls[k].active_calls \in Nat
             /\ t.appls[k].calls \in Seq(Call) /\ Len(t.appls[k].calls) \in Nat
             /\ DOMAIN t.appls[k].calls = 1 .. Len(t.appls[k].calls)
             /\ \A j \in DOMAIN t.appls[k].calls :
                   /\ t.appls[k].calls[j] \in Call /\ t.appls[k].calls[j].id \in Nat
                   /\ t.appls[k].calls[j].NotAcknowledged \in Nat
  <2>1. k \in Nat /\ t.appls[k] \in Appl
    BY <1>1, <1>2, <1>3
  <2>2. /\ t.appls[k].id \in Nat /\ t.appls[k].fd \in Nat
        /\ t.appls[k].listen \in BOOLEAN /\ t.appls[k].active_calls \in Nat
        /\ t.appls[k].calls \in Seq(Call)
    BY <2>1 DEF Appl
  <2>3. Len(t.appls[k].calls) \in Nat /\ DOMAIN t.appls[k].calls = 1 .. Len(t.appls[k].calls)
    BY <2>2
  <2>4. \A j \in DOMAIN t.appls[k].calls : t.appls[k].calls[j] \in Call
    BY <2>2, <2>3
  <2>5. \A c \in Call : c.id \in Nat /\ c.NotAcknowledged \in Nat
    BY DEF Call
  <2> QED  BY <2>1, <2>2, <2>3, <2>4, <2>5
<1> QED  BY <1>1, <1>2, <1>3

LEMMA MailedIn ==
    ASSUME NEW g, NEW t, NEW s, NEW l, Structured(g, t), Mailed(g, t, s, l)
    PROVE  /\ t \in State /\ t.ms \in Seq(Message)
           /\ Held(s, l) /\ \A i \in CallIds : l[i].appl \in Nat
           /\ \A i \in 1 .. t.dialled : i \in CallIds
           /\ \A a \in 1 .. t.made : a \in ApplIds /\ a \in Nat /\ a # 0
           /\ t.made \in Nat /\ t.dialled \in Nat
<1>1. t \in State /\ t.made \in ApplIds \cup {0} /\ t.dialled \in CallIds \cup {0}
  BY DEF Structured
<1>2. s \in [ApplIds -> Seq(Message)] /\ l \in [CallIds -> Lines]
  BY DEF Mailed
<1>3. t.made \in Nat /\ t.dialled \in Nat /\ t.ms \in Seq(Message)
  BY <1>1, StateIn
<1>4. /\ \A i \in 1 .. t.dialled : i \in CallIds
      /\ \A a \in 1 .. t.made : a \in ApplIds /\ a \in Nat /\ a # 0
  BY <1>1, Constants
<1>5. \A i \in CallIds : l[i].appl \in 0 .. t.made
  BY DEF Mailed, Known
<1>6. Held(s, l) /\ \A i \in CallIds : l[i].appl \in Nat
  BY <1>1, <1>2, <1>3, <1>4, <1>5 DEF Held
<1> QED  BY <1>1, <1>3, <1>4, <1>6

\* What the program may put, and what of it may be about a call: the turn it has got,
\* or blocks when it has none.
Askable(g, r, l, md, dl) ==
    \A n \in DOMAIN r : Asked(g, r[n], l, md, dl) /\ r[n].type # "RELEASE"
Puttable(g, q, r, s, l) ==
    \A i \in CallIds :
        /\ \/ Number(r, Toks(g, i)) = 0
           \/ /\ Number(r, Toks(g, i)) = 1 /\ Number(r, Typed(i, "DATAB3_REQ")) = 0
              /\ Turn(g, q, s, l, i) = 0 /\ Unread(q, s, l, i) = 0
        /\ Number(r, Typed(i, "DATAB3_REQ")) = 0 \/ Turn(g, q, s, l, i) = 0

\* The program has changed its state and put r.
LEMMA Extend ==
    ASSUME NEW g, NEW t, NEW t2, NEW s, NEW l, NEW r \in Seq(Message),
           Inv(g, t, s, l), Open(t), Structured(g, t2),
           t.made <= t2.made, t.dialled <= t2.dialled, t2.ms = t.ms \o r,
           Askable(g, r, l, t2.made, t2.dialled), Puttable(g, t.ms, r, s, l),
           Fits(g, t2, s, l)
    PROVE  Inv(g, t2, s, l) /\ Open(t2)
<1>1. Structured(g, t) /\ Mailed(g, t, s, l) /\ Released(t) /\ Turns(g, t, s, l)
  BY DEF Inv
<1>2. /\ t.ms \in Seq(Message) /\ Held(s, l) /\ t.made \in Nat /\ t.dialled \in Nat
  BY <1>1, MailedIn
<1>3. t2 \in State /\ t2.made \in Nat /\ t2.dialled \in Nat
  BY StateIn DEF Structured
<1>4. ASSUME NEW n \in DOMAIN t2.ms
      PROVE  Asked(g, t2.ms[n], l, t2.made, t2.dialled) /\ t2.ms[n].type # "RELEASE"
  <2>1. \/ n \in DOMAIN t.ms /\ t2.ms[n] = t.ms[n]
        \/ \E k \in DOMAIN r : t2.ms[n] = r[k]
    BY <1>2, <1>4, ConcatOf
  <2>3. \A k \in DOMAIN r : Asked(g, r[k], l, t2.made, t2.dialled) /\ r[k].type # "RELEASE"
    BY DEF Askable
  <2>2. CASE n \in DOMAIN t.ms /\ t2.ms[n] = t.ms[n]
    <3>1. Asked(g, t.ms[n], l, t.made, t.dialled) /\ t.ms[n].type # "RELEASE"
      BY <1>1, <2>2 DEF Mailed, Open
    <3> QED  BY SMTT(40), SMTT(41), ZenonT(30), <1>2, <1>3, <2>2, <3>1 DEF Asked
  <2> QED  BY <2>1, <2>2, <2>3
<1>5. Open(t2) /\ Released(t2)
  BY <1>4 DEF Open, Released
<1>6. Mailed(g, t2, s, l)
  <2>1. ASSUME NEW a \in ApplIds, NEW n \in DOMAIN s[a]
        PROVE  Posted(g, s[a][n], a, l, t2.dialled)
    <3>1. Posted(g, s[a][n], a, l, t.dialled)
      BY <1>1 DEF Mailed
    <3> QED  BY <1>2, <1>3, <3>1 DEF Posted
  <2>2. ASSUME NEW i \in CallIds
        PROVE  Known(g, l, i, t2.made, t2.dialled)
    <3>1. Known(g, l, i, t.made, t.dialled) /\ i \in Nat
      BY <1>1, Constants DEF Mailed
    <3> QED  BY SMTT(40), SMTT(41), ZenonT(30), <1>2, <1>3, <3>1 DEF Known
  <2> QED  BY <1>1, <1>4, <2>1, <2>2 DEF Mailed
<1>7. Turns(g, t2, s, l)
  <2> SUFFICES ASSUME NEW i \in CallIds
               PROVE  /\ Turn(g, t2.ms, s, l, i) <= 1
                      /\ Turn(g, t2.ms, s, l, i) = 1 => Unread(t2.ms, s, l, i) = 0
    BY DEF Turns
  <2>1. /\ Turn(g, t2.ms, s, l, i) = Turn(g, t.ms, s, l, i) + Number(r, Toks(g, i))
        /\ Unread(t2.ms, s, l, i) = Unread(t.ms, s, l, i) + Number(r, Typed(i, "DATAB3_REQ"))
    BY <1>2, PutCounts
  <2>2. /\ Turn(g, t.ms, s, l, i) \in Nat /\ Unread(t.ms, s, l, i) \in Nat
    BY <1>2, Counted
  <2>3. /\ Turn(g, t.ms, s, l, i) <= 1
        /\ Turn(g, t.ms, s, l, i) = 1 => Unread(t.ms, s, l, i) = 0
    BY <1>1 DEF Turns
  <2>4. Number(r, Typed(i, "DATAB3_REQ")) \in Nat
    BY NumberType
  <2>5. /\ \/ Number(r, Toks(g, i)) = 0
           \/ /\ Number(r, Toks(g, i)) = 1 /\ Number(r, Typed(i, "DATAB3_REQ")) = 0
              /\ Turn(g, t.ms, s, l, i) = 0 /\ Unread(t.ms, s, l, i) = 0
        /\ Number(r, Typed(i, "DATAB3_REQ")) = 0 \/ Turn(g, t.ms, s, l, i) = 0
    BY DEF Puttable
  <2> QED  BY <2>1, <2>2, <2>3, <2>4, <2>5
<1> QED  BY <1>5, <1>6, <1>7 DEF Inv

\* A call that fits does so when something else is put, and when its own blocks are.
LEMMA FitKept ==
    ASSUME NEW g, NEW q \in Seq(Message), NEW r \in Seq(Message), NEW s, NEW l, Held(s, l),
           NEW a, NEW c, NEW d, c.id \in CallIds, d.id = c.id,
           c.NotAcknowledged \in Nat, Fit(g, q, s, l, a, c), Number(r, Toks(g, c.id)) = 0,
           d.NotAcknowledged = c.NotAcknowledged + Number(r, Typed(c.id, "DATAB3_REQ")),
           \/ Turn(g, q, s, l, c.id) = 0
           \/ d.NotAcknowledged = c.NotAcknowledged /\ (d.doSend => c.doSend)
    PROVE  Fit(g, q \o r, s, l, a, d)
<1> DEFINE q2 == q \o r
<1>1. /\ Turn(g, q2, s, l, c.id) = Turn(g, q, s, l, c.id) + Number(r, Toks(g, c.id))
      /\ Unread(q2, s, l, c.id) = Unread(q, s, l, c.id) + Number(r, Typed(c.id, "DATAB3_REQ"))
      /\ Number(r, Typed(c.id, "DATAB3_REQ")) \in Nat
  BY PutCounts
<1>2. Turn(g, q, s, l, c.id) \in Nat /\ Unread(q, s, l, c.id) \in Nat
  BY Counted
<1>3. \A n \in DOMAIN q : n \in DOMAIN q2 /\ q2[n] = q[n]
  BY ConcatOf
<1> HIDE DEF q2
<1>4. l[c.id].appl = a \/ \E n \in DOMAIN q2 : q2[n].type = "CONNECT_REQ" /\ q2[n].id = c.id /\ q2[n].appl = a
  BY <1>3 DEF Fit
<1>5. /\ Turn(g, q2, s, l, c.id) = 1 => ~d.doSend /\ d.NotAcknowledged = 0
      /\ Unread(q2, s, l, c.id) <= d.NotAcknowledged
      /\ l[c.id].st = "b3up" => Unread(q2, s, l, c.id) = d.NotAcknowledged
  BY <1>1, <1>2 DEF Fit
<1>6. Fit(g, q2, s, l, a, d)
  BY <1>4, <1>5 DEF Fit
<1> QED  BY <1>6 DEF q2

\* t2 has the applications and calls of t, whatever has become of a call's state.
SameFrame(t, t2) ==
    /\ t2.made = t.made /\ t2.dialled = t.dialled
    /\ DOMAIN t2.appls = DOMAIN t.appls
    /\ \A k \in DOMAIN t.appls :
          /\ t2.appls[k].id = t.appls[k].id /\ t2.appls[k].fd = t.appls[k].fd
          /\ t2.appls[k].listen = t.appls[k].listen /\ t2.appls[k].polled = t.appls[k].polled
          /\ t2.appls[k].active_calls = t.appls[k].active_calls
          /\ DOMAIN t2.appls[k].calls = DOMAIN t.appls[k].calls
          /\ \A j \in DOMAIN t.appls[k].calls : t2.appls[k].calls[j].id = t.appls[k].calls[j].id
    /\ Len(t2.pollfds) = Len(t.pollfds) /\ DOMAIN t2.pollfds = DOMAIN t.pollfds
    /\ \A n \in DOMAIN t.pollfds : /\ t2.pollfds[n].fd = t.pollfds[n].fd
                                   /\ t2.pollfds[n].arg = t.pollfds[n].arg

LEMMA FrameSelf == ASSUME NEW t PROVE SameFrame(t, t)
BY DEF SameFrame

LEMMA FrameTwice ==
    ASSUME NEW t, NEW u, NEW v, SameFrame(t, u), SameFrame(u, v)
    PROVE  SameFrame(t, v)
BY DEF SameFrame

LEMMA FrameStructured ==
    ASSUME NEW g, NEW t, NEW t2 \in State, Structured(g, t), SameFrame(t, t2),
           \A k \in DOMAIN t.appls : \A j \in DOMAIN t.appls[k].calls :
               CallRight(g, t2.appls[k].calls[j], t.dialled)
    PROVE  Structured(g, t2)
<1>1. t \in State
  BY DEF Structured
<1>2. Apart(t2.appls)
  BY DEF Structured, SameFrame, Apart
<1>4. Polls(t2.appls, t2.pollfds)
  BY DEF Structured, SameFrame, Polls
<1>5. ASSUME NEW k \in DOMAIN t2.appls
      PROVE  ApplRight(g, t2.appls[k], t2.made, t2.dialled)
  <2>1. k \in DOMAIN t.appls /\ ApplRight(g, t.appls[k], t.made, t.dialled)
    BY DEF Structured, SameFrame
  <2>2. Len(t2.appls[k].calls) = Len(t.appls[k].calls)
    <3>1. /\ DOMAIN t.appls[k].calls = 1 .. Len(t.appls[k].calls) /\ Len(t.appls[k].calls) \in Nat
      BY <1>1, <2>1, StateIn
    <3>2. /\ DOMAIN t2.appls[k].calls = 1 .. Len(t2.appls[k].calls) /\ Len(t2.appls[k].calls) \in Nat
      BY StateIn
    <3>3. DOMAIN t2.appls[k].calls = DOMAIN t.appls[k].calls
      BY <2>1 DEF SameFrame
    <3> QED  BY <3>1, <3>2, <3>3
  <2> QED  BY <2>1, <2>2 DEF ApplRight, SameFrame
<1>6. t2.made \in ApplIds \cup {0} /\ t2.dialled \in CallIds \cup {0}
  BY DEF Structured, SameFrame
<1> QED  BY <1>2, <1>4, <1>5, <1>6 DEF Structured

\* What the program says of a call without a turn changing hands.
PlainTypes == {"CONNECTACTIVE_RESP", "CONNECTB3ACTIVE_RESP", "DATAB3_REQ", "DATAB3_RESP",
               "DISCONNECTB3_REQ", "DISCONNECTB3_RESP", "DISCONNECT_REQ", "DISCONNECT_RESP"}
Plain(r) == \A n \in DOMAIN r : r[n].type \in PlainTypes

LEMMA PlainCounts ==
    ASSUME NEW g, NEW r \in Seq(Message), Plain(r), NEW i
    PROVE  Number(r, Toks(g, i)) = 0 /\ Number(r, Dues(g, i)) = 0
<1>1. \A n \in DOMAIN r : r[n].type \notin TokTypes(g) /\ r[n].type \notin DueTypes(g)
  BY DEF Plain, PlainTypes, TokTypes, DueTypes
<1>2. \A n \in DOMAIN r : r[n] \notin Toks(g, i) /\ r[n] \notin Dues(g, i)
  BY <1>1 DEF Toks, Dues
<1> QED  BY <1>2, NumberNone

\* The lines have the program's calls.
Lined(t, l) ==
    \A k \in DOMAIN t.appls : \A j \in DOMAIN t.appls[k].calls :
        l[t.appls[k].calls[j].id].appl = t.appls[k].id

\* In the middle of capi_event: the program was in t0 and is in t.
Run(g, t0, t, s, l) ==
    /\ Inv(g, t, s, l) /\ Open(t) /\ SameFrame(t0, t) /\ Plain(t.ms) /\ Lined(t, l)

LEMMA Begins ==
    ASSUME NEW g, NEW t, NEW s, NEW l, Inv(g, t, s, l), t.ms = <<>>
    PROVE  Run(g, t, t, s, l)
<1>1. Lined(t, l)
  BY DEF Lined, Inv, Fits, Fit
<1> QED  BY <1>1, FrameSelf DEF Run, Open, Plain

\* A call is changed.
Changed(t, k, j, d, r) == [t EXCEPT !.appls[k].calls[j] = d, !.ms = @ \o r]

LEMMA ChangeShape ==
    ASSUME NEW t \in State, NEW k \in DOMAIN t.appls, NEW j \in DOMAIN t.appls[k].calls,
           NEW d \in Call, NEW r \in Seq(Message), d.id = t.appls[k].calls[j].id
    PROVE  /\ Changed(t, k, j, d, r) \in State /\ SameFrame(t, Changed(t, k, j, d, r))
           /\ Changed(t, k, j, d, r).ms = t.ms \o r
           /\ Changed(t, k, j, d, r).appls[k].calls[j] = d
           /\ \A n \in DOMAIN t.appls : \A i \in DOMAIN t.appls[n].calls :
                 n # k \/ i # j => Changed(t, k, j, d, r).appls[n].calls[i] = t.appls[n].calls[i]
<1> DEFINE cs == [t.appls[k].calls EXCEPT ![j] = d]
           a == [t.appls[k] EXCEPT !.calls = cs]
           as == [t.appls EXCEPT ![k] = a]
           t2 == Changed(t, k, j, d, r)
<1>1. /\ t.appls \in Seq(Appl) /\ t.appls[k] \in Appl /\ t.appls[k].calls \in Seq(Call)
      /\ t.ms \in Seq(Message)
  BY StateIn
<1>2. cs \in Seq(Call) /\ DOMAIN cs = DOMAIN t.appls[k].calls
  BY <1>1
<1>3. cs[j] = d /\ \A i \in DOMAIN t.appls[k].calls : i # j => cs[i] = t.appls[k].calls[i]
  BY <1>1
<1> HIDE DEF cs
<1>4. /\ a \in Appl /\ a.id = t.appls[k].id /\ a.fd = t.appls[k].fd /\ a.listen = t.appls[k].listen
      /\ a.active_calls = t.appls[k].active_calls /\ a.calls = cs /\ a.polled = t.appls[k].polled
  BY <1>1, <1>2 DEF Appl
<1> HIDE DEF a
<1>5. as \in Seq(Appl) /\ DOMAIN as = DOMAIN t.appls /\ as[k] = a
      /\ \A n \in DOMAIN t.appls : n # k => as[n] = t.appls[n]
  BY <1>1, <1>4
<1> HIDE DEF as
<1>6. t2 = [t EXCEPT !.appls = as, !.ms = t.ms \o r]
  BY DEF Changed, t2, as, a, cs, State
<1> HIDE DEF t2
<1>7. /\ t2 \in State /\ t2.appls = as /\ t2.ms = t.ms \o r /\ t2.pollfds = t.pollfds
      /\ t2.made = t.made /\ t2.dialled = t.dialled
  <2>1. t.ms \o r \in Seq(Message)
    BY <1>1
  <2> DEFINE q == t.ms \o r
  <2>2. t2 = [t EXCEPT !.appls = as, !.ms = q] /\ q \in Seq(Message)
    BY <1>6, <2>1
  <2> HIDE DEF q
  <2>3. /\ t2 \in State /\ t2.appls = as /\ t2.ms = q /\ t2.pollfds = t.pollfds
        /\ t2.made = t.made /\ t2.dialled = t.dialled
    BY <1>5, <2>2 DEF State
  <2> QED  BY <2>3 DEF q
<1>8. /\ t2.appls[k].calls[j] = d
      /\ \A n \in DOMAIN t.appls : \A i \in DOMAIN t.appls[n].calls :
            n # k \/ i # j => t2.appls[n].calls[i] = t.appls[n].calls[i]
  BY ZenonT(60), <1>3, <1>4, <1>5, <1>7
<1>9. SameFrame(t, t2)
  BY ZenonT(60), <1>2, <1>3, <1>4, <1>5, <1>7 DEF SameFrame
<1> QED  BY <1>7, <1>8, <1>9 DEF t2

LEMMA PutShape ==
    ASSUME NEW t \in State, NEW m \in Message
    PROVE  /\ Put(t, m) \in State /\ SameFrame(t, Put(t, m)) /\ Put(t, m).ms = t.ms \o <<m>>
           /\ Put(t, m).appls = t.appls /\ Put(t, m).pollfds = t.pollfds
           /\ Put(t, m).made = t.made /\ Put(t, m).dialled = t.dialled
<1> DEFINE t2 == Put(t, m)
<1>0. t.ms \in Seq(Message)
  BY StateIn
<1>1. Append(t.ms, m) \in Seq(Message) /\ Append(t.ms, m) = t.ms \o <<m>>
  BY <1>0
<1> DEFINE q == Append(t.ms, m)
<1>2. t2 = [t EXCEPT !.ms = q] /\ q \in Seq(Message)
  BY <1>1 DEF Put
<1> HIDE DEF q, t2
<1>3. /\ t2 \in State /\ t2.appls = t.appls /\ t2.ms = q /\ t2.pollfds = t.pollfds
      /\ t2.made = t.made /\ t2.dialled = t.dialled
  BY <1>2 DEF State
<1>4. SameFrame(t, t2)
  BY <1>3 DEF SameFrame
<1> QED  BY <1>1, <1>3, <1>4 DEF q, t2

\* A message about a call which has its line.
LEMMA PlainAsked ==
    ASSUME NEW g, NEW m \in Message, NEW l, NEW md \in Nat, NEW dl \in Nat,
           m.appl \in 1 .. md, m.id \in 1 .. dl, l[m.id].appl = m.appl, m.type \in PlainTypes,
           m.type = "DATAB3_REQ" => m.b3
    PROVE  Asked(g, m, l, md, dl) /\ m.type # "RELEASE"
<1>1. m.type \notin {"LISTEN_REQ", "RELEASE", "CONNECT_REQ", "CONNECT_RESP", "CONNECTB3_RESP",
                     "CONNECTB3_REQ"}
  BY DEF PlainTypes
<1>2. m.id # 0 /\ m.id \in 0 .. dl
  OBVIOUS
<1> QED  BY <1>1, <1>2 DEF Asked

\* The facts of a run at a call.
LEMMA RunAt ==
    ASSUME NEW g, NEW t0, NEW t, NEW s, NEW l, Run(g, t0, t, s, l)
    PROVE  \A k \in DOMAIN t.appls : \A j \in DOMAIN t.appls[k].calls :
              /\ t.appls[k].calls[j] \in Call /\ t.appls[k].calls[j].id \in CallIds
              /\ t.appls[k].calls[j].id \in 1 .. t.dialled /\ t.appls[k].id \in 1 .. t.made
              /\ t.appls[k].calls[j].NotAcknowledged \in Nat
              /\ CallRight(g, t.appls[k].calls[j], t.dialled)
              /\ l[t.appls[k].calls[j].id].appl = t.appls[k].id
              /\ Fit(g, t.ms, s, l, t.appls[k].id, t.appls[k].calls[j])
<1> SUFFICES ASSUME NEW k \in DOMAIN t.appls, NEW j \in DOMAIN t.appls[k].calls
             PROVE  /\ t.appls[k].calls[j] \in Call /\ t.appls[k].calls[j].id \in CallIds
                    /\ t.appls[k].calls[j].id \in 1 .. t.dialled /\ t.appls[k].id \in 1 .. t.made
                    /\ t.appls[k].calls[j].NotAcknowledged \in Nat
                    /\ CallRight(g, t.appls[k].calls[j], t.dialled)
                    /\ l[t.appls[k].calls[j].id].appl = t.appls[k].id
                    /\ Fit(g, t.ms, s, l, t.appls[k].id, t.appls[k].calls[j])
  OBVIOUS
<1>1. Structured(g, t) /\ Mailed(g, t, s, l) /\ Fits(g, t, s, l) /\ Lined(t, l)
  BY DEF Run, Inv
<1>2. ApplRight(g, t.appls[k], t.made, t.dialled)
  BY <1>1 DEF Structured
<1>3. CallRight(g, t.appls[k].calls[j], t.dialled) /\ t.appls[k].id \in 1 .. t.made
  BY <1>2 DEF ApplRight
<1>4. t.appls[k].calls[j].id \in 1 .. t.dialled
  BY <1>3 DEF CallRight
<1>5. t.appls[k].calls[j] \in Call /\ t.appls[k].calls[j].NotAcknowledged \in Nat
  <2>1. t \in State
    BY <1>1, MailedIn
  <2> QED  BY <2>1, StateIn
<1>6. t.appls[k].calls[j].id \in CallIds
  BY <1>1, <1>4, MailedIn
<1>7. /\ l[t.appls[k].calls[j].id].appl = t.appls[k].id
      /\ Fit(g, t.ms, s, l, t.appls[k].id, t.appls[k].calls[j])
  BY <1>1 DEF Lined, Fits
<1> QED  BY <1>3, <1>4, <1>5, <1>6, <1>7

LEMMA RunIn ==
    ASSUME NEW g, NEW t0, NEW t, NEW s, NEW l, Run(g, t0, t, s, l)
    PROVE  /\ t \in State /\ t.ms \in Seq(Message) /\ Held(s, l) /\ Inv(g, t, s, l) /\ Open(t)
           /\ Structured(g, t) /\ Mailed(g, t, s, l) /\ Fits(g, t, s, l) /\ t.made \in Nat
           /\ t.dialled \in Nat /\ Lined(t, l) /\ Plain(t.ms) /\ SameFrame(t0, t)
           /\ Turns(g, t, s, l)
<1>1. Structured(g, t) /\ Mailed(g, t, s, l) /\ Fits(g, t, s, l) /\ Turns(g, t, s, l)
  BY SMTT(40), SMTT(41), ZenonT(30) DEF Run, Inv
<1> QED  BY <1>1, MailedIn DEF Run

\* The program changes a call to d and puts r about it.
LEMMA Changes ==
    ASSUME NEW g, NEW t0, NEW t, NEW s, NEW l, Run(g, t0, t, s, l),
           NEW k \in DOMAIN t.appls, NEW j \in DOMAIN t.appls[k].calls, NEW c,
           c = t.appls[k].calls[j], NEW d \in Call, d.id = c.id, CallRight(g, d, t.dialled),
           NEW r \in Seq(Message), Plain(r),
           \A n \in DOMAIN r : /\ r[n].id = c.id /\ r[n].appl = t.appls[k].id
                               /\ r[n].type = "DATAB3_REQ" => r[n].b3,
           d.NotAcknowledged = c.NotAcknowledged + Number(r, Typed(c.id, "DATAB3_REQ")),
           \/ Turn(g, t.ms, s, l, c.id) = 0
           \/ d.NotAcknowledged = c.NotAcknowledged /\ (d.doSend => c.doSend)
    PROVE  /\ Run(g, t0, Changed(t, k, j, d, r), s, l)
           /\ Changed(t, k, j, d, r).appls[k].calls[j] = d
           /\ Changed(t, k, j, d, r).ms = t.ms \o r /\ SameFrame(t, Changed(t, k, j, d, r))
           /\ \A n \in DOMAIN t.appls : \A i \in DOMAIN t.appls[n].calls :
                 n # k \/ i # j => Changed(t, k, j, d, r).appls[n].calls[i] = t.appls[n].calls[i]
<1> DEFINE t2 == Changed(t, k, j, d, r)
<1>1. /\ t \in State /\ t.ms \in Seq(Message) /\ Held(s, l) /\ Inv(g, t, s, l) /\ Open(t)
      /\ Structured(g, t) /\ Fits(g, t, s, l) /\ t.made \in Nat /\ t.dialled \in Nat
      /\ Lined(t, l) /\ Plain(t.ms) /\ SameFrame(t0, t)
  BY SMTT(40), SMTT(41), ZenonT(30), RunIn
<1>2. /\ t2 \in State /\ SameFrame(t, t2) /\ t2.ms = t.ms \o r
      /\ t2.appls[k].calls[j] = d
      /\ \A n \in DOMAIN t.appls : \A i \in DOMAIN t.appls[n].calls :
            n # k \/ i # j => t2.appls[n].calls[i] = t.appls[n].calls[i]
  <2>1. d.id = t.appls[k].calls[j].id
    BY SMTT(40), SMTT(41), ZenonT(30)
  <2> QED  BY <1>1, <2>1, ChangeShape
<1> HIDE DEF t2
<1>3. /\ c.id \in CallIds /\ c.id \in 1 .. t.dialled /\ t.appls[k].id \in 1 .. t.made
      /\ c.NotAcknowledged \in Nat /\ l[c.id].appl = t.appls[k].id
      /\ Fit(g, t.ms, s, l, t.appls[k].id, c)
  <2> DEFINE e == t.appls[k].calls[j]
  <2>1. /\ e.id \in CallIds /\ e.id \in 1 .. t.dialled /\ t.appls[k].id \in 1 .. t.made
        /\ e.NotAcknowledged \in Nat /\ l[e.id].appl = t.appls[k].id
        /\ Fit(g, t.ms, s, l, t.appls[k].id, e)
    <3>1. Run(g, t0, t, s, l) /\ k \in DOMAIN t.appls /\ j \in DOMAIN t.appls[k].calls
      OBVIOUS
    <3> QED  BY ONLY <3>1, RunAt
  <2>2. e = c
    BY SMTT(40), SMTT(41), ZenonT(30)
  <2> HIDE DEF e
  <2> QED  BY <2>1, <2>2
<1>4. Structured(g, t2)
  <2>1. ASSUME NEW n \in DOMAIN t.appls, NEW i \in DOMAIN t.appls[n].calls
        PROVE  CallRight(g, t2.appls[n].calls[i], t.dialled)
    <3>1. CallRight(g, t.appls[n].calls[i], t.dialled)
      BY ZenonT(60), RunAt
    <3> QED  BY SMTT(40), SMTT(41), ZenonT(30), <1>2, <3>1
  <2> QED  BY SMTT(40), SMTT(41), ZenonT(30), <1>1, <1>2, <2>1, FrameStructured
<1>5. t2.made = t.made /\ t2.dialled = t.dialled /\ DOMAIN t2.appls = DOMAIN t.appls
      /\ \A n \in DOMAIN t.appls : /\ t2.appls[n].id = t.appls[n].id
                                   /\ DOMAIN t2.appls[n].calls = DOMAIN t.appls[n].calls
  BY SMTT(40), SMTT(41), ZenonT(30), <1>2 DEF SameFrame
<1>6. Askable(g, r, l, t2.made, t2.dialled)
  <2> SUFFICES ASSUME NEW n \in DOMAIN r
               PROVE  Asked(g, r[n], l, t.made, t.dialled) /\ r[n].type # "RELEASE"
    BY <1>5 DEF Askable
  <2>1. r[n] \in Message /\ r[n].type \in PlainTypes
    BY DEF Plain
  <2>2. r[n].id = c.id /\ r[n].appl = t.appls[k].id /\ (r[n].type = "DATAB3_REQ" => r[n].b3)
    OBVIOUS
  <2> QED  BY ZenonT(60), <1>1, <1>3, <2>1, <2>2, PlainAsked
<1>7. ASSUME NEW i \in CallIds
      PROVE  /\ Number(r, Toks(g, i)) = 0
             /\ i # c.id => Number(r, Typed(i, "DATAB3_REQ")) = 0
             /\ Number(r, Typed(i, "DATAB3_REQ")) \in Nat
  <2>1. i # c.id => \A n \in DOMAIN r : r[n] \notin Typed(i, "DATAB3_REQ")
    BY DEF Typed
  <2> QED  BY <2>1, PlainCounts, NumberNone, NumberType
<1>8. ASSUME NEW i \in CallIds
      PROVE  Number(r, Typed(i, "DATAB3_REQ")) = 0 \/ Turn(g, t.ms, s, l, i) = 0
  <2>1. CASE i # c.id
    BY <1>7, <2>1
  <2>2. CASE i = c.id /\ Turn(g, t.ms, s, l, c.id) # 0
    <3>1. Number(r, Typed(c.id, "DATAB3_REQ")) \in Nat
      BY <1>7, <2>2
    <3>2. c.NotAcknowledged = c.NotAcknowledged + Number(r, Typed(c.id, "DATAB3_REQ"))
      BY SMTT(40), SMTT(41), ZenonT(30), <2>2
    <3>3. Number(r, Typed(c.id, "DATAB3_REQ")) = 0
      BY <1>3, <3>1, <3>2
    <3> QED  BY <2>2, <3>3
  <2> QED  BY <2>1, <2>2
<1>9. Fits(g, t2, s, l)
  <2> SUFFICES ASSUME NEW n \in DOMAIN t.appls, NEW i \in DOMAIN t.appls[n].calls
               PROVE  Fit(g, t.ms \o r, s, l, t.appls[n].id, t2.appls[n].calls[i])
    BY <1>2, <1>5 DEF Fits
  <2>1. CASE n = k /\ i = j
    <3>1. Number(r, Toks(g, c.id)) = 0
      BY SMTT(40), SMTT(41), ZenonT(30), <1>3, <1>7
    <3>2. Fit(g, t.ms \o r, s, l, t.appls[k].id, d)
      BY <1>1, <1>3, <3>1, FitKept
    <3> QED  BY SMTT(40), SMTT(41), ZenonT(30), <1>2, <2>1, <3>2
  <2>2. CASE n # k \/ i # j
    <3> DEFINE e == t.appls[n].calls[i]
    <3>1. t2.appls[n].calls[i] = e
      BY SMTT(40), SMTT(41), ZenonT(30), <1>2, <2>2
    <3>2. e.id \in CallIds /\ e.NotAcknowledged \in Nat /\ Fit(g, t.ms, s, l, t.appls[n].id, e)
      BY ZenonT(60), RunAt
    <3>3. e.id # c.id
      BY <1>1, <2>2 DEF Structured, Apart
    <3> HIDE DEF e
    <3>4. Number(r, Toks(g, e.id)) = 0 /\ Number(r, Typed(e.id, "DATAB3_REQ")) = 0
      BY <1>7, <3>2, <3>3
    <3>5. /\ e.NotAcknowledged = e.NotAcknowledged + Number(r, Typed(e.id, "DATAB3_REQ"))
      BY <3>2, <3>4
    <3>6. Fit(g, t.ms \o r, s, l, t.appls[n].id, e)
      BY <1>1, <3>2, <3>4, <3>5, FitKept
    <3> QED  BY SMTT(40), SMTT(41), ZenonT(30), <3>1, <3>6
  <2> QED  BY SMTT(40), SMTT(41), ZenonT(30), <2>1, <2>2
<1>10. Inv(g, t2, s, l) /\ Open(t2)
  <2>1. t.made <= t2.made /\ t.dialled <= t2.dialled
    BY <1>1, <1>5
  <2>2. Puttable(g, t.ms, r, s, l)
    BY <1>7, <1>8 DEF Puttable
  <2>3. t2.ms = t.ms \o r
    BY <1>2
  <2>4. Inv(g, t, s, l) /\ Open(t)
    BY <1>1
  <2> QED  BY <1>4, <1>6, <1>9, <2>1, <2>2, <2>3, <2>4, Extend
<1>11. Plain(t2.ms)
  BY <1>1, <1>2, ConcatOf DEF Plain
<1>12. Lined(t2, l)
  <2> SUFFICES ASSUME NEW n \in DOMAIN t.appls, NEW i \in DOMAIN t.appls[n].calls
               PROVE  l[t2.appls[n].calls[i].id].appl = t2.appls[n].id
    BY SMTT(40), SMTT(41), ZenonT(30), <1>5 DEF Lined
  <2>1. t2.appls[n].calls[i].id = t.appls[n].calls[i].id /\ t2.appls[n].id = t.appls[n].id
    BY SMTT(40), SMTT(41), ZenonT(30), <1>2 DEF SameFrame
  <2>2. l[t.appls[n].calls[i].id].appl = t.appls[n].id
    BY SMTT(40), SMTT(41), ZenonT(30), <1>1 DEF Lined
  <2> QED  BY SMTT(40), SMTT(41), ZenonT(30), <2>1, <2>2
<1>13. SameFrame(t0, t2)
  BY <1>1, <1>2, FrameTwice
<1> QED  BY <1>2, <1>10, <1>11, <1>12, <1>13 DEF Run, t2

\* A call that gets the turn has sent nothing.
LEMMA FitTurn ==
    ASSUME NEW g, NEW q \in Seq(Message), NEW r \in Seq(Message), NEW s, NEW l, Held(s, l),
           NEW a, NEW c, c.id \in CallIds, c.NotAcknowledged \in Nat, Fit(g, q, s, l, a, c),
           Number(r, Typed(c.id, "DATAB3_REQ")) = 0, ~c.doSend, c.NotAcknowledged = 0
    PROVE  Fit(g, q \o r, s, l, a, c)
<1> DEFINE q2 == q \o r
<1>1. /\ Turn(g, q2, s, l, c.id) = Turn(g, q, s, l, c.id) + Number(r, Toks(g, c.id))
      /\ Unread(q2, s, l, c.id) = Unread(q, s, l, c.id) + Number(r, Typed(c.id, "DATAB3_REQ"))
  BY PutCounts
<1>2. Unread(q, s, l, c.id) \in Nat
  BY Counted
<1>3. \A n \in DOMAIN q : n \in DOMAIN q2 /\ q2[n] = q[n]
  BY ConcatOf
<1> HIDE DEF q2
<1>4. l[c.id].appl = a \/ \E n \in DOMAIN q2 : q2[n].type = "CONNECT_REQ" /\ q2[n].id = c.id /\ q2[n].appl = a
  BY <1>3 DEF Fit
<1>5. /\ Unread(q2, s, l, c.id) <= c.NotAcknowledged
      /\ l[c.id].st = "b3up" => Unread(q2, s, l, c.id) = c.NotAcknowledged
  BY <1>1, <1>2 DEF Fit
<1>6. Fit(g, q2, s, l, a, c)
  BY <1>4, <1>5 DEF Fit
<1> QED  BY <1>6 DEF q2

\* Call i may get the turn.
MayGo(g, t, s, l, i) ==
    /\ i \in CallIds /\ Turn(g, t.ms, s, l, i) = 0 /\ Unread(t.ms, s, l, i) = 0
    /\ \A k \in DOMAIN t.appls : \A j \in DOMAIN t.appls[k].calls :
          t.appls[k].calls[j].id = i => /\ ~t.appls[k].calls[j].doSend
                                        /\ t.appls[k].calls[j].NotAcknowledged = 0

\* One message that is no block.
LEMMA PutInv ==
    ASSUME NEW g, NEW t, NEW s, NEW l, Inv(g, t, s, l), Open(t), NEW m \in Message,
           Asked(g, m, l, t.made, t.dialled), m.type # "RELEASE", m.type # "DATAB3_REQ",
           m.type \in TokTypes(g) => MayGo(g, t, s, l, m.id)
    PROVE  Inv(g, Put(t, m), s, l) /\ Open(Put(t, m))
<1> DEFINE r == <<m>>  t2 == Put(t, m)
<1>1. Structured(g, t) /\ Mailed(g, t, s, l) /\ Fits(g, t, s, l)
  BY DEF Inv
<1>2. t \in State /\ t.ms \in Seq(Message) /\ Held(s, l) /\ t.made \in Nat /\ t.dialled \in Nat
  BY <1>1, MailedIn
<1>3. /\ t2 \in State /\ SameFrame(t, t2) /\ t2.ms = t.ms \o r /\ t2.appls = t.appls
      /\ t2.made = t.made /\ t2.dialled = t.dialled
  BY <1>2, PutShape
<1>4. r \in Seq(Message) /\ DOMAIN r = {1} /\ r[1] = m
  OBVIOUS
<1>5. \A T : Number(r, T) = One(m \in T)
  BY NumberOne
<1>6. \A i \in CallIds : /\ Number(r, Typed(i, "DATAB3_REQ")) = 0
                         /\ Number(r, Toks(g, i)) = One(m.id = i /\ m.type \in TokTypes(g))
  <2> SUFFICES ASSUME NEW i \in CallIds
               PROVE  /\ Number(r, Typed(i, "DATAB3_REQ")) = 0
                      /\ Number(r, Toks(g, i)) = One(m.id = i /\ m.type \in TokTypes(g))
    OBVIOUS
  <2>1. m \notin Typed(i, "DATAB3_REQ") /\ (m \in Toks(g, i) <=> m.id = i /\ m.type \in TokTypes(g))
    BY MessageIn
  <2> QED  BY <1>5, <2>1 DEF One
<1> HIDE DEF r, t2
<1>7. Askable(g, r, l, t2.made, t2.dialled)
  BY <1>3, <1>4 DEF Askable
<1>8. Puttable(g, t.ms, r, s, l)
  <2> SUFFICES ASSUME NEW i \in CallIds
               PROVE  \/ Number(r, Toks(g, i)) = 0
                      \/ /\ Number(r, Toks(g, i)) = 1
                         /\ Turn(g, t.ms, s, l, i) = 0 /\ Unread(t.ms, s, l, i) = 0
    BY <1>6 DEF Puttable
  <2> QED  BY <1>6 DEF One, MayGo
<1>9. Structured(g, t2)
  <2>1. \A k \in DOMAIN t.appls : \A j \in DOMAIN t.appls[k].calls :
            CallRight(g, t2.appls[k].calls[j], t.dialled)
    BY <1>1, <1>3 DEF Structured, ApplRight
  <2> QED  BY <1>1, <1>3, <2>1, FrameStructured
<1>10. Fits(g, t2, s, l)
  <2> SUFFICES ASSUME NEW n \in DOMAIN t.appls, NEW i \in DOMAIN t.appls[n].calls
               PROVE  Fit(g, t.ms \o r, s, l, t.appls[n].id, t.appls[n].calls[i])
    BY <1>3 DEF Fits
  <2> DEFINE e == t.appls[n].calls[i]
  <2>1. e.id \in CallIds /\ e.NotAcknowledged \in Nat
    <3>1. e.id \in 1 .. t.dialled
      BY <1>1 DEF Structured, ApplRight, CallRight
    <3>2. e.NotAcknowledged \in Nat
      BY <1>2, StateIn
    <3>3. e.id \in CallIds
      BY <1>1, <3>1, MailedIn
    <3> QED  BY <3>2, <3>3
  <2>2. Fit(g, t.ms, s, l, t.appls[n].id, e)
    BY <1>1 DEF Fits
  <2>3. e.id = m.id /\ m.type \in TokTypes(g) => ~e.doSend /\ e.NotAcknowledged = 0
    BY DEF MayGo
  <2> HIDE DEF e
  <2>4. Number(r, Typed(e.id, "DATAB3_REQ")) = 0
    BY <1>6, <2>1
  <2>5. CASE e.id = m.id /\ m.type \in TokTypes(g)
    <3>1. Fit(g, t.ms \o r, s, l, t.appls[n].id, e)
      BY <1>2, <1>4, <2>1, <2>2, <2>3, <2>4, <2>5, FitTurn
    <3> QED  BY <3>1 DEF e
  <2>6. CASE ~(e.id = m.id /\ m.type \in TokTypes(g))
    <3>1. Number(r, Toks(g, e.id)) = 0
      BY <1>6, <2>1, <2>6 DEF One
    <3>2. e.NotAcknowledged = e.NotAcknowledged + Number(r, Typed(e.id, "DATAB3_REQ"))
      BY <2>1, <2>4
    <3>3. Fit(g, t.ms \o r, s, l, t.appls[n].id, e)
      BY <1>2, <1>4, <2>1, <2>2, <3>1, <3>2, FitKept
    <3> QED  BY <3>3 DEF e
  <2> QED  BY <2>5, <2>6
<1>11. Inv(g, t2, s, l) /\ Open(t2)
  <2>1. t.made <= t2.made /\ t.dialled <= t2.dialled
    BY <1>2, <1>3
  <2> QED  BY <1>3, <1>4, <1>7, <1>8, <1>9, <1>10, <2>1, Extend
<1> QED  BY <1>11 DEF t2

\* A plain message about a call.
LEMMA Says ==
    ASSUME NEW g, NEW t0, NEW t, NEW s, NEW l, Run(g, t0, t, s, l), NEW m \in Message,
           m.type \in PlainTypes, m.type # "DATAB3_REQ", m.appl \in 1 .. t.made,
           m.id \in 1 .. t.dialled, l[m.id].appl = m.appl
    PROVE  /\ Run(g, t0, Put(t, m), s, l) /\ Put(t, m).appls = t.appls
           /\ Put(t, m).ms = t.ms \o <<m>> /\ Put(t, m).dialled = t.dialled
           /\ Put(t, m).made = t.made
           /\ \A i \in CallIds : /\ Turn(g, Put(t, m).ms, s, l, i) = Turn(g, t.ms, s, l, i)
                                 /\ Unread(Put(t, m).ms, s, l, i) = Unread(t.ms, s, l, i)
<1>1. /\ t \in State /\ t.ms \in Seq(Message) /\ Held(s, l) /\ Inv(g, t, s, l) /\ Open(t)
      /\ t.made \in Nat /\ t.dialled \in Nat /\ Lined(t, l) /\ Plain(t.ms) /\ SameFrame(t0, t)
  BY RunIn
<1>2. Asked(g, m, l, t.made, t.dialled) /\ m.type # "RELEASE"
  BY <1>1, PlainAsked
<1>3. m.type \notin TokTypes(g)
  BY DEF PlainTypes, TokTypes
<1>4. Inv(g, Put(t, m), s, l) /\ Open(Put(t, m))
  BY <1>1, <1>2, <1>3, PutInv
<1>5. /\ SameFrame(t, Put(t, m)) /\ Put(t, m).ms = t.ms \o <<m>> /\ Put(t, m).appls = t.appls
      /\ Put(t, m).dialled = t.dialled /\ Put(t, m).made = t.made
  BY <1>1, PutShape
<1>6. <<m>> \in Seq(Message) /\ Plain(<<m>>)
  BY DEF Plain
<1>7. Plain(Put(t, m).ms)
  BY SMTT(40), SMTT(41), ZenonT(30), <1>1, <1>5, <1>6, ConcatOf DEF Plain
<1>8. Lined(Put(t, m), l) /\ SameFrame(t0, Put(t, m))
  BY <1>1, <1>5, FrameTwice DEF Lined
<1>9. ASSUME NEW i \in CallIds
      PROVE  /\ Turn(g, Put(t, m).ms, s, l, i) = Turn(g, t.ms, s, l, i)
             /\ Unread(Put(t, m).ms, s, l, i) = Unread(t.ms, s, l, i)
  <2>1. Number(<<m>>, Toks(g, i)) = 0
    BY <1>6, PlainCounts
  <2>2. Number(<<m>>, Typed(i, "DATAB3_REQ")) = 0
    BY NumberOne DEF Typed, One
  <2> DEFINE r == <<m>>
  <2>0. r \in Seq(Message)
    BY <1>6
  <2> HIDE DEF r
  <2>3. /\ Turn(g, t.ms \o r, s, l, i) = Turn(g, t.ms, s, l, i) + Number(r, Toks(g, i))
        /\ Unread(t.ms \o r, s, l, i) = Unread(t.ms, s, l, i) + Number(r, Typed(i, "DATAB3_REQ"))
    BY <1>1, <2>0, PutCounts
  <2>4. Turn(g, t.ms, s, l, i) \in Nat /\ Unread(t.ms, s, l, i) \in Nat
    BY <1>1, Counted
  <2>5. Number(r, Toks(g, i)) = 0 /\ Number(r, Typed(i, "DATAB3_REQ")) = 0 /\ Put(t, m).ms = t.ms \o r
    BY <1>5, <2>1, <2>2 DEF r
  <2> QED  BY <2>3, <2>4, <2>5
<1> QED  BY <1>4, <1>5, <1>7, <1>8, <1>9 DEF Run

--------------------------------------------------------------------------------
(* capi2_get_message: the program takes the first message to an application *)

\* The first message.
LEMMA HeadPosted ==
    ASSUME NEW g, NEW t, NEW s, NEW l, Structured(g, t), Mailed(g, t, s, l),
           NEW a \in ApplIds, s[a] # <<>>
    PROVE  /\ Head(s[a]) \in Message /\ Posted(g, Head(s[a]), a, l, t.dialled)
           /\ Head(s[a]).appl = a /\ Belongs(Head(s[a]), l)
           /\ Head(s[a]).id # 0 => /\ Head(s[a]).id \in 1 .. t.dialled /\ Head(s[a]).id \in CallIds
                                   /\ l[Head(s[a]).id].appl = a
<1>1. Held(s, l) /\ t.dialled \in Nat /\ \A i \in 1 .. t.dialled : i \in CallIds
  BY MailedIn
<1>2. s[a] \in Seq(Message)
  BY <1>1 DEF Held
<1>3. Head(s[a]) \in Message /\ 1 \in DOMAIN s[a] /\ s[a][1] = Head(s[a])
  BY <1>2, TailOf
<1>4. Posted(g, Head(s[a]), a, l, t.dialled)
  BY <1>3 DEF Mailed
<1>5. Head(s[a]).appl = a /\ Head(s[a]).id \in 0 .. t.dialled
      /\ (Head(s[a]).id # 0 => l[Head(s[a]).id].appl = a)
  BY <1>4 DEF Posted
<1>6. Belongs(Head(s[a]), l)
  BY <1>5, Constants DEF Belongs
<1>7. Head(s[a]).id # 0 => Head(s[a]).id \in 1 .. t.dialled
  BY <1>1, <1>5
<1> QED  BY <1>1, <1>3, <1>4, <1>5, <1>6, <1>7

\* What is under way about a call when the first message is taken.
LEMMA TakeCounts ==
    ASSUME NEW g, NEW q \in Seq(Message), NEW s, NEW l, Held(s, l), NEW a \in ApplIds, s[a] # <<>>,
           Head(s[a]) \in Message, Head(s[a]).appl = a, Belongs(Head(s[a]), l), NEW i \in CallIds
    PROVE  /\ Held(Taken(s, a), l)
           /\ Turn(g, q, s, l, i) = Turn(g, q, Taken(s, a), l, i) + One(Head(s[a]) \in Toks(g, i))
           /\ Unread(q, s, l, i) = Unread(q, Taken(s, a), l, i)
                                   + One(Head(s[a]) \in Typed(i, "DATAB3_CONF"))
           /\ Number(In(s, l, i), Dues(g, i))
                 = One(Head(s[a]) \in Dues(g, i)) + Number(In(Taken(s, a), l, i), Dues(g, i))
           /\ Number(In(s, l, i), Typed(i, "CONNECT_IND"))
                 = One(Head(s[a]) \in Typed(i, "CONNECT_IND"))
                   + Number(In(Taken(s, a), l, i), Typed(i, "CONNECT_IND"))
<1> DEFINE m == Head(s[a])  s2 == Taken(s, a)
<1>1. ASSUME NEW T, AboutCall(T, i)
      PROVE  Held(s2, l) /\ Number(In(s, l, i), T) = One(m \in T) + Number(In(s2, l, i), T)
  BY <1>1, TakeIn
<1>2. \A T : Number(q, T) \in Nat /\ Number(In(s, l, i), T) \in Nat
  BY Counted
<1> HIDE DEF m, s2
<1>3. /\ Number(In(s, l, i), Toks(g, i)) = One(m \in Toks(g, i)) + Number(In(s2, l, i), Toks(g, i))
      /\ Number(In(s, l, i), Dues(g, i)) = One(m \in Dues(g, i)) + Number(In(s2, l, i), Dues(g, i))
      /\ Number(In(s, l, i), Typed(i, "CONNECT_IND"))
            = One(m \in Typed(i, "CONNECT_IND")) + Number(In(s2, l, i), Typed(i, "CONNECT_IND"))
      /\ Number(In(s, l, i), Typed(i, "DATAB3_CONF"))
            = One(m \in Typed(i, "DATAB3_CONF")) + Number(In(s2, l, i), Typed(i, "DATAB3_CONF"))
      /\ Held(s2, l)
  BY <1>1, AboutCalls
<1> DEFINE n1 == Number(q, Toks(g, i))
           n2 == Number(In(s2, l, i), Toks(g, i))
           n3 == One(l[i].st = "dialling")
           n4 == Number(q, Typed(i, "DATAB3_REQ"))
           n5 == l[i].unconf
           n6 == Number(In(s2, l, i), Typed(i, "DATAB3_CONF"))
           n7 == One(m \in Toks(g, i))
           n8 == One(m \in Typed(i, "DATAB3_CONF"))
<1>4. /\ Turn(g, q, s, l, i) = n1 + (n7 + n2) + n3 /\ Turn(g, q, s2, l, i) = n1 + n2 + n3
      /\ Unread(q, s, l, i) = n4 + n5 + (n8 + n6) /\ Unread(q, s2, l, i) = n4 + n5 + n6
  BY <1>3 DEF Turn, Unread
<1>5. n1 \in Nat /\ n2 \in Nat /\ n4 \in Nat /\ n5 \in Nat /\ n6 \in Nat
  <2>1. In(s2, l, i) \in Seq(Message)
    BY <1>3, InType
  <2>2. n2 \in Nat /\ n6 \in Nat
    BY <2>1, NumberType
  <2> QED  BY <1>2, <2>2, Counted
<1>6. n3 \in Nat /\ n7 \in Nat /\ n8 \in Nat
  BY DEF One
<1> HIDE DEF n1, n2, n3, n4, n5, n6, n7, n8
<1>7. /\ Turn(g, q, s, l, i) = Turn(g, q, s2, l, i) + n7
      /\ Unread(q, s, l, i) = Unread(q, s2, l, i) + n8
  BY <1>4, <1>5, <1>6
<1> QED  BY <1>3, <1>7 DEF n7, n8, m, s2

\* Call e has become d, and was told of the block that the message confirms.
LEMMA TakeFit ==
    ASSUME NEW g, NEW q \in Seq(Message), NEW s, NEW l, Held(s, l), NEW a \in ApplIds, s[a] # <<>>,
           Head(s[a]) \in Message, Head(s[a]).appl = a, Belongs(Head(s[a]), l),
           NEW b, NEW e, NEW d, e.id \in CallIds, Fit(g, q, s, l, b, e), e.NotAcknowledged \in Nat,
           d.id = e.id, d.doSend = e.doSend, d.NotAcknowledged \in Int,
           e.NotAcknowledged = d.NotAcknowledged + One(Head(s[a]) \in Typed(e.id, "DATAB3_CONF")),
           Turn(g, q, s, l, e.id) <= 1,
           Turn(g, q, s, l, e.id) = 1 => Unread(q, s, l, e.id) = 0
    PROVE  Fit(g, q, Taken(s, a), l, b, d)
<1> DEFINE m == Head(s[a])  s2 == Taken(s, a)  i == e.id
           n7 == One(m \in Toks(g, i))
           n8 == One(m \in Typed(i, "DATAB3_CONF"))
           n9 == One(m \in Typed(i, "CONNECT_IND"))
<1>1. /\ Held(s2, l)
      /\ Turn(g, q, s, l, i) = Turn(g, q, s2, l, i) + n7
      /\ Unread(q, s, l, i) = Unread(q, s2, l, i) + n8
      /\ Number(In(s, l, i), Typed(i, "CONNECT_IND")) = n9 + Number(In(s2, l, i), Typed(i, "CONNECT_IND"))
  <2>1. /\ q \in Seq(Message) /\ Held(s, l) /\ a \in ApplIds /\ s[a] # <<>> /\ i \in CallIds
        /\ Head(s[a]) \in Message /\ Head(s[a]).appl = a /\ Belongs(Head(s[a]), l)
    OBVIOUS
  <2> HIDE DEF i
  <2> QED  BY ONLY <2>1, TakeCounts DEF n7, n8, n9, m, s2
<1>2. n7 \in {0, 1} /\ n8 \in {0, 1} /\ n9 \in {0, 1}
  BY DEF One
<1>3. e.NotAcknowledged = d.NotAcknowledged + n8
  OBVIOUS
<1> HIDE DEF n7, n8, n9, s2, m
<1>4. /\ Turn(g, q, s2, l, i) \in Nat /\ Unread(q, s2, l, i) \in Nat
      /\ Number(In(s2, l, i), Typed(i, "CONNECT_IND")) \in Nat
  BY <1>1, Counted
<1>5. /\ l[i].appl = b \/ \E n \in DOMAIN q : q[n].type = "CONNECT_REQ" /\ q[n].id = i /\ q[n].appl = b
      /\ Turn(g, q, s, l, i) = 1 => ~e.doSend /\ e.NotAcknowledged = 0
      /\ Unread(q, s, l, i) <= e.NotAcknowledged
      /\ l[i].st = "b3up" => Unread(q, s, l, i) = e.NotAcknowledged
      /\ Number(In(s, l, i), Typed(i, "CONNECT_IND")) = 0
  BY DEF Fit
<1>6. /\ Turn(g, q, s2, l, i) = 1 => ~d.doSend /\ d.NotAcknowledged = 0
      /\ Unread(q, s2, l, i) <= d.NotAcknowledged
      /\ l[i].st = "b3up" => Unread(q, s2, l, i) = d.NotAcknowledged
      /\ Number(In(s2, l, i), Typed(i, "CONNECT_IND")) = 0
  BY SMTT(40), SMTT(41), ZenonT(30), <1>1, <1>2, <1>3, <1>4, <1>5
<1>7. Fit(g, q, s2, l, b, d)
  BY <1>5, <1>6 DEF Fit
<1> QED  BY <1>7 DEF s2

LEMMA TakeMailed ==
    ASSUME NEW g, NEW t, NEW t2, NEW s, NEW l, Structured(g, t), Mailed(g, t, s, l), NEW a \in ApplIds,
           s[a] # <<>>, t2.made = t.made, t2.dialled = t.dialled, t2.ms = t.ms
    PROVE  Mailed(g, t2, Taken(s, a), l)
<1> DEFINE s2 == Taken(s, a)
<1>1. Held(s, l)
  BY MailedIn
<1>2. \A b \in ApplIds : s[b] \in Seq(Message)
  BY <1>1 DEF Held
<1>3. /\ Tail(s[a]) \in Seq(Message)
      /\ \A n \in DOMAIN Tail(s[a]) : n + 1 \in DOMAIN s[a] /\ Tail(s[a])[n] = s[a][n + 1]
  BY <1>2, TailOf
<1>4. s2 \in [ApplIds -> Seq(Message)] /\ s2[a] = Tail(s[a]) /\ \A b \in ApplIds : b # a => s2[b] = s[b]
  BY <1>1, <1>3 DEF Held, Taken
<1> HIDE DEF s2
<1>5. ASSUME NEW b \in ApplIds, NEW n \in DOMAIN s2[b]
      PROVE  Posted(g, s2[b][n], b, l, t.dialled)
  <2>1. CASE b = a
    <3>1. n + 1 \in DOMAIN s[a] /\ s2[b][n] = s[a][n + 1]
      BY <1>3, <1>4, <2>1
    <3>2. Posted(g, s[a][n + 1], a, l, t.dialled)
      BY <3>1 DEF Mailed
    <3> QED  BY <2>1, <3>1, <3>2
  <2>2. CASE b # a
    BY <1>4, <2>2 DEF Mailed
  <2> QED  BY <2>1, <2>2
<1>6. Mailed(g, t2, s2, l)
  BY <1>4, <1>5 DEF Mailed
<1> QED  BY <1>6 DEF s2

\* The program has taken the message, and counted it off if it is a confirmation.
LEMMA TakeCore ==
    ASSUME NEW g, NEW t, NEW t2 \in State, NEW s, NEW l, Inv(g, t, s, l), t.ms = <<>>, t2.ms = <<>>,
           SameFrame(t, t2), NEW a \in ApplIds, s[a] # <<>>,
           \A k \in DOMAIN t.appls : \A j \in DOMAIN t.appls[k].calls :
               /\ CallRight(g, t2.appls[k].calls[j], t.dialled)
               /\ t2.appls[k].calls[j].doSend = t.appls[k].calls[j].doSend
               /\ t2.appls[k].calls[j].NotAcknowledged \in Int
               /\ t.appls[k].calls[j].NotAcknowledged = t2.appls[k].calls[j].NotAcknowledged
                     + One(Head(s[a]) \in Typed(t.appls[k].calls[j].id, "DATAB3_CONF"))
    PROVE  Run(g, t, t2, Taken(s, a), l)
<1> DEFINE s2 == Taken(s, a)
<1>1. /\ Structured(g, t) /\ Mailed(g, t, s, l) /\ Turns(g, t, s, l) /\ Run(g, t, t, s, l)
  BY Begins DEF Inv
<1>2. t \in State /\ t.ms \in Seq(Message) /\ Held(s, l)
  BY <1>1, MailedIn
<1>3. /\ Head(s[a]) \in Message /\ Head(s[a]).appl = a /\ Belongs(Head(s[a]), l)
  BY <1>1, HeadPosted
<1>4. Structured(g, t2)
  BY <1>1, FrameStructured
<1>5. /\ t2.made = t.made /\ t2.dialled = t.dialled /\ DOMAIN t2.appls = DOMAIN t.appls
      /\ \A k \in DOMAIN t.appls :
            /\ t2.appls[k].id = t.appls[k].id /\ DOMAIN t2.appls[k].calls = DOMAIN t.appls[k].calls
            /\ \A j \in DOMAIN t.appls[k].calls : t2.appls[k].calls[j].id = t.appls[k].calls[j].id
  BY DEF SameFrame
<1>6. Mailed(g, t2, s2, l)
  BY <1>1, <1>5, TakeMailed
<1>7. Open(t2) /\ Released(t2) /\ Plain(t2.ms)
  BY DEF Open, Released, Plain
<1>8. Turns(g, t2, s2, l)
  <2> SUFFICES ASSUME NEW i \in CallIds
               PROVE  /\ Turn(g, t.ms, s2, l, i) <= 1
                      /\ Turn(g, t.ms, s2, l, i) = 1 => Unread(t.ms, s2, l, i) = 0
    BY DEF Turns
  <2> DEFINE m == Head(s[a])
             n7 == One(m \in Toks(g, i))
             n8 == One(m \in Typed(i, "DATAB3_CONF"))
  <2>1. /\ Held(s2, l)
        /\ Turn(g, t.ms, s, l, i) = Turn(g, t.ms, s2, l, i) + n7
        /\ Unread(t.ms, s, l, i) = Unread(t.ms, s2, l, i) + n8
    <3>1. /\ t.ms \in Seq(Message) /\ Held(s, l) /\ a \in ApplIds /\ s[a] # <<>> /\ i \in CallIds
          /\ Head(s[a]) \in Message /\ Head(s[a]).appl = a /\ Belongs(Head(s[a]), l)
      BY <1>2, <1>3
    <3> QED  BY ONLY <3>1, TakeCounts DEF n7, n8, m, s2
  <2>2. n7 \in {0, 1} /\ n8 \in {0, 1}
    BY DEF One
  <2> HIDE DEF n7, n8, s2
  <2>3. /\ Turn(g, t.ms, s2, l, i) \in Nat /\ Unread(t.ms, s2, l, i) \in Nat
    BY <1>2, <2>1, Counted
  <2>4. /\ Turn(g, t.ms, s, l, i) <= 1
        /\ Turn(g, t.ms, s, l, i) = 1 => Unread(t.ms, s, l, i) = 0
    BY <1>1 DEF Turns
  <2> QED  BY <2>1, <2>2, <2>3, <2>4
<1>9. Fits(g, t2, s2, l)
  <2> SUFFICES ASSUME NEW k \in DOMAIN t.appls, NEW j \in DOMAIN t.appls[k].calls
               PROVE  Fit(g, t.ms, s2, l, t.appls[k].id, t2.appls[k].calls[j])
    BY <1>5 DEF Fits
  <2> DEFINE e == t.appls[k].calls[j]  d == t2.appls[k].calls[j]
  <2>1. e.id \in CallIds /\ e.NotAcknowledged \in Nat /\ Fit(g, t.ms, s, l, t.appls[k].id, e)
    BY <1>1, RunAt
  <2>2. /\ Turn(g, t.ms, s, l, e.id) <= 1
        /\ Turn(g, t.ms, s, l, e.id) = 1 => Unread(t.ms, s, l, e.id) = 0
    BY <1>1, <2>1 DEF Turns
  <2>3. /\ d.id = e.id /\ d.doSend = e.doSend /\ d.NotAcknowledged \in Int
        /\ e.NotAcknowledged = d.NotAcknowledged + One(Head(s[a]) \in Typed(e.id, "DATAB3_CONF"))
    BY <1>5
  <2> HIDE DEF e, d, s2
  <2>4. Fit(g, t.ms, s2, l, t.appls[k].id, d)
    BY <1>2, <1>3, <2>1, <2>2, <2>3, TakeFit DEF s2
  <2> QED  BY <2>4 DEF d
<1>10. Lined(t2, l)
  <2>1. Lined(t, l)
    BY <1>1 DEF Run
  <2> QED  BY <1>5, <2>1 DEF Lined
<1>11. Inv(g, t2, s2, l)
  BY <1>4, <1>6, <1>7, <1>8, <1>9 DEF Inv
<1> HIDE DEF s2
<1>12. Run(g, t, t2, s2, l)
  BY <1>7, <1>10, <1>11 DEF Run
<1> QED  BY <1>12 DEF s2

\* A message that confirms no block of the program's calls.
NoBlock(t, m) ==
    m.type # "DATAB3_CONF" \/ \A k \in DOMAIN t.appls : \A j \in DOMAIN t.appls[k].calls :
                                 t.appls[k].calls[j].id # m.id

LEMMA TakesFirst ==
    ASSUME NEW g, NEW t, NEW s, NEW l, Inv(g, t, s, l), t.ms = <<>>, NEW a \in ApplIds, s[a] # <<>>,
           NoBlock(t, Head(s[a]))
    PROVE  Run(g, t, t, Taken(s, a), l)
<1>0. Structured(g, t) /\ Mailed(g, t, s, l)
  BY DEF Inv
<1>1. Structured(g, t) /\ Run(g, t, t, s, l) /\ t \in State
  BY <1>0, Begins, MailedIn
<1>2. ASSUME NEW k \in DOMAIN t.appls, NEW j \in DOMAIN t.appls[k].calls
      PROVE  /\ CallRight(g, t.appls[k].calls[j], t.dialled)
             /\ t.appls[k].calls[j].NotAcknowledged \in Int
             /\ t.appls[k].calls[j].NotAcknowledged = t.appls[k].calls[j].NotAcknowledged
                   + One(Head(s[a]) \in Typed(t.appls[k].calls[j].id, "DATAB3_CONF"))
  <2>1. CallRight(g, t.appls[k].calls[j], t.dialled) /\ t.appls[k].calls[j].NotAcknowledged \in Nat
    BY <1>1, RunAt
  <2>2. Head(s[a]) \notin Typed(t.appls[k].calls[j].id, "DATAB3_CONF")
    BY DEF Typed, NoBlock
  <2> QED  BY <2>1, <2>2 DEF One
<1> QED  BY <1>1, <1>2, FrameSelf, TakeCore

\* A call has sent the block that is confirmed.
LEMMA Confirmed ==
    ASSUME NEW g, NEW t, NEW s, NEW l, Inv(g, t, s, l), t.ms = <<>>, NEW a \in ApplIds, s[a] # <<>>,
           Head(s[a]).type = "DATAB3_CONF",
           NEW k \in DOMAIN t.appls, NEW j \in DOMAIN t.appls[k].calls,
           t.appls[k].calls[j].id = Head(s[a]).id
    PROVE  /\ t.appls[k].calls[j].NotAcknowledged - 1 \in Nat /\ t.appls[k].calls[j].b3
           /\ t.appls[k].id = a
           /\ Turn(g, t.ms, Taken(s, a), l, Head(s[a]).id) = 0
<1> DEFINE e == t.appls[k].calls[j]  m == Head(s[a])  i == e.id  s2 == Taken(s, a)
           n7 == One(m \in Toks(g, i))
           n8 == One(m \in Typed(i, "DATAB3_CONF"))
<1>1. /\ Structured(g, t) /\ Mailed(g, t, s, l) /\ Run(g, t, t, s, l) /\ Turns(g, t, s, l)
  BY Begins DEF Inv
<1>2. t.ms \in Seq(Message) /\ Held(s, l)
  BY <1>1, MailedIn
<1>3. /\ m \in Message /\ m.appl = a /\ Belongs(m, l)
  BY SMTT(40), SMTT(41), ZenonT(30), <1>1, HeadPosted
<1>4. /\ e.id \in CallIds /\ e.NotAcknowledged \in Nat /\ Fit(g, t.ms, s, l, t.appls[k].id, e)
      /\ CallRight(g, e, t.dialled) /\ l[e.id].appl = t.appls[k].id
  BY <1>1, RunAt
<1>5. t.appls[k].id = a
  BY <1>3, <1>4 DEF Belongs
<1>6. /\ Held(s2, l)
      /\ Turn(g, t.ms, s, l, i) = Turn(g, t.ms, s2, l, i) + n7
      /\ Unread(t.ms, s, l, i) = Unread(t.ms, s2, l, i) + n8
  <2>1. /\ t.ms \in Seq(Message) /\ Held(s, l) /\ a \in ApplIds /\ s[a] # <<>> /\ i \in CallIds
        /\ Head(s[a]) \in Message /\ Head(s[a]).appl = a /\ Belongs(Head(s[a]), l)
    BY <1>2, <1>3, <1>4
  <2> HIDE DEF i
  <2> QED  BY ONLY <2>1, TakeCounts DEF n7, n8, m, s2
<1>7. n7 \in {0, 1} /\ n8 = 1
  BY <1>3 DEF One, Typed
<1>8. m.id = i
  OBVIOUS
<1> HIDE DEF n7, n8, s2, e, i, m
<1>9. i \in CallIds
  BY <1>4 DEF i
<1>10. /\ Turn(g, t.ms, s2, l, i) \in Nat /\ Unread(t.ms, s2, l, i) \in Nat
  BY <1>2, <1>6, <1>9, Counted
<1>11. /\ Turn(g, t.ms, s, l, i) <= 1
       /\ Turn(g, t.ms, s, l, i) = 1 => Unread(t.ms, s, l, i) = 0
  BY <1>1, <1>9 DEF Turns
<1>12. Unread(t.ms, s, l, i) <= e.NotAcknowledged
  BY <1>4 DEF Fit, i
<1>13. Turn(g, t.ms, s2, l, i) = 0 /\ e.NotAcknowledged - 1 \in Nat
  BY <1>4, <1>6, <1>7, <1>10, <1>11, <1>12
<1>14. e.b3
  BY SMTT(40), SMTT(41), ZenonT(30), <1>4, <1>13 DEF CallRight
<1> QED  BY <1>5, <1>8, <1>13, <1>14 DEF e, s2, m

LEMMA TakesConf ==
    ASSUME NEW g \in Configs, NEW t, NEW s, NEW l, Inv(g, t, s, l), t.ms = <<>>, NEW a \in ApplIds, s[a] # <<>>,
           Head(s[a]).type = "DATAB3_CONF",
           NEW k \in DOMAIN t.appls, NEW j \in DOMAIN t.appls[k].calls,
           t.appls[k].calls[j].id = Head(s[a]).id, NEW d,
           d = [t.appls[k].calls[j] EXCEPT !.NotAcknowledged = @ - 1]
    PROVE  /\ Run(g, t, Changed(t, k, j, d, <<>>), Taken(s, a), l)
           /\ Changed(t, k, j, d, <<>>).appls[k].calls[j] = d
<1> DEFINE e == t.appls[k].calls[j]  t2 == Changed(t, k, j, d, <<>>)
<1>0. Structured(g, t) /\ Mailed(g, t, s, l)
  BY DEF Inv
<1>1. Structured(g, t) /\ Run(g, t, t, s, l) /\ t \in State
  BY <1>0, Begins, MailedIn
<1>2. e.NotAcknowledged - 1 \in Nat /\ e.b3
  BY SMTT(40), SMTT(41), ZenonT(30), Confirmed
<1>3. e \in Call /\ e.NotAcknowledged \in Nat /\ CallRight(g, e, t.dialled) /\ e.id \in CallIds
  BY <1>1, RunAt
<1>4. d = [e EXCEPT !.NotAcknowledged = e.NotAcknowledged - 1]
  BY <1>3 DEF Call
<1>5. e.id = Head(s[a]).id /\ k \in DOMAIN t.appls /\ j \in DOMAIN t.appls[k].calls
  BY SMTT(40), SMTT(41), ZenonT(30)
<1> HIDE DEF e
<1>6. /\ d \in Call /\ d.id = e.id /\ d.doSend = e.doSend /\ d.b3 = e.b3 /\ d.plci = e.plci
      /\ d.active = e.active /\ d.NotAcknowledged = e.NotAcknowledged - 1
  BY <1>2, <1>3, <1>4 DEF Call
<1>7. CallRight(g, d, t.dialled)
  <2>1. d.NotAcknowledged <= Limit(g)
    BY <1>2, <1>3, <1>6, Options DEF CallRight
  <2> QED  BY <1>2, <1>3, <1>6, <2>1 DEF CallRight
<1> DEFINE none == <<>>
<1>8. none \in Seq(Message) /\ t.ms \o none = <<>> /\ t2 = Changed(t, k, j, d, none)
  BY SMTT(40), SMTT(41), ZenonT(30)
<1> HIDE DEF t2, none
<1>9. /\ t2 \in State /\ SameFrame(t, t2) /\ t2.ms = <<>> /\ t2.appls[k].calls[j] = d
      /\ \A n \in DOMAIN t.appls : \A i \in DOMAIN t.appls[n].calls :
            n # k \/ i # j => t2.appls[n].calls[i] = t.appls[n].calls[i]
  <2>1. d.id = t.appls[k].calls[j].id
    BY <1>6 DEF e
  <2>2. /\ t \in State /\ k \in DOMAIN t.appls /\ j \in DOMAIN t.appls[k].calls /\ d \in Call
    BY <1>1, <1>5, <1>6
  <2>3. /\ Changed(t, k, j, d, none) \in State /\ SameFrame(t, Changed(t, k, j, d, none))
        /\ Changed(t, k, j, d, none).ms = t.ms \o none
        /\ Changed(t, k, j, d, none).appls[k].calls[j] = d
        /\ \A n \in DOMAIN t.appls : \A i \in DOMAIN t.appls[n].calls :
              n # k \/ i # j => Changed(t, k, j, d, none).appls[n].calls[i] = t.appls[n].calls[i]
    <3>1. none \in Seq(Message)
      BY <1>8
    <3> QED  BY ONLY <3>1, <2>1, <2>2, ChangeShape
  <2> QED  BY Zenon, <1>8, <2>3
<1>10. ASSUME NEW n \in DOMAIN t.appls, NEW i \in DOMAIN t.appls[n].calls
       PROVE  /\ CallRight(g, t2.appls[n].calls[i], t.dialled)
              /\ t2.appls[n].calls[i].doSend = t.appls[n].calls[i].doSend
              /\ t2.appls[n].calls[i].NotAcknowledged \in Int
              /\ t.appls[n].calls[i].NotAcknowledged = t2.appls[n].calls[i].NotAcknowledged
                    + One(Head(s[a]) \in Typed(t.appls[n].calls[i].id, "DATAB3_CONF"))
  <2>1. CASE n = k /\ i = j
    <3>1. t2.appls[n].calls[i] = d /\ t.appls[n].calls[i] = e
      BY <1>9, <2>1 DEF e
    <3>2. Head(s[a]) \in Message
      BY <1>1, HeadPosted DEF Inv
    <3>3. Head(s[a]) \in Typed(e.id, "DATAB3_CONF")
      BY <1>5, <3>2 DEF Typed
    <3>4. One(Head(s[a]) \in Typed(e.id, "DATAB3_CONF")) = 1
      BY <3>3 DEF One
    <3>5. e.NotAcknowledged = d.NotAcknowledged + 1 /\ d.NotAcknowledged \in Int
      BY <1>2, <1>3, <1>6
    <3> QED  BY <1>6, <1>7, <3>1, <3>4, <3>5
  <2>2. CASE n # k \/ i # j
    <3>1. t2.appls[n].calls[i] = t.appls[n].calls[i]
      BY SMTT(40), SMTT(41), ZenonT(30), <1>9, <2>2
    <3>2. CallRight(g, t.appls[n].calls[i], t.dialled) /\ t.appls[n].calls[i].NotAcknowledged \in Nat
      BY <1>1, RunAt
    <3>3. t.appls[n].calls[i].id # Head(s[a]).id
      BY <1>1, <1>5, <2>2 DEF Structured, Apart, e
    <3>4. One(Head(s[a]) \in Typed(t.appls[n].calls[i].id, "DATAB3_CONF")) = 0
      BY SMTT(40), SMTT(41), ZenonT(30), <3>3 DEF One, Typed
    <3> QED  BY <3>1, <3>2, <3>4
  <2> QED  BY SMTT(40), SMTT(41), ZenonT(30), <2>1, <2>2
<1>11. Run(g, t, t2, Taken(s, a), l)
  BY <1>9, <1>10, TakeCore
<1> QED  BY Zenon, <1>9, <1>11 DEF t2

--------------------------------------------------------------------------------
(* SendData and doDisconnect *)

Senders == [appl : Nat, c : Call, ms : Seq(Message)]

\* x is about the call of r.
Concerns(r, x) ==
    /\ x \in Seq(Message) /\ Plain(x)
    /\ \A n \in DOMAIN x : /\ x[n].id = r.c.id /\ x[n].appl = r.appl
                           /\ x[n].type = "DATAB3_REQ" => x[n].b3

\* r has become r2, up to n blocks have been sent.
SendsBy(r, r2, n, x) ==
    /\ r2 \in Senders /\ r2.appl = r.appl /\ r2.c.id = r.c.id /\ r2.c.b3 = r.c.b3
    /\ r2.c.plci = r.c.plci /\ r2.c.active = r.c.active
    /\ r2.c.doSend => r.c.doSend
    /\ r2.ms = r.ms \o x /\ Concerns(r, x)
    /\ r2.c.NotAcknowledged = r.c.NotAcknowledged + Number(x, Typed(r.c.id, "DATAB3_REQ"))
    /\ r2.c.NotAcknowledged <= r.c.NotAcknowledged + n
Sends(r, r2, n) == \E x \in Seq(Message) : SendsBy(r, r2, n, x)

LEMMA SenderIn ==
    ASSUME NEW r \in Senders
    PROVE  /\ r.appl \in Nat /\ r.c \in Call /\ r.ms \in Seq(Message) /\ r.c.id \in Nat
           /\ r.c.state \in States /\ r.c.b3 \in BOOLEAN /\ r.c.NotAcknowledged \in Nat
           /\ r.c.sentPackets \in Nat
           /\ r = [appl |-> r.appl, c |-> r.c, ms |-> r.ms]
BY DEF Senders, Call

LEMMA SendsNone ==
    ASSUME NEW r \in Senders, NEW r2 \in Senders, r2.appl = r.appl, r2.c.id = r.c.id, r2.c.b3 = r.c.b3,
           r2.c.plci = r.c.plci, r2.c.active = r.c.active, r2.c.doSend => r.c.doSend,
           r2.c.NotAcknowledged = r.c.NotAcknowledged, r2.ms = r.ms
    PROVE  Sends(r, r2, 0)
<1> DEFINE x == <<>>
<1>0. r.ms \in Seq(Message)
  BY SenderIn
<1>1. /\ x \in Seq(Message) /\ DOMAIN x = {} /\ r.ms \o x = r.ms
      /\ \A T : Number(x, T) = 0
  <2>1. \A T : Number(x, T) = 0
    BY NumberOne
  <2> QED  BY <1>0, <2>1
<1> HIDE DEF x
<1>2. r.c.NotAcknowledged \in Nat
  BY SenderIn
<1>3. Concerns(r, x)
  BY <1>1 DEF Concerns, Plain
<1>4. /\ r2.c.NotAcknowledged = r.c.NotAcknowledged + Number(x, Typed(r.c.id, "DATAB3_REQ"))
      /\ r2.c.NotAcknowledged <= r.c.NotAcknowledged + 0
  <2>1. Number(x, Typed(r.c.id, "DATAB3_REQ")) = 0
    BY <1>1
  <2> QED  BY <1>2, <2>1
<1>5. SendsBy(r, r2, 0, x)
  BY <1>1, <1>3, <1>4 DEF SendsBy
<1> QED  BY <1>1, <1>5 DEF Sends

LEMMA SendsOne ==
    ASSUME NEW r \in Senders, NEW r2 \in Senders, r2.appl = r.appl, r2.c.id = r.c.id, r2.c.b3 = r.c.b3,
           r2.c.plci = r.c.plci, r2.c.active = r.c.active, r2.c.doSend => r.c.doSend,
           NEW m \in Message, r2.ms = Append(r.ms, m), m.id = r.c.id, m.appl = r.appl,
           m.type \in PlainTypes, m.type = "DATAB3_REQ" => m.b3,
           r2.c.NotAcknowledged = r.c.NotAcknowledged + One(m.type = "DATAB3_REQ")
    PROVE  Sends(r, r2, One(m.type = "DATAB3_REQ"))
<1> DEFINE x == <<m>>
<1>0. r.ms \in Seq(Message) /\ r.c.NotAcknowledged \in Nat
  BY SenderIn
<1>1. /\ x \in Seq(Message) /\ DOMAIN x = {1} /\ x[1] = m /\ Append(r.ms, m) = r.ms \o x
  BY <1>0
<1>2. Number(x, Typed(r.c.id, "DATAB3_REQ")) = One(m.type = "DATAB3_REQ")
  <2>1. Number(x, Typed(r.c.id, "DATAB3_REQ")) = One(m \in Typed(r.c.id, "DATAB3_REQ"))
    BY NumberOne
  <2>2. m \in Typed(r.c.id, "DATAB3_REQ") <=> m.type = "DATAB3_REQ"
    BY MessageIn
  <2> QED  BY <2>1, <2>2 DEF One
<1> HIDE DEF x
<1>3. Concerns(r, x)
  BY <1>1 DEF Concerns, Plain
<1>4. r2.c.NotAcknowledged <= r.c.NotAcknowledged + One(m.type = "DATAB3_REQ")
  BY <1>0 DEF One
<1>5. SendsBy(r, r2, One(m.type = "DATAB3_REQ"), x)
  BY <1>1, <1>2, <1>3, <1>4 DEF SendsBy
<1> QED  BY <1>1, <1>5 DEF Sends

LEMMA SendsMore ==
    ASSUME NEW r \in Senders, NEW u, NEW v, NEW m \in Nat, NEW n \in Nat, Sends(r, u, m), Sends(u, v, n)
    PROVE  Sends(r, v, m + n)
<1>1. PICK x \in Seq(Message) : SendsBy(r, u, m, x)
  BY DEF Sends
<1>2. PICK y \in Seq(Message) : SendsBy(u, v, n, y)
  BY DEF Sends
<1> DEFINE z == x \o y
<1>3. /\ z \in Seq(Message)
      /\ \A k \in DOMAIN z :
            \/ k \in DOMAIN x /\ z[k] = x[k]
            \/ k - Len(x) \in DOMAIN y /\ z[k] = y[k - Len(x)]
  <2>1. x \in Seq(Message) /\ y \in Seq(Message)
    OBVIOUS
  <2>2. /\ x \o y \in Seq(Message)
        /\ \A k \in DOMAIN (x \o y) :
              \/ k \in DOMAIN x /\ (x \o y)[k] = x[k]
              \/ k - Len(x) \in DOMAIN y /\ (x \o y)[k] = y[k - Len(x)]
    BY ONLY <2>1, ConcatOf
  <2> QED  BY <2>2
<1>4. u \in Senders /\ v \in Senders /\ u.c.id = r.c.id /\ u.appl = r.appl
  BY <1>1, <1>2 DEF SendsBy
<1>5. /\ r.c.NotAcknowledged \in Nat /\ u.c.NotAcknowledged \in Nat /\ v.c.NotAcknowledged \in Nat
      /\ r.ms \in Seq(Message)
  BY <1>4, SenderIn
<1>6. v.ms = r.ms \o z
  <2>1. v.ms = (r.ms \o x) \o y
    BY <1>1, <1>2 DEF SendsBy
  <2>2. (r.ms \o x) \o y = r.ms \o (x \o y)
    <3> DEFINE w == r.ms
    <3>1. w \in Seq(Message) /\ x \in Seq(Message) /\ y \in Seq(Message)
      BY <1>5
    <3> HIDE DEF w
    <3>2. (w \o x) \o y = w \o (x \o y)
      BY SMTT(40), SMTT(41), ZenonT(30), <3>1, ConcatAssociative
    <3> QED  BY <3>2 DEF w
  <2> QED  BY <2>1, <2>2
<1>7. \A T : Number(z, T) = Number(x, T) + Number(y, T) /\ Number(x, T) \in Nat /\ Number(y, T) \in Nat
  BY NumberConcat, NumberType
<1> HIDE DEF z
<1>8. Concerns(r, z)
  <2>1. Concerns(r, x) /\ Concerns(u, y)
    BY <1>1, <1>2 DEF SendsBy
  <2> QED  BY ZenonT(60), <1>3, <1>4, <2>1 DEF Concerns, Plain
<1>9. /\ v.c.NotAcknowledged = r.c.NotAcknowledged + Number(z, Typed(r.c.id, "DATAB3_REQ"))
      /\ v.c.NotAcknowledged <= r.c.NotAcknowledged + (m + n)
  <2> DEFINE nx == Number(x, Typed(r.c.id, "DATAB3_REQ"))  ny == Number(y, Typed(r.c.id, "DATAB3_REQ"))
             nz == Number(z, Typed(r.c.id, "DATAB3_REQ"))
  <2>1. nx \in Nat /\ ny \in Nat /\ nz = nx + ny
    BY <1>7
  <2>2. /\ u.c.NotAcknowledged = r.c.NotAcknowledged + nx
        /\ u.c.NotAcknowledged <= r.c.NotAcknowledged + m
        /\ v.c.NotAcknowledged = u.c.NotAcknowledged + ny
        /\ v.c.NotAcknowledged <= u.c.NotAcknowledged + n
    BY <1>1, <1>2, <1>4 DEF SendsBy
  <2> HIDE DEF nx, ny, nz
  <2>3. v.c.NotAcknowledged = r.c.NotAcknowledged + nz
    BY SMTT(40), SMTT(41), ZenonT(30), <1>5, <2>1, <2>2
  <2>4. v.c.NotAcknowledged <= r.c.NotAcknowledged + (m + n)
    BY SMTT(40), SMTT(41), ZenonT(30), <1>5, <2>2
  <2> QED  BY <2>3, <2>4 DEF nz
<1>10. SendsBy(r, v, m + n, z)
  BY <1>1, <1>2, <1>4, <1>6, <1>8, <1>9 DEF SendsBy
<1> QED  BY <1>3, <1>10 DEF Sends

\* Fewer blocks than allowed.
LEMMA SendsFewer ==
    ASSUME NEW r \in Senders, NEW u, NEW m \in Nat, NEW n \in Nat, m <= n, Sends(r, u, m)
    PROVE  Sends(r, u, n)
<1>1. PICK x \in Seq(Message) : SendsBy(r, u, m, x)
  BY DEF Sends
<1>2. u \in Senders
  BY <1>1 DEF SendsBy
<1>3. r.c.NotAcknowledged \in Nat /\ u.c.NotAcknowledged \in Nat
  BY <1>2, SenderIn
<1>4. u.c.NotAcknowledged <= r.c.NotAcknowledged + n
  BY <1>1, <1>3 DEF SendsBy
<1>5. SendsBy(r, u, n, x)
  BY <1>1, <1>4 DEF SendsBy
<1> QED  BY <1>5 DEF Sends

\* The call of r is changed.
LEMMA SenderSet ==
    ASSUME NEW r \in Senders, NEW d \in Call, NEW q \in Seq(Message)
    PROVE  /\ [r EXCEPT !.c = d, !.ms = q] \in Senders
           /\ [r EXCEPT !.c = d, !.ms = q].appl = r.appl /\ [r EXCEPT !.c = d, !.ms = q].c = d
           /\ [r EXCEPT !.c = d, !.ms = q].ms = q
           /\ [r EXCEPT !.c = d] \in Senders
           /\ [r EXCEPT !.c = d].appl = r.appl /\ [r EXCEPT !.c = d].c = d
           /\ [r EXCEPT !.c = d].ms = r.ms
BY DEF Senders

OfCall(r, type) == Msg(type, r.appl, r.c.id, r.c.b3, 0)
LEMMA AboutIs ==
    ASSUME NEW r \in Senders, NEW type \in Types
    PROVE  /\ OfCall(r, type) \in Message /\ OfCall(r, type).type = type /\ OfCall(r, type).id = r.c.id
           /\ OfCall(r, type).appl = r.appl /\ OfCall(r, type).b3 = r.c.b3
           /\ About(r, type) \in Senders /\ About(r, type).appl = r.appl
           /\ About(r, type).c = r.c /\ About(r, type).ms = Append(r.ms, OfCall(r, type))
<1> DEFINE m == Msg(type, r.appl, r.c.id, r.c.b3, 0)
<1>1. m \in Message /\ m.type = type /\ m.id = r.c.id /\ m.appl = r.appl /\ m.b3 = r.c.b3
  BY SenderIn, MessageIs
<1>2. About(r, type) = [r EXCEPT !.ms = Append(r.ms, m)]
  BY SenderIn DEF About
<1> HIDE DEF m
<1> DEFINE q == Append(r.ms, m)
<1>3. q \in Seq(Message) /\ About(r, type) = [r EXCEPT !.ms = q]
  BY <1>1, <1>2, SenderIn
<1> HIDE DEF q
<1>4. /\ About(r, type) \in Senders /\ About(r, type).appl = r.appl
      /\ About(r, type).c = r.c /\ About(r, type).ms = q
  BY <1>3 DEF Senders
<1> QED  BY <1>1, <1>4 DEF m, q, OfCall

LEMMA Disconnects ==
    ASSUME NEW r \in Senders
    PROVE  Sends(r, DoDisconnect(r), 0) /\ ~DoDisconnect(r).c.doSend
<1> DEFINE d == [r.c EXCEPT !.doSend = FALSE]
           quiet == [r EXCEPT !.c = d]
           u == DoDisconnect(r)
<1>1. /\ r.c \in Call /\ r.ms \in Seq(Message) /\ r.appl \in Nat /\ r.c.id \in Nat
  BY SenderIn
<1>2. /\ d \in Call /\ d.id = r.c.id /\ d.b3 = r.c.b3 /\ d.plci = r.c.plci /\ d.active = r.c.active
      /\ ~d.doSend /\ d.NotAcknowledged = r.c.NotAcknowledged
  BY <1>1 DEF Call
<1>3. [r EXCEPT !.c.doSend = FALSE] = quiet
  BY DEF Senders
<1> HIDE DEF d
<1>4. quiet \in Senders /\ quiet.appl = r.appl /\ quiet.c = d /\ quiet.ms = r.ms
  BY Zenon, <1>1, <1>2, SenderSet
<1> HIDE DEF quiet
<1>5. CASE u = quiet
  BY <1>2, <1>4, <1>5, SendsNone
<1>6. CASE u = About(quiet, "DISCONNECTB3_REQ")
  <2> DEFINE m == OfCall(quiet, "DISCONNECTB3_REQ")
  <2>0. /\ m \in Message /\ m.type = "DISCONNECTB3_REQ" /\ m.id = quiet.c.id /\ m.appl = quiet.appl
        /\ About(quiet, "DISCONNECTB3_REQ") \in Senders
        /\ About(quiet, "DISCONNECTB3_REQ").appl = quiet.appl
        /\ About(quiet, "DISCONNECTB3_REQ").c = quiet.c
        /\ About(quiet, "DISCONNECTB3_REQ").ms = Append(quiet.ms, m)
    <3>1. quiet \in Senders /\ "DISCONNECTB3_REQ" \in Types
      BY <1>4 DEF Types
    <3> QED  BY ONLY <3>1, AboutIs DEF m
  <2>1. /\ m \in Message /\ m.type = "DISCONNECTB3_REQ" /\ m.id = r.c.id /\ m.appl = r.appl
        /\ u \in Senders /\ u.appl = r.appl /\ u.c = d /\ u.ms = Append(r.ms, m)
    <3> HIDE DEF m, u
    <3> QED  BY <1>2, <1>4, <1>6, <2>0
  <2> HIDE DEF m, u
  <2>2. m.type \in PlainTypes /\ ~(m.type = "DATAB3_REQ") /\ One(m.type = "DATAB3_REQ") = 0
    BY <2>1 DEF PlainTypes, One
  <2>3. u.c.NotAcknowledged = r.c.NotAcknowledged + One(m.type = "DATAB3_REQ")
    BY <1>2, <2>1, <2>2, SenderIn
  <2>4. Sends(r, u, One(m.type = "DATAB3_REQ"))
    BY <1>2, <2>1, <2>2, <2>3, SendsOne
  <2> QED  BY <1>2, <2>1, <2>2, <2>4 DEF u
<1>7. CASE /\ r.c.state \in {"D_ConnectPending", "B_DisconnectPending"}
           /\ u # quiet /\ u # About(quiet, "DISCONNECTB3_REQ")
  <2> DEFINE e == [d EXCEPT !.state = "D_DisconnectPending"]
             m == Msg("DISCONNECT_REQ", r.appl, r.c.id, FALSE, 0)
             q == Append(r.ms, m)
  <2>1. m \in Message /\ m.type = "DISCONNECT_REQ" /\ m.id = r.c.id /\ m.appl = r.appl
    <3>1. /\ "DISCONNECT_REQ" \in Types /\ r.appl \in Nat /\ r.c.id \in Nat /\ FALSE \in BOOLEAN
          /\ 0 \in Nat
      BY <1>1 DEF Types
    <3> QED  BY ONLY <3>1 DEF m, Msg, Message
  <2> HIDE DEF m
  <2>2. q \in Seq(Message) /\ q = Append(r.ms, m)
    BY <1>1, <2>1
  <2> HIDE DEF q
  <2>3. /\ e \in Call /\ e.id = r.c.id /\ e.b3 = r.c.b3 /\ e.plci = r.c.plci /\ e.active = r.c.active
        /\ ~e.doSend /\ e.NotAcknowledged = r.c.NotAcknowledged
    BY <1>2 DEF Call, States
  <2>4. u = [quiet EXCEPT !.c = e, !.ms = q]
    <3>1. r.c.state \notin {"B_ConnectPending", "Connected"}
      BY <1>7
    <3>2. u = LET plci == [quiet EXCEPT !.c.state = "D_DisconnectPending"]
              IN  [plci EXCEPT !.ms = Append(@, m)]
      BY <1>3, <1>7, <3>1 DEF DoDisconnect, m
    <3>3. [quiet EXCEPT !.c.state = "D_DisconnectPending"] = [quiet EXCEPT !.c = e]
      BY <1>4 DEF Senders
    <3>4. [quiet EXCEPT !.c = e] \in Senders /\ [quiet EXCEPT !.c = e].ms = r.ms
      BY Zenon, <1>1, <1>4, <2>3, SenderSet
    <3>5. u = [[quiet EXCEPT !.c = e] EXCEPT !.ms = q]
      BY <2>2, <3>2, <3>3, <3>4
    <3> HIDE DEF u, e
    <3> QED  BY <1>4, <3>5 DEF Senders
  <2> HIDE DEF e, u
  <2>5. u \in Senders /\ u.appl = r.appl /\ u.c = e /\ u.ms = Append(r.ms, m)
    BY ZenonT(60), <1>4, <2>2, <2>3, <2>4, SenderSet
  <2>6. m.type \in PlainTypes /\ ~(m.type = "DATAB3_REQ") /\ One(m.type = "DATAB3_REQ") = 0
    BY <2>1 DEF PlainTypes, One
  <2>7. u.c.NotAcknowledged = r.c.NotAcknowledged + One(m.type = "DATAB3_REQ")
    BY <2>3, <2>5, <2>6, SenderIn
  <2>8. Sends(r, u, One(m.type = "DATAB3_REQ"))
    BY <2>1, <2>3, <2>5, <2>6, <2>7, SendsOne
  <2> QED  BY <2>3, <2>5, <2>6, <2>8 DEF u
<1>8. \/ u = quiet
      \/ u = About(quiet, "DISCONNECTB3_REQ")
      \/ r.c.state \in {"D_ConnectPending", "B_DisconnectPending"}
  BY <1>3 DEF DoDisconnect
<1> QED  BY <1>5, <1>6, <1>7, <1>8

LEMMA Blocks ==
    ASSUME cfg \in Configs, NEW r \in Senders, r.c.b3
    PROVE  Sends(r, Block(r), 1)
<1> DEFINE d == [r.c EXCEPT !.NotAcknowledged = @ + 1,
                            !.sentPackets = Min({@ + 1, cfg.maxSentPackets})]
           v == [r EXCEPT !.c = d]
           u == Block(r)
           m == OfCall(v, "DATAB3_REQ")
<1>1. /\ r.c \in Call /\ r.ms \in Seq(Message) /\ r.appl \in Nat /\ r.c.sentPackets \in Nat
      /\ r.c.NotAcknowledged \in Nat
  BY SenderIn
<1>2. Min({r.c.sentPackets + 1, cfg.maxSentPackets}) \in Nat
  <2> DEFINE S == {r.c.sentPackets + 1, cfg.maxSentPackets}
  <2>1. S \subseteq Nat /\ S # {}
    BY <1>1, Options
  <2> HIDE DEF S
  <2>2. \E x \in S : \A y \in S : x <= y
    BY <2>1, Least
  <2>3. Min(S) \in S
    BY <2>2 DEF Min
  <2> QED  BY <2>1, <2>3 DEF S
<1> DEFINE n == Min({r.c.sentPackets + 1, cfg.maxSentPackets})
<1>3. n \in Nat /\ d = [r.c EXCEPT !.NotAcknowledged = r.c.NotAcknowledged + 1, !.sentPackets = n]
  BY <1>1, <1>2 DEF Call
<1> HIDE DEF n
<1> DEFINE k == r.c.NotAcknowledged + 1
<1>k. k \in Nat /\ d = [r.c EXCEPT !.NotAcknowledged = k, !.sentPackets = n] /\ r.c \in Call
  BY <1>1, <1>3
<1> HIDE DEF k
<1>4. /\ d \in Call /\ d.id = r.c.id /\ d.b3 = r.c.b3 /\ d.plci = r.c.plci /\ d.active = r.c.active
      /\ d.doSend = r.c.doSend /\ d.NotAcknowledged = r.c.NotAcknowledged + 1
  <2> HIDE DEF d
  <2>1. n \in Nat
    BY <1>3
  <2> DEFINE c == r.c
  <2>2. c \in Call /\ d = [c EXCEPT !.NotAcknowledged = k, !.sentPackets = n]
    BY <1>k
  <2> HIDE DEF c
  <2>3. /\ d \in Call /\ d.id = c.id /\ d.b3 = c.b3 /\ d.plci = c.plci /\ d.active = c.active
        /\ d.doSend = c.doSend /\ d.NotAcknowledged = k
    BY ONLY <2>1, <1>k, <2>2 DEF Call
  <2> QED  BY <2>3 DEF c, k
<1>5. u = About(v, "DATAB3_REQ")
  BY DEF Block, Senders
<1> HIDE DEF d, u
<1>6. v \in Senders /\ v.appl = r.appl /\ v.c = d /\ v.ms = r.ms
  BY Zenon, <1>1, <1>4, SenderSet
<1> HIDE DEF v
<1>7. /\ m \in Message /\ m.type = "DATAB3_REQ" /\ m.id = r.c.id /\ m.appl = r.appl /\ m.b3 = r.c.b3
      /\ u \in Senders /\ u.appl = r.appl /\ u.c = d /\ u.ms = Append(r.ms, m)
  <2> HIDE DEF u
  <2>0. /\ m \in Message /\ m.type = "DATAB3_REQ" /\ m.id = v.c.id /\ m.appl = v.appl /\ m.b3 = v.c.b3
        /\ About(v, "DATAB3_REQ") \in Senders
        /\ About(v, "DATAB3_REQ").appl = v.appl
        /\ About(v, "DATAB3_REQ").c = v.c
        /\ About(v, "DATAB3_REQ").ms = Append(v.ms, m)
    <3>1. v \in Senders /\ "DATAB3_REQ" \in Types
      BY <1>6 DEF Types
    <3> QED  BY ONLY <3>1, AboutIs DEF m
  <2> HIDE DEF m
  <2> QED  BY <1>4, <1>5, <1>6, <2>0
<1> HIDE DEF m
<1>8. m.type \in PlainTypes /\ m.b3 /\ One(m.type = "DATAB3_REQ") = 1
  BY <1>7 DEF PlainTypes, One
<1>9. u.c.NotAcknowledged = r.c.NotAcknowledged + One(m.type = "DATAB3_REQ")
  BY <1>4, <1>7, <1>8
<1>10. Sends(r, u, One(m.type = "DATAB3_REQ"))
  BY <1>4, <1>7, <1>8, <1>9, SendsOne
<1> QED  BY <1>8, <1>10 DEF u

LEMMA SendsData ==
    ASSUME cfg \in Configs, NEW r \in Senders, r.c.doSend => r.c.b3
    PROVE  Sends(r, SendData(r), 1)
<1> DEFINE v == SendData(r)
<1>1. v = r \/ (r.c.doSend /\ (v = Block(DoDisconnect(r)) \/ v = Block(r)))
  BY DEF SendData
<1> HIDE DEF v
<1>2. CASE v = r
  <2>1. Sends(r, v, 0)
    BY <1>2, SendsNone
  <2> QED  BY <2>1, SendsFewer DEF v
<1>3. CASE r.c.doSend /\ v = Block(r)
  BY <1>3, Blocks DEF v
<1>4. CASE r.c.doSend /\ v = Block(DoDisconnect(r))
  <2> DEFINE u == DoDisconnect(r)
  <2>1. Sends(r, u, 0)
    BY Disconnects
  <2> HIDE DEF u
  <2>2. u \in Senders /\ u.c.b3 = r.c.b3
    BY <2>1 DEF Sends, SendsBy
  <2>3. Sends(u, Block(u), 1)
    BY <1>4, <2>2, Blocks
  <2>4. Sends(r, Block(u), 0 + 1)
    BY <2>1, <2>3, SendsMore
  <2>5. 0 + 1 = 1
    OBVIOUS
  <2> QED  BY <1>4, <2>4, <2>5 DEF u, v
<1> QED  BY <1>1, <1>2, <1>3, <1>4

\* The loop of handleConnectB3ActiveInd up to its n-th pass: a function that has a
\* value for each pass.
Loop(h, r, n) == h = [k \in 0 .. n |-> IF k = 0 THEN r ELSE SendData(h[k - 1])]

LEMMA LoopExists ==
    ASSUME NEW r, NEW n \in Nat
    PROVE  \E h : Loop(h, r, n)
<1> DEFINE Bad == {k \in Nat : ~ \E h : Loop(h, r, k)}
<1>1. 0 \notin Bad
  <2> DEFINE h == [k \in 0 .. 0 |-> r]
  <2>1. Loop(h, r, 0)
    BY DEF Loop
  <2> QED  BY <2>1
<1>2. ASSUME NEW k \in Nat, NEW h, Loop(h, r, k)
      PROVE  \E g : Loop(g, r, k + 1)
  <2> DEFINE g == [j \in 0 .. k + 1 |-> IF j = k + 1 THEN SendData(h[k]) ELSE h[j]]
  <2>1. ASSUME NEW j \in 0 .. k + 1
        PROVE  g[j] = IF j = 0 THEN r ELSE SendData(g[j - 1])
    <3>1. CASE j = 0
      BY <1>2, <3>1 DEF Loop
    <3>2. CASE j \in 1 .. k
      <4>1. g[j] = h[j] /\ g[j - 1] = h[j - 1] /\ j \in 0 .. k /\ j # 0
        BY <3>2
      <4>2. h[j] = SendData(h[j - 1])
        BY <1>2, <4>1 DEF Loop
      <4> QED  BY <4>1, <4>2
    <3>3. CASE j = k + 1
      <4>1. g[j] = SendData(h[k]) /\ g[j - 1] = h[k] /\ j # 0
        BY <3>3
      <4> QED  BY <4>1
    <3> QED  BY <3>1, <3>2, <3>3
  <2>2. g = [j \in 0 .. k + 1 |-> g[j]]
    OBVIOUS
  <2> HIDE DEF g
  <2>3. g = [j \in 0 .. k + 1 |-> IF j = 0 THEN r ELSE SendData(g[j - 1])]
    BY <2>1, <2>2, Zenon
  <2>4. Loop(g, r, k + 1)
    BY <2>3 DEF Loop
  <2> QED  BY <2>4
<1>3. Bad = {}
  <2>1. ASSUME Bad # {}  PROVE FALSE
    <3>1. PICK k \in Bad : \A j \in Bad : k <= j
      BY <2>1, Least
    <3>2. k - 1 \in Nat /\ k - 1 \notin Bad /\ k = (k - 1) + 1
      BY <1>1, <3>1
    <3>3. \E h : Loop(h, r, k - 1)
      BY <3>2
    <3>4. \E g : Loop(g, r, (k - 1) + 1)
      BY <1>2, <3>2, <3>3
    <3> QED  BY <3>1, <3>2, <3>4
  <2> QED  BY <2>1
<1> QED  BY <1>3

LEMMA LoopSends ==
    ASSUME cfg \in Configs, NEW r \in Senders, r.c.doSend => r.c.b3, NEW n \in Nat, NEW h, Loop(h, r, n)
    PROVE  Sends(r, h[n], n)
<1> DEFINE Bad == {k \in 0 .. n : ~Sends(r, h[k], k)}
<1>1. 0 \notin Bad
  <2>1. h[0] = r
    BY DEF Loop
  <2>2. Sends(r, h[0], 0)
    BY <2>1, SendsNone
  <2> QED  BY <2>2
<1>2. ASSUME NEW k \in Nat, k + 1 \in 0 .. n, Sends(r, h[k], k)
      PROVE  Sends(r, h[k + 1], k + 1)
  <2>1. h[k + 1] = SendData(h[(k + 1) - 1])
    BY <1>2 DEF Loop
  <2>2. h[k + 1] = SendData(h[k])
    <3>1. (k + 1) - 1 = k
      OBVIOUS
    <3> QED  BY <2>1, <3>1
  <2>3. h[k] \in Senders /\ (h[k].c.doSend => h[k].c.b3)
    BY <1>2 DEF Sends, SendsBy
  <2>4. Sends(h[k], h[k + 1], 1)
    BY <2>2, <2>3, SendsData
  <2> QED  BY <1>2, <2>4, SendsMore
<1>3. Bad = {}
  <2>1. ASSUME Bad # {}  PROVE FALSE
    <3>0. Bad \subseteq Nat
      OBVIOUS
    <3>1. PICK k \in Bad : \A j \in Bad : k <= j
      <4> HIDE DEF Bad
      <4> QED  BY <2>1, <3>0, Least
    <3>2. k - 1 \in Nat /\ k - 1 \in 0 .. n /\ k - 1 \notin Bad /\ k = (k - 1) + 1 /\ k \in 0 .. n
      BY <1>1, <3>1
    <3>3. Sends(r, h[k - 1], k - 1)
      BY <3>2
    <3>4. Sends(r, h[(k - 1) + 1], (k - 1) + 1)
      BY <1>2, <3>2, <3>3
    <3>5. Sends(r, h[k], k)
      BY <3>2, <3>4
    <3> QED  BY <3>1, <3>5
  <2> QED  BY <2>1
<1> QED  BY <1>3

\* handleConnectB3ActiveInd sends a window at most.
LEMMA Fills ==
    ASSUME cfg \in Configs, NEW r \in Senders, r.c.doSend => r.c.b3
    PROVE  Sends(r, Fill(r), Limit(cfg))
<1> DEFINE g == CHOOSE h : h = [n \in 0 .. Window |-> IF n = 0 THEN r ELSE SendData(h[n - 1])]
<1>1. Fill(r) = g[Window]
  BY DEF Fill
<1>2. Window = Limit(cfg) /\ Window \in Nat
  BY Options DEF Window, Limit
<1>3. \E h : h = [n \in 0 .. Window |-> IF n = 0 THEN r ELSE SendData(h[n - 1])]
  <2>1. \E h : Loop(h, r, Window)
    BY <1>2, LoopExists
  <2> QED  BY <2>1 DEF Loop
<1>4. Loop(g, r, Window)
  BY <1>3 DEF Loop
<1> HIDE DEF g
<1>5. Sends(r, g[Window], Window)
  BY <1>2, <1>4, LoopSends
<1> QED  BY <1>1, <1>2, <1>5

--------------------------------------------------------------------------------
(* The rest of the invariant *)

\* Nothing is said about who listens.
Unasked(q) == \A n \in DOMAIN q : q[n].type # "LISTEN_REQ"

LEMMA HeardKept ==
    ASSUME NEW g, NEW t, NEW t2, NEW ls, Heard(g, t, ls), t.ms = <<>>, SameFrame(t, t2), Unasked(t2.ms)
    PROVE  Heard(g, t2, ls)
<1> SUFFICES ASSUME NEW k \in DOMAIN t.appls, t2.appls[k].listen
             PROVE  /\ g.recv /\ t2.appls[k].active_calls < g.callperappl
                    /\ \A n \in DOMAIN t2.ms : ~Asks(t2.ms[n], t2.appls[k].id, 0)
                    /\ t2.appls[k].id \in ls
  BY DEF Heard, SameFrame
<1>1. /\ t2.appls[k].listen = t.appls[k].listen /\ t2.appls[k].id = t.appls[k].id
      /\ t2.appls[k].active_calls = t.appls[k].active_calls
  BY DEF SameFrame
<1>2. g.recv /\ t.appls[k].active_calls < g.callperappl /\ t.appls[k].id \in ls
  BY <1>1 DEF Heard
<1>3. \A n \in DOMAIN t2.ms : ~Asks(t2.ms[n], t2.appls[k].id, 0)
  BY DEF Unasked, Asks
<1> QED  BY <1>1, <1>2, <1>3

LEMMA ListenedKept ==
    ASSUME NEW g, NEW t \in State, NEW t2 \in State, SameFrame(t, t2)
    PROVE  /\ t.appls # <<>> <=> t2.appls # <<>>
           /\ Listened(g, t) => Listened(g, t2)
<1>1. t.appls \in Seq(Appl) /\ t2.appls \in Seq(Appl) /\ DOMAIN t.appls = DOMAIN t2.appls
  BY StateIn DEF SameFrame
<1>2. \A q \in Seq(Appl) : q # <<>> <=> DOMAIN q # {}
  OBVIOUS
<1>3. t.appls # <<>> <=> t2.appls # <<>>
  BY <1>1, <1>2
<1> QED  BY <1>3 DEF Listened, SameFrame

LEMMA ChainKept ==
    ASSUME NEW g, NEW t, NEW t2, NEW s, NEW s2, NEW l, NEW l2, Chain(g, t, s, l), SameFrame(t, t2),
           \A k \in DOMAIN t.appls : \A j \in DOMAIN t.appls[k].calls : t.appls[k].calls[j].id \in CallIds,
           \A i \in CallIds : Turn(g, t2.ms, s2, l2, i) = 1 => Turn(g, t.ms, s, l, i) = 1
    PROVE  Chain(g, t2, s2, l2)
<1>1. Numbers(t2.appls) = Numbers(t.appls)
  BY DEF Numbers, SameFrame
<1>2. ASSUME NEW k \in DOMAIN t2.appls, NEW j \in DOMAIN t2.appls[k].calls,
             Turn(g, t2.ms, s2, l2, t2.appls[k].calls[j].id) = 1
      PROVE  /\ k = 1 /\ t2.appls[k].calls[j].id = t2.dialled
             /\ \A n \in DOMAIN t2.appls : n # 1 => t2.appls[n].active_calls >= g.callperappl
  <2>1. /\ k \in DOMAIN t.appls /\ j \in DOMAIN t.appls[k].calls /\ t2.dialled = t.dialled
        /\ t2.appls[k].calls[j].id = t.appls[k].calls[j].id /\ DOMAIN t2.appls = DOMAIN t.appls
        /\ \A n \in DOMAIN t.appls : t2.appls[n].active_calls = t.appls[n].active_calls
    BY DEF SameFrame
  <2>2. Turn(g, t.ms, s, l, t.appls[k].calls[j].id) = 1
    BY <1>2, <2>1
  <2>3. /\ k = 1 /\ t.appls[k].calls[j].id = t.dialled
        /\ \A n \in DOMAIN t.appls : n # 1 => t.appls[n].active_calls >= g.callperappl
    BY <2>1, <2>2 DEF Chain
  <2> QED  BY <2>1, <2>3
<1> QED  BY <1>1, <1>2 DEF Chain

LEMMA DueType ==
    ASSUME NEW g, NEW q, NEW s, NEW l
    PROVE  /\ Due(g, q, s, l) \in SUBSET CallIds /\ IsFiniteSet(Due(g, q, s, l))
           /\ Cardinality(Due(g, q, s, l)) \in Nat
           /\ \A D \in SUBSET Due(g, q, s, l) :
                 IsFiniteSet(D) /\ Cardinality(D) \in Nat /\ Cardinality(D) <= Cardinality(Due(g, q, s, l))
<1>1. Due(g, q, s, l) \in SUBSET CallIds
  BY DEF Due
<1>2. IsFiniteSet(CallIds)
  <2>1. 1 \in Int /\ MaxCalls + MaxSignals + 1 \in Int
    BY Constants
  <2> QED  BY <2>1, Constants, FS_Interval
<1>3. IsFiniteSet(Due(g, q, s, l))
  BY <1>1, <1>2, FS_Subset
<1> QED  BY <1>1, <1>3, FS_Subset, FS_CardinalityType

LEMMA BoundedKept ==
    ASSUME NEW g, NEW t, NEW t2, NEW s, NEW s2, NEW l, NEW l2, NEW an, NEW sg,
           Bounded(g, t, s, l, an, sg), t2.made = t.made, t2.dialled = t.dialled, t.made \in Nat,
           t.dialled \in Nat, an \in Nat, sg \in Nat, Due(g, t2.ms, s2, l2) \in SUBSET Due(g, t.ms, s, l)
    PROVE  Bounded(g, t2, s2, l2, an, sg)
<1> DEFINE d == Cardinality(Due(g, t.ms, s, l))  d2 == Cardinality(Due(g, t2.ms, s2, l2))
<1>1. d \in Nat /\ d2 \in Nat /\ d2 <= d
  BY DueType
<1>2. /\ an <= g.answers /\ sg <= g.signals
      /\ g.recv => t.dialled = an /\ t.made + d <= 1 + t.dialled
      /\ ~g.recv => /\ t.dialled + d <= 1 + sg + an /\ t.made <= 1 + t.dialled
                    /\ g.MaxActivCalls = 0 => t.dialled = 0
  BY DEF Bounded
<1> HIDE DEF d, d2
<1>3. /\ an <= g.answers /\ sg <= g.signals
      /\ g.recv => t2.dialled = an /\ t2.made + d2 <= 1 + t2.dialled
      /\ ~g.recv => /\ t2.dialled + d2 <= 1 + sg + an /\ t2.made <= 1 + t2.dialled
                    /\ g.MaxActivCalls = 0 => t2.dialled = 0
  BY <1>1, <1>2
<1> QED  BY <1>3 DEF Bounded, d2

\* What the program puts that is no turn is not due either.
LEMMA DuesToks ==
    ASSUME NEW g, g.recv \in BOOLEAN, NEW i
    PROVE  Dues(g, i) \subseteq Toks(g, i) /\ Typed(i, "CONNECT_IND") \subseteq Toks(g, i)
<1>1. DueTypes(g) \subseteq TokTypes(g) /\ "CONNECT_IND" \in TokTypes(g)
  BY DEF DueTypes, TokTypes
<1> QED  BY <1>1 DEF Dues, Toks, Typed

LEMMA PutDue ==
    ASSUME NEW g, NEW q \in Seq(Message), NEW r \in Seq(Message), NEW s, NEW l, Held(s, l),
           \A i \in CallIds : Number(r, Dues(g, i)) = 0
    PROVE  Due(g, q \o r, s, l) = Due(g, q, s, l)
<1>1. ASSUME NEW i \in CallIds
      PROVE  Number(q \o r, Dues(g, i)) = Number(q, Dues(g, i))
  <2>1. Number(q \o r, Dues(g, i)) = Number(q, Dues(g, i)) + Number(r, Dues(g, i))
    BY NumberConcat
  <2>2. Number(q, Dues(g, i)) \in Nat
    BY NumberType
  <2> QED  BY <2>1, <2>2
<1> QED  BY <1>1 DEF Due

LEMMA TakeDue ==
    ASSUME NEW g, g.recv \in BOOLEAN, NEW t, NEW s, NEW l, Structured(g, t), Mailed(g, t, s, l),
           Turns(g, t, s, l), NEW a \in ApplIds, s[a] # <<>>
    PROVE  /\ Due(g, t.ms, Taken(s, a), l) \in SUBSET Due(g, t.ms, s, l)
           /\ Head(s[a]).id # 0 /\ Head(s[a]).type \in DueTypes(g) =>
                 /\ Head(s[a]).id \in Due(g, t.ms, s, l)
                 /\ Head(s[a]).id \notin Due(g, t.ms, Taken(s, a), l)
<1> DEFINE m == Head(s[a])  s2 == Taken(s, a)
<1>1. /\ m \in Message /\ m.appl = a /\ Belongs(m, l)
      /\ (m.id # 0 => m.id \in CallIds)
  BY HeadPosted
<1>2. t.ms \in Seq(Message) /\ Held(s, l)
  BY MailedIn
<1>3. \A i \in CallIds :
         /\ Held(s2, l)
         /\ Turn(g, t.ms, s, l, i) = Turn(g, t.ms, s2, l, i) + One(m \in Toks(g, i))
         /\ Number(In(s, l, i), Dues(g, i)) = One(m \in Dues(g, i)) + Number(In(s2, l, i), Dues(g, i))
  BY <1>1, <1>2, TakeCounts
<1>4. ASSUME NEW i \in CallIds
      PROVE  /\ Number(In(s2, l, i), Dues(g, i)) \in Nat /\ Number(t.ms, Dues(g, i)) \in Nat
             /\ One(m \in Dues(g, i)) \in {0, 1} /\ (m \in Dues(g, i) => One(m \in Dues(g, i)) = 1)
  <2>1. Held(s2, l)
    BY <1>3
  <2> HIDE DEF s2, m
  <2>2. In(s2, l, i) \in Seq(Message)
    BY <2>1, InType
  <2> QED  BY <1>2, <2>2, NumberType DEF One
<1>5. Due(g, t.ms, s2, l) \in SUBSET Due(g, t.ms, s, l)
  <2> SUFFICES ASSUME NEW i \in CallIds,
                      Number(t.ms, Dues(g, i)) + Number(In(s2, l, i), Dues(g, i)) > 0
               PROVE  Number(t.ms, Dues(g, i)) + Number(In(s, l, i), Dues(g, i)) > 0
    BY DEF Due
  <2> QED  BY <1>3, <1>4
<1>6. ASSUME m.id # 0, m.type \in DueTypes(g)
      PROVE  m.id \in Due(g, t.ms, s, l) /\ m.id \notin Due(g, t.ms, s2, l)
  <2> DEFINE i == m.id
             x == Number(t.ms, Dues(g, i))  y == Number(In(s, l, i), Dues(g, i))
             z == Number(In(s2, l, i), Dues(g, i))
  <2>1. i \in CallIds /\ m \in Dues(g, i) /\ m \in Toks(g, i)
    BY <1>1, <1>6, MessageIn, DuesToks
  <2>2. y = 1 + z /\ z \in Nat /\ x \in Nat
    BY <1>3, <1>4, <2>1 DEF One
  <2>3. Turn(g, t.ms, s, l, i) = Turn(g, t.ms, s2, l, i) + 1 /\ Turn(g, t.ms, s, l, i) <= 1
    BY <1>3, <2>1 DEF One, Turns
  <2>4. x + z = 0
    <3> DEFINE u == Number(t.ms, Toks(g, i))  v == Number(In(s2, l, i), Toks(g, i))
               w == One(l[i].st = "dialling")
    <3>1. /\ Turn(g, t.ms, s2, l, i) \in Nat /\ Turn(g, t.ms, s2, l, i) = u + v + w
          /\ In(s2, l, i) \in Seq(Message) /\ u \in Nat /\ v \in Nat /\ w \in {0, 1}
      <4>1. Held(s2, l) /\ t.ms \in Seq(Message) /\ i \in CallIds
        BY <1>2, <1>3, <2>1
      <4> HIDE DEF s2, m, i
      <4>2. /\ Turn(g, t.ms, s2, l, i) \in Nat /\ Turn(g, t.ms, s2, l, i) = u + v + w
            /\ In(s2, l, i) \in Seq(Message)
        BY ONLY <4>1, Counted
      <4>3. u \in Nat /\ v \in Nat
        BY <4>1, <4>2, NumberType
      <4> QED  BY <4>2, <4>3, OneType
    <3>2. x <= u /\ z <= v
      BY <1>2, <3>1, DuesToks, NumberSubset
    <3> HIDE DEF u, v, w, x, z, y, i
    <3> QED  BY <2>2, <2>3, <3>1, <3>2
  <2> QED  BY <2>1, <2>2, <2>4 DEF Due
<1> QED  BY <1>5, <1>6

\* What a run that has begun with a message leaves of the turns.
LEMMA RunTurns ==
    ASSUME NEW g, g.recv \in BOOLEAN, NEW t, NEW t2, NEW s, NEW l, Inv(g, t, s, l), t.ms = <<>>,
           NEW a \in ApplIds, s[a] # <<>>, Run(g, t, t2, Taken(s, a), l)
    PROVE  /\ \A i \in CallIds :
                 /\ Turn(g, t2.ms, Taken(s, a), l, i) \in Nat
                 /\ Turn(g, t.ms, s, l, i)
                       = Turn(g, t2.ms, Taken(s, a), l, i) + One(Head(s[a]) \in Toks(g, i))
           /\ Due(g, t2.ms, Taken(s, a), l) = Due(g, t.ms, Taken(s, a), l)
           /\ Unasked(t2.ms)
<1> DEFINE s2 == Taken(s, a)  m == Head(s[a])  r == t2.ms  q == t.ms
<1>1. Structured(g, t) /\ Mailed(g, t, s, l)
  BY DEF Inv
<1>2. q \in Seq(Message) /\ Held(s, l)
  BY <1>1, MailedIn
<1>3. /\ m \in Message /\ m.appl = a /\ Belongs(m, l)
  BY <1>1, HeadPosted
<1>4. r \in Seq(Message) /\ Held(s2, l) /\ Plain(r)
  BY RunIn
<1>5. r = q \o r
  <2> HIDE DEF r
  <2> QED  BY <1>4
<1>6. ASSUME NEW i \in CallIds
      PROVE  Turn(g, q, s, l, i) = Turn(g, q, s2, l, i) + One(m \in Toks(g, i))
  <2>1. /\ q \in Seq(Message) /\ Held(s, l) /\ a \in ApplIds /\ s[a] # <<>> /\ i \in CallIds
        /\ Head(s[a]) \in Message /\ Head(s[a]).appl = a /\ Belongs(Head(s[a]), l)
    BY <1>2, <1>3
  <2> HIDE DEF q
  <2> QED  BY ONLY <2>1, TakeCounts DEF m, s2
<1>7. \A i : Number(r, Toks(g, i)) = 0 /\ Number(r, Dues(g, i)) = 0
  BY <1>4, PlainCounts
<1> HIDE DEF s2, r, q, m
<1>8. ASSUME NEW i \in CallIds
      PROVE  Turn(g, r, s2, l, i) = Turn(g, q, s2, l, i) /\ Turn(g, r, s2, l, i) \in Nat
  <2>1. Turn(g, q \o r, s2, l, i) = Turn(g, q, s2, l, i) + Number(r, Toks(g, i))
    BY <1>2, <1>4, PutCounts
  <2>2. Turn(g, q, s2, l, i) \in Nat
    BY <1>2, <1>4, Counted
  <2>3. Number(r, Toks(g, i)) = 0
    BY <1>7
  <2>4. Turn(g, q \o r, s2, l, i) = Turn(g, r, s2, l, i)
    <3> DEFINE qr == q \o r
    <3>1. qr = r
      BY <1>5
    <3> HIDE DEF qr
    <3>2. Turn(g, qr, s2, l, i) = Turn(g, r, s2, l, i)
      BY ONLY <3>1
    <3> QED  BY <3>2 DEF qr
  <2> QED  BY ONLY <2>1, <2>2, <2>3, <2>4
<1>9. Due(g, r, s2, l) = Due(g, q, s2, l)
  <2>1. Due(g, q \o r, s2, l) = Due(g, q, s2, l)
    BY <1>2, <1>4, <1>7, PutDue
  <2> DEFINE qr == q \o r
  <2>2. qr = r /\ Due(g, qr, s2, l) = Due(g, q, s2, l)
    BY <1>5, <2>1
  <2> HIDE DEF qr
  <2> QED  BY ONLY <2>2
<1>10. Unasked(r)
  BY <1>4 DEF Unasked, Plain, PlainTypes
<1> QED  BY <1>6, <1>8, <1>9, <1>10 DEF s2, r, q, m

\* The program has gone from t to t2, and the invariant holds where nothing has
\* changed but what is counted.
LEMMA Settles ==
    ASSUME NEW g, NEW t, NEW t2, NEW s, NEW s2, NEW l, NEW l2, NEW ls, NEW an \in Nat, NEW sg \in Nat,
           Whole(g, t, s, l, ls, an, sg), t.ms = <<>>, Inv(g, t2, s2, l2), SameFrame(t, t2),
           Unasked(t2.ms),
           \A i \in CallIds : Turn(g, t2.ms, s2, l2, i) = 1 => Turn(g, t.ms, s, l, i) = 1,
           Due(g, t2.ms, s2, l2) \in SUBSET Due(g, t.ms, s, l)
    PROVE  Whole(g, t2, s2, l2, ls, an, sg)
<1>1. /\ Inv(g, t, s, l) /\ ls \subseteq 1 .. t.made /\ Heard(g, t, ls)
      /\ t.appls # <<>> => Listened(g, t)
      /\ ~g.recv /\ sg = 0 => Chain(g, t, s, l)
      /\ Bounded(g, t, s, l, an, sg)
  BY DEF Whole
<1>2. Run(g, t, t, s, l)
  BY <1>1, Begins
<1>3. t \in State /\ t.made \in Nat /\ t.dialled \in Nat
  BY <1>2, RunIn
<1>4. t2 \in State
  BY DEF Inv, Structured
<1>5. \A k \in DOMAIN t.appls : \A j \in DOMAIN t.appls[k].calls : t.appls[k].calls[j].id \in CallIds
  BY <1>2, RunAt
<1>6. t2.made = t.made /\ t2.dialled = t.dialled
  BY DEF SameFrame
<1>7. Heard(g, t2, ls) /\ ls \subseteq 1 .. t2.made
  BY <1>1, <1>6, HeardKept
<1>8. t2.appls # <<>> => Listened(g, t2)
  BY <1>1, <1>3, <1>4, ListenedKept
<1>9. ~g.recv /\ sg = 0 => Chain(g, t2, s2, l2)
  BY <1>1, <1>5, ChainKept
<1>10. Bounded(g, t2, s2, l2, an, sg)
  BY <1>1, <1>3, <1>6, BoundedKept
<1> QED  BY <1>7, <1>8, <1>9, <1>10 DEF Whole

\* A run that has given nobody a turn.
LEMMA RunSettles ==
    ASSUME NEW g, g.recv \in BOOLEAN, NEW t, NEW t2, NEW s, NEW l, NEW ls, NEW an \in Nat, NEW sg \in Nat,
           Whole(g, t, s, l, ls, an, sg), t.ms = <<>>, NEW a \in ApplIds, s[a] # <<>>,
           Run(g, t, t2, Taken(s, a), l)
    PROVE  Whole(g, t2, Taken(s, a), l, ls, an, sg)
<1> DEFINE s2 == Taken(s, a)
<1>1. Inv(g, t, s, l)
  BY DEF Whole
<1>2. Structured(g, t) /\ Mailed(g, t, s, l) /\ Turns(g, t, s, l)
  BY <1>1 DEF Inv
<1>3. /\ \A i \in CallIds :
            /\ Turn(g, t2.ms, s2, l, i) \in Nat
            /\ Turn(g, t.ms, s, l, i) = Turn(g, t2.ms, s2, l, i) + One(Head(s[a]) \in Toks(g, i))
      /\ Due(g, t2.ms, s2, l) = Due(g, t.ms, s2, l) /\ Unasked(t2.ms)
  BY <1>1, RunTurns
<1>4. Due(g, t.ms, s2, l) \in SUBSET Due(g, t.ms, s, l)
  BY <1>2, TakeDue
<1>5. Inv(g, t2, s2, l) /\ SameFrame(t, t2)
  BY DEF Run
<1> HIDE DEF s2
<1>6. \A i \in CallIds : Turn(g, t2.ms, s2, l, i) = 1 => Turn(g, t.ms, s, l, i) = 1
  <2> SUFFICES ASSUME NEW i \in CallIds, Turn(g, t2.ms, s2, l, i) = 1
               PROVE  Turn(g, t.ms, s, l, i) = 1
    OBVIOUS
  <2>1. Turn(g, t.ms, s, l, i) <= 1
    BY <1>2 DEF Turns
  <2> QED  BY <1>3, <2>1 DEF One
<1>7. Whole(g, t2, s2, l, ls, an, sg)
  BY <1>3, <1>4, <1>5, <1>6, Settles
<1> QED  BY <1>7 DEF s2

\* The program has taken a call's turn.
LEMMA GetsTurn ==
    ASSUME NEW g, g.recv \in BOOLEAN, NEW t, NEW s, NEW l, Inv(g, t, s, l), t.ms = <<>>,
           NEW a \in ApplIds, s[a] # <<>>, Head(s[a]).id # 0, Head(s[a]).type \in TokTypes(g)
    PROVE  /\ Run(g, t, t, Taken(s, a), l) /\ MayGo(g, t, Taken(s, a), l, Head(s[a]).id)
           /\ Head(s[a]) \in Toks(g, Head(s[a]).id)
<1> DEFINE s2 == Taken(s, a)  m == Head(s[a])  i == m.id
<1>1. Structured(g, t) /\ Mailed(g, t, s, l) /\ Turns(g, t, s, l) /\ Run(g, t, t, s, l)
  BY Begins DEF Inv
<1>2. t.ms \in Seq(Message) /\ Held(s, l)
  BY <1>1, MailedIn
<1>3. /\ m \in Message /\ m.appl = a /\ Belongs(m, l) /\ i \in CallIds
  BY <1>1, HeadPosted
<1>4. m \in Toks(g, i) /\ m \notin Typed(i, "DATAB3_CONF") /\ m.type # "DATAB3_CONF"
  BY <1>3, MessageIn DEF TokTypes
<1>5. Run(g, t, t, s2, l)
  BY <1>4, TakesFirst DEF NoBlock
<1>6. /\ Turn(g, t.ms, s, l, i) = Turn(g, t.ms, s2, l, i) + One(m \in Toks(g, i))
      /\ Unread(t.ms, s, l, i) = Unread(t.ms, s2, l, i) + One(m \in Typed(i, "DATAB3_CONF"))
  <2>1. /\ t.ms \in Seq(Message) /\ Held(s, l) /\ a \in ApplIds /\ s[a] # <<>> /\ i \in CallIds
        /\ Head(s[a]) \in Message /\ Head(s[a]).appl = a /\ Belongs(Head(s[a]), l)
    BY <1>2, <1>3
  <2> HIDE DEF i
  <2> QED  BY ONLY <2>1, TakeCounts DEF m, s2
<1>7. One(m \in Toks(g, i)) = 1 /\ One(m \in Typed(i, "DATAB3_CONF")) = 0
  BY <1>4 DEF One
<1>8. Held(s2, l)
  BY <1>5, RunIn
<1>9. /\ Turn(g, t.ms, s, l, i) <= 1
      /\ Turn(g, t.ms, s, l, i) = 1 => Unread(t.ms, s, l, i) = 0
  BY <1>1, <1>3 DEF Turns
<1>10. \A k \in DOMAIN t.appls : \A j \in DOMAIN t.appls[k].calls :
          Fit(g, t.ms, s, l, t.appls[k].id, t.appls[k].calls[j])
  BY <1>1, RunAt
<1> HIDE DEF s2, m, i
<1>11. Turn(g, t.ms, s2, l, i) \in Nat /\ Unread(t.ms, s2, l, i) \in Nat
  BY <1>2, <1>3, <1>8, Counted
<1>12. Turn(g, t.ms, s2, l, i) = 0 /\ Unread(t.ms, s2, l, i) = 0 /\ Turn(g, t.ms, s, l, i) = 1
  BY <1>6, <1>7, <1>9, <1>11
<1>13. MayGo(g, t, s2, l, i)
  BY <1>3, <1>10, <1>12 DEF MayGo, Fit
<1> QED  BY <1>4, <1>5, <1>13 DEF s2, m, i

LEMMA MayGoKept ==
    ASSUME NEW g, NEW t, NEW t2, NEW s, NEW l, NEW i, MayGo(g, t, s, l, i), SameFrame(t, t2),
           Turn(g, t2.ms, s, l, i) = Turn(g, t.ms, s, l, i), Unread(t2.ms, s, l, i) = Unread(t.ms, s, l, i),
           \A k \in DOMAIN t.appls : \A j \in DOMAIN t.appls[k].calls :
               /\ t2.appls[k].calls[j].doSend = t.appls[k].calls[j].doSend
               /\ t2.appls[k].calls[j].NotAcknowledged = t.appls[k].calls[j].NotAcknowledged
    PROVE  MayGo(g, t2, s, l, i)
BY DEF MayGo, SameFrame

\* A call's state is changed, and nothing put.
LEMMA Touches ==
    ASSUME NEW g, NEW t0, NEW t, NEW s, NEW l, Run(g, t0, t, s, l),
           NEW k \in DOMAIN t.appls, NEW j \in DOMAIN t.appls[k].calls, NEW c,
           c = t.appls[k].calls[j], NEW d \in Call, d.id = c.id, CallRight(g, d, t.dialled),
           d.NotAcknowledged = c.NotAcknowledged, d.doSend = c.doSend, NEW none, none = <<>>
    PROVE  /\ Run(g, t0, Changed(t, k, j, d, none), s, l)
           /\ \A i \in CallIds : MayGo(g, t, s, l, i) => MayGo(g, Changed(t, k, j, d, none), s, l, i)
           /\ Changed(t, k, j, d, none).ms = t.ms /\ SameFrame(t, Changed(t, k, j, d, none))
<1> DEFINE t2 == Changed(t, k, j, d, none)
<1>1. /\ none \in Seq(Message) /\ Plain(none) /\ DOMAIN none = {}
      /\ \A T : Number(none, T) = 0
  <2>1. \A T : Number(none, T) = 0
    BY NumberOne
  <2> QED  BY <2>1 DEF Plain
<1>2. t.ms \in Seq(Message) /\ c.NotAcknowledged \in Nat
  BY RunIn, RunAt
<1>3. t.ms \o none = t.ms
  <2> DEFINE q == t.ms
  <2>1. q \in Seq(Message)
    BY <1>2
  <2> HIDE DEF q
  <2>2. q \o none = q
    BY <2>1
  <2> QED  BY <2>2 DEF q
<1>4. d.NotAcknowledged = c.NotAcknowledged + Number(none, Typed(c.id, "DATAB3_REQ"))
  <2>1. Number(none, Typed(c.id, "DATAB3_REQ")) = 0
    BY SMTT(40), SMTT(41), ZenonT(30), <1>1
  <2> QED  BY <1>2, <2>1
<1>5. /\ Run(g, t0, t2, s, l) /\ t2.appls[k].calls[j] = d
      /\ t2.ms = t.ms \o none /\ SameFrame(t, t2)
      /\ \A n \in DOMAIN t.appls : \A i \in DOMAIN t.appls[n].calls :
            n # k \/ i # j => t2.appls[n].calls[i] = t.appls[n].calls[i]
  <2>1. \A n \in DOMAIN none : /\ none[n].id = c.id /\ none[n].appl = t.appls[k].id
                               /\ none[n].type = "DATAB3_REQ" => none[n].b3
    BY <1>1
  <2>2. /\ Run(g, t0, t, s, l) /\ k \in DOMAIN t.appls /\ j \in DOMAIN t.appls[k].calls
        /\ c = t.appls[k].calls[j] /\ d \in Call /\ d.id = c.id /\ CallRight(g, d, t.dialled)
        /\ none \in Seq(Message) /\ Plain(none)
        /\ d.NotAcknowledged = c.NotAcknowledged + Number(none, Typed(c.id, "DATAB3_REQ"))
        /\ d.NotAcknowledged = c.NotAcknowledged /\ (d.doSend => c.doSend)
    BY <1>1, <1>4
  <2> QED  BY ONLY <2>1, <2>2, Changes DEF t2
<1> HIDE DEF t2
<1>6. \A n \in DOMAIN t.appls : \A i \in DOMAIN t.appls[n].calls :
          /\ t2.appls[n].calls[i].doSend = t.appls[n].calls[i].doSend
          /\ t2.appls[n].calls[i].NotAcknowledged = t.appls[n].calls[i].NotAcknowledged
  BY <1>5
<1>7. t2.ms = t.ms
  BY <1>3, <1>5
<1>8. \A i \in CallIds : MayGo(g, t, s, l, i) => MayGo(g, t2, s, l, i)
  BY <1>5, <1>6, <1>7, MayGoKept
<1> QED  BY <1>5, <1>7, <1>8 DEF t2

\* A run that passes on the turn it has got.
LEMMA TurnSettles ==
    ASSUME NEW g, g.recv \in BOOLEAN, NEW t, NEW t2, NEW s, NEW l, NEW ls, NEW an \in Nat, NEW sg \in Nat,
           Whole(g, t, s, l, ls, an, sg), t.ms = <<>>, NEW a \in ApplIds, s[a] # <<>>,
           Run(g, t, t2, Taken(s, a), l), NEW m \in Message, m.id = Head(s[a]).id, m.id # 0,
           Head(s[a]).type \in TokTypes(g), MayGo(g, t2, Taken(s, a), l, m.id),
           Asked(g, m, l, t2.made, t2.dialled), m.type \in TokTypes(g),
           m.type \notin {"RELEASE", "DATAB3_REQ", "LISTEN_REQ"},
           m.type \in DueTypes(g) => Head(s[a]).type \in DueTypes(g)
    PROVE  Whole(g, Put(t2, m), Taken(s, a), l, ls, an, sg)
<1> DEFINE s2 == Taken(s, a)  h == Head(s[a])  r == <<m>>  v == Put(t2, m)
<1>1. Inv(g, t, s, l)
  BY DEF Whole
<1>2. Structured(g, t) /\ Mailed(g, t, s, l) /\ Turns(g, t, s, l)
  BY <1>1 DEF Inv
<1>3. /\ \A i \in CallIds :
            /\ Turn(g, t2.ms, s2, l, i) \in Nat
            /\ Turn(g, t.ms, s, l, i) = Turn(g, t2.ms, s2, l, i) + One(h \in Toks(g, i))
      /\ Due(g, t2.ms, s2, l) = Due(g, t.ms, s2, l) /\ Unasked(t2.ms)
  BY <1>1, RunTurns
<1>4. /\ Due(g, t.ms, s2, l) \in SUBSET Due(g, t.ms, s, l)
      /\ h.id # 0 /\ h.type \in DueTypes(g) => h.id \in Due(g, t.ms, s, l)
  BY <1>2, TakeDue
<1>5. /\ t2 \in State /\ t2.ms \in Seq(Message) /\ Held(s2, l) /\ SameFrame(t, t2)
      /\ Inv(g, t2, s2, l) /\ Open(t2)
  BY RunIn
<1>6. /\ SameFrame(t2, v) /\ v.ms = t2.ms \o r
  BY <1>5, PutShape
<1>7. Inv(g, v, s2, l)
  BY <1>5, PutInv
<1>8. SameFrame(t, v)
  BY <1>5, <1>6, FrameTwice
<1>9. r \in Seq(Message) /\ DOMAIN r = {1} /\ r[1] = m /\ \A T : Number(r, T) = One(m \in T)
  BY NumberOne
<1>10. h \in Message
  BY <1>2, HeadPosted
<1>11. \A i : m \in Toks(g, i) <=> h \in Toks(g, i)
  BY <1>10, MessageIn
<1> HIDE DEF r, v, s2, h
<1>12. Unasked(v.ms)
  <2> SUFFICES ASSUME NEW n \in DOMAIN v.ms  PROVE v.ms[n].type # "LISTEN_REQ"
    BY DEF Unasked
  <2>1. \/ n \in DOMAIN t2.ms /\ v.ms[n] = t2.ms[n]
        \/ \E k \in DOMAIN r : v.ms[n] = r[k]
    BY <1>5, <1>6, <1>9, ConcatOf
  <2> QED  BY <1>3, <1>9, <2>1 DEF Unasked
<1>13. ASSUME NEW i \in CallIds
       PROVE  Turn(g, v.ms, s2, l, i) = Turn(g, t.ms, s, l, i)
  <2>1. Turn(g, t2.ms \o r, s2, l, i) = Turn(g, t2.ms, s2, l, i) + Number(r, Toks(g, i))
    BY <1>5, <1>9, PutCounts
  <2>2. Number(r, Toks(g, i)) = One(h \in Toks(g, i))
    BY <1>9, <1>11 DEF One
  <2> QED  BY <1>3, <1>6, <2>1, <2>2
<1>14. ASSUME NEW i \in Due(g, v.ms, s2, l)
       PROVE  i \in Due(g, t.ms, s, l)
  <2>0. i \in CallIds /\ Number(v.ms, Dues(g, i)) + Number(In(s2, l, i), Dues(g, i)) > 0
    BY DEF Due
  <2>1. Number(v.ms, Dues(g, i)) = Number(t2.ms, Dues(g, i)) + One(m \in Dues(g, i))
    BY <1>5, <1>6, <1>9, NumberConcat
  <2>2. CASE m \in Dues(g, i)
    <3>1. h.id = i /\ h.type \in DueTypes(g)
      BY <2>2, MessageIn DEF h
    <3> QED  BY <1>4, <3>1 DEF h
  <2>3. CASE m \notin Dues(g, i)
    <3>1. Number(t2.ms, Dues(g, i)) \in Nat /\ One(m \in Dues(g, i)) = 0
      BY <1>5, <2>3, NumberType DEF One
    <3>2. Number(v.ms, Dues(g, i)) = Number(t2.ms, Dues(g, i))
      BY <2>1, <3>1
    <3>3. i \in Due(g, t2.ms, s2, l)
      BY <2>0, <3>2 DEF Due
    <3> QED  BY <1>3, <1>4, <3>3
  <2> QED  BY <2>2, <2>3
<1>15. Whole(g, v, s2, l, ls, an, sg)
  <2>1. Due(g, v.ms, s2, l) \in SUBSET Due(g, t.ms, s, l)
    BY <1>14
  <2> QED  BY <1>7, <1>8, <1>12, <1>13, <2>1, Settles
<1> QED  BY <1>15 DEF v, s2

--------------------------------------------------------------------------------
(* free_appl *)

LEMMA Interval ==
    ASSUME NEW n \in Nat
    PROVE  IsFiniteSet(1 .. n) /\ Cardinality(1 .. n) = n
<1>1. \A a, b \in Int : /\ IsFiniteSet(a .. b)
                        /\ Cardinality(a .. b) = IF a > b THEN 0 ELSE b - a + 1
  BY FS_Interval
<1>2. 1 \in Int /\ n \in Int
  OBVIOUS
<1>3. IsFiniteSet(1 .. n) /\ Cardinality(1 .. n) = IF 1 > n THEN 0 ELSE n - 1 + 1
  BY <1>1, <1>2
<1>4. (IF 1 > n THEN 0 ELSE n - 1 + 1) = n
  OBVIOUS
<1> QED  BY <1>3, <1>4

LEMMA FreeShape ==
    ASSUME NEW t \in State, Polls(t.appls, t.pollfds), Apart(t.appls), NEW k \in DOMAIN t.appls
    PROVE  /\ FreeAppl(t, k) \in State
           /\ Without(Appl, t.appls, FreeAppl(t, k).appls, k)
           /\ FreeAppl(t, k).made = t.made /\ FreeAppl(t, k).dialled = t.dialled
           /\ FreeAppl(t, k).ms = Append(t.ms, Msg("RELEASE", t.appls[k].id, 0, FALSE, 0))
           /\ Msg("RELEASE", t.appls[k].id, 0, FALSE, 0) \in Message
           /\ Polls(FreeAppl(t, k).appls, FreeAppl(t, k).pollfds)
<1> DEFINE n == Place({n \in DOMAIN t.pollfds : t.pollfds[n].fd = t.appls[k].fd})
           as == RemoveAt(t.appls, k)
           cut == RemoveAt(t.pollfds, n)
           fds == IF n = 0 THEN t.pollfds ELSE cut
           m == Msg("RELEASE", t.appls[k].id, 0, FALSE, 0)
           u == FreeAppl(t, k)
<1>1. /\ t.appls \in Seq(Appl) /\ t.pollfds \in Seq(Polled) /\ t.ms \in Seq(Message) /\ t.made \in Nat
      /\ t.dialled \in Nat /\ DOMAIN t.appls = 1 .. Len(t.appls) /\ Len(t.appls) \in Nat
      /\ t.appls[k].id \in Nat
  BY StateIn
<1>2. \/ n = 0 /\ \A i \in DOMAIN t.pollfds : t.pollfds[i].fd # t.appls[k].fd
      \/ n # 0 /\ n \in DOMAIN t.pollfds /\ t.pollfds[n].fd = t.appls[k].fd
  <2> DEFINE S == {i \in DOMAIN t.pollfds : t.pollfds[i].fd = t.appls[k].fd}
  <2>1. S \subseteq Nat /\ 0 \notin S
    <3>1. DOMAIN t.pollfds = 1 .. Len(t.pollfds)
      BY <1>1
    <3> QED  BY <3>1
  <2>2. CASE S = {}
    <3>1. n = 0
      BY <2>2 DEF Place
    <3> QED  BY <2>2, <3>1
  <2>3. CASE S # {}
    <3> HIDE DEF S
    <3>2. \E x \in S : \A y \in S : x <= y
      BY <2>1, <2>3, Least
    <3>3. Min(S) \in S
      BY <3>2 DEF Min
    <3>4. Place(S) \in S /\ Place(S) # 0
      BY <2>1, <2>3, <3>3 DEF Place
    <3> QED  BY <3>4 DEF S
  <2> QED  BY <2>2, <2>3
<1>3. u = Put([t EXCEPT !.appls = as, !.pollfds = fds], m)
  <2>1. t.appls = t.appls /\ RemoveAt(t.appls, k) = as
    OBVIOUS
  <2> QED  BY DEF FreeAppl, State
<1>4. Without(Appl, t.appls, as, k)
  BY <1>1, CutOut DEF RemoveAt
<1> HIDE DEF n
<1>5. n # 0 => Without(Polled, t.pollfds, cut, n)
  BY <1>1, <1>2, CutOut DEF RemoveAt
<1>6. m \in Message
  <2>1. "RELEASE" \in Types
    BY DEF Types
  <2> QED  BY <1>1, <2>1 DEF Msg, Message
<1> HIDE DEF as, cut, m, u
<1>7. as \in Seq(Appl) /\ fds \in Seq(Polled)
  BY <1>1, <1>4, <1>5 DEF Without
<1>a. fds = IF n = 0 THEN t.pollfds ELSE cut
  OBVIOUS
<1> HIDE DEF fds
<1> DEFINE v == [t EXCEPT !.appls = as, !.pollfds = fds]
<1>8. /\ v \in State /\ v.appls = as /\ v.pollfds = fds /\ v.made = t.made /\ v.dialled = t.dialled
      /\ v.ms = t.ms
  BY <1>7 DEF State
<1> HIDE DEF v
<1>9. /\ Put(v, m) \in State /\ Put(v, m).ms = v.ms \o <<m>>
      /\ Put(v, m).appls = v.appls /\ Put(v, m).pollfds = v.pollfds
      /\ Put(v, m).made = v.made /\ Put(v, m).dialled = v.dialled
  BY <1>6, <1>8, PutShape
<1>10. t.ms \o <<m>> = Append(t.ms, m)
  BY <1>1, <1>6
<1>11. u = Put(v, m)
  BY <1>3 DEF v
<1>12. Polls(as, fds)
  <2>0. DOMAIN t.pollfds = 1 .. Len(t.pollfds) /\ Len(t.pollfds) \in Nat /\ DOMAIN fds = 1 .. Len(fds)
    BY <1>1, <1>7
  <2>1. Len(fds) <= MaxFd
    <3> DEFINE x == Len(cut)  y == Len(t.pollfds)
    <3>1. y <= MaxFd /\ y \in Nat /\ MaxFd \in Nat /\ (n # 0 => x + 1 = y /\ x \in Nat)
      BY <1>5, <2>0, CapiTestAssumption DEF Polls, Without
    <3>2. n # 0 => x <= MaxFd
      <4> HIDE DEF x, y
      <4> QED  BY ONLY <3>1
    <3> QED  BY <1>a, <3>1, <3>2
  <2>a. ASSUME NEW i \in DOMAIN fds
        PROVE  \E o \in DOMAIN t.pollfds : o # n /\ fds[i] = t.pollfds[o]
    <3>1. CASE n = 0
      BY <1>a, <2>0, <3>1
    <3>2. CASE n # 0
      <4>1. /\ n \in Nat /\ i \in Nat
            /\ \/ i \in DOMAIN t.pollfds /\ i < n /\ fds[i] = t.pollfds[i]
               \/ i + 1 \in DOMAIN t.pollfds /\ i + 1 > n /\ fds[i] = t.pollfds[i + 1]
        BY <1>2, <1>5, <1>a, <2>0, <3>2 DEF Without
      <4> QED  BY <4>1
    <3> QED  BY <3>1, <3>2
  <2>b. ASSUME NEW o \in DOMAIN t.pollfds, o # n
        PROVE  \E i \in DOMAIN fds : fds[i] = t.pollfds[o]
    BY <1>5, <1>a, <2>b DEF Without
  <2>c. ASSUME NEW j \in DOMAIN as
        PROVE  \E p \in DOMAIN t.appls : p # k /\ as[j] = t.appls[p]
    <3>1. \/ j \in DOMAIN t.appls /\ j < k /\ as[j] = t.appls[j]
          \/ j + 1 \in DOMAIN t.appls /\ j + 1 > k /\ as[j] = t.appls[j + 1]
      BY <1>4 DEF Without
    <3>2. j \in Nat /\ k \in Nat
      BY <1>8, StateIn
    <3>3. CASE j \in DOMAIN t.appls /\ j < k /\ as[j] = t.appls[j]
      BY <3>2, <3>3
    <3>4. CASE j + 1 \in DOMAIN t.appls /\ j + 1 > k /\ as[j] = t.appls[j + 1]
      <4> DEFINE p == j + 1
      <4>1. p \in DOMAIN t.appls /\ p # k /\ as[j] = t.appls[p]
        BY <3>2, <3>4
      <4> HIDE DEF p
      <4> QED  BY <4>1
    <3> QED  BY <3>1, <3>3, <3>4
  <2>d. ASSUME NEW j \in DOMAIN as
        PROVE  as[j].polled <=> \E i \in DOMAIN fds : fds[i].fd = as[j].fd
    <3>1. PICK p \in DOMAIN t.appls : p # k /\ as[j] = t.appls[p]
      BY <2>c
    <3>2. t.appls[p].polled <=> \E o \in DOMAIN t.pollfds : t.pollfds[o].fd = t.appls[p].fd
      BY DEF Polls
    <3>3. t.appls[p].fd # t.appls[k].fd
      BY <3>1 DEF Apart
    <3>4. \A o \in DOMAIN t.pollfds : t.pollfds[o].fd = t.appls[p].fd => o # n
      BY <1>2, <2>0, <3>3
    <3>5. (\E o \in DOMAIN t.pollfds : t.pollfds[o].fd = t.appls[p].fd)
             <=> \E i \in DOMAIN fds : fds[i].fd = t.appls[p].fd
      <4>1. ASSUME NEW o \in DOMAIN t.pollfds, t.pollfds[o].fd = t.appls[p].fd
            PROVE  \E i \in DOMAIN fds : fds[i].fd = t.appls[p].fd
        BY <2>b, <3>4, <4>1
      <4>2. ASSUME NEW i \in DOMAIN fds, fds[i].fd = t.appls[p].fd
            PROVE  \E o \in DOMAIN t.pollfds : t.pollfds[o].fd = t.appls[p].fd
        BY <2>a, <4>2
      <4> QED  BY <4>1, <4>2
    <3> QED  BY <3>1, <3>2, <3>5
  <2>2. ASSUME NEW i \in DOMAIN fds
        PROVE  \E j \in DOMAIN as : as[j].fd = fds[i].fd /\ as[j].id = fds[i].arg
    <3>1. PICK o \in DOMAIN t.pollfds : o # n /\ fds[i] = t.pollfds[o]
      BY <2>a
    <3>2. PICK j \in DOMAIN t.appls : t.appls[j].fd = t.pollfds[o].fd /\ t.appls[j].id = t.pollfds[o].arg
      BY DEF Polls
    <3>3. j # k
      <4>1. ASSUME j = k  PROVE FALSE
        <5>1. t.pollfds[o].fd = t.appls[k].fd
          BY <3>2, <4>1
        <5>2. n \in DOMAIN t.pollfds /\ t.pollfds[n].fd = t.appls[k].fd
          BY <1>2, <5>1
        <5> QED  BY <3>1, <5>1, <5>2 DEF Polls
      <4> QED  BY <4>1
    <3>4. \E x \in DOMAIN as : as[x] = t.appls[j]
      BY <1>4, <3>3 DEF Without
    <3> QED  BY <3>1, <3>2, <3>4
  <2>3. ASSUME NEW i \in DOMAIN fds, NEW j \in DOMAIN fds, fds[i].fd = fds[j].fd
        PROVE  i = j
    <3>1. /\ i \in Nat /\ j \in Nat /\ n \in Nat
      BY <1>2, <2>0
    <3>2. CASE n # 0
      <4>1. /\ \/ i \in DOMAIN t.pollfds /\ i < n /\ fds[i] = t.pollfds[i]
               \/ i + 1 \in DOMAIN t.pollfds /\ i + 1 > n /\ fds[i] = t.pollfds[i + 1]
            /\ \/ j \in DOMAIN t.pollfds /\ j < n /\ fds[j] = t.pollfds[j]
               \/ j + 1 \in DOMAIN t.pollfds /\ j + 1 > n /\ fds[j] = t.pollfds[j + 1]
        BY <1>5, <1>a, <3>2 DEF Without
      <4>2. \A x, y \in DOMAIN t.pollfds : t.pollfds[x].fd = t.pollfds[y].fd => x = y
        BY DEF Polls
      <4> QED  BY <2>3, <3>1, <4>1, <4>2
    <3>3. CASE n = 0
      BY <1>a, <2>3, <3>3 DEF Polls
    <3> QED  BY <3>2, <3>3
  <2> QED  BY <2>1, <2>2, <2>3, <2>d DEF Polls
<1> QED  BY <1>4, <1>6, <1>8, <1>9, <1>10, <1>11, <1>12 DEF u, m

\* Where the elements of a sequence were before one was taken out.
LEMMA Origin ==
    ASSUME NEW X, NEW cs \in Seq(X), NEW cs2, NEW k \in DOMAIN cs, Without(X, cs, cs2, k)
    PROVE  \E o : /\ \A x \in DOMAIN cs2 : /\ o[x] \in DOMAIN cs /\ o[x] # k /\ cs2[x] = cs[o[x]]
                                           /\ o[x] = 1 => x = 1
                  /\ \A x, y \in DOMAIN cs2 : o[x] = o[y] => x = y
<1> DEFINE o == [x \in DOMAIN cs2 |-> IF x < k THEN x ELSE x + 1]
<1>1. cs2 \in Seq(X) /\ DOMAIN cs2 = 1 .. Len(cs2) /\ DOMAIN cs = 1 .. Len(cs) /\ Len(cs) \in Nat
  BY DEF Without
<1>2. ASSUME NEW x \in DOMAIN cs2
      PROVE  /\ o[x] \in DOMAIN cs /\ o[x] # k /\ cs2[x] = cs[o[x]] /\ x \in Nat
             /\ o[x] = 1 => x = 1
             /\ o[x] = IF x < k THEN x ELSE x + 1
  <2>1. x \in Nat /\ x >= 1 /\ k \in Nat /\ o[x] = IF x < k THEN x ELSE x + 1
    BY <1>1
  <2>2. \/ x \in DOMAIN cs /\ x < k /\ cs2[x] = cs[x]
        \/ x + 1 \in DOMAIN cs /\ x + 1 > k /\ cs2[x] = cs[x + 1]
    BY DEF Without
  <2> HIDE DEF o
  <2> QED  BY <2>1, <2>2
<1>3. k \in Nat
  BY <1>1
<1> HIDE DEF o
<1>4. \A x, y \in DOMAIN cs2 : o[x] = o[y] => x = y
  BY <1>2, <1>3
<1> QED  BY <1>2, <1>4

\* An application is given up.
LEMMA Frees ==
    ASSUME NEW g, NEW t0, NEW t, NEW s, NEW l, Run(g, t0, t, s, l), NEW k \in DOMAIN t.appls
    PROVE  Inv(g, FreeAppl(t, k), s, l)
<1> DEFINE u == FreeAppl(t, k)  m == Msg("RELEASE", t.appls[k].id, 0, FALSE, 0)  r == <<m>>
<1>1. /\ t \in State /\ t.ms \in Seq(Message) /\ Held(s, l) /\ Inv(g, t, s, l) /\ Open(t)
      /\ Structured(g, t) /\ Mailed(g, t, s, l) /\ Turns(g, t, s, l) /\ Lined(t, l)
      /\ t.appls \in Seq(Appl) /\ t.made \in Nat /\ t.dialled \in Nat
  BY RunIn, StateIn
<1>2. Polls(t.appls, t.pollfds) /\ Apart(t.appls)
  BY <1>1 DEF Structured
<1>3. /\ u \in State /\ Without(Appl, t.appls, u.appls, k) /\ u.made = t.made /\ u.dialled = t.dialled
      /\ u.ms = Append(t.ms, m) /\ m \in Message /\ Polls(u.appls, u.pollfds)
  BY <1>1, <1>2, FreeShape
<1>4. m.type = "RELEASE" /\ m.appl = t.appls[k].id /\ m.id = 0
  BY DEF Msg
<1> HIDE DEF u, m
<1>5. /\ r \in Seq(Message) /\ u.ms = t.ms \o r /\ DOMAIN r = {1} /\ r[1] = m
      /\ Len(u.ms) = Len(t.ms) + 1 /\ u.ms \in Seq(Message) /\ DOMAIN u.ms = 1 .. Len(t.ms) + 1
      /\ DOMAIN t.ms = 1 .. Len(t.ms) /\ Len(t.ms) \in Nat
  <2>1. r \in Seq(Message) /\ DOMAIN r = {1} /\ r[1] = m /\ Len(r) = 1
    BY <1>3
  <2>2. u.ms = t.ms \o r
    BY <1>1, <1>3, AppendIsConcat
  <2> HIDE DEF r
  <2>3. t.ms \in Seq(Message)
    BY <1>1
  <2>4. /\ t.ms \o r \in Seq(Message) /\ Len(t.ms \o r) = Len(t.ms) + Len(r) /\ Len(t.ms) \in Nat
        /\ DOMAIN (t.ms \o r) = 1 .. Len(t.ms) + Len(r) /\ DOMAIN t.ms = 1 .. Len(t.ms)
    BY ONLY <2>1, <2>3, ConcatOf
  <2> QED  BY <2>1, <2>2, <2>4
<1>6. PICK o : /\ \A x \in DOMAIN u.appls : o[x] \in DOMAIN t.appls /\ o[x] # k /\ u.appls[x] = t.appls[o[x]]
               /\ \A x, y \in DOMAIN u.appls : o[x] = o[y] => x = y
  <2>1. \E o : /\ \A x \in DOMAIN u.appls : /\ o[x] \in DOMAIN t.appls /\ o[x] # k
                                            /\ u.appls[x] = t.appls[o[x]]
                                            /\ o[x] = 1 => x = 1
               /\ \A x, y \in DOMAIN u.appls : o[x] = o[y] => x = y
    <3>1. t.appls \in Seq(Appl) /\ k \in DOMAIN t.appls /\ Without(Appl, t.appls, u.appls, k)
      BY <1>1, <1>3
    <3> QED  BY ONLY <3>1, Origin
  <2> QED  BY <2>1
<1>7. Structured(g, u)
  <2>1. \A n \in DOMAIN u.appls : ApplRight(g, u.appls[n], u.made, u.dialled)
    BY <1>1, <1>3, <1>6 DEF Structured
  <2>2. Apart(u.appls)
    <3>1. ASSUME NEW x \in DOMAIN u.appls, NEW y \in DOMAIN u.appls,
                 u.appls[x].id = u.appls[y].id \/ u.appls[x].fd = u.appls[y].fd
          PROVE  x = y
      BY <1>2, <1>6, <3>1 DEF Apart
    <3>2. ASSUME NEW x \in DOMAIN u.appls, NEW y \in DOMAIN u.appls,
                 NEW i \in DOMAIN u.appls[x].calls, NEW j \in DOMAIN u.appls[y].calls,
                 u.appls[x].calls[i].id = u.appls[y].calls[j].id
          PROVE  x = y /\ i = j
      BY <1>2, <1>6, <3>2 DEF Apart
    <3> QED  BY <3>1, <3>2 DEF Apart
  <2> QED  BY <1>1, <1>3, <2>1, <2>2 DEF Structured
<1>8. ApplRight(g, t.appls[k], t.made, t.dialled)
  BY <1>1 DEF Structured
<1>9. Asked(g, m, l, t.made, t.dialled)
  BY <1>1, <1>4, <1>8 DEF ApplRight, Asked
<1>10. ASSUME NEW n \in DOMAIN u.ms
       PROVE  \/ n \in DOMAIN t.ms /\ u.ms[n] = t.ms[n]
              \/ n = Len(u.ms) /\ u.ms[n] = m
  BY SMTT(40), SMTT(41), ZenonT(30), <1>1, <1>3, <1>5
<1>11. Mailed(g, u, s, l)
  <2>1. ASSUME NEW n \in DOMAIN u.ms
        PROVE  Asked(g, u.ms[n], l, u.made, u.dialled)
    BY <1>1, <1>3, <1>9, <1>10 DEF Mailed
  <2> QED  BY <1>1, <1>3, <2>1 DEF Mailed
<1>12. Released(u)
  <2> SUFFICES ASSUME NEW n \in DOMAIN u.ms, u.ms[n].type = "RELEASE"
               PROVE  n = Len(u.ms) /\ \A x \in DOMAIN u.appls : u.appls[x].id # u.ms[n].appl
    BY DEF Released
  <2>1. n = Len(u.ms) /\ u.ms[n] = m
    BY <1>1, <1>10 DEF Open
  <2> QED  BY <1>2, <1>4, <1>6, <2>1 DEF Apart
<1>13. ASSUME NEW i \in CallIds
       PROVE  /\ Number(r, Toks(g, i)) = 0 /\ Number(r, Typed(i, "DATAB3_REQ")) = 0
              /\ Turn(g, u.ms, s, l, i) = Turn(g, t.ms, s, l, i)
              /\ Unread(u.ms, s, l, i) = Unread(t.ms, s, l, i)
  <2>1. m \notin Toks(g, i) /\ m \notin Typed(i, "DATAB3_REQ")
    BY <1>4, Constants DEF Toks, Typed
  <2>2. Number(r, Toks(g, i)) = 0 /\ Number(r, Typed(i, "DATAB3_REQ")) = 0
    BY <2>1, NumberOne DEF One
  <2> HIDE DEF r
  <2>3. /\ Turn(g, t.ms \o r, s, l, i) = Turn(g, t.ms, s, l, i) + Number(r, Toks(g, i))
        /\ Unread(t.ms \o r, s, l, i) = Unread(t.ms, s, l, i) + Number(r, Typed(i, "DATAB3_REQ"))
    BY <1>1, <1>5, PutCounts
  <2>4. Turn(g, t.ms, s, l, i) \in Nat /\ Unread(t.ms, s, l, i) \in Nat
    BY <1>1, Counted
  <2> QED  BY <1>5, <2>2, <2>3, <2>4
<1>14. Turns(g, u, s, l)
  BY <1>1, <1>13 DEF Turns
<1> HIDE DEF r
<1>15. Fits(g, u, s, l)
  <2> SUFFICES ASSUME NEW x \in DOMAIN u.appls, NEW j \in DOMAIN u.appls[x].calls
               PROVE  Fit(g, u.ms, s, l, u.appls[x].id, u.appls[x].calls[j])
    BY DEF Fits
  <2> DEFINE n == o[x]  c == t.appls[n].calls[j]
  <2>1. n \in DOMAIN t.appls /\ u.appls[x] = t.appls[n] /\ j \in DOMAIN t.appls[n].calls
    BY <1>6
  <2>2. c.id \in CallIds /\ c.NotAcknowledged \in Nat /\ Fit(g, t.ms, s, l, t.appls[n].id, c)
    BY <2>1, RunAt
  <2> HIDE DEF c
  <2>3. Number(r, Toks(g, c.id)) = 0 /\ Number(r, Typed(c.id, "DATAB3_REQ")) = 0
    BY <1>13, <2>2
  <2>4. c.NotAcknowledged = c.NotAcknowledged + Number(r, Typed(c.id, "DATAB3_REQ"))
    BY <2>2, <2>3
  <2>5. Fit(g, t.ms \o r, s, l, t.appls[n].id, c)
    BY <1>1, <1>5, <2>2, <2>3, <2>4, FitKept
  <2> QED  BY <1>5, <2>1, <2>5 DEF c
<1>16. Inv(g, u, s, l)
  BY <1>7, <1>11, <1>12, <1>14, <1>15 DEF Inv
<1> QED  BY <1>16 DEF u

\* What is left of the invariant when an application with a call is given up.
LEMMA FreeWhole ==
    ASSUME NEW g \in Configs, NEW t0, NEW t, NEW s, NEW l, NEW ls, NEW an \in Nat, NEW sg \in Nat,
           Whole(g, t, s, l, ls, an, sg), Run(g, t0, t, s, l), NEW k \in DOMAIN t.appls,
           t.appls[k].calls # <<>>
    PROVE  Whole(g, FreeAppl(t, k), s, l, ls, an, sg)
<1> DEFINE u == FreeAppl(t, k)  m == Msg("RELEASE", t.appls[k].id, 0, FALSE, 0)  r == <<m>>
<1>0. /\ ls \subseteq 1 .. t.made /\ Heard(g, t, ls)
      /\ t.appls # <<>> => Listened(g, t)
      /\ ~g.recv /\ sg = 0 => Chain(g, t, s, l)
      /\ Bounded(g, t, s, l, an, sg)
  BY DEF Whole
<1>1. /\ t \in State /\ t.ms \in Seq(Message) /\ Held(s, l) /\ Structured(g, t)
      /\ t.appls \in Seq(Appl) /\ t.made \in Nat /\ t.dialled \in Nat /\ t.appls # <<>>
  <2>1. t \in State /\ t.ms \in Seq(Message) /\ Held(s, l) /\ Structured(g, t)
    BY RunIn
  <2>2. t.appls \in Seq(Appl) /\ t.made \in Nat /\ t.dialled \in Nat
    BY <2>1, StateIn
  <2> QED  BY <2>1, <2>2
<1>2. Polls(t.appls, t.pollfds) /\ Apart(t.appls)
  BY <1>1 DEF Structured
<1>3. /\ u \in State /\ Without(Appl, t.appls, u.appls, k) /\ u.made = t.made /\ u.dialled = t.dialled
      /\ u.ms = Append(t.ms, m) /\ m \in Message
  BY <1>1, <1>2, FreeShape
<1>4. m.type = "RELEASE" /\ m.appl = t.appls[k].id /\ m.id = 0
  BY DEF Msg
<1>5. Inv(g, u, s, l)
  BY Frees
<1> HIDE DEF u, m
<1>6. /\ r \in Seq(Message) /\ u.ms = t.ms \o r /\ DOMAIN r = {1} /\ r[1] = m
  BY SMTT(40), SMTT(41), ZenonT(30), <1>1, <1>3
<1>7. PICK o : /\ \A x \in DOMAIN u.appls : /\ o[x] \in DOMAIN t.appls /\ o[x] # k
                                            /\ u.appls[x] = t.appls[o[x]]
                                            /\ o[x] = 1 => x = 1
               /\ \A x, y \in DOMAIN u.appls : o[x] = o[y] => x = y
  <2>1. t.appls \in Seq(Appl) /\ k \in DOMAIN t.appls /\ Without(Appl, t.appls, u.appls, k)
    BY <1>1, <1>3
  <2> QED  BY ONLY <2>1, Origin
<1>8. ASSUME NEW i
      PROVE  Number(r, Toks(g, i)) = 0 /\ Number(r, Dues(g, i)) = 0
  <2>1. m \notin Toks(g, i) /\ m \notin Dues(g, i)
    BY <1>4 DEF Toks, TokTypes, Dues, DueTypes
  <2> QED  BY <2>1, NumberOne DEF One
<1>9. \A a, i : ~Asks(m, a, i)
  BY <1>4 DEF Asks
<1> HIDE DEF r
<1>10. \A n \in DOMAIN t.ms : n \in DOMAIN u.ms /\ u.ms[n] = t.ms[n]
  BY <1>1, <1>6, ConcatOf
<1>11. \A n \in DOMAIN u.ms : (n \in DOMAIN t.ms /\ u.ms[n] = t.ms[n]) \/ u.ms[n] = m
  <2> SUFFICES ASSUME NEW n \in DOMAIN u.ms, n \notin DOMAIN t.ms
               PROVE  u.ms[n] = m
    BY <1>10
  <2>1. \E x \in DOMAIN r : u.ms[n] = r[x]
    BY <1>1, <1>6, ConcatOf
  <2> QED  BY <1>6, <2>1
<1>12. Heard(g, u, ls)
  <2> SUFFICES ASSUME NEW x \in DOMAIN u.appls, u.appls[x].listen
               PROVE  /\ g.recv /\ u.appls[x].active_calls < g.callperappl
                      /\ \A n \in DOMAIN u.ms : ~Asks(u.ms[n], u.appls[x].id, 0)
                      /\ u.appls[x].id \in ls \/ \E n \in DOMAIN u.ms : Asks(u.ms[n], u.appls[x].id, 1)
    BY DEF Heard
  <2>1. o[x] \in DOMAIN t.appls /\ u.appls[x] = t.appls[o[x]]
    BY <1>7
  <2>2. /\ g.recv /\ u.appls[x].active_calls < g.callperappl
        /\ \A n \in DOMAIN t.ms : ~Asks(t.ms[n], u.appls[x].id, 0)
        /\ u.appls[x].id \in ls \/ \E n \in DOMAIN t.ms : Asks(t.ms[n], u.appls[x].id, 1)
    BY <1>0, <2>1 DEF Heard
  <2> QED  BY <1>9, <1>10, <1>11, <2>2
<1>13. Listened(g, u)
  <2> SUFFICES ASSUME g.recv, g.callperappl = 1
               PROVE  \E x \in DOMAIN u.appls : u.appls[x].listen
    BY DEF Listened
  <2>1. PICK n \in DOMAIN t.appls : t.appls[n].listen
    BY <1>0, <1>1 DEF Listened
  <2>2. t.appls[n].active_calls < 1
    BY <1>0, <2>1 DEF Heard
  <2>3. t.appls[k].active_calls = Len(t.appls[k].calls) /\ t.appls[k].calls \in Seq(Call)
    BY <1>1, StateIn DEF Structured, ApplRight
  <2>4. n # k
    BY <2>2, <2>3
  <2> QED  BY <1>3, <2>1, <2>4 DEF Without
<1>14. ASSUME NEW i \in CallIds
       PROVE  Turn(g, u.ms, s, l, i) = Turn(g, t.ms, s, l, i)
  <2>1. Turn(g, t.ms \o r, s, l, i) = Turn(g, t.ms, s, l, i) + Number(r, Toks(g, i))
    BY <1>1, <1>6, PutCounts
  <2>2. Turn(g, t.ms, s, l, i) \in Nat
    BY <1>1, Counted
  <2> QED  BY <1>6, <1>8, <2>1, <2>2
<1>15. Due(g, u.ms, s, l) = Due(g, t.ms, s, l)
  BY <1>1, <1>6, <1>8, PutDue
<1>16. Bounded(g, u, s, l, an, sg)
  <2>1. Due(g, u.ms, s, l) \in SUBSET Due(g, t.ms, s, l)
    BY <1>15
  <2> QED  BY <1>0, <1>1, <1>3, <2>1, BoundedKept
<1>17. ASSUME Chain(g, t, s, l)
       PROVE  Chain(g, u, s, l)
  <2>1. ASSUME NEW x \in DOMAIN u.appls, NEW j \in DOMAIN u.appls[x].calls,
               Turn(g, u.ms, s, l, u.appls[x].calls[j].id) = 1
        PROVE  /\ x = 1 /\ u.appls[x].calls[j].id = u.dialled
               /\ \A n \in DOMAIN u.appls : n # 1 => u.appls[n].active_calls >= g.callperappl
    <3>1. o[x] \in DOMAIN t.appls /\ u.appls[x] = t.appls[o[x]] /\ (o[x] = 1 => x = 1)
      BY <1>7
    <3>2. u.appls[x].calls[j].id \in CallIds
      BY <3>1, RunAt
    <3>3. Turn(g, t.ms, s, l, t.appls[o[x]].calls[j].id) = 1
      BY <1>14, <2>1, <3>1, <3>2
    <3>4. /\ o[x] = 1 /\ t.appls[o[x]].calls[j].id = t.dialled
          /\ \A n \in DOMAIN t.appls : n # 1 => t.appls[n].active_calls >= g.callperappl
      BY <1>17, <3>1, <3>3 DEF Chain
    <3>5. ASSUME NEW n \in DOMAIN u.appls, n # 1
          PROVE  u.appls[n].active_calls >= g.callperappl
      BY <1>7, <3>4, <3>5
    <3> QED  BY <1>3, <3>1, <3>4, <3>5
  <2>2. Numbers(u.appls) \in SUBSET Numbers(t.appls)
    BY <1>7 DEF Numbers
  <2>3. IsFiniteSet(Numbers(t.appls)) /\ Numbers(t.appls) \in SUBSET CallIds
    <3>1. IsFiniteSet(CallIds)
      <4>1. MaxCalls + MaxSignals + 1 \in Nat
        BY Constants
      <4> QED  BY <4>1, Constants, Interval
    <3>2. Numbers(t.appls) \in SUBSET CallIds
      BY DEF Numbers
    <3> QED  BY <3>1, <3>2, FS_Subset
  <2>4. /\ Cardinality(Numbers(u.appls)) <= Cardinality(Numbers(t.appls))
        /\ Cardinality(Numbers(u.appls)) \in Nat /\ Cardinality(Numbers(t.appls)) \in Nat
    BY <2>2, <2>3, FS_Subset, FS_CardinalityType
  <2>5. Cardinality(Numbers(t.appls)) <= g.MaxActivCalls
    BY <1>17 DEF Chain
  <2>6. Cardinality(Numbers(u.appls)) <= g.MaxActivCalls
    <3> DEFINE x == Cardinality(Numbers(u.appls))  y == Cardinality(Numbers(t.appls))
               z == g.MaxActivCalls
    <3>1. x \in Nat /\ y \in Nat /\ x <= y /\ y <= z /\ z \in Nat
      BY <2>4, <2>5, Options
    <3> HIDE DEF x, y, z
    <3>2. x <= z
      BY ONLY <3>1
    <3> QED  BY <3>2 DEF x, z
  <2> QED  BY <2>1, <2>6 DEF Chain
<1>18. Whole(g, u, s, l, ls, an, sg)
  BY <1>0, <1>3, <1>5, <1>12, <1>13, <1>16, <1>17 DEF Whole
<1> QED  BY <1>18 DEF u

LEMMA FreeSettles ==
    ASSUME NEW g \in Configs, NEW t, NEW t2, NEW s, NEW l, NEW ls, NEW an \in Nat, NEW sg \in Nat,
           Whole(g, t, s, l, ls, an, sg), t.ms = <<>>, NEW a \in ApplIds, s[a] # <<>>,
           Run(g, t, t2, Taken(s, a), l), NEW k \in DOMAIN t2.appls, t2.appls[k].calls # <<>>
    PROVE  Whole(g, FreeAppl(t2, k), Taken(s, a), l, ls, an, sg)
<1>1. g.recv \in BOOLEAN
  BY Options
<1>2. Whole(g, t2, Taken(s, a), l, ls, an, sg)
  BY <1>1, RunSettles
<1> QED  BY <1>2, FreeWhole

--------------------------------------------------------------------------------
(* Applications that change in nothing the invariant counts *)

Alike(t, t2) ==
    /\ t2 \in State /\ t2.made = t.made /\ t2.dialled = t.dialled /\ t2.ms = t.ms
    /\ DOMAIN t2.appls = DOMAIN t.appls
    /\ \A k \in DOMAIN t.appls :
          /\ t2.appls[k].id = t.appls[k].id /\ t2.appls[k].fd = t.appls[k].fd
          /\ t2.appls[k].polled = t.appls[k].polled
          /\ t2.appls[k].active_calls = t.appls[k].active_calls
          /\ t2.appls[k].calls = t.appls[k].calls
    /\ Len(t2.pollfds) = Len(t.pollfds) /\ DOMAIN t2.pollfds = DOMAIN t.pollfds
    /\ \A n \in DOMAIN t.pollfds : /\ t2.pollfds[n].fd = t.pollfds[n].fd
                                   /\ t2.pollfds[n].arg = t.pollfds[n].arg

LEMMA AlikeInv ==
    ASSUME NEW g, NEW t, NEW t2, NEW s, NEW l, Inv(g, t, s, l), Alike(t, t2)
    PROVE  Inv(g, t2, s, l) /\ (Open(t) => Open(t2))
<1>1. /\ Structured(g, t) /\ Mailed(g, t, s, l) /\ Released(t) /\ Turns(g, t, s, l)
      /\ Fits(g, t, s, l)
  BY DEF Inv
<1>2. Structured(g, t2)
  <2>1. t \in State /\ t2 \in State
    BY <1>1 DEF Structured, Alike
  <2>3. ASSUME NEW k \in DOMAIN t2.appls
        PROVE  ApplRight(g, t2.appls[k], t2.made, t2.dialled)
    BY <1>1 DEF Alike, Structured, ApplRight
  <2>4. Apart(t2.appls)
    <3>1. Apart(t.appls)
      BY <1>1 DEF Structured
    <3>2. ASSUME NEW x \in DOMAIN t2.appls, NEW y \in DOMAIN t2.appls,
                 t2.appls[x].id = t2.appls[y].id \/ t2.appls[x].fd = t2.appls[y].fd
          PROVE  x = y
      BY <3>1, <3>2 DEF Apart, Alike
    <3>3. ASSUME NEW x \in DOMAIN t2.appls, NEW y \in DOMAIN t2.appls,
                 NEW i \in DOMAIN t2.appls[x].calls, NEW j \in DOMAIN t2.appls[y].calls,
                 t2.appls[x].calls[i].id = t2.appls[y].calls[j].id
          PROVE  x = y /\ i = j
      BY <3>1, <3>3 DEF Apart, Alike
    <3> QED  BY <3>2, <3>3 DEF Apart
  <2>5. Polls(t2.appls, t2.pollfds)
    <3>1. Polls(t.appls, t.pollfds)
      BY <1>1 DEF Structured
    <3>2. ASSUME NEW n \in DOMAIN t2.pollfds
          PROVE  \E k \in DOMAIN t2.appls : t2.appls[k].fd = t2.pollfds[n].fd /\ t2.appls[k].id = t2.pollfds[n].arg
      BY <3>1 DEF Polls, Alike
    <3>3. ASSUME NEW m \in DOMAIN t2.pollfds, NEW n \in DOMAIN t2.pollfds, t2.pollfds[m].fd = t2.pollfds[n].fd
          PROVE  m = n
      BY <3>1, <3>3 DEF Polls, Alike
    <3>4. /\ Len(t2.pollfds) <= MaxFd
          /\ \A k \in DOMAIN t2.appls :
                t2.appls[k].polled <=> \E n \in DOMAIN t2.pollfds : t2.pollfds[n].fd = t2.appls[k].fd
      BY <3>1 DEF Polls, Alike
    <3> QED  BY <3>2, <3>3, <3>4 DEF Polls
  <2> QED  BY <1>1, <2>3, <2>4, <2>5 DEF Structured, Alike
<1>3. Mailed(g, t2, s, l)
  BY <1>1 DEF Mailed, Alike
<1>4. Released(t2)
  BY <1>1 DEF Released, Alike
<1>5. Turns(g, t2, s, l)
  BY <1>1 DEF Turns, Alike
<1>6. Fits(g, t2, s, l)
  BY <1>1 DEF Fits, Alike
<1>7. Open(t) => Open(t2)
  BY DEF Open, Alike
<1> QED  BY <1>2, <1>3, <1>4, <1>5, <1>6, <1>7 DEF Inv

LEMMA AlikeWhole ==
    ASSUME NEW g, NEW t, NEW t2, NEW s, NEW l, NEW ls, NEW an, NEW sg, Whole(g, t, s, l, ls, an, sg),
           Alike(t, t2), \A k \in DOMAIN t.appls : t2.appls[k].listen = t.appls[k].listen
    PROVE  Whole(g, t2, s, l, ls, an, sg)
<1>1. /\ Inv(g, t, s, l) /\ ls \subseteq 1 .. t.made /\ Heard(g, t, ls)
      /\ t.appls # <<>> => Listened(g, t)
      /\ ~g.recv /\ sg = 0 => Chain(g, t, s, l)
      /\ Bounded(g, t, s, l, an, sg)
  BY DEF Whole
<1>2. Inv(g, t2, s, l)
  BY <1>1, AlikeInv
<1>3. Heard(g, t2, ls)
  BY <1>1 DEF Heard, Alike
<1>4. Listened(g, t) => Listened(g, t2)
  BY DEF Listened, Alike
<1>5. t2.appls # <<>> => t.appls # <<>>
  <2>1. t.appls \in Seq(Appl) /\ t2.appls \in Seq(Appl)
    BY <1>1, StateIn DEF Inv, Structured, Alike
  <2> QED  BY <2>1 DEF Alike
<1>6. ASSUME Chain(g, t, s, l)
      PROVE  Chain(g, t2, s, l)
  <2>1. Numbers(t2.appls) = Numbers(t.appls)
    BY DEF Numbers, Alike
  <2>2. ASSUME NEW k \in DOMAIN t2.appls, NEW j \in DOMAIN t2.appls[k].calls,
               Turn(g, t2.ms, s, l, t2.appls[k].calls[j].id) = 1
        PROVE  /\ k = 1 /\ t2.appls[k].calls[j].id = t2.dialled
               /\ \A n \in DOMAIN t2.appls : n # 1 => t2.appls[n].active_calls >= g.callperappl
    BY <1>6, <2>2 DEF Chain, Alike
  <2> QED  BY <1>6, <2>1, <2>2 DEF Chain
<1>7. Bounded(g, t2, s, l, an, sg)
  BY <1>1 DEF Bounded, Alike
<1> QED  BY <1>1, <1>2, <1>3, <1>4, <1>5, <1>6, <1>7 DEF Whole, Alike

--------------------------------------------------------------------------------
(* set_listen *)

Switched(t, k, b) == [t EXCEPT !.appls[k].listen = b]
Listens(t, k, b) == Msg("LISTEN_REQ", t.appls[k].id, 0, FALSE, IF b THEN 1 ELSE 0)

LEMMA SwitchShape ==
    ASSUME NEW t \in State, NEW k \in DOMAIN t.appls, NEW b \in BOOLEAN
    PROVE  /\ Alike(t, Switched(t, k, b)) /\ Switched(t, k, b).pollfds = t.pollfds
           /\ Switched(t, k, b).appls[k].listen = b
           /\ \A n \in DOMAIN t.appls : n # k => Switched(t, k, b).appls[n] = t.appls[n]
<1> DEFINE u == Switched(t, k, b)  e == [t.appls[k] EXCEPT !.listen = b]
           as == [t.appls EXCEPT ![k] = e]
<1>1. /\ t.appls \in Seq(Appl) /\ t.pollfds \in Seq(Polled) /\ t.made \in Nat /\ t.dialled \in Nat
      /\ t.ms \in Seq(Message) /\ t.appls[k] \in Appl
  BY StateIn
<1>2. /\ e \in Appl /\ e.id = t.appls[k].id /\ e.fd = t.appls[k].fd /\ e.listen = b
      /\ e.active_calls = t.appls[k].active_calls /\ e.calls = t.appls[k].calls
      /\ e.polled = t.appls[k].polled
  BY <1>1 DEF Appl
<1>3. u = [t EXCEPT !.appls = as]
  BY DEF Switched, u, as, e, State
<1> HIDE DEF e
<1>4. /\ as \in Seq(Appl) /\ DOMAIN as = DOMAIN t.appls /\ as[k] = e
      /\ \A n \in DOMAIN t.appls : n # k => as[n] = t.appls[n]
  BY <1>1, <1>2
<1> HIDE DEF as, u
<1>5. /\ u \in State /\ u.appls = as /\ u.pollfds = t.pollfds /\ u.made = t.made
      /\ u.dialled = t.dialled /\ u.ms = t.ms
  BY <1>1, <1>3, <1>4 DEF State
<1>6. Alike(t, u)
  BY <1>2, <1>4, <1>5 DEF Alike
<1> QED  BY <1>2, <1>4, <1>5, <1>6 DEF u

LEMMA SwitchInv ==
    ASSUME NEW g, NEW t, NEW s, NEW l, Inv(g, t, s, l), Open(t), NEW k \in DOMAIN t.appls, NEW b \in BOOLEAN
    PROVE  /\ Inv(g, SetListen(t, k, b), s, l) /\ Open(SetListen(t, k, b))
           /\ SetListen(t, k, b).made = t.made /\ SetListen(t, k, b).dialled = t.dialled
           /\ SetListen(t, k, b).pollfds = t.pollfds
           /\ DOMAIN SetListen(t, k, b).appls = DOMAIN t.appls
           /\ \A n \in DOMAIN t.appls : n # k => SetListen(t, k, b).appls[n] = t.appls[n]
           /\ SetListen(t, k, b).appls[k].id = t.appls[k].id
           /\ SetListen(t, k, b).appls[k].fd = t.appls[k].fd
           /\ SetListen(t, k, b).appls[k].active_calls = t.appls[k].active_calls
           /\ SetListen(t, k, b).appls[k].calls = t.appls[k].calls
           /\ SetListen(t, k, b).appls[k].listen = b
           /\ \/ t.appls[k].listen = b /\ SetListen(t, k, b).ms = t.ms
              \/ t.appls[k].listen # b /\ SetListen(t, k, b).ms = t.ms \o <<Listens(t, k, b)>>
           /\ Listens(t, k, b) \in Message /\ Listens(t, k, b).type = "LISTEN_REQ"
           /\ Listens(t, k, b).appl = t.appls[k].id
           /\ Listens(t, k, b).info = (IF b THEN 1 ELSE 0) /\ Listens(t, k, b).id = 0
<1> DEFINE u == Switched(t, k, b)  m == Listens(t, k, b)  v == SetListen(t, k, b)
<1>1. /\ Structured(g, t) /\ t \in State /\ t.appls[k].id \in Nat
      /\ t.appls[k].id \in 1 .. t.made /\ t.dialled \in Nat /\ t.made \in Nat
  <2>1. Structured(g, t) /\ t \in State
    BY DEF Inv, Structured
  <2>2. t.appls[k].id \in Nat /\ t.dialled \in Nat /\ t.made \in Nat
    BY <2>1, StateIn
  <2>3. t.appls[k].id \in 1 .. t.made
    BY <2>1 DEF Structured, ApplRight
  <2> QED  BY <2>1, <2>2, <2>3
<1>2. /\ m \in Message /\ m.type = "LISTEN_REQ" /\ m.appl = t.appls[k].id /\ m.id = 0
      /\ m.info = IF b THEN 1 ELSE 0
  <2> DEFINE info == IF b THEN 1 ELSE 0
  <2>1. info \in Nat /\ "LISTEN_REQ" \in Types /\ t.appls[k].id \in Nat
    BY <1>1 DEF Types
  <2>2. m = [type |-> "LISTEN_REQ", appl |-> t.appls[k].id, id |-> 0, b3 |-> FALSE, info |-> info]
    BY DEF Listens, Msg
  <2> HIDE DEF info, m
  <2>3. m \in Message
    BY ONLY <2>1, <2>2 DEF Message
  <2> QED  BY <2>2, <2>3 DEF info
<1>3. /\ Alike(t, u) /\ u.pollfds = t.pollfds /\ u.appls[k].listen = b
      /\ \A n \in DOMAIN t.appls : n # k => u.appls[n] = t.appls[n]
  BY <1>1, SwitchShape
<1>4. CASE t.appls[k].listen = b
  <2>1. v = t
    BY <1>4 DEF SetListen
  <2> HIDE DEF v, m
  <2>2. /\ Inv(g, v, s, l) /\ Open(v) /\ v.made = t.made /\ v.dialled = t.dialled /\ v.pollfds = t.pollfds
        /\ v.appls = t.appls /\ v.ms = t.ms
    BY <2>1
  <2> QED  BY <1>2, <1>4, <2>2 DEF v, m
<1>5. CASE t.appls[k].listen # b
  <2>1. v = Put(u, m)
    BY <1>5 DEF SetListen, Switched, Listens
  <2> HIDE DEF v, m, u
  <2>2. Inv(g, u, s, l) /\ Open(u)
    BY <1>3, AlikeInv
  <2>3. u \in State /\ u.made = t.made /\ u.dialled = t.dialled /\ u.ms = t.ms
    BY <1>3 DEF Alike
  <2>4. Asked(g, m, l, u.made, u.dialled)
    BY <1>1, <1>2, <2>3 DEF Asked
  <2>5. m.type \notin TokTypes(g) /\ m.type # "RELEASE" /\ m.type # "DATAB3_REQ"
    BY <1>2 DEF TokTypes
  <2>6. Inv(g, v, s, l) /\ Open(v)
    BY <1>2, <2>1, <2>2, <2>4, <2>5, PutInv
  <2>7. /\ v.ms = u.ms \o <<m>> /\ v.appls = u.appls /\ v.pollfds = u.pollfds
        /\ v.made = u.made /\ v.dialled = u.dialled
    BY <1>2, <2>1, <2>3, PutShape
  <2>8. /\ v.ms = t.ms \o <<m>> /\ v.appls = u.appls /\ v.pollfds = t.pollfds
        /\ v.made = t.made /\ v.dialled = t.dialled
    BY <1>3, <2>3, <2>7
  <2>9. /\ DOMAIN v.appls = DOMAIN t.appls /\ \A n \in DOMAIN t.appls : n # k => v.appls[n] = t.appls[n]
        /\ v.appls[k].id = t.appls[k].id /\ v.appls[k].fd = t.appls[k].fd
        /\ v.appls[k].active_calls = t.appls[k].active_calls
        /\ v.appls[k].calls = t.appls[k].calls /\ v.appls[k].listen = b
    BY <1>3, <2>8 DEF Alike
  <2> QED  BY <1>2, <1>5, <2>6, <2>8, <2>9 DEF v, m
<1> QED  BY <1>4, <1>5

\* Something is said that is about no call.
Quietly(g, t, u, s, l) ==
    /\ \A i \in CallIds : /\ Turn(g, u.ms, s, l, i) = Turn(g, t.ms, s, l, i)
                          /\ Unread(u.ms, s, l, i) = Unread(t.ms, s, l, i)
    /\ Due(g, u.ms, s, l) = Due(g, t.ms, s, l)

LEMMA QuietSelf == ASSUME NEW g, NEW t, NEW u, NEW s, NEW l, u.ms = t.ms PROVE Quietly(g, t, u, s, l)
BY DEF Quietly

LEMMA QuietTwice ==
    ASSUME NEW g, NEW t, NEW u, NEW v, NEW s, NEW l, Quietly(g, t, u, s, l), Quietly(g, u, v, s, l)
    PROVE  Quietly(g, t, v, s, l)
BY DEF Quietly

LEMMA QuietPut ==
    ASSUME NEW g, g.recv \in BOOLEAN, NEW t, NEW u, NEW s, NEW l, Held(s, l), t.ms \in Seq(Message),
           NEW m \in Message, m.type = "LISTEN_REQ", u.ms = t.ms \o <<m>>
    PROVE  Quietly(g, t, u, s, l)
<1> DEFINE r == <<m>>
<1>1. \A i : m \notin Toks(g, i) /\ m \notin Typed(i, "DATAB3_REQ") /\ m \notin Dues(g, i)
  BY DEF Toks, TokTypes, Typed, Dues, DueTypes
<1>2. \A i : Number(r, Toks(g, i)) = 0 /\ Number(r, Typed(i, "DATAB3_REQ")) = 0 /\ Number(r, Dues(g, i)) = 0
  BY <1>1, NumberOne DEF One
<1>3. r \in Seq(Message) /\ u.ms = t.ms \o r
  OBVIOUS
<1> HIDE DEF r
<1>4. ASSUME NEW i \in CallIds
      PROVE  /\ Turn(g, u.ms, s, l, i) = Turn(g, t.ms, s, l, i)
             /\ Unread(u.ms, s, l, i) = Unread(t.ms, s, l, i)
  <2>1. /\ Turn(g, t.ms \o r, s, l, i) = Turn(g, t.ms, s, l, i) + Number(r, Toks(g, i))
        /\ Unread(t.ms \o r, s, l, i) = Unread(t.ms, s, l, i) + Number(r, Typed(i, "DATAB3_REQ"))
    BY <1>3, PutCounts
  <2>2. Turn(g, t.ms, s, l, i) \in Nat /\ Unread(t.ms, s, l, i) \in Nat
    BY Counted
  <2> QED  BY SMTT(40), SMTT(41), ZenonT(30), <1>2, <1>3, <2>1, <2>2
<1>5. Due(g, t.ms \o r, s, l) = Due(g, t.ms, s, l)
  BY <1>2, <1>3, PutDue
<1> QED  BY <1>3, <1>4, <1>5 DEF Quietly

\* The loop of check_appl behind the b-th application up to its n-th pass.
DeafLoop(h, t, b, n) == h = [i \in b .. n |-> IF i = b THEN t ELSE SetListen(h[i - 1], i, FALSE)]

LEMMA DeafExists ==
    ASSUME NEW t, NEW b \in Nat, NEW n \in Nat
    PROVE  \E h : DeafLoop(h, t, b, b + n)
<1> DEFINE Bad == {k \in Nat : ~ \E h : DeafLoop(h, t, b, b + k)}
<1>1. 0 \notin Bad
  <2> DEFINE h == [k \in b .. b + 0 |-> t]
  <2>1. DeafLoop(h, t, b, b + 0)
    BY DEF DeafLoop
  <2> QED  BY <2>1
<1>2. ASSUME NEW k \in Nat, NEW h, DeafLoop(h, t, b, b + k)
      PROVE  \E g : DeafLoop(g, t, b, b + (k + 1))
  <2> DEFINE g == [j \in b .. b + (k + 1) |->
                      IF j = b + (k + 1) THEN SetListen(h[b + k], b + (k + 1), FALSE) ELSE h[j]]
  <2>1. ASSUME NEW j \in b .. b + (k + 1)
        PROVE  g[j] = IF j = b THEN t ELSE SetListen(g[j - 1], j, FALSE)
    <3>0. \A i \in b .. b + (k + 1) : i # b + (k + 1) => g[i] = h[i]
      OBVIOUS
    <3>1. CASE j = b
      <4>1. b \in b .. b + k /\ b # b + (k + 1)
        OBVIOUS
      <4>2. h[b] = t
        BY <1>2, <4>1 DEF DeafLoop
      <4>3. g[b] = h[b]
        BY <3>0, <3>1, <4>1
      <4> HIDE DEF g
      <4> QED  BY <3>1, <4>2, <4>3
    <3>2. CASE j \in b + 1 .. b + k
      <4>1. /\ j \in b .. b + k /\ j # b /\ j # b + (k + 1)
            /\ j - 1 \in b .. b + (k + 1) /\ j - 1 # b + (k + 1)
        BY <3>2
      <4>2. h[j] = SetListen(h[j - 1], j, FALSE)
        BY <1>2, <4>1 DEF DeafLoop
      <4>3. g[j] = h[j] /\ g[j - 1] = h[j - 1]
        BY <3>0, <4>1
      <4> HIDE DEF g
      <4> QED  BY <4>1, <4>2, <4>3
    <3>3. CASE j = b + (k + 1)
      <4>1. /\ j # b /\ j - 1 = b + k /\ b + k \in b .. b + (k + 1) /\ b + k # b + (k + 1)
        BY <3>3
      <4>2. g[j] = SetListen(h[b + k], j, FALSE)
        BY <3>3
      <4>3. g[b + k] = h[b + k]
        BY <3>0, <4>1
      <4> HIDE DEF g
      <4> QED  BY <4>1, <4>2, <4>3
    <3>4. j = b \/ j \in b + 1 .. b + k \/ j = b + (k + 1)
      OBVIOUS
    <3> QED  BY <3>1, <3>2, <3>3, <3>4
  <2>2. g = [j \in b .. b + (k + 1) |-> g[j]]
    OBVIOUS
  <2> HIDE DEF g
  <2>3. g = [j \in b .. b + (k + 1) |-> IF j = b THEN t ELSE SetListen(g[j - 1], j, FALSE)]
    BY <2>1, <2>2, Zenon
  <2>4. DeafLoop(g, t, b, b + (k + 1))
    BY <2>3 DEF DeafLoop
  <2> QED  BY <2>4
<1>3. Bad = {}
  <2>1. ASSUME Bad # {}  PROVE FALSE
    <3>0. Bad \subseteq Nat
      OBVIOUS
    <3>1. PICK k \in Bad : \A j \in Bad : k <= j
      <4> HIDE DEF Bad
      <4> QED  BY <2>1, <3>0, Least
    <3>2. k - 1 \in Nat /\ k - 1 \notin Bad /\ k = (k - 1) + 1
      <4> HIDE DEF Bad
      <4> QED  BY <1>1, <3>0, <3>1
    <3>3. \E h : DeafLoop(h, t, b, b + (k - 1))
      BY <3>2
    <3>4. \E g : DeafLoop(g, t, b, b + ((k - 1) + 1))
      BY SMTT(40), SMTT(41), ZenonT(30), <1>2, <3>2, <3>3
    <3> QED  BY <3>1, <3>2, <3>4
  <2> QED  BY <2>1
<1> QED  BY <1>3

Silent(t) == t.ms = <<>>

\* The applications behind the b-th up to the n-th do not listen; that has been said.
Deaf(g, t, u, s, l, b, n) ==
    /\ Inv(g, u, s, l) /\ Open(u) /\ Quietly(g, t, u, s, l)
    /\ u.made = t.made /\ u.dialled = t.dialled /\ u.pollfds = t.pollfds
    /\ DOMAIN u.appls = DOMAIN t.appls
    /\ \A x \in DOMAIN t.appls :
          /\ u.appls[x].id = t.appls[x].id /\ u.appls[x].active_calls = t.appls[x].active_calls
          /\ u.appls[x].calls = t.appls[x].calls
          /\ IF x \in b + 1 .. n THEN ~u.appls[x].listen ELSE u.appls[x] = t.appls[x]
    /\ \A x \in DOMAIN u.ms : /\ u.ms[x].type = "LISTEN_REQ" /\ u.ms[x].info = 0
                              /\ \E y \in b + 1 .. n : u.ms[x].appl = t.appls[y].id

Quiets(t, k) == SetListen(t, k, FALSE)

LEMMA DeafMore ==
    ASSUME NEW g, g.recv \in BOOLEAN, NEW t, NEW u, NEW s, NEW l, NEW b \in Nat, NEW n \in Nat,
           Deaf(g, t, u, s, l, b, n), b <= n, NEW k \in DOMAIN t.appls, k = n + 1,
           NEW v, v = Quiets(u, k)
    PROVE  Deaf(g, t, v, s, l, b, k)
<1> DEFINE m == Listens(u, k, FALSE)
<1>1. /\ Inv(g, u, s, l) /\ Open(u) /\ Quietly(g, t, u, s, l)
      /\ u.made = t.made /\ u.dialled = t.dialled /\ u.pollfds = t.pollfds
      /\ DOMAIN u.appls = DOMAIN t.appls
      /\ \A x \in DOMAIN t.appls :
            /\ u.appls[x].id = t.appls[x].id /\ u.appls[x].active_calls = t.appls[x].active_calls
            /\ u.appls[x].calls = t.appls[x].calls
            /\ IF x \in b + 1 .. n THEN ~u.appls[x].listen ELSE u.appls[x] = t.appls[x]
      /\ \A x \in DOMAIN u.ms : /\ u.ms[x].type = "LISTEN_REQ" /\ u.ms[x].info = 0
                                /\ \E y \in b + 1 .. n : u.ms[x].appl = t.appls[y].id
  BY DEF Deaf
<1>2. k \in DOMAIN u.appls /\ k \in Nat /\ \A x \in b + 1 .. k : x \in b + 1 .. n \/ x = k
  BY <1>1
<1>3. k \in b + 1 .. k /\ \A x \in b + 1 .. n : x \in b + 1 .. k
  OBVIOUS
<1>4. /\ Inv(g, v, s, l) /\ Open(v) /\ v.made = u.made /\ v.dialled = u.dialled
      /\ v.pollfds = u.pollfds /\ DOMAIN v.appls = DOMAIN u.appls
      /\ \A x \in DOMAIN u.appls : x # k => v.appls[x] = u.appls[x]
      /\ v.appls[k].id = u.appls[k].id /\ v.appls[k].active_calls = u.appls[k].active_calls
      /\ v.appls[k].calls = u.appls[k].calls /\ v.appls[k].listen = FALSE
      /\ \/ v.ms = u.ms
         \/ v.ms = u.ms \o <<m>>
      /\ m \in Message /\ m.type = "LISTEN_REQ" /\ m.appl = u.appls[k].id /\ m.info = 0
  <2> DEFINE o == FALSE
  <2>1. o \in BOOLEAN /\ o = FALSE
    OBVIOUS
  <2>2. v = SetListen(u, k, o) /\ m = Listens(u, k, o)
    BY DEF Quiets
  <2> HIDE DEF o, m
  <2>3. Inv(g, u, s, l) /\ Open(u) /\ k \in DOMAIN u.appls
    BY <1>1, <1>2
  <2>4. /\ Inv(g, v, s, l) /\ Open(v) /\ v.made = u.made /\ v.dialled = u.dialled
        /\ v.pollfds = u.pollfds /\ DOMAIN v.appls = DOMAIN u.appls
        /\ \A x \in DOMAIN u.appls : x # k => v.appls[x] = u.appls[x]
        /\ v.appls[k].id = u.appls[k].id /\ v.appls[k].active_calls = u.appls[k].active_calls
        /\ v.appls[k].calls = u.appls[k].calls /\ v.appls[k].listen = o
        /\ \/ v.ms = u.ms
           \/ v.ms = u.ms \o <<m>>
        /\ m \in Message /\ m.type = "LISTEN_REQ" /\ m.appl = u.appls[k].id
        /\ m.info = IF o THEN 1 ELSE 0
    BY ONLY <2>1, <2>2, <2>3, SwitchInv
  <2> QED  BY <2>1, <2>4
<1> HIDE DEF m
<1>5. Held(s, l) /\ u.ms \in Seq(Message)
  <2>1. Structured(g, u) /\ Mailed(g, u, s, l)
    BY <1>1 DEF Inv
  <2> QED  BY <2>1, MailedIn
<1>6. Quietly(g, u, v, s, l)
  <2>1. CASE v.ms = u.ms
    BY <2>1, QuietSelf
  <2>2. CASE v.ms = u.ms \o <<m>>
    <3>1. /\ g.recv \in BOOLEAN /\ Held(s, l) /\ u.ms \in Seq(Message) /\ m \in Message
          /\ m.type = "LISTEN_REQ" /\ v.ms = u.ms \o <<m>>
      BY <1>4, <1>5, <2>2
    <3> QED  BY ONLY <3>1, QuietPut
  <2> QED  BY <1>4, <2>1, <2>2
<1>7. Quietly(g, t, v, s, l)
  BY <1>1, <1>6, QuietTwice
<1>8. ASSUME NEW x \in DOMAIN v.ms
      PROVE  (x \in DOMAIN u.ms /\ v.ms[x] = u.ms[x]) \/ v.ms[x] = m
  <2>1. CASE v.ms = u.ms
    BY <1>8, <2>1
  <2>2. CASE v.ms = u.ms \o <<m>>
    <3> DEFINE r == <<m>>
    <3>1. r \in Seq(Message) /\ v.ms = u.ms \o r /\ \A y \in DOMAIN r : r[y] = m
      BY <1>4, <2>2
    <3> HIDE DEF r
    <3>2. \A y \in DOMAIN (u.ms \o r) : \/ y \in DOMAIN u.ms /\ (u.ms \o r)[y] = u.ms[y]
                                        \/ (u.ms \o r)[y] = m
      BY SMTT(40), SMTT(41), ZenonT(30), <1>5, <3>1, ConcatOf
    <3> QED  BY <1>8, <3>1, <3>2
  <2> QED  BY <1>4, <2>1, <2>2
<1>9. ASSUME NEW x \in DOMAIN v.ms
      PROVE  /\ v.ms[x].type = "LISTEN_REQ" /\ v.ms[x].info = 0
             /\ \E y \in b + 1 .. k : v.ms[x].appl = t.appls[y].id
  BY <1>1, <1>2, <1>3, <1>4, <1>8, <1>9
<1>10. ASSUME NEW x \in DOMAIN t.appls
       PROVE  /\ v.appls[x].id = t.appls[x].id /\ v.appls[x].active_calls = t.appls[x].active_calls
              /\ v.appls[x].calls = t.appls[x].calls
              /\ IF x \in b + 1 .. k THEN ~v.appls[x].listen ELSE v.appls[x] = t.appls[x]
  BY <1>1, <1>2, <1>3, <1>4
<1> QED  BY <1>1, <1>4, <1>7, <1>9, <1>10 DEF Deaf

LEMMA DeafLoops ==
    ASSUME NEW g, g.recv \in BOOLEAN, NEW t, NEW s, NEW l, Inv(g, t, s, l), Open(t), Silent(t),
           NEW b \in Nat, NEW n \in Nat, NEW e, e = b + n, e <= Len(t.appls), NEW h, DeafLoop(h, t, b, e)
    PROVE  Deaf(g, t, h[e], s, l, b, e)
<1> DEFINE Bad == {k \in 0 .. n : ~Deaf(g, t, h[b + k], s, l, b, b + k)}
<1>0. t \in State
  BY DEF Inv, Structured
<1>1. 0 \notin Bad
  <2>1. h[b + 0] = t
    BY DEF DeafLoop
  <2>2. DOMAIN t.ms = {}
    BY DEF Silent
  <2>3. \A x : x \notin b + 1 .. b + 0
    OBVIOUS
  <2>4. Deaf(g, t, t, s, l, b, b + 0)
    BY <2>2, <2>3, QuietSelf DEF Deaf
  <2> QED  BY <2>1, <2>4
<1>2. ASSUME NEW k \in Nat, k + 1 \in 0 .. n, Deaf(g, t, h[b + k], s, l, b, b + k)
      PROVE  Deaf(g, t, h[b + (k + 1)], s, l, b, b + (k + 1))
  <2>0. b + (k + 1) \in b .. b + n /\ b + (k + 1) # b
    BY <1>2
  <2>1. h[b + (k + 1)] = SetListen(h[(b + (k + 1)) - 1], b + (k + 1), FALSE)
    BY <2>0 DEF DeafLoop, Quiets
  <2>2. (b + (k + 1)) - 1 = b + k /\ b + (k + 1) = (b + k) + 1 /\ b + k \in Nat /\ b <= b + k
    OBVIOUS
  <2>3. (b + k) + 1 \in DOMAIN t.appls
    <3>1. DOMAIN t.appls = 1 .. Len(t.appls) /\ Len(t.appls) \in Nat
      BY <1>0, StateIn
    <3> QED  BY <1>2, <3>1
  <2>4. Deaf(g, t, SetListen(h[b + k], (b + k) + 1, FALSE), s, l, b, (b + k) + 1)
    <3> DEFINE z == b + k  u == h[z]  x == z + 1  v == Quiets(u, x)
    <3>1. /\ g.recv \in BOOLEAN /\ b \in Nat /\ z \in Nat /\ b <= z /\ x \in DOMAIN t.appls
          /\ x = z + 1 /\ Deaf(g, t, u, s, l, b, z) /\ v = Quiets(u, x)
      BY <1>2, <2>2, <2>3
    <3> HIDE DEF z, u, x, v
    <3>2. Deaf(g, t, v, s, l, b, x)
      BY ONLY <3>1, DeafMore
    <3> QED  BY <3>2 DEF z, u, x, v, Quiets
  <2> QED  BY <2>1, <2>2, <2>4
<1>3. Bad = {}
  <2>1. ASSUME Bad # {}  PROVE FALSE
    <3>0. Bad \subseteq Nat
      OBVIOUS
    <3>1. PICK k \in Bad : \A j \in Bad : k <= j
      <4> HIDE DEF Bad
      <4> QED  BY <2>1, <3>0, Least
    <3>6. k \in 0 .. n
      BY <3>1
    <3>2. k - 1 \in Nat /\ k - 1 \in 0 .. n /\ k - 1 \notin Bad /\ k = (k - 1) + 1 /\ k \in 0 .. n
      <4> HIDE DEF Bad
      <4> QED  BY <1>1, <3>0, <3>1, <3>6
    <3>3. Deaf(g, t, h[b + (k - 1)], s, l, b, b + (k - 1))
      BY <3>2
    <3>4. Deaf(g, t, h[b + ((k - 1) + 1)], s, l, b, b + ((k - 1) + 1))
      BY <1>2, <3>2, <3>3
    <3>5. Deaf(g, t, h[b + k], s, l, b, b + k)
      BY <3>2, <3>4
    <3> QED  BY <3>1, <3>5
  <2> QED  BY <2>1
<1>4. n \in 0 .. n
  OBVIOUS
<1>5. Deaf(g, t, h[b + n], s, l, b, b + n)
  BY <1>3, <1>4
<1> QED  BY <1>5

LEMMA Deafens ==
    ASSUME NEW g, g.recv \in BOOLEAN, NEW t, NEW s, NEW l, Inv(g, t, s, l), Open(t), Silent(t),
           NEW k \in Nat, k >= 1, NEW n \in Nat, k - 1 <= n, n <= Len(t.appls)
    PROVE  Deaf(g, t, Deafened(t, k, n), s, l, k - 1, n)
<1> DEFINE h == CHOOSE o : o = [i \in k - 1 .. n |-> IF i = k - 1 THEN t ELSE SetListen(o[i - 1], i, FALSE)]
           b == k - 1
           d == n - b
<1>1. Deafened(t, k, n) = h[n]
  BY DEF Deafened
<1>2. b \in Nat /\ d \in Nat /\ b + d = n
  OBVIOUS
<1>3. \E o : o = [i \in k - 1 .. n |-> IF i = k - 1 THEN t ELSE SetListen(o[i - 1], i, FALSE)]
  <2>1. \E o : DeafLoop(o, t, b, b + d)
    BY <1>2, DeafExists
  <2>2. \E o : DeafLoop(o, t, b, n)
    BY <1>2, <2>1
  <2> QED  BY <2>2 DEF DeafLoop
<1>4. DeafLoop(h, t, b, n)
  BY <1>3 DEF DeafLoop
<1> HIDE DEF h, b, d
<1>7. Deaf(g, t, h[n], s, l, b, n)
  <2>1. /\ g.recv \in BOOLEAN /\ Inv(g, t, s, l) /\ Open(t) /\ Silent(t) /\ b \in Nat /\ d \in Nat
        /\ n = b + d /\ n <= Len(t.appls) /\ DeafLoop(h, t, b, n)
    BY <1>2, <1>4
  <2> QED  BY ONLY SMTT(40), SMTT(41), ZenonT(30), <2>1, DeafLoops
<1> QED  BY <1>1, <1>7 DEF b

--------------------------------------------------------------------------------
(* alloc_appl *)

\* A sequence with an element in front.
LEMMA Fronted ==
    ASSUME NEW X, NEW cs \in Seq(X), NEW c \in X, NEW ds, ds = <<c>> \o cs
    PROVE  /\ ds \in Seq(X) /\ Len(ds) = Len(cs) + 1 /\ Len(cs) \in Nat
           /\ DOMAIN cs = 1 .. Len(cs) /\ DOMAIN ds = 1 .. Len(cs) + 1
           /\ 1 \in DOMAIN ds /\ ds[1] = c
           /\ \A x \in DOMAIN cs : x \in Nat /\ x + 1 \in DOMAIN ds /\ ds[x + 1] = cs[x]
           /\ \A x \in DOMAIN ds : x = 1 \/ (x - 1 \in DOMAIN cs /\ ds[x] = cs[x - 1] /\ x # 1)
<1> DEFINE r == <<c>>
<1>1. r \in Seq(X) /\ Len(r) = 1 /\ r[1] = c /\ DOMAIN r = {1} /\ ds = r \o cs
  OBVIOUS
<1> HIDE DEF r
<1>2. /\ r \o cs \in Seq(X) /\ Len(cs) \in Nat /\ Len(r \o cs) = Len(r) + Len(cs)
      /\ DOMAIN cs = 1 .. Len(cs) /\ DOMAIN (r \o cs) = 1 .. Len(r) + Len(cs)
      /\ \A k \in DOMAIN r : k \in DOMAIN (r \o cs) /\ (r \o cs)[k] = r[k]
      /\ \A k \in DOMAIN (r \o cs) :
            \/ k \in DOMAIN r
            \/ k > Len(r) /\ k - Len(r) \in DOMAIN cs /\ (r \o cs)[k] = cs[k - Len(r)]
  BY <1>1, ConcatOf
<1> DEFINE e == r \o cs
<1>7. /\ e \in Seq(X) /\ Len(cs) \in Nat /\ Len(e) = 1 + Len(cs)
      /\ DOMAIN cs = 1 .. Len(cs) /\ DOMAIN e = 1 .. 1 + Len(cs) /\ ds = e
  BY <1>1, <1>2
<1>8. 1 \in DOMAIN e /\ e[1] = c
  BY <1>1, <1>2
<1>9. ASSUME NEW k \in DOMAIN e
      PROVE  k = 1 \/ (k > 1 /\ k - 1 \in DOMAIN cs /\ e[k] = cs[k - 1])
  BY <1>1, <1>2
<1> HIDE DEF e
<1>3. /\ e \in Seq(X) /\ Len(cs) \in Nat /\ Len(e) = 1 + Len(cs)
      /\ DOMAIN cs = 1 .. Len(cs) /\ DOMAIN e = 1 .. 1 + Len(cs)
      /\ 1 \in DOMAIN e /\ e[1] = c
      /\ \A k \in DOMAIN e : k = 1 \/ (k > 1 /\ k - 1 \in DOMAIN cs /\ e[k] = cs[k - 1])
      /\ ds = e
  BY <1>7, <1>8, <1>9
<1>4. ASSUME NEW x \in DOMAIN cs
      PROVE  x \in Nat /\ x + 1 \in DOMAIN e /\ e[x + 1] = cs[x]
  <2>1. x \in Nat /\ x >= 1 /\ x + 1 \in DOMAIN e /\ x + 1 # 1 /\ (x + 1) - 1 = x
    BY <1>3
  <2>2. e[x + 1] = cs[(x + 1) - 1]
    BY <1>3, <2>1
  <2> QED  BY <2>1, <2>2
<1>5. \A k \in DOMAIN e : k = 1 \/ (k - 1 \in DOMAIN cs /\ e[k] = cs[k - 1] /\ k # 1)
  <2>1. ASSUME NEW k \in DOMAIN e
        PROVE  k = 1 \/ (k - 1 \in DOMAIN cs /\ e[k] = cs[k - 1] /\ k # 1)
    BY <1>3
  <2> QED  BY <2>1
<1>6. Len(e) = Len(cs) + 1 /\ DOMAIN e = 1 .. Len(cs) + 1
  BY <1>3
<1> QED  BY <1>3, <1>4, <1>5, <1>6

\* There is a descriptor for an application more.
LEMMA NewFd ==
    ASSUME NEW g, NEW t, Structured(g, t), t.made + 1 \in ApplIds
    PROVE  LowestFd(t) \in Nat /\ LowestFd(t) >= 3 /\ \A k \in DOMAIN t.appls : t.appls[k].fd # LowestFd(t)
<1> DEFINE M == MaxCalls + MaxSignals
           F == {t.appls[k].fd : k \in DOMAIN t.appls}
           S == (3 .. M + 5) \ F
           D == 3 .. M + 5
           N == 1 .. t.made
           f == [d \in D |-> CHOOSE k \in DOMAIN t.appls : t.appls[k].fd = d]
           h == [d \in D |-> t.appls[f[d]].id]
<1>1. M \in Nat /\ t \in State /\ t.made \in Nat /\ t.made <= M + 1
  <2>1. M \in Nat /\ ApplIds = 1 .. M + 2
    BY Constants
  <2>2. t \in State /\ t.made \in Nat
    BY StateIn DEF Structured
  <2> HIDE DEF M
  <2> QED  BY <2>1, <2>2
<1> HIDE DEF M
<1>2. S # {}
  <2> SUFFICES ASSUME S = {}  PROVE FALSE
    OBVIOUS
  <2>1. \A d \in D : \E k \in DOMAIN t.appls : t.appls[k].fd = d
    OBVIOUS
  <2>2. \A d \in D : f[d] \in DOMAIN t.appls /\ t.appls[f[d]].fd = d
    BY <2>1
  <2>3. h \in [D -> N]
    <3>1. \A k \in DOMAIN t.appls : t.appls[k].id \in N
      BY DEF Structured, ApplRight
    <3> HIDE DEF f
    <3> QED  BY <2>2, <3>1
  <2>4. \A c, d \in D : h[c] = h[d] => c = d
    <3> SUFFICES ASSUME NEW c \in D, NEW d \in D, h[c] = h[d]  PROVE c = d
      OBVIOUS
    <3>1. t.appls[f[c]].id = t.appls[f[d]].id
      OBVIOUS
    <3> HIDE DEF f, h
    <3>2. f[c] = f[d]
      BY <2>2, <3>1 DEF Structured, Apart
    <3>3. t.appls[f[c]].fd = c /\ t.appls[f[d]].fd = d
      BY <2>2
    <3> QED  BY <3>2, <3>3
  <2>5. IsFiniteSet(N) /\ Cardinality(N) = t.made
    BY <1>1, Interval
  <2>6. IsFiniteSet(D) /\ Cardinality(D) = M + 3
    <3>1. \A a, b \in Int : /\ IsFiniteSet(a .. b)
                            /\ Cardinality(a .. b) = IF a > b THEN 0 ELSE b - a + 1
      BY FS_Interval
    <3> DEFINE b == M + 5
    <3>2. 3 \in Int /\ b \in Int /\ ~(3 > b) /\ b - 3 + 1 = M + 3
      BY <1>1
    <3> HIDE DEF b
    <3>3. IsFiniteSet(3 .. b) /\ Cardinality(3 .. b) = IF 3 > b THEN 0 ELSE b - 3 + 1
      BY <3>1, <3>2
    <3>4. IsFiniteSet(3 .. b) /\ Cardinality(3 .. b) = M + 3
      BY <3>2, <3>3
    <3> QED  BY <3>4 DEF b
  <2>7. Cardinality(N) < Cardinality(D)
    BY <1>1, <2>5, <2>6
  <2> HIDE DEF h, D, N, f, S
  <2>8. \E c, d \in D : c # d /\ h[c] = h[d]
    BY <2>3, <2>5, <2>6, <2>7, FS_PigeonHole
  <2> QED  BY <2>4, <2>8
<1>3. S \subseteq Nat /\ \A n \in S : n \in Nat /\ n >= 3 /\ n \notin F
  BY <1>1
<1>4. LowestFd(t) = Min(S)
  BY DEF LowestFd, M
<1> HIDE DEF S
<1>5. PICK n \in S : \A o \in S : n <= o
  BY <1>2, <1>3, Least
<1>6. Min(S) \in S
  BY <1>3, <1>5 DEF Min
<1> QED  BY <1>3, <1>4, <1>6

\* The new application, and the state with it before anything is said.
Newly(t) == [id |-> t.made + 1, fd |-> LowestFd(t), listen |-> FALSE, active_calls |-> 0, calls |-> <<>>,
             polled |-> Len(t.pollfds) < MaxFd]
Polling(t) == [fd |-> LowestFd(t), arg |-> t.made + 1, revents |-> FALSE]
Longer(t) == IF Len(t.pollfds) < MaxFd THEN Append(t.pollfds, Polling(t)) ELSE t.pollfds
Grown(t) == [t EXCEPT !.appls = <<Newly(t)>> \o @, !.made = @ + 1, !.pollfds = Longer(t)]

LEMMA AllocIs ==
    ASSUME NEW g, NEW t, Structured(g, t), t.made + 1 \in ApplIds
    PROVE  /\ cfg.recv => AllocAppl(t) = SetListen(Grown(t), 1, TRUE)
           /\ ~cfg.recv => AllocAppl(t) = Grown(t)
<1>1. ~ \E n \in DOMAIN t.pollfds : t.pollfds[n].fd = LowestFd(t)
  <2>1. \A k \in DOMAIN t.appls : t.appls[k].fd # LowestFd(t)
    BY NewFd
  <2> QED  BY <2>1 DEF Structured, Polls
<1>2. AllocAppl(t) = IF cfg.recv THEN SetListen(Grown(t), 1, TRUE) ELSE Grown(t)
  <2>1. t \in State
    BY DEF Structured
  <2>2. t.pollfds = t.pollfds /\ t.made = t.made
    OBVIOUS
  <2>3. CASE Len(t.pollfds) < MaxFd
    BY <1>1, <2>1, <2>3 DEF AllocAppl, Grown, Newly, Polling, Longer, State
  <2>4. CASE ~(Len(t.pollfds) < MaxFd)
    BY <1>1, <2>1, <2>4 DEF AllocAppl, Grown, Newly, Polling, Longer, State
  <2> QED  BY <2>3, <2>4
<1> QED  BY <1>2

LEMMA GrownShape ==
    ASSUME NEW g, NEW t, Structured(g, t), t.made + 1 \in ApplIds
    PROVE  /\ Grown(t) \in State /\ Grown(t).made = t.made + 1 /\ Grown(t).dialled = t.dialled
           /\ Grown(t).ms = t.ms /\ Newly(t) \in Appl /\ Polling(t) \in Polled
           /\ Newly(t).id = t.made + 1 /\ Newly(t).fd = LowestFd(t) /\ ~Newly(t).listen
           /\ Newly(t).active_calls = 0 /\ Newly(t).calls = <<>>
           /\ Grown(t).appls = <<Newly(t)>> \o t.appls
           /\ Grown(t).pollfds = Longer(t) /\ Newly(t).polled = (Len(t.pollfds) < MaxFd)
           /\ Polling(t).fd = LowestFd(t) /\ Polling(t).arg = t.made + 1
<1> DEFINE a == Newly(t)  p == Polling(t)  as == <<a>> \o t.appls  fds == Longer(t)
           room == Len(t.pollfds) < MaxFd
           u == Grown(t)  md == t.made + 1
<1>1. t \in State /\ LowestFd(t) \in Nat
  BY NewFd DEF Structured
<1>2. /\ t.appls \in Seq(Appl) /\ t.pollfds \in Seq(Polled) /\ t.made \in Nat /\ md \in Nat
  BY <1>1, StateIn
<1>3. /\ a = [id |-> md, fd |-> LowestFd(t), listen |-> FALSE, active_calls |-> 0, calls |-> <<>>,
              polled |-> room]
      /\ p = [fd |-> LowestFd(t), arg |-> md, revents |-> FALSE]
  BY DEF Newly, Polling
<1>b. fds = IF room THEN Append(t.pollfds, p) ELSE t.pollfds
  BY DEF Longer
<1>c. room \in BOOLEAN
  OBVIOUS
<1>4. u = [t EXCEPT !.appls = as, !.made = md, !.pollfds = fds]
  BY DEF Grown, u, as, fds, md, a, p, State
<1> HIDE DEF a, p, md, room
<1>5. /\ a \in Appl /\ a.id = md /\ a.fd = LowestFd(t) /\ ~a.listen /\ a.active_calls = 0 /\ a.calls = <<>>
      /\ a.polled = room
  BY <1>1, <1>2, <1>3, <1>c DEF Appl
<1>6. p \in Polled /\ p.fd = LowestFd(t) /\ p.arg = md
  BY <1>1, <1>2, <1>3 DEF Polled
<1>7. as \in Seq(Appl) /\ fds \in Seq(Polled)
  <2>1. as \in Seq(Appl)
    BY <1>2, <1>5, Fronted
  <2>2. fds \in Seq(Polled)
    BY <1>2, <1>6, <1>b
  <2> QED  BY <2>1, <2>2
<1> HIDE DEF as, fds, u
<1>8. /\ u \in State /\ u.appls = as /\ u.made = md /\ u.pollfds = fds /\ u.dialled = t.dialled
      /\ u.ms = t.ms
  BY <1>1, <1>2, <1>4, <1>7 DEF State
<1> QED  BY <1>5, <1>6, <1>8 DEF a, p, as, fds, u, md, room

\* The applications of t, and one more in front of them.
OneMore(t, u) ==
    /\ 1 \in DOMAIN u.appls /\ Len(u.appls) = Len(t.appls) + 1 /\ Len(t.appls) \in Nat
    /\ \A x \in DOMAIN t.appls : x + 1 \in DOMAIN u.appls /\ u.appls[x + 1] = t.appls[x] /\ x \in Nat
    /\ \A x \in DOMAIN u.appls : x = 1 \/ (x - 1 \in DOMAIN t.appls /\ u.appls[x] = t.appls[x - 1] /\ x # 1)

LEMMA GrownInv ==
    ASSUME NEW g, NEW t, NEW s, NEW l, Inv(g, t, s, l), Open(t), t.made + 1 \in ApplIds
    PROVE  /\ Inv(g, Grown(t), s, l) /\ Open(Grown(t)) /\ OneMore(t, Grown(t))
           /\ Grown(t).appls[1] = Newly(t)
<1> DEFINE u == Grown(t)  a == Newly(t)  p == Polling(t)  fd == LowestFd(t)
<1>1. /\ Structured(g, t) /\ Mailed(g, t, s, l) /\ Fits(g, t, s, l)
      /\ t \in State /\ t.made \in Nat /\ t.dialled \in Nat /\ t.appls \in Seq(Appl)
      /\ t.pollfds \in Seq(Polled) /\ t.ms \in Seq(Message)
  <2>1. Structured(g, t) /\ Mailed(g, t, s, l) /\ Fits(g, t, s, l) /\ t \in State
    BY DEF Inv, Structured
  <2> QED  BY <2>1, StateIn
<1>2. /\ u \in State /\ u.made = t.made + 1 /\ u.dialled = t.dialled /\ u.ms = t.ms
      /\ a \in Appl /\ p \in Polled /\ a.id = t.made + 1 /\ a.fd = fd /\ a.active_calls = 0
      /\ a.calls = <<>> /\ u.appls = <<a>> \o t.appls /\ u.pollfds = Longer(t)
      /\ a.polled = (Len(t.pollfds) < MaxFd) /\ p.fd = fd /\ p.arg = t.made + 1
  BY <1>1, GrownShape
<1>b. Longer(t) = IF Len(t.pollfds) < MaxFd THEN Append(t.pollfds, p) ELSE t.pollfds
  BY DEF Longer
<1>3. fd \in Nat /\ fd >= 3 /\ \A k \in DOMAIN t.appls : t.appls[k].fd # fd
  BY <1>1, NewFd
<1> HIDE DEF u, a, p, fd
<1>4. OneMore(t, u) /\ u.appls[1] = a
  <2> DEFINE as == u.appls
  <2>1. /\ Len(as) = Len(t.appls) + 1 /\ Len(t.appls) \in Nat /\ 1 \in DOMAIN as /\ as[1] = a
        /\ \A x \in DOMAIN t.appls : x \in Nat /\ x + 1 \in DOMAIN as /\ as[x + 1] = t.appls[x]
        /\ \A x \in DOMAIN as : x = 1 \/ (x - 1 \in DOMAIN t.appls /\ as[x] = t.appls[x - 1] /\ x # 1)
    BY SMTT(40), SMTT(41), ZenonT(30), <1>1, <1>2, Fronted
  <2> QED  BY <2>1 DEF OneMore
<1>5. \A x \in DOMAIN t.appls : x + 1 \in DOMAIN u.appls /\ u.appls[x + 1] = t.appls[x]
  BY <1>4 DEF OneMore
<1>6. ASSUME NEW x \in DOMAIN u.appls
      PROVE  \/ x = 1 /\ u.appls[x] = a
             \/ x # 1 /\ x - 1 \in DOMAIN t.appls /\ u.appls[x] = t.appls[x - 1]
  BY <1>4 DEF OneMore
<1>7. \A k \in DOMAIN t.appls : /\ ApplRight(g, t.appls[k], t.made, t.dialled)
                                /\ t.appls[k].id \in 1 .. t.made
  BY <1>1 DEF Structured, ApplRight
<1>8. ASSUME NEW x \in DOMAIN u.appls
      PROVE  ApplRight(g, u.appls[x], u.made, u.dialled)
  <2>1. CASE u.appls[x] = a
    <3>1. Len(a.calls) = 0 /\ DOMAIN a.calls = {}
      BY <1>2
    <3> QED  BY SMTT(40), SMTT(41), ZenonT(30), <1>1, <1>2, <1>3, <2>1, <3>1 DEF ApplRight
  <2>2. CASE x - 1 \in DOMAIN t.appls /\ u.appls[x] = t.appls[x - 1]
    <3>1. ApplRight(g, t.appls[x - 1], t.made, t.dialled)
      BY <1>7, <2>2
    <3> QED  BY SMTT(40), SMTT(41), ZenonT(30), <1>1, <1>2, <2>2, <3>1 DEF ApplRight
  <2> QED  BY <1>6, <2>1, <2>2
<1>9. Apart(u.appls)
  <2>0. DOMAIN a.calls = {}
    BY <1>2
  <2>1. ASSUME NEW x \in DOMAIN u.appls, NEW y \in DOMAIN u.appls,
               u.appls[x].id = u.appls[y].id \/ u.appls[x].fd = u.appls[y].fd
        PROVE  x = y
    <3>1. CASE x = 1 /\ y = 1
      BY <3>1
    <3>2. CASE x = 1 /\ y # 1
      <4>1. u.appls[x] = a /\ y - 1 \in DOMAIN t.appls /\ u.appls[y] = t.appls[y - 1]
        BY <1>6, <3>2
      <4>2. t.appls[y - 1].id \in 1 .. t.made /\ t.appls[y - 1].fd # fd
        BY <1>3, <1>7, <4>1
      <4>3. a.id = t.appls[y - 1].id \/ a.fd = t.appls[y - 1].fd
        BY <2>1, <4>1
      <4>4. a.id # t.appls[y - 1].id
        BY <1>1, <1>2, <4>2
      <4> QED  BY <1>2, <4>2, <4>3, <4>4
    <3>3. CASE x # 1 /\ y = 1
      <4>1. u.appls[y] = a /\ x - 1 \in DOMAIN t.appls /\ u.appls[x] = t.appls[x - 1]
        BY <1>6, <3>3
      <4>2. t.appls[x - 1].id \in 1 .. t.made /\ t.appls[x - 1].fd # fd
        BY <1>3, <1>7, <4>1
      <4> QED  BY SMTT(40), SMTT(41), ZenonT(30), <1>1, <1>2, <2>1, <4>1, <4>2
    <3>4. CASE x # 1 /\ y # 1
      <4>1. /\ x - 1 \in DOMAIN t.appls /\ u.appls[x] = t.appls[x - 1]
            /\ y - 1 \in DOMAIN t.appls /\ u.appls[y] = t.appls[y - 1]
        BY <1>6, <3>4
      <4>2. x - 1 = y - 1
        BY <1>1, <2>1, <4>1 DEF Structured, Apart
      <4>3. x \in Nat /\ y \in Nat
        BY <1>2, StateIn
      <4> QED  BY <4>2, <4>3
    <3> QED  BY <3>1, <3>2, <3>3, <3>4
  <2>2. ASSUME NEW x \in DOMAIN u.appls, NEW y \in DOMAIN u.appls,
               NEW i \in DOMAIN u.appls[x].calls, NEW j \in DOMAIN u.appls[y].calls,
               u.appls[x].calls[i].id = u.appls[y].calls[j].id
        PROVE  x = y /\ i = j
    <3>1. /\ x # 1 /\ x - 1 \in DOMAIN t.appls /\ u.appls[x] = t.appls[x - 1]
          /\ y # 1 /\ y - 1 \in DOMAIN t.appls /\ u.appls[y] = t.appls[y - 1]
      BY <1>6, <2>0
    <3>2. x - 1 = y - 1 /\ i = j
      BY <1>1, <2>2, <3>1 DEF Structured, Apart
    <3>3. x \in Nat /\ y \in Nat
      BY <1>2, StateIn
    <3> QED  BY <3>2, <3>3
  <2> QED  BY <2>1, <2>2 DEF Apart
<1>10. Polls(u.appls, u.pollfds)
  <2>1. /\ Len(t.pollfds) <= MaxFd /\ Len(t.pollfds) \in Nat
        /\ \A k \in DOMAIN t.appls :
              t.appls[k].polled <=> \E n \in DOMAIN t.pollfds : t.pollfds[n].fd = t.appls[k].fd
        /\ \A n \in DOMAIN t.pollfds : \E k \in DOMAIN t.appls :
              t.appls[k].fd = t.pollfds[n].fd /\ t.appls[k].id = t.pollfds[n].arg
        /\ \A m, n \in DOMAIN t.pollfds : t.pollfds[m].fd = t.pollfds[n].fd => m = n
    BY <1>1, StateIn DEF Structured, Polls
  <2> DEFINE room == Len(t.pollfds) < MaxFd
  <2>2. /\ room => u.pollfds = Append(t.pollfds, p)
        /\ ~room => u.pollfds = t.pollfds
        /\ a.polled <=> room
    BY <1>2, <1>b
  <2>3. /\ \A n \in DOMAIN u.pollfds : \/ n \in DOMAIN t.pollfds /\ u.pollfds[n] = t.pollfds[n]
                                       \/ n = Len(t.pollfds) + 1 /\ u.pollfds[n] = p /\ room
        /\ \A n \in DOMAIN t.pollfds : n \in DOMAIN u.pollfds /\ u.pollfds[n] = t.pollfds[n]
        /\ room => \E n \in DOMAIN u.pollfds : u.pollfds[n] = p
        /\ Len(u.pollfds) <= MaxFd
    <3>1. MaxFd \in Nat
      BY CapiTestAssumption
    <3>2. CASE room
      <4> DEFINE q == t.pollfds  r == Append(q, p)  e == Len(q)
      <4>1. /\ q \in Seq(Polled) /\ p \in Polled /\ e \in Nat /\ e < MaxFd
        BY <1>1, <1>2, <2>1, <3>2
      <4>2. /\ DOMAIN q = 1 .. e /\ Len(r) = e + 1 /\ DOMAIN r = 1 .. e + 1
            /\ \A n \in 1 .. e : r[n] = q[n]
            /\ r[e + 1] = p
        <5> HIDE DEF q
        <5> QED  BY <4>1
      <4>3. u.pollfds = r
        BY <2>2, <3>2
      <4> HIDE DEF q, r, e
      <4>4. /\ \A n \in DOMAIN r : \/ n \in DOMAIN q /\ r[n] = q[n]
                                   \/ n = e + 1 /\ r[n] = p
            /\ \A n \in DOMAIN q : n \in DOMAIN r /\ r[n] = q[n]
            /\ \E n \in DOMAIN r : r[n] = p
            /\ Len(r) <= MaxFd
        BY <3>1, <4>1, <4>2
      <4> QED  BY <3>2, <4>3, <4>4 DEF q, e
    <3>3. CASE ~room
      BY <2>1, <2>2, <3>3
    <3> QED  BY <3>2, <3>3
  <2> HIDE DEF room
  <2>4. ASSUME NEW n \in DOMAIN u.pollfds
        PROVE  \E k \in DOMAIN u.appls : u.appls[k].fd = u.pollfds[n].fd /\ u.appls[k].id = u.pollfds[n].arg
    <3>1. CASE n \in DOMAIN t.pollfds /\ u.pollfds[n] = t.pollfds[n]
      <4>1. PICK k \in DOMAIN t.appls : t.appls[k].fd = t.pollfds[n].fd /\ t.appls[k].id = t.pollfds[n].arg
        BY <2>1, <3>1
      <4> QED  BY <1>5, <3>1, <4>1
    <3>2. CASE u.pollfds[n] = p
      <4>1. 1 \in DOMAIN u.appls /\ u.appls[1] = a
        BY <1>4 DEF OneMore
      <4> QED  BY <1>2, <3>2, <4>1
    <3> QED  BY <2>3, <3>1, <3>2
  <2>5. ASSUME NEW n \in DOMAIN t.pollfds
        PROVE  t.pollfds[n].fd # p.fd
    BY <1>2, <1>3, <2>1, SMTT(40), SMTT(41), ZenonT(30)
  <2>6. ASSUME NEW m \in DOMAIN u.pollfds, NEW n \in DOMAIN u.pollfds, u.pollfds[m].fd = u.pollfds[n].fd
        PROVE  m = n
    BY <2>1, <2>3, <2>5, <2>6
  <2>7. ASSUME NEW x \in DOMAIN u.appls
        PROVE  u.appls[x].polled <=> \E n \in DOMAIN u.pollfds : u.pollfds[n].fd = u.appls[x].fd
    <3>1. CASE u.appls[x] = a
      <4>1. (\E n \in DOMAIN u.pollfds : u.pollfds[n].fd = p.fd) <=> room
        BY <2>3, <2>5
      <4> QED  BY <1>2, <2>2, <3>1, <4>1
    <3>2. CASE x - 1 \in DOMAIN t.appls /\ u.appls[x] = t.appls[x - 1]
      <4> DEFINE y == x - 1
      <4>1. y \in DOMAIN t.appls /\ u.appls[x] = t.appls[y] /\ t.appls[y].fd # p.fd
        BY <1>2, <1>3, <3>2
      <4> HIDE DEF y
      <4>2. t.appls[y].polled <=> \E n \in DOMAIN t.pollfds : t.pollfds[n].fd = t.appls[y].fd
        BY <2>1, <4>1
      <4>3. (\E n \in DOMAIN t.pollfds : t.pollfds[n].fd = t.appls[y].fd)
               <=> \E n \in DOMAIN u.pollfds : u.pollfds[n].fd = t.appls[y].fd
        BY <2>3, <4>1
      <4> QED  BY <4>1, <4>2, <4>3
    <3> QED  BY <1>6, <3>1, <3>2
  <2> QED  BY <2>3, <2>4, <2>6, <2>7 DEF Polls
<1>11. Structured(g, u)
  <2>1. u.made \in ApplIds \cup {0} /\ u.dialled \in CallIds \cup {0}
    BY <1>1, <1>2 DEF Structured
  <2> QED  BY <1>2, <1>8, <1>9, <1>10, <2>1 DEF Structured
<1>12. Fits(g, u, s, l)
  <2> SUFFICES ASSUME NEW x \in DOMAIN u.appls, NEW j \in DOMAIN u.appls[x].calls
               PROVE  Fit(g, u.ms, s, l, u.appls[x].id, u.appls[x].calls[j])
    BY DEF Fits
  <2>0. DOMAIN a.calls = {}
    BY <1>2
  <2>1. x - 1 \in DOMAIN t.appls /\ u.appls[x] = t.appls[x - 1]
    BY <1>6, <2>0
  <2>2. Fit(g, t.ms, s, l, t.appls[x - 1].id, t.appls[x - 1].calls[j])
    BY <1>1, <2>1 DEF Fits
  <2> QED  BY <1>2, <2>1, <2>2
<1>13. Inv(g, u, s, l) /\ Open(u)
  <2> DEFINE r == <<>>
  <2>1. /\ r \in Seq(Message) /\ DOMAIN r = {} /\ \A T : Number(r, T) = 0
    <3>1. ASSUME NEW T  PROVE Number(r, T) = 0
      BY NumberOne
    <3> QED  BY <3>1
  <2>2. u.ms = t.ms \o r
    BY <1>1, <1>2
  <2> HIDE DEF r
  <2>3. Askable(g, r, l, u.made, u.dialled) /\ Puttable(g, t.ms, r, s, l)
    BY <2>1 DEF Askable, Puttable
  <2>4. t.made <= u.made /\ t.dialled <= u.dialled
    BY <1>1, <1>2
  <2>5. /\ r \in Seq(Message) /\ Inv(g, t, s, l) /\ Open(t) /\ Structured(g, u) /\ Fits(g, u, s, l)
    BY <1>11, <1>12, <2>1
  <2> QED  BY ONLY <2>2, <2>3, <2>4, <2>5, Extend
<1> QED  BY <1>4, <1>13 DEF u, a

\* An application is made: it is the first, and that of a receiver listens.
Registers(g, t, u, s, l) ==
    /\ Inv(g, u, s, l) /\ Open(u) /\ OneMore(t, u) /\ Quietly(g, t, u, s, l)
    /\ u.made = t.made + 1 /\ u.dialled = t.dialled
    /\ u.appls[1].id = t.made + 1 /\ u.appls[1].active_calls = 0 /\ u.appls[1].calls = <<>>
    /\ u.appls[1].listen <=> g.recv
    /\ ~g.recv => u.ms = t.ms
    /\ g.recv => /\ \A n \in DOMAIN t.ms : n \in DOMAIN u.ms /\ u.ms[n] = t.ms[n]
                 /\ \A n \in DOMAIN u.ms : (n \in DOMAIN t.ms /\ u.ms[n] = t.ms[n]) \/ Asks(u.ms[n], t.made + 1, 1)
                 /\ \E n \in DOMAIN u.ms : Asks(u.ms[n], t.made + 1, 1)

LEMMA Allocs ==
    ASSUME cfg.recv \in BOOLEAN, NEW t, NEW s, NEW l, Inv(cfg, t, s, l), Open(t), t.made + 1 \in ApplIds
    PROVE  Registers(cfg, t, AllocAppl(t), s, l)
<1> DEFINE w == Grown(t)  u == AllocAppl(t)
<1>1. /\ Structured(cfg, t) /\ Mailed(cfg, t, s, l) /\ Held(s, l) /\ t.ms \in Seq(Message) /\ t.made \in Nat
  <2>1. Structured(cfg, t) /\ Mailed(cfg, t, s, l)
    BY DEF Inv
  <2> QED  BY <2>1, MailedIn
<1>2. Inv(cfg, w, s, l) /\ Open(w) /\ OneMore(t, w) /\ w.appls[1] = Newly(t)
  BY GrownInv
<1>3. /\ w.made = t.made + 1 /\ w.dialled = t.dialled /\ w.ms = t.ms
      /\ w.appls[1].id = t.made + 1 /\ w.appls[1].active_calls = 0 /\ w.appls[1].calls = <<>>
      /\ ~w.appls[1].listen
  BY <1>1, <1>2, GrownShape
<1>4. Quietly(cfg, t, w, s, l)
  BY <1>3, QuietSelf
<1>5. CASE ~cfg.recv
  <2>1. u = w
    BY <1>1, <1>5, AllocIs
  <2> HIDE DEF u, w
  <2>2. Registers(cfg, t, u, s, l)
    BY <1>2, <1>3, <1>4, <1>5, <2>1 DEF Registers
  <2> QED  BY <2>2 DEF u
<1>6. CASE cfg.recv
  <2> DEFINE b == TRUE  k == 1  m == Listens(w, k, b)
  <2>1. u = SetListen(w, k, b) /\ b \in BOOLEAN /\ b /\ k \in DOMAIN w.appls /\ k = 1
    BY <1>1, <1>2, <1>6, AllocIs DEF OneMore
  <2> HIDE DEF u, w, b, k, m
  <2>2. /\ Inv(cfg, u, s, l) /\ Open(u) /\ u.made = w.made /\ u.dialled = w.dialled
        /\ DOMAIN u.appls = DOMAIN w.appls
        /\ \A n \in DOMAIN w.appls : n # k => u.appls[n] = w.appls[n]
        /\ u.appls[k].id = w.appls[k].id /\ u.appls[k].active_calls = w.appls[k].active_calls
        /\ u.appls[k].calls = w.appls[k].calls /\ u.appls[k].listen = b
        /\ \/ w.appls[k].listen = b /\ u.ms = w.ms
           \/ w.appls[k].listen # b /\ u.ms = w.ms \o <<m>>
        /\ m \in Message /\ m.type = "LISTEN_REQ" /\ m.appl = w.appls[k].id
        /\ m.info = IF b THEN 1 ELSE 0
    <3>1. Inv(cfg, w, s, l) /\ Open(w) /\ k \in DOMAIN w.appls /\ b \in BOOLEAN /\ u = SetListen(w, k, b)
      BY <1>2, <2>1
    <3> QED  BY ONLY <3>1, SwitchInv DEF m
  <2>3. u.ms = t.ms \o <<m>> /\ Asks(m, t.made + 1, 1)
    BY <1>3, <2>1, <2>2 DEF Asks
  <2>4. Quietly(cfg, t, u, s, l)
    <3>1. /\ cfg.recv \in BOOLEAN /\ Held(s, l) /\ t.ms \in Seq(Message) /\ m \in Message
          /\ m.type = "LISTEN_REQ" /\ u.ms = t.ms \o <<m>>
      BY <1>1, <2>2, <2>3
    <3> QED  BY ONLY <3>1, QuietPut
  <2>5. OneMore(t, u)
    <3>1. Len(u.appls) = Len(w.appls)
      <4>1. u \in State /\ w \in State
        BY <1>2, <2>2 DEF Inv, Structured
      <4>2. /\ DOMAIN u.appls = 1 .. Len(u.appls) /\ DOMAIN w.appls = 1 .. Len(w.appls)
            /\ Len(u.appls) \in Nat /\ Len(w.appls) \in Nat
        BY <4>1, StateIn
      <4>3. 1 .. Len(u.appls) = 1 .. Len(w.appls)
        BY <2>2, <4>2
      <4> DEFINE x == Len(u.appls)  y == Len(w.appls)
      <4>4. x \in Nat /\ y \in Nat /\ 1 .. x = 1 .. y
        BY <4>2, <4>3
      <4> HIDE DEF x, y
      <4>5. x = y
        BY ONLY <4>4
      <4> QED  BY <4>5 DEF x, y
    <3>2. \A x \in DOMAIN t.appls : x + 1 # 1
      <4>1. t \in State
        BY <1>1 DEF Structured
      <4>2. \A x \in DOMAIN t.appls : x \in Nat /\ x >= 1
        BY <4>1, StateIn
      <4> QED  BY <4>2
    <3>3. /\ 1 \in DOMAIN w.appls /\ Len(w.appls) = Len(t.appls) + 1 /\ Len(t.appls) \in Nat
          /\ \A x \in DOMAIN t.appls : x + 1 \in DOMAIN w.appls /\ w.appls[x + 1] = t.appls[x] /\ x \in Nat
          /\ \A x \in DOMAIN w.appls : x = 1 \/ (x - 1 \in DOMAIN t.appls /\ w.appls[x] = t.appls[x - 1] /\ x # 1)
      BY <1>2 DEF OneMore
    <3>4. DOMAIN u.appls = DOMAIN w.appls /\ \A n \in DOMAIN w.appls : n # 1 => u.appls[n] = w.appls[n]
      BY <2>1, <2>2
    <3>5. ASSUME NEW x \in DOMAIN t.appls
          PROVE  x + 1 \in DOMAIN u.appls /\ u.appls[x + 1] = t.appls[x] /\ x \in Nat
      BY <3>2, <3>3, <3>4
    <3>6. ASSUME NEW x \in DOMAIN u.appls
          PROVE  x = 1 \/ (x - 1 \in DOMAIN t.appls /\ u.appls[x] = t.appls[x - 1] /\ x # 1)
      BY <3>3, <3>4
    <3> QED  BY <3>1, <3>3, <3>4, <3>5, <3>6 DEF OneMore
  <2>6. /\ \A n \in DOMAIN t.ms : n \in DOMAIN u.ms /\ u.ms[n] = t.ms[n]
        /\ \A n \in DOMAIN u.ms : (n \in DOMAIN t.ms /\ u.ms[n] = t.ms[n]) \/ u.ms[n] = m
        /\ \E n \in DOMAIN u.ms : u.ms[n] = m
    <3>1. Append(t.ms, m) = t.ms \o <<m>>
      BY <1>1, <2>2
    <3> DEFINE q == t.ms  e == Append(q, m)
    <3>2. q \in Seq(Message) /\ m \in Message
      BY <1>1, <2>2
    <3> HIDE DEF q
    <3>3. /\ DOMAIN q = 1 .. Len(q) /\ Len(q) \in Nat /\ DOMAIN e = 1 .. Len(q) + 1
          /\ \A n \in DOMAIN q : e[n] = q[n]
          /\ e[Len(q) + 1] = m
      BY <3>2
    <3> HIDE DEF e
    <3>4. /\ \A n \in DOMAIN q : n \in DOMAIN e /\ e[n] = q[n]
          /\ \A n \in DOMAIN e : (n \in DOMAIN q /\ e[n] = q[n]) \/ e[n] = m
          /\ \E n \in DOMAIN e : e[n] = m
      BY <3>3
    <3>5. u.ms = e
      BY <2>3, <3>1 DEF e, q
    <3> QED  BY <3>4, <3>5 DEF q
  <2>7. Registers(cfg, t, u, s, l)
    BY ZenonT(60), <1>3, <1>6, <2>1, <2>2, <2>3, <2>4, <2>5, <2>6 DEF Registers
  <2> QED  BY <2>7 DEF u
<1> QED  BY <1>5, <1>6

--------------------------------------------------------------------------------
(* check_appl, for a receiver *)

\* Only the k-th application may listen and be full.
Told(g, t, k, ls) ==
    \A x \in DOMAIN t.appls : t.appls[x].listen =>
        t.appls[x].id \in ls /\ (x # k => t.appls[x].active_calls < g.callperappl)

Checked(g, t, u, s, l, ls) ==
    /\ Inv(g, u, s, l) /\ Open(u) /\ Heard(g, u, ls) /\ Quietly(g, t, u, s, l)
    /\ \E x \in DOMAIN u.appls : u.appls[x].listen
    /\ u.dialled = t.dialled /\ u.made \in {t.made, t.made + 1}
    /\ \A x \in DOMAIN u.appls : \/ u.appls[x].calls = <<>>
                                 \/ \E y \in DOMAIN t.appls : u.appls[x].calls = t.appls[y].calls

LEMMA RoomsIn ==
    ASSUME cfg \in Configs, NEW t \in State, NEW k \in DOMAIN t.appls
    PROVE  /\ Rooms(t, k) # {} => /\ Min(Rooms(t, k)) \in DOMAIN t.appls /\ Min(Rooms(t, k)) >= k
                                  /\ Min(Rooms(t, k)) \in Nat
                                  /\ t.appls[Min(Rooms(t, k))].active_calls < cfg.callperappl
                                  /\ \A x \in k .. Min(Rooms(t, k)) - 1 : ~(t.appls[x].active_calls < cfg.callperappl)
                                  /\ \A x \in Rooms(t, k) : Min(Rooms(t, k)) <= x
           /\ Rooms(t, k) = {} => \A x \in k .. Len(t.appls) : ~(t.appls[x].active_calls < cfg.callperappl)
<1> DEFINE R == Rooms(t, k)  n == Min(R)
<1>1. DOMAIN t.appls = 1 .. Len(t.appls) /\ Len(t.appls) \in Nat /\ k \in 1 .. Len(t.appls)
  BY StateIn
<1>2. R = {x \in k .. Len(t.appls) : t.appls[x].active_calls < cfg.callperappl}
  BY DEF Rooms
<1> HIDE DEF R
<1>3. R \subseteq Nat /\ \A x \in R : x \in DOMAIN t.appls /\ x >= k /\ x \in Nat
  BY <1>1, <1>2
<1>4. ASSUME R # {}
      PROVE  n \in R /\ \A x \in R : n <= x
  <2>1. PICK m \in R : \A x \in R : m <= x
    BY <1>3, <1>4, Least
  <2> QED  BY <1>3, <2>1 DEF Min
<1> HIDE DEF n
<1>5. ASSUME R # {}, NEW x \in k .. n - 1
      PROVE  ~(t.appls[x].active_calls < cfg.callperappl)
  <2>0. n \in k .. Len(t.appls) /\ n \in Nat /\ k \in Nat /\ Len(t.appls) \in Nat
    BY <1>1, <1>2, <1>4, <1>5
  <2>1. x \in k .. Len(t.appls) /\ ~(n <= x)
    BY <2>0, <1>5
  <2>2. x \notin R
    BY <1>4, <1>5, <2>1
  <2> QED  BY <1>2, <2>1, <2>2
<1>6. ASSUME R # {}
      PROVE  /\ n \in DOMAIN t.appls /\ n >= k /\ n \in Nat /\ t.appls[n].active_calls < cfg.callperappl
             /\ \A x \in R : n <= x
  BY <1>2, <1>3, <1>4, <1>6
<1>7. ASSUME R = {}
      PROVE  \A x \in k .. Len(t.appls) : ~(t.appls[x].active_calls < cfg.callperappl)
  BY <1>2, <1>7
<1> QED  BY <1>5, <1>6, <1>7 DEF n, R

LEMMA Checks ==
    ASSUME cfg \in Configs, cfg.recv, NEW t, NEW s, NEW l, NEW ls, Inv(cfg, t, s, l), Open(t), Silent(t),
           NEW k \in DOMAIN t.appls, t.made + 1 \in ApplIds, ls \subseteq 1 .. t.made, Told(cfg, t, k, ls)
    PROVE  Checked(cfg, t, CheckAppl(t, k), s, l, ls)
<1> DEFINE u == CheckAppl(t, k)  c == cfg.callperappl
<1>1. /\ Structured(cfg, t) /\ t \in State /\ t.ms \in Seq(Message) /\ t.made \in Nat
      /\ Len(t.appls) \in Nat /\ DOMAIN t.appls = 1 .. Len(t.appls) /\ Apart(t.appls)
      /\ \A x \in DOMAIN t.appls : t.appls[x].id \in 1 .. t.made /\ x \in Nat
      /\ k \in Nat /\ k >= 1 /\ k <= Len(t.appls) /\ cfg.recv \in BOOLEAN
  <2>1. Structured(cfg, t) /\ t \in State /\ Apart(t.appls)
    BY DEF Inv, Structured
  <2>2. /\ t.ms \in Seq(Message) /\ t.made \in Nat /\ Len(t.appls) \in Nat
        /\ DOMAIN t.appls = 1 .. Len(t.appls)
    BY <2>1, StateIn
  <2>3. \A x \in DOMAIN t.appls : t.appls[x].id \in 1 .. t.made
    BY <2>1 DEF Structured, ApplRight
  <2> QED  BY <2>1, <2>2, <2>3, Options
<1>2. CASE Rooms(t, k) # {}
  <2> DEFINE n == Min(Rooms(t, k))  b == k - 1  e == n - 1  v == Deafened(t, k, e)
             on == TRUE  m == Listens(v, n, on)
  <2>1. /\ n \in DOMAIN t.appls /\ n >= k /\ n \in Nat /\ t.appls[n].active_calls < c
        /\ \A x \in k .. n - 1 : ~(t.appls[x].active_calls < c)
    BY <1>1, <1>2, RoomsIn
  <2>2. u = SetListen(v, n, on) /\ on \in BOOLEAN /\ on
    BY <1>2 DEF CheckAppl
  <2> HIDE DEF n, u, on, m
  <2>3. e \in Nat /\ b <= e /\ e <= Len(t.appls) /\ b \in Nat
    BY <1>1, <2>1
  <2>4. Deaf(cfg, t, v, s, l, b, e)
    <3>1. /\ cfg.recv \in BOOLEAN /\ Inv(cfg, t, s, l) /\ Open(t) /\ Silent(t) /\ k \in Nat /\ k >= 1
          /\ e \in Nat /\ k - 1 <= e /\ e <= Len(t.appls)
      BY <1>1, <2>3
    <3> HIDE DEF e
    <3>2. Deaf(cfg, t, Deafened(t, k, e), s, l, k - 1, e)
      BY ONLY <3>1, Deafens
    <3> QED  BY <3>2
  <2>5. \A x : x \in b + 1 .. e <=> x \in k .. n - 1
    BY <1>1, <2>1
  <2> HIDE DEF b, e, v
  <2>6. /\ Inv(cfg, v, s, l) /\ Open(v) /\ Quietly(cfg, t, v, s, l)
        /\ v.made = t.made /\ v.dialled = t.dialled /\ DOMAIN v.appls = DOMAIN t.appls
        /\ \A x \in DOMAIN t.appls :
              /\ v.appls[x].id = t.appls[x].id /\ v.appls[x].active_calls = t.appls[x].active_calls
              /\ v.appls[x].calls = t.appls[x].calls
              /\ IF x \in k .. n - 1 THEN ~v.appls[x].listen ELSE v.appls[x] = t.appls[x]
        /\ \A x \in DOMAIN v.ms : /\ v.ms[x].type = "LISTEN_REQ" /\ v.ms[x].info = 0
                                  /\ \E y \in k .. n - 1 : v.ms[x].appl = t.appls[y].id
    BY <2>4, <2>5 DEF Deaf
  <2>7. /\ Inv(cfg, u, s, l) /\ Open(u) /\ u.made = v.made /\ u.dialled = v.dialled
        /\ DOMAIN u.appls = DOMAIN v.appls
        /\ \A x \in DOMAIN v.appls : x # n => u.appls[x] = v.appls[x]
        /\ u.appls[n].id = v.appls[n].id /\ u.appls[n].active_calls = v.appls[n].active_calls
        /\ u.appls[n].calls = v.appls[n].calls /\ u.appls[n].listen = on
        /\ \/ v.appls[n].listen = on /\ u.ms = v.ms
           \/ v.appls[n].listen # on /\ u.ms = v.ms \o <<m>>
        /\ m \in Message /\ m.type = "LISTEN_REQ" /\ m.appl = v.appls[n].id
        /\ m.info = IF on THEN 1 ELSE 0
    <3>1. Inv(cfg, v, s, l) /\ Open(v) /\ n \in DOMAIN v.appls /\ on \in BOOLEAN /\ u = SetListen(v, n, on)
      BY <2>1, <2>2, <2>6
    <3> QED  BY ONLY <3>1, SwitchInv DEF m
  <2>8. v.ms \in Seq(Message) /\ Held(s, l)
    <3>1. Structured(cfg, v) /\ Mailed(cfg, v, s, l)
      BY <2>6 DEF Inv
    <3> QED  BY <3>1, MailedIn
  <2>9. Asks(m, t.appls[n].id, 1) /\ m.info = 1
    BY <2>1, <2>2, <2>6, <2>7 DEF Asks
  <2>10. /\ \A x \in DOMAIN v.ms : x \in DOMAIN u.ms /\ u.ms[x] = v.ms[x]
         /\ \A x \in DOMAIN u.ms : (x \in DOMAIN v.ms /\ u.ms[x] = v.ms[x]) \/ u.ms[x] = m
         /\ v.appls[n].listen \/ \E x \in DOMAIN u.ms : u.ms[x] = m
    <3>1. CASE u.ms = v.ms /\ v.appls[n].listen = on
      BY <2>2, <3>1
    <3>2. CASE u.ms = v.ms \o <<m>>
      <4> DEFINE q == v.ms  x == Append(q, m)
      <4>1. q \in Seq(Message) /\ m \in Message /\ u.ms = x
        BY <2>7, <2>8, <3>2
      <4> HIDE DEF q
      <4>2. /\ DOMAIN q = 1 .. Len(q) /\ Len(q) \in Nat /\ DOMAIN x = 1 .. Len(q) + 1
            /\ \A y \in DOMAIN q : x[y] = q[y]
            /\ x[Len(q) + 1] = m
        BY <4>1
      <4> HIDE DEF x
      <4>3. /\ \A y \in DOMAIN q : y \in DOMAIN x /\ x[y] = q[y]
            /\ \A y \in DOMAIN x : (y \in DOMAIN q /\ x[y] = q[y]) \/ x[y] = m
            /\ \E y \in DOMAIN x : x[y] = m
        BY <4>2
      <4> QED  BY <4>1, <4>3 DEF q
    <3> QED  BY <2>7, <3>1, <3>2
  <2>11. Quietly(cfg, t, u, s, l)
    <3>1. CASE u.ms = v.ms
      <4>1. Quietly(cfg, v, u, s, l)
        BY <3>1, QuietSelf
      <4> QED  BY <2>6, <4>1, QuietTwice
    <3>2. CASE u.ms = v.ms \o <<m>>
      <4>1. /\ cfg.recv \in BOOLEAN /\ Held(s, l) /\ v.ms \in Seq(Message) /\ m \in Message
            /\ m.type = "LISTEN_REQ" /\ u.ms = v.ms \o <<m>>
        BY <1>1, <2>7, <2>8, <3>2
      <4>2. Quietly(cfg, v, u, s, l)
        BY ONLY <4>1, QuietPut
      <4> QED  BY <2>6, <4>2, QuietTwice
    <3> QED  BY <2>7, <3>1, <3>2
  <2>12. Heard(cfg, u, ls)
    <3> SUFFICES ASSUME NEW x \in DOMAIN u.appls, u.appls[x].listen
                 PROVE  /\ u.appls[x].active_calls < c
                        /\ \A y \in DOMAIN u.ms : ~Asks(u.ms[y], u.appls[x].id, 0)
                        /\ u.appls[x].id \in ls \/ \E y \in DOMAIN u.ms : Asks(u.ms[y], u.appls[x].id, 1)
      BY DEF Heard
    <3>1. /\ x \in DOMAIN t.appls /\ u.appls[x].id = t.appls[x].id
          /\ u.appls[x].active_calls = t.appls[x].active_calls
      BY <2>6, <2>7
    <3>2. x \notin k .. n - 1
      <4>1. x \in k .. n - 1 => x # n
        BY <1>1, <2>1
      <4> QED  BY <2>6, <2>7, <3>1, <4>1
    <3>3. v.appls[x] = t.appls[x]
      BY <2>6, <3>1, <3>2
    <3>4. ASSUME NEW y \in k .. n - 1
          PROVE  t.appls[y].id # t.appls[x].id
      <4>1. y \in DOMAIN t.appls
        BY <1>1, <2>1
      <4> QED  BY <1>1, <3>1, <3>2, <4>1 DEF Apart
    <3>5. ASSUME NEW y \in DOMAIN u.ms
          PROVE  ~Asks(u.ms[y], u.appls[x].id, 0)
      <4>1. CASE y \in DOMAIN v.ms /\ u.ms[y] = v.ms[y]
        BY <2>6, <3>1, <3>4, <4>1 DEF Asks
      <4>2. CASE u.ms[y] = m
        BY <2>9, <4>2 DEF Asks
      <4> QED  BY <2>10, <4>1, <4>2
    <3>6. CASE x = n
      <4>1. CASE v.appls[n].listen
        <5>1. t.appls[x].id \in ls
          BY <3>1, <3>3, <3>6, <4>1 DEF Told
        <5> QED  BY <2>1, <3>1, <3>5, <3>6, <5>1
      <4>2. CASE \E y \in DOMAIN u.ms : u.ms[y] = m
        BY <2>1, <2>9, <3>1, <3>5, <3>6, <4>2
      <4> QED  BY <2>10, <4>1, <4>2
    <3>7. CASE x # n
      <4>1. u.appls[x] = t.appls[x]
        BY <2>7, <3>1, <3>3, <3>7, <2>6
      <4>2. x # k
        BY <1>1, <2>1, <3>2, <3>7
      <4> QED  BY <3>1, <3>5, <4>1, <4>2 DEF Told
    <3> QED  BY <3>6, <3>7
  <2>13. \E x \in DOMAIN u.appls : u.appls[x].listen
    BY <2>1, <2>2, <2>6, <2>7
  <2>14. \A x \in DOMAIN u.appls : x \in DOMAIN t.appls /\ u.appls[x].calls = t.appls[x].calls
    BY <2>6, <2>7
  <2>15. Checked(cfg, t, u, s, l, ls)
    BY <2>6, <2>7, <2>11, <2>12, <2>13, <2>14 DEF Checked
  <2> QED  BY <2>15 DEF u
<1>3. CASE Rooms(t, k) = {}
  <2> DEFINE b == k - 1  e == Len(t.appls)  v == Deafened(t, k, e)  i == t.made + 1
  <2>1. u = AllocAppl(v)
    BY <1>3 DEF CheckAppl
  <2> HIDE DEF u
  <2>2. e \in Nat /\ b <= e /\ e <= Len(t.appls) /\ b \in Nat
    BY <1>1
  <2>3. Deaf(cfg, t, v, s, l, b, e)
    <3>1. /\ cfg.recv \in BOOLEAN /\ Inv(cfg, t, s, l) /\ Open(t) /\ Silent(t) /\ k \in Nat /\ k >= 1
          /\ e \in Nat /\ k - 1 <= e /\ e <= Len(t.appls)
      BY <1>1, <2>2
    <3> HIDE DEF e
    <3>2. Deaf(cfg, t, Deafened(t, k, e), s, l, k - 1, e)
      BY ONLY <3>1, Deafens
    <3> QED  BY <3>2
  <2>4. \A x \in DOMAIN t.appls : x \in b + 1 .. e <=> x >= k
    BY <1>1
  <2> HIDE DEF b, e, v
  <2>5. /\ Inv(cfg, v, s, l) /\ Open(v) /\ Quietly(cfg, t, v, s, l)
        /\ v.made = t.made /\ v.dialled = t.dialled /\ DOMAIN v.appls = DOMAIN t.appls
        /\ \A x \in DOMAIN t.appls :
              /\ v.appls[x].id = t.appls[x].id /\ v.appls[x].active_calls = t.appls[x].active_calls
              /\ v.appls[x].calls = t.appls[x].calls
              /\ IF x >= k THEN ~v.appls[x].listen ELSE v.appls[x] = t.appls[x]
        /\ \A x \in DOMAIN v.ms : v.ms[x].info = 0 /\ \E y \in b + 1 .. e : v.ms[x].appl = t.appls[y].id
    BY <2>3, <2>4 DEF Deaf
  <2>6. \A y \in b + 1 .. e : y \in DOMAIN t.appls /\ y >= k
    BY <1>1 DEF b, e
  <2>7. Registers(cfg, v, u, s, l)
    BY <1>1, <2>1, <2>5, Allocs
  <2>8. /\ Inv(cfg, u, s, l) /\ Open(u) /\ OneMore(v, u) /\ Quietly(cfg, v, u, s, l)
        /\ u.made = i /\ u.dialled = t.dialled
        /\ u.appls[1].id = i /\ u.appls[1].active_calls = 0 /\ u.appls[1].calls = <<>> /\ u.appls[1].listen
        /\ \A n \in DOMAIN u.ms : (n \in DOMAIN v.ms /\ u.ms[n] = v.ms[n]) \/ Asks(u.ms[n], i, 1)
        /\ \E n \in DOMAIN u.ms : Asks(u.ms[n], i, 1)
    BY <2>5, <2>7 DEF Registers
  <2>9. /\ 1 \in DOMAIN u.appls
        /\ \A x \in DOMAIN u.appls : x = 1 \/ (x - 1 \in DOMAIN t.appls /\ u.appls[x] = v.appls[x - 1])
    BY <2>5, <2>8 DEF OneMore
  <2>10. i \in Nat /\ \A x \in DOMAIN t.appls : t.appls[x].id # i
    BY SMTT(40), SMTT(41), ZenonT(30), <1>1
  <2> HIDE DEF i
  <2>11. Quietly(cfg, t, u, s, l)
    BY <2>5, <2>8, QuietTwice
  <2>12. ASSUME NEW x \in DOMAIN u.appls, u.appls[x].listen
         PROVE  /\ u.appls[x].active_calls < c
                /\ \A y \in DOMAIN u.ms : ~Asks(u.ms[y], u.appls[x].id, 0)
                /\ u.appls[x].id \in ls \/ \E y \in DOMAIN u.ms : Asks(u.ms[y], u.appls[x].id, 1)
    <3>1. CASE x = 1
      <4>1. 0 < c
        BY Options
      <4>2. ASSUME NEW y \in DOMAIN u.ms  PROVE ~Asks(u.ms[y], i, 0)
        <5>1. CASE y \in DOMAIN v.ms /\ u.ms[y] = v.ms[y]
          BY <2>5, <2>6, <2>10, <5>1 DEF Asks
        <5>2. CASE Asks(u.ms[y], i, 1)
          BY <5>2 DEF Asks
        <5> QED  BY <2>8, <5>1, <5>2
      <4> QED  BY <2>8, <3>1, <4>1, <4>2
    <3>2. CASE x # 1
      <4> DEFINE o == x - 1
      <4>1. o \in DOMAIN t.appls /\ u.appls[x] = v.appls[o]
        BY <2>9, <3>2
      <4> HIDE DEF o
      <4>2. ~(o >= k) /\ v.appls[o] = t.appls[o]
        BY <2>5, <2>12, <4>1
      <4>3. o # k
        BY <1>1, <4>2
      <4>4. t.appls[o].id \in ls /\ t.appls[o].active_calls < c
        BY <2>12, <4>1, <4>2, <4>3 DEF Told
      <4>5. ASSUME NEW y \in b + 1 .. e
            PROVE  t.appls[y].id # t.appls[o].id
        BY <1>1, <2>6, <4>1, <4>2 DEF Apart
      <4>6. ASSUME NEW y \in DOMAIN u.ms  PROVE ~Asks(u.ms[y], t.appls[o].id, 0)
        <5>1. CASE y \in DOMAIN v.ms /\ u.ms[y] = v.ms[y]
          BY <2>5, <4>5, <5>1 DEF Asks
        <5>2. CASE Asks(u.ms[y], i, 1)
          BY <5>2 DEF Asks
        <5> QED  BY <2>8, <5>1, <5>2
      <4> QED  BY <4>1, <4>2, <4>4, <4>6
    <3> QED  BY <3>1, <3>2
  <2>13. Heard(cfg, u, ls)
    BY <2>12 DEF Heard
  <2>14. ASSUME NEW x \in DOMAIN u.appls
         PROVE  u.appls[x].calls = <<>> \/ \E y \in DOMAIN t.appls : u.appls[x].calls = t.appls[y].calls
    <3>1. CASE x = 1
      BY <2>8, <3>1
    <3>2. CASE x # 1
      <4>1. x - 1 \in DOMAIN t.appls /\ u.appls[x] = v.appls[x - 1]
        BY <2>9, <3>2
      <4> QED  BY <2>5, <4>1
    <3> QED  BY <3>1, <3>2
  <2>15. Checked(cfg, t, u, s, l, ls)
    BY <2>8, <2>9, <2>11, <2>13, <2>14 DEF Checked, i
  <2> QED  BY <2>15 DEF u
<1> QED  BY <1>2, <1>3

--------------------------------------------------------------------------------
(* alloc_call_struct *)

NewCall(i, active) ==
    [id |-> i, state |-> "D_ConnectPending", active |-> active, plci |-> ~active,
     b3 |-> FALSE, doSend |-> FALSE, NotAcknowledged |-> 0, sentPackets |-> 0]

\* The k-th application of u has the call c in front of those of t.
Added(t, u, k, c) ==
    /\ u \in State /\ u.made = t.made /\ u.pollfds = t.pollfds
    /\ DOMAIN u.appls = DOMAIN t.appls /\ Len(u.appls) = Len(t.appls)
    /\ \A n \in DOMAIN t.appls : n # k => u.appls[n] = t.appls[n]
    /\ u.appls[k].id = t.appls[k].id /\ u.appls[k].fd = t.appls[k].fd
    /\ u.appls[k].listen = t.appls[k].listen /\ u.appls[k].polled = t.appls[k].polled
    /\ u.appls[k].active_calls = t.appls[k].active_calls + 1
    /\ u.appls[k].calls \in Seq(Call) /\ Len(u.appls[k].calls) = Len(t.appls[k].calls) + 1
    /\ 1 \in DOMAIN u.appls[k].calls /\ u.appls[k].calls[1] = c
    /\ \A x \in DOMAIN t.appls[k].calls :
          /\ x \in Nat /\ x + 1 \in DOMAIN u.appls[k].calls
          /\ u.appls[k].calls[x + 1] = t.appls[k].calls[x]
    /\ \A x \in DOMAIN u.appls[k].calls :
          x = 1 \/ (x - 1 \in DOMAIN t.appls[k].calls /\ u.appls[k].calls[x] = t.appls[k].calls[x - 1] /\ x # 1)

LEMMA NewCallIs ==
    ASSUME NEW i \in Nat, NEW active \in BOOLEAN
    PROVE  /\ NewCall(i, active) \in Call /\ NewCall(i, active).id = i
           /\ NewCall(i, active).active = active
           /\ ~NewCall(i, active).b3 /\ ~NewCall(i, active).doSend
           /\ NewCall(i, active).NotAcknowledged = 0
<1>1. "D_ConnectPending" \in States /\ 0 \in Nat
  BY DEF States
<1> QED  BY <1>1 DEF NewCall, Call

LEMMA AllocCallShape ==
    ASSUME NEW t \in State, NEW k \in DOMAIN t.appls, NEW i \in Nat, NEW active \in BOOLEAN
    PROVE  /\ Added(t, AllocCall(t, k, i, active), k, NewCall(i, active))
           /\ AllocCall(t, k, i, active).dialled = t.dialled
           /\ AllocCall(t, k, i, active).ms = t.ms
<1> DEFINE u == AllocCall(t, k, i, active)  c == NewCall(i, active)
           cs == <<c>> \o t.appls[k].calls
           n1 == t.appls[k].active_calls + 1
           a == [t.appls[k] EXCEPT !.active_calls = n1, !.calls = cs]
           as == [t.appls EXCEPT ![k] = a]
<1>1. /\ t.appls \in Seq(Appl) /\ t.pollfds \in Seq(Polled) /\ t.made \in Nat /\ t.dialled \in Nat
      /\ t.ms \in Seq(Message) /\ t.appls[k] \in Appl /\ t.appls[k].calls \in Seq(Call)
      /\ t.appls[k].active_calls \in Nat /\ n1 \in Nat
  BY StateIn
<1>2. c \in Call
  BY NewCallIs
<1>3. u = [t EXCEPT !.appls = as]
  BY DEF AllocCall, NewCall, u, as, a, cs, c, n1, State
<1> HIDE DEF c, n1
<1>4. /\ cs \in Seq(Call) /\ Len(cs) = Len(t.appls[k].calls) + 1
      /\ 1 \in DOMAIN cs /\ cs[1] = c
      /\ \A x \in DOMAIN t.appls[k].calls : x \in Nat /\ x + 1 \in DOMAIN cs /\ cs[x + 1] = t.appls[k].calls[x]
      /\ \A x \in DOMAIN cs : x = 1 \/ (x - 1 \in DOMAIN t.appls[k].calls /\ cs[x] = t.appls[k].calls[x - 1] /\ x # 1)
  <2> DEFINE o == t.appls[k].calls
  <2>1. o \in Seq(Call) /\ c \in Call /\ cs = <<c>> \o o
    BY <1>1, <1>2
  <2> HIDE DEF o, cs
  <2>2. /\ cs \in Seq(Call) /\ Len(cs) = Len(o) + 1
        /\ 1 \in DOMAIN cs /\ cs[1] = c
        /\ \A x \in DOMAIN o : x \in Nat /\ x + 1 \in DOMAIN cs /\ cs[x + 1] = o[x]
        /\ \A x \in DOMAIN cs : x = 1 \/ (x - 1 \in DOMAIN o /\ cs[x] = o[x - 1] /\ x # 1)
    BY ONLY <2>1, Fronted
  <2> QED  BY <2>2 DEF o
<1> HIDE DEF cs
<1>5. /\ a \in Appl /\ a.id = t.appls[k].id /\ a.fd = t.appls[k].fd /\ a.listen = t.appls[k].listen
      /\ a.active_calls = n1 /\ a.calls = cs /\ a.polled = t.appls[k].polled
  BY <1>1, <1>4 DEF Appl
<1> HIDE DEF a
<1>6. /\ as \in Seq(Appl) /\ DOMAIN as = DOMAIN t.appls /\ as[k] = a /\ Len(as) = Len(t.appls)
      /\ \A n \in DOMAIN t.appls : n # k => as[n] = t.appls[n]
  BY <1>1, <1>5
<1> HIDE DEF as, u
<1>7. /\ u \in State /\ u.appls = as /\ u.pollfds = t.pollfds /\ u.made = t.made
      /\ u.dialled = t.dialled /\ u.ms = t.ms
  BY <1>1, <1>3, <1>6 DEF State
<1>8. Added(t, u, k, c)
  BY <1>4, <1>5, <1>6, <1>7 DEF Added, n1
<1> QED  BY <1>7, <1>8 DEF u, c

LEMMA AddedAt ==
    ASSUME NEW t, NEW u, NEW k, NEW c, Added(t, u, k, c), NEW n \in DOMAIN u.appls, NEW j \in DOMAIN u.appls[n].calls
    PROVE  \/ n = k /\ j = 1 /\ u.appls[n].calls[j] = c
           \/ n = k /\ j # 1 /\ j - 1 \in DOMAIN t.appls[n].calls /\ u.appls[n].calls[j] = t.appls[n].calls[j - 1]
           \/ n # k /\ u.appls[n] = t.appls[n] /\ n \in DOMAIN t.appls
BY DEF Added

LEMMA AddedStructured ==
    ASSUME NEW g, NEW t, NEW u, NEW k \in DOMAIN t.appls, NEW c, Structured(g, t), Added(t, u, k, c),
           u.dialled \in CallIds \cup {0}, t.dialled <= u.dialled, CallRight(g, c, u.dialled),
           \A n \in DOMAIN t.appls : \A j \in DOMAIN t.appls[n].calls : t.appls[n].calls[j].id # c.id
    PROVE  Structured(g, u)
<1>1. /\ t \in State /\ u \in State /\ t.dialled \in Nat /\ u.dialled \in Nat /\ t.made \in Nat
      /\ u.made = t.made /\ DOMAIN u.appls = DOMAIN t.appls
  <2>1. t \in State /\ u \in State
    BY DEF Structured, Added
  <2> QED  BY <2>1, StateIn DEF Added
<1>2. ASSUME NEW n \in DOMAIN u.appls
      PROVE  ApplRight(g, u.appls[n], u.made, u.dialled)
  <2>1. ApplRight(g, t.appls[n], t.made, t.dialled) /\ n \in DOMAIN t.appls
    BY <1>1 DEF Structured
  <2>2. ASSUME NEW d, CallRight(g, d, t.dialled)
        PROVE  CallRight(g, d, u.dialled)
    BY <1>1, <2>2 DEF CallRight
  <2>3. ASSUME NEW j \in DOMAIN u.appls[n].calls
        PROVE  CallRight(g, u.appls[n].calls[j], u.dialled)
    <3>1. \/ n = k /\ j = 1 /\ u.appls[n].calls[j] = c
          \/ n = k /\ j # 1 /\ j - 1 \in DOMAIN t.appls[n].calls /\ u.appls[n].calls[j] = t.appls[n].calls[j - 1]
          \/ n # k /\ u.appls[n] = t.appls[n] /\ n \in DOMAIN t.appls
      BY AddedAt
    <3>2. \A x \in DOMAIN t.appls[n].calls : CallRight(g, t.appls[n].calls[x], u.dialled)
      BY <2>1, <2>2 DEF ApplRight
    <3> QED  BY <3>1, <3>2
  <2>4. u.appls[n].active_calls = Len(u.appls[n].calls)
    <3>1. t.appls[n].active_calls = Len(t.appls[n].calls)
      BY <2>1 DEF ApplRight
    <3>2. CASE n = k
      <4>1. /\ u.appls[k].active_calls = t.appls[k].active_calls + 1
            /\ Len(u.appls[k].calls) = Len(t.appls[k].calls) + 1
        BY DEF Added
      <4> QED  BY <3>1, <3>2, <4>1
    <3>3. CASE n # k
      <4>1. u.appls[n] = t.appls[n]
        BY <2>1, <3>3 DEF Added
      <4> QED  BY <3>1, <4>1
    <3> QED  BY <3>2, <3>3
  <2>5. u.appls[n].id = t.appls[n].id /\ u.appls[n].fd = t.appls[n].fd
    BY <2>1 DEF Added
  <2> QED  BY <1>1, <2>1, <2>3, <2>4, <2>5 DEF ApplRight
<1>3. Apart(u.appls)
  <2>1. Apart(t.appls)
    BY DEF Structured
  <2>2. ASSUME NEW x \in DOMAIN u.appls, NEW y \in DOMAIN u.appls,
               u.appls[x].id = u.appls[y].id \/ u.appls[x].fd = u.appls[y].fd
        PROVE  x = y
    <3>1. \A n \in DOMAIN t.appls : u.appls[n].id = t.appls[n].id /\ u.appls[n].fd = t.appls[n].fd
      BY DEF Added
    <3> QED  BY <1>1, <2>1, <2>2, <3>1 DEF Apart
  <2>3. ASSUME NEW x \in DOMAIN u.appls, NEW i \in DOMAIN u.appls[x].calls
        PROVE  \/ x = k /\ i = 1 /\ u.appls[x].calls[i] = c
               \/ \E o \in DOMAIN t.appls[x].calls :
                     /\ u.appls[x].calls[i] = t.appls[x].calls[o]
                     /\ IF x = k THEN i \in Nat /\ o \in Nat /\ o = i - 1 ELSE o = i
    <3>1. u.appls[x].calls \in Seq(Call)
      BY <1>1, StateIn
    <3>2. i \in Nat
      BY <3>1
    <3>3. \/ x = k /\ i = 1 /\ u.appls[x].calls[i] = c
          \/ x = k /\ i # 1 /\ i - 1 \in DOMAIN t.appls[x].calls /\ u.appls[x].calls[i] = t.appls[x].calls[i - 1]
          \/ x # k /\ u.appls[x] = t.appls[x] /\ x \in DOMAIN t.appls
      BY AddedAt
    <3>4. CASE x = k /\ i # 1 /\ i - 1 \in DOMAIN t.appls[x].calls /\ u.appls[x].calls[i] = t.appls[x].calls[i - 1]
      <4> DEFINE o == i - 1
      <4>1. o \in Nat /\ o = i - 1 /\ o \in DOMAIN t.appls[x].calls /\ u.appls[x].calls[i] = t.appls[x].calls[o]
        <5>1. \A d \in DOMAIN t.appls[k].calls : d \in Nat
          BY DEF Added
        <5> QED  BY <3>4, <5>1
      <4> HIDE DEF o
      <4> QED  BY <3>2, <3>4, <4>1
    <3>5. CASE x # k /\ u.appls[x] = t.appls[x]
      BY <3>5
    <3> QED  BY <3>3, <3>4, <3>5
  <2>4. ASSUME NEW x \in DOMAIN u.appls, NEW y \in DOMAIN u.appls,
               NEW i \in DOMAIN u.appls[x].calls, NEW j \in DOMAIN u.appls[y].calls,
               u.appls[x].calls[i].id = u.appls[y].calls[j].id
        PROVE  x = y /\ i = j
    <3>1. CASE x = k /\ i = 1 /\ u.appls[x].calls[i] = c
      BY <1>1, <2>3, <2>4, <3>1
    <3>2. CASE y = k /\ j = 1 /\ u.appls[y].calls[j] = c
      BY <1>1, <2>3, <2>4, <3>2
    <3>3. ASSUME NEW o \in DOMAIN t.appls[x].calls, u.appls[x].calls[i] = t.appls[x].calls[o],
                 IF x = k THEN i \in Nat /\ o \in Nat /\ o = i - 1 ELSE o = i,
                 NEW p \in DOMAIN t.appls[y].calls, u.appls[y].calls[j] = t.appls[y].calls[p],
                 IF y = k THEN j \in Nat /\ p \in Nat /\ p = j - 1 ELSE p = j
          PROVE  x = y /\ i = j
      <4>1. x = y /\ o = p
        BY <1>1, <2>1, <2>4, <3>3 DEF Apart
      <4> QED  BY <3>3, <4>1
    <3> QED  BY <2>3, <3>1, <3>2, <3>3
  <2> QED  BY <2>2, <2>4 DEF Apart
<1>4. Polls(u.appls, u.pollfds)
  <2>1. Polls(t.appls, t.pollfds)
    BY DEF Structured
  <2>2. \A n \in DOMAIN t.appls : /\ u.appls[n].id = t.appls[n].id /\ u.appls[n].fd = t.appls[n].fd
                                  /\ u.appls[n].polled = t.appls[n].polled
    BY DEF Added
  <2>3. u.pollfds = t.pollfds
    BY DEF Added
  <2> QED  BY <1>1, <2>1, <2>2, <2>3 DEF Polls
<1>5. u.made \in ApplIds \cup {0}
  BY <1>1 DEF Structured
<1> QED  BY <1>1, <1>2, <1>3, <1>4, <1>5 DEF Structured

\* What is put behind it concerns none of the old calls.
LEMMA AddedFits ==
    ASSUME NEW g, NEW t, NEW u, NEW k \in DOMAIN t.appls, NEW c, NEW s, NEW l, NEW r \in Seq(Message),
           Structured(g, t), Mailed(g, t, s, l), Fits(g, t, s, l), Added(t, u, k, c), u.ms = t.ms \o r,
           \A n \in DOMAIN t.appls : \A j \in DOMAIN t.appls[n].calls :
               /\ Number(r, Toks(g, t.appls[n].calls[j].id)) = 0
               /\ Number(r, Typed(t.appls[n].calls[j].id, "DATAB3_REQ")) = 0,
           Fit(g, u.ms, s, l, t.appls[k].id, c)
    PROVE  Fits(g, u, s, l)
<1>1. /\ t \in State /\ t.ms \in Seq(Message) /\ Held(s, l) /\ \A i \in 1 .. t.dialled : i \in CallIds
  BY MailedIn
<1>2. ASSUME NEW n \in DOMAIN t.appls, NEW j \in DOMAIN t.appls[n].calls
      PROVE  Fit(g, u.ms, s, l, t.appls[n].id, t.appls[n].calls[j])
  <2> DEFINE d == t.appls[n].calls[j]
  <2>1. Fit(g, t.ms, s, l, t.appls[n].id, d)
    BY DEF Fits
  <2>2. d.id \in CallIds /\ d.NotAcknowledged \in Nat
    <3>1. d.id \in 1 .. t.dialled
      BY DEF Structured, ApplRight, CallRight
    <3>2. d.NotAcknowledged \in Nat
      BY <1>1, StateIn
    <3> QED  BY <1>1, <3>1, <3>2
  <2>3. Number(r, Toks(g, d.id)) = 0 /\ Number(r, Typed(d.id, "DATAB3_REQ")) = 0
    OBVIOUS
  <2> HIDE DEF d
  <2>4. d.NotAcknowledged = d.NotAcknowledged + Number(r, Typed(d.id, "DATAB3_REQ"))
    BY <2>2, <2>3
  <2>5. Fit(g, t.ms \o r, s, l, t.appls[n].id, d)
    BY <1>1, <2>1, <2>2, <2>3, <2>4, FitKept
  <2> QED  BY <2>5 DEF d
<1>3. ASSUME NEW n \in DOMAIN u.appls, NEW j \in DOMAIN u.appls[n].calls
      PROVE  Fit(g, u.ms, s, l, u.appls[n].id, u.appls[n].calls[j])
  <2>1. n \in DOMAIN t.appls /\ u.appls[n].id = t.appls[n].id
    BY DEF Added
  <2>2. \/ n = k /\ j = 1 /\ u.appls[n].calls[j] = c
        \/ n = k /\ j # 1 /\ j - 1 \in DOMAIN t.appls[n].calls /\ u.appls[n].calls[j] = t.appls[n].calls[j - 1]
        \/ n # k /\ u.appls[n] = t.appls[n] /\ n \in DOMAIN t.appls
    BY AddedAt
  <2> QED  BY <1>2, <2>1, <2>2
<1> QED  BY <1>3 DEF Fits

--------------------------------------------------------------------------------
(* CAPI2_CONNECT_IND *)

LEMMA DueLess ==
    ASSUME NEW g, NEW q, NEW r, NEW s, NEW s2, NEW l, Due(g, r, s2, l) \in SUBSET Due(g, q, s, l),
           NEW i, i \in Due(g, q, s, l), i \notin Due(g, r, s2, l)
    PROVE  /\ Cardinality(Due(g, r, s2, l)) + 1 <= Cardinality(Due(g, q, s, l))
           /\ Cardinality(Due(g, r, s2, l)) \in Nat /\ Cardinality(Due(g, q, s, l)) \in Nat
<1> DEFINE D == Due(g, q, s, l)  E == Due(g, r, s2, l)
<1>1. IsFiniteSet(D) /\ Cardinality(D) \in Nat /\ IsFiniteSet(E) /\ Cardinality(E) \in Nat
  BY DueType
<1>2. E \cup {i} \in SUBSET D
  OBVIOUS
<1>3. Cardinality(E \cup {i}) <= Cardinality(D)
  BY <1>2, DueType
<1> HIDE DEF D, E
<1>4. Cardinality(E \cup {i}) = IF i \in E THEN Cardinality(E) ELSE Cardinality(E) + 1
  BY <1>1, FS_AddElement
<1>5. i \notin E
  BY DEF E
<1>6. Cardinality(E) + 1 <= Cardinality(D)
  BY <1>3, <1>4, <1>5
<1> QED  BY <1>1, <1>6 DEF D, E

\* The program puts nothing, and t2 is what it has become.
LEMMA ExtendNone ==
    ASSUME NEW g, NEW t, NEW t2, NEW s, NEW l, Inv(g, t, s, l), Open(t), Structured(g, t2),
           t.made <= t2.made, t.dialled <= t2.dialled, t2.ms = t.ms, Fits(g, t2, s, l)
    PROVE  Inv(g, t2, s, l) /\ Open(t2)
<1> DEFINE r == <<>>
<1>1. r \in Seq(Message) /\ DOMAIN r = {} /\ \A T : Number(r, T) = 0
  <2>1. ASSUME NEW T  PROVE Number(r, T) = 0
    BY NumberOne
  <2> QED  BY <2>1
<1>2. t.ms \in Seq(Message)
  BY StateIn DEF Inv, Structured
<1>3. t2.ms = t.ms \o r
  BY <1>2
<1> HIDE DEF r
<1>4. Askable(g, r, l, t2.made, t2.dialled) /\ Puttable(g, t.ms, r, s, l)
  BY <1>1 DEF Askable, Puttable
<1>5. /\ r \in Seq(Message) /\ Inv(g, t, s, l) /\ Open(t) /\ Structured(g, t2) /\ Fits(g, t2, s, l)
      /\ t.made <= t2.made /\ t.dialled <= t2.dialled
  BY <1>1
<1> QED  BY ONLY <1>3, <1>4, <1>5, Extend

Accepted(t, k, i) == AllocCall(t, k, i, FALSE)
Offered(i) == NewCall(i, FALSE)

\* The call that is offered is new, and gets the first place in its application.
LEMMA Accepts ==
    ASSUME cfg \in Configs, NEW t, NEW s, NEW l, Inv(cfg, t, s, l), Silent(t), NEW a \in ApplIds, s[a] # <<>>,
           Head(s[a]).type = "CONNECT_IND", NEW k \in DOMAIN t.appls, t.appls[k].id = a,
           NEW i, i = Head(s[a]).id, NEW c, c = Offered(i)
    PROVE  /\ cfg.recv /\ i \in CallIds /\ i \in 1 .. t.dialled /\ l[i].appl = a /\ i # 0
           /\ Inv(cfg, t, Taken(s, a), l) /\ MayGo(cfg, t, Taken(s, a), l, i)
           /\ Inv(cfg, Accepted(t, k, i), Taken(s, a), l) /\ Open(Accepted(t, k, i))
           /\ Added(t, Accepted(t, k, i), k, c)
           /\ Accepted(t, k, i).dialled = t.dialled /\ Accepted(t, k, i).ms = t.ms
<1> DEFINE h == Head(s[a])  s2 == Taken(s, a)  u == AllocCall(t, k, i, FALSE)
<1>1. /\ Structured(cfg, t) /\ Mailed(cfg, t, s, l) /\ Fits(cfg, t, s, l)
      /\ t \in State /\ t.ms \in Seq(Message) /\ Held(s, l) /\ t.made \in Nat /\ t.dialled \in Nat
      /\ cfg.recv \in BOOLEAN
  <2>1. Structured(cfg, t) /\ Mailed(cfg, t, s, l) /\ Fits(cfg, t, s, l)
    BY DEF Inv
  <2> QED  BY <2>1, MailedIn, Options
<1>2. /\ h \in Message /\ Posted(cfg, h, a, l, t.dialled) /\ h.appl = a /\ Belongs(h, l)
      /\ h.id # 0 => h.id \in 1 .. t.dialled /\ h.id \in CallIds /\ l[h.id].appl = a
  BY <1>1, HeadPosted
<1>3. cfg.recv /\ i # 0
  BY <1>2 DEF Posted
<1>4. i \in CallIds /\ i \in 1 .. t.dialled /\ l[i].appl = a /\ i \in Nat
  BY <1>2, <1>3, Constants
<1>5. Run(cfg, t, t, s2, l) /\ MayGo(cfg, t, s2, l, i)
  <2>1. h.id # 0 /\ h.type \in TokTypes(cfg) /\ cfg.recv \in BOOLEAN
    BY <1>1, <1>3 DEF TokTypes
  <2>2. t.ms = <<>>
    BY DEF Silent
  <2> QED  BY <1>1, <2>1, <2>2, GetsTurn
<1>6. Inv(cfg, t, s2, l) /\ Open(t) /\ Mailed(cfg, t, s2, l) /\ Held(s2, l) /\ Fits(cfg, t, s2, l)
  BY <1>5, RunIn
<1>7. Number(In(s, l, i), Typed(i, "CONNECT_IND")) # 0
  <2> DEFINE T == Typed(i, "CONNECT_IND")
  <2>1. h \in T
    BY <1>2 DEF Typed
  <2>2. /\ Held(s, l) /\ a \in ApplIds /\ s[a] # <<>> /\ t.ms \in Seq(Message) /\ h \in Message
        /\ h.appl = a /\ Belongs(h, l) /\ i \in CallIds
    BY <1>1, <1>2, <1>4
  <2>3. /\ Number(In(s, l, i), T) = One(h \in T) + Number(In(s2, l, i), T)
        /\ Held(s2, l)
        /\ Turn(cfg, t.ms, s, l, i) = Turn(cfg, t.ms, s2, l, i) + One(h \in Toks(cfg, i))
    BY ONLY <2>2, TakeCounts DEF h, s2, T
  <2>4. Number(In(s2, l, i), T) \in Nat
    BY SMTT(40), SMTT(41), ZenonT(30), <1>1, <1>4, <2>3, Counted
  <2> QED  BY <2>1, <2>3, <2>4 DEF One
<1> HIDE DEF h, s2, u
<1>8. ASSUME NEW n \in DOMAIN t.appls, NEW j \in DOMAIN t.appls[n].calls
      PROVE  t.appls[n].calls[j].id # i
  <2>1. Fit(cfg, t.ms, s, l, t.appls[n].id, t.appls[n].calls[j])
    BY <1>1 DEF Fits
  <2> QED  BY <1>7, <2>1 DEF Fit
<1>9. /\ c \in Call /\ c.id = i /\ ~c.active /\ c.active \in BOOLEAN
      /\ ~c.b3 /\ ~c.doSend /\ c.NotAcknowledged = 0
  <2> DEFINE f == FALSE
  <2>1. f \in BOOLEAN /\ f = FALSE /\ c = NewCall(i, f)
    BY DEF Offered
  <2> HIDE DEF f
  <2>2. c \in Call /\ c.id = i /\ c.active = f /\ ~c.b3 /\ ~c.doSend /\ c.NotAcknowledged = 0
    BY ONLY <1>4, <2>1, NewCallIs
  <2> QED  BY <2>1, <2>2
<1>10. Added(t, u, k, c) /\ u.dialled = t.dialled /\ u.ms = t.ms
  <2> DEFINE f == FALSE
  <2>1. f \in BOOLEAN /\ c = NewCall(i, f) /\ u = AllocCall(t, k, i, f)
    BY DEF u, Offered
  <2> HIDE DEF f
  <2>2. t \in State /\ k \in DOMAIN t.appls /\ i \in Nat
    BY <1>1, <1>4
  <2> QED  BY ONLY <2>1, <2>2, AllocCallShape
<1>11. CallRight(cfg, c, u.dialled)
  <2>1. 0 <= Limit(cfg)
    BY Options
  <2>2. c.active = ~cfg.recv
    BY <1>1, <1>3, <1>9
  <2>3. c.id \in 1 .. u.dialled /\ c.NotAcknowledged = 0 /\ ~c.b3 /\ ~c.doSend
    BY <1>4, <1>9, <1>10
  <2>4. c.NotAcknowledged <= Limit(cfg) /\ ~(c.NotAcknowledged > 0)
    <3> DEFINE n == c.NotAcknowledged  m == Limit(cfg)
    <3>1. n = 0 /\ 0 <= m
      BY <2>1, <2>3
    <3> HIDE DEF n, m
    <3>2. n <= m /\ ~(n > 0)
      BY ONLY <3>1
    <3> QED  BY <3>2 DEF n, m
  <2> QED  BY ONLY <2>2, <2>3, <2>4 DEF CallRight
<1>12. Structured(cfg, u)
  <2>1. t.dialled <= u.dialled /\ u.dialled \in CallIds \cup {0}
    BY <1>1, <1>10 DEF Structured
  <2> QED  BY <1>1, <1>8, <1>9, <1>10, <1>11, <2>1, AddedStructured
<1>13. Fit(cfg, u.ms, s2, l, t.appls[k].id, c)
  <2>1. Turn(cfg, t.ms, s2, l, i) = 0 /\ Unread(t.ms, s2, l, i) = 0
    BY <1>5 DEF MayGo
  <2>2. Number(In(s2, l, i), Typed(i, "CONNECT_IND")) = 0
    <3> DEFINE x == Number(t.ms, Toks(cfg, i))  y == Number(In(s2, l, i), Toks(cfg, i))
               w == One(l[i].st = "dialling")  z == Number(In(s2, l, i), Typed(i, "CONNECT_IND"))
    <3>1. /\ In(s2, l, i) \in Seq(Message) /\ x \in Nat /\ y \in Nat /\ w \in {0, 1} /\ z \in Nat
          /\ Turn(cfg, t.ms, s2, l, i) = x + y + w
      <4>1. Held(s2, l) /\ t.ms \in Seq(Message) /\ i \in CallIds
        BY <1>1, <1>4, <1>6
      <4>2. /\ Turn(cfg, t.ms, s2, l, i) \in Nat /\ Turn(cfg, t.ms, s2, l, i) = x + y + w
            /\ In(s2, l, i) \in Seq(Message)
        BY ONLY SMTT(40), SMTT(41), ZenonT(30), <4>1, Counted
      <4>3. x \in Nat /\ y \in Nat /\ z \in Nat
        BY <4>1, <4>2, NumberType
      <4> QED  BY <4>2, <4>3, OneType
    <3>2. Typed(i, "CONNECT_IND") \subseteq Toks(cfg, i)
      BY <1>1, <1>3, DuesToks DEF Toks, Typed, TokTypes
    <3>3. z <= y
      BY <3>1, <3>2, NumberSubset
    <3> HIDE DEF x, y, w, z
    <3>4. z = 0
      BY <2>1, <3>1, <3>3
    <3> QED  BY <3>4 DEF z
  <2>3. /\ c.id = i /\ u.ms = t.ms /\ l[i].appl = t.appls[k].id /\ ~c.doSend /\ c.NotAcknowledged = 0
    BY <1>4, <1>9, <1>10
  <2> QED  BY ONLY <2>1, <2>2, <2>3 DEF Fit
<1>14. Fits(cfg, u, s2, l)
  <2> DEFINE r == <<>>
  <2>1. r \in Seq(Message) /\ u.ms = t.ms \o r /\ \A T : Number(r, T) = 0
    <3>1. ASSUME NEW T  PROVE Number(r, T) = 0
      BY NumberOne
    <3> QED  BY <1>1, <1>10, <3>1
  <2> HIDE DEF r
  <2>2. /\ r \in Seq(Message) /\ u.ms = t.ms \o r /\ k \in DOMAIN t.appls
        /\ Structured(cfg, t) /\ Mailed(cfg, t, s2, l) /\ Fits(cfg, t, s2, l) /\ Added(t, u, k, c)
        /\ \A n \in DOMAIN t.appls : \A j \in DOMAIN t.appls[n].calls :
               /\ Number(r, Toks(cfg, t.appls[n].calls[j].id)) = 0
               /\ Number(r, Typed(t.appls[n].calls[j].id, "DATAB3_REQ")) = 0
        /\ Fit(cfg, u.ms, s2, l, t.appls[k].id, c)
    BY <1>1, <1>6, <1>10, <1>13, <2>1
  <2> QED  BY ONLY <2>2, AddedFits
<1>15. Inv(cfg, u, s2, l) /\ Open(u)
  <2>1. t.made <= u.made /\ t.dialled <= u.dialled /\ u.ms = t.ms
    BY <1>1, <1>10 DEF Added
  <2> QED  BY <1>6, <1>12, <1>14, <2>1, ExtendNone
<1> QED  BY <1>3, <1>4, <1>5, <1>6, <1>10, <1>15 DEF u, s2, Accepted

\* What is not about listening changes nothing about who has been told.
LEMMA HeardPut ==
    ASSUME NEW g, NEW t \in State, NEW ls, Heard(g, t, ls), NEW m \in Message, m.type # "LISTEN_REQ"
    PROVE  Heard(g, Put(t, m), ls)
<1> DEFINE r == <<m>>  u == Put(t, m)
<1>1. r \in Seq(Message) /\ t.ms \in Seq(Message) /\ u.appls = t.appls /\ u.ms = t.ms \o r
  BY SMTT(40), SMTT(41), ZenonT(30), PutShape, StateIn
<1>2. \A n \in DOMAIN r : r[n].type # "LISTEN_REQ"
  OBVIOUS
<1> HIDE DEF r, u
<1>3. /\ \A n \in DOMAIN t.ms : n \in DOMAIN u.ms /\ u.ms[n] = t.ms[n]
      /\ \A n \in DOMAIN u.ms : (n \in DOMAIN t.ms /\ u.ms[n] = t.ms[n]) \/ u.ms[n].type # "LISTEN_REQ"
  <2> DEFINE q == t.ms  p == t.ms \o r
  <2>1. q \in Seq(Message) /\ r \in Seq(Message)
    BY <1>1
  <2> HIDE DEF q
  <2>2. /\ \A n \in DOMAIN q : n \in DOMAIN (q \o r) /\ (q \o r)[n] = q[n]
        /\ \A n \in DOMAIN (q \o r) :
              \/ n \in DOMAIN q
              \/ n > Len(q) /\ n - Len(q) \in DOMAIN r /\ (q \o r)[n] = r[n - Len(q)]
    BY ONLY <2>1, ConcatOf
  <2> QED  BY <1>1, <1>2, <2>2 DEF q
<1>4. SUFFICES ASSUME NEW k \in DOMAIN t.appls, t.appls[k].listen
               PROVE  /\ g.recv /\ t.appls[k].active_calls < g.callperappl
                      /\ \A n \in DOMAIN u.ms : ~Asks(u.ms[n], t.appls[k].id, 0)
                      /\ t.appls[k].id \in ls \/ \E n \in DOMAIN u.ms : Asks(u.ms[n], t.appls[k].id, 1)
  BY <1>1 DEF Heard, u
<1>5. /\ g.recv /\ t.appls[k].active_calls < g.callperappl
      /\ \A n \in DOMAIN t.ms : ~Asks(t.ms[n], t.appls[k].id, 0)
      /\ t.appls[k].id \in ls \/ \E n \in DOMAIN t.ms : Asks(t.ms[n], t.appls[k].id, 1)
  BY <1>4 DEF Heard
<1>6. \A n \in DOMAIN u.ms : ~Asks(u.ms[n], t.appls[k].id, 0)
  BY <1>3, <1>5 DEF Asks
<1>7. t.appls[k].id \in ls \/ \E n \in DOMAIN u.ms : Asks(u.ms[n], t.appls[k].id, 1)
  BY <1>3, <1>5
<1> QED  BY <1>5, <1>6, <1>7

\* A receiver takes the call, and goes on being one that can be called.
LEMMA TakesCall ==
    ASSUME cfg \in Configs, NEW t, NEW s, NEW l, NEW ls, NEW an \in Nat, NEW sg \in Nat,
           Whole(cfg, t, s, l, ls, an, sg), Silent(t), NEW a \in ApplIds, s[a] # <<>>,
           Head(s[a]).type = "CONNECT_IND", NEW k \in DOMAIN t.appls, t.appls[k].id = a,
           NEW u, u = Accepted(t, k, Head(s[a]).id),
           NEW m, m = Msg("CONNECT_RESP", a, Head(s[a]).id, FALSE, 0)
    PROVE  Whole(cfg, Put(CheckAppl(u, k), m), Taken(s, a), l, ls, an, sg)
<1> DEFINE i == Head(s[a]).id  s2 == Taken(s, a)  v == CheckAppl(u, k)  w == Put(v, m)
           c == Offered(i)
<1>1. /\ Inv(cfg, t, s, l) /\ ls \subseteq 1 .. t.made /\ Heard(cfg, t, ls)
      /\ Bounded(cfg, t, s, l, an, sg)
      /\ Structured(cfg, t) /\ Mailed(cfg, t, s, l) /\ Turns(cfg, t, s, l)
      /\ t \in State /\ t.made \in Nat /\ t.dialled \in Nat /\ t.ms \in Seq(Message) /\ Held(s, l)
      /\ cfg.recv \in BOOLEAN
  <2>1. /\ Inv(cfg, t, s, l) /\ ls \subseteq 1 .. t.made /\ Heard(cfg, t, ls)
        /\ Bounded(cfg, t, s, l, an, sg)
    BY DEF Whole
  <2>2. Structured(cfg, t) /\ Mailed(cfg, t, s, l) /\ Turns(cfg, t, s, l)
    BY <2>1 DEF Inv
  <2> QED  BY <2>1, <2>2, MailedIn, Options
<1>2. /\ cfg.recv /\ i \in CallIds /\ i \in 1 .. t.dialled /\ l[i].appl = a /\ i # 0
      /\ Inv(cfg, t, s2, l) /\ MayGo(cfg, t, s2, l, i)
      /\ Inv(cfg, u, s2, l) /\ Open(u) /\ Added(t, u, k, c)
      /\ u.dialled = t.dialled /\ u.ms = t.ms
  <2>1. /\ cfg \in Configs /\ Inv(cfg, t, s, l) /\ Silent(t) /\ a \in ApplIds /\ s[a] # <<>>
        /\ Head(s[a]).type = "CONNECT_IND" /\ k \in DOMAIN t.appls /\ t.appls[k].id = a
        /\ i = Head(s[a]).id /\ c = Offered(i)
    BY <1>1
  <2>2. u = Accepted(t, k, i)
    OBVIOUS
  <2> HIDE DEF i, c
  <2>3. /\ cfg.recv /\ i \in CallIds /\ i \in 1 .. t.dialled /\ l[i].appl = a /\ i # 0
        /\ Inv(cfg, t, Taken(s, a), l) /\ MayGo(cfg, t, Taken(s, a), l, i)
        /\ Inv(cfg, Accepted(t, k, i), Taken(s, a), l) /\ Open(Accepted(t, k, i))
        /\ Added(t, Accepted(t, k, i), k, c)
        /\ Accepted(t, k, i).dialled = t.dialled /\ Accepted(t, k, i).ms = t.ms
    BY ONLY <2>1, Accepts
  <2> QED  BY ONLY <2>2, <2>3 DEF s2
<1>3. m \in Message /\ m.type = "CONNECT_RESP" /\ m.appl = a /\ m.id = i /\ i \in Nat /\ a \in Nat
  <2>1. i \in Nat /\ a \in Nat
    BY <1>2, Constants
  <2> HIDE DEF i
  <2>2. m = Msg("CONNECT_RESP", a, i, FALSE, 0)
    BY DEF i
  <2>3. "CONNECT_RESP" \in Types /\ FALSE \in BOOLEAN /\ 0 \in Nat
    BY DEF Types
  <2> QED  BY ONLY <2>1, <2>2, <2>3 DEF Msg, Message
<1> HIDE DEF i, s2, c
<1>4. /\ Due(cfg, t.ms, s2, l) \in SUBSET Due(cfg, t.ms, s, l)
      /\ i \in Due(cfg, t.ms, s, l) /\ i \notin Due(cfg, t.ms, s2, l)
  <2>1. Head(s[a]).id # 0 /\ Head(s[a]).type \in DueTypes(cfg)
    BY <1>2 DEF i, DueTypes
  <2> QED  BY <1>1, <2>1, TakeDue DEF i, s2
<1>5. /\ Cardinality(Due(cfg, t.ms, s2, l)) + 1 <= Cardinality(Due(cfg, t.ms, s, l))
      /\ Cardinality(Due(cfg, t.ms, s2, l)) \in Nat /\ Cardinality(Due(cfg, t.ms, s, l)) \in Nat
  BY <1>4, DueLess
<1>6. /\ an <= cfg.answers /\ sg <= cfg.signals /\ t.dialled = an
      /\ t.made + Cardinality(Due(cfg, t.ms, s, l)) <= 1 + t.dialled
  BY SMTT(40), SMTT(41), ZenonT(30), <1>1, <1>2 DEF Bounded
<1>7. u.made = t.made /\ u.made + 1 \in ApplIds
  <2> DEFINE x == Cardinality(Due(cfg, t.ms, s2, l))  y == Cardinality(Due(cfg, t.ms, s, l))
             b == t.made  e == cfg.answers  z == t.dialled
  <2>1. x + 1 <= y /\ x \in Nat /\ y \in Nat /\ b \in Nat /\ e \in Nat /\ e <= MaxCalls /\ an <= e
        /\ b + y <= 1 + z /\ z = an
    BY <1>1, <1>5, <1>6, Options
  <2> HIDE DEF x, y, b, e, z
  <2>2. b + 1 \in ApplIds
    BY <2>1, Constants
  <2> QED  BY Zenon, <1>2, <2>2 DEF b, Added
<1>8. Told(cfg, u, k, ls)
  <2> SUFFICES ASSUME NEW x \in DOMAIN u.appls, u.appls[x].listen
               PROVE  u.appls[x].id \in ls /\ (x # k => u.appls[x].active_calls < cfg.callperappl)
    BY SMTT(40), SMTT(41), ZenonT(30) DEF Told
  <2>1. x \in DOMAIN t.appls /\ u.appls[x].id = t.appls[x].id /\ t.appls[x].listen
        /\ (x # k => u.appls[x] = t.appls[x])
    BY Zenon, <1>2 DEF Added
  <2>2. t.appls[x].active_calls < cfg.callperappl /\ t.appls[x].id \in ls
    <3>1. DOMAIN t.ms = {}
      BY DEF Silent
    <3> QED  BY <1>1, <2>1, <3>1 DEF Heard
  <2> QED  BY <2>1, <2>2
<1>9. Checked(cfg, u, v, s2, l, ls)
  <2>1. /\ cfg \in Configs /\ cfg.recv /\ Inv(cfg, u, s2, l) /\ Open(u) /\ Silent(u)
        /\ k \in DOMAIN u.appls /\ u.made + 1 \in ApplIds /\ ls \subseteq 1 .. u.made
        /\ Told(cfg, u, k, ls)
    BY ZenonT(60), <1>1, <1>2, <1>7, <1>8 DEF Silent, Added
  <2> QED  BY ONLY Zenon, <2>1, Checks DEF v
<1> HIDE DEF v
<1>10. /\ Inv(cfg, v, s2, l) /\ Open(v) /\ Heard(cfg, v, ls) /\ v.dialled = t.dialled
       /\ v.made \in {t.made, t.made + 1} /\ Quietly(cfg, u, v, s2, l)
       /\ \E x \in DOMAIN v.appls : v.appls[x].listen
       /\ \A x \in DOMAIN v.appls : \/ v.appls[x].calls = <<>>
                                    \/ \E y \in DOMAIN u.appls : v.appls[x].calls = u.appls[y].calls
  BY <1>2, <1>7, <1>9 DEF Checked
<1>11. v \in State /\ v.ms \in Seq(Message) /\ Held(s2, l)
  <2>1. Structured(cfg, v) /\ Mailed(cfg, v, s2, l)
    BY <1>10 DEF Inv
  <2> QED  BY <2>1, MailedIn
<1>12. MayGo(cfg, v, s2, l, i)
  <2>1. Turn(cfg, v.ms, s2, l, i) = 0 /\ Unread(v.ms, s2, l, i) = 0
    BY SMTT(40), SMTT(41), ZenonT(30), <1>2, <1>10 DEF MayGo, Quietly
  <2>2. ASSUME NEW y \in DOMAIN u.appls, NEW j \in DOMAIN u.appls[y].calls, u.appls[y].calls[j].id = i
        PROVE  ~u.appls[y].calls[j].doSend /\ u.appls[y].calls[j].NotAcknowledged = 0
    <3> DEFINE f == FALSE
    <3>1. i \in Nat /\ f \in BOOLEAN /\ c = NewCall(i, f)
      BY <1>3 DEF c, Offered
    <3> HIDE DEF f
    <3>2. ~c.doSend /\ c.NotAcknowledged = 0
      BY ONLY <3>1, NewCallIs
    <3>3. \/ y = k /\ j = 1 /\ u.appls[y].calls[j] = c
          \/ y = k /\ j # 1 /\ j - 1 \in DOMAIN t.appls[y].calls /\ u.appls[y].calls[j] = t.appls[y].calls[j - 1]
          \/ y # k /\ u.appls[y] = t.appls[y] /\ y \in DOMAIN t.appls
      <4>1. Added(t, u, k, c) /\ y \in DOMAIN u.appls /\ j \in DOMAIN u.appls[y].calls
        BY <1>2
      <4> QED  BY ONLY <4>1, AddedAt
    <3> QED  BY ZenonT(60), <1>2, <2>2, <3>2, <3>3 DEF MayGo
  <2>3. ASSUME NEW x \in DOMAIN v.appls, NEW j \in DOMAIN v.appls[x].calls, v.appls[x].calls[j].id = i
        PROVE  ~v.appls[x].calls[j].doSend /\ v.appls[x].calls[j].NotAcknowledged = 0
    <3>1. v.appls[x].calls # <<>>
      <4>1. CASE v.appls[x].calls = <<>>
        <5>1. DOMAIN v.appls[x].calls = {}
          BY <4>1
        <5> QED  BY <5>1
      <4> QED  BY <4>1
    <3>2. PICK y \in DOMAIN u.appls : v.appls[x].calls = u.appls[y].calls
      BY SMTT(40), SMTT(41), ZenonT(30), <1>10, <3>1
    <3>3. j \in DOMAIN u.appls[y].calls /\ u.appls[y].calls[j].id = i
      BY <2>3, <3>2
    <3>4. ~u.appls[y].calls[j].doSend /\ u.appls[y].calls[j].NotAcknowledged = 0
      BY ONLY <2>2, <3>2, <3>3
    <3> QED  BY ONLY <3>2, <3>4
  <2> QED  BY SMTT(40), SMTT(41), ZenonT(30), <1>2, <2>1, <2>3 DEF MayGo
<1>13. Inv(cfg, w, s2, l) /\ Open(w)
  <2>1. Asked(cfg, m, l, v.made, v.dialled)
    <3>1. a \in 1 .. t.made /\ t.made <= v.made
      <4>1. t.appls[k].id \in 1 .. t.made
        BY <1>1 DEF Structured, ApplRight
      <4> QED  BY <1>1, <1>10, <4>1
    <3>2. a \in 1 .. v.made
      <4> DEFINE b == t.made  e == v.made
      <4>1. a \in 1 .. b /\ b \in Nat /\ e \in {b, b + 1}
        BY <1>1, <1>10, <3>1
      <4> HIDE DEF b, e
      <4>2. a \in 1 .. e
        BY ONLY <4>1
      <4> QED  BY <4>2 DEF e
    <3>3. i \in 0 .. v.dialled
      BY <1>2, <1>10
    <3> QED  BY <1>2, <1>3, <3>2, <3>3 DEF Asked
  <2>2. /\ Inv(cfg, v, s2, l) /\ Open(v) /\ m \in Message /\ m.type # "RELEASE" /\ m.type # "DATAB3_REQ"
        /\ MayGo(cfg, v, s2, l, m.id) /\ Asked(cfg, m, l, v.made, v.dialled)
    BY <1>3, <1>10, <1>12, <2>1
  <2> QED  BY ONLY <2>2, PutInv DEF w
<1>14. w.appls = v.appls /\ w.made = v.made /\ w.dialled = v.dialled /\ w.ms = v.ms \o <<m>> /\ w \in State
  BY <1>3, <1>11, PutShape
<1>15. Heard(cfg, w, ls)
  BY <1>3, <1>10, <1>11, HeardPut
<1>16. Due(cfg, w.ms, s2, l) = Due(cfg, t.ms, s2, l)
  <2> DEFINE r == <<m>>
  <2>1. r \in Seq(Message) /\ w.ms = v.ms \o r
    <3>1. r \in Seq(Message)
      BY ONLY <1>3
    <3> HIDE DEF w
    <3> QED  BY <3>1, <1>14
  <2>2. \A x \in CallIds : Number(r, Dues(cfg, x)) = 0
    <3> SUFFICES ASSUME NEW x \in CallIds  PROVE Number(r, Dues(cfg, x)) = 0
      OBVIOUS
    <3>1. m \notin Dues(cfg, x)
      BY <1>2, <1>3 DEF Dues, DueTypes
    <3>2. Number(r, Dues(cfg, x)) = One(m \in Dues(cfg, x))
      BY NumberOne
    <3> QED  BY <3>1, <3>2 DEF One
  <2> HIDE DEF r
  <2>3. Due(cfg, v.ms \o r, s2, l) = Due(cfg, v.ms, s2, l)
    BY <1>11, <2>1, <2>2, PutDue
  <2> QED  BY <1>2, <1>10, <2>1, <2>3 DEF Quietly
<1>17. Bounded(cfg, w, s2, l, an, sg)
  <2> DEFINE x == Cardinality(Due(cfg, t.ms, s2, l))  y == Cardinality(Due(cfg, t.ms, s, l))
             b == t.made  e == v.made  z == t.dialled
  <2>1. x + 1 <= y /\ x \in Nat /\ y \in Nat /\ b \in Nat /\ z \in Nat /\ e \in {b, b + 1} /\ b + y <= 1 + z
    BY SMTT(40), SMTT(41), ZenonT(30), <1>1, <1>5, <1>6, <1>10
  <2>2. an <= cfg.answers /\ sg <= cfg.signals /\ w.dialled = z /\ z = an /\ w.made = e /\ cfg.recv
        /\ Cardinality(Due(cfg, w.ms, s2, l)) = x
    BY <1>2, <1>6, <1>10, <1>14, <1>16
  <2> HIDE DEF x, y, b, e, z
  <2>3. e + x <= 1 + z
    BY ONLY <2>1
  <2> QED  BY ONLY <2>2, <2>3 DEF Bounded
<1>18. ls \subseteq 1 .. w.made
  <2> DEFINE b == t.made  e == w.made
  <2>1. ls \subseteq 1 .. b /\ b \in Nat /\ e \in {b, b + 1}
    BY <1>1, <1>10, <1>14
  <2> HIDE DEF b, e
  <2>2. ls \subseteq 1 .. e
    BY ONLY <2>1
  <2> QED  BY <2>2 DEF e
<1>19. Listened(cfg, w)
  BY <1>10, <1>14 DEF Listened
<1> HIDE DEF w
<1>20. Whole(cfg, w, s2, l, ls, an, sg)
  BY <1>2, <1>13, <1>15, <1>17, <1>18, <1>19 DEF Whole
<1> QED  BY <1>20 DEF w, v, s2

--------------------------------------------------------------------------------
(* gen_call *)

Dialling(i) == NewCall(i, TRUE)
Requests(t, k) == Msg("CONNECT_REQ", t.appls[k].id, t.dialled + 1, FALSE, 0)

LEMMA GenCallShape ==
    ASSUME NEW t \in State, NEW k \in DOMAIN t.appls, NEW e, e = t.dialled + 1
    PROVE  /\ Added(t, GenCall(t, k), k, Dialling(e)) /\ GenCall(t, k).dialled = e
           /\ GenCall(t, k).ms = t.ms \o <<Requests(t, k)>>
           /\ Requests(t, k) \in Message /\ Requests(t, k).type = "CONNECT_REQ"
           /\ Requests(t, k).id = e /\ Requests(t, k).appl = t.appls[k].id
           /\ e \in Nat
           /\ Dialling(e) \in Call /\ Dialling(e).id = e /\ Dialling(e).active
           /\ ~Dialling(e).b3 /\ ~Dialling(e).doSend /\ Dialling(e).NotAcknowledged = 0
<1> DEFINE b == TRUE  m == Requests(t, k)  c == Dialling(e)
           w == AllocCall(t, k, e, TRUE)  w2 == [w EXCEPT !.dialled = e]  u == GenCall(t, k)
<1>1. e \in Nat /\ t.appls[k].id \in Nat /\ t.ms \in Seq(Message)
  BY StateIn
<1>2. b \in BOOLEAN /\ c = NewCall(e, b) /\ w = AllocCall(t, k, e, b) /\ b
  BY DEF Dialling
<1>3. u = Put(w2, m)
  BY DEF GenCall, Requests
<1>4. m = Msg("CONNECT_REQ", t.appls[k].id, e, FALSE, 0)
  BY DEF Requests
<1> HIDE DEF b, m, c, w, u
<1>5. Added(t, w, k, c) /\ w.dialled = t.dialled /\ w.ms = t.ms
  BY ONLY <1>1, <1>2, AllocCallShape, t \in State, k \in DOMAIN t.appls
<1>6. /\ c \in Call /\ c.id = e /\ c.active = b /\ ~c.b3 /\ ~c.doSend /\ c.NotAcknowledged = 0
  BY ONLY <1>1, <1>2, NewCallIs
<1>7. m \in Message /\ m.type = "CONNECT_REQ" /\ m.id = e /\ m.appl = t.appls[k].id
  <2>1. "CONNECT_REQ" \in Types
    BY DEF Types
  <2> QED  BY ONLY <1>1, <1>4, <2>1 DEF Msg, Message
<1>8. /\ w2 \in State /\ w2.dialled = e /\ w2.ms = w.ms /\ w2.appls = w.appls /\ w2.made = w.made
      /\ w2.pollfds = w.pollfds
  <2>1. w \in State
    BY <1>5 DEF Added
  <2> QED  BY ONLY <1>1, <2>1 DEF State
<1> HIDE DEF w2
<1>9. /\ u \in State /\ u.ms = w2.ms \o <<m>> /\ u.appls = w2.appls /\ u.pollfds = w2.pollfds
      /\ u.made = w2.made /\ u.dialled = w2.dialled
  BY <1>3, <1>7, <1>8, PutShape
<1>10. Added(t, u, k, c)
  <2>1. u.appls = w.appls /\ u.made = w.made /\ u.pollfds = w.pollfds /\ u \in State
    BY <1>8, <1>9
  <2> QED  BY ONLY <1>5, <2>1 DEF Added
<1>11. u.ms = t.ms \o <<m>> /\ u.dialled = e
  BY ONLY <1>5, <1>8, <1>9
<1> QED  BY <1>1, <1>2, <1>6, <1>7, <1>10, <1>11 DEF u, m, c

\* Nothing has been said about a call that is to be dialled.
LEMMA Fresh ==
    ASSUME NEW g, NEW t, NEW s, NEW l, Inv(g, t, s, l), NEW e, e = t.dialled + 1, e \in CallIds
    PROVE  /\ l[e] = Idle /\ In(s, l, e) = <<>>
           /\ Turn(g, t.ms, s, l, e) = 0 /\ Unread(t.ms, s, l, e) = 0
           /\ l[e].appl = 0 /\ l[e].st = "free"
           /\ \A T : Number(In(s, l, e), T) = 0
           /\ \A k \in DOMAIN t.appls : \A j \in DOMAIN t.appls[k].calls : t.appls[k].calls[j].id # e
<1>1. /\ Structured(g, t) /\ Mailed(g, t, s, l) /\ t \in State /\ t.ms \in Seq(Message) /\ Held(s, l)
      /\ t.dialled \in Nat
  <2>1. Structured(g, t) /\ Mailed(g, t, s, l)
    BY DEF Inv
  <2> QED  BY <2>1, MailedIn
<1>2. l[e] = Idle
  <2>1. Known(g, l, e, t.made, t.dialled) /\ e > t.dialled
    BY <1>1 DEF Mailed
  <2> QED  BY <2>1 DEF Known
<1>3. l[e].appl = 0 /\ l[e].st = "free" /\ l[e].unconf = 0
  BY <1>2 DEF Idle
<1>4. In(s, l, e) = <<>>
  BY <1>3 DEF In
<1>5. ASSUME NEW T  PROVE Number(In(s, l, e), T) = 0
  BY <1>4, NumberOne
<1>6. ASSUME NEW T, AboutCall(T, e)  PROVE Number(t.ms, T) = 0
  <2>1. ASSUME NEW n \in DOMAIN t.ms  PROVE t.ms[n] \notin T
    <3>1. t.ms[n].id \in 0 .. t.dialled
      BY <1>1 DEF Mailed, Asked
    <3>2. t.ms[n].id # e
      BY <1>1, <3>1
    <3> QED  BY <1>6, <3>2 DEF AboutCall
  <2> QED  BY <1>1, <2>1, NumberNone
<1>7. Number(t.ms, Toks(g, e)) = 0 /\ Number(t.ms, Typed(e, "DATAB3_REQ")) = 0
  BY <1>6, AboutCalls
<1>8. Turn(g, t.ms, s, l, e) = 0 /\ Unread(t.ms, s, l, e) = 0
  <2>1. Number(In(s, l, e), Toks(g, e)) = 0 /\ Number(In(s, l, e), Typed(e, "DATAB3_CONF")) = 0
    BY <1>5
  <2>2. One(l[e].st = "dialling") = 0
    BY <1>3 DEF One
  <2> QED  BY ONLY <1>3, <1>7, <2>1, <2>2 DEF Turn, Unread
<1>9. ASSUME NEW k \in DOMAIN t.appls, NEW j \in DOMAIN t.appls[k].calls
      PROVE  t.appls[k].calls[j].id # e
  <2>1. t.appls[k].calls[j].id \in 1 .. t.dialled
    BY <1>1 DEF Structured, ApplRight, CallRight
  <2> QED  BY <1>1, <2>1
<1> QED  BY <1>2, <1>3, <1>4, <1>5, <1>8, <1>9

\* What the request says of the calls.
LEMMA RequestCounts ==
    ASSUME NEW g, ~g.recv, NEW m \in Message, m.type = "CONNECT_REQ", NEW r, r = <<m>>
    PROVE  /\ r \in Seq(Message) /\ DOMAIN r = {1} /\ r[1] = m
           /\ \A i : /\ Number(r, Toks(g, i)) = One(i = m.id)
                     /\ Number(r, Dues(g, i)) = 0 /\ Number(r, Typed(i, "DATAB3_REQ")) = 0
<1>1. r \in Seq(Message) /\ DOMAIN r = {1} /\ r[1] = m
  OBVIOUS
<1>2. ASSUME NEW T  PROVE Number(r, T) = One(m \in T)
  <2>1. Number(<<m>>, T) = One(m \in T)
    BY NumberOne
  <2> QED  BY ONLY <2>1, r = <<m>>
<1>3. ASSUME NEW i
      PROVE  /\ Number(r, Toks(g, i)) = One(i = m.id)
             /\ Number(r, Dues(g, i)) = 0 /\ Number(r, Typed(i, "DATAB3_REQ")) = 0
  <2>1. m \in Toks(g, i) <=> i = m.id
    BY DEF Toks, TokTypes
  <2>2. m \notin Dues(g, i) /\ m \notin Typed(i, "DATAB3_REQ")
    BY DEF Dues, DueTypes, Typed
  <2>3. One(m \in Toks(g, i)) = One(i = m.id) /\ One(m \in Dues(g, i)) = 0 /\ One(m \in Typed(i, "DATAB3_REQ")) = 0
    BY <2>1, <2>2 DEF One
  <2> QED  BY <1>2, <2>3
<1> QED  BY <1>1, <1>3

\* The application k of t has dialled.
Called(g, t, u, k, s, l) ==
    /\ Inv(g, u, s, l) /\ Open(u) /\ Added(t, u, k, Dialling(t.dialled + 1))
    /\ u.dialled = t.dialled + 1
    /\ \A i \in CallIds : Turn(g, u.ms, s, l, i) = Turn(g, t.ms, s, l, i) + One(i = u.dialled)
    /\ Due(g, u.ms, s, l) = Due(g, t.ms, s, l)

LEMMA GenCalls ==
    ASSUME NEW g \in Configs, ~g.recv, NEW t, NEW s, NEW l, Inv(g, t, s, l), Open(t),
           NEW k \in DOMAIN t.appls, t.dialled + 1 \in CallIds
    PROVE  Called(g, t, GenCall(t, k), k, s, l)
<1> DEFINE e == t.dialled + 1  u == GenCall(t, k)  m == Requests(t, k)  r == <<m>>  c == Dialling(e)
           a == t.appls[k].id
<1>1. /\ Structured(g, t) /\ Mailed(g, t, s, l) /\ Fits(g, t, s, l) /\ Turns(g, t, s, l)
      /\ t \in State /\ t.ms \in Seq(Message) /\ Held(s, l) /\ t.dialled \in Nat /\ t.made \in Nat
  <2>1. Structured(g, t) /\ Mailed(g, t, s, l) /\ Fits(g, t, s, l) /\ Turns(g, t, s, l)
    BY DEF Inv
  <2> QED  BY <2>1, MailedIn
<1>2. e = t.dialled + 1 /\ e \in CallIds /\ e \in Nat
  BY <1>1
<1> HIDE DEF e, u, m, c
<1>3. /\ Added(t, u, k, c) /\ u.dialled = e /\ u.ms = t.ms \o <<m>>
      /\ m \in Message /\ m.type = "CONNECT_REQ" /\ m.id = e /\ m.appl = a
      /\ c \in Call /\ c.id = e /\ c.active /\ ~c.b3 /\ ~c.doSend /\ c.NotAcknowledged = 0
  BY <1>1, <1>2, GenCallShape DEF u, m, c
<1>4. /\ l[e] = Idle /\ l[e].appl = 0 /\ l[e].st = "free"
      /\ Turn(g, t.ms, s, l, e) = 0 /\ Unread(t.ms, s, l, e) = 0
      /\ \A T : Number(In(s, l, e), T) = 0
      /\ \A n \in DOMAIN t.appls : \A j \in DOMAIN t.appls[n].calls : t.appls[n].calls[j].id # e
  BY <1>2, Fresh
<1>5. /\ r \in Seq(Message) /\ DOMAIN r = {1} /\ r[1] = m
      /\ \A i : /\ Number(r, Toks(g, i)) = One(i = e)
                /\ Number(r, Dues(g, i)) = 0 /\ Number(r, Typed(i, "DATAB3_REQ")) = 0
  <2>1. /\ r \in Seq(Message) /\ DOMAIN r = {1} /\ r[1] = m
        /\ \A i : /\ Number(r, Toks(g, i)) = One(i = m.id)
                  /\ Number(r, Dues(g, i)) = 0 /\ Number(r, Typed(i, "DATAB3_REQ")) = 0
    BY <1>3, RequestCounts
  <2> QED  BY <1>3, <2>1
<1>6. u.ms = t.ms \o r /\ u.made = t.made /\ u \in State
  BY <1>3 DEF Added
<1> HIDE DEF r
<1>7. /\ CallRight(g, c, u.dialled) /\ u.dialled \in CallIds \cup {0} /\ t.dialled <= u.dialled
      /\ t.made <= u.made
  <2>1. 0 <= Limit(g)
    BY Options
  <2>2. c.NotAcknowledged <= Limit(g) /\ ~(c.NotAcknowledged > 0)
    <3> DEFINE x == c.NotAcknowledged  y == Limit(g)
    <3>1. x = 0 /\ 0 <= y
      BY <2>1, <1>3
    <3> HIDE DEF x, y
    <3>2. x <= y /\ ~(x > 0)
      BY ONLY <3>1
    <3> QED  BY <3>2 DEF x, y
  <2>3. c.active = ~g.recv
    <3>1. c.active \in BOOLEAN /\ g.recv \in BOOLEAN
      BY <1>3, Options DEF Call
    <3> QED  BY <1>3, <3>1
  <2>4. e \in 1 .. e /\ t.dialled <= e /\ t.made <= t.made
    BY <1>1, <1>2
  <2> QED  BY <1>2, <1>3, <1>6, <2>2, <2>3, <2>4 DEF CallRight
<1>8. Structured(g, u)
  <2>1. \A n \in DOMAIN t.appls : \A j \in DOMAIN t.appls[n].calls : t.appls[n].calls[j].id # c.id
    BY <1>3, <1>4
  <2> QED  BY <1>1, <1>3, <1>7, <2>1, AddedStructured
<1>9. /\ \A i \in CallIds : /\ Turn(g, u.ms, s, l, i) = Turn(g, t.ms, s, l, i) + One(i = u.dialled)
                            /\ Unread(u.ms, s, l, i) = Unread(t.ms, s, l, i)
      /\ Due(g, u.ms, s, l) = Due(g, t.ms, s, l)
  <2>1. ASSUME NEW i \in CallIds
        PROVE  /\ Turn(g, u.ms, s, l, i) = Turn(g, t.ms, s, l, i) + One(i = u.dialled)
               /\ Unread(u.ms, s, l, i) = Unread(t.ms, s, l, i)
    <3> DEFINE q == t.ms
    <3>1. q \in Seq(Message) /\ r \in Seq(Message) /\ Held(s, l)
      BY <1>1, <1>5
    <3> HIDE DEF q
    <3>2. /\ Turn(g, q \o r, s, l, i) = Turn(g, q, s, l, i) + Number(r, Toks(g, i))
          /\ Unread(q \o r, s, l, i) = Unread(q, s, l, i) + Number(r, Typed(i, "DATAB3_REQ"))
      BY <3>1, PutCounts
    <3>3. Unread(q, s, l, i) \in Nat
      BY <3>1, Counted
    <3> QED  BY <1>3, <1>5, <1>6, <3>2, <3>3 DEF q
  <2>2. Due(g, t.ms \o r, s, l) = Due(g, t.ms, s, l)
    BY <1>1, <1>5, PutDue
  <2> QED  BY <1>6, <2>1, <2>2
<1>10. Fit(g, u.ms, s, l, a, c)
  <2>1. \E n \in DOMAIN u.ms : u.ms[n].type = "CONNECT_REQ" /\ u.ms[n].id = c.id /\ u.ms[n].appl = a
    <3> DEFINE q == t.ms  n == Len(t.ms) + 1
    <3>1. q \in Seq(Message) /\ r \in Seq(Message) /\ u.ms = q \o r /\ DOMAIN r = {1} /\ r[1] = m
      BY <1>1, <1>5, <1>6
    <3>2. n \in DOMAIN u.ms /\ u.ms[n] = m
      <4>1. Len(r) = 1
        BY <3>1
      <4> HIDE DEF q
      <4>2. Len(q) + 1 \in DOMAIN (q \o r) /\ (q \o r)[Len(q) + 1] = r[1]
        <5> DEFINE p == q \o r  x == Len(q)
        <5>1. /\ x \in Nat /\ DOMAIN q = 1 .. x /\ DOMAIN p = 1 .. x + Len(r)
              /\ \A y \in DOMAIN p : y \in DOMAIN q \/ (y > x /\ y - x \in DOMAIN r /\ p[y] = r[y - x])
          BY ONLY <3>1, ConcatOf
        <5> HIDE DEF p, x
        <5>2. x + 1 \in DOMAIN p /\ x + 1 \notin DOMAIN q /\ (x + 1) - x = 1
          BY ONLY <4>1, <5>1
        <5> QED  BY <5>1, <5>2 DEF p, x
      <4> QED  BY <3>1, <4>2 DEF q
    <3> QED  BY <1>3, <3>2
  <2>2. Unread(u.ms, s, l, e) = 0
    BY <1>2, <1>4, <1>9
  <2>3. Number(In(s, l, e), Typed(e, "CONNECT_IND")) = 0
    BY <1>4
  <2> QED  BY ONLY <1>3, <1>4, <2>1, <2>2, <2>3 DEF Fit
<1>11. Fits(g, u, s, l)
  <2>1. ASSUME NEW n \in DOMAIN t.appls, NEW j \in DOMAIN t.appls[n].calls
        PROVE  /\ Number(r, Toks(g, t.appls[n].calls[j].id)) = 0
               /\ Number(r, Typed(t.appls[n].calls[j].id, "DATAB3_REQ")) = 0
    <3>1. t.appls[n].calls[j].id # e
      BY <1>4
    <3> QED  BY <1>5, <3>1 DEF One
  <2>2. /\ r \in Seq(Message) /\ u.ms = t.ms \o r /\ k \in DOMAIN t.appls
        /\ Structured(g, t) /\ Mailed(g, t, s, l) /\ Fits(g, t, s, l) /\ Added(t, u, k, c)
        /\ \A n \in DOMAIN t.appls : \A j \in DOMAIN t.appls[n].calls :
               /\ Number(r, Toks(g, t.appls[n].calls[j].id)) = 0
               /\ Number(r, Typed(t.appls[n].calls[j].id, "DATAB3_REQ")) = 0
        /\ Fit(g, u.ms, s, l, t.appls[k].id, c)
    BY <1>1, <1>3, <1>5, <1>6, <1>10, <2>1
  <2> QED  BY ONLY <2>2, AddedFits
<1>12. Askable(g, r, l, u.made, u.dialled)
  <2>1. a \in 1 .. t.made
    BY <1>1 DEF Structured, ApplRight
  <2>2. Asked(g, m, l, u.made, u.dialled) /\ m.type # "RELEASE"
    <3>1. e # 0 /\ e \in 0 .. e
      BY <1>2, Constants
    <3> QED  BY <1>3, <1>4, <1>6, <2>1, <3>1 DEF Asked
  <2> QED  BY <1>5, <2>2 DEF Askable
<1>13. Puttable(g, t.ms, r, s, l)
  <2> SUFFICES ASSUME NEW i \in CallIds
               PROVE  /\ \/ Number(r, Toks(g, i)) = 0
                         \/ /\ Number(r, Toks(g, i)) = 1 /\ Number(r, Typed(i, "DATAB3_REQ")) = 0
                            /\ Turn(g, t.ms, s, l, i) = 0 /\ Unread(t.ms, s, l, i) = 0
                      /\ Number(r, Typed(i, "DATAB3_REQ")) = 0 \/ Turn(g, t.ms, s, l, i) = 0
    BY DEF Puttable
  <2> QED  BY <1>4, <1>5 DEF One
<1>14. Inv(g, u, s, l) /\ Open(u)
  <2>1. /\ r \in Seq(Message) /\ Inv(g, t, s, l) /\ Open(t) /\ Structured(g, u) /\ Fits(g, u, s, l)
        /\ t.made <= u.made /\ t.dialled <= u.dialled /\ u.ms = t.ms \o r
        /\ Askable(g, r, l, u.made, u.dialled) /\ Puttable(g, t.ms, r, s, l)
    BY <1>5, <1>6, <1>7, <1>8, <1>11, <1>12, <1>13
  <2> QED  BY ONLY <2>1, Extend
<1>15. Called(g, t, u, k, s, l)
  BY <1>2, <1>3, <1>9, <1>14 DEF Called, c, e
<1> QED  BY <1>15 DEF u

--------------------------------------------------------------------------------
(* gen_next_call *)

\* Where the calls are.
Spots(as) == UNION {{k} \X DOMAIN as[k].calls : k \in DOMAIN as}

\* gen_next_call counts each call once.
LEMMA ActiveNumbers ==
    ASSUME NEW g, NEW t, Structured(g, t)
    PROVE  /\ IsFiniteSet(Numbers(t.appls)) /\ Cardinality(Numbers(t.appls)) \in Nat
           /\ Active(t.appls, 1) = Spots(t.appls)
           /\ Cardinality(Spots(t.appls)) = Cardinality(Numbers(t.appls))
<1> DEFINE as == t.appls  S == Spots(as)  T == Numbers(as)  f == [p \in S |-> as[p[1]].calls[p[2]].id]
<1>1. /\ t \in State /\ as \in Seq(Appl) /\ DOMAIN as = 1 .. Len(as)
      /\ t.dialled \in CallIds \cup {0}
      /\ \A k \in DOMAIN as : ApplRight(g, as[k], t.made, t.dialled) /\ DOMAIN as[k].calls = 1 .. Len(as[k].calls)
      /\ Apart(as)
  BY StateIn DEF Structured
<1>2. IsFiniteSet(T) /\ Cardinality(T) \in Nat
  <2>1. T \in SUBSET CallIds
    BY DEF Numbers
  <2>2. IsFiniteSet(CallIds)
    BY Constants, Interval
  <2> HIDE DEF T
  <2>3. IsFiniteSet(T)
    BY <2>1, <2>2, FS_Subset
  <2> QED  BY <2>3, FS_CardinalityType
<1>3. ASSUME NEW k \in DOMAIN as, NEW j \in DOMAIN as[k].calls
      PROVE  as[k].calls[j].id \in T
  <2>1. as[k].calls[j].id \in 1 .. t.dialled
    BY <1>1 DEF ApplRight, CallRight
  <2>2. as[k].calls[j].id \in CallIds
    <3> DEFINE x == as[k].calls[j].id  d == t.dialled
    <3>1. x \in 1 .. d /\ d \in CallIds \cup {0}
      BY <1>1, <2>1
    <3> HIDE DEF x, d
    <3>2. x \in CallIds
      BY ONLY <3>1, Constants
    <3> QED  BY <3>2 DEF x
  <2> QED  BY <2>2 DEF Numbers
<1>4. \A p \in S : p[1] \in DOMAIN as /\ p[2] \in DOMAIN as[p[1]].calls /\ p = <<p[1], p[2]>>
  BY DEF Spots
<1>5. \A k \in DOMAIN as : \A j \in DOMAIN as[k].calls : <<k, j>> \in S
  BY DEF Spots
<1>6. Active(as, 1) = S
  <2>1. \A k \in DOMAIN as : as[k].active_calls = Len(as[k].calls)
    BY <1>1 DEF ApplRight
  <2>2. \A k \in DOMAIN as : 1 .. as[k].active_calls = DOMAIN as[k].calls
    BY <1>1, <2>1
  <2>3. Active(as, 1) = UNION {{n} \X (1 .. as[n].active_calls) : n \in DOMAIN as}
    BY <1>1 DEF Active
  <2> HIDE DEF as
  <2> QED  BY <2>2, <2>3 DEF Spots
<1>7. f \in [S -> T]
  BY <1>3, <1>4
<1>8. f \in Injection(S, T)
  <2>1. \A p, q \in S : f[p] = f[q] => p = q
    <3> SUFFICES ASSUME NEW p \in S, NEW q \in S, f[p] = f[q]  PROVE p = q
      OBVIOUS
    <3>1. as[p[1]].calls[p[2]].id = as[q[1]].calls[q[2]].id
      BY SMTT(40), SMTT(41), ZenonT(30)
    <3>2. p[1] = q[1] /\ p[2] = q[2]
      BY SMTT(40), SMTT(41), ZenonT(30), <1>1, <1>4, <3>1 DEF Apart
    <3> HIDE DEF S, f
    <3> QED  BY <1>4, <3>2
  <2> QED  BY <1>7, <2>1 DEF Injection, IsInjective
<1>9. f \in Surjection(S, T)
  <2>1. \A i \in T : \E p \in S : f[p] = i
    <3> SUFFICES ASSUME NEW i \in T  PROVE \E p \in S : f[p] = i
      OBVIOUS
    <3>1. PICK k \in DOMAIN as : \E j \in DOMAIN as[k].calls : as[k].calls[j].id = i
      BY DEF Numbers
    <3>2. PICK j \in DOMAIN as[k].calls : as[k].calls[j].id = i
      BY <3>1
    <3>3. <<k, j>> \in S
      BY <1>5
    <3> DEFINE p == <<k, j>>
    <3>4. p \in S /\ p[1] = k /\ p[2] = j
      BY <3>3
    <3> HIDE DEF p, S
    <3>5. f[p] = i
      BY <3>2, <3>4
    <3> QED  BY <3>4, <3>5
  <2> QED  BY <1>7, <2>1 DEF Surjection
<1> HIDE DEF f, S, T
<1>10. Cardinality(S) = Cardinality(T)
  BY <1>2, <1>8, <1>9, FS_Injection
<1> QED  BY <1>2, <1>6, <1>10 DEF S, T

\* None of the program's calls has a turn; the applications behind the first are
\* full; nobody listens.
Resting(g, t, s, l) ==
    \A k \in DOMAIN t.appls : \A j \in DOMAIN t.appls[k].calls :
        Turn(g, t.ms, s, l, t.appls[k].calls[j].id) # 1
OthersFull(g, t) == \A n \in DOMAIN t.appls : n # 1 => t.appls[n].active_calls >= g.callperappl
Dumb(t) == \A n \in DOMAIN t.appls : ~t.appls[n].listen

LEMMA CalledAt ==
    ASSUME NEW g, NEW t, NEW u, NEW n \in DOMAIN t.appls, NEW s, NEW l, t \in State, Called(g, t, u, n, s, l)
    PROVE  /\ Inv(g, u, s, l) /\ Open(u) /\ u.dialled = t.dialled + 1 /\ u.made = t.made
           /\ Due(g, u.ms, s, l) = Due(g, t.ms, s, l) /\ u.appls # <<>> /\ DOMAIN u.appls = DOMAIN t.appls
           /\ \A x \in DOMAIN t.appls : u.appls[x].listen = t.appls[x].listen
           /\ \A x \in DOMAIN u.appls : \A j \in DOMAIN u.appls[x].calls :
                 \/ x = n /\ u.appls[x].calls[j].id = u.dialled
                 \/ \E y \in DOMAIN t.appls[x].calls : u.appls[x].calls[j] = t.appls[x].calls[y]
<1> DEFINE e == t.dialled + 1  c == Dialling(t.dialled + 1)
<1>1. Inv(g, u, s, l) /\ Open(u) /\ u.dialled = e /\ Due(g, u.ms, s, l) = Due(g, t.ms, s, l)
      /\ Added(t, u, n, c)
  BY DEF Called
<1>2. c.id = e
  <2> HIDE DEF e
  <2>1. e = t.dialled + 1 /\ c = Dialling(e)
    BY DEF e
  <2> HIDE DEF c
  <2>2. Dialling(e).id = e
    BY <2>1, GenCallShape
  <2> QED  BY <2>1, <2>2
<1> HIDE DEF c
<1>3. /\ u.made = t.made /\ DOMAIN u.appls = DOMAIN t.appls
      /\ \A x \in DOMAIN t.appls : u.appls[x].listen = t.appls[x].listen
  BY <1>1 DEF Added
<1>4. u.appls # <<>>
  <2>1. n \in DOMAIN u.appls
    BY <1>3
  <2>2. CASE u.appls = <<>>
    <3>1. DOMAIN u.appls = {}
      BY <2>2
    <3> QED  BY <2>1, <3>1
  <2> QED  BY <2>2
<1>5. ASSUME NEW x \in DOMAIN u.appls, NEW j \in DOMAIN u.appls[x].calls
      PROVE  \/ x = n /\ u.appls[x].calls[j].id = u.dialled
             \/ \E y \in DOMAIN t.appls[x].calls : u.appls[x].calls[j] = t.appls[x].calls[y]
  <2>1. \/ x = n /\ j = 1 /\ u.appls[x].calls[j] = c
        \/ x = n /\ j # 1 /\ j - 1 \in DOMAIN t.appls[x].calls /\ u.appls[x].calls[j] = t.appls[x].calls[j - 1]
        \/ x # n /\ u.appls[x] = t.appls[x] /\ x \in DOMAIN t.appls
    <3>1. Added(t, u, n, c) /\ x \in DOMAIN u.appls /\ j \in DOMAIN u.appls[x].calls
      BY <1>1
    <3> QED  BY ONLY <3>1, AddedAt
  <2> HIDE DEF e
  <2> QED  BY <1>1, <1>2, <2>1
<1> QED  BY <1>1, <1>3, <1>4, <1>5

\* The new call is the only one that has a turn.
LEMMA CallsChain ==
    ASSUME NEW g, NEW t, NEW u, NEW s, NEW l, Structured(g, t), NEW h \in DOMAIN t.appls, h = 1,
           Called(g, t, u, h, s, l), Resting(g, t, s, l), OthersFull(g, t), Cardinality(Numbers(t.appls)) + 1 <= g.MaxActivCalls,
           g.MaxActivCalls \in Nat, t.dialled + 1 \in CallIds
    PROVE  Chain(g, u, s, l)
<1>1. t \in State /\ t.dialled \in Nat
  BY StateIn DEF Structured
<1>2. /\ Inv(g, u, s, l) /\ u.dialled = t.dialled + 1 /\ DOMAIN u.appls = DOMAIN t.appls
      /\ \A x \in DOMAIN u.appls : \A j \in DOMAIN u.appls[x].calls :
            \/ x = h /\ u.appls[x].calls[j].id = u.dialled
            \/ \E y \in DOMAIN t.appls[x].calls : u.appls[x].calls[j] = t.appls[x].calls[y]
  <2>1. t \in State /\ Called(g, t, u, h, s, l) /\ h \in DOMAIN t.appls
    BY <1>1
  <2>2. DOMAIN u.appls = DOMAIN t.appls
    BY <2>1 DEF Called, Added
  <2>4. Inv(g, u, s, l) /\ u.dialled = t.dialled + 1
    BY <2>1 DEF Called
  <2>3. \A x \in DOMAIN u.appls : \A j \in DOMAIN u.appls[x].calls :
            \/ x = h /\ u.appls[x].calls[j].id = u.dialled
            \/ \E y \in DOMAIN t.appls[x].calls : u.appls[x].calls[j] = t.appls[x].calls[y]
    BY ONLY <2>1, CalledAt
  <2> QED  BY ONLY <2>2, <2>3, <2>4
<1>3. /\ \A i \in CallIds : Turn(g, u.ms, s, l, i) = Turn(g, t.ms, s, l, i) + One(i = u.dialled)
      /\ \A n \in DOMAIN t.appls : n # 1 => u.appls[n] = t.appls[n]
  BY DEF Called, Added
<1>4. ASSUME NEW k \in DOMAIN t.appls, NEW j \in DOMAIN t.appls[k].calls
      PROVE  /\ t.appls[k].calls[j].id \in CallIds /\ t.appls[k].calls[j].id # u.dialled
             /\ t.appls[k].calls[j].id \in Numbers(t.appls)
             /\ Turn(g, u.ms, s, l, t.appls[k].calls[j].id) # 1
  <2> DEFINE i == t.appls[k].calls[j].id
  <2>1. i \in 1 .. t.dialled /\ t.dialled \in CallIds \cup {0}
    BY DEF Structured, ApplRight, CallRight
  <2>2. i \in CallIds /\ i # u.dialled
    BY <1>1, <1>2, <2>1, Constants
  <2>3. Turn(g, t.ms, s, l, i) # 1
    BY DEF Resting
  <2>4. One(i = u.dialled) = 0
    BY <2>2 DEF One
  <2>5. Turn(g, t.ms, s, l, i) + 0 = Turn(g, u.ms, s, l, i)
    BY SMTT(40), SMTT(41), ZenonT(30), <1>3, <2>2, <2>4
  <2>6. i \in Numbers(t.appls)
    BY <2>2 DEF Numbers
  <2>7. Turn(g, t.ms, s, l, i) \in Nat
    <3>1. Structured(g, u) /\ Mailed(g, u, s, l)
      BY DEF Called, Inv
    <3>2. Held(s, l)
      BY <3>1, MailedIn
    <3> DEFINE q == t.ms
    <3>3. q \in Seq(Message) /\ Held(s, l) /\ i \in CallIds
      BY <1>1, <2>2, <3>2, StateIn
    <3> HIDE DEF q, i
    <3>4. Turn(g, q, s, l, i) \in Nat
      BY ONLY <3>3, Counted
    <3> QED  BY <3>4 DEF q
  <2> QED  BY <2>2, <2>3, <2>5, <2>6, <2>7
<1>5. ASSUME NEW k \in DOMAIN u.appls, NEW j \in DOMAIN u.appls[k].calls,
             Turn(g, u.ms, s, l, u.appls[k].calls[j].id) = 1
      PROVE  k = 1 /\ u.appls[k].calls[j].id = u.dialled
  BY <1>2, <1>4, <1>5
<1>6. \A n \in DOMAIN u.appls : n # 1 => u.appls[n].active_calls >= g.callperappl
  BY <1>2, <1>3 DEF OthersFull
<1>7. Cardinality(Numbers(u.appls)) <= g.MaxActivCalls
  <2> DEFINE T == Numbers(t.appls)  e == u.dialled
  <2>1. IsFiniteSet(T) /\ Cardinality(T) \in Nat
    BY SMTT(40), SMTT(41), ZenonT(30), ActiveNumbers
  <2>2. Numbers(u.appls) \in SUBSET (T \cup {e})
    BY <1>2, <1>4 DEF Numbers
  <2> HIDE DEF T, e
  <2>3. IsFiniteSet(T \cup {e}) /\ Cardinality(T \cup {e}) <= Cardinality(T) + 1 /\ Cardinality(T \cup {e}) \in Nat
    <3>1. IsFiniteSet(T \cup {e}) /\ Cardinality(T \cup {e}) = IF e \in T THEN Cardinality(T) ELSE Cardinality(T) + 1
      BY <2>1, FS_AddElement
    <3> QED  BY <2>1, <3>1
  <2> DEFINE U == T \cup {e}  V == Numbers(u.appls)
  <2>4. V \in SUBSET U /\ IsFiniteSet(U)
    BY <2>2, <2>3
  <2> HIDE DEF U, V
  <2>5. IsFiniteSet(V) /\ Cardinality(V) <= Cardinality(U)
    BY <2>4, FS_Subset
  <2>6. Cardinality(V) \in Nat
    BY <2>5, FS_CardinalityType
  <2> DEFINE x == Cardinality(T)  y == Cardinality(U)  z == Cardinality(V)  m == g.MaxActivCalls
  <2>7. x \in Nat /\ y \in Nat /\ z \in Nat /\ m \in Nat /\ y <= x + 1 /\ z <= y /\ x + 1 <= m
    BY <2>1, <2>3, <2>5, <2>6 DEF T, U
  <2> HIDE DEF x, y, z, m
  <2>8. z <= m
    BY ONLY <2>7
  <2> QED  BY <2>8 DEF z, m, V
<1> QED  BY <1>5, <1>6, <1>7 DEF Chain

\* What there is when t has gone on to dial a call, or has not, from the application k.
Went(g, t, u, k, s, l) ==
    /\ Inv(g, u, s, l) /\ Open(u) /\ Dumb(u) /\ u.appls # <<>>
    /\ Due(g, u.ms, s, l) = Due(g, t.ms, s, l)
    /\ u.made \in {t.made, t.made + 1} /\ u.made <= 1 + u.dialled
    /\ u.dialled \in {t.dialled, t.dialled + 1}
    /\ g.MaxActivCalls = 0 => u.dialled = t.dialled
    /\ k = 1 /\ Resting(g, t, s, l) /\ OthersFull(g, t) /\ Cardinality(Numbers(t.appls)) <= g.MaxActivCalls
           => Chain(g, u, s, l)

\* The program does not dial.
LEMMA WentNone ==
    ASSUME NEW g, NEW t, NEW k, NEW s, NEW l, Inv(g, t, s, l), Open(t), Dumb(t), t.appls # <<>>,
           t.made <= 1 + t.dialled
    PROVE  Went(g, t, t, k, s, l)
<1>1. Resting(g, t, s, l) /\ Cardinality(Numbers(t.appls)) <= g.MaxActivCalls => Chain(g, t, s, l)
  BY DEF Resting, Chain
<1> QED  BY <1>1 DEF Went

\* A new application changes nothing about the calls.
LEMMA GrownCalls ==
    ASSUME NEW g, ~g.recv, NEW t, NEW u, NEW s, NEW l, Structured(g, t), Mailed(g, t, s, l), Registers(g, t, u, s, l),
           Dumb(t)
    PROVE  /\ Dumb(u) /\ Numbers(u.appls) = Numbers(t.appls)
           /\ Resting(g, t, s, l) => Resting(g, u, s, l)
           /\ (\A n \in DOMAIN t.appls : t.appls[n].active_calls >= g.callperappl) => OthersFull(g, u)
           /\ 1 \in DOMAIN u.appls /\ u.made = t.made + 1 /\ u.dialled = t.dialled
           /\ Inv(g, u, s, l) /\ Open(u) /\ Due(g, u.ms, s, l) = Due(g, t.ms, s, l)
<1>1. /\ OneMore(t, u) /\ u.ms = t.ms /\ u.appls[1].calls = <<>> /\ ~u.appls[1].listen
      /\ u.made = t.made + 1 /\ u.dialled = t.dialled /\ Inv(g, u, s, l) /\ Open(u)
      /\ Due(g, u.ms, s, l) = Due(g, t.ms, s, l)
  BY DEF Registers, Quietly
<1>2. DOMAIN u.appls[1].calls = {}
  BY <1>1
<1>3. /\ 1 \in DOMAIN u.appls
      /\ \A x \in DOMAIN t.appls : x + 1 \in DOMAIN u.appls /\ u.appls[x + 1] = t.appls[x]
      /\ \A x \in DOMAIN u.appls : x = 1 \/ (x - 1 \in DOMAIN t.appls /\ u.appls[x] = t.appls[x - 1])
  BY <1>1 DEF OneMore
<1>4. Dumb(u)
  BY <1>1, <1>3 DEF Dumb
<1>5. Numbers(u.appls) = Numbers(t.appls)
  <2>1. ASSUME NEW i \in CallIds,
               NEW k \in DOMAIN u.appls, NEW j \in DOMAIN u.appls[k].calls, u.appls[k].calls[j].id = i
        PROVE  \E n \in DOMAIN t.appls : \E m \in DOMAIN t.appls[n].calls : t.appls[n].calls[m].id = i
    BY <1>2, <1>3, <2>1
  <2>2. ASSUME NEW i \in CallIds,
               NEW k \in DOMAIN t.appls, NEW j \in DOMAIN t.appls[k].calls, t.appls[k].calls[j].id = i
        PROVE  \E n \in DOMAIN u.appls : \E m \in DOMAIN u.appls[n].calls : u.appls[n].calls[m].id = i
    BY <1>3, <2>2
  <2> QED  BY <2>1, <2>2 DEF Numbers
<1>6. ASSUME Resting(g, t, s, l)  PROVE Resting(g, u, s, l)
  <2> SUFFICES ASSUME NEW k \in DOMAIN u.appls, NEW j \in DOMAIN u.appls[k].calls
               PROVE  Turn(g, u.ms, s, l, u.appls[k].calls[j].id) # 1
    BY DEF Resting
  <2>1. k - 1 \in DOMAIN t.appls /\ u.appls[k] = t.appls[k - 1]
    BY <1>2, <1>3
  <2> QED  BY <1>1, <1>6, <2>1 DEF Resting
<1>7. ASSUME \A n \in DOMAIN t.appls : t.appls[n].active_calls >= g.callperappl
      PROVE  OthersFull(g, u)
  BY <1>3, <1>7 DEF OthersFull
<1> QED  BY <1>1, <1>3, <1>4, <1>5, <1>6, <1>7

\* A sender dials from the application h of v, which t has become.
LEMMA WentOne ==
    ASSUME NEW g \in Configs, ~g.recv, NEW t, NEW v, NEW u, NEW k, NEW s, NEW l, NEW h \in DOMAIN v.appls,
           Inv(g, v, s, l), Open(v), Dumb(v), u = GenCall(v, h),
           v.dialled = t.dialled, v.dialled + 1 \in CallIds, v.made \in {t.made, t.made + 1},
           v.made <= 2 + v.dialled, g.MaxActivCalls # 0,
           Due(g, v.ms, s, l) = Due(g, t.ms, s, l),
           k = 1 /\ Resting(g, t, s, l) /\ OthersFull(g, t) =>
               h = 1 /\ Resting(g, v, s, l) /\ OthersFull(g, v),
           k = 1 => Cardinality(Numbers(v.appls)) + 1 <= g.MaxActivCalls
    PROVE  Went(g, t, u, k, s, l)
<1>1. Called(g, v, u, h, s, l)
  BY GenCalls
<1>2. Structured(g, v) /\ v \in State /\ v.made \in Nat /\ v.dialled \in Nat
  <2>1. Structured(g, v)
    BY DEF Inv
  <2> QED  BY <2>1, StateIn DEF Structured
<1>3. /\ Inv(g, u, s, l) /\ Open(u) /\ u.dialled = v.dialled + 1
      /\ Due(g, u.ms, s, l) = Due(g, v.ms, s, l)
  BY <1>1 DEF Called
<1>4. /\ u.made = v.made /\ DOMAIN u.appls = DOMAIN v.appls
      /\ \A x \in DOMAIN v.appls : u.appls[x].listen = v.appls[x].listen
  BY <1>1 DEF Called, Added
<1>5. Dumb(u)
  BY <1>4 DEF Dumb
<1>6. u.appls # <<>>
  <2>1. CASE u.appls = <<>>
    <3>1. DOMAIN u.appls = {}
      BY <2>1
    <3> QED  BY <1>4, <3>1
  <2> QED  BY <2>1
<1>7. u.made <= 1 + u.dialled
  BY <1>2, <1>3, <1>4
<1>8. ASSUME k = 1, Resting(g, t, s, l), OthersFull(g, t)
      PROVE  Chain(g, u, s, l)
  <2>1. /\ Structured(g, v) /\ h \in DOMAIN v.appls /\ h = 1 /\ Called(g, v, u, h, s, l)
        /\ Resting(g, v, s, l) /\ OthersFull(g, v) /\ Cardinality(Numbers(v.appls)) + 1 <= g.MaxActivCalls
        /\ g.MaxActivCalls \in Nat /\ v.dialled + 1 \in CallIds
    BY <1>1, <1>2, <1>8, Options
  <2> QED  BY ONLY <2>1, CallsChain
<1> QED  BY <1>3, <1>4, <1>5, <1>6, <1>7, <1>8 DEF Went

\* gen_next_call of a sender.
LEMMA Dials ==
    ASSUME cfg \in Configs, ~cfg.recv, NEW t, NEW s, NEW l, Inv(cfg, t, s, l), Open(t), Dumb(t),
           NEW k \in DOMAIN t.appls, t.made <= 1 + t.dialled, t.dialled + 1 \in CallIds,
           cfg.MaxActivCalls = 0 => t.dialled = 0
    PROVE  Went(cfg, t, GenNextCall(t, k), k, s, l)
<1> DEFINE u == GenNextCall(t, k)  v == AllocAppl(t)  active == Cardinality(Active(t.appls, k))
<1>1. /\ Structured(cfg, t) /\ Mailed(cfg, t, s, l) /\ t \in State /\ t.made \in Nat /\ t.dialled \in Nat
      /\ cfg.recv \in BOOLEAN /\ cfg.MaxActivCalls \in Nat /\ cfg.callperappl \in Nat /\ cfg.callperappl # 0
  <2>1. Structured(cfg, t) /\ Mailed(cfg, t, s, l)
    BY DEF Inv
  <2> QED  BY <2>1, MailedIn, Options
<1>2. t.appls # <<>>
  <2>1. CASE t.appls = <<>>
    <3>1. DOMAIN t.appls = {}
      BY <2>1
    <3> QED  BY <3>1
  <2> QED  BY <2>1
<1>3. CASE u = t
  BY <1>2, <1>3, WentNone
<1>4. ASSUME k = 1, ~(active >= cfg.MaxActivCalls)
      PROVE  Cardinality(Numbers(t.appls)) + 1 <= cfg.MaxActivCalls
  <2> DEFINE x == Cardinality(Numbers(t.appls))  m == cfg.MaxActivCalls
  <2>1. x \in Nat /\ active = x
    BY <1>1, <1>4, ActiveNumbers
  <2>2. m \in Nat /\ ~(x >= m) /\ x \in Nat
    BY <1>1, <1>4, <2>1
  <2> HIDE DEF x, m
  <2>3. x + 1 <= m
    BY ONLY <2>2
  <2> QED  BY <2>3 DEF x, m
<1>5. ASSUME cfg.MaxActivCalls # 0, ~(active >= cfg.MaxActivCalls), Rooms(t, k) = {}, u = GenCall(v, 1)
      PROVE  Went(cfg, t, u, k, s, l)
  <2>1. t.made + 1 \in ApplIds
    <3> DEFINE d == t.dialled  e == t.made
    <3>1. d \in Nat /\ e \in Nat /\ e <= 1 + d /\ d + 1 \in CallIds
      BY <1>1
    <3> HIDE DEF d, e
    <3>2. e + 1 \in ApplIds
      BY ONLY <3>1, Constants
    <3> QED  BY <3>2 DEF e
  <2>2. Registers(cfg, t, v, s, l)
    BY <1>1, <2>1, Allocs
  <2> HIDE DEF v, u
  <2>3. /\ Dumb(v) /\ Numbers(v.appls) = Numbers(t.appls)
        /\ Resting(cfg, t, s, l) => Resting(cfg, v, s, l)
        /\ (\A n \in DOMAIN t.appls : t.appls[n].active_calls >= cfg.callperappl) => OthersFull(cfg, v)
        /\ 1 \in DOMAIN v.appls /\ v.made = t.made + 1 /\ v.dialled = t.dialled
        /\ Inv(cfg, v, s, l) /\ Open(v) /\ Due(cfg, v.ms, s, l) = Due(cfg, t.ms, s, l)
    <3>1. ~cfg.recv /\ Structured(cfg, t) /\ Mailed(cfg, t, s, l) /\ Registers(cfg, t, v, s, l) /\ Dumb(t)
      BY <1>1, <2>2
    <3> QED  BY ONLY <3>1, GrownCalls
  <2>4. k = 1 => \A n \in DOMAIN t.appls : t.appls[n].active_calls >= cfg.callperappl
    <3>1. ASSUME k = 1, NEW n \in DOMAIN t.appls  PROVE t.appls[n].active_calls >= cfg.callperappl
      <4>1. n \in k .. Len(t.appls) /\ t.appls[n].active_calls \in Nat
        BY <1>1, <3>1, StateIn
      <4>2. ~(t.appls[n].active_calls < cfg.callperappl)
        BY <1>5, <4>1 DEF Rooms
      <4> QED  BY SMTT(40), SMTT(41), ZenonT(30), <1>1, <4>1, <4>2
    <3> QED  BY <3>1
  <2> DEFINE h == 1
  <2>5. /\ cfg \in Configs /\ ~cfg.recv /\ h \in DOMAIN v.appls /\ Inv(cfg, v, s, l) /\ Open(v) /\ Dumb(v)
        /\ u = GenCall(v, h) /\ v.dialled = t.dialled /\ v.dialled + 1 \in CallIds
        /\ v.made \in {t.made, t.made + 1} /\ cfg.MaxActivCalls # 0
        /\ Due(cfg, v.ms, s, l) = Due(cfg, t.ms, s, l)
        /\ (k = 1 /\ Resting(cfg, t, s, l) /\ OthersFull(cfg, t) =>
               h = 1 /\ Resting(cfg, v, s, l) /\ OthersFull(cfg, v))
        /\ (k = 1 => Cardinality(Numbers(v.appls)) + 1 <= cfg.MaxActivCalls)
    BY <1>4, <1>5, <2>3, <2>4
  <2>6. v.made <= 2 + v.dialled
    BY <1>1, <2>3
  <2> HIDE DEF h
  <2> QED  BY ONLY <2>5, <2>6, WentOne
<1>6. ASSUME cfg.MaxActivCalls # 0, ~(active >= cfg.MaxActivCalls), Rooms(t, k) # {},
             u = GenCall(t, Min(Rooms(t, k)))
      PROVE  Went(cfg, t, u, k, s, l)
  <2> DEFINE h == Min(Rooms(t, k))
  <2>1. /\ h \in DOMAIN t.appls /\ h >= k /\ h \in Nat
        /\ t.appls[h].active_calls < cfg.callperappl
    BY <1>1, <1>6, RoomsIn
  <2>2. u = GenCall(t, h)
    BY <1>6
  <2> HIDE DEF h, u
  <2>3. ASSUME OthersFull(cfg, t)  PROVE h = 1
    <3>1. t.appls[h].active_calls \in Nat
      BY <1>1, <2>1, StateIn
    <3> QED  BY <1>1, <2>1, <2>3, <3>1 DEF OthersFull
  <2>4. /\ cfg \in Configs /\ ~cfg.recv /\ h \in DOMAIN t.appls /\ Inv(cfg, t, s, l) /\ Open(t) /\ Dumb(t)
        /\ u = GenCall(t, h) /\ t.dialled = t.dialled /\ t.dialled + 1 \in CallIds
        /\ t.made \in {t.made, t.made + 1} /\ cfg.MaxActivCalls # 0
        /\ Due(cfg, t.ms, s, l) = Due(cfg, t.ms, s, l)
        /\ (k = 1 /\ Resting(cfg, t, s, l) /\ OthersFull(cfg, t) =>
               h = 1 /\ Resting(cfg, t, s, l) /\ OthersFull(cfg, t))
        /\ (k = 1 => Cardinality(Numbers(t.appls)) + 1 <= cfg.MaxActivCalls)
    BY <1>4, <1>6, <2>1, <2>2, <2>3
  <2>5. t.made <= 2 + t.dialled
    BY <1>1
  <2> QED  BY ONLY <2>4, <2>5, WentOne
<1>7. ASSUME cfg.MaxActivCalls = 0, Rooms(t, k) = {}  PROVE FALSE
  <2>1. k \in k .. Len(t.appls) /\ DOMAIN t.appls[k].calls = 1 .. Len(t.appls[k].calls) /\ k \in Nat
        /\ Len(t.appls[k].calls) \in Nat
    BY <1>1, StateIn
  <2>2. t.appls[k].active_calls = Len(t.appls[k].calls)
        /\ \A j \in DOMAIN t.appls[k].calls : t.appls[k].calls[j].id \in 1 .. t.dialled
    BY <1>1 DEF Structured, ApplRight, CallRight
  <2>3. t.dialled = 0
    BY <1>7
  <2>4. Len(t.appls[k].calls) = 0
    <3> DEFINE x == Len(t.appls[k].calls)
    <3>1. DOMAIN t.appls[k].calls = {}
      BY <2>2, <2>3
    <3>2. x \in Nat /\ 1 .. x = {}
      BY <2>1, <3>1
    <3> HIDE DEF x
    <3>3. x = 0
      BY ONLY <3>2
    <3> QED  BY <3>3 DEF x
  <2>5. t.appls[k].active_calls < cfg.callperappl
    BY <1>1, <2>2, <2>4
  <2> QED  BY <1>7, <2>1, <2>5 DEF Rooms
<1>8. \/ u = t
      \/ /\ cfg.MaxActivCalls # 0 /\ ~(active >= cfg.MaxActivCalls)
         /\ \/ Rooms(t, k) = {} /\ u = GenCall(v, 1)
            \/ Rooms(t, k) # {} /\ u = GenCall(t, Min(Rooms(t, k)))
      \/ cfg.MaxActivCalls = 0 /\ Rooms(t, k) = {}
  <2> HIDE DEF active
  <2>1. u = IF cfg.recv \/ (cfg.MaxActivCalls > 0 /\ active >= cfg.MaxActivCalls) THEN t
            ELSE IF cfg.MaxActivCalls > 0
                   THEN GenCall(IF Rooms(t, k) = {} THEN v ELSE t, IF Rooms(t, k) = {} THEN 1 ELSE Min(Rooms(t, k)))
                   ELSE IF Rooms(t, k) = {} THEN v ELSE t
    BY DEF GenNextCall, active
  <2>2. cfg.MaxActivCalls > 0 <=> cfg.MaxActivCalls # 0
    BY <1>1
  <2> HIDE DEF u, v
  <2>3. CASE cfg.MaxActivCalls > 0 /\ active >= cfg.MaxActivCalls
    BY <2>1, <2>3
  <2>4. CASE cfg.MaxActivCalls > 0 /\ ~(active >= cfg.MaxActivCalls) /\ Rooms(t, k) = {}
    BY <2>1, <2>2, <2>4
  <2>5. CASE cfg.MaxActivCalls > 0 /\ ~(active >= cfg.MaxActivCalls) /\ Rooms(t, k) # {}
    BY <2>1, <2>2, <2>5
  <2>6. CASE ~(cfg.MaxActivCalls > 0)
    BY <2>1, <2>2, <2>6
  <2> QED  BY <2>3, <2>4, <2>5, <2>6
<1> HIDE DEF u, v, active
<1>9. Went(cfg, t, u, k, s, l)
  <2>1. CASE u = t
    BY <1>3, <2>1 DEF u
  <2>2. CASE /\ cfg.MaxActivCalls # 0 /\ ~(active >= cfg.MaxActivCalls)
             /\ Rooms(t, k) = {} /\ u = GenCall(v, 1)
    BY ONLY <1>5, <2>2
  <2>3. CASE /\ cfg.MaxActivCalls # 0 /\ ~(active >= cfg.MaxActivCalls)
             /\ Rooms(t, k) # {} /\ u = GenCall(t, Min(Rooms(t, k)))
    BY ONLY <1>6, <2>3
  <2> QED  BY ONLY <1>7, <1>8, <2>1, <2>2, <2>3
<1> QED  BY <1>9 DEF u

--------------------------------------------------------------------------------
(* capi_event: what each message does *)

LEMMA PlaceIn ==
    ASSUME NEW S, NEW n, S \subseteq 1 .. n
    PROVE  \/ S = {} /\ Place(S) = 0
           \/ S # {} /\ Place(S) \in S /\ Place(S) # 0
<1>1. CASE S = {}
  BY <1>1 DEF Place
<1>2. CASE S # {}
  <2>1. S \subseteq Nat /\ \A x \in S : x # 0
    OBVIOUS
  <2>2. PICK m \in S : \A x \in S : m <= x
    BY <1>2, <2>1, Least
  <2>3. Place(S) \in S
    BY <1>2, <2>2 DEF Place, Min
  <2> QED  BY <1>2, <2>1, <2>3
<1> QED  BY <1>1, <1>2

\* The application k of t gets the first message to it.
Gets(g, t, s, l, ls, an, sg, a, k) ==
    /\ g \in Configs /\ Whole(g, t, s, l, ls, an, sg) /\ Silent(t) /\ an \in Nat /\ sg \in Nat
    /\ a \in ApplIds /\ s[a] # <<>> /\ k \in DOMAIN t.appls /\ t.appls[k].id = a

LEMMA GetsIn ==
    ASSUME NEW g, NEW t, NEW s, NEW l, NEW ls, NEW an, NEW sg, NEW a, NEW k, Gets(g, t, s, l, ls, an, sg, a, k)
    PROVE  /\ g \in Configs /\ g.recv \in BOOLEAN /\ a \in ApplIds /\ s[a] # <<>> /\ k \in DOMAIN t.appls
           /\ Whole(g, t, s, l, ls, an, sg) /\ Inv(g, t, s, l) /\ t.ms = <<>> /\ an \in Nat /\ sg \in Nat
           /\ Structured(g, t) /\ Mailed(g, t, s, l) /\ t \in State /\ t.dialled \in Nat /\ Held(s, l)
           /\ a \in 1 .. t.made /\ t.appls[k].id = a /\ a \in Nat
           /\ Head(s[a]) \in Message /\ Posted(g, Head(s[a]), a, l, t.dialled) /\ Head(s[a]).appl = a
           /\ Head(s[a]).id # 0 => /\ Head(s[a]).id \in 1 .. t.dialled /\ Head(s[a]).id \in CallIds
                                   /\ l[Head(s[a]).id].appl = a
           /\ Head(s[a]).b3 \in BOOLEAN /\ Head(s[a]).id \in Nat
<1>1. /\ g \in Configs /\ a \in ApplIds /\ s[a] # <<>> /\ k \in DOMAIN t.appls
      /\ Whole(g, t, s, l, ls, an, sg) /\ t.ms = <<>> /\ an \in Nat /\ sg \in Nat /\ t.appls[k].id = a
  BY DEF Gets, Silent
<1>2. Inv(g, t, s, l) /\ Structured(g, t) /\ Mailed(g, t, s, l) /\ g.recv \in BOOLEAN
  BY <1>1, Options DEF Whole, Inv
<1>3. t \in State /\ t.dialled \in Nat /\ Held(s, l)
  BY <1>2, MailedIn
<1>4. a \in 1 .. t.made /\ a \in Nat
  BY <1>1, <1>2, Constants DEF Structured, ApplRight
<1>5. /\ Head(s[a]) \in Message /\ Posted(g, Head(s[a]), a, l, t.dialled) /\ Head(s[a]).appl = a
      /\ Head(s[a]).id # 0 => /\ Head(s[a]).id \in 1 .. t.dialled /\ Head(s[a]).id \in CallIds
                              /\ l[Head(s[a]).id].appl = a
  BY <1>1, <1>2, HeadPosted
<1>6. Head(s[a]).b3 \in BOOLEAN /\ Head(s[a]).id \in Nat
  BY <1>5 DEF Message
<1> QED  BY <1>1, <1>2, <1>3, <1>4, <1>5, <1>6

\* The message is taken, and nothing comes of it.
LEMMA HeadOnly ==
    ASSUME NEW g, NEW t, NEW s, NEW l, NEW ls, NEW an, NEW sg, NEW a, NEW k, Gets(g, t, s, l, ls, an, sg, a, k),
           NoBlock(t, Head(s[a]))
    PROVE  Run(g, t, t, Taken(s, a), l) /\ Whole(g, t, Taken(s, a), l, ls, an, sg)
<1>1. /\ Inv(g, t, s, l) /\ t.ms = <<>> /\ a \in ApplIds /\ s[a] # <<>> /\ NoBlock(t, Head(s[a]))
      /\ g.recv \in BOOLEAN /\ an \in Nat /\ sg \in Nat /\ Whole(g, t, s, l, ls, an, sg)
  BY GetsIn
<1>2. Run(g, t, t, Taken(s, a), l)
  BY <1>1, TakesFirst
<1> QED  BY <1>1, <1>2, RunSettles

\* What has begun with a message, and has put nothing but what says what has happened.
LEMMA GetsSettle ==
    ASSUME NEW g, NEW t, NEW t2, NEW s, NEW l, NEW ls, NEW an, NEW sg, NEW a, NEW k,
           Gets(g, t, s, l, ls, an, sg, a, k), Run(g, t, t2, Taken(s, a), l)
    PROVE  Whole(g, t2, Taken(s, a), l, ls, an, sg)
<1>1. /\ t.ms = <<>> /\ a \in ApplIds /\ s[a] # <<>> /\ g.recv \in BOOLEAN /\ an \in Nat /\ sg \in Nat
      /\ Whole(g, t, s, l, ls, an, sg) /\ Run(g, t, t2, Taken(s, a), l)
  BY GetsIn
<1> QED  BY <1>1, RunSettles

\* An answer to the message h.
Reply(type, a, h) == Msg(type, a, h.id, h.b3, 0)

LEMMA ReplyIs ==
    ASSUME NEW type \in Types, NEW a \in Nat, NEW h \in Message
    PROVE  /\ Reply(type, a, h) \in Message /\ Reply(type, a, h).type = type
           /\ Reply(type, a, h).appl = a /\ Reply(type, a, h).id = h.id /\ Reply(type, a, h).b3 = h.b3
BY DEF Reply, Msg, Message

LEMMA Replies ==
    ASSUME NEW g, NEW t, NEW t2, NEW s, NEW l, NEW ls, NEW an, NEW sg, NEW a, NEW k,
           Gets(g, t, s, l, ls, an, sg, a, k), Run(g, t, t2, Taken(s, a), l), Head(s[a]).id # 0,
           NEW type, type \in PlainTypes, type # "DATAB3_REQ", NEW m, m = Reply(type, a, Head(s[a]))
    PROVE  /\ Run(g, t, Put(t2, m), Taken(s, a), l) /\ Put(t2, m).appls = t2.appls
           /\ Put(t2, m).made = t2.made /\ Put(t2, m).dialled = t2.dialled
           /\ \A i \in CallIds : MayGo(g, t2, Taken(s, a), l, i) => MayGo(g, Put(t2, m), Taken(s, a), l, i)
<1> DEFINE h == Head(s[a])  u == Put(t2, m)  s2 == Taken(s, a)
<1>1. /\ h \in Message /\ a \in Nat /\ h.id \in 1 .. t.dialled /\ l[h.id].appl = a /\ a \in 1 .. t.made
      /\ h.id \in CallIds
  BY GetsIn
<1>2. t2.dialled = t.dialled /\ t2.made = t.made
  BY DEF Run, SameFrame
<1>3. type \in Types
  BY DEF PlainTypes, Types
<1> HIDE DEF h
<1>4. m \in Message /\ m.type = type /\ m.appl = a /\ m.id = h.id
  BY <1>1, <1>3, ReplyIs DEF h
<1>5. /\ Run(g, t, t2, s2, l) /\ m \in Message /\ m.type \in PlainTypes /\ m.type # "DATAB3_REQ"
      /\ m.appl \in 1 .. t2.made /\ m.id \in 1 .. t2.dialled /\ l[m.id].appl = m.appl
  BY <1>1, <1>2, <1>4
<1> HIDE DEF s2
<1>6. /\ Run(g, t, u, s2, l) /\ u.appls = t2.appls /\ u.dialled = t2.dialled /\ u.made = t2.made
      /\ \A i \in CallIds : /\ Turn(g, u.ms, s2, l, i) = Turn(g, t2.ms, s2, l, i)
                            /\ Unread(u.ms, s2, l, i) = Unread(t2.ms, s2, l, i)
  <2>1. /\ Run(g, t, Put(t2, m), s2, l) /\ Put(t2, m).appls = t2.appls
        /\ Put(t2, m).ms = t2.ms \o <<m>> /\ Put(t2, m).dialled = t2.dialled
        /\ Put(t2, m).made = t2.made
        /\ \A i \in CallIds : /\ Turn(g, Put(t2, m).ms, s2, l, i) = Turn(g, t2.ms, s2, l, i)
                              /\ Unread(Put(t2, m).ms, s2, l, i) = Unread(t2.ms, s2, l, i)
    BY ONLY <1>5, Says
  <2> QED  BY ONLY <2>1 DEF u
<1> HIDE DEF u
<1>7. \A i \in CallIds : MayGo(g, t2, s2, l, i) => MayGo(g, u, s2, l, i)
  BY <1>6 DEF MayGo
<1> QED  BY <1>6, <1>7 DEF u, s2

\* A call becomes another.
Became(t, k, j, d) == [t EXCEPT !.appls[k].calls[j] = d]

LEMMA BecameIs ==
    ASSUME NEW t \in State, NEW k, NEW j, NEW d
    PROVE  /\ Became(t, k, j, d) = Changed(t, k, j, d, <<>>)
           /\ Became(t, k, j, d).made = t.made /\ Became(t, k, j, d).dialled = t.dialled
           /\ Became(t, k, j, d).ms = t.ms
<1> DEFINE q == t.ms  as == [t.appls EXCEPT ![k].calls[j] = d]
<1>1. q \in Seq(Message) /\ t = [appls |-> t.appls, pollfds |-> t.pollfds, made |-> t.made,
                                 dialled |-> t.dialled, ms |-> q]
  BY StateIn
<1>2. Became(t, k, j, d) = [t EXCEPT !.appls = as]
  BY DEF Became
<1>3. Changed(t, k, j, d, <<>>) = [t EXCEPT !.appls = as, !.ms = q \o <<>>]
  BY DEF Changed
<1> HIDE DEF q, as
<1>4. q \o <<>> = q
  BY <1>1
<1>5. [t EXCEPT !.appls = as, !.ms = q] = [t EXCEPT !.appls = as]
  <2>1. t.ms = q
    BY DEF q
  <2>2. t \in State
    OBVIOUS
  <2> QED  BY ONLY <2>1, <2>2 DEF State
<1>6. /\ [t EXCEPT !.appls = as].made = t.made /\ [t EXCEPT !.appls = as].dialled = t.dialled
      /\ [t EXCEPT !.appls = as].ms = t.ms
  BY <1>1
<1> QED  BY <1>2, <1>3, <1>4, <1>5, <1>6

\* The call j is still the same one, with as much to send.
SameCall(c, d) ==
    /\ d \in Call /\ d.id = c.id /\ d.active = c.active /\ (d.b3 => d.plci) /\ (c.b3 => d.b3)
    /\ d.NotAcknowledged = c.NotAcknowledged /\ d.doSend = c.doSend

LEMMA Touched ==
    ASSUME NEW g, NEW t, NEW t2, NEW s, NEW l, Run(g, t, t2, s, l), NEW k \in DOMAIN t2.appls,
           NEW j \in DOMAIN t2.appls[k].calls, NEW d, SameCall(t2.appls[k].calls[j], d)
    PROVE  /\ Run(g, t, Became(t2, k, j, d), s, l)
           /\ Became(t2, k, j, d).made = t2.made /\ Became(t2, k, j, d).dialled = t2.dialled
           /\ \A i \in CallIds : MayGo(g, t2, s, l, i) => MayGo(g, Became(t2, k, j, d), s, l, i)
<1> DEFINE c == t2.appls[k].calls[j]  none == <<>>
<1>1. /\ t2 \in State /\ c \in Call /\ CallRight(g, c, t2.dialled)
  BY RunIn, RunAt
<1>2. CallRight(g, d, t2.dialled)
  BY <1>1 DEF CallRight, SameCall
<1>3. /\ Run(g, t, t2, s, l) /\ k \in DOMAIN t2.appls /\ j \in DOMAIN t2.appls[k].calls
      /\ c = t2.appls[k].calls[j] /\ d \in Call /\ d.id = c.id /\ CallRight(g, d, t2.dialled)
      /\ d.NotAcknowledged = c.NotAcknowledged /\ d.doSend = c.doSend /\ none = <<>>
  BY <1>2 DEF SameCall
<1>4. /\ Became(t2, k, j, d) = Changed(t2, k, j, d, none)
      /\ Became(t2, k, j, d).made = t2.made /\ Became(t2, k, j, d).dialled = t2.dialled
  BY <1>1, BecameIs
<1> HIDE DEF c, none
<1>5. /\ Run(g, t, Changed(t2, k, j, d, none), s, l)
      /\ \A i \in CallIds : MayGo(g, t2, s, l, i) => MayGo(g, Changed(t2, k, j, d, none), s, l, i)
      /\ Changed(t2, k, j, d, none).ms = t2.ms /\ SameFrame(t2, Changed(t2, k, j, d, none))
  BY ONLY <1>3, Touches
<1> QED  BY <1>4, <1>5

\* A call's line or its state changes.
LEMMA CallSet ==
    ASSUME NEW c \in Call, NEW x \in States, c.b3 => c.plci
    PROVE  /\ SameCall(c, [c EXCEPT !.state = x])
           /\ SameCall(c, [c EXCEPT !.plci = TRUE])
           /\ c.plci => SameCall(c, [c EXCEPT !.b3 = TRUE])
           /\ c.plci => SameCall(c, [[c EXCEPT !.b3 = TRUE] EXCEPT !.state = x])
BY DEF SameCall, Call

LEMMA CallOf ==
    ASSUME NEW g, NEW t, NEW t2, NEW s, NEW l, Run(g, t, t2, s, l), NEW k \in DOMAIN t2.appls,
           NEW j \in DOMAIN t2.appls[k].calls
    PROVE  t2.appls[k].calls[j] \in Call /\ (t2.appls[k].calls[j].b3 => t2.appls[k].calls[j].plci)
BY RunAt DEF CallRight

\* CONNECT_CONF
LEMMA ConfTaken ==
    ASSUME NEW g, NEW t, NEW s, NEW l, NEW ls, NEW an, NEW sg, NEW a, NEW k, Gets(g, t, s, l, ls, an, sg, a, k),
           Head(s[a]).type # "DATAB3_CONF"
    PROVE  /\ Run(g, t, t, Taken(s, a), l) /\ Whole(g, t, Taken(s, a), l, ls, an, sg)
           /\ \A j \in DOMAIN t.appls[k].calls : \A d : SameCall(t.appls[k].calls[j], d) =>
                 Whole(g, Became(t, k, j, d), Taken(s, a), l, ls, an, sg)
           /\ t.appls[k].calls # <<>> => Whole(g, FreeAppl(t, k), Taken(s, a), l, ls, an, sg)
<1> DEFINE s2 == Taken(s, a)
<1>1. NoBlock(t, Head(s[a]))
  BY DEF NoBlock
<1>2. Run(g, t, t, s2, l) /\ Whole(g, t, s2, l, ls, an, sg)
  BY <1>1, HeadOnly
<1>3. /\ g \in Configs /\ t.ms = <<>> /\ a \in ApplIds /\ s[a] # <<>> /\ k \in DOMAIN t.appls
      /\ Whole(g, t, s, l, ls, an, sg) /\ an \in Nat /\ sg \in Nat
  BY GetsIn
<1>4. ASSUME NEW j \in DOMAIN t.appls[k].calls, NEW d, SameCall(t.appls[k].calls[j], d)
      PROVE  Whole(g, Became(t, k, j, d), s2, l, ls, an, sg)
  <2>1. Run(g, t, Became(t, k, j, d), s2, l)
    <3>1. Run(g, t, t, s2, l) /\ k \in DOMAIN t.appls /\ j \in DOMAIN t.appls[k].calls
          /\ SameCall(t.appls[k].calls[j], d)
      BY <1>2, <1>3, <1>4
    <3> HIDE DEF s2
    <3> QED  BY ONLY <3>1, Touched
  <2> QED  BY <2>1, GetsSettle
<1>5. ASSUME t.appls[k].calls # <<>>
      PROVE  Whole(g, FreeAppl(t, k), s2, l, ls, an, sg)
  BY <1>2, <1>3, <1>5, FreeSettles
<1> QED  BY <1>2, <1>4, <1>5

\* CONNECTACTIVE_IND, DISCONNECTB3_IND, DISCONNECT_IND, DATAB3_IND: first of all the
\* message is answered.
LEMMA AnswerTaken ==
    ASSUME NEW g, NEW t, NEW s, NEW l, NEW ls, NEW an, NEW sg, NEW a, NEW k, Gets(g, t, s, l, ls, an, sg, a, k),
           Head(s[a]).type \notin {"DATAB3_CONF", "LISTEN_CONF"},
           NEW type, type \in PlainTypes, type # "DATAB3_REQ", NEW u, u = Put(t, Reply(type, a, Head(s[a])))
    PROVE  /\ Head(s[a]).id # 0 /\ Run(g, t, u, Taken(s, a), l) /\ u.appls = t.appls /\ u.made = t.made
           /\ u.dialled = t.dialled
           /\ \A i \in CallIds : MayGo(g, t, Taken(s, a), l, i) => MayGo(g, u, Taken(s, a), l, i)
           /\ Whole(g, u, Taken(s, a), l, ls, an, sg)
           /\ t.appls[k].calls # <<>> => Whole(g, FreeAppl(u, k), Taken(s, a), l, ls, an, sg)
           /\ \A j \in DOMAIN t.appls[k].calls : \A d : SameCall(t.appls[k].calls[j], d) =>
                 /\ Whole(g, Became(u, k, j, d), Taken(s, a), l, ls, an, sg)
                 /\ Run(g, t, Became(u, k, j, d), Taken(s, a), l)
<1> DEFINE s2 == Taken(s, a)
<1>1. Run(g, t, t, s2, l)
  BY ConfTaken
<1>2. Head(s[a]).id # 0
  BY GetsIn DEF Posted
<1>3. /\ g \in Configs /\ t.ms = <<>> /\ a \in ApplIds /\ s[a] # <<>> /\ k \in DOMAIN t.appls
      /\ Whole(g, t, s, l, ls, an, sg) /\ an \in Nat /\ sg \in Nat
  BY GetsIn
<1>4. /\ Run(g, t, u, s2, l) /\ u.appls = t.appls /\ u.made = t.made /\ u.dialled = t.dialled
      /\ \A i \in CallIds : MayGo(g, t, s2, l, i) => MayGo(g, u, s2, l, i)
  <2> DEFINE m == Reply(type, a, Head(s[a]))
  <2>1. /\ Gets(g, t, s, l, ls, an, sg, a, k) /\ Run(g, t, t, Taken(s, a), l) /\ Head(s[a]).id # 0
        /\ type \in PlainTypes /\ type # "DATAB3_REQ" /\ m = Reply(type, a, Head(s[a]))
    BY <1>1, <1>2
  <2>2. u = Put(t, m)
    OBVIOUS
  <2> HIDE DEF m
  <2>3. /\ Run(g, t, Put(t, m), Taken(s, a), l) /\ Put(t, m).appls = t.appls
        /\ Put(t, m).made = t.made /\ Put(t, m).dialled = t.dialled
        /\ \A i \in CallIds : MayGo(g, t, Taken(s, a), l, i) => MayGo(g, Put(t, m), Taken(s, a), l, i)
    BY ONLY <2>1, Replies
  <2> QED  BY ONLY <2>2, <2>3 DEF s2
<1>5. Whole(g, u, s2, l, ls, an, sg)
  BY <1>4, GetsSettle
<1>6. ASSUME NEW j \in DOMAIN t.appls[k].calls, NEW d, SameCall(t.appls[k].calls[j], d)
      PROVE  Whole(g, Became(u, k, j, d), s2, l, ls, an, sg) /\ Run(g, t, Became(u, k, j, d), s2, l)
  <2>1. Run(g, t, Became(u, k, j, d), s2, l)
    <3>1. Run(g, t, u, s2, l) /\ k \in DOMAIN u.appls /\ j \in DOMAIN u.appls[k].calls
          /\ SameCall(u.appls[k].calls[j], d)
      BY <1>3, <1>4, <1>6
    <3> HIDE DEF s2
    <3> QED  BY ONLY <3>1, Touched
  <2> QED  BY <2>1, GetsSettle
<1>7. ASSUME t.appls[k].calls # <<>>
      PROVE  Whole(g, FreeAppl(u, k), s2, l, ls, an, sg)
  <2>1. k \in DOMAIN u.appls /\ u.appls[k].calls # <<>>
    BY <1>3, <1>4, <1>7
  <2> QED  BY <1>3, <1>4, <2>1, FreeSettles
<1> QED  BY <1>2, <1>4, <1>5, <1>6, <1>7

\* What the message's turn is handed on with.
Hands(type, a, i, b3) == Msg(type, a, i, b3, 0)

LEMMA TurnPut ==
    ASSUME NEW g, NEW t, NEW t2, NEW s, NEW l, NEW ls, NEW an, NEW sg, NEW a, NEW k,
           Gets(g, t, s, l, ls, an, sg, a, k), NEW i, i = Head(s[a]).id, Head(s[a]).type \in TokTypes(g),
           Head(s[a]).type # "LISTEN_CONF", Run(g, t, t2, Taken(s, a), l),
           MayGo(g, t, Taken(s, a), l, i) => MayGo(g, t2, Taken(s, a), l, i),
           NEW type, NEW b3 \in BOOLEAN,
           \/ type = "CONNECTB3_REQ" /\ ~g.recv /\ Head(s[a]).type \in DueTypes(g)
           \/ type = "CONNECTB3_RESP" /\ g.recv
    PROVE  Whole(g, Put(t2, Hands(type, a, i, b3)), Taken(s, a), l, ls, an, sg)
<1> DEFINE m == Hands(type, a, i, b3)  s2 == Taken(s, a)
<1>1. /\ Inv(g, t, s, l) /\ g.recv \in BOOLEAN /\ t.ms = <<>> /\ a \in ApplIds /\ s[a] # <<>>
      /\ an \in Nat /\ sg \in Nat /\ Whole(g, t, s, l, ls, an, sg)
      /\ a \in Nat /\ a \in 1 .. t.made /\ i \in Nat
  BY GetsIn
<1>2. i # 0 /\ i \in 1 .. t.dialled /\ l[i].appl = a
  BY GetsIn DEF Posted
<1>3. m \in Message /\ m.type = type /\ m.appl = a /\ m.id = i
  <2>1. type \in Types /\ 0 \in Nat
    BY DEF Types
  <2> QED  BY <1>1, <2>1 DEF Hands, Msg, Message
<1> HIDE DEF m
<1>4. MayGo(g, t2, s2, l, i)
  <2>1. Head(s[a]).id # 0 /\ Head(s[a]).type \in TokTypes(g)
    BY <1>2
  <2>2. MayGo(g, t, Taken(s, a), l, Head(s[a]).id)
    BY <1>1, <2>1, GetsTurn
  <2> QED  BY <2>2
<1>5. t2.made = t.made /\ t2.dialled = t.dialled
  BY DEF Run, SameFrame
<1>6. Asked(g, m, l, t2.made, t2.dialled)
  <2>1. i \in 0 .. t.dialled
    BY <1>2
  <2> QED  BY <1>1, <1>2, <1>3, <1>5, <2>1 DEF Asked
<1>7. /\ m.type \in TokTypes(g) /\ m.type \notin {"RELEASE", "DATAB3_REQ", "LISTEN_REQ"}
      /\ (m.type \in DueTypes(g) => Head(s[a]).type \in DueTypes(g))
  BY <1>3 DEF TokTypes, DueTypes
<1>8. /\ g.recv \in BOOLEAN /\ an \in Nat /\ sg \in Nat /\ Whole(g, t, s, l, ls, an, sg)
      /\ t.ms = <<>> /\ a \in ApplIds /\ s[a] # <<>> /\ Run(g, t, t2, Taken(s, a), l)
      /\ m \in Message /\ m.id = Head(s[a]).id /\ m.id # 0 /\ Head(s[a]).type \in TokTypes(g)
      /\ MayGo(g, t2, Taken(s, a), l, m.id) /\ Asked(g, m, l, t2.made, t2.dialled)
  BY <1>1, <1>2, <1>3, <1>4, <1>6
<1>9. Whole(g, Put(t2, m), Taken(s, a), l, ls, an, sg)
  BY ONLY <1>7, <1>8, TurnSettles
<1> QED  BY <1>9 DEF m

LEMMA ChangedTwice ==
    ASSUME NEW t \in State, NEW k \in DOMAIN t.appls, NEW j \in DOMAIN t.appls[k].calls, NEW d, NEW e,
           NEW x \in Seq(Message)
    PROVE  Changed(Became(t, k, j, d), k, j, e, x) = Changed(t, k, j, e, x)
<1> DEFINE q == t.ms  as == t.appls  cs == t.appls[k].calls  ap == t.appls[k]
<1>1. /\ as \in Seq(Appl) /\ ap \in Appl /\ cs \in Seq(Call) /\ q \in Seq(Message)
  BY StateIn
<1>2. [[cs EXCEPT ![j] = d] EXCEPT ![j] = e] = [cs EXCEPT ![j] = e]
  <2> HIDE DEF cs
  <2> QED  BY <1>1
<1>3. [[ap EXCEPT !.calls[j] = d] EXCEPT !.calls[j] = e] = [ap EXCEPT !.calls[j] = e]
  <2>1. ap.calls = cs
    OBVIOUS
  <2> HIDE DEF ap, cs
  <2>2. [ap EXCEPT !.calls[j] = d] = [ap EXCEPT !.calls = [cs EXCEPT ![j] = d]]
    BY <2>1
  <2>3. [ap EXCEPT !.calls[j] = e] = [ap EXCEPT !.calls = [cs EXCEPT ![j] = e]]
    BY <2>1
  <2> DEFINE cd == [cs EXCEPT ![j] = d]  ce == [cs EXCEPT ![j] = e]
  <2>4. [cd EXCEPT ![j] = e] = ce
    BY <1>2
  <2> HIDE DEF cd, ce
  <2>5. [[ap EXCEPT !.calls = cd] EXCEPT !.calls[j] = e] = [ap EXCEPT !.calls = [cd EXCEPT ![j] = e]]
    BY <1>1 DEF Appl
  <2> QED  BY <2>2, <2>3, <2>4, <2>5 DEF cd, ce
<1>4. [[as EXCEPT ![k].calls[j] = d] EXCEPT ![k].calls[j] = e] = [as EXCEPT ![k].calls[j] = e]
  <2> DEFINE pd == [ap EXCEPT !.calls[j] = d]  pe == [ap EXCEPT !.calls[j] = e]
  <2>1. as[k] = ap /\ k \in DOMAIN as
    OBVIOUS
  <2>2. [as EXCEPT ![k].calls[j] = d] = [as EXCEPT ![k] = pd]
    BY <2>1
  <2>3. [as EXCEPT ![k].calls[j] = e] = [as EXCEPT ![k] = pe]
    BY <2>1
  <2>4. [pd EXCEPT !.calls[j] = e] = pe
    BY <1>3
  <2> HIDE DEF pd, pe, as
  <2>5. [[as EXCEPT ![k] = pd] EXCEPT ![k].calls[j] = e] = [as EXCEPT ![k] = [pd EXCEPT !.calls[j] = e]]
    BY <1>1, <2>1
  <2> QED  BY <2>2, <2>3, <2>4, <2>5
<1> DEFINE ad == [as EXCEPT ![k].calls[j] = d]  ae == [as EXCEPT ![k].calls[j] = e]
<1>5. Became(t, k, j, d) = [t EXCEPT !.appls = ad] /\ Changed(t, k, j, e, x) = [t EXCEPT !.appls = ae, !.ms = q \o x]
  BY DEF Became, Changed
<1>6. [ad EXCEPT ![k].calls[j] = e] = ae
  BY <1>4
<1> HIDE DEF ad, ae
<1>7. [t EXCEPT !.appls = ad].appls = ad /\ [t EXCEPT !.appls = ad].ms = q
  BY StateIn DEF q, State
<1>8. Changed([t EXCEPT !.appls = ad], k, j, e, x) = [t EXCEPT !.appls = [ad EXCEPT ![k].calls[j] = e], !.ms = q \o x]
  BY <1>7, StateIn DEF Changed, State
<1> QED  BY <1>5, <1>6, <1>8

\* The same call, but for what it is about to do; a sender that has put nothing.
SameFor(c, d) ==
    d.id = c.id /\ d.active = c.active /\ d.plci = c.plci /\ d.b3 = c.b3 /\ d.NotAcknowledged = c.NotAcknowledged
Begun(r) == r.ms = <<>>

\* What a call has sent (SendData, Fill) becomes part of the program's state: the
\* call was d, and may send.
LEMMA SentRuns ==
    ASSUME NEW g, NEW t, NEW t2, NEW s, NEW l, Run(g, t, t2, s, l), NEW k \in DOMAIN t2.appls,
           NEW j \in DOMAIN t2.appls[k].calls, NEW d, SameFor(t2.appls[k].calls[j], d), NEW r0 \in Senders, r0.c = d,
           r0.appl = t2.appls[k].id, Begun(r0), d.b3, NEW r, NEW n \in Nat, Sends(r0, r, n),
           d.NotAcknowledged + n <= Limit(g), Limit(g) \in Nat, Turn(g, t2.ms, s, l, d.id) = 0
    PROVE  Run(g, t, Changed(t2, k, j, r.c, r.ms), s, l)
<1> DEFINE c == t2.appls[k].calls[j]  e == r.c
<1>1. PICK x \in Seq(Message) : SendsBy(r0, r, n, x)
  BY DEF Sends
<1>2. r.ms = x
  <2>1. r.ms = <<>> \o x
    BY SMTT(40), SMTT(41), ZenonT(30), <1>1 DEF SendsBy, Begun
  <2> QED  BY <2>1
<1>3. /\ c \in Call /\ c.id \in CallIds /\ c.NotAcknowledged \in Nat /\ CallRight(g, c, t2.dialled)
  BY RunAt
<1>4. d.id = c.id /\ d.active = c.active /\ d.plci = c.plci /\ d.b3 = c.b3 /\ d.NotAcknowledged = c.NotAcknowledged
  BY DEF SameFor
<1>5. /\ e \in Call /\ e.id = c.id /\ e.active = c.active /\ e.plci = c.plci /\ e.b3
      /\ e.NotAcknowledged = c.NotAcknowledged + Number(x, Typed(c.id, "DATAB3_REQ"))
      /\ e.NotAcknowledged <= c.NotAcknowledged + n /\ Concerns(r0, x)
  <2>1. r \in Senders /\ e \in Call
    BY <1>1, SenderIn, SMTT(40), SMTT(41), ZenonT(30) DEF SendsBy
  <2> QED  BY <1>1, <1>4, <2>1 DEF SendsBy
<1>6. CallRight(g, e, t2.dialled)
  <2>1. e.NotAcknowledged <= Limit(g)
    <3> DEFINE y == e.NotAcknowledged  z == c.NotAcknowledged  m == Limit(g)
    <3>1. y \in Nat /\ z \in Nat /\ m \in Nat /\ y <= z + n /\ z + n <= m
      BY <1>3, <1>4, <1>5 DEF Call
    <3> HIDE DEF y, z, m
    <3>2. y <= m
      BY ONLY SMTT(40), SMTT(41), ZenonT(30), <3>1, n \in Nat
    <3> QED  BY SMTT(40), SMTT(41), ZenonT(30), <3>2 DEF y, m
  <2> QED  BY <1>3, <1>4, <1>5, <2>1 DEF CallRight
<1>7. /\ Plain(x) /\ \A m \in DOMAIN x : /\ x[m].id = c.id /\ x[m].appl = t2.appls[k].id
                                         /\ x[m].type = "DATAB3_REQ" => x[m].b3
  BY <1>4, <1>5 DEF Concerns
<1>8. Turn(g, t2.ms, s, l, c.id) = 0
  BY <1>4
<1>9. /\ Run(g, t, t2, s, l) /\ k \in DOMAIN t2.appls /\ j \in DOMAIN t2.appls[k].calls
      /\ c = t2.appls[k].calls[j] /\ e \in Call /\ e.id = c.id /\ CallRight(g, e, t2.dialled)
      /\ x \in Seq(Message) /\ Plain(x)
      /\ \A m \in DOMAIN x : /\ x[m].id = c.id /\ x[m].appl = t2.appls[k].id
                             /\ x[m].type = "DATAB3_REQ" => x[m].b3
      /\ e.NotAcknowledged = c.NotAcknowledged + Number(x, Typed(c.id, "DATAB3_REQ"))
      /\ Turn(g, t2.ms, s, l, c.id) = 0
  BY <1>5, <1>6, <1>7, <1>8
<1> HIDE DEF c, e
<1>10. Run(g, t, Changed(t2, k, j, e, x), s, l)
  BY ONLY <1>9, Changes
<1> QED  BY <1>2, <1>10 DEF e

\* DATAB3_CONF
Counting(c) == [c EXCEPT !.NotAcknowledged = @ - 1]
Sender(a, c) == [appl |-> a, c |-> c, ms |-> <<>>]

LEMMA SenderIs ==
    ASSUME NEW a \in Nat, NEW c \in Call
    PROVE  /\ Sender(a, c) \in Senders /\ Sender(a, c).appl = a /\ Sender(a, c).c = c
           /\ Begun(Sender(a, c))
<1>1. <<>> \in Seq(Message)
  OBVIOUS
<1> QED  BY <1>1 DEF Sender, Senders, Begun

LEMMA DataConfTaken ==
    ASSUME cfg \in Configs, NEW t, NEW s, NEW l, NEW ls, NEW an, NEW sg, NEW a, NEW k,
           Gets(cfg, t, s, l, ls, an, sg, a, k), Head(s[a]).type = "DATAB3_CONF"
    PROVE  /\ Head(s[a]).b3
           /\ (\A j \in DOMAIN t.appls[k].calls : ~(t.appls[k].calls[j].id = Head(s[a]).id /\ t.appls[k].calls[j].b3))
                 => Whole(cfg, t, Taken(s, a), l, ls, an, sg)
           /\ \A j \in DOMAIN t.appls[k].calls :
                 t.appls[k].calls[j].id = Head(s[a]).id =>
                     \A r : r = SendData(Sender(a, Counting(t.appls[k].calls[j]))) =>
                           Whole(cfg, Changed(t, k, j, r.c, r.ms), Taken(s, a), l, ls, an, sg)
<1> DEFINE s2 == Taken(s, a)  i == Head(s[a]).id
<1>1. /\ cfg \in Configs /\ cfg.recv \in BOOLEAN /\ a \in ApplIds /\ s[a] # <<>> /\ k \in DOMAIN t.appls
      /\ Inv(cfg, t, s, l) /\ t.ms = <<>> /\ Structured(cfg, t) /\ t.appls[k].id = a /\ a \in Nat /\ t \in State
      /\ Posted(cfg, Head(s[a]), a, l, t.dialled)
  BY GetsIn
<1>2. Head(s[a]).b3
  BY <1>1 DEF Posted
<1>3. ASSUME \A j \in DOMAIN t.appls[k].calls : ~(t.appls[k].calls[j].id = i /\ t.appls[k].calls[j].b3)
      PROVE  Whole(cfg, t, s2, l, ls, an, sg)
  <2>1. NoBlock(t, Head(s[a]))
    <3> SUFFICES ASSUME NEW n \in DOMAIN t.appls, NEW m \in DOMAIN t.appls[n].calls, t.appls[n].calls[m].id = i
                 PROVE  FALSE
      BY DEF NoBlock
    <3>1. t.appls[n].calls[m].b3 /\ t.appls[n].id = a
      BY <1>1, Confirmed
    <3>2. n = k
      BY <1>1, <3>1 DEF Structured, Apart
    <3> QED  BY <1>3, <3>1, <3>2
  <2> QED  BY <2>1, HeadOnly
<1>4. ASSUME NEW j \in DOMAIN t.appls[k].calls, t.appls[k].calls[j].id = i,
             NEW r, r = SendData(Sender(a, Counting(t.appls[k].calls[j])))
      PROVE  Whole(cfg, Changed(t, k, j, r.c, r.ms), s2, l, ls, an, sg)
  <2> DEFINE c == t.appls[k].calls[j]  d == Counting(c)  t2 == Became(t, k, j, d)  r0 == Sender(a, d)
  <2>1. /\ c.NotAcknowledged - 1 \in Nat /\ c.b3 /\ Turn(cfg, t.ms, s2, l, i) = 0
    BY SMTT(40), SMTT(41), ZenonT(30), <1>1, <1>4, Confirmed
  <2>2. /\ Run(cfg, t, Changed(t, k, j, d, <<>>), s2, l) /\ Changed(t, k, j, d, <<>>).appls[k].calls[j] = d
    <3>1. d = [c EXCEPT !.NotAcknowledged = @ - 1]
      BY DEF Counting
    <3>2. /\ cfg \in Configs /\ Inv(cfg, t, s, l) /\ t.ms = <<>> /\ a \in ApplIds /\ s[a] # <<>>
          /\ Head(s[a]).type = "DATAB3_CONF" /\ k \in DOMAIN t.appls /\ j \in DOMAIN t.appls[k].calls
          /\ t.appls[k].calls[j].id = Head(s[a]).id /\ d = [t.appls[k].calls[j] EXCEPT !.NotAcknowledged = @ - 1]
      BY <1>1, <1>4, <3>1
    <3> HIDE DEF d, s2
    <3> QED  BY ONLY <3>2, TakesConf DEF s2
  <2>3. t2 = Changed(t, k, j, d, <<>>) /\ t2.ms = t.ms
    BY <1>1, BecameIs
  <2>4. /\ c \in Call /\ c.NotAcknowledged \in Nat /\ CallRight(cfg, c, t.dialled) /\ c.id = i
    <3>1. Run(cfg, t, t, s, l)
      BY <1>1, Begins
    <3>2. Run(cfg, t, t, s, l) /\ k \in DOMAIN t.appls /\ j \in DOMAIN t.appls[k].calls
      BY <1>1, <1>4, <3>1
    <3>3. /\ t.appls[k].calls[j] \in Call /\ t.appls[k].calls[j].NotAcknowledged \in Nat
          /\ CallRight(cfg, t.appls[k].calls[j], t.dialled)
      BY ONLY <3>2, RunAt
    <3> QED  BY <1>4, <3>3
  <2>5. /\ d \in Call /\ d.id = i /\ d.b3 /\ d.NotAcknowledged = c.NotAcknowledged - 1
    <3> HIDE DEF c
    <3> QED  BY <2>1, <2>4 DEF Counting, Call
  <2> HIDE DEF t2, d, r0
  <2>6. Run(cfg, t, t2, s2, l) /\ t2.appls[k].calls[j] = d
    BY <2>2, <2>3
  <2>7. /\ t2.appls[k].id = a /\ k \in DOMAIN t2.appls /\ j \in DOMAIN t2.appls[k].calls
    BY <1>1, <2>6 DEF Run, SameFrame
  <2>8. r0 \in Senders /\ r0.appl = a /\ r0.c = d /\ Begun(r0)
    BY <1>1, <2>5, SenderIs DEF r0
  <2>9. Sends(r0, r, 1)
    <3>1. r = SendData(r0)
      BY <1>4 DEF r0, d
    <3>2. Sends(r0, SendData(r0), 1)
      BY <1>1, <2>5, <2>8, SendsData
    <3> QED  BY <3>1, <3>2
  <2>10. d.NotAcknowledged + 1 <= Limit(cfg) /\ Limit(cfg) \in Nat
    <3> DEFINE y == d.NotAcknowledged  z == c.NotAcknowledged  m == Limit(cfg)
    <3>1. z \in Nat /\ m \in Nat /\ y = z - 1 /\ z <= m
      BY <1>1, <2>4, <2>5, Options DEF CallRight
    <3> HIDE DEF y, z, m
    <3>2. y + 1 <= m
      BY ONLY <3>1
    <3> QED  BY <3>1, <3>2 DEF y, m
  <2>11. Turn(cfg, t2.ms, s2, l, d.id) = 0
    BY <2>1, <2>3, <2>5
  <2>12. SameFor(t2.appls[k].calls[j], d)
    BY <2>6 DEF SameFor
  <2> DEFINE n == 1
  <2>13. /\ Run(cfg, t, t2, s2, l) /\ k \in DOMAIN t2.appls /\ j \in DOMAIN t2.appls[k].calls
         /\ SameFor(t2.appls[k].calls[j], d) /\ r0 \in Senders /\ r0.c = d /\ r0.appl = t2.appls[k].id
         /\ Begun(r0) /\ d.b3 /\ n \in Nat /\ Sends(r0, r, n) /\ d.NotAcknowledged + n <= Limit(cfg)
         /\ Limit(cfg) \in Nat /\ Turn(cfg, t2.ms, s2, l, d.id) = 0
    BY <2>5, <2>6, <2>7, <2>8, <2>9, <2>10, <2>11, <2>12
  <2> HIDE DEF n, s2
  <2>14. Run(cfg, t, Changed(t2, k, j, r.c, r.ms), s2, l)
    BY ONLY <2>13, SentRuns
  <2>15. Changed(t2, k, j, r.c, r.ms) = Changed(t, k, j, r.c, r.ms)
    <3>1. r.ms \in Seq(Message)
      BY <2>9 DEF Sends, SendsBy, Senders
    <3> QED  BY <1>1, <3>1, ChangedTwice DEF t2
  <2>16. Run(cfg, t, Changed(t, k, j, r.c, r.ms), s2, l)
    BY <2>14, <2>15
  <2> QED  BY <2>16, GetsSettle DEF s2
<1> QED  BY <1>2, <1>3, <1>4

\* CONNECTB3ACTIVE_IND: a window of blocks, and for a sender the next call
LEMMA WentWhole ==
    ASSUME NEW g \in Configs, ~g.recv, NEW t, NEW u, NEW k, NEW s, NEW l, NEW ls, NEW an \in Nat, NEW sg \in Nat,
           Went(g, t, u, k, s, l), ls \subseteq 1 .. t.made, t.made \in Nat, t.dialled \in Nat,
           an <= g.answers, sg <= g.signals, t.dialled + Cardinality(Due(g, t.ms, s, l)) <= sg + an,
           g.MaxActivCalls = 0 => t.dialled = 0,
           sg = 0 => /\ k = 1 /\ Resting(g, t, s, l) /\ OthersFull(g, t)
                     /\ Cardinality(Numbers(t.appls)) <= g.MaxActivCalls
    PROVE  Whole(g, u, s, l, ls, an, sg)
<1>1. /\ Inv(g, u, s, l) /\ Open(u) /\ Dumb(u) /\ u.appls # <<>>
      /\ Due(g, u.ms, s, l) = Due(g, t.ms, s, l)
      /\ u.made \in {t.made, t.made + 1} /\ u.made <= 1 + u.dialled
      /\ u.dialled \in {t.dialled, t.dialled + 1}
      /\ g.MaxActivCalls = 0 => u.dialled = t.dialled
      /\ sg = 0 => Chain(g, u, s, l)
  BY DEF Went
<1>2. ls \subseteq 1 .. u.made
  <2> DEFINE x == t.made  y == u.made
  <2>1. x \in Nat /\ y \in {x, x + 1} /\ ls \subseteq 1 .. x
    BY <1>1
  <2> HIDE DEF x, y
  <2>2. ls \subseteq 1 .. y
    BY ONLY <2>1
  <2> QED  BY <2>2 DEF y
<1>3. Heard(g, u, ls)
  BY <1>1 DEF Heard, Dumb
<1>4. Listened(g, u)
  BY DEF Listened
<1>5. Bounded(g, u, s, l, an, sg)
  <2> DEFINE x == t.dialled  y == u.dialled  e == Cardinality(Due(g, t.ms, s, l))
  <2>1. x \in Nat /\ y \in {x, x + 1} /\ e \in Nat /\ x + e <= sg + an /\ an \in Nat /\ sg \in Nat
    BY <1>1, DueType
  <2> HIDE DEF x, y, e
  <2>2. y + e <= 1 + sg + an
    BY ONLY <2>1
  <2>3. u.dialled + Cardinality(Due(g, u.ms, s, l)) <= 1 + sg + an
    BY <1>1, <2>2 DEF y, e
  <2> QED  BY <1>1, <2>3 DEF Bounded
<1> QED  BY <1>1, <1>2, <1>3, <1>4, <1>5 DEF Whole

LEMMA DialsAfter ==
    ASSUME cfg \in Configs, NEW t, NEW w, NEW s, NEW l, NEW ls, NEW an, NEW sg, NEW a, NEW k,
           Gets(cfg, t, s, l, ls, an, sg, a, k), Head(s[a]).type = "CONNECTB3ACTIVE_IND",
           NEW j \in DOMAIN t.appls[k].calls, t.appls[k].calls[j].id = Head(s[a]).id,
           Run(cfg, t, w, Taken(s, a), l)
    PROVE  Whole(cfg, GenNextCall(w, k), Taken(s, a), l, ls, an, sg)
<1> DEFINE s2 == Taken(s, a)  i == Head(s[a]).id  v == GenNextCall(w, k)
<1>1. /\ cfg.recv \in BOOLEAN /\ a \in ApplIds /\ s[a] # <<>> /\ k \in DOMAIN t.appls
      /\ Whole(cfg, t, s, l, ls, an, sg) /\ Inv(cfg, t, s, l) /\ t.ms = <<>> /\ an \in Nat /\ sg \in Nat
      /\ Structured(cfg, t) /\ Mailed(cfg, t, s, l) /\ t \in State /\ t.dialled \in Nat /\ t.made \in Nat
      /\ Posted(cfg, Head(s[a]), a, l, t.dialled)
  BY GetsIn, StateIn
<1>2. CASE cfg.recv
  <2>1. v = w
    BY <1>2 DEF GenNextCall
  <2>2. Whole(cfg, w, s2, l, ls, an, sg)
    BY GetsSettle
  <2> QED  BY <2>1, <2>2
<1>3. CASE ~cfg.recv
  <2>1. i # 0 /\ Head(s[a]).type \in TokTypes(cfg) /\ Head(s[a]).type \in DueTypes(cfg)
    BY <1>1, <1>3 DEF Posted, TokTypes, DueTypes
  <2>2. /\ Head(s[a]) \in Toks(cfg, i) /\ i \in CallIds
    BY <1>1, <2>1, GetsTurn, GetsIn
  <2>3. /\ ls \subseteq 1 .. t.made /\ Heard(cfg, t, ls) /\ Bounded(cfg, t, s, l, an, sg)
        /\ sg = 0 => Chain(cfg, t, s, l)
    BY <1>1, <1>3 DEF Whole
  <2>4. /\ w.made = t.made /\ w.dialled = t.dialled /\ DOMAIN w.appls = DOMAIN t.appls /\ SameFrame(t, w)
        /\ Inv(cfg, w, s2, l) /\ Open(w) /\ k \in DOMAIN w.appls
    BY <1>1 DEF Run, SameFrame
  <2>5. /\ \A n \in CallIds :
              /\ Turn(cfg, w.ms, s2, l, n) \in Nat
              /\ Turn(cfg, t.ms, s, l, n) = Turn(cfg, w.ms, s2, l, n) + One(Head(s[a]) \in Toks(cfg, n))
        /\ Due(cfg, w.ms, s2, l) = Due(cfg, t.ms, s2, l)
    <3>1. /\ cfg.recv \in BOOLEAN /\ Inv(cfg, t, s, l) /\ t.ms = <<>> /\ a \in ApplIds /\ s[a] # <<>>
          /\ Run(cfg, t, w, Taken(s, a), l)
      BY <1>1
    <3> QED  BY ONLY <3>1, RunTurns
  <2>6. /\ Due(cfg, t.ms, s2, l) \in SUBSET Due(cfg, t.ms, s, l)
        /\ i \in Due(cfg, t.ms, s, l) /\ i \notin Due(cfg, t.ms, s2, l)
    <3>1. Turns(cfg, t, s, l)
      BY <1>1 DEF Inv
    <3>2. /\ cfg.recv \in BOOLEAN /\ Structured(cfg, t) /\ Mailed(cfg, t, s, l) /\ Turns(cfg, t, s, l)
          /\ a \in ApplIds /\ s[a] # <<>>
      BY <1>1, <3>1
    <3> HIDE DEF i, s2
    <3>3. /\ Due(cfg, t.ms, Taken(s, a), l) \in SUBSET Due(cfg, t.ms, s, l)
          /\ Head(s[a]).id # 0 /\ Head(s[a]).type \in DueTypes(cfg) =>
                 /\ Head(s[a]).id \in Due(cfg, t.ms, s, l)
                 /\ Head(s[a]).id \notin Due(cfg, t.ms, Taken(s, a), l)
      BY ONLY <3>2, TakeDue
    <3> QED  BY <2>1, <3>3 DEF i, s2
  <2>7. Cardinality(Due(cfg, w.ms, s2, l)) + 1 <= Cardinality(Due(cfg, t.ms, s, l))
        /\ Cardinality(Due(cfg, w.ms, s2, l)) \in Nat /\ Cardinality(Due(cfg, t.ms, s, l)) \in Nat
    <3>1. Due(cfg, w.ms, s2, l) \in SUBSET Due(cfg, t.ms, s, l) /\ i \notin Due(cfg, w.ms, s2, l)
          /\ i \in Due(cfg, t.ms, s, l)
      BY <2>5, <2>6
    <3> HIDE DEF i, s2
    <3> QED  BY ONLY <3>1, DueLess
  <2>8. /\ t.dialled + Cardinality(Due(cfg, w.ms, s2, l)) <= sg + an /\ t.dialled + 1 \in CallIds
        /\ an <= cfg.answers /\ sg <= cfg.signals /\ t.made <= 1 + t.dialled
        /\ cfg.MaxActivCalls = 0 => t.dialled = 0
    <3> DEFINE x == t.dialled  y == Cardinality(Due(cfg, t.ms, s, l))
               z == Cardinality(Due(cfg, w.ms, s2, l))
    <3>1. /\ x + y <= 1 + sg + an /\ an <= cfg.answers /\ sg <= cfg.signals /\ t.made <= 1 + t.dialled
          /\ cfg.MaxActivCalls = 0 => t.dialled = 0
      BY <1>3, <2>3 DEF Bounded
    <3>2. /\ x \in Nat /\ y \in Nat /\ z \in Nat /\ z + 1 <= y /\ an \in Nat /\ sg \in Nat
          /\ cfg.answers \in Nat /\ cfg.signals \in Nat /\ cfg.answers <= MaxCalls
          /\ cfg.signals <= MaxSignals /\ MaxCalls \in Nat /\ MaxSignals \in Nat
          /\ CallIds = 1 .. MaxCalls + MaxSignals + 1
      BY <1>1, <2>7, Options, Constants
    <3> HIDE DEF x, y, z
    <3>3. x + z <= sg + an /\ x + 1 \in CallIds
      BY ONLY <3>1, <3>2
    <3> QED  BY <3>1, <3>3 DEF x, z
  <2>9. Dumb(w)
    BY <1>3, <2>3, <2>4 DEF Heard, Dumb, SameFrame
  <2>10. Went(cfg, w, v, k, s2, l)
    <3>1. /\ cfg \in Configs /\ ~cfg.recv /\ Inv(cfg, w, s2, l) /\ Open(w) /\ Dumb(w)
          /\ k \in DOMAIN w.appls /\ w.made <= 1 + w.dialled /\ w.dialled + 1 \in CallIds
          /\ cfg.MaxActivCalls = 0 => w.dialled = 0
      BY <1>3, <2>4, <2>8, <2>9
    <3> HIDE DEF s2
    <3> QED  BY ONLY <3>1, Dials DEF v
  <2>11. ASSUME sg = 0
         PROVE  /\ k = 1 /\ Resting(cfg, w, s2, l) /\ OthersFull(cfg, w)
                /\ Cardinality(Numbers(w.appls)) <= cfg.MaxActivCalls
    <3> HIDE DEF s2, v
    <3>1. Chain(cfg, t, s, l)
      BY <2>3, <2>11
    <3>2. Turn(cfg, t.ms, s, l, i) = 1
      <4>1. One(Head(s[a]) \in Toks(cfg, i)) = 1
        BY <2>2, OneType
      <4>2. Turn(cfg, t.ms, s, l, i) <= 1
        BY <1>1, <2>2 DEF Inv, Turns
      <4> DEFINE x == Turn(cfg, w.ms, s2, l, i)  y == Turn(cfg, t.ms, s, l, i)
      <4>3. x \in Nat /\ y = x + 1 /\ y <= 1
        BY <2>2, <2>5, <4>1, <4>2
      <4> HIDE DEF x, y
      <4>4. y = 1
        BY ONLY <4>3
      <4> QED  BY <4>4 DEF y
    <3>3. k = 1 /\ i = t.dialled
          /\ \A n \in DOMAIN t.appls : n # 1 => t.appls[n].active_calls >= cfg.callperappl
      BY <1>1, <3>1, <3>2 DEF Chain
    <3>4. Resting(cfg, w, s2, l)
      <4> SUFFICES ASSUME NEW n \in DOMAIN w.appls, NEW m \in DOMAIN w.appls[n].calls,
                          Turn(cfg, w.ms, s2, l, w.appls[n].calls[m].id) = 1
                   PROVE  FALSE
        BY DEF Resting
      <4>1. /\ n \in DOMAIN t.appls /\ m \in DOMAIN t.appls[n].calls
            /\ w.appls[n].calls[m].id = t.appls[n].calls[m].id
        BY SMTT(40), SMTT(41), ZenonT(30), <2>4 DEF SameFrame
      <4> DEFINE b == t.appls[n].calls[m].id
      <4>2. b \in CallIds
        <5>1. Run(cfg, t, w, s2, l)
          BY DEF s2
        <5>2. \A x \in DOMAIN w.appls : \A y \in DOMAIN w.appls[x].calls : w.appls[x].calls[y].id \in CallIds
          BY ONLY <5>1, RunAt
        <5> QED  BY <4>1, <5>2
      <4>3. One(Head(s[a]) \in Toks(cfg, b)) \in {0, 1} /\ Turn(cfg, t.ms, s, l, b) <= 1
        <5>1. One(Head(s[a]) \in Toks(cfg, b)) \in {0, 1}
          BY DEF One
        <5>2. Turns(cfg, t, s, l)
          BY <1>1 DEF Inv
        <5> HIDE DEF b
        <5>3. Turn(cfg, t.ms, s, l, b) <= 1
          BY <4>2, <5>2 DEF Turns
        <5> QED  BY <5>1, <5>3
      <4>4. Turn(cfg, w.ms, s2, l, b) = 1
        BY <4>1
      <4> HIDE DEF b
      <4> DEFINE x == Turn(cfg, t.ms, s, l, b)  y == One(Head(s[a]) \in Toks(cfg, b))
      <4>5. x = 1 + y /\ y \in {0, 1} /\ x <= 1
        BY <2>5, <4>2, <4>3, <4>4
      <4> HIDE DEF x, y
      <4>6. x = 1 /\ y = 0
        BY ONLY <4>5
      <4>7. b = t.dialled
        BY <3>1, <4>1, <4>6 DEF Chain, b, x
      <4>8. Head(s[a]) \in Toks(cfg, b)
        BY <2>2, <3>3, <4>7
      <4> QED  BY <4>6, <4>8 DEF y, One
    <3>5. OthersFull(cfg, w)
      BY <2>4, <3>3 DEF OthersFull, SameFrame
    <3>6. Numbers(w.appls) = Numbers(t.appls)
      BY SMTT(40), SMTT(41), ZenonT(30), <2>4 DEF Numbers, SameFrame
    <3> QED  BY <3>1, <3>3, <3>4, <3>5, <3>6 DEF Chain
  <2>12. /\ cfg \in Configs /\ ~cfg.recv /\ an \in Nat /\ sg \in Nat
         /\ Went(cfg, w, v, k, s2, l) /\ ls \subseteq 1 .. w.made /\ w.made \in Nat /\ w.dialled \in Nat
         /\ an <= cfg.answers /\ sg <= cfg.signals
         /\ w.dialled + Cardinality(Due(cfg, w.ms, s2, l)) <= sg + an
         /\ cfg.MaxActivCalls = 0 => w.dialled = 0
         /\ sg = 0 => /\ k = 1 /\ Resting(cfg, w, s2, l) /\ OthersFull(cfg, w)
                      /\ Cardinality(Numbers(w.appls)) <= cfg.MaxActivCalls
    BY <1>1, <1>3, <2>3, <2>4, <2>8, <2>10, <2>11
  <2> HIDE DEF s2, v
  <2>13. Whole(cfg, v, s2, l, ls, an, sg)
    BY ONLY <2>12, WentWhole
  <2> QED  BY <2>13 DEF v, s2
<1> QED  BY <1>1, <1>2, <1>3

Activated(c) == [[c EXCEPT !.state = "Connected"] EXCEPT !.doSend = TRUE]

LEMMA ActivatedIs ==
    ASSUME NEW c \in Call
    PROVE  /\ Activated(c) \in Call /\ Activated(c).doSend /\ SameFor(c, Activated(c))
<1>1. "Connected" \in States
  BY DEF States
<1> QED  BY <1>1 DEF Call, Activated, SameFor

LEMMA ActiveSends ==
    ASSUME cfg \in Configs, NEW t, NEW s, NEW l, NEW ls, NEW an, NEW sg, NEW a, NEW k,
           Gets(cfg, t, s, l, ls, an, sg, a, k), Head(s[a]).type = "CONNECTB3ACTIVE_IND",
           NEW u, u = Put(t, Reply("CONNECTB3ACTIVE_RESP", a, Head(s[a]))),
           NEW j \in DOMAIN t.appls[k].calls, t.appls[k].calls[j].id = Head(s[a]).id,
           t.appls[k].calls[j].b3,
           NEW r, r = Fill(Sender(a, Activated(t.appls[k].calls[j])))
    PROVE  ~t.appls[k].calls[j].doSend /\ Run(cfg, t, Changed(u, k, j, r.c, r.ms), Taken(s, a), l)
<1> DEFINE s2 == Taken(s, a)  i == Head(s[a]).id  c == t.appls[k].calls[j]  d == Activated(c)
           r0 == Sender(a, d)
<1>1. /\ cfg.recv \in BOOLEAN /\ a \in ApplIds /\ s[a] # <<>> /\ k \in DOMAIN t.appls /\ a \in Nat
      /\ Inv(cfg, t, s, l) /\ t.ms = <<>> /\ t.appls[k].id = a
      /\ Posted(cfg, Head(s[a]), a, l, t.dialled)
  BY GetsIn
<1>2. i # 0 /\ Head(s[a]).type \in TokTypes(cfg)
  BY <1>1 DEF Posted, TokTypes
<1>3. Run(cfg, t, t, s2, l) /\ MayGo(cfg, t, s2, l, i)
  BY <1>1, <1>2, GetsTurn
<1>4. /\ Run(cfg, t, u, s2, l) /\ u.appls = t.appls
      /\ \A n \in CallIds : MayGo(cfg, t, s2, l, n) => MayGo(cfg, u, s2, l, n)
  <2> DEFINE type == "CONNECTB3ACTIVE_RESP"
  <2>1. type \in PlainTypes /\ type # "DATAB3_REQ"
        /\ Head(s[a]).type \notin {"DATAB3_CONF", "LISTEN_CONF"}
        /\ u = Put(t, Reply(type, a, Head(s[a])))
    BY DEF PlainTypes
  <2> HIDE DEF type
  <2>2. /\ Gets(cfg, t, s, l, ls, an, sg, a, k) /\ Head(s[a]).type \notin {"DATAB3_CONF", "LISTEN_CONF"}
        /\ type \in PlainTypes /\ type # "DATAB3_REQ" /\ u = Put(t, Reply(type, a, Head(s[a])))
    BY <2>1
  <2> HIDE DEF s2
  <2>3. /\ Run(cfg, t, u, Taken(s, a), l) /\ u.appls = t.appls
        /\ \A n \in CallIds : MayGo(cfg, t, Taken(s, a), l, n) => MayGo(cfg, u, Taken(s, a), l, n)
    BY ONLY SMTT(40), SMTT(41), ZenonT(30), <2>2, AnswerTaken
  <2> QED  BY <2>3 DEF s2
<1>5. MayGo(cfg, u, s2, l, i)
  BY Zenon, <1>3, <1>4 DEF MayGo
<1>6. /\ Turn(cfg, u.ms, s2, l, i) = 0 /\ ~c.doSend /\ c.NotAcknowledged = 0
  <2>1. k \in DOMAIN t.appls /\ j \in DOMAIN t.appls[k].calls /\ t.appls[k].calls[j].id = i
    BY <1>1
  <2>2. MayGo(cfg, t, s2, l, i)
    BY SMTT(40), SMTT(41), ZenonT(30), <1>3
  <2>3. Turn(cfg, u.ms, s2, l, i) = 0
    BY Zenon, <1>5 DEF MayGo
  <2> HIDE DEF i, s2
  <2>4. ~t.appls[k].calls[j].doSend /\ t.appls[k].calls[j].NotAcknowledged = 0
    BY ONLY <2>1, <2>2 DEF MayGo
  <2> QED  BY <2>3, <2>4
<1>7. c \in Call
  BY <1>1, <1>3, CallOf
<1>8. d \in Call /\ d.doSend /\ SameFor(c, d)
  BY <1>7, ActivatedIs
<1>9. /\ d.id = i /\ d.b3 /\ d.NotAcknowledged = 0
  BY <1>6, <1>8 DEF SameFor
<1> HIDE DEF d, c
<1>10. r0 \in Senders /\ r0.appl = a /\ r0.c = d /\ Begun(r0)
  BY <1>1, <1>8, SenderIs
<1>11. r = Fill(r0)
  BY DEF d, c
<1> HIDE DEF r0, s2
<1>12. Sends(r0, r, Limit(cfg))
  BY <1>9, <1>10, <1>11, Fills
<1> DEFINE n == Limit(cfg)
<1>13. n \in Nat /\ d.NotAcknowledged + n <= Limit(cfg) /\ Limit(cfg) \in Nat
  <2>1. n \in Nat
    BY Options
  <2> DEFINE y == d.NotAcknowledged
  <2>2. y = 0
    BY <1>9
  <2> HIDE DEF n, y
  <2>3. y + n <= n
    BY ONLY <2>1, <2>2
  <2> QED  BY <2>1, <2>3 DEF n, y
<1>14. /\ Run(cfg, t, u, s2, l) /\ k \in DOMAIN u.appls /\ j \in DOMAIN u.appls[k].calls
       /\ SameFor(u.appls[k].calls[j], d) /\ r0 \in Senders /\ r0.c = d /\ r0.appl = u.appls[k].id
       /\ Begun(r0) /\ d.b3 /\ n \in Nat /\ Sends(r0, r, n) /\ d.NotAcknowledged + n <= Limit(cfg)
       /\ Limit(cfg) \in Nat /\ Turn(cfg, u.ms, s2, l, d.id) = 0
  BY <1>1, <1>4, <1>6, <1>8, <1>9, <1>10, <1>12, <1>13 DEF c
<1> HIDE DEF n
<1>15. Run(cfg, t, Changed(u, k, j, r.c, r.ms), s2, l)
  BY ONLY <1>14, SentRuns
<1> QED  BY <1>6, <1>15 DEF s2, c
================================================================================
