------------------------------ MODULE FaxSendProofs ------------------------------
(****************************************************************************)
(* Proofs about FaxSend, for a file of any length and with a brick that may *)
(* die: the inductive invariant IInv, from it TypeOK and NoneLost, and that *)
(* FaxSend implements FaxTransfer.                                          *)
(****************************************************************************)
EXTENDS FaxSend, FiniteSetTheorems, TLAPS

--------------------------------------------------------------------------------
(* How many messages of a kind are under way *)

\* The places in q of the elements of T, and how many they are.
PlacesOf(q, T) == {k \in DOMAIN q : q[k] \in T}
Number(q, T) == Cardinality(PlacesOf(q, T))

One(b) == IF b THEN 1 ELSE 0

\* Places are counted wherever they are.
LEMMA Shifted ==
    ASSUME NEW a \in Nat, NEW P \in SUBSET Nat, IsFiniteSet(P)
    PROVE  /\ IsFiniteSet({a + i : i \in P})
           /\ Cardinality({a + i : i \in P}) = Cardinality(P)
<1> DEFINE T == {a + i : i \in P}
           f == [i \in P |-> a + i]
<1>1. f \in Injection(P, T)
  <2>1. f \in [P -> T]
    OBVIOUS
  <2>2. \A i, j \in P : f[i] = f[j] => i = j
    OBVIOUS
  <2> QED  BY <2>1, <2>2 DEF Injection, IsInjective
<1>2. f \in Surjection(P, T)
  <2>1. f \in [P -> T]
    OBVIOUS
  <2>2. \A t \in T : \E i \in P : f[i] = t
    OBVIOUS
  <2> QED  BY <2>1, <2>2 DEF Surjection
<1>3. ExistsBijection(P, T)
  BY <1>1, <1>2 DEF ExistsBijection, Bijection
<1> HIDE DEF T
<1>4. IsFiniteSet(T) /\ Cardinality(T) = Cardinality(P)
  BY <1>3, FS_Bijection
<1> QED  BY <1>4 DEF T

\* The places of a sequence are finitely many, none if no element is in T.
LEMMA NumberType ==
    ASSUME NEW S, NEW q \in Seq(S), NEW T
    PROVE  /\ PlacesOf(q, T) \in SUBSET (1 .. Len(q)) /\ IsFiniteSet(PlacesOf(q, T))
           /\ Number(q, T) \in Nat
           /\ Number(q, T) = 0 <=> \A k \in DOMAIN q : q[k] \notin T
<1>1. PlacesOf(q, T) \in SUBSET (1 .. Len(q)) /\ Len(q) \in Nat
  BY DEF PlacesOf
<1>2. IsFiniteSet(1 .. Len(q))
  BY <1>1, FS_Interval
<1>3. IsFiniteSet(PlacesOf(q, T))
  BY <1>1, <1>2, FS_Subset
<1>4. Number(q, T) \in Nat /\ (Number(q, T) = 0 <=> PlacesOf(q, T) = {})
  BY <1>3, FS_CardinalityType, FS_EmptySet DEF Number
<1>5. PlacesOf(q, T) = {} <=> \A k \in DOMAIN q : q[k] \notin T
  BY DEF PlacesOf
<1> QED  BY <1>1, <1>3, <1>4, <1>5

\* A part of T has no more.
LEMMA NumberSubset ==
    ASSUME NEW S, NEW q \in Seq(S), NEW T, NEW U, U \subseteq T
    PROVE  Number(q, U) <= Number(q, T)
<1>1. PlacesOf(q, U) \in SUBSET PlacesOf(q, T)
  BY DEF PlacesOf
<1>2. IsFiniteSet(PlacesOf(q, T))
  BY NumberType
<1> QED  BY <1>1, <1>2, FS_Subset DEF Number

\* An empty sequence, and one of a single element.
LEMMA NumberOne ==
    ASSUME NEW m, NEW T
    PROVE  /\ Number(<<>>, T) = 0
           /\ Number(<<m>>, T) = One(m \in T)
<1>1. PlacesOf(<<>>, T) = {}
  BY DEF PlacesOf
<1>2. CASE m \in T
  <2>1. PlacesOf(<<m>>, T) = {1}
    BY <1>2 DEF PlacesOf
  <2> QED  BY <1>1, <1>2, <2>1, FS_EmptySet, FS_Singleton DEF Number, One
<1>3. CASE m \notin T
  <2>1. PlacesOf(<<m>>, T) = {}
    BY <1>3 DEF PlacesOf
  <2> QED  BY <1>1, <1>3, <2>1, FS_EmptySet DEF Number, One
<1> QED  BY <1>2, <1>3

\* Behind one another two sequences have the elements of both.
LEMMA NumberConcat ==
    ASSUME NEW S, NEW q \in Seq(S), NEW r \in Seq(S), NEW T
    PROVE  Number(q \o r, T) = Number(q, T) + Number(r, T)
<1> DEFINE A == PlacesOf(q, T)
           P == PlacesOf(r, T)
           C == {Len(q) + i : i \in P}
<1>1. /\ A \in SUBSET (1 .. Len(q)) /\ IsFiniteSet(A)
      /\ P \in SUBSET (1 .. Len(r)) /\ IsFiniteSet(P)
      /\ Cardinality(A) \in Nat /\ Cardinality(P) \in Nat
  BY NumberType DEF Number
<1>2. Len(q) \in Nat /\ Len(r) \in Nat
  OBVIOUS
<1>3. IsFiniteSet(C) /\ Cardinality(C) = Cardinality(P)
  <2>1. P \in SUBSET Nat
    BY <1>1
  <2> HIDE DEF P
  <2> QED  BY <1>1, <1>2, <2>1, Shifted
<1>4. PlacesOf(q \o r, T) = A \cup C
  <2>1. /\ DOMAIN (q \o r) = 1 .. Len(q) + Len(r)
        /\ \A k \in 1 .. Len(q) : (q \o r)[k] = q[k]
        /\ \A k \in 1 .. Len(r) : (q \o r)[Len(q) + k] = r[k]
    OBVIOUS
  <2>2. ASSUME NEW k \in 1 .. Len(q)  PROVE k \in PlacesOf(q \o r, T) <=> k \in A \cup C
    <3>1. k \notin C
      BY <1>1, <1>2
    <3>2. k \in DOMAIN (q \o r) /\ k \in DOMAIN q /\ (q \o r)[k] = q[k]
      BY <1>2, <2>1
    <3> QED  BY <3>1, <3>2 DEF PlacesOf
  <2>3. ASSUME NEW k \in 1 .. Len(r)
        PROVE  Len(q) + k \in PlacesOf(q \o r, T) <=> Len(q) + k \in A \cup C
    <3>1. Len(q) + k \notin A
      BY <1>1, <1>2
    <3>2. Len(q) + k \in C <=> k \in P
      BY <1>1, <1>2
    <3>3. Len(q) + k \in DOMAIN (q \o r) /\ k \in DOMAIN r /\ (q \o r)[Len(q) + k] = r[k]
      BY <1>2, <2>1
    <3> QED  BY <3>1, <3>2, <3>3 DEF PlacesOf
  <2>4. \A k \in 1 .. Len(q) + Len(r) :
           k \in 1 .. Len(q) \/ \E i \in 1 .. Len(r) : k = Len(q) + i
    <3>1. ASSUME NEW k \in 1 .. Len(q) + Len(r), k \notin 1 .. Len(q)
          PROVE  k - Len(q) \in 1 .. Len(r) /\ k = Len(q) + (k - Len(q))
      BY <1>2, <3>1
    <3> QED  BY <3>1
  <2>5. PlacesOf(q \o r, T) \subseteq 1 .. Len(q) + Len(r) /\ A \cup C \subseteq 1 .. Len(q) + Len(r)
    <3>1. PlacesOf(q \o r, T) \subseteq 1 .. Len(q) + Len(r)
      BY <2>1 DEF PlacesOf
    <3>2. A \subseteq 1 .. Len(q) + Len(r)
      BY <1>1, <1>2
    <3>3. C \subseteq 1 .. Len(q) + Len(r)
      BY <1>1, <1>2
    <3> QED  BY <3>1, <3>2, <3>3
  <2> HIDE DEF A, P, C
  <2>6. \A k : k \in PlacesOf(q \o r, T) <=> k \in A \cup C
    BY <2>2, <2>3, <2>4, <2>5
  <2> QED  BY <2>6
<1>5. A \cap C = {}
  BY <1>1, <1>2
<1> HIDE DEF A, P, C
<1>6. Cardinality(A \cup C) = Cardinality(A) + Cardinality(C) - Cardinality(A \cap C)
  BY <1>1, <1>3, FS_Union
<1>7. Cardinality(A \cap C) = 0
  BY <1>5, FS_EmptySet
<1>8. Number(q \o r, T) = Cardinality(A) + Cardinality(C) - 0
  BY <1>4, <1>6, <1>7 DEF Number
<1>9. Number(q, T) = Cardinality(A) /\ Number(r, T) = Cardinality(P)
  BY DEF Number, A, P
<1> QED  BY <1>1, <1>3, <1>8, <1>9

\* One element more, and the first element of those there are.
LEMMA NumberAppend ==
    ASSUME NEW S, NEW q \in Seq(S), NEW m \in S, NEW T
    PROVE  Number(Append(q, m), T) = Number(q, T) + One(m \in T)
<1>1. Append(q, m) = q \o <<m>> /\ <<m>> \in Seq(S)
  OBVIOUS
<1>2. Number(q \o <<m>>, T) = Number(q, T) + Number(<<m>>, T)
  BY <1>1, NumberConcat
<1> QED  BY <1>1, <1>2, NumberOne

LEMMA NumberTail ==
    ASSUME NEW S, NEW q \in Seq(S), q # <<>>, NEW T
    PROVE  /\ Head(q) \in S /\ Tail(q) \in Seq(S)
           /\ Number(q, T) = One(Head(q) \in T) + Number(Tail(q), T)
<1>1. Head(q) \in S /\ Tail(q) \in Seq(S) /\ <<Head(q)>> \in Seq(S)
  OBVIOUS
<1>2. q = <<Head(q)>> \o Tail(q)
  OBVIOUS
<1>3. Number(<<Head(q)>> \o Tail(q), T) = Number(<<Head(q)>>, T) + Number(Tail(q), T)
  BY <1>1, NumberConcat
<1> QED  BY <1>1, <1>2, <1>3, NumberOne

--------------------------------------------------------------------------------
(* The inductive invariant *)

Types == {"none", "LISTEN_REQ", "LISTEN_CONF", "CONNECT_REQ", "CONNECT_CONF",
          "INFO_IND", "INFO_RESP", "CONNECTACTIVE_IND", "CONNECTACTIVE_RESP",
          "CONNECTB3_REQ", "CONNECTB3_CONF", "CONNECTB3ACTIVE_IND", "CONNECTB3ACTIVE_RESP",
          "DATAB3_REQ", "DATAB3_CONF",
          "DISCONNECTB3_REQ", "DISCONNECTB3_CONF", "DISCONNECTB3_IND", "DISCONNECTB3_RESP",
          "DISCONNECT_REQ", "DISCONNECT_CONF", "DISCONNECT_IND", "DISCONNECT_RESP"}

Messages == [type : Types, b3 : BOOLEAN, info : Nat]

CallStates == {"Disconnected", "D_ConnectPending", "B_ConnectPending", "Connected",
               "B_DisconnectPending", "D_DisconnectPending"}

Calls == [there : BOOLEAN, state : CallStates, plci : BOOLEAN, b3 : BOOLEAN,
          doSend : BOOLEAN, NotAcknowledged : Nat]

Lines == [st : {"free", "dialling", "active", "b3asked", "b3up", "b3down", "clearing"},
          got : Seq(Nat), unconf : Seq(Nat), end : {"open", "complete", "aborted"}]

\* The variables have their types, and what TypeOK says of two of them.
Typed ==
    /\ pc \in {"init", "poll", "event", "exit", "killed"}
    /\ capi \in Messages
    /\ call \in Calls
    /\ wait4dataconf \in BOOLEAN /\ size \in 0 .. MaxBlocks /\ pos \in 0 .. size
    /\ conn \in {"up", "reset", "dead"}
    /\ toBrick \in Seq(Messages) /\ toProg \in Seq(Messages)
    /\ line \in Lines
    /\ call.b3 => call.plci
    /\ call.NotAcknowledged <= pos

\* The messages of a type: how many of them are under way to the brick, and how
\* many to the program, the one capi_event is at included.
Of(type) == {m \in Messages : m.type = type}
Coming(m, q, T) == One(m \in T) + Number(q, T)

ConnectReqs(q) == Number(q, Of("CONNECT_REQ"))
ConnectB3Reqs(q) == Number(q, Of("CONNECTB3_REQ"))
DataB3Reqs(q) == Number(q, Of("DATAB3_REQ"))
DisconnectB3Reqs(q) == Number(q, Of("DISCONNECTB3_REQ"))
DisconnectResps(q) == Number(q, Of("DISCONNECT_RESP"))

ConnectActiveInds(m, q) == Coming(m, q, Of("CONNECTACTIVE_IND"))
ConnectB3ActiveInds(m, q) == Coming(m, q, Of("CONNECTB3ACTIVE_IND"))
DataB3Confs(m, q) == Coming(m, q, Of("DATAB3_CONF"))
DisconnectInds(m, q) == Coming(m, q, Of("DISCONNECT_IND"))

\* A block that is not the last one read, a message about the fax connection that
\* does not name it, and a refusal of the fax connection.
Stray == {m \in Of("DATAB3_REQ") : ~m.b3 \/ m.info # pos}
Nameless == {m \in Of("DATAB3_CONF") \cup Of("CONNECTB3ACTIVE_IND") : ~m.b3}
Refusal == {m \in Of("CONNECTB3_CONF") : ~m.b3}

\* Whose turn it is: main's, which has not begun, or that of whoever has the one
\* message or the one block on which the next step of the fax depends.
Asking == {m \in Messages : m.type \in {"CONNECT_REQ", "CONNECTB3_REQ", "DATAB3_REQ",
                                        "DISCONNECTB3_REQ"}}
Telling == {m \in Messages : m.type \in {"CONNECTACTIVE_IND", "CONNECTB3ACTIVE_IND",
                                         "DATAB3_CONF"}}
Begins(p) == IF p = "init" THEN 1 ELSE 0
Busy(l) == IF l.st \in {"dialling", "b3asked"} THEN 1 ELSE 0
TurnOf(p, q, m, r, l) == Begins(p) + Number(q, Asking) + Coming(m, r, Telling)
                         + Busy(l) + Len(l.unconf)
Turn == TurnOf(pc, toBrick, capi, toProg, line)

\* The fax connection has not come up yet, and may.
Early == \/ pc = "init"
         \/ ConnectReqs(toBrick) > 0 \/ ConnectB3Reqs(toBrick) > 0 \/ ConnectActiveInds(capi, toProg) > 0
         \/ line.st \in {"dialling", "active", "b3asked"}

\* Where the program is.
Control ==
    /\ pc # "event" => capi = NoMsg
    /\ pc = "init" => conn = "dead"
    /\ pc \in {"init", "poll", "event"} => call.there

\* What the messages under way say.
Said ==
    /\ Number(toBrick, Stray) = 0
    /\ Coming(capi, toProg, Nameless) = 0
    /\ Coming(capi, toProg, Refusal) > 0 => Turn = 0 /\ call.NotAcknowledged = 0

\* Before the call the line is free, before the fax connection is up nothing has
\* been read and nothing gone out, and behind the call nothing is left of it.
Phases ==
    /\ pc = "init" \/ ConnectReqs(toBrick) > 0 =>
          line.st = "free" /\ line.end = "open" /\ DisconnectResps(toBrick) = 0 /\ DisconnectInds(capi, toProg) = 0
    /\ line.st \in {"dialling", "active", "b3asked", "b3up"} => line.end = "open"
    /\ Early => /\ pos = 0 /\ line.got = <<>> /\ call.NotAcknowledged = 0
                /\ ConnectB3ActiveInds(capi, toProg) = 0 /\ DataB3Confs(capi, toProg) = 0
                /\ DataB3Reqs(toBrick) = 0 /\ DisconnectB3Reqs(toBrick) = 0
    /\ DisconnectResps(toBrick) > 0 \/ DisconnectInds(capi, toProg) > 0 => line.st \in {"free", "clearing"}

\* The blocks the brick has, and what the program knows of them.
Blocks ==
    /\ line.st # "b3up" => line.unconf = <<>>
    /\ \A n \in DOMAIN line.unconf : line.unconf[n] = pos
    /\ \A n \in DOMAIN line.got : line.got[n] = n
    /\ call.NotAcknowledged > 0 => call.b3
    /\ call.NotAcknowledged >= DataB3Reqs(toBrick) + Len(line.unconf) + DataB3Confs(capi, toProg)
    /\ conn = "up" /\ line.st = "b3up" =>
          /\ call.NotAcknowledged = DataB3Reqs(toBrick) + Len(line.unconf) + DataB3Confs(capi, toProg)
          /\ pos = Len(line.got) + Len(line.unconf) + DataB3Reqs(toBrick)
          /\ DisconnectB3Reqs(toBrick) > 0 => pos = size

IInv == Typed /\ Control /\ Turn <= 1 /\ Said /\ Phases /\ Blocks

--------------------------------------------------------------------------------
(* Messages under way *)

\* What a message counts for.
LEMMA MessageFacts ==
    ASSUME NEW t \in Types, NEW b \in BOOLEAN, NEW i \in Nat
    PROVE  /\ Msg(t, b, i) \in Messages
           /\ \A u : Msg(t, b, i) \in Of(u) <=> t = u
           /\ Msg(t, b, i) \in Stray <=> t = "DATAB3_REQ" /\ (~b \/ i # pos)
           /\ Msg(t, b, i) \in Nameless <=> t \in {"DATAB3_CONF", "CONNECTB3ACTIVE_IND"} /\ ~b
           /\ Msg(t, b, i) \in Refusal <=> t = "CONNECTB3_CONF" /\ ~b
           /\ Msg(t, b, i) \in Asking <=> t \in {"CONNECT_REQ", "CONNECTB3_REQ", "DATAB3_REQ",
                                                 "DISCONNECTB3_REQ"}
           /\ Msg(t, b, i) \in Telling <=> t \in {"CONNECTACTIVE_IND", "CONNECTB3ACTIVE_IND",
                                                  "DATAB3_CONF"}
<1>1. Msg(t, b, i) \in Messages /\ Msg(t, b, i).type = t /\ Msg(t, b, i).b3 = b
      /\ Msg(t, b, i).info = i
  BY DEF Msg, Messages
<1> QED  BY <1>1 DEF Of, Stray, Nameless, Refusal, Asking, Telling

\* Two messages.
LEMMA NumberPair ==
    ASSUME NEW a \in Messages, NEW b \in Messages, NEW T
    PROVE  /\ <<a, b>> \in Seq(Messages)
           /\ <<a>> \o <<b>> = <<a, b>> /\ <<a>> \o <<>> = <<a>>
           /\ Number(<<a, b>>, T) = One(a \in T) + One(b \in T)
<1>1. <<a>> \in Seq(Messages) /\ <<a, b>> = Append(<<a>>, b)
  OBVIOUS
<1>2. Number(Append(<<a>>, b), T) = Number(<<a>>, T) + One(b \in T)
  BY <1>1, NumberAppend
<1>3. Number(<<a>>, T) = One(a \in T)
  BY NumberOne
<1>4. Append(<<a>>, b) \in Seq(Messages)
  BY <1>1
<1>5. <<a>> \o <<b>> = Append(<<a>>, b) /\ <<a>> \o <<>> = <<a>>
  BY <1>1
<1> QED  BY <1>1, <1>2, <1>3, <1>4, <1>5

\* The numbers are numbers, those of a part no greater than those of the whole.
LEMMA Requests ==
    ASSUME NEW q \in Seq(Messages)
    PROVE  /\ \A T : Number(q, T) \in Nat
           /\ ConnectReqs(q) \in Nat /\ ConnectReqs(q) <= Number(q, Asking)
           /\ ConnectB3Reqs(q) \in Nat /\ ConnectB3Reqs(q) <= Number(q, Asking)
           /\ DataB3Reqs(q) \in Nat /\ DataB3Reqs(q) <= Number(q, Asking)
           /\ DisconnectB3Reqs(q) \in Nat /\ DisconnectB3Reqs(q) <= Number(q, Asking)
           /\ DisconnectResps(q) \in Nat
           /\ Number(q, Stray) <= DataB3Reqs(q)
<1>1. \A T : Number(q, T) \in Nat
  BY NumberType
<1>2. \A u \in {"CONNECT_REQ", "CONNECTB3_REQ", "DATAB3_REQ", "DISCONNECTB3_REQ"} :
         Number(q, Of(u)) <= Number(q, Asking)
  <2>1. \A u \in {"CONNECT_REQ", "CONNECTB3_REQ", "DATAB3_REQ", "DISCONNECTB3_REQ"} :
           Of(u) \subseteq Asking
    BY DEF Of, Asking
  <2> QED  BY <2>1, NumberSubset
<1>3. Number(q, Stray) <= Number(q, Of("DATAB3_REQ"))
  <2>1. Stray \subseteq Of("DATAB3_REQ")
    BY DEF Stray
  <2> QED  BY <2>1, NumberSubset
<1> QED
  BY <1>1, <1>2, <1>3 DEF ConnectReqs, ConnectB3Reqs, DataB3Reqs, DisconnectB3Reqs,
     DisconnectResps

LEMMA Indications ==
    ASSUME NEW m \in Messages, NEW q \in Seq(Messages)
    PROVE  /\ \A T : Coming(m, q, T) \in Nat
           /\ ConnectActiveInds(m, q) \in Nat /\ ConnectActiveInds(m, q) <= Coming(m, q, Telling)
           /\ ConnectB3ActiveInds(m, q) \in Nat /\ ConnectB3ActiveInds(m, q) <= Coming(m, q, Telling)
           /\ DataB3Confs(m, q) \in Nat /\ DataB3Confs(m, q) <= Coming(m, q, Telling)
           /\ DisconnectInds(m, q) \in Nat
<1>1. \A T : Number(q, T) \in Nat /\ One(m \in T) \in Nat
  BY NumberType DEF One
<1>2. \A T : Coming(m, q, T) \in Nat
  BY <1>1 DEF Coming
<1>3. \A u \in {"CONNECTACTIVE_IND", "CONNECTB3ACTIVE_IND", "DATAB3_CONF"} :
         Coming(m, q, Of(u)) <= Coming(m, q, Telling)
  <2>1. ASSUME NEW u \in {"CONNECTACTIVE_IND", "CONNECTB3ACTIVE_IND", "DATAB3_CONF"}
        PROVE  Coming(m, q, Of(u)) <= Coming(m, q, Telling)
    <3>1. Of(u) \subseteq Telling
      BY DEF Of, Telling
    <3>2. Number(q, Of(u)) <= Number(q, Telling)
      BY <3>1, NumberSubset
    <3>3. One(m \in Of(u)) <= One(m \in Telling)
      BY <3>1 DEF One
    <3> QED  BY <1>1, <3>2, <3>3 DEF Coming
  <2> QED  BY <2>1
<1> QED
  BY <1>2, <1>3 DEF ConnectActiveInds, ConnectB3ActiveInds, DataB3Confs, DisconnectInds

\* The numbers of the variables.
LEMMA NumbersType ==
    ASSUME Typed
    PROVE  /\ pos \in Nat /\ size \in Nat
           /\ Len(line.unconf) \in Nat /\ Len(line.got) \in Nat /\ call.NotAcknowledged \in Nat
<1>1. Len(line.unconf) \in Nat /\ Len(line.got) \in Nat /\ call.NotAcknowledged \in Nat
  BY DEF Typed, Lines, Calls
<1>2. pos \in Nat /\ size \in Nat
  BY FaxSendAssumption DEF Typed
<1> QED
  BY <1>1, <1>2

\* capi_event takes its message off and puts others.
LEMMA Handled ==
    ASSUME Typed, NEW type, Event(type),
           NEW ms \in Seq(Messages), NEW next \in {"poll", "exit"}, Sends(ms, next)
    PROVE  /\ pc = "event" /\ capi.type = type /\ pc' \in {next, "killed"}
           /\ capi' = NoMsg /\ NoMsg \in Messages
           /\ conn' \in {"up", "reset", "dead"} /\ (conn' = "up" <=> conn = "up")
           /\ toBrick' \in Seq(Messages) /\ toProg' = toProg
           /\ wait4dataconf' = wait4dataconf /\ size' = size /\ line' = line
           /\ \A T : Number(toBrick', T) = Number(toBrick, T)
                                           + (IF conn = "up" THEN Number(ms, T) ELSE 0)
           /\ \A T : Coming(capi, toProg, T) = One(capi \in T) + Number(toProg, T)
           /\ \A T : NoMsg \notin T => Coming(capi', toProg', T) = Number(toProg, T)
<1>1. /\ pc = "event" /\ capi.type = type /\ capi' = NoMsg
      /\ wait4dataconf' = wait4dataconf /\ size' = size /\ line' = line
  BY DEF Event
<1>2. pc' \in {next, "killed"} /\ toProg' = toProg
  BY DEF Sends
<1>3. conn' \in {"up", "reset", "dead"} /\ (conn' = "up" <=> conn = "up")
  BY DEF Sends, Typed
<1>4. NoMsg \in Messages
  <2>1. "none" \in Types
    BY DEF Types
  <2>2. FALSE \in BOOLEAN
    OBVIOUS
  <2>3. 0 \in Nat
    OBVIOUS
  <2> QED  BY <2>1, <2>2, <2>3, MessageFacts, Zenon DEF NoMsg
<1>5. toBrick \in Seq(Messages) /\ toProg \in Seq(Messages)
  BY DEF Typed
<1>6. toBrick' = IF conn = "up" THEN toBrick \o ms ELSE toBrick
  BY DEF Sends
<1>7. toBrick' \in Seq(Messages)
  BY <1>5, <1>6
<1>8. \A T : Number(toBrick, T) \in Nat /\ Number(toBrick \o ms, T) = Number(toBrick, T) + Number(ms, T)
  BY <1>5, NumberType, NumberConcat
<1>9. \A T : Number(toBrick', T) = Number(toBrick, T) + (IF conn = "up" THEN Number(ms, T) ELSE 0)
  <2>1. CASE conn = "up"
    BY <1>6, <1>8, <2>1
  <2>2. CASE conn # "up"
    BY <1>6, <1>8, <2>2
  <2> QED  BY <2>1, <2>2
<1>10. \A T : Coming(capi, toProg, T) = One(capi \in T) + Number(toProg, T)
  BY DEF Coming
<1>11. ASSUME NEW T, NoMsg \notin T  PROVE Coming(capi', toProg', T) = Number(toProg, T)
  <2>1. Coming(capi', toProg', T) = One(NoMsg \in T) + Number(toProg, T)
    BY <1>1, <1>2 DEF Coming
  <2>2. Number(toProg, T) \in Nat
    BY <1>5, NumberType
  <2> QED  BY <1>11, <2>1, <2>2 DEF One
<1> QED  BY <1>1, <1>2, <1>3, <1>4, <1>7, <1>9, <1>10, <1>11

\* The brick's call moves and the brick sends messages.
LEMMA Moved ==
    ASSUME Typed, Control, NEW l \in Lines, NEW ms \in Seq(Messages), Moves(l, ms)
    PROVE  /\ conn = "up" /\ line' = l /\ pc # "init"
           /\ pc' = pc /\ capi' = capi /\ call' = call /\ conn' = conn
           /\ wait4dataconf' = wait4dataconf /\ size' = size /\ pos' = pos
           /\ toProg' \in Seq(Messages)
           /\ \A T : Coming(capi', toProg', T) = Coming(capi, toProg, T) + Number(ms, T)
<1>1. /\ conn = "up" /\ line' = l /\ pc' = pc /\ capi' = capi /\ call' = call /\ conn' = conn
      /\ wait4dataconf' = wait4dataconf /\ size' = size /\ pos' = pos
      /\ toProg' = toProg \o ms
  BY DEF Moves, file
<1>2. pc # "init"
  BY <1>1 DEF Control
<1>3. toProg \in Seq(Messages) /\ toProg' \in Seq(Messages)
  BY <1>1 DEF Typed
<1>4. ASSUME NEW T  PROVE Coming(capi', toProg', T) = Coming(capi, toProg, T) + Number(ms, T)
  <2>1. Number(toProg', T) = Number(toProg, T) + Number(ms, T)
    BY <1>1, <1>3, NumberConcat
  <2>2. Number(toProg, T) \in Nat /\ Number(ms, T) \in Nat
    BY <1>3, NumberType
  <2>3. One(capi \in T) \in Nat
    BY DEF One
  <2>4. Coming(capi', toProg', T) = One(capi \in T) + Number(toProg', T) /\ Coming(capi, toProg, T) = One(capi \in T) + Number(toProg, T)
    BY <1>1 DEF Coming
  <2> QED  BY <2>1, <2>2, <2>3, <2>4
<1> QED  BY <1>1, <1>2, <1>3, <1>4

\* The sets of messages that are counted, of a message and of NoMsg.
LEMMA NoMsgFacts ==
    /\ \A u \in Types \ {"none"} : NoMsg \notin Of(u)
    /\ NoMsg \notin Stray /\ NoMsg \notin Nameless /\ NoMsg \notin Refusal
    /\ NoMsg \notin Asking /\ NoMsg \notin Telling
<1>1. NoMsg.type = "none"
  BY DEF NoMsg, Msg
<1> QED  BY <1>1 DEF Of, Stray, Nameless, Refusal, Asking, Telling

LEMMA OfType ==
    ASSUME NEW m \in Messages
    PROVE  /\ \A u : m \in Of(u) <=> m.type = u
           /\ m \in Stray <=> m.type = "DATAB3_REQ" /\ (~m.b3 \/ m.info # pos)
           /\ m \in Nameless <=> m.type \in {"DATAB3_CONF", "CONNECTB3ACTIVE_IND"} /\ ~m.b3
           /\ m \in Refusal <=> m.type = "CONNECTB3_CONF" /\ ~m.b3
           /\ m \in Asking <=> m.type \in {"CONNECT_REQ", "CONNECTB3_REQ", "DATAB3_REQ",
                                           "DISCONNECTB3_REQ"}
           /\ m \in Telling <=> m.type \in {"CONNECTACTIVE_IND", "CONNECTB3ACTIVE_IND",
                                            "DATAB3_CONF"}
BY DEF Of, Stray, Nameless, Refusal, Asking, Telling

\* What the program puts, of the messages ms, as far as the connection is up.
Put(ms, T) == IF conn = "up" THEN Number(ms, T) ELSE 0

LEMMA PutType ==
    ASSUME NEW ms \in Seq(Messages), NEW T
    PROVE  Number(ms, T) \in Nat /\ Put(ms, T) \in Nat /\ Put(ms, T) <= Number(ms, T)
<1>1. Number(ms, T) \in Nat
  BY NumberType
<1> QED  BY <1>1 DEF Put

\* What the step of a handler makes of the numbers.
LEMMA HandledCounts ==
    ASSUME Typed, NEW type, Event(type),
           NEW ms \in Seq(Messages), NEW next \in {"poll", "exit"}, Sends(ms, next)
    PROVE  /\ ConnectReqs(toBrick') = ConnectReqs(toBrick) + Put(ms, Of("CONNECT_REQ"))
           /\ ConnectB3Reqs(toBrick') = ConnectB3Reqs(toBrick) + Put(ms, Of("CONNECTB3_REQ"))
           /\ DataB3Reqs(toBrick') = DataB3Reqs(toBrick) + Put(ms, Of("DATAB3_REQ"))
           /\ DisconnectB3Reqs(toBrick') = DisconnectB3Reqs(toBrick) + Put(ms, Of("DISCONNECTB3_REQ"))
           /\ DisconnectResps(toBrick') = DisconnectResps(toBrick) + Put(ms, Of("DISCONNECT_RESP"))
           /\ ConnectActiveInds(capi', toProg') = ConnectActiveInds(capi, toProg) - One(type = "CONNECTACTIVE_IND")
           /\ ConnectB3ActiveInds(capi', toProg') = ConnectB3ActiveInds(capi, toProg) - One(type = "CONNECTB3ACTIVE_IND")
           /\ DataB3Confs(capi', toProg') = DataB3Confs(capi, toProg) - One(type = "DATAB3_CONF")
           /\ DisconnectInds(capi', toProg') = DisconnectInds(capi, toProg) - One(type = "DISCONNECT_IND")
           /\ Coming(capi', toProg', Nameless) = Coming(capi, toProg, Nameless) - One(capi \in Nameless)
           /\ Coming(capi', toProg', Refusal) = Coming(capi, toProg, Refusal) - One(capi \in Refusal)
           /\ Number(toBrick', Asking) = Number(toBrick, Asking) + Put(ms, Asking)
           /\ Coming(capi', toProg', Telling) = Coming(capi, toProg, Telling) - One(capi \in Telling)
<1>1. /\ \A T : Number(toBrick', T) = Number(toBrick, T) + (IF conn = "up" THEN Number(ms, T) ELSE 0)
      /\ \A T : Coming(capi, toProg, T) = One(capi \in T) + Number(toProg, T)
      /\ \A T : NoMsg \notin T => Coming(capi', toProg', T) = Number(toProg, T)
      /\ capi.type = type
  BY Handled
<1>2. capi \in Messages /\ toProg \in Seq(Messages)
  BY DEF Typed
<1>3. \A T : Number(toProg, T) \in Nat /\ One(capi \in T) \in Nat
  BY <1>2, NumberType DEF One
<1>4. \A T : Number(toBrick', T) = Number(toBrick, T) + Put(ms, T)
  BY <1>1 DEF Put
<1>5. \A T : NoMsg \notin T => Coming(capi', toProg', T) = Coming(capi, toProg, T) - One(capi \in T)
  <2>1. ASSUME NEW T, NoMsg \notin T  PROVE Coming(capi', toProg', T) = Coming(capi, toProg, T) - One(capi \in T)
    <3>1. Coming(capi, toProg, T) = One(capi \in T) + Number(toProg, T) /\ Coming(capi', toProg', T) = Number(toProg, T)
      BY <1>1, <2>1
    <3>2. Number(toProg, T) \in Nat /\ One(capi \in T) \in Nat
      BY <1>3
    <3> QED  BY <3>1, <3>2
  <2> QED  BY <2>1
<1>6. \A u \in Types \ {"none"} : Coming(capi', toProg', Of(u)) = Coming(capi, toProg, Of(u)) - One(type = u)
  <2>1. ASSUME NEW u \in Types \ {"none"}  PROVE Coming(capi', toProg', Of(u)) = Coming(capi, toProg, Of(u)) - One(type = u)
    <3>1. NoMsg \notin Of(u)
      BY NoMsgFacts
    <3>2. capi \in Of(u) <=> type = u
      BY <1>1, <1>2, OfType
    <3>3. One(capi \in Of(u)) = One(type = u)
      BY <3>2 DEF One
    <3> QED  BY <1>5, <3>1, <3>3
  <2> QED  BY <2>1
<1>7. /\ ConnectReqs(toBrick') = ConnectReqs(toBrick) + Put(ms, Of("CONNECT_REQ"))
      /\ ConnectB3Reqs(toBrick') = ConnectB3Reqs(toBrick) + Put(ms, Of("CONNECTB3_REQ"))
      /\ DataB3Reqs(toBrick') = DataB3Reqs(toBrick) + Put(ms, Of("DATAB3_REQ"))
      /\ DisconnectB3Reqs(toBrick') = DisconnectB3Reqs(toBrick) + Put(ms, Of("DISCONNECTB3_REQ"))
      /\ DisconnectResps(toBrick') = DisconnectResps(toBrick) + Put(ms, Of("DISCONNECT_RESP"))
  BY <1>4 DEF ConnectReqs, ConnectB3Reqs, DataB3Reqs, DisconnectB3Reqs, DisconnectResps
<1>8. {"CONNECTACTIVE_IND", "CONNECTB3ACTIVE_IND", "DATAB3_CONF", "DISCONNECT_IND"}
         \subseteq Types \ {"none"}
  BY DEF Types
<1>9. /\ ConnectActiveInds(capi', toProg') = ConnectActiveInds(capi, toProg) - One(type = "CONNECTACTIVE_IND")
      /\ ConnectB3ActiveInds(capi', toProg') = ConnectB3ActiveInds(capi, toProg) - One(type = "CONNECTB3ACTIVE_IND")
      /\ DataB3Confs(capi', toProg') = DataB3Confs(capi, toProg) - One(type = "DATAB3_CONF")
      /\ DisconnectInds(capi', toProg') = DisconnectInds(capi, toProg) - One(type = "DISCONNECT_IND")
  BY <1>6, <1>8 DEF ConnectActiveInds, ConnectB3ActiveInds, DataB3Confs, DisconnectInds
<1>10. /\ Coming(capi', toProg', Nameless) = Coming(capi, toProg, Nameless) - One(capi \in Nameless)
       /\ Coming(capi', toProg', Refusal) = Coming(capi, toProg, Refusal) - One(capi \in Refusal)
  BY <1>5, NoMsgFacts
<1>11. /\ Number(toBrick', Asking) = Number(toBrick, Asking) + Put(ms, Asking)
       /\ Coming(capi', toProg', Telling) = Coming(capi, toProg, Telling) - One(capi \in Telling)
  BY <1>4, <1>5, NoMsgFacts
<1> QED  BY <1>7, <1>9, <1>10, <1>11

\* What the step of the brick makes of them.
LEMMA MovedCounts ==
    ASSUME Typed, Control, NEW l \in Lines, NEW ms \in Seq(Messages), Moves(l, ms)
    PROVE  /\ ConnectActiveInds(capi', toProg') = ConnectActiveInds(capi, toProg) + Number(ms, Of("CONNECTACTIVE_IND"))
           /\ ConnectB3ActiveInds(capi', toProg') = ConnectB3ActiveInds(capi, toProg) + Number(ms, Of("CONNECTB3ACTIVE_IND"))
           /\ DataB3Confs(capi', toProg') = DataB3Confs(capi, toProg) + Number(ms, Of("DATAB3_CONF"))
           /\ DisconnectInds(capi', toProg') = DisconnectInds(capi, toProg) + Number(ms, Of("DISCONNECT_IND"))
           /\ Coming(capi', toProg', Nameless) = Coming(capi, toProg, Nameless) + Number(ms, Nameless)
           /\ Coming(capi', toProg', Refusal) = Coming(capi, toProg, Refusal) + Number(ms, Refusal)
           /\ Coming(capi', toProg', Telling) = Coming(capi, toProg, Telling) + Number(ms, Telling)
<1>1. \A T : Coming(capi', toProg', T) = Coming(capi, toProg, T) + Number(ms, T)
  BY Moved
<1> QED  BY <1>1 DEF ConnectActiveInds, ConnectB3ActiveInds, DataB3Confs, DisconnectInds

\* The turn is somebody's, or nobody's.
LEMMA TurnParts ==
    ASSUME NEW p, NEW q \in Seq(Messages), NEW m \in Messages, NEW r \in Seq(Messages),
           NEW l \in Lines
    PROVE  /\ Begins(p) \in Nat /\ Number(q, Asking) \in Nat /\ Coming(m, r, Telling) \in Nat
           /\ Busy(l) \in Nat /\ Len(l.unconf) \in Nat /\ TurnOf(p, q, m, r, l) \in Nat
           /\ TurnOf(p, q, m, r, l) = Number(q, Asking) + Coming(m, r, Telling)
                                        + (Begins(p) + Busy(l) + Len(l.unconf))
<1>1. Begins(p) \in Nat /\ Busy(l) \in Nat /\ Len(l.unconf) \in Nat
  BY DEF Begins, Busy, Lines
<1>2. Number(q, Asking) \in Nat /\ Coming(m, r, Telling) \in Nat
  BY Requests, Indications
<1> DEFINE a == Number(q, Asking)
           b == Coming(m, r, Telling)
           c == Begins(p)
           d == Busy(l)
           e == Len(l.unconf)
<1> HIDE DEF a, b, c, d, e
<1>3. a \in Nat /\ b \in Nat /\ c \in Nat /\ d \in Nat /\ e \in Nat
  BY <1>1, <1>2 DEF a, b, c, d, e
<1>4. c + a + b + d + e \in Nat /\ c + a + b + d + e = a + b + (c + d + e)
  BY ONLY <1>3
<1> QED  BY <1>3, <1>4 DEF a, b, c, d, e, TurnOf

\* It passes from one to another.
LEMMA TurnPasses ==
    ASSUME NEW p, NEW q \in Seq(Messages), NEW m \in Messages, NEW r \in Seq(Messages),
           NEW l \in Lines,
           NEW p1, NEW q1 \in Seq(Messages), NEW m1 \in Messages, NEW r1 \in Seq(Messages),
           NEW l1 \in Lines,
           Number(q1, Asking) + Coming(m1, r1, Telling) + (Begins(p1) + Busy(l1) + Len(l1.unconf))
              <= Number(q, Asking) + Coming(m, r, Telling) + (Begins(p) + Busy(l) + Len(l.unconf))
    PROVE  /\ TurnOf(p, q, m, r, l) \in Nat /\ TurnOf(p1, q1, m1, r1, l1) \in Nat
           /\ TurnOf(p1, q1, m1, r1, l1) <= TurnOf(p, q, m, r, l)
<1>1. TurnOf(p, q, m, r, l) \in Nat
      /\ TurnOf(p, q, m, r, l) = Number(q, Asking) + Coming(m, r, Telling)
                                        + (Begins(p) + Busy(l) + Len(l.unconf))
  BY TurnParts
<1>2. TurnOf(p1, q1, m1, r1, l1) \in Nat
      /\ TurnOf(p1, q1, m1, r1, l1) = Number(q1, Asking) + Coming(m1, r1, Telling)
                                        + (Begins(p1) + Busy(l1) + Len(l1.unconf))
  BY TurnParts
<1> QED  BY <1>1, <1>2

\* The brick takes a message, or none.
LEMMA TakenCounts ==
    ASSUME Typed, toBrick # <<>>, toBrick' = Tail(toBrick), pos' = pos
    PROVE  /\ Head(toBrick) \in Messages /\ toBrick' \in Seq(Messages)
           /\ ConnectReqs(toBrick') = ConnectReqs(toBrick) - One(Head(toBrick).type = "CONNECT_REQ")
           /\ ConnectB3Reqs(toBrick') = ConnectB3Reqs(toBrick) - One(Head(toBrick).type = "CONNECTB3_REQ")
           /\ DataB3Reqs(toBrick') = DataB3Reqs(toBrick) - One(Head(toBrick).type = "DATAB3_REQ")
           /\ DisconnectB3Reqs(toBrick') = DisconnectB3Reqs(toBrick) - One(Head(toBrick).type = "DISCONNECTB3_REQ")
           /\ DisconnectResps(toBrick') = DisconnectResps(toBrick) - One(Head(toBrick).type = "DISCONNECT_RESP")
           /\ Number(toBrick', Stray') = Number(toBrick, Stray) - One(Head(toBrick) \in Stray)
           /\ Number(toBrick', Asking) = Number(toBrick, Asking) - One(Head(toBrick) \in Asking)
<1>1. toBrick \in Seq(Messages)
  BY DEF Typed
<1>2. Head(toBrick) \in Messages /\ toBrick' \in Seq(Messages)
  BY <1>1, NumberTail
<1>3. ASSUME NEW T  PROVE Number(toBrick', T) = Number(toBrick, T) - One(Head(toBrick) \in T)
  <2>1. Number(toBrick, T) = One(Head(toBrick) \in T) + Number(toBrick', T)
    BY <1>1, NumberTail
  <2>2. Number(toBrick', T) \in Nat /\ One(Head(toBrick) \in T) \in Nat
    BY <1>2, NumberType DEF One
  <2> QED  BY <2>1, <2>2
<1>4. ASSUME NEW u  PROVE Number(toBrick', Of(u)) = Number(toBrick, Of(u)) - One(Head(toBrick).type = u)
  <2>1. Head(toBrick) \in Of(u) <=> Head(toBrick).type = u
    BY <1>2, OfType
  <2> QED  BY <1>3, <2>1 DEF One
<1>5. Stray' = Stray
  BY DEF Stray
<1> QED
  BY <1>2, <1>3, <1>4, <1>5 DEF ConnectReqs, ConnectB3Reqs, DataB3Reqs, DisconnectB3Reqs,
     DisconnectResps

--------------------------------------------------------------------------------
(* The steps of the program *)

\* A handler that reads nothing of the file, and asks for nothing but, for an
\* active connection, the fax connection.
QuietStep(type, ms, next) ==
    /\ Event(type) /\ type # "DATAB3_CONF"
    /\ Sends(ms, next) /\ pos' = pos
    /\ call' \in Calls /\ call'.NotAcknowledged = call.NotAcknowledged
    /\ call'.b3 => call'.plci
    /\ call.NotAcknowledged > 0 => call'.b3
    /\ next = "poll" => call'.there = call.there
    /\ Number(ms, Of("CONNECT_REQ")) = 0 /\ Number(ms, Of("DATAB3_REQ")) = 0
    /\ Number(ms, Of("DISCONNECTB3_REQ")) = 0
    /\ Number(ms, Of("CONNECTB3_REQ")) <= One(type = "CONNECTACTIVE_IND")
    /\ Number(ms, Asking) <= One(type = "CONNECTACTIVE_IND")
    /\ Number(ms, Of("DISCONNECT_RESP")) <= One(type = "DISCONNECT_IND")

LEMMA Quiet ==
    ASSUME IInv, NEW type, NEW ms \in Seq(Messages), NEW next \in {"poll", "exit"},
           QuietStep(type, ms, next)
    PROVE  IInv'
<1>1. /\ Typed /\ Control /\ Turn <= 1 /\ Said /\ Phases /\ Blocks
      /\ Event(type) /\ Sends(ms, next)
  BY DEF IInv, QuietStep
<1>2. /\ pc = "event" /\ capi.type = type /\ pc' \in {next, "killed"}
      /\ capi' = NoMsg /\ NoMsg \in Messages
      /\ conn' \in {"up", "reset", "dead"} /\ (conn' = "up" <=> conn = "up")
      /\ toBrick' \in Seq(Messages) /\ toProg' = toProg
      /\ wait4dataconf' = wait4dataconf /\ size' = size /\ line' = line
  BY <1>1, Handled
<1>3. capi \in Messages /\ toBrick \in Seq(Messages) /\ toProg \in Seq(Messages)
  BY <1>1 DEF Typed
<1>4. \A T : Number(ms, T) \in Nat /\ Put(ms, T) \in Nat /\ Put(ms, T) <= Number(ms, T)
  BY PutType
<1>5. /\ pos \in Nat /\ size \in Nat /\ Len(line.unconf) \in Nat /\ Len(line.got) \in Nat
      /\ call.NotAcknowledged \in Nat
      /\ pos' = pos /\ call'.NotAcknowledged = call.NotAcknowledged
  BY <1>1, NumbersType DEF QuietStep
\* The requests.
<1>6. /\ ConnectReqs(toBrick') = ConnectReqs(toBrick)
      /\ DataB3Reqs(toBrick') = DataB3Reqs(toBrick)
      /\ DisconnectB3Reqs(toBrick') = DisconnectB3Reqs(toBrick)
  <2>1. /\ ConnectReqs(toBrick') = ConnectReqs(toBrick) + Put(ms, Of("CONNECT_REQ"))
        /\ DataB3Reqs(toBrick') = DataB3Reqs(toBrick) + Put(ms, Of("DATAB3_REQ"))
        /\ DisconnectB3Reqs(toBrick') = DisconnectB3Reqs(toBrick) + Put(ms, Of("DISCONNECTB3_REQ"))
    BY <1>1, HandledCounts
  <2>2. /\ Put(ms, Of("CONNECT_REQ")) = 0 /\ Put(ms, Of("DATAB3_REQ")) = 0
        /\ Put(ms, Of("DISCONNECTB3_REQ")) = 0
    BY DEF QuietStep, Put
  <2>3. ConnectReqs(toBrick) \in Nat /\ DataB3Reqs(toBrick) \in Nat /\ DisconnectB3Reqs(toBrick) \in Nat
    BY <1>3, Requests
  <2> QED  BY <2>1, <2>2, <2>3
<1>7. Number(toBrick', Stray') = 0
  <2>1. Stray' = Stray
    BY <1>5 DEF Stray
  <2>2. Number(toBrick', Stray) = Number(toBrick, Stray) + (IF conn = "up" THEN Number(ms, Stray) ELSE 0)
    BY <1>1, Handled
  <2>3. Number(toBrick, Stray) = 0
    BY <1>1 DEF Said
  <2>4. Number(ms, Stray) <= DataB3Reqs(ms) /\ Number(ms, Stray) \in Nat
    BY Requests
  <2>5. DataB3Reqs(ms) = 0
    BY DEF QuietStep, DataB3Reqs
  <2>6. Number(ms, Stray) = 0
    BY <2>4, <2>5
  <2> QED  BY <2>1, <2>2, <2>3, <2>6
<1>8. /\ ConnectB3Reqs(toBrick') > 0 => ConnectB3Reqs(toBrick) > 0 \/ ConnectActiveInds(capi, toProg) > 0
      /\ ConnectActiveInds(capi', toProg') > 0 => ConnectActiveInds(capi, toProg) > 0
  <2>1. /\ ConnectB3Reqs(toBrick') = ConnectB3Reqs(toBrick) + Put(ms, Of("CONNECTB3_REQ"))
        /\ ConnectActiveInds(capi', toProg') = ConnectActiveInds(capi, toProg) - One(type = "CONNECTACTIVE_IND")
    BY <1>1, HandledCounts
  <2>2. ConnectActiveInds(capi', toProg') \in Nat /\ ConnectActiveInds(capi, toProg) \in Nat
        /\ ConnectB3Reqs(toBrick) \in Nat
    BY <1>2, <1>3, Indications, Requests
  <2>3. Number(ms, Of("CONNECTB3_REQ")) <= One(type = "CONNECTACTIVE_IND")
    BY DEF QuietStep
  <2>4. CASE type = "CONNECTACTIVE_IND"
    <3>1. One(type = "CONNECTACTIVE_IND") = 1
      BY <2>4 DEF One
    <3> QED  BY <2>1, <2>2, <3>1
  <2>5. CASE type # "CONNECTACTIVE_IND"
    <3>1. One(type = "CONNECTACTIVE_IND") = 0
      BY <2>5 DEF One
    <3>2. Put(ms, Of("CONNECTB3_REQ")) = 0
      BY <1>4, <2>3, <3>1
    <3> QED  BY <2>1, <2>2, <3>1, <3>2
  <2> QED  BY <2>4, <2>5
<1>9. /\ DisconnectResps(toBrick') > 0 \/ DisconnectInds(capi', toProg') > 0
            => DisconnectResps(toBrick) > 0 \/ DisconnectInds(capi, toProg) > 0
      /\ DisconnectResps(toBrick') \in Nat /\ DisconnectInds(capi', toProg') \in Nat
      /\ DisconnectResps(toBrick) \in Nat /\ DisconnectInds(capi, toProg) \in Nat
  <2>1. /\ DisconnectResps(toBrick') = DisconnectResps(toBrick) + Put(ms, Of("DISCONNECT_RESP"))
        /\ DisconnectInds(capi', toProg') = DisconnectInds(capi, toProg) - One(type = "DISCONNECT_IND")
    BY <1>1, HandledCounts
  <2>2. DisconnectInds(capi', toProg') \in Nat /\ DisconnectInds(capi, toProg) \in Nat
        /\ DisconnectResps(toBrick) \in Nat /\ DisconnectResps(toBrick') \in Nat
    BY <1>2, <1>3, Indications, Requests
  <2>3. Number(ms, Of("DISCONNECT_RESP")) <= One(type = "DISCONNECT_IND")
    BY DEF QuietStep
  <2>4. CASE type = "DISCONNECT_IND"
    <3>1. One(type = "DISCONNECT_IND") = 1
      BY <2>4 DEF One
    <3> QED  BY <2>1, <2>2, <3>1
  <2>5. CASE type # "DISCONNECT_IND"
    <3>1. One(type = "DISCONNECT_IND") = 0
      BY <2>5 DEF One
    <3>2. Put(ms, Of("DISCONNECT_RESP")) = 0
      BY <1>4, <2>3, <3>1
    <3> QED  BY <2>1, <2>2, <3>1, <3>2
  <2> QED  BY <2>4, <2>5
\* The messages to the program.
<1>10. /\ ConnectB3ActiveInds(capi, toProg) = 0 => ConnectB3ActiveInds(capi', toProg') = 0
       /\ DataB3Confs(capi', toProg') = DataB3Confs(capi, toProg)
  <2>1. /\ ConnectB3ActiveInds(capi', toProg')
              = ConnectB3ActiveInds(capi, toProg) - One(type = "CONNECTB3ACTIVE_IND")
        /\ DataB3Confs(capi', toProg') = DataB3Confs(capi, toProg) - One(type = "DATAB3_CONF")
    BY <1>1, HandledCounts
  <2>2. ConnectB3ActiveInds(capi', toProg') \in Nat /\ ConnectB3ActiveInds(capi, toProg) \in Nat
        /\ DataB3Confs(capi, toProg) \in Nat
    BY <1>2, <1>3, Indications
  <2>3. One(type = "CONNECTB3ACTIVE_IND") \in Nat /\ One(type = "DATAB3_CONF") = 0
    BY DEF One, QuietStep
  <2> QED  BY <2>1, <2>2, <2>3
<1>11. /\ Coming(capi', toProg', Nameless) = 0
       /\ Coming(capi', toProg', Refusal) > 0 => Coming(capi, toProg, Refusal) > 0
  <2>1. /\ Coming(capi', toProg', Nameless) = Coming(capi, toProg, Nameless) - One(capi \in Nameless)
        /\ Coming(capi', toProg', Refusal) = Coming(capi, toProg, Refusal) - One(capi \in Refusal)
    BY <1>1, HandledCounts
  <2>2. Coming(capi', toProg', Nameless) \in Nat /\ Coming(capi, toProg, Refusal) \in Nat
    BY <1>2, <1>3, Indications
  <2>3. One(capi \in Nameless) \in Nat /\ One(capi \in Refusal) \in Nat
    BY DEF One
  <2>4. Coming(capi, toProg, Nameless) = 0
    BY <1>1 DEF Said
  <2> QED  BY <2>1, <2>2, <2>3, <2>4
<1>12. Turn \in Nat /\ Turn' \in Nat /\ Turn' <= Turn
  <2>1. Begins(pc') = Begins(pc) /\ Busy(line') = Busy(line) /\ Len(line'.unconf) = Len(line.unconf)
    BY <1>2 DEF Begins, Busy
  <2>2. /\ Number(toBrick', Asking) = Number(toBrick, Asking) + Put(ms, Asking)
        /\ Coming(capi', toProg', Telling) = Coming(capi, toProg, Telling) - One(capi \in Telling)
    BY <1>1, HandledCounts
  <2>3. Number(toBrick, Asking) \in Nat /\ Coming(capi, toProg, Telling) \in Nat
    BY <1>3, Requests, Indications
  <2>4. Put(ms, Asking) <= One(capi \in Telling)
    <3>1. Put(ms, Asking) <= One(type = "CONNECTACTIVE_IND")
      BY <1>4 DEF QuietStep, One
    <3>2. type = "CONNECTACTIVE_IND" => capi \in Telling
      BY <1>2, <1>3, OfType
    <3> QED  BY <1>4, <3>1, <3>2 DEF One
  <2>5. One(capi \in Telling) \in Nat /\ Put(ms, Asking) \in Nat
    BY <1>4 DEF One
  <2>6. Number(toBrick', Asking) + Coming(capi', toProg', Telling)
           <= Number(toBrick, Asking) + Coming(capi, toProg, Telling)
    BY <2>2, <2>3, <2>4, <2>5
  <2>7. line \in Lines /\ line' \in Lines /\ capi' \in Messages /\ toProg' \in Seq(Messages)
        /\ toBrick' \in Seq(Messages)
    BY <1>1, <1>2, <1>3 DEF Typed
  <2>8. Begins(pc') + Busy(line') + Len(line'.unconf) = Begins(pc) + Busy(line) + Len(line.unconf)
    BY <2>1
  <2>9. Number(toBrick', Asking) + Coming(capi', toProg', Telling)
              + (Begins(pc') + Busy(line') + Len(line'.unconf))
           <= Number(toBrick, Asking) + Coming(capi, toProg, Telling)
              + (Begins(pc) + Busy(line) + Len(line.unconf))
    <3>1. Begins(pc) + Busy(line) + Len(line.unconf) \in Nat
      <4>1. Begins(pc) \in Nat /\ Busy(line) \in Nat /\ Len(line.unconf) \in Nat
        BY <1>5 DEF Begins, Busy
      <4> QED  BY <4>1
    <3>2. Number(toBrick', Asking) \in Nat /\ Coming(capi', toProg', Telling) \in Nat
      BY <2>7, Requests, Indications
    <3> QED  BY <2>3, <2>6, <2>8, <3>1, <3>2
  <2> QED  BY <1>3, <2>7, <2>9, TurnPasses DEF Turn
\* The invariant.
<1>13. Typed'
  BY <1>1, <1>2, <1>5 DEF Typed, QuietStep
<1>14. Control'
  BY <1>1, <1>2 DEF Control, QuietStep
<1>15. Said'
  <2>1. Coming(capi, toProg, Refusal) > 0 => Turn = 0 /\ call.NotAcknowledged = 0
    BY <1>1 DEF Said
  <2> QED  BY <1>5, <1>7, <1>11, <1>12, <2>1 DEF Said
<1>16. Phases'
  <2>1. Early' => Early
    BY <1>2, <1>6, <1>8 DEF Early
  <2> QED  BY <1>1, <1>2, <1>5, <1>6, <1>9, <1>10, <2>1 DEF Phases
<1>17. Blocks'
  <2>1. call.NotAcknowledged > 0 => call'.b3
    BY DEF QuietStep
  <2> QED  BY <1>1, <1>2, <1>5, <1>6, <1>10, <2>1 DEF Blocks
<1>18. Turn' <= 1
  BY <1>1, <1>12
<1> QED
  BY <1>13, <1>14, <1>15, <1>16, <1>17, <1>18 DEF IInv
--------------------------------------------------------------------------------
(* The steps of the brick *)

LEMMA OneLess ==
    ASSUME NEW n \in Nat, NEW b  PROVE n - One(b) <= n
BY DEF One

LEMMA SumsLess ==
    ASSUME NEW a \in Nat, NEW b \in Nat, NEW c \in Nat,
           NEW a1 \in Nat, NEW b1 \in Nat, NEW c1 \in Nat, a1 <= a, b1 <= b, c1 <= c
    PROVE  a1 + b1 + c1 <= a + b + c /\ a1 + b1 + c1 \in Nat /\ a + b + c \in Nat
OBVIOUS

\* No request comes, and no block goes.
Fewer ==
    /\ toBrick' \in Seq(Messages)
    /\ ConnectReqs(toBrick') <= ConnectReqs(toBrick)
    /\ ConnectB3Reqs(toBrick') <= ConnectB3Reqs(toBrick)
    /\ DisconnectB3Reqs(toBrick') <= DisconnectB3Reqs(toBrick)
    /\ DisconnectResps(toBrick') <= DisconnectResps(toBrick)
    /\ DataB3Reqs(toBrick') = DataB3Reqs(toBrick)
    /\ Number(toBrick', Stray') = 0
    /\ Number(toBrick', Asking) <= Number(toBrick, Asking)

LEMMA FewerRequests ==
    ASSUME IInv, pos' = pos,
           \/ toBrick' = toBrick
           \/ toBrick # <<>> /\ toBrick' = Tail(toBrick) /\ Head(toBrick).type # "DATAB3_REQ"
    PROVE  Fewer
<1>1. Typed /\ toBrick \in Seq(Messages) /\ Number(toBrick, Stray) = 0
  BY DEF IInv, Typed, Said
<1>2. CASE toBrick' = toBrick
  <2>1. Stray' = Stray
    BY DEF Stray
  <2> QED  BY <1>1, <1>2, <2>1, Requests DEF Fewer
<1>3. CASE toBrick # <<>> /\ toBrick' = Tail(toBrick) /\ Head(toBrick).type # "DATAB3_REQ"
  <2>1. \A b \in BOOLEAN : One(b) \in Nat
    BY DEF One
  <2>2. One(Head(toBrick).type = "DATAB3_REQ") = 0
    BY <1>3 DEF One
  <2>3. /\ Head(toBrick) \in Messages /\ toBrick' \in Seq(Messages)
        /\ DataB3Reqs(toBrick') = DataB3Reqs(toBrick)
        /\ Head(toBrick) \notin Stray
    BY <1>1, <1>3, <2>2, TakenCounts, Requests, OfType
  <2>4. Number(toBrick', Stray') = 0
    <3>1. Number(toBrick', Stray') = Number(toBrick, Stray) - One(Head(toBrick) \in Stray)
      BY <1>1, <1>3, TakenCounts
    <3>2. One(Head(toBrick) \in Stray) = 0
      BY <2>3 DEF One
    <3> QED  BY <1>1, <3>1, <3>2
  <2>5. /\ ConnectReqs(toBrick') <= ConnectReqs(toBrick)
        /\ ConnectB3Reqs(toBrick') <= ConnectB3Reqs(toBrick)
        /\ DisconnectB3Reqs(toBrick') <= DisconnectB3Reqs(toBrick)
        /\ DisconnectResps(toBrick') <= DisconnectResps(toBrick)
        /\ Number(toBrick', Asking) <= Number(toBrick, Asking)
    <3>1. /\ ConnectReqs(toBrick') = ConnectReqs(toBrick) - One(Head(toBrick).type = "CONNECT_REQ")
          /\ ConnectB3Reqs(toBrick') = ConnectB3Reqs(toBrick) - One(Head(toBrick).type = "CONNECTB3_REQ")
          /\ DisconnectB3Reqs(toBrick') = DisconnectB3Reqs(toBrick) - One(Head(toBrick).type = "DISCONNECTB3_REQ")
          /\ DisconnectResps(toBrick') = DisconnectResps(toBrick) - One(Head(toBrick).type = "DISCONNECT_RESP")
          /\ Number(toBrick', Asking) = Number(toBrick, Asking) - One(Head(toBrick) \in Asking)
      BY <1>1, <1>3, TakenCounts
    <3>2. /\ ConnectReqs(toBrick) \in Nat /\ ConnectB3Reqs(toBrick) \in Nat
          /\ DisconnectB3Reqs(toBrick) \in Nat /\ DisconnectResps(toBrick) \in Nat
          /\ Number(toBrick, Asking) \in Nat
      BY <1>1, Requests
    <3> QED  BY <3>1, <3>2, OneLess
  <2> QED  BY <2>3, <2>4, <2>5 DEF Fewer
<1> QED
  BY <1>2, <1>3

\* The brick's call stays as it is, or the fax connection, or all of it, is down.
Down(l, ms) ==
    /\ Moves(l, ms) /\ Fewer
    /\ Number(ms, Telling) = 0 /\ Number(ms, Nameless) = 0 /\ Number(ms, Refusal) = 0
    /\ \/ l = line
       \/ l.st \in {"free", "b3down", "clearing"} /\ l.unconf = <<>> /\ l.got = line.got
    /\ ConnectReqs(toBrick) > 0 => l = line /\ Number(ms, Of("DISCONNECT_IND")) = 0
    /\ l.st = "b3down" => l = line \/ line.st \in {"b3asked", "b3up"}
    /\ Number(ms, Of("DISCONNECT_IND")) > 0 => l.st \in {"free", "clearing"}

LEMMA LineDown ==
    ASSUME IInv, NEW l \in Lines, NEW ms \in Seq(Messages), Down(l, ms)
    PROVE  IInv'
<1>1. /\ Typed /\ Control /\ Turn <= 1 /\ Said /\ Phases /\ Blocks
      /\ Moves(l, ms) /\ Fewer
  BY DEF IInv, Down
<1>2. /\ conn = "up" /\ line' = l /\ pc # "init"
      /\ pc' = pc /\ capi' = capi /\ call' = call /\ conn' = conn
      /\ wait4dataconf' = wait4dataconf /\ size' = size /\ pos' = pos
      /\ toProg' \in Seq(Messages)
  BY <1>1, Moved
<1>3. capi \in Messages /\ toBrick \in Seq(Messages) /\ toProg \in Seq(Messages)
      /\ toBrick' \in Seq(Messages) /\ line \in Lines
  BY <1>1 DEF Typed, Fewer
<1>4. /\ pos \in Nat /\ size \in Nat /\ Len(line.unconf) \in Nat /\ Len(line.got) \in Nat
      /\ call.NotAcknowledged \in Nat
  BY <1>1, NumbersType
<1>5. /\ ConnectActiveInds(capi', toProg') = ConnectActiveInds(capi, toProg)
      /\ ConnectB3ActiveInds(capi', toProg') = ConnectB3ActiveInds(capi, toProg)
      /\ DataB3Confs(capi', toProg') = DataB3Confs(capi, toProg)
      /\ Coming(capi', toProg', Telling) = Coming(capi, toProg, Telling)
      /\ Coming(capi', toProg', Nameless) = 0
      /\ Coming(capi', toProg', Refusal) = Coming(capi, toProg, Refusal)
  <2>1. \A u \in {"CONNECTACTIVE_IND", "CONNECTB3ACTIVE_IND", "DATAB3_CONF"} : Number(ms, Of(u)) = 0
    <3>1. \A u \in {"CONNECTACTIVE_IND", "CONNECTB3ACTIVE_IND", "DATAB3_CONF"} :
             Number(ms, Of(u)) \in Nat /\ Number(ms, Of(u)) <= Number(ms, Telling)
      <4>1. \A u \in {"CONNECTACTIVE_IND", "CONNECTB3ACTIVE_IND", "DATAB3_CONF"} : Of(u) \subseteq Telling
        BY DEF Of, Telling
      <4> QED  BY <4>1, NumberSubset, NumberType
    <3> QED  BY <3>1 DEF Down
  <2>2. Number(ms, Telling) = 0 /\ Number(ms, Nameless) = 0 /\ Number(ms, Refusal) = 0
        /\ Coming(capi, toProg, Nameless) = 0
    BY <1>1 DEF Down, Said
  <2>3. /\ ConnectActiveInds(capi, toProg) \in Nat /\ ConnectB3ActiveInds(capi, toProg) \in Nat
        /\ DataB3Confs(capi, toProg) \in Nat
        /\ Coming(capi, toProg, Telling) \in Nat /\ Coming(capi, toProg, Refusal) \in Nat
    BY <1>3, Indications
  <2> QED  BY <1>1, <2>1, <2>2, <2>3, MovedCounts
<1>6. Busy(line') <= Busy(line) /\ Len(line'.unconf) <= Len(line.unconf) /\ line' \in Lines
  <2>1. CASE l = line
    BY <1>2, <1>3, <1>4, <2>1 DEF Busy
  <2>2. CASE l.st \in {"free", "b3down", "clearing"} /\ l.unconf = <<>>
    BY <1>2, <1>4, <2>2 DEF Busy
  <2> QED  BY <2>1, <2>2 DEF Down
<1>7. Turn \in Nat /\ Turn' \in Nat /\ Turn' <= Turn
  <2>1. Number(toBrick', Asking) + Coming(capi', toProg', Telling)
              + (Begins(pc') + Busy(line') + Len(line'.unconf))
           <= Number(toBrick, Asking) + Coming(capi, toProg, Telling)
              + (Begins(pc) + Busy(line) + Len(line.unconf))
    <3>1. Begins(pc) \in Nat /\ Busy(line) \in Nat /\ Len(line.unconf) \in Nat
          /\ Number(toBrick, Asking) \in Nat /\ Coming(capi, toProg, Telling) \in Nat
      BY <1>3, TurnParts
    <3>2. Begins(pc') = Begins(pc) /\ Busy(line') \in Nat /\ Len(line'.unconf) \in Nat
          /\ Number(toBrick', Asking) \in Nat
      BY <1>2, <1>3, <1>6, TurnParts
    <3>3. Begins(pc') + Busy(line') + Len(line'.unconf) <= Begins(pc) + Busy(line) + Len(line.unconf)
          /\ Begins(pc') + Busy(line') + Len(line'.unconf) \in Nat
          /\ Begins(pc) + Busy(line) + Len(line.unconf) \in Nat
      <4>1. Begins(pc') \in Nat /\ Begins(pc') <= Begins(pc)
        BY <3>1, <3>2
      <4> QED  BY <1>6, <3>1, <3>2, <4>1, SumsLess
    <3>4. Number(toBrick', Asking) <= Number(toBrick, Asking)
      BY <1>1 DEF Fewer
    <3> QED  BY <1>5, <3>1, <3>2, <3>3, <3>4
  <2> QED  BY <1>2, <1>3, <1>6, <2>1, TurnPasses DEF Turn
<1>8. /\ DisconnectInds(capi', toProg') > 0
            => DisconnectInds(capi, toProg) > 0 \/ Number(ms, Of("DISCONNECT_IND")) > 0
      /\ DisconnectInds(capi', toProg') \in Nat /\ DisconnectInds(capi, toProg) \in Nat
  <2>1. DisconnectInds(capi', toProg') = DisconnectInds(capi, toProg) + Number(ms, Of("DISCONNECT_IND"))
    BY <1>1, MovedCounts
  <2>2. DisconnectInds(capi, toProg) \in Nat /\ Number(ms, Of("DISCONNECT_IND")) \in Nat
    BY <1>3, Indications, NumberType
  <2> QED  BY <2>1, <2>2
<1>9. /\ ConnectReqs(toBrick') \in Nat /\ ConnectReqs(toBrick) \in Nat
      /\ ConnectReqs(toBrick') <= ConnectReqs(toBrick)
      /\ ConnectB3Reqs(toBrick') \in Nat /\ ConnectB3Reqs(toBrick) \in Nat
      /\ ConnectB3Reqs(toBrick') <= ConnectB3Reqs(toBrick)
      /\ DisconnectB3Reqs(toBrick') \in Nat /\ DisconnectB3Reqs(toBrick) \in Nat
      /\ DisconnectB3Reqs(toBrick') <= DisconnectB3Reqs(toBrick)
      /\ DisconnectResps(toBrick') \in Nat /\ DisconnectResps(toBrick) \in Nat
      /\ DisconnectResps(toBrick') <= DisconnectResps(toBrick)
      /\ DataB3Reqs(toBrick') = DataB3Reqs(toBrick)
      /\ Number(toBrick', Stray') = 0
  BY <1>1, <1>3, Requests DEF Fewer
\* The invariant.
<1>10. Typed'
  BY <1>1, <1>2, <1>3, <1>6 DEF Typed
<1>11. Control'
  BY <1>1, <1>2 DEF Control
<1>12. Said'
  <2>1. Coming(capi, toProg, Refusal) > 0 => Turn = 0 /\ call.NotAcknowledged = 0
    BY <1>1 DEF Said
  <2> QED  BY <1>2, <1>5, <1>7, <1>9, <2>1 DEF Said
<1>13. Phases'
  <2>1. Early' => Early /\ l.got = line.got
    BY <1>2, <1>5, <1>9 DEF Early, Down
  <2>2. pc' = "init" \/ ConnectReqs(toBrick') > 0 =>
          l = line /\ line.st = "free" /\ line.end = "open" /\ DisconnectResps(toBrick') = 0
          /\ DisconnectInds(capi', toProg') = 0
    <3>1. ASSUME ConnectReqs(toBrick') > 0
          PROVE  l = line /\ line.st = "free" /\ line.end = "open" /\ DisconnectResps(toBrick') = 0
                 /\ DisconnectInds(capi', toProg') = 0
      <4>1. ConnectReqs(toBrick) > 0
        BY <1>9, <3>1
      <4>2. line.st = "free" /\ line.end = "open" /\ DisconnectResps(toBrick) = 0
            /\ DisconnectInds(capi, toProg) = 0
        BY <1>1, <4>1 DEF Phases
      <4>3. l = line
        BY <4>1 DEF Down
      <4>4. DisconnectResps(toBrick') = 0
        BY <1>9, <4>2
      <4>5. DisconnectInds(capi', toProg') = 0
        <5>1. ~(Number(ms, Of("DISCONNECT_IND")) > 0)
          BY <4>1 DEF Down
        <5> QED  BY <1>8, <4>2, <5>1
      <4> QED  BY <4>2, <4>3, <4>4, <4>5
    <3> QED  BY <1>2, <3>1
  <2>3. DisconnectResps(toBrick') > 0 \/ DisconnectInds(capi', toProg') > 0 => l.st \in {"free", "clearing"}
    BY <1>1, <1>8, <1>9 DEF Phases, Down
  <2>4. l.st \in {"dialling", "active", "b3asked", "b3up"} => l.end = "open"
    BY <1>1 DEF Phases, Down
  <2>5. Early => /\ pos = 0 /\ line.got = <<>> /\ call.NotAcknowledged = 0
                 /\ ConnectB3ActiveInds(capi, toProg) = 0 /\ DataB3Confs(capi, toProg) = 0
                 /\ DataB3Reqs(toBrick) = 0 /\ DisconnectB3Reqs(toBrick) = 0
    BY <1>1 DEF Phases
  <2> QED  BY <1>2, <1>5, <1>9, <2>1, <2>2, <2>3, <2>4, <2>5 DEF Phases
<1>14. Blocks'
  <2>1. CASE l = line
    <3>1. line' = line /\ DisconnectB3Reqs(toBrick') > 0 => DisconnectB3Reqs(toBrick) > 0
      BY <1>2, <1>9
    <3>2. /\ line.st # "b3up" => line.unconf = <<>>
          /\ \A n \in DOMAIN line.unconf : line.unconf[n] = pos
          /\ \A n \in DOMAIN line.got : line.got[n] = n
          /\ call.NotAcknowledged > 0 => call.b3
      BY <1>1 DEF Blocks
    <3>3. /\ call.NotAcknowledged >= DataB3Reqs(toBrick) + Len(line.unconf) + DataB3Confs(capi, toProg)
          /\ conn = "up" /\ line.st = "b3up" =>
                /\ call.NotAcknowledged = DataB3Reqs(toBrick) + Len(line.unconf) + DataB3Confs(capi, toProg)
                /\ pos = Len(line.got) + Len(line.unconf) + DataB3Reqs(toBrick)
                /\ DisconnectB3Reqs(toBrick) > 0 => pos = size
      BY <1>1 DEF Blocks
    <3>4. /\ line'.st # "b3up" => line'.unconf = <<>>
          /\ \A n \in DOMAIN line'.unconf : line'.unconf[n] = pos'
          /\ \A n \in DOMAIN line'.got : line'.got[n] = n
          /\ call'.NotAcknowledged > 0 => call'.b3
      BY <1>2, <2>1, <3>2
    <3>5. /\ call'.NotAcknowledged >= DataB3Reqs(toBrick') + Len(line'.unconf) + DataB3Confs(capi', toProg')
          /\ conn' = "up" /\ line'.st = "b3up" =>
                /\ call'.NotAcknowledged = DataB3Reqs(toBrick') + Len(line'.unconf) + DataB3Confs(capi', toProg')
                /\ pos' = Len(line'.got) + Len(line'.unconf) + DataB3Reqs(toBrick')
                /\ DisconnectB3Reqs(toBrick') > 0 => pos' = size'
      BY <1>2, <1>5, <1>9, <2>1, <3>1, <3>3
    <3> QED  BY <3>4, <3>5 DEF Blocks
  <2>2. CASE l.st \in {"free", "b3down", "clearing"} /\ l.unconf = <<>> /\ l.got = line.got
    <3>1. Len(l.unconf) = 0 /\ DOMAIN l.unconf = {}
      BY <2>2
    <3>2. DataB3Reqs(toBrick) \in Nat /\ DataB3Confs(capi, toProg) \in Nat
      BY <1>3, Requests, Indications
    <3>3. call.NotAcknowledged >= DataB3Reqs(toBrick) + Len(line.unconf) + DataB3Confs(capi, toProg)
      BY <1>1 DEF Blocks
    <3>4. call.NotAcknowledged >= DataB3Reqs(toBrick') + Len(l.unconf) + DataB3Confs(capi', toProg')
      <4> DEFINE n == call.NotAcknowledged
                 a == DataB3Reqs(toBrick)
                 b == Len(line.unconf)
                 c == DataB3Confs(capi, toProg)
                 d == DataB3Reqs(toBrick')
                 e == DataB3Confs(capi', toProg')
      <4> HIDE DEF n, a, b, c, d, e
      <4>1. n \in Nat /\ a \in Nat /\ b \in Nat /\ c \in Nat /\ n >= a + b + c /\ e = c
            /\ d <= a /\ d \in Nat
        BY <1>4, <1>5, <1>9, <3>2, <3>3 DEF n, a, b, c, d, e
      <4>2. n >= d + 0 + e
        BY ONLY <4>1
      <4> QED  BY <3>1, <4>2 DEF n, d, e
    <3> QED  BY <1>1, <1>2, <2>2, <3>1, <3>4 DEF Blocks
  <2> QED  BY <2>1, <2>2 DEF Down
<1>15. Turn' <= 1
  BY <1>1, <1>7
<1> QED
  BY <1>10, <1>11, <1>12, <1>13, <1>14, <1>15 DEF IInv

\* The messages that are made here.
LEMMA Made ==
    ASSUME NEW t \in Types, NEW i \in Nat
    PROVE  /\ D(t, i) \in Messages /\ D(t, i).type = t /\ ~D(t, i).b3 /\ D(t, i).info = i
           /\ B(t, i) \in Messages /\ B(t, i).type = t /\ B(t, i).b3 /\ B(t, i).info = i
<1>1. TRUE \in BOOLEAN /\ FALSE \in BOOLEAN
  OBVIOUS
<1>2. D(t, i) \in Messages
  BY <1>1, MessageFacts, Zenon DEF D
<1>3. B(t, i) \in Messages
  BY <1>1, MessageFacts, Zenon DEF B
<1> QED  BY <1>2, <1>3 DEF D, B, Msg

LEMMA Refused ==
    ASSUME NEW m \in Messages, NEW t \in Types
    PROVE  LET r == [m EXCEPT !.type = t, !.info = 1]
           IN  r \in Messages /\ r.type = t /\ r.b3 = m.b3
BY DEF Messages

\* Answers on which no step of the fax depends.
Plain == {"INFO_IND", "LISTEN_CONF", "CONNECT_CONF", "DISCONNECTB3_IND", "DISCONNECTB3_CONF",
          "DISCONNECT_CONF", "DISCONNECT_IND"}

PlainOnes(ms) == /\ ms \in Seq(Messages)
                 /\ Number(ms, Telling) = 0 /\ Number(ms, Nameless) = 0 /\ Number(ms, Refusal) = 0

LEMMA PlainMessages ==
    /\ PlainOnes(<<>>) /\ Number(<<>>, Of("DISCONNECT_IND")) = 0
    /\ \A a \in Messages : a.type \in Plain =>
          /\ PlainOnes(<<a>>)
          /\ a.type # "DISCONNECT_IND" => Number(<<a>>, Of("DISCONNECT_IND")) = 0
    /\ \A a, b \in Messages : a.type \in Plain /\ b.type \in Plain =>
          /\ PlainOnes(<<a, b>>)
          /\ a.type # "DISCONNECT_IND" /\ b.type # "DISCONNECT_IND"
                => Number(<<a, b>>, Of("DISCONNECT_IND")) = 0
<1>1. ASSUME NEW a \in Messages, a.type \in Plain
      PROVE  /\ One(a \in Telling) = 0 /\ One(a \in Nameless) = 0 /\ One(a \in Refusal) = 0
             /\ a.type # "DISCONNECT_IND" => One(a \in Of("DISCONNECT_IND")) = 0
  BY <1>1, OfType DEF One, Plain
<1>2. PlainOnes(<<>>) /\ Number(<<>>, Of("DISCONNECT_IND")) = 0
  <2>1. \A T : Number(<<>>, T) = 0
    BY NumberOne, Zenon
  <2>2. <<>> \in Seq(Messages)
    OBVIOUS
  <2> QED  BY <2>1, <2>2 DEF PlainOnes
<1>3. ASSUME NEW a \in Messages, a.type \in Plain
      PROVE  /\ PlainOnes(<<a>>)
             /\ a.type # "DISCONNECT_IND" => Number(<<a>>, Of("DISCONNECT_IND")) = 0
  <2>1. <<a>> \in Seq(Messages) /\ \A T : Number(<<a>>, T) = One(a \in T)
    BY NumberOne
  <2> QED  BY <1>1, <1>3, <2>1 DEF PlainOnes
<1>4. ASSUME NEW a \in Messages, NEW b \in Messages, a.type \in Plain, b.type \in Plain
      PROVE  /\ PlainOnes(<<a, b>>)
             /\ a.type # "DISCONNECT_IND" /\ b.type # "DISCONNECT_IND"
                   => Number(<<a, b>>, Of("DISCONNECT_IND")) = 0
  <2>1. <<a, b>> \in Seq(Messages) /\ \A T : Number(<<a, b>>, T) = One(a \in T) + One(b \in T)
    BY NumberPair
  <2> QED  BY <1>1, <1>4, <2>1 DEF PlainOnes
<1> QED  BY <1>2, <1>3, <1>4, Zenon

\* The call's new state.
LEMMA LineTypes ==
    ASSUME Typed
    PROVE  /\ line \in Lines
           /\ \A st \in {"free", "dialling", "active", "b3asked", "b3up", "b3down", "clearing"} :
                 /\ At(st) \in Lines /\ At(st).st = st /\ At(st).end = line.end
                 /\ At(st).unconf = line.unconf /\ At(st).got = line.got
                 /\ Lost(st) \in Lines /\ Lost(st).st = st /\ Lost(st).unconf = <<>>
                 /\ Lost(st).got = line.got
<1>1. line \in Lines
  BY DEF Typed
<1>2. ASSUME NEW st \in {"free", "dialling", "active", "b3asked", "b3up", "b3down", "clearing"}
      PROVE  /\ At(st) \in Lines /\ At(st).st = st /\ At(st).end = line.end
             /\ At(st).unconf = line.unconf /\ At(st).got = line.got
  BY <1>1 DEF At, Lines
<1>3. ASSUME NEW st \in {"free", "dialling", "active", "b3asked", "b3up", "b3down", "clearing"}
      PROVE  /\ Lost(st) \in Lines /\ Lost(st).st = st /\ Lost(st).unconf = <<>>
             /\ Lost(st).got = line.got
  <2>1. <<>> \in Seq(Nat) /\ "aborted" \in {"open", "complete", "aborted"}
    OBVIOUS
  <2> QED  BY <1>1, <2>1 DEF Lost, Lines
<1> QED  BY <1>1, <1>2, <1>3

\* The call fails, or the called side ends it.
LEMMA LineLost ==
    ASSUME IInv, NEW st, NEW m \in Messages, toBrick' = toBrick, Moves(Lost(st), <<m>>),
           \/ /\ st = "clearing" /\ m.type = "DISCONNECT_IND"
              /\ line.st \in {"dialling", "active", "b3down"}
           \/ /\ st = "b3down" /\ m.type = "DISCONNECTB3_IND"
              /\ line.st \in {"b3asked", "b3up"}
    PROVE  IInv'
<1>1. Typed /\ Phases /\ pos' = pos
  BY DEF IInv, Moves, file
<1>2. Lost(st) \in Lines /\ Lost(st).st = st /\ Lost(st).unconf = <<>> /\ Lost(st).got = line.got
  BY <1>1, LineTypes
<1>3. PlainOnes(<<m>>) /\ (m.type # "DISCONNECT_IND" => Number(<<m>>, Of("DISCONNECT_IND")) = 0)
  BY PlainMessages DEF Plain
<1>4. Fewer
  BY <1>1, FewerRequests
<1>5. ~(ConnectReqs(toBrick) > 0)
  BY <1>1 DEF Phases
<1>6. Down(Lost(st), <<m>>)
  BY <1>2, <1>3, <1>4, <1>5 DEF Down, PlainOnes
<1> QED  BY <1>2, <1>3, <1>6, LineDown DEF PlainOnes

\* The message the brick takes is one of those under way.
LEMMA HeadCounts ==
    ASSUME NEW q \in Seq(Messages), q # <<>>
    PROVE  /\ Head(q) \in Messages
           /\ Head(q).type = "CONNECT_REQ" => ConnectReqs(q) > 0
           /\ Head(q).type = "CONNECTB3_REQ" => ConnectB3Reqs(q) > 0
           /\ Head(q).type = "DATAB3_REQ" => DataB3Reqs(q) > 0
           /\ Head(q).type = "DISCONNECTB3_REQ" => DisconnectB3Reqs(q) > 0
           /\ Head(q).type = "DISCONNECT_RESP" => DisconnectResps(q) > 0
           /\ \A T : Head(q) \in T => Number(q, T) > 0
<1>1. Head(q) \in Messages /\ Tail(q) \in Seq(Messages)
  OBVIOUS
<1>2. ASSUME NEW T, Head(q) \in T  PROVE Number(q, T) > 0
  <2>1. Number(q, T) = One(Head(q) \in T) + Number(Tail(q), T)
    BY NumberTail
  <2>2. Number(Tail(q), T) \in Nat
    BY <1>1, NumberType
  <2> QED  BY <1>2, <2>1, <2>2 DEF One
<1>3. \A u : Head(q).type = u => Number(q, Of(u)) > 0
  BY <1>1, <1>2, OfType
<1> QED
  BY <1>1, <1>2, <1>3 DEF ConnectReqs, ConnectB3Reqs, DataB3Reqs, DisconnectB3Reqs,
     DisconnectResps

\* A message that is not taken for a block, and asks for nothing that is given.
LEMMA TakesDown ==
    ASSUME IInv, toBrick # <<>>, toBrick' = Tail(toBrick),
           NEW l \in Lines, NEW ms, Moves(l, ms), PlainOnes(ms), Head(toBrick).type # "DATAB3_REQ",
           \/ l = line /\ Number(ms, Of("DISCONNECT_IND")) = 0
           \/ /\ l.st = "b3down" /\ l.unconf = <<>> /\ l.got = line.got
              /\ line.st = "b3up" /\ Number(ms, Of("DISCONNECT_IND")) = 0
           \/ /\ l.st = "clearing" /\ l.unconf = <<>> /\ l.got = line.got
              /\ line.st \notin {"free", "clearing"}
           \/ /\ l.st = "free" /\ l.unconf = line.unconf /\ l.got = line.got
              /\ Head(toBrick).type = "DISCONNECT_RESP"
    PROVE  IInv'
<1>1. Typed /\ Phases /\ Blocks /\ pos' = pos /\ toBrick \in Seq(Messages)
  BY DEF IInv, Moves, file, Typed
<1>2. Fewer
  BY <1>1, FewerRequests
<1>3. ConnectReqs(toBrick) > 0 => line.st = "free" /\ DisconnectResps(toBrick) = 0
  BY <1>1 DEF Phases
<1>4. Head(toBrick).type = "DISCONNECT_RESP" => DisconnectResps(toBrick) > 0
  BY <1>1, HeadCounts
<1>5. DisconnectResps(toBrick) > 0 => line.st \in {"free", "clearing"}
  BY <1>1 DEF Phases
<1>6. line.st # "b3up" => line.unconf = <<>>
  BY <1>1 DEF Blocks
<1>7. Down(l, ms)
  <2>1. CASE l = line /\ Number(ms, Of("DISCONNECT_IND")) = 0
    BY <1>2, <2>1 DEF Down, PlainOnes
  <2>2. CASE /\ l.st = "b3down" /\ l.unconf = <<>> /\ l.got = line.got
             /\ line.st = "b3up" /\ Number(ms, Of("DISCONNECT_IND")) = 0
    BY <1>2, <1>3, <2>2 DEF Down, PlainOnes
  <2>3. CASE /\ l.st = "clearing" /\ l.unconf = <<>> /\ l.got = line.got
             /\ line.st \notin {"free", "clearing"}
    BY <1>2, <1>3, <2>3 DEF Down, PlainOnes
  <2>4. CASE /\ l.st = "free" /\ l.unconf = line.unconf /\ l.got = line.got
             /\ Head(toBrick).type = "DISCONNECT_RESP"
    <3>1. DisconnectResps(toBrick) > 0
      BY <1>4, <2>4
    <3>2. line.unconf = <<>> /\ ~(ConnectReqs(toBrick) > 0)
      BY <1>3, <1>5, <1>6, <3>1
    <3> QED  BY <1>2, <2>4, <3>2 DEF Down, PlainOnes
  <2> QED  BY <2>1, <2>2, <2>3, <2>4
<1> QED  BY <1>7, LineDown DEF PlainOnes

\* What the step makes of the messages and blocks the next step depends on, when the
\* one message ms is put behind the others and the brick has taken one.
LEMMA TakenMoved ==
    ASSUME IInv, toBrick # <<>>, toBrick' = Tail(toBrick), Head(toBrick) \in Asking,
           NEW l \in Lines, NEW ms \in Seq(Messages), Moves(l, ms)
    PROVE  /\ Number(toBrick', Asking) = 0 /\ Number(toBrick, Asking) = 1
           /\ Coming(capi, toProg, Telling) = 0 /\ Begins(pc) = 0 /\ Busy(line) = 0 /\ line.unconf = <<>>
           /\ Coming(capi', toProg', Telling) = Number(ms, Telling)
           /\ Turn' = Number(ms, Telling) + Busy(l) + Len(l.unconf)
           /\ Turn = 1
<1>1. /\ Typed /\ Control /\ Turn <= 1 /\ pos' = pos
      /\ capi \in Messages /\ toBrick \in Seq(Messages) /\ toProg \in Seq(Messages) /\ line \in Lines
  BY DEF IInv, Typed, Moves, file
<1>2. /\ line' = l /\ pc # "init" /\ pc' = pc /\ capi' \in Messages /\ toProg' \in Seq(Messages)
      /\ toBrick' \in Seq(Messages)
  BY <1>1, Moved
<1>3. /\ Begins(pc) \in Nat /\ Number(toBrick, Asking) \in Nat /\ Coming(capi, toProg, Telling) \in Nat
      /\ Busy(line) \in Nat /\ Len(line.unconf) \in Nat
      /\ Turn = Number(toBrick, Asking) + Coming(capi, toProg, Telling)
                + (Begins(pc) + Busy(line) + Len(line.unconf))
  BY <1>1, TurnParts DEF Turn
<1>4. Number(toBrick, Asking) > 0
  BY <1>1, HeadCounts
<1>5. /\ Number(toBrick, Asking) = 1 /\ Coming(capi, toProg, Telling) = 0
      /\ Begins(pc) = 0 /\ Busy(line) = 0 /\ Len(line.unconf) = 0 /\ Turn = 1
  <2>1. Begins(pc) + Busy(line) + Len(line.unconf) \in Nat
    BY <1>3
  <2>2. Number(toBrick, Asking) = 1 /\ Coming(capi, toProg, Telling) = 0
        /\ Begins(pc) + Busy(line) + Len(line.unconf) = 0
    BY <1>1, <1>3, <1>4, <2>1
  <2> QED  BY <1>1, <1>3, <2>2
<1>6. line.unconf = <<>>
  BY <1>1, <1>5 DEF Lines
<1>7. Number(toBrick', Asking) = 0
  <2>1. Number(toBrick', Asking) = Number(toBrick, Asking) - One(Head(toBrick) \in Asking)
    BY <1>1, TakenCounts
  <2> QED  BY <1>5, <2>1 DEF One
<1>8. Coming(capi', toProg', Telling) = Number(ms, Telling) /\ Number(ms, Telling) \in Nat
  <2>1. Coming(capi', toProg', Telling) = Coming(capi, toProg, Telling) + Number(ms, Telling)
    BY <1>1, MovedCounts
  <2>2. Number(ms, Telling) \in Nat
    BY NumberType
  <2> QED  BY <1>5, <2>1, <2>2
<1>9. Turn' = Number(ms, Telling) + Busy(l) + Len(l.unconf)
  <2>1. Turn' = Number(toBrick', Asking) + Coming(capi', toProg', Telling)
                  + (Begins(pc') + Busy(line') + Len(line'.unconf))
    BY <1>2, TurnParts, ZenonT(30) DEF Turn
  <2>2. Begins(pc') = 0 /\ Busy(l) \in Nat /\ Len(l.unconf) \in Nat
    BY <1>2, TurnParts DEF Begins
  <2> QED  BY <1>2, <1>7, <1>8, <2>1, <2>2
<1> QED  BY <1>5, <1>6, <1>7, <1>8, <1>9

LEMMA NoRequests ==
    ASSUME NEW q \in Seq(Messages), Number(q, Asking) = 0
    PROVE  ConnectReqs(q) = 0 /\ ConnectB3Reqs(q) = 0 /\ DataB3Reqs(q) = 0 /\ DisconnectB3Reqs(q) = 0
BY Requests

LEMMA NoIndications ==
    ASSUME NEW m \in Messages, NEW q \in Seq(Messages), Coming(m, q, Telling) = 0
    PROVE  /\ ConnectActiveInds(m, q) = 0 /\ ConnectB3ActiveInds(m, q) = 0
           /\ DataB3Confs(m, q) = 0 /\ DisconnectInds(m, q) \in Nat
BY Indications

\* The other messages and the rest of the variables, behind such a step.
Asked(l, ms) ==
    /\ Typed' /\ Control' /\ line' = l /\ pc' # "init" /\ conn = "up"
    /\ call' = call /\ pos' = pos /\ size' = size
    /\ ConnectReqs(toBrick') = 0 /\ ConnectB3Reqs(toBrick') = 0
    /\ DataB3Reqs(toBrick') = 0 /\ DisconnectB3Reqs(toBrick') = 0
    /\ DisconnectResps(toBrick') = DisconnectResps(toBrick)
    /\ Number(toBrick', Stray') = 0
    /\ DataB3Reqs(toBrick) <= 1 /\ DataB3Reqs(toBrick) \in Nat
    /\ DataB3Confs(capi, toProg) = 0
    /\ ConnectActiveInds(capi', toProg') = Number(ms, Of("CONNECTACTIVE_IND"))
    /\ ConnectB3ActiveInds(capi', toProg') = Number(ms, Of("CONNECTB3ACTIVE_IND"))
    /\ DataB3Confs(capi', toProg') = Number(ms, Of("DATAB3_CONF"))
    /\ DisconnectInds(capi', toProg') = DisconnectInds(capi, toProg) + Number(ms, Of("DISCONNECT_IND"))
    /\ DisconnectInds(capi, toProg) \in Nat /\ DisconnectResps(toBrick) \in Nat
    /\ Coming(capi', toProg', Nameless) = Number(ms, Nameless)
    /\ Coming(capi', toProg', Refusal) = Number(ms, Refusal)

LEMMA TurnMoves ==
    ASSUME IInv, NEW l \in Lines, NEW ms \in Seq(Messages), Moves(l, ms),
           toBrick' \in Seq(Messages), Number(toBrick', Asking) = 0,
           Coming(capi, toProg, Telling) = 0, Turn = 1,
           DataB3Reqs(toBrick) <= 1, DisconnectResps(toBrick') = DisconnectResps(toBrick)
    PROVE  Asked(l, ms)
<1>1. /\ Typed /\ Control /\ Said /\ pos' = pos /\ call' = call
      /\ capi \in Messages /\ toBrick \in Seq(Messages) /\ toProg \in Seq(Messages)
  BY DEF IInv, Typed, Moves, file
<1>2. /\ line' = l /\ pc # "init" /\ pc' = pc /\ capi' = capi /\ call' = call /\ conn' = conn
      /\ conn = "up" /\ wait4dataconf' = wait4dataconf /\ size' = size /\ pos' = pos
      /\ toProg' \in Seq(Messages)
  BY <1>1, Moved
<1>3. Coming(capi, toProg, Telling) = 0 /\ Turn = 1
  OBVIOUS
<1>4. /\ ConnectReqs(toBrick') = 0 /\ ConnectB3Reqs(toBrick') = 0
      /\ DataB3Reqs(toBrick') = 0 /\ DisconnectB3Reqs(toBrick') = 0
      /\ DataB3Reqs(toBrick) <= 1 /\ DataB3Reqs(toBrick) \in Nat /\ DisconnectResps(toBrick) \in Nat
  <2>1. /\ ConnectReqs(toBrick') = 0 /\ ConnectB3Reqs(toBrick') = 0
        /\ DataB3Reqs(toBrick') = 0 /\ DisconnectB3Reqs(toBrick') = 0
    BY NoRequests
  <2>2. DataB3Reqs(toBrick) <= 1 /\ DataB3Reqs(toBrick) \in Nat /\ DisconnectResps(toBrick) \in Nat
    BY <1>1, Requests
  <2> QED  BY <2>1, <2>2
<1>5. Number(toBrick', Stray') = 0
  <2>1. Stray' = Stray
    BY <1>1 DEF Stray
  <2>2. Number(toBrick', Stray) <= DataB3Reqs(toBrick') /\ Number(toBrick', Stray) \in Nat
    BY Requests
  <2> QED  BY <1>4, <2>1, <2>2
<1>6. /\ ConnectActiveInds(capi, toProg) = 0 /\ ConnectB3ActiveInds(capi, toProg) = 0
      /\ DataB3Confs(capi, toProg) = 0 /\ DisconnectInds(capi, toProg) \in Nat
  BY <1>1, <1>3, NoIndications
<1>7. /\ ConnectActiveInds(capi', toProg') = Number(ms, Of("CONNECTACTIVE_IND"))
      /\ ConnectB3ActiveInds(capi', toProg') = Number(ms, Of("CONNECTB3ACTIVE_IND"))
      /\ DataB3Confs(capi', toProg') = Number(ms, Of("DATAB3_CONF"))
      /\ DisconnectInds(capi', toProg') = DisconnectInds(capi, toProg) + Number(ms, Of("DISCONNECT_IND"))
  <2>1. /\ ConnectActiveInds(capi', toProg') = ConnectActiveInds(capi, toProg) + Number(ms, Of("CONNECTACTIVE_IND"))
        /\ ConnectB3ActiveInds(capi', toProg') = ConnectB3ActiveInds(capi, toProg) + Number(ms, Of("CONNECTB3ACTIVE_IND"))
        /\ DataB3Confs(capi', toProg') = DataB3Confs(capi, toProg) + Number(ms, Of("DATAB3_CONF"))
        /\ DisconnectInds(capi', toProg') = DisconnectInds(capi, toProg) + Number(ms, Of("DISCONNECT_IND"))
    BY <1>1, MovedCounts
  <2>2. \A T : Number(ms, T) \in Nat
    BY NumberType
  <2> QED  BY <1>6, <2>1, <2>2
<1>8. Coming(capi', toProg', Nameless) = Number(ms, Nameless)
       /\ Coming(capi', toProg', Refusal) = Number(ms, Refusal)
  <2>1. /\ Coming(capi', toProg', Nameless) = Coming(capi, toProg, Nameless) + Number(ms, Nameless)
        /\ Coming(capi', toProg', Refusal) = Coming(capi, toProg, Refusal) + Number(ms, Refusal)
    BY <1>1, MovedCounts
  <2>2. Number(ms, Nameless) \in Nat /\ Number(ms, Refusal) \in Nat /\ Coming(capi, toProg, Refusal) \in Nat
    BY <1>1, NumberType, Indications
  <2>3. Coming(capi, toProg, Nameless) = 0 /\ (Coming(capi, toProg, Refusal) > 0 => Turn = 0)
    BY <1>1 DEF Said
  <2>4. Coming(capi, toProg, Refusal) = 0
    BY <1>3, <2>2, <2>3
  <2> QED  BY <2>1, <2>2, <2>3, <2>4
<1>9. Typed'
  BY <1>1, <1>2 DEF Typed
<1>10. Control'
  BY <1>1, <1>2 DEF Control
<1> QED
  BY <1>2, <1>4, <1>5, <1>6, <1>7, <1>8, <1>9, <1>10 DEF Asked

LEMMA AskedAfter ==
    ASSUME IInv, toBrick # <<>>, toBrick' = Tail(toBrick), Head(toBrick) \in Asking,
           NEW l \in Lines, NEW ms \in Seq(Messages), Moves(l, ms)
    PROVE  Asked(l, ms)
<1>1. Typed /\ toBrick \in Seq(Messages) /\ pos' = pos
  BY DEF IInv, Typed, Moves, file
<1>2. toBrick' \in Seq(Messages) /\ Head(toBrick) \in Messages
  BY <1>1, HeadCounts
<1>3. /\ Number(toBrick', Asking) = 0 /\ Number(toBrick, Asking) = 1
      /\ Coming(capi, toProg, Telling) = 0 /\ Turn = 1
  BY TakenMoved
<1>4. DataB3Reqs(toBrick) <= 1
  BY <1>1, <1>3, Requests
<1>5. DisconnectResps(toBrick') = DisconnectResps(toBrick)
  <2>1. DisconnectResps(toBrick') = DisconnectResps(toBrick) - One(Head(toBrick).type = "DISCONNECT_RESP")
    BY <1>1, TakenCounts
  <2>2. One(Head(toBrick).type = "DISCONNECT_RESP") = 0
    BY <1>2, OfType DEF One
  <2>3. DisconnectResps(toBrick) \in Nat
    BY <1>1, Requests
  <2> QED  BY <2>1, <2>2, <2>3
<1> QED
  BY <1>2, <1>3, <1>4, <1>5, TurnMoves

\* The turn is the brick's, which dials, trains, or has a block.
LEMMA LineMoved ==
    ASSUME IInv, toBrick' = toBrick, Busy(line) = 1 \/ line.unconf # <<>>,
           NEW l \in Lines, NEW ms \in Seq(Messages), Moves(l, ms)
    PROVE  /\ Asked(l, ms)
           /\ Turn' = Number(ms, Telling) + Busy(l) + Len(l.unconf)
           /\ Busy(line) + Len(line.unconf) = 1
           /\ ConnectReqs(toBrick) = 0 /\ DataB3Reqs(toBrick) = 0
<1>1. /\ Typed /\ Control /\ Turn <= 1 /\ pos' = pos
      /\ capi \in Messages /\ toBrick \in Seq(Messages) /\ toProg \in Seq(Messages) /\ line \in Lines
  BY DEF IInv, Typed, Moves, file
<1>2. /\ line' = l /\ pc # "init" /\ pc' = pc /\ capi' \in Messages /\ toProg' \in Seq(Messages)
      /\ toBrick' \in Seq(Messages)
  BY <1>1, Moved
<1>3. /\ Begins(pc) \in Nat /\ Number(toBrick, Asking) \in Nat /\ Coming(capi, toProg, Telling) \in Nat
      /\ Busy(line) \in Nat /\ Len(line.unconf) \in Nat
      /\ Turn = Number(toBrick, Asking) + Coming(capi, toProg, Telling)
                + (Begins(pc) + Busy(line) + Len(line.unconf))
  BY <1>1, TurnParts DEF Turn
<1>4. Busy(line) + Len(line.unconf) >= 1
  <2>1. line.unconf # <<>> => Len(line.unconf) >= 1
    BY <1>1 DEF Lines
  <2> QED  BY <1>3, <2>1
<1>5. /\ Number(toBrick, Asking) = 0 /\ Coming(capi, toProg, Telling) = 0
      /\ Begins(pc) = 0 /\ Busy(line) + Len(line.unconf) = 1 /\ Turn = 1
  <2>1. Begins(pc) + Busy(line) + Len(line.unconf) \in Nat
        /\ Begins(pc) + Busy(line) + Len(line.unconf) >= 1
    BY <1>3, <1>4, SMTT(30)
  <2>2. /\ Number(toBrick, Asking) = 0 /\ Coming(capi, toProg, Telling) = 0
        /\ Begins(pc) + Busy(line) + Len(line.unconf) = 1
    BY <1>1, <1>3, <2>1
  <2> QED  BY <1>3, <1>4, <2>2
<1>6. ConnectReqs(toBrick) = 0 /\ DataB3Reqs(toBrick) = 0
  BY <1>1, <1>5, NoRequests
<1>7. Number(toBrick', Asking) = 0 /\ DisconnectResps(toBrick') = DisconnectResps(toBrick)
  BY <1>5
<1>8. Asked(l, ms)
  BY <1>1, <1>2, <1>5, <1>6, <1>7, TurnMoves
<1>9. Coming(capi', toProg', Telling) = Number(ms, Telling) /\ Number(ms, Telling) \in Nat
  <2>1. Coming(capi', toProg', Telling) = Coming(capi, toProg, Telling) + Number(ms, Telling)
    BY <1>1, MovedCounts
  <2>2. Number(ms, Telling) \in Nat
    BY NumberType
  <2> QED  BY <1>5, <2>1, <2>2
<1>10. Turn' = Number(ms, Telling) + Busy(l) + Len(l.unconf)
  <2>1. Turn' = Number(toBrick', Asking) + Coming(capi', toProg', Telling)
                  + (Begins(pc') + Busy(line') + Len(line'.unconf))
    BY <1>2, TurnParts, SMTT(30) DEF Turn
  <2>2. Begins(pc') = 0 /\ Busy(l) \in Nat /\ Len(l.unconf) \in Nat
    BY <1>2, TurnParts DEF Begins
  <2> QED  BY <1>2, <1>7, <1>9, <2>1, <2>2
<1> QED  BY <1>5, <1>6, <1>8, <1>10

\* A message of one type.
LEMMA OneOnly ==
    ASSUME NEW m \in Messages
    PROVE  /\ <<m>> \in Seq(Messages)
           /\ \A u : Number(<<m>>, Of(u)) = One(m.type = u)
           /\ Number(<<m>>, Telling) = One(m \in Telling)
           /\ Number(<<m>>, Nameless) = One(m \in Nameless)
           /\ Number(<<m>>, Refusal) = One(m \in Refusal)
           /\ Number(<<>>, Telling) = 0 /\ Number(<<>>, Nameless) = 0 /\ Number(<<>>, Refusal) = 0
           /\ \A u : Number(<<>>, Of(u)) = 0
<1>1. \A T : Number(<<m>>, T) = One(m \in T) /\ Number(<<>>, T) = 0
  BY NumberOne
<1>2. \A u : One(m \in Of(u)) = One(m.type = u)
  BY OfType DEF One
<1> QED  BY <1>1, <1>2

\* The call is dialled.
LEMMA ConnectTaken ==
    ASSUME IInv, toBrick # <<>>, toBrick' = Tail(toBrick), Head(toBrick).type = "CONNECT_REQ",
           Moves(At("dialling"), <<D("CONNECT_CONF", 0)>>)
    PROVE  IInv'
<1> DEFINE a == D("CONNECT_CONF", 0)
           l == At("dialling")
<1>1. Typed /\ Phases /\ Blocks /\ toBrick \in Seq(Messages)
  BY DEF IInv, Typed
<1>2. a \in Messages /\ a.type = "CONNECT_CONF" /\ Head(toBrick) \in Asking
      /\ ConnectReqs(toBrick) > 0
  BY <1>1, Made, HeadCounts, OfType DEF Types
<1>3. l \in Lines /\ l.st = "dialling" /\ l.end = line.end /\ l.unconf = line.unconf /\ l.got = line.got
  BY <1>1, LineTypes
<1>4. /\ <<a>> \in Seq(Messages)
      /\ Number(<<a>>, Of("CONNECTACTIVE_IND")) = 0 /\ Number(<<a>>, Of("CONNECTB3ACTIVE_IND")) = 0
      /\ Number(<<a>>, Of("DATAB3_CONF")) = 0 /\ Number(<<a>>, Of("DISCONNECT_IND")) = 0
      /\ Number(<<a>>, Telling) = 0 /\ Number(<<a>>, Nameless) = 0 /\ Number(<<a>>, Refusal) = 0
  BY <1>2, OneOnly, OfType DEF One
<1> HIDE DEF a, l
<1>5. Moves(l, <<a>>)
  BY DEF a, l
<1>6. /\ Turn' = Number(<<a>>, Telling) + Busy(l) + Len(l.unconf) /\ line.unconf = <<>>
  BY <1>2, <1>3, <1>4, <1>5, TakenMoved
<1>7. Turn' = 1
  BY <1>3, <1>4, <1>6 DEF Busy
<1>8. /\ line.st = "free" /\ line.end = "open" /\ DisconnectResps(toBrick) = 0
      /\ DisconnectInds(capi, toProg) = 0 /\ Early
      /\ pos = 0 /\ line.got = <<>> /\ call.NotAcknowledged = 0
  BY <1>1, <1>2 DEF Phases, Early
<1>9. /\ Typed' /\ Control' /\ line' = l /\ pc' # "init" /\ conn = "up"
      /\ call' = call /\ pos' = pos /\ size' = size
      /\ ConnectReqs(toBrick') = 0 /\ ConnectB3Reqs(toBrick') = 0
      /\ DataB3Reqs(toBrick') = 0 /\ DisconnectB3Reqs(toBrick') = 0
      /\ DisconnectResps(toBrick') = 0
      /\ Number(toBrick', Stray') = 0
      /\ ConnectB3ActiveInds(capi', toProg') = 0
      /\ DataB3Confs(capi', toProg') = 0
      /\ DisconnectInds(capi', toProg') = 0
      /\ Coming(capi', toProg', Nameless) = 0 /\ Coming(capi', toProg', Refusal) = 0
  <2>1. Asked(l, <<a>>)
    BY <1>2, <1>3, <1>4, <1>5, AskedAfter
  <2> QED  BY <1>4, <1>8, <2>1 DEF Asked
<1>10. Said'
  BY <1>9 DEF Said
<1>11. Phases'
  BY <1>3, <1>8, <1>9 DEF Phases
<1>12. Blocks'
  <2>1. /\ line'.st # "b3up" /\ line'.unconf = <<>> /\ line'.got = <<>> /\ call'.NotAcknowledged = 0
        /\ Len(line'.unconf) = 0
    BY <1>3, <1>6, <1>8, <1>9
  <2> QED  BY <1>9, <2>1 DEF Blocks
<1> QED
  BY <1>7, <1>9, <1>10, <1>11, <1>12 DEF IInv

\* The fax connection is asked for.
LEMMA B3Taken ==
    ASSUME IInv, toBrick # <<>>, toBrick' = Tail(toBrick), Head(toBrick).type = "CONNECTB3_REQ",
           line.st = "active", Moves(At("b3asked"), <<B("CONNECTB3_CONF", 0)>>)
    PROVE  IInv'
<1> DEFINE a == B("CONNECTB3_CONF", 0)
           l == At("b3asked")
<1>1. Typed /\ Phases /\ toBrick \in Seq(Messages)
  BY DEF IInv, Typed
<1>2. a \in Messages /\ a.type = "CONNECTB3_CONF" /\ a.b3 /\ Head(toBrick) \in Asking
  BY <1>1, Made, HeadCounts, OfType DEF Types
<1>3. l \in Lines /\ l.st = "b3asked" /\ l.end = line.end /\ l.unconf = line.unconf /\ l.got = line.got
  BY <1>1, LineTypes
<1>4. /\ <<a>> \in Seq(Messages)
      /\ Number(<<a>>, Of("CONNECTACTIVE_IND")) = 0 /\ Number(<<a>>, Of("CONNECTB3ACTIVE_IND")) = 0
      /\ Number(<<a>>, Of("DATAB3_CONF")) = 0 /\ Number(<<a>>, Of("DISCONNECT_IND")) = 0
      /\ Number(<<a>>, Telling) = 0 /\ Number(<<a>>, Nameless) = 0 /\ Number(<<a>>, Refusal) = 0
  BY <1>2, OneOnly, OfType DEF One
<1> HIDE DEF a, l
<1>5. Moves(l, <<a>>)
  BY DEF a, l
<1>6. /\ Turn' = Number(<<a>>, Telling) + Busy(l) + Len(l.unconf) /\ line.unconf = <<>>
  BY <1>2, <1>3, <1>4, <1>5, TakenMoved
<1>7. Turn' = 1
  BY <1>3, <1>4, <1>6 DEF Busy
<1>8. /\ line.end = "open" /\ Early
      /\ pos = 0 /\ line.got = <<>> /\ call.NotAcknowledged = 0
      /\ ~(DisconnectResps(toBrick) > 0) /\ ~(DisconnectInds(capi, toProg) > 0)
  BY <1>1 DEF Phases, Early
<1>9. /\ Typed' /\ Control' /\ line' = l /\ pc' # "init" /\ conn = "up"
      /\ call' = call /\ pos' = pos /\ size' = size
      /\ ConnectReqs(toBrick') = 0 /\ ConnectB3Reqs(toBrick') = 0
      /\ DataB3Reqs(toBrick') = 0 /\ DisconnectB3Reqs(toBrick') = 0
      /\ DisconnectResps(toBrick') = 0
      /\ Number(toBrick', Stray') = 0
      /\ ConnectB3ActiveInds(capi', toProg') = 0
      /\ DataB3Confs(capi', toProg') = 0
      /\ DisconnectInds(capi', toProg') = 0
      /\ Coming(capi', toProg', Nameless) = 0 /\ Coming(capi', toProg', Refusal) = 0
  <2>1. Asked(l, <<a>>)
    BY <1>2, <1>3, <1>4, <1>5, AskedAfter
  <2>2. DisconnectResps(toBrick) = 0 /\ DisconnectInds(capi, toProg) = 0
    BY <1>8, <2>1 DEF Asked
  <2> QED  BY <1>4, <2>1, <2>2 DEF Asked
<1>10. Said'
  BY <1>9 DEF Said
<1>11. Phases'
  BY <1>3, <1>8, <1>9 DEF Phases
<1>12. Blocks'
  <2>1. /\ line'.st # "b3up" /\ line'.unconf = <<>> /\ line'.got = <<>> /\ call'.NotAcknowledged = 0
        /\ Len(line'.unconf) = 0
    BY <1>3, <1>6, <1>8, <1>9
  <2> QED  BY <1>9, <2>1 DEF Blocks
<1> QED
  BY <1>7, <1>9, <1>10, <1>11, <1>12 DEF IInv

\* It is refused.
LEMMA B3Refused ==
    ASSUME IInv, toBrick # <<>>, toBrick' = Tail(toBrick), Head(toBrick).type = "CONNECTB3_REQ",
           Moves(line, <<[Head(toBrick) EXCEPT !.type = "CONNECTB3_CONF", !.info = 1]>>)
    PROVE  IInv'
<1> DEFINE a == [Head(toBrick) EXCEPT !.type = "CONNECTB3_CONF", !.info = 1]
<1>1. Typed /\ Phases /\ toBrick \in Seq(Messages) /\ line \in Lines
  BY DEF IInv, Typed
<1>2. /\ a \in Messages /\ a.type = "CONNECTB3_CONF" /\ Head(toBrick) \in Asking
      /\ ConnectB3Reqs(toBrick) > 0
  <2>1. Head(toBrick) \in Messages /\ ConnectB3Reqs(toBrick) > 0
    BY <1>1, HeadCounts
  <2>2. Head(toBrick) \in Asking
    BY <2>1, OfType
  <2>3. a \in Messages /\ a.type = "CONNECTB3_CONF"
    BY <2>1, Refused, ZenonT(30) DEF Types
  <2> QED  BY <2>1, <2>2, <2>3
<1>3. /\ <<a>> \in Seq(Messages)
      /\ Number(<<a>>, Of("CONNECTACTIVE_IND")) = 0 /\ Number(<<a>>, Of("CONNECTB3ACTIVE_IND")) = 0
      /\ Number(<<a>>, Of("DATAB3_CONF")) = 0 /\ Number(<<a>>, Of("DISCONNECT_IND")) = 0
      /\ Number(<<a>>, Telling) = 0 /\ Number(<<a>>, Nameless) = 0
  BY <1>2, OneOnly, OfType DEF One
<1> HIDE DEF a
<1>4. Moves(line, <<a>>)
  BY DEF a
<1>5. /\ Turn' = Number(<<a>>, Telling) + Busy(line) + Len(line.unconf)
      /\ line.unconf = <<>> /\ Busy(line) = 0
  BY <1>1, <1>2, <1>3, <1>4, TakenMoved
<1>6. Turn' = 0
  BY <1>3, <1>5
<1>7. Early /\ pos = 0 /\ line.got = <<>> /\ call.NotAcknowledged = 0
  BY <1>1, <1>2 DEF Phases, Early
<1>8. /\ Typed' /\ Control' /\ line' = line /\ pc' # "init" /\ conn = "up"
      /\ call' = call /\ pos' = pos /\ size' = size
      /\ ConnectReqs(toBrick') = 0 /\ ConnectB3Reqs(toBrick') = 0
      /\ DataB3Reqs(toBrick') = 0 /\ DisconnectB3Reqs(toBrick') = 0
      /\ DisconnectResps(toBrick') = DisconnectResps(toBrick)
      /\ Number(toBrick', Stray') = 0
      /\ ConnectB3ActiveInds(capi', toProg') = 0
      /\ DataB3Confs(capi', toProg') = 0
      /\ DisconnectInds(capi', toProg') = DisconnectInds(capi, toProg)
      /\ Coming(capi', toProg', Nameless) = 0
  <2>1. Asked(line, <<a>>)
    BY <1>1, <1>2, <1>3, <1>4, AskedAfter
  <2> QED  BY <1>3, <2>1 DEF Asked
<1>9. Said'
  BY <1>6, <1>7, <1>8 DEF Said
<1>10. Phases'
  <2>1. /\ line.st \in {"dialling", "active", "b3asked", "b3up"} => line.end = "open"
        /\ DisconnectResps(toBrick) > 0 \/ DisconnectInds(capi, toProg) > 0 => line.st \in {"free", "clearing"}
    BY <1>1 DEF Phases
  <2> QED  BY <1>7, <1>8, <2>1 DEF Phases
<1>11. Blocks'
  <2>1. /\ line'.unconf = <<>> /\ line'.got = <<>> /\ call'.NotAcknowledged = 0 /\ pos' = 0
        /\ Len(line'.unconf) = 0 /\ Len(line'.got) = 0
    BY <1>5, <1>7, <1>8
  <2> QED  BY <1>8, <2>1 DEF Blocks
<1> QED
  BY <1>6, <1>8, <1>9, <1>10, <1>11 DEF IInv

\* A block is taken.
LEMMA DataTaken ==
    ASSUME IInv, toBrick # <<>>, toBrick' = Tail(toBrick), Head(toBrick).type = "DATAB3_REQ",
           line.st = "b3up",
           Moves([line EXCEPT !.unconf = Append(@, Head(toBrick).info)], <<>>)
    PROVE  IInv'
<1> DEFINE l == [line EXCEPT !.unconf = Append(@, Head(toBrick).info)]
<1>1. /\ Typed /\ Said /\ Phases /\ Blocks /\ toBrick \in Seq(Messages) /\ line \in Lines /\ pos \in Nat
      /\ Number(toBrick, Stray) = 0
  BY NumbersType DEF IInv, Typed, Said
<1>2. /\ Head(toBrick) \in Messages /\ Head(toBrick) \in Asking /\ DataB3Reqs(toBrick) > 0
      /\ Head(toBrick).info = pos
  <2>1. Head(toBrick) \in Messages /\ DataB3Reqs(toBrick) > 0
    BY <1>1, HeadCounts
  <2>2. Head(toBrick) \notin Stray
    BY <1>1, HeadCounts
  <2> QED  BY <2>1, <2>2, OfType
<1>3. <<>> \in Seq(Messages) /\ Number(<<>>, Telling) = 0 /\ Number(<<>>, Nameless) = 0
      /\ Number(<<>>, Refusal) = 0 /\ \A u : Number(<<>>, Of(u)) = 0
  <2>1. <<>> \in Seq(Messages)
    OBVIOUS
  <2> QED  BY <1>2, <2>1, OneOnly, Zenon
<1>4. line.unconf = <<>>
  <2>1. \A l1 \in Lines, ms \in Seq(Messages) : Moves(l1, ms) => line.unconf = <<>>
    BY <1>2, TakenMoved
  <2>2. l \in Lines
    <3>1. Append(line.unconf, Head(toBrick).info) \in Seq(Nat)
      BY <1>1, <1>2 DEF Lines
    <3> QED  BY <1>1, <3>1 DEF Lines
  <2> QED  BY <1>3, <2>1, <2>2
<1>5. /\ l \in Lines /\ l.st = "b3up" /\ l.end = line.end /\ l.got = line.got
      /\ l.unconf = <<pos>>
  <2>1. l = [line EXCEPT !.unconf = <<pos>>] /\ <<pos>> \in Seq(Nat)
    BY <1>1, <1>2, <1>4
  <2> QED  BY <1>1, <2>1 DEF Lines
<1> HIDE DEF l
<1>6. Moves(l, <<>>)
  BY DEF l
<1>7. Turn' = Number(<<>>, Telling) + Busy(l) + Len(l.unconf)
  BY <1>2, <1>3, <1>5, <1>6, TakenMoved
<1>8. Turn' = 1
  BY <1>3, <1>5, <1>7 DEF Busy
<1>9. Asked(l, <<>>)
  BY <1>2, <1>3, <1>5, <1>6, AskedAfter
<1>10. /\ Typed' /\ Control' /\ line' = l /\ pc' # "init" /\ conn = "up"
       /\ call' = call /\ pos' = pos /\ size' = size
       /\ ConnectReqs(toBrick') = 0 /\ ConnectB3Reqs(toBrick') = 0
       /\ DataB3Reqs(toBrick') = 0 /\ DisconnectB3Reqs(toBrick') = 0
       /\ DisconnectResps(toBrick') = DisconnectResps(toBrick)
       /\ Number(toBrick', Stray') = 0 /\ DataB3Reqs(toBrick) = 1 /\ DataB3Confs(capi, toProg) = 0
       /\ ConnectActiveInds(capi', toProg') = 0 /\ DataB3Confs(capi', toProg') = 0
       /\ DisconnectInds(capi', toProg') = DisconnectInds(capi, toProg)
       /\ Coming(capi', toProg', Nameless) = 0 /\ Coming(capi', toProg', Refusal) = 0
  <2>1. DataB3Reqs(toBrick) = 1 /\ DataB3Confs(capi, toProg) = 0
    BY <1>2, <1>9 DEF Asked
  <2> QED  BY <1>3, <1>9, <2>1 DEF Asked
<1>11. Said'
  BY <1>10 DEF Said
<1>12. Phases'
  <2>1. line.end = "open"
    BY <1>1 DEF Phases
  <2>2. ~(DisconnectResps(toBrick) > 0) /\ ~(DisconnectInds(capi, toProg) > 0)
    BY <1>1 DEF Phases
  <2>3. ~Early'
    BY <1>5, <1>10 DEF Early
  <2> QED  BY <1>5, <1>10, <2>1, <2>2, <2>3 DEF Phases
<1>13. Blocks'
  <2>1. call.NotAcknowledged = 1 /\ pos = Len(line.got) + 1
    <3>1. /\ call.NotAcknowledged = DataB3Reqs(toBrick) + Len(line.unconf) + DataB3Confs(capi, toProg)
          /\ pos = Len(line.got) + Len(line.unconf) + DataB3Reqs(toBrick)
      BY <1>1, <1>10 DEF Blocks
    <3>2. Len(line.unconf) = 0 /\ Len(line.got) \in Nat
      BY <1>1, <1>4, NumbersType
    <3> QED  BY <1>10, <3>1, <3>2
  <2>2. /\ \A n \in DOMAIN line.got : line.got[n] = n
        /\ call.NotAcknowledged > 0 => call.b3
    BY <1>1 DEF Blocks
  <2>3. Len(line'.unconf) = 1 /\ line'.got = line.got /\ call'.NotAcknowledged = 1
        /\ call' = call /\ pos' = pos /\ line'.st = "b3up"
    BY <1>5, <1>10, <2>1
  <2>4. \A n \in DOMAIN line'.unconf : line'.unconf[n] = pos'
    <3>1. \A n \in DOMAIN <<pos>> : <<pos>>[n] = pos
      OBVIOUS
    <3> QED  BY <1>5, <1>10, <3>1
  <2>5. Len(line'.got) = Len(line.got) /\ Len(line.got) \in Nat
    BY <1>1, <2>3, NumbersType
  <2>6. /\ call'.NotAcknowledged = DataB3Reqs(toBrick') + Len(line'.unconf) + DataB3Confs(capi', toProg')
        /\ pos' = Len(line'.got) + Len(line'.unconf) + DataB3Reqs(toBrick')
    BY <1>10, <2>1, <2>3, <2>5
  <2>7. call'.NotAcknowledged >= DataB3Reqs(toBrick') + Len(line'.unconf) + DataB3Confs(capi', toProg')
    BY <1>10, <2>3
  <2>8. ~(DisconnectB3Reqs(toBrick') > 0)
    BY <1>10
  <2> QED  BY <2>2, <2>3, <2>4, <2>6, <2>7, <2>8 DEF Blocks
<1> QED
  BY <1>8, <1>10, <1>11, <1>12, <1>13 DEF IInv

\* A block comes too late.
LEMMA DataRefused ==
    ASSUME IInv, toBrick # <<>>, toBrick' = Tail(toBrick), Head(toBrick).type = "DATAB3_REQ",
           line.st # "b3up",
           Moves(line, <<[Head(toBrick) EXCEPT !.type = "DATAB3_CONF", !.info = 1]>>)
    PROVE  IInv'
<1> DEFINE a == [Head(toBrick) EXCEPT !.type = "DATAB3_CONF", !.info = 1]
<1>1. /\ Typed /\ Phases /\ Blocks /\ toBrick \in Seq(Messages) /\ line \in Lines
      /\ Number(toBrick, Stray) = 0
  BY DEF IInv, Typed, Said
<1>2. /\ Head(toBrick) \in Messages /\ Head(toBrick) \in Asking /\ DataB3Reqs(toBrick) > 0
      /\ Head(toBrick).b3
  <2>1. Head(toBrick) \in Messages /\ DataB3Reqs(toBrick) > 0
    BY <1>1, HeadCounts
  <2>2. Head(toBrick) \notin Stray
    BY <1>1, HeadCounts
  <2> QED  BY <2>1, <2>2, OfType
<1>3. a \in Messages /\ a.type = "DATAB3_CONF" /\ a.b3
  <2>1. a \in Messages /\ a.type = "DATAB3_CONF"
    BY <1>2, Refused DEF Types
  <2>2. a.b3 = Head(toBrick).b3
    BY <1>2, Zenon DEF Messages
  <2> QED  BY <1>2, <2>1, <2>2, ZenonT(40)
<1>4. /\ <<a>> \in Seq(Messages)
      /\ Number(<<a>>, Of("CONNECTACTIVE_IND")) = 0 /\ Number(<<a>>, Of("CONNECTB3ACTIVE_IND")) = 0
      /\ Number(<<a>>, Of("DATAB3_CONF")) = 1 /\ Number(<<a>>, Of("DISCONNECT_IND")) = 0
      /\ Number(<<a>>, Telling) = 1 /\ Number(<<a>>, Nameless) = 0 /\ Number(<<a>>, Refusal) = 0
  BY <1>3, OneOnly, OfType DEF One
<1> HIDE DEF a
<1>5. Moves(line, <<a>>)
  BY DEF a
<1>6. /\ Turn' = Number(<<a>>, Telling) + Busy(line) + Len(line.unconf)
      /\ line.unconf = <<>> /\ Busy(line) = 0
  BY <1>1, <1>2, <1>4, <1>5, TakenMoved
<1>7. Turn' = 1
  BY <1>4, <1>6
<1>8. /\ Typed' /\ Control' /\ line' = line /\ pc' # "init" /\ conn = "up"
      /\ call' = call /\ pos' = pos /\ size' = size
      /\ ConnectReqs(toBrick') = 0 /\ ConnectB3Reqs(toBrick') = 0
      /\ DataB3Reqs(toBrick') = 0 /\ DisconnectB3Reqs(toBrick') = 0
      /\ DisconnectResps(toBrick') = DisconnectResps(toBrick)
      /\ Number(toBrick', Stray') = 0 /\ DataB3Confs(capi, toProg) = 0
      /\ ConnectActiveInds(capi', toProg') = 0 /\ ConnectB3ActiveInds(capi', toProg') = 0
      /\ DataB3Confs(capi', toProg') = 1
      /\ DisconnectInds(capi', toProg') = DisconnectInds(capi, toProg)
      /\ Coming(capi', toProg', Nameless) = 0 /\ Coming(capi', toProg', Refusal) = 0
  <2>1. Asked(line, <<a>>)
    BY <1>1, <1>2, <1>4, <1>5, AskedAfter
  <2> QED  BY <1>4, <2>1 DEF Asked
<1>9. Said'
  BY <1>8 DEF Said
<1>10. Phases'
  <2>1. /\ line.st \in {"dialling", "active", "b3asked", "b3up"} => line.end = "open"
        /\ DisconnectResps(toBrick) > 0 \/ DisconnectInds(capi, toProg) > 0 => line.st \in {"free", "clearing"}
        /\ Early => DataB3Reqs(toBrick) = 0
    BY <1>1 DEF Phases
  <2>2. ~Early'
    BY <1>2, <1>8, <2>1 DEF Early
  <2> QED  BY <1>8, <2>1, <2>2 DEF Phases
<1>11. Blocks'
  <2>1. call.NotAcknowledged >= 1 /\ call.NotAcknowledged \in Nat
    <3>1. call.NotAcknowledged >= DataB3Reqs(toBrick) + Len(line.unconf) + DataB3Confs(capi, toProg)
      BY <1>1 DEF Blocks
    <3>2. DataB3Reqs(toBrick) \in Nat /\ Len(line.unconf) = 0 /\ call.NotAcknowledged \in Nat
      BY <1>1, <1>6, Requests, NumbersType
    <3> QED  BY <1>2, <1>8, <3>1, <3>2
  <2>2. call'.NotAcknowledged >= DataB3Reqs(toBrick') + Len(line'.unconf) + DataB3Confs(capi', toProg')
    <3>1. Len(line'.unconf) = 0
      BY <1>6, <1>8
    <3> QED  BY <1>8, <2>1, <3>1
  <2>3. /\ \A n \in DOMAIN line.got : line.got[n] = n
        /\ call.NotAcknowledged > 0 => call.b3
    BY <1>1 DEF Blocks
  <2>4. /\ line'.st # "b3up" /\ line'.unconf = <<>>
        /\ \A n \in DOMAIN line'.unconf : line'.unconf[n] = pos'
    BY <1>6, <1>8
  <2> QED  BY <1>8, <2>2, <2>3, <2>4 DEF Blocks
<1> QED
  BY <1>7, <1>8, <1>9, <1>10, <1>11 DEF IInv

\* The brick takes the next message.
LEMMA BrickTakesStep ==
    ASSUME IInv, BrickTakes
    PROVE  IInv'
<1> DEFINE m == Head(toBrick)
           refused(type) == Moves(line, <<[m EXCEPT !.type = type, !.info = 1]>>)
<1>1. /\ Typed /\ Phases /\ toBrick # <<>> /\ toBrick' = Tail(toBrick)
      /\ toBrick \in Seq(Messages) /\ line \in Lines
  BY DEF IInv, Typed, BrickTakes
<1>2. m \in Messages
  BY <1>1, HeadCounts
<1>3. PlainOnes(<<>>) /\ Number(<<>>, Of("DISCONNECT_IND")) = 0
  BY PlainMessages
<1>4. CASE m.type = "LISTEN_REQ" /\ Moves(line, <<D("LISTEN_CONF", 0)>>)
  <2>1. D("LISTEN_CONF", 0) \in Messages /\ D("LISTEN_CONF", 0).type = "LISTEN_CONF"
    BY Made DEF Types
  <2>2. /\ PlainOnes(<<D("LISTEN_CONF", 0)>>)
        /\ Number(<<D("LISTEN_CONF", 0)>>, Of("DISCONNECT_IND")) = 0
    BY <2>1, PlainMessages DEF Plain
  <2> QED  BY <1>1, <1>4, <2>2, TakesDown
<1>5. CASE m.type = "CONNECT_REQ" /\ Moves(At("dialling"), <<D("CONNECT_CONF", 0)>>)
  BY <1>1, <1>5, ConnectTaken
<1>6. ASSUME NEW t \in {"CONNECT_CONF", "DISCONNECTB3_CONF", "DISCONNECT_CONF"}, refused(t),
             m.type # "DATAB3_REQ"
      PROVE  IInv'
  <2> DEFINE r == [m EXCEPT !.type = t, !.info = 1]
  <2>1. r \in Messages /\ r.type = t
    <3>1. t \in Types
      BY <1>6 DEF Types
    <3> QED  BY <1>2, <3>1, Refused
  <2>2. PlainOnes(<<r>>) /\ Number(<<r>>, Of("DISCONNECT_IND")) = 0
    BY <2>1, PlainMessages DEF Plain
  <2> QED  BY <1>1, <1>6, <2>2, TakesDown
<1>7. CASE m.type = "CONNECTB3_REQ" /\ line.st = "active" /\ Moves(At("b3asked"), <<B("CONNECTB3_CONF", 0)>>)
  BY <1>1, <1>7, B3Taken
<1>8. CASE m.type = "CONNECTB3_REQ" /\ refused("CONNECTB3_CONF")
  BY <1>1, <1>8, B3Refused
<1>9. CASE /\ m.type = "DATAB3_REQ" /\ line.st = "b3up"
           /\ Moves([line EXCEPT !.unconf = Append(@, m.info)], <<>>)
  BY <1>1, <1>9, DataTaken
<1>10. CASE m.type = "DATAB3_REQ" /\ line.st # "b3up" /\ refused("DATAB3_CONF")
  BY <1>1, <1>10, DataRefused
<1>11. CASE /\ m.type = "DISCONNECTB3_REQ" /\ line.st = "b3up"
            /\ Moves([line EXCEPT !.st = "b3down", !.unconf = <<>>, !.end = "complete"],
                     <<B("DISCONNECTB3_CONF", 0), B("DISCONNECTB3_IND", 0)>>)
  <2> DEFINE l == [line EXCEPT !.st = "b3down", !.unconf = <<>>, !.end = "complete"]
             a == B("DISCONNECTB3_CONF", 0)
             b == B("DISCONNECTB3_IND", 0)
  <2>1. a \in Messages /\ b \in Messages /\ a.type = "DISCONNECTB3_CONF" /\ b.type = "DISCONNECTB3_IND"
    BY Made DEF Types
  <2>2. PlainOnes(<<a, b>>) /\ Number(<<a, b>>, Of("DISCONNECT_IND")) = 0
    BY <2>1, PlainMessages DEF Plain
  <2>3. l \in Lines /\ l.st = "b3down" /\ l.unconf = <<>> /\ l.got = line.got
    <3>1. <<>> \in Seq(Nat)
      OBVIOUS
    <3> QED  BY <1>1, <3>1 DEF Lines
  <2> HIDE DEF l, a, b
  <2>4. Moves(l, <<a, b>>)
    BY <1>11 DEF l, a, b
  <2> QED  BY <1>1, <1>11, <2>2, <2>3, <2>4, TakesDown
<1>12. CASE /\ m.type = "DISCONNECT_REQ" /\ line.st \notin {"free", "clearing"}
            /\ Moves(Lost("clearing"), <<D("DISCONNECT_CONF", 0), D("DISCONNECT_IND", 0)>>)
  <2> DEFINE a == D("DISCONNECT_CONF", 0)
             b == D("DISCONNECT_IND", 0)
  <2>1. a \in Messages /\ b \in Messages /\ a.type = "DISCONNECT_CONF" /\ b.type = "DISCONNECT_IND"
    BY Made DEF Types
  <2>2. PlainOnes(<<a, b>>)
    BY <2>1, PlainMessages DEF Plain
  <2>3. /\ Lost("clearing") \in Lines /\ Lost("clearing").st = "clearing"
        /\ Lost("clearing").unconf = <<>> /\ Lost("clearing").got = line.got
    BY <1>1, LineTypes
  <2> HIDE DEF a, b
  <2>4. Moves(Lost("clearing"), <<a, b>>)
    BY <1>12 DEF a, b
  <2> QED  BY <1>1, <1>12, <2>2, <2>3, <2>4, TakesDown
<1>13. CASE m.type = "DISCONNECT_RESP" /\ Moves(At("free"), <<>>)
  <2>1. /\ At("free") \in Lines /\ At("free").st = "free" /\ At("free").unconf = line.unconf
        /\ At("free").got = line.got
    BY <1>1, LineTypes
  <2> QED  BY <1>1, <1>3, <1>13, <2>1, TakesDown
<1>14. CASE /\ m.type \in {"INFO_RESP", "CONNECTACTIVE_RESP", "CONNECTB3ACTIVE_RESP",
                           "DISCONNECTB3_RESP"}
            /\ Moves(line, <<>>)
  BY <1>1, <1>3, <1>14, TakesDown
<1>15. \/ m.type = "LISTEN_REQ" /\ Moves(line, <<D("LISTEN_CONF", 0)>>)
       \/ m.type = "CONNECT_REQ" /\ Moves(At("dialling"), <<D("CONNECT_CONF", 0)>>)
       \/ \E t \in {"CONNECT_CONF", "DISCONNECTB3_CONF", "DISCONNECT_CONF"} :
             refused(t) /\ m.type # "DATAB3_REQ"
       \/ m.type = "CONNECTB3_REQ" /\ line.st = "active" /\ Moves(At("b3asked"), <<B("CONNECTB3_CONF", 0)>>)
       \/ m.type = "CONNECTB3_REQ" /\ refused("CONNECTB3_CONF")
       \/ /\ m.type = "DATAB3_REQ" /\ line.st = "b3up"
          /\ Moves([line EXCEPT !.unconf = Append(@, m.info)], <<>>)
       \/ m.type = "DATAB3_REQ" /\ line.st # "b3up" /\ refused("DATAB3_CONF")
       \/ /\ m.type = "DISCONNECTB3_REQ" /\ line.st = "b3up"
          /\ Moves([line EXCEPT !.st = "b3down", !.unconf = <<>>, !.end = "complete"],
                   <<B("DISCONNECTB3_CONF", 0), B("DISCONNECTB3_IND", 0)>>)
       \/ /\ m.type = "DISCONNECT_REQ" /\ line.st \notin {"free", "clearing"}
          /\ Moves(Lost("clearing"), <<D("DISCONNECT_CONF", 0), D("DISCONNECT_IND", 0)>>)
       \/ m.type = "DISCONNECT_RESP" /\ Moves(At("free"), <<>>)
       \/ /\ m.type \in {"INFO_RESP", "CONNECTACTIVE_RESP", "CONNECTB3ACTIVE_RESP",
                         "DISCONNECTB3_RESP"}
          /\ Moves(line, <<>>)
  BY DEF BrickTakes
<1> QED
  BY <1>4, <1>5, <1>6, <1>7, <1>8, <1>9, <1>10, <1>11, <1>12, <1>13, <1>14, <1>15

\* The called side takes the call.
LEMMA Answered ==
    ASSUME IInv, toBrick' = toBrick, line.st = "dialling",
           Moves(At("active"), <<D("INFO_IND", 0), D("CONNECTACTIVE_IND", 0)>>)
    PROVE  IInv'
<1> DEFINE a == D("INFO_IND", 0)
           b == D("CONNECTACTIVE_IND", 0)
           l == At("active")
<1>1. /\ Typed /\ Phases /\ Blocks /\ line \in Lines /\ Busy(line) = 1
  BY DEF IInv, Typed, Busy
<1>2. a \in Messages /\ a.type = "INFO_IND" /\ b \in Messages /\ b.type = "CONNECTACTIVE_IND"
  BY Made DEF Types
<1>3. l \in Lines /\ l.st = "active" /\ l.end = line.end /\ l.unconf = line.unconf /\ l.got = line.got
  BY <1>1, LineTypes
<1>4. /\ One(a \in Of("CONNECTB3ACTIVE_IND")) = 0 /\ One(b \in Of("CONNECTB3ACTIVE_IND")) = 0
      /\ One(a \in Of("DATAB3_CONF")) = 0 /\ One(b \in Of("DATAB3_CONF")) = 0
      /\ One(a \in Of("DISCONNECT_IND")) = 0 /\ One(b \in Of("DISCONNECT_IND")) = 0
      /\ One(a \in Telling) = 0 /\ One(b \in Telling) = 1
      /\ One(a \in Nameless) = 0 /\ One(b \in Nameless) = 0
      /\ One(a \in Refusal) = 0 /\ One(b \in Refusal) = 0
  BY <1>2, OfType DEF One
<1> HIDE DEF a, b, l
<1>5. /\ <<a, b>> \in Seq(Messages)
      /\ Number(<<a, b>>, Of("CONNECTB3ACTIVE_IND")) = 0 /\ Number(<<a, b>>, Of("DATAB3_CONF")) = 0
      /\ Number(<<a, b>>, Of("DISCONNECT_IND")) = 0 /\ Number(<<a, b>>, Telling) = 1
      /\ Number(<<a, b>>, Nameless) = 0 /\ Number(<<a, b>>, Refusal) = 0
  <2>1. <<a, b>> \in Seq(Messages) /\ \A T : Number(<<a, b>>, T) = One(a \in T) + One(b \in T)
    BY <1>2, NumberPair
  <2> QED  BY <1>4, <2>1
<1>6. Moves(l, <<a, b>>)
  BY DEF a, b, l
<1>7. Asked(l, <<a, b>>) /\ Turn' = Number(<<a, b>>, Telling) + Busy(l) + Len(l.unconf)
  BY <1>1, <1>3, <1>5, <1>6, LineMoved
<1>8. /\ line.end = "open" /\ pos = 0 /\ line.got = <<>> /\ call.NotAcknowledged = 0
      /\ ~(DisconnectResps(toBrick) > 0) /\ ~(DisconnectInds(capi, toProg) > 0)
      /\ line.unconf = <<>>
  BY <1>1 DEF Phases, Early, Blocks
<1>9. Turn' = 1
  BY <1>3, <1>5, <1>7, <1>8 DEF Busy
<1>10. /\ Typed' /\ Control' /\ line' = l /\ pc' # "init" /\ conn = "up"
       /\ call' = call /\ pos' = pos /\ size' = size
       /\ ConnectReqs(toBrick') = 0 /\ ConnectB3Reqs(toBrick') = 0
       /\ DataB3Reqs(toBrick') = 0 /\ DisconnectB3Reqs(toBrick') = 0
       /\ DisconnectResps(toBrick') = 0
       /\ Number(toBrick', Stray') = 0
       /\ ConnectB3ActiveInds(capi', toProg') = 0 /\ DataB3Confs(capi', toProg') = 0
       /\ DisconnectInds(capi', toProg') = 0
       /\ Coming(capi', toProg', Nameless) = 0 /\ Coming(capi', toProg', Refusal) = 0
  <2>1. DisconnectResps(toBrick) = 0 /\ DisconnectInds(capi, toProg) = 0
    BY <1>7, <1>8 DEF Asked
  <2> QED  BY <1>5, <1>7, <2>1 DEF Asked
<1>11. Said'
  BY <1>10 DEF Said
<1>12. Phases'
  BY <1>3, <1>8, <1>10 DEF Phases
<1>13. Blocks'
  <2>1. /\ line'.st # "b3up" /\ line'.unconf = <<>> /\ line'.got = <<>> /\ call'.NotAcknowledged = 0
        /\ Len(line'.unconf) = 0
    BY <1>3, <1>8, <1>10
  <2> QED  BY <1>10, <2>1 DEF Blocks
<1> QED
  BY <1>9, <1>10, <1>11, <1>12, <1>13 DEF IInv

\* The two faxes agree.
LEMMA Agreed ==
    ASSUME IInv, toBrick' = toBrick, line.st = "b3asked",
           Moves(At("b3up"), <<B("CONNECTB3ACTIVE_IND", 0)>>)
    PROVE  IInv'
<1> DEFINE a == B("CONNECTB3ACTIVE_IND", 0)
           l == At("b3up")
<1>1. /\ Typed /\ Phases /\ Blocks /\ line \in Lines /\ Busy(line) = 1
  BY DEF IInv, Typed, Busy
<1>2. a \in Messages /\ a.type = "CONNECTB3ACTIVE_IND" /\ a.b3
  BY Made DEF Types
<1>3. l \in Lines /\ l.st = "b3up" /\ l.end = line.end /\ l.unconf = line.unconf /\ l.got = line.got
  BY <1>1, LineTypes
<1>4. /\ <<a>> \in Seq(Messages) /\ Number(<<a>>, Of("CONNECTACTIVE_IND")) = 0
      /\ Number(<<a>>, Of("DATAB3_CONF")) = 0 /\ Number(<<a>>, Of("DISCONNECT_IND")) = 0
      /\ Number(<<a>>, Telling) = 1 /\ Number(<<a>>, Nameless) = 0 /\ Number(<<a>>, Refusal) = 0
  BY <1>2, OneOnly, OfType DEF One
<1> HIDE DEF a, l
<1>5. Moves(l, <<a>>)
  BY DEF a, l
<1>6. Asked(l, <<a>>) /\ Turn' = Number(<<a>>, Telling) + Busy(l) + Len(l.unconf)
  BY <1>1, <1>3, <1>4, <1>5, LineMoved
<1>7. /\ line.end = "open" /\ pos = 0 /\ line.got = <<>> /\ call.NotAcknowledged = 0
      /\ ~(DisconnectResps(toBrick) > 0) /\ ~(DisconnectInds(capi, toProg) > 0)
      /\ line.unconf = <<>>
  BY <1>1 DEF Phases, Early, Blocks
<1>8. Turn' = 1
  BY <1>3, <1>4, <1>6, <1>7 DEF Busy
<1>9. /\ Typed' /\ Control' /\ line' = l /\ pc' # "init" /\ conn = "up"
      /\ call' = call /\ pos' = pos /\ size' = size
      /\ ConnectReqs(toBrick') = 0 /\ ConnectB3Reqs(toBrick') = 0
      /\ DataB3Reqs(toBrick') = 0 /\ DisconnectB3Reqs(toBrick') = 0
      /\ DisconnectResps(toBrick') = 0
      /\ Number(toBrick', Stray') = 0
      /\ ConnectActiveInds(capi', toProg') = 0 /\ DataB3Confs(capi', toProg') = 0
      /\ DisconnectInds(capi', toProg') = 0
      /\ Coming(capi', toProg', Nameless) = 0 /\ Coming(capi', toProg', Refusal) = 0
  <2>1. DisconnectResps(toBrick) = 0 /\ DisconnectInds(capi, toProg) = 0
    BY <1>6, <1>7 DEF Asked
  <2> QED  BY <1>4, <1>6, <2>1 DEF Asked
<1>10. Said'
  BY <1>9 DEF Said
<1>11. Phases'
  <2>1. ~Early'
    BY <1>3, <1>9 DEF Early
  <2> QED  BY <1>3, <1>7, <1>9, <2>1 DEF Phases
<1>12. Blocks'
  <2>1. /\ line'.unconf = <<>> /\ line'.got = <<>> /\ call'.NotAcknowledged = 0 /\ pos' = 0
        /\ Len(line'.unconf) = 0 /\ Len(line'.got) = 0
    BY <1>3, <1>7, <1>9
  <2> QED  BY <1>9, <2>1 DEF Blocks
<1> QED
  BY <1>8, <1>9, <1>10, <1>11, <1>12 DEF IInv

\* A block has gone out.
LEMMA Confirmed ==
    ASSUME IInv, Confirm
    PROVE  IInv'
<1> DEFINE a == B("DATAB3_CONF", 0)
           l == [line EXCEPT !.got = Append(@, Head(line.unconf)), !.unconf = Tail(@)]
<1>1. /\ Typed /\ Phases /\ Blocks /\ line \in Lines /\ toBrick' = toBrick
      /\ line.st = "b3up" /\ line.unconf # <<>>
  BY DEF IInv, Typed, Confirm
<1>2. a \in Messages /\ a.type = "DATAB3_CONF" /\ a.b3
  BY Made DEF Types
<1>3. /\ <<a>> \in Seq(Messages) /\ Number(<<a>>, Of("CONNECTACTIVE_IND")) = 0
      /\ Number(<<a>>, Of("CONNECTB3ACTIVE_IND")) = 0
      /\ Number(<<a>>, Of("DATAB3_CONF")) = 1 /\ Number(<<a>>, Of("DISCONNECT_IND")) = 0
      /\ Number(<<a>>, Telling) = 1 /\ Number(<<a>>, Nameless) = 0 /\ Number(<<a>>, Refusal) = 0
  BY <1>2, OneOnly, OfType DEF One
<1>4. /\ line.unconf \in Seq(Nat) /\ line.got \in Seq(Nat)
  BY <1>1 DEF Lines
<1>5. /\ Append(line.got, Head(line.unconf)) \in Seq(Nat) /\ Tail(line.unconf) \in Seq(Nat)
      /\ 1 \in DOMAIN line.unconf /\ Head(line.unconf) = line.unconf[1]
      /\ Len(Tail(line.unconf)) = Len(line.unconf) - 1 /\ Len(line.unconf) \in Nat
  BY <1>1, <1>4
<1>6. /\ l \in Lines /\ l.st = "b3up" /\ l.end = line.end
      /\ l.got = Append(line.got, Head(line.unconf)) /\ l.unconf = Tail(line.unconf)
  BY <1>1, <1>5 DEF Lines
<1> HIDE DEF a, l
<1>7. Moves(l, <<a>>)
  BY DEF Confirm, a, l
<1>8. /\ Asked(l, <<a>>) /\ Turn' = Number(<<a>>, Telling) + Busy(l) + Len(l.unconf)
      /\ Busy(line) + Len(line.unconf) = 1 /\ DataB3Reqs(toBrick) = 0
  BY <1>1, <1>3, <1>6, <1>7, LineMoved
<1>9. Len(line.unconf) = 1
  <2>1. Busy(line) = 0
    BY <1>1 DEF Busy
  <2> QED  BY <1>5, <1>8, <2>1
<1>10. l.unconf = <<>>
  <2>1. Tail(line.unconf) \in Seq(Nat) /\ Len(Tail(line.unconf)) = 0
    BY <1>5, <1>9
  <2>2. \A s \in Seq(Nat) : Len(s) = 0 => s = <<>>
    OBVIOUS
  <2> QED  BY <1>6, <2>1, <2>2
<1>11. Turn' = 1
  <2>1. Busy(l) = 0 /\ Len(l.unconf) = 0
    BY <1>6, <1>10 DEF Busy
  <2> QED  BY <1>3, <1>8, <2>1
<1>12. /\ Typed' /\ Control' /\ line' = l /\ pc' # "init" /\ conn = "up"
       /\ call' = call /\ pos' = pos /\ size' = size
       /\ ConnectReqs(toBrick') = 0 /\ ConnectB3Reqs(toBrick') = 0
       /\ DataB3Reqs(toBrick') = 0 /\ DisconnectB3Reqs(toBrick') = 0
       /\ DisconnectResps(toBrick') = DisconnectResps(toBrick)
       /\ Number(toBrick', Stray') = 0 /\ DataB3Confs(capi, toProg) = 0
       /\ ConnectActiveInds(capi', toProg') = 0 /\ DataB3Confs(capi', toProg') = 1
       /\ DisconnectInds(capi', toProg') = DisconnectInds(capi, toProg)
       /\ Coming(capi', toProg', Nameless) = 0 /\ Coming(capi', toProg', Refusal) = 0
  BY <1>3, <1>8 DEF Asked
<1>13. Said'
  BY <1>12 DEF Said
<1>14. Phases'
  <2>1. line.end = "open" /\ ~(DisconnectResps(toBrick) > 0) /\ ~(DisconnectInds(capi, toProg) > 0)
    BY <1>1 DEF Phases
  <2>2. ~Early'
    BY <1>6, <1>12 DEF Early
  <2> QED  BY <1>6, <1>12, <2>1, <2>2 DEF Phases
<1>15. Blocks'
  <2>1. pos \in Nat /\ Len(line.got) \in Nat
    BY <1>1, NumbersType
  <2>2. call.NotAcknowledged = 1 /\ pos = Len(line.got) + 1
    <3>1. /\ call.NotAcknowledged = DataB3Reqs(toBrick) + Len(line.unconf) + DataB3Confs(capi, toProg)
          /\ pos = Len(line.got) + Len(line.unconf) + DataB3Reqs(toBrick)
      BY <1>1, <1>12 DEF Blocks
    <3> QED  BY <1>8, <1>9, <1>12, <2>1, <3>1
  <2>3. /\ \A n \in DOMAIN line.got : line.got[n] = n
        /\ Head(line.unconf) = pos /\ call.b3
    BY <1>1, <1>5, <2>2 DEF Blocks
  <2>4. Len(l.got) = pos /\ \A n \in DOMAIN l.got : l.got[n] = n
    <3>1. l.got = Append(line.got, pos) /\ line.got \in Seq(Nat)
      BY <1>4, <1>6, <2>3
    <3> QED  BY <2>1, <2>2, <2>3, <3>1
  <2>5. /\ Len(line'.got) = pos' /\ Len(line'.unconf) = 0 /\ line'.unconf = <<>>
        /\ call'.NotAcknowledged = 1 /\ call'.b3 /\ line'.st = "b3up"
        /\ \A n \in DOMAIN line'.got : line'.got[n] = n
    BY <1>6, <1>10, <1>12, <2>2, <2>3, <2>4
  <2>6. pos' = Len(line'.got) + Len(line'.unconf) + DataB3Reqs(toBrick')
    BY <1>12, <2>1, <2>5
  <2> QED  BY <1>12, <2>5, <2>6 DEF Blocks
<1> QED
  BY <1>11, <1>12, <1>13, <1>14, <1>15 DEF IInv

\* The brick.
LEMMA BrickStep ==
    ASSUME IInv, Brick
    PROVE  IInv'
<1>1. CASE Dial
  <2>1. CASE line.st = "dialling" /\ toBrick' = toBrick
             /\ Moves(At("active"), <<D("INFO_IND", 0), D("CONNECTACTIVE_IND", 0)>>)
    BY <2>1, Answered
  <2>2. CASE line.st = "dialling" /\ toBrick' = toBrick
             /\ Moves(Lost("clearing"), <<D("DISCONNECT_IND", 1)>>)
    <3>1. D("DISCONNECT_IND", 1) \in Messages /\ D("DISCONNECT_IND", 1).type = "DISCONNECT_IND"
      BY Made DEF Types
    <3> QED  BY <2>2, <3>1, LineLost
  <2> QED  BY <1>1, <2>1, <2>2 DEF Dial
<1>2. ASSUME line.st \in {"b3asked", "b3up"}, toBrick' = toBrick,
             Moves(Lost("b3down"), <<B("DISCONNECTB3_IND", 1)>>)
      PROVE  IInv'
  <2>1. B("DISCONNECTB3_IND", 1) \in Messages /\ B("DISCONNECTB3_IND", 1).type = "DISCONNECTB3_IND"
    BY Made DEF Types
  <2> QED  BY <1>2, <2>1, LineLost
<1>3. CASE Train
  <2>1. CASE line.st = "b3asked" /\ toBrick' = toBrick
             /\ Moves(At("b3up"), <<B("CONNECTB3ACTIVE_IND", 0)>>)
    BY <2>1, Agreed
  <2> QED  BY <1>2, <1>3, <2>1 DEF Train
<1>4. CASE Confirm
  BY <1>4, Confirmed
<1>5. CASE HangUp
  <2>1. CASE line.st \in {"active", "b3down"} /\ toBrick' = toBrick
             /\ Moves(Lost("clearing"), <<D("DISCONNECT_IND", 1)>>)
    <3>1. D("DISCONNECT_IND", 1) \in Messages /\ D("DISCONNECT_IND", 1).type = "DISCONNECT_IND"
      BY Made DEF Types
    <3> QED  BY <2>1, <3>1, LineLost
  <2> QED  BY <1>2, <1>5, <2>1 DEF HangUp
<1>6. CASE BrickTakes
  BY <1>6, BrickTakesStep
<1> QED
  BY <1>1, <1>3, <1>4, <1>5, <1>6 DEF Brick

\* Nothing is under way.
LEMMA NoneThere ==
    /\ <<>> \in Seq(Messages) /\ \A T : Number(<<>>, T) = 0
    /\ ConnectReqs(<<>>) = 0 /\ ConnectB3Reqs(<<>>) = 0 /\ DataB3Reqs(<<>>) = 0
    /\ DisconnectB3Reqs(<<>>) = 0 /\ DisconnectResps(<<>>) = 0
<1>1. \A T : Number(<<>>, T) = 0
  BY NumberOne, Zenon
<1>2. <<>> \in Seq(Messages)
  OBVIOUS
<1> QED
  BY <1>1, <1>2 DEF ConnectReqs, ConnectB3Reqs, DataB3Reqs, DisconnectB3Reqs, DisconnectResps

\* The brick dies.
LEMMA BreakStep ==
    ASSUME IInv, Break
    PROVE  IInv'
<1>1. /\ Typed /\ Control /\ Turn <= 1 /\ Said /\ Phases /\ Blocks
      /\ capi \in Messages /\ toBrick \in Seq(Messages) /\ toProg \in Seq(Messages) /\ line \in Lines
  BY DEF IInv, Typed
<1>2. /\ pc \in {"poll", "event"} /\ pc' = pc /\ capi' = capi /\ call' = call
      /\ wait4dataconf' = wait4dataconf /\ size' = size /\ pos' = pos
      /\ conn' = "reset" /\ toBrick' = <<>> /\ toProg' = toProg /\ line' = Lost("free")
  BY DEF Break, file
<1>3. /\ line' \in Lines /\ line'.st = "free" /\ line'.unconf = <<>> /\ line'.got = line.got
  BY <1>1, <1>2, LineTypes
<1>4. /\ toBrick' \in Seq(Messages) /\ Number(toBrick', Asking) = 0 /\ Number(toBrick', Stray') = 0
      /\ ConnectReqs(toBrick') = 0 /\ ConnectB3Reqs(toBrick') = 0 /\ DataB3Reqs(toBrick') = 0
      /\ DisconnectB3Reqs(toBrick') = 0 /\ DisconnectResps(toBrick') = 0
  BY <1>2, NoneThere
<1>5. Turn \in Nat /\ Turn' \in Nat /\ Turn' <= Turn
  <2>1. /\ Begins(pc) \in Nat /\ Number(toBrick, Asking) \in Nat /\ Coming(capi, toProg, Telling) \in Nat
        /\ Busy(line) \in Nat /\ Len(line.unconf) \in Nat
    BY <1>1, TurnParts
  <2>2. Begins(pc') = Begins(pc) /\ Busy(line') = 0 /\ Len(line'.unconf) = 0
        /\ Coming(capi', toProg', Telling) = Coming(capi, toProg, Telling)
    BY <1>2, <1>3 DEF Busy
  <2>3. Number(toBrick', Asking) + Coming(capi', toProg', Telling)
              + (Begins(pc') + Busy(line') + Len(line'.unconf))
           <= Number(toBrick, Asking) + Coming(capi, toProg, Telling)
              + (Begins(pc) + Busy(line) + Len(line.unconf))
    BY <1>4, <2>1, <2>2
  <2>4. capi' \in Messages /\ toProg' \in Seq(Messages)
    BY <1>1, <1>2
  <2> QED  BY <1>1, <1>3, <1>4, <2>3, <2>4, TurnPasses DEF Turn
<1>6. Typed'
  BY <1>1, <1>2, <1>3, <1>4 DEF Typed
<1>7. Control'
  BY <1>1, <1>2 DEF Control
<1>8. Said'
  <2>1. /\ Coming(capi, toProg, Nameless) = 0
        /\ Coming(capi, toProg, Refusal) > 0 => Turn = 0 /\ call.NotAcknowledged = 0
    BY <1>1 DEF Said
  <2>2. /\ Nameless' = Nameless /\ Refusal' = Refusal
    BY DEF Nameless, Refusal
  <2> QED  BY <1>2, <1>4, <1>5, <2>1, <2>2 DEF Said
<1>9. Phases'
  <2>1. Early' => Early /\ line'.got = line.got
    BY <1>2, <1>3, <1>4 DEF Early
  <2>2. Early => /\ pos = 0 /\ line.got = <<>> /\ call.NotAcknowledged = 0
                 /\ ConnectB3ActiveInds(capi, toProg) = 0 /\ DataB3Confs(capi, toProg) = 0
    BY <1>1 DEF Phases
  <2> QED  BY <1>2, <1>3, <1>4, <2>1, <2>2 DEF Phases
<1>10. Blocks'
  <2>1. /\ \A n \in DOMAIN line.got : line.got[n] = n
        /\ call.NotAcknowledged > 0 => call.b3
        /\ call.NotAcknowledged >= DataB3Reqs(toBrick) + Len(line.unconf) + DataB3Confs(capi, toProg)
    BY <1>1 DEF Blocks
  <2>2. /\ DataB3Reqs(toBrick) \in Nat /\ Len(line.unconf) \in Nat /\ DataB3Confs(capi, toProg) \in Nat
        /\ call.NotAcknowledged \in Nat
    BY <1>1, Requests, Indications, NumbersType
  <2>3. call.NotAcknowledged >= DataB3Confs(capi, toProg)
    BY <2>1, <2>2
  <2>4. call'.NotAcknowledged >= DataB3Reqs(toBrick') + Len(line'.unconf) + DataB3Confs(capi', toProg')
    BY <1>2, <1>3, <1>4, <2>2, <2>3
  <2> QED  BY <1>2, <1>3, <2>1, <2>4 DEF Blocks
<1> QED
  BY <1>1, <1>5, <1>6, <1>7, <1>8, <1>9, <1>10 DEF IInv

\* main begins.
LEMMA StartStep ==
    ASSUME IInv, Start
    PROVE  IInv'
<1> DEFINE a == D("LISTEN_REQ", 0)
           b == D("CONNECT_REQ", 0)
<1>1. /\ Typed /\ Control /\ Turn <= 1 /\ Said /\ Phases /\ Blocks
      /\ capi \in Messages /\ toBrick \in Seq(Messages) /\ toProg \in Seq(Messages) /\ line \in Lines
  BY DEF IInv, Typed
<1>2. /\ pc = "init" /\ pc' = "poll" /\ capi' = capi /\ call' = [call EXCEPT !.state = "D_ConnectPending"]
      /\ wait4dataconf' = wait4dataconf /\ size' = size /\ pos' = pos
      /\ conn' = "up" /\ toBrick' = <<a, b>> /\ toProg' = toProg /\ line' = line
  BY DEF Start, file
<1>3. call' \in Calls /\ call'.there = call.there /\ call'.b3 = call.b3 /\ call'.plci = call.plci
      /\ call'.NotAcknowledged = call.NotAcknowledged
  BY <1>1, <1>2 DEF Typed, Calls, CallStates
<1>4. /\ a \in Messages /\ a.type = "LISTEN_REQ" /\ b \in Messages /\ b.type = "CONNECT_REQ"
  BY Made DEF Types
<1>5. /\ One(a \in Of("DATAB3_REQ")) = 0 /\ One(b \in Of("DATAB3_REQ")) = 0
      /\ One(a \in Of("DISCONNECTB3_REQ")) = 0 /\ One(b \in Of("DISCONNECTB3_REQ")) = 0
      /\ One(a \in Of("DISCONNECT_RESP")) = 0 /\ One(b \in Of("DISCONNECT_RESP")) = 0
      /\ One(a \in Asking) = 0 /\ One(b \in Asking) = 1
      /\ One(a \in Stray) = 0 /\ One(b \in Stray) = 0
  BY <1>4, OfType DEF One
<1> HIDE DEF a, b
<1>6. /\ toBrick' \in Seq(Messages) /\ Number(toBrick', Asking) = 1 /\ Number(toBrick', Stray') = 0
      /\ DataB3Reqs(toBrick') = 0 /\ DisconnectB3Reqs(toBrick') = 0 /\ DisconnectResps(toBrick') = 0
  <2>1. <<a, b>> \in Seq(Messages) /\ \A T : Number(<<a, b>>, T) = One(a \in T) + One(b \in T)
    BY <1>4, NumberPair
  <2>2. /\ Number(<<a, b>>, Asking) = 1 /\ Number(<<a, b>>, Stray) = 0
        /\ DataB3Reqs(<<a, b>>) = 0 /\ DisconnectB3Reqs(<<a, b>>) = 0 /\ DisconnectResps(<<a, b>>) = 0
    BY <1>5, <2>1 DEF DataB3Reqs, DisconnectB3Reqs, DisconnectResps
  <2>3. Stray' = Stray
    BY <1>2 DEF Stray
  <2> QED  BY <1>2, <2>1, <2>2, <2>3
<1>7. /\ Turn = 1 /\ Coming(capi, toProg, Telling) = 0 /\ Busy(line) = 0 /\ Len(line.unconf) = 0
  <2>1. /\ Number(toBrick, Asking) \in Nat /\ Coming(capi, toProg, Telling) \in Nat
        /\ Busy(line) \in Nat /\ Len(line.unconf) \in Nat
        /\ Turn = Number(toBrick, Asking) + Coming(capi, toProg, Telling)
                  + (Begins(pc) + Busy(line) + Len(line.unconf))
    BY <1>1, TurnParts DEF Turn
  <2>2. Begins(pc) = 1
    BY <1>2 DEF Begins
  <2>3. Begins(pc) + Busy(line) + Len(line.unconf) = 1 + (Busy(line) + Len(line.unconf))
    BY <2>1, <2>2
  <2>4. Turn = 1 /\ Coming(capi, toProg, Telling) = 0 /\ Busy(line) + Len(line.unconf) = 0
    BY <1>1, <2>1, <2>3
  <2> QED  BY <2>1, <2>4
<1>8. Turn' = 1
  <2>1. line' \in Lines /\ capi' \in Messages /\ toProg' \in Seq(Messages)
    BY <1>1, <1>2
  <2>2. Turn' = Number(toBrick', Asking) + Coming(capi', toProg', Telling)
                  + (Begins(pc') + Busy(line') + Len(line'.unconf))
    BY <1>6, <2>1, TurnParts DEF Turn
  <2>3. Begins(pc') = 0 /\ Coming(capi', toProg', Telling) = 0 /\ Busy(line') = 0 /\ Len(line'.unconf) = 0
    BY <1>2, <1>7 DEF Begins
  <2> QED  BY <1>6, <2>2, <2>3
<1>9. /\ Coming(capi, toProg, Nameless) = 0 /\ ~(Coming(capi, toProg, Refusal) > 0)
      /\ line.st = "free" /\ line.end = "open" /\ DisconnectInds(capi, toProg) = 0
      /\ pos = 0 /\ line.got = <<>> /\ call.NotAcknowledged = 0
      /\ ConnectB3ActiveInds(capi, toProg) = 0 /\ DataB3Confs(capi, toProg) = 0
  <2>1. Coming(capi, toProg, Nameless) = 0 /\ ~(Coming(capi, toProg, Refusal) > 0)
    BY <1>1, <1>7 DEF Said
  <2> QED  BY <1>1, <1>2, <2>1 DEF Phases, Early
<1>10. Typed'
  BY <1>1, <1>2, <1>3, <1>6 DEF Typed
<1>11. Control'
  BY <1>1, <1>2, <1>3 DEF Control
<1>12. Said'
  <2>1. /\ Nameless' = Nameless /\ Refusal' = Refusal
    BY DEF Nameless, Refusal
  <2> QED  BY <1>2, <1>6, <1>9, <2>1 DEF Said
<1>13. Phases'
  BY <1>2, <1>3, <1>6, <1>9 DEF Phases
<1>14. Blocks'
  <2>1. line.unconf = <<>>
    BY <1>1, <1>9 DEF Blocks
  <2>2. /\ line'.st = "free" /\ line'.unconf = <<>> /\ line'.got = <<>> /\ call'.NotAcknowledged = 0
        /\ Len(line'.unconf) = 0 /\ DataB3Confs(capi', toProg') = 0
    BY <1>2, <1>3, <1>9, <2>1
  <2> QED  BY <1>6, <2>2 DEF Blocks
<1> QED
  BY <1>8, <1>10, <1>11, <1>12, <1>13, <1>14 DEF IInv

\* A message is got.
LEMMA GetStep ==
    ASSUME IInv, Get
    PROVE  IInv'
<1>1. /\ Typed /\ Control /\ Turn <= 1 /\ Said /\ Phases /\ Blocks
      /\ capi \in Messages /\ toBrick \in Seq(Messages) /\ toProg \in Seq(Messages) /\ line \in Lines
  BY DEF IInv, Typed
<1>2. /\ pc = "poll" /\ pc' = "event" /\ toProg # <<>> /\ capi' = Head(toProg) /\ toProg' = Tail(toProg)
      /\ call' = call /\ wait4dataconf' = wait4dataconf /\ size' = size /\ pos' = pos
      /\ conn' = conn /\ toBrick' = toBrick /\ line' = line
  BY DEF Get, file
<1>3. capi = NoMsg
  BY <1>1, <1>2 DEF Control
<1>4. capi' \in Messages /\ toProg' \in Seq(Messages)
  BY <1>1, <1>2
<1>5. ASSUME NEW T, NoMsg \notin T  PROVE Coming(capi', toProg', T) = Coming(capi, toProg, T)
  <2>1. Number(toProg, T) = One(Head(toProg) \in T) + Number(Tail(toProg), T)
    BY <1>1, <1>2, NumberTail
  <2>2. Number(toProg, T) \in Nat
    BY <1>1, NumberType
  <2>3. One(NoMsg \in T) = 0
    BY <1>5 DEF One
  <2> QED  BY <1>2, <1>3, <2>1, <2>2, <2>3 DEF Coming
<1>6. /\ ConnectActiveInds(capi', toProg') = ConnectActiveInds(capi, toProg)
      /\ ConnectB3ActiveInds(capi', toProg') = ConnectB3ActiveInds(capi, toProg)
      /\ DataB3Confs(capi', toProg') = DataB3Confs(capi, toProg)
      /\ DisconnectInds(capi', toProg') = DisconnectInds(capi, toProg)
  <2>1. {"CONNECTACTIVE_IND", "CONNECTB3ACTIVE_IND", "DATAB3_CONF", "DISCONNECT_IND"}
           \subseteq Types \ {"none"}
    BY DEF Types
  <2>2. \A u \in Types \ {"none"} : Coming(capi', toProg', Of(u)) = Coming(capi, toProg, Of(u))
    BY <1>5, NoMsgFacts
  <2> QED  BY <2>1, <2>2 DEF ConnectActiveInds, ConnectB3ActiveInds, DataB3Confs, DisconnectInds
<1>7. /\ Coming(capi', toProg', Nameless) = Coming(capi, toProg, Nameless)
      /\ Coming(capi', toProg', Refusal) = Coming(capi, toProg, Refusal)
      /\ Coming(capi', toProg', Telling) = Coming(capi, toProg, Telling)
  BY <1>5, NoMsgFacts
<1>8. Begins(pc') = Begins(pc) /\ Stray' = Stray
  BY <1>2 DEF Begins, Stray
<1>9. Turn' = Turn
  BY <1>2, <1>7, <1>8 DEF Turn, TurnOf
<1>10. Typed'
  BY <1>1, <1>2, <1>4 DEF Typed
<1>11. Control'
  BY <1>1, <1>2 DEF Control
<1>12. Said'
  BY <1>1, <1>2, <1>7, <1>8, <1>9 DEF Said
<1>13. Phases'
  <2>1. Early' => Early
    BY <1>2, <1>6 DEF Early
  <2> QED  BY <1>1, <1>2, <1>6, <2>1 DEF Phases
<1>14. Blocks'
  BY <1>1, <1>2, <1>6 DEF Blocks
<1> QED
  BY <1>1, <1>9, <1>10, <1>11, <1>12, <1>13, <1>14 DEF IInv

\* The connection is found broken.
LEMMA GetFailsStep ==
    ASSUME IInv, GetFails
    PROVE  IInv'
<1>1. /\ Typed /\ Control /\ Turn <= 1 /\ Said /\ Phases /\ Blocks
  BY DEF IInv
<1>2. /\ pc = "poll" /\ pc' = pc /\ capi' = capi /\ toProg' = toProg
      /\ call' = call /\ wait4dataconf' = wait4dataconf /\ size' = size /\ pos' = pos
      /\ conn' = "dead" /\ toBrick' = toBrick /\ line' = line
  BY DEF GetFails, file
<1>3. Turn' = Turn /\ Stray' = Stray /\ (Early' => Early)
  BY <1>2 DEF Turn, TurnOf, Stray, Early
<1>4. Typed'
  BY <1>1, <1>2 DEF Typed
<1>5. Control'
  BY <1>1, <1>2 DEF Control
<1>6. Said'
  BY <1>1, <1>2, <1>3 DEF Said
<1>7. Phases'
  BY <1>1, <1>2, <1>3 DEF Phases
<1>8. Blocks'
  BY <1>1, <1>2 DEF Blocks
<1> QED
  BY <1>1, <1>3, <1>4, <1>5, <1>6, <1>7, <1>8 DEF IInv

--------------------------------------------------------------------------------
(* The blocks *)

\* The program has the turn: it has been told that the fax connection is up, or that a
\* block has gone out.  It puts the messages out.
Told(type, out) ==
    /\ Typed /\ Control /\ Phases /\ Blocks
    /\ pc = "event" /\ capi.type = type /\ capi.b3 /\ pc' \in {"poll", "killed"}
    /\ capi' = NoMsg /\ NoMsg \in Messages
    /\ conn' \in {"up", "reset", "dead"} /\ (conn' = "up" <=> conn = "up")
    /\ toBrick' \in Seq(Messages) /\ toProg \in Seq(Messages) /\ toProg' = toProg
    /\ wait4dataconf' = wait4dataconf /\ size' = size /\ line' = line
    /\ line.unconf = <<>> /\ ~Early /\ line.st \notin {"dialling", "active", "b3asked"}
    /\ DataB3Reqs(toBrick) = 0
    /\ ConnectReqs(toBrick') = Put(out, Of("CONNECT_REQ"))
    /\ ConnectB3Reqs(toBrick') = Put(out, Of("CONNECTB3_REQ"))
    /\ DataB3Reqs(toBrick') = Put(out, Of("DATAB3_REQ"))
    /\ DisconnectB3Reqs(toBrick') = Put(out, Of("DISCONNECTB3_REQ"))
    /\ DisconnectB3Reqs(toBrick) = 0
    /\ DisconnectResps(toBrick') = DisconnectResps(toBrick) + Put(out, Of("DISCONNECT_RESP"))
    /\ DisconnectResps(toBrick) \in Nat
    /\ \A T : T \subseteq Of("DATAB3_REQ") => Number(toBrick', T) = Put(out, T)
    /\ ConnectActiveInds(capi', toProg') = 0
    /\ DataB3Confs(capi, toProg) = One(type = "DATAB3_CONF") /\ DataB3Confs(capi', toProg') = 0
    /\ DisconnectInds(capi', toProg') = DisconnectInds(capi, toProg)
    /\ Coming(capi', toProg', Nameless) = 0 /\ Coming(capi', toProg', Refusal) = 0
    /\ Turn' = Put(out, Asking)

LEMMA ToldFacts ==
    ASSUME IInv, NEW type \in {"CONNECTB3ACTIVE_IND", "DATAB3_CONF"}, Event(type),
           NEW out \in Seq(Messages), Sends(out, "poll")
    PROVE  Told(type, out)
<1>1. /\ Typed /\ Control /\ Turn <= 1 /\ Said /\ Phases /\ Blocks
      /\ capi \in Messages /\ toBrick \in Seq(Messages) /\ toProg \in Seq(Messages) /\ line \in Lines
  BY DEF IInv, Typed
<1>2. /\ pc = "event" /\ capi.type = type /\ pc' \in {"poll", "killed"}
      /\ capi' = NoMsg /\ NoMsg \in Messages
      /\ conn' \in {"up", "reset", "dead"} /\ (conn' = "up" <=> conn = "up")
      /\ toBrick' \in Seq(Messages) /\ toProg' = toProg
      /\ wait4dataconf' = wait4dataconf /\ size' = size /\ line' = line
  BY <1>1, Handled
<1>3. capi \in Telling /\ One(capi \in Telling) = 1 /\ capi \notin Refusal
  BY <1>1, <1>2, OfType DEF One
<1>4. /\ Coming(capi, toProg, Telling) = 1 /\ Number(toBrick, Asking) = 0 /\ Busy(line) = 0
      /\ Len(line.unconf) = 0 /\ Turn = 1 /\ Begins(pc) = 0 /\ Number(toProg, Telling) = 0
  <2>1. /\ Begins(pc) \in Nat /\ Number(toBrick, Asking) \in Nat /\ Coming(capi, toProg, Telling) \in Nat
        /\ Busy(line) \in Nat /\ Len(line.unconf) \in Nat
        /\ Turn = Number(toBrick, Asking) + Coming(capi, toProg, Telling)
                  + (Begins(pc) + Busy(line) + Len(line.unconf))
    BY <1>1, TurnParts DEF Turn
  <2>2. Coming(capi, toProg, Telling) = 1 + Number(toProg, Telling) /\ Number(toProg, Telling) \in Nat
    BY <1>1, <1>3, NumberType DEF Coming
  <2>3. Begins(pc) + Busy(line) + Len(line.unconf) \in Nat
    BY <2>1
  <2>4. /\ Coming(capi, toProg, Telling) = 1 /\ Number(toBrick, Asking) = 0 /\ Turn = 1
        /\ Begins(pc) + Busy(line) + Len(line.unconf) = 0
    BY <1>1, <2>1, <2>2, <2>3, SMTT(30)
  <2> QED  BY <2>1, <2>2, <2>4
<1>5. line.unconf = <<>>
  BY <1>1, <1>4 DEF Lines
<1>6. /\ ConnectReqs(toBrick) = 0 /\ ConnectB3Reqs(toBrick) = 0 /\ DataB3Reqs(toBrick) = 0
      /\ DisconnectB3Reqs(toBrick) = 0 /\ DisconnectResps(toBrick) \in Nat
  BY <1>1, <1>4, NoRequests, Requests
<1>7. \A T : Put(out, T) \in Nat
  BY PutType
<1>8. /\ ConnectReqs(toBrick') = Put(out, Of("CONNECT_REQ"))
      /\ ConnectB3Reqs(toBrick') = Put(out, Of("CONNECTB3_REQ"))
      /\ DataB3Reqs(toBrick') = Put(out, Of("DATAB3_REQ"))
      /\ DisconnectB3Reqs(toBrick') = Put(out, Of("DISCONNECTB3_REQ"))
      /\ DisconnectResps(toBrick') = DisconnectResps(toBrick) + Put(out, Of("DISCONNECT_RESP"))
      /\ Number(toBrick', Asking) = Put(out, Asking)
  <2>1. /\ ConnectReqs(toBrick') = ConnectReqs(toBrick) + Put(out, Of("CONNECT_REQ"))
        /\ ConnectB3Reqs(toBrick') = ConnectB3Reqs(toBrick) + Put(out, Of("CONNECTB3_REQ"))
        /\ DataB3Reqs(toBrick') = DataB3Reqs(toBrick) + Put(out, Of("DATAB3_REQ"))
        /\ DisconnectB3Reqs(toBrick') = DisconnectB3Reqs(toBrick) + Put(out, Of("DISCONNECTB3_REQ"))
        /\ DisconnectResps(toBrick') = DisconnectResps(toBrick) + Put(out, Of("DISCONNECT_RESP"))
        /\ Number(toBrick', Asking) = Number(toBrick, Asking) + Put(out, Asking)
    BY <1>1, HandledCounts
  <2> QED  BY <1>4, <1>6, <1>7, <2>1
<1>9. ASSUME NEW T, T \subseteq Of("DATAB3_REQ")  PROVE Number(toBrick', T) = Put(out, T)
  <2>1. Number(toBrick, T) \in Nat /\ Number(toBrick, T) <= DataB3Reqs(toBrick)
    BY <1>1, <1>9, NumberSubset, NumberType DEF DataB3Reqs
  <2>2. Number(toBrick, T) = 0
    BY <1>6, <2>1
  <2>3. Number(toBrick', T) = Number(toBrick, T) + (IF conn = "up" THEN Number(out, T) ELSE 0)
    BY <1>1, Handled
  <2>4. Number(out, T) \in Nat
    BY NumberType
  <2> QED  BY <2>2, <2>3, <2>4 DEF Put
<1>10. capi.b3
  <2>1. ~(capi \in Nameless)
    <3>1. Coming(capi, toProg, Nameless) = 0
      BY <1>1 DEF Said
    <3>2. Number(toProg, Nameless) \in Nat
      BY <1>1, NumberType
    <3> QED  BY <3>1, <3>2 DEF Coming, One
  <2> QED  BY <1>1, <1>2, <2>1, OfType
<1>11. /\ Coming(capi', toProg', Telling) = 0 /\ Coming(capi', toProg', Nameless) = 0
       /\ Coming(capi', toProg', Refusal) = 0
  <2>1. /\ Coming(capi', toProg', Telling) = Coming(capi, toProg, Telling) - One(capi \in Telling)
        /\ Coming(capi', toProg', Nameless) = Coming(capi, toProg, Nameless) - One(capi \in Nameless)
        /\ Coming(capi', toProg', Refusal) = Coming(capi, toProg, Refusal) - One(capi \in Refusal)
    BY <1>1, HandledCounts
  <2>2. One(capi \in Nameless) = 0 /\ One(capi \in Refusal) = 0
    BY <1>1, <1>10, OfType, <1>3 DEF One
  <2>3. Coming(capi, toProg, Refusal) = 0 /\ Coming(capi, toProg, Nameless) = 0
    <3>1. Coming(capi, toProg, Nameless) = 0 /\ ~(Coming(capi, toProg, Refusal) > 0)
      BY <1>1, <1>4 DEF Said
    <3>2. Coming(capi, toProg, Refusal) \in Nat
      BY <1>1, Indications
    <3> QED  BY <3>1, <3>2
  <2> QED  BY <1>3, <1>4, <2>1, <2>2, <2>3
<1>12. /\ ConnectActiveInds(capi', toProg') = 0 /\ DataB3Confs(capi', toProg') = 0
       /\ ConnectB3ActiveInds(capi', toProg') = 0
  BY <1>1, <1>2, <1>11, NoIndications
<1>13. /\ DataB3Confs(capi, toProg) = One(type = "DATAB3_CONF")
       /\ ConnectB3ActiveInds(capi, toProg) = One(type = "CONNECTB3ACTIVE_IND")
       /\ DisconnectInds(capi', toProg') = DisconnectInds(capi, toProg)
  <2>1. /\ ConnectB3ActiveInds(capi', toProg') = ConnectB3ActiveInds(capi, toProg) - One(type = "CONNECTB3ACTIVE_IND")
        /\ DataB3Confs(capi', toProg') = DataB3Confs(capi, toProg) - One(type = "DATAB3_CONF")
        /\ DisconnectInds(capi', toProg') = DisconnectInds(capi, toProg) - One(type = "DISCONNECT_IND")
    BY <1>1, HandledCounts
  <2>2. DataB3Confs(capi, toProg) \in Nat /\ ConnectB3ActiveInds(capi, toProg) \in Nat
        /\ DisconnectInds(capi, toProg) \in Nat
    BY <1>1, Indications
  <2>3. One(type = "CONNECTB3ACTIVE_IND") \in Nat /\ One(type = "DATAB3_CONF") \in Nat
        /\ One(type = "DISCONNECT_IND") = 0
    BY DEF One
  <2> QED  BY <1>12, <2>1, <2>2, <2>3
<1>14. ~Early /\ line.st \notin {"dialling", "active", "b3asked"}
  <2>1. ~(ConnectB3ActiveInds(capi, toProg) = 0 /\ DataB3Confs(capi, toProg) = 0)
    BY <1>13 DEF One
  <2>2. ~Early
    BY <1>1, <2>1 DEF Phases
  <2> QED  BY <2>2 DEF Early
<1>15. Turn' = Put(out, Asking)
  <2>1. line' \in Lines /\ capi' \in Messages /\ toProg' \in Seq(Messages)
    BY <1>1, <1>2
  <2>2. Turn' = Number(toBrick', Asking) + Coming(capi', toProg', Telling)
                  + (Begins(pc') + Busy(line') + Len(line'.unconf))
    BY <1>2, <2>1, TurnParts, SMTT(30) DEF Turn
  <2>3. Begins(pc') = 0 /\ Busy(line') = 0 /\ Len(line'.unconf) = 0
    BY <1>2, <1>4 DEF Begins
  <2> QED  BY <1>7, <1>8, <1>11, <2>2, <2>3
<1> QED
  BY <1>1, <1>2, <1>5, <1>6, <1>8, <1>9, <1>10, <1>11, <1>12, <1>13, <1>14, <1>15 DEF Told

\* It counts the block it sends, if it sends one, and the confirmation, if it has got one.
Counted(type, out) ==
    /\ call' \in Calls /\ call'.there = call.there /\ call'.plci = call.plci /\ call'.b3 = call.b3
    /\ pos' \in 0 .. size /\ pos' = pos + Number(out, Of("DATAB3_REQ"))
    /\ call'.NotAcknowledged = call.NotAcknowledged - One(type = "DATAB3_CONF")
                               + Number(out, Of("DATAB3_REQ"))
    /\ Number(out, Of("CONNECT_REQ")) = 0 /\ Number(out, Of("CONNECTB3_REQ")) = 0
    /\ Number(out, Of("DISCONNECT_RESP")) = 0 /\ Number(out, Asking) <= 1
    /\ Number(out, Stray') = 0
    /\ Number(out, Of("DISCONNECTB3_REQ")) > 0 => pos' = size

LEMMA Continues ==
    ASSUME IInv, NEW type \in {"CONNECTB3ACTIVE_IND", "DATAB3_CONF"}, Event(type),
           NEW out \in Seq(Messages), Sends(out, "poll"), call.b3, Counted(type, out)
    PROVE  IInv'
<1>1. Told(type, out)
  BY ToldFacts
<1>2. /\ pos \in Nat /\ size \in Nat /\ Len(line.got) \in Nat /\ call.NotAcknowledged \in Nat
      /\ size \in 0 .. MaxBlocks /\ wait4dataconf \in BOOLEAN /\ line \in Lines
      /\ call.NotAcknowledged <= pos /\ (call.b3 => call.plci)
  BY <1>1, NumbersType DEF Told, Typed
<1>3. \A T : Number(out, T) \in Nat /\ Put(out, T) \in Nat /\ Put(out, T) <= Number(out, T)
  BY PutType
<1>4. /\ pc' \in {"poll", "killed"} /\ pc' # "init" /\ capi' = NoMsg /\ capi' \in Messages
      /\ conn' \in {"up", "reset", "dead"} /\ (conn' = "up" <=> conn = "up")
      /\ toBrick' \in Seq(Messages) /\ toProg' \in Seq(Messages)
      /\ wait4dataconf' = wait4dataconf /\ size' = size /\ line' = line
  BY <1>1 DEF Told
<1>5. /\ ConnectReqs(toBrick') = 0 /\ ConnectB3Reqs(toBrick') = 0 /\ Number(toBrick', Stray') = 0
      /\ DisconnectB3Reqs(toBrick') > 0 => pos' = size
      /\ DisconnectResps(toBrick') = DisconnectResps(toBrick)
      /\ Turn' <= 1
  <2>1. /\ Put(out, Of("CONNECT_REQ")) = 0 /\ Put(out, Of("CONNECTB3_REQ")) = 0
        /\ Put(out, Of("DISCONNECT_RESP")) = 0 /\ Put(out, Stray') = 0
        /\ Put(out, Asking) \in {0, 1}
        /\ Put(out, Of("DISCONNECTB3_REQ")) > 0 => pos' = size
    BY <1>3 DEF Put, Counted
  <2>2. Number(toBrick', Stray') = Put(out, Stray')
    <3>1. Stray' \subseteq Of("DATAB3_REQ")
      BY DEF Stray
    <3> QED  BY <1>1, <3>1 DEF Told
  <2>3. Turn' = 0 \/ Turn' = 1
    BY <1>1, <2>1 DEF Told
  <2> QED  BY <1>1, <2>1, <2>2, <2>3 DEF Told
<1>6. /\ line.unconf = <<>> /\ Len(line.unconf) = 0 /\ DataB3Confs(capi', toProg') = 0
      /\ DataB3Reqs(toBrick') = Put(out, Of("DATAB3_REQ"))
      /\ Coming(capi', toProg', Nameless) = 0 /\ Coming(capi', toProg', Refusal) = 0
      /\ DisconnectInds(capi', toProg') = DisconnectInds(capi, toProg)
  BY <1>1 DEF Told
\* The counts.
<1>7. /\ call'.NotAcknowledged \in Nat /\ pos' \in Nat
      /\ call'.NotAcknowledged <= pos'
      /\ call'.NotAcknowledged >= Number(out, Of("DATAB3_REQ"))
      /\ conn = "up" /\ line.st = "b3up" =>
            /\ call'.NotAcknowledged = Number(out, Of("DATAB3_REQ"))
            /\ pos' = Len(line.got) + Number(out, Of("DATAB3_REQ"))
  <2> DEFINE n == Number(out, Of("DATAB3_REQ"))
             o == One(type = "DATAB3_CONF")
             k == call.NotAcknowledged
  <2>1. /\ k >= 0 + 0 + o /\ (conn = "up" /\ line.st = "b3up" => k = 0 + 0 + o /\ pos = Len(line.got) + 0 + 0)
    <3>1. DataB3Reqs(toBrick) = 0 /\ DataB3Confs(capi, toProg) = o /\ Blocks
      BY <1>1 DEF Told
    <3> QED  BY <1>6, <3>1 DEF Blocks
  <2>2. n \in Nat /\ o \in Nat /\ k \in Nat
    BY <1>2, <1>3 DEF One
  <2>3. call'.NotAcknowledged = k - o + n /\ pos' = pos + n
    BY DEF Counted
  <2> HIDE DEF n, o, k
  <2>4. k - o + n \in Nat /\ pos + n \in Nat /\ k - o + n >= n
    BY <1>2, <2>1, <2>2
  <2>5. k - o + n <= pos + n
    BY <1>2, <2>1, <2>2 DEF k
  <2>6. conn = "up" /\ line.st = "b3up" => k - o + n = n /\ pos + n = Len(line.got) + n
    BY <1>2, <2>1, <2>2
  <2>7. /\ call'.NotAcknowledged \in Nat /\ pos' \in Nat /\ call'.NotAcknowledged <= pos'
        /\ call'.NotAcknowledged >= n
        /\ conn = "up" /\ line.st = "b3up" => call'.NotAcknowledged = n /\ pos' = Len(line.got) + n
    BY <2>3, <2>4, <2>5, <2>6, Zenon
  <2> QED  BY <2>7 DEF n
\* The invariant.
<1>8. Typed'
  <2>1. call' \in Calls /\ (call'.b3 => call'.plci) /\ pos' \in 0 .. size'
    BY <1>2, <1>4 DEF Counted
  <2> QED  BY <1>2, <1>4, <1>7, <2>1 DEF Typed
<1>9. Control'
  <2>1. call.there
    BY <1>1 DEF Told, Control
  <2> QED  BY <1>4, <2>1 DEF Control, Counted
<1>10. Said'
  BY <1>5, <1>6 DEF Said
<1>11. Phases'
  <2>1. /\ line.st \in {"dialling", "active", "b3asked", "b3up"} => line.end = "open"
        /\ DisconnectResps(toBrick) > 0 \/ DisconnectInds(capi, toProg) > 0 => line.st \in {"free", "clearing"}
    BY <1>1 DEF Phases, Told
  <2>2. ~Early'
    <3>1. line.st \notin {"dialling", "active", "b3asked"} /\ ConnectActiveInds(capi', toProg') = 0
      BY <1>1 DEF Told
    <3> QED  BY <1>4, <1>5, <3>1 DEF Early
  <2> QED  BY <1>4, <1>5, <1>6, <2>1, <2>2 DEF Phases
<1>12. Blocks'
  <2>1. /\ \A n \in DOMAIN line'.got : line'.got[n] = n
        /\ line'.unconf = <<>> /\ Len(line'.unconf) = 0
    BY <1>1, <1>4, <1>6 DEF Blocks, Told
  <2>2. call'.b3
    BY Zenon DEF Counted
  <2>3. DataB3Reqs(toBrick') \in Nat /\ DataB3Reqs(toBrick') <= Number(out, Of("DATAB3_REQ"))
        /\ (conn = "up" => DataB3Reqs(toBrick') = Number(out, Of("DATAB3_REQ")))
    BY <1>3, <1>6 DEF Put
  <2>4. call'.NotAcknowledged >= DataB3Reqs(toBrick') + Len(line'.unconf) + DataB3Confs(capi', toProg')
    <3>1. call'.NotAcknowledged >= DataB3Reqs(toBrick')
      BY <1>3, <1>7, <2>3
    <3> QED  BY <1>6, <2>1, <2>3, <3>1
  <2>5. conn' = "up" /\ line'.st = "b3up" =>
          /\ call'.NotAcknowledged = DataB3Reqs(toBrick') + Len(line'.unconf) + DataB3Confs(capi', toProg')
          /\ pos' = Len(line'.got) + Len(line'.unconf) + DataB3Reqs(toBrick')
          /\ DisconnectB3Reqs(toBrick') > 0 => pos' = size'
    <3>1. HAVE conn' = "up" /\ line'.st = "b3up"
    <3>2. /\ call'.NotAcknowledged = DataB3Reqs(toBrick')
          /\ pos' = Len(line'.got) + DataB3Reqs(toBrick')
      BY <1>4, <1>7, <2>3, <3>1
    <3>3. Len(line'.got) \in Nat
      BY <1>2, <1>4
    <3>4. call'.NotAcknowledged = DataB3Reqs(toBrick') + Len(line'.unconf) + DataB3Confs(capi', toProg')
      BY <1>6, <2>1, <2>3, <3>2
    <3>5. pos' = Len(line'.got) + Len(line'.unconf) + DataB3Reqs(toBrick')
      BY <2>1, <2>3, <3>2, <3>3
    <3>6. DisconnectB3Reqs(toBrick') > 0 => pos' = size'
      BY <1>4, <1>5
    <3> QED  BY <3>4, <3>5, <3>6
  <2> QED  BY <2>1, <2>2, <2>4, <2>5 DEF Blocks
<1> QED
  BY <1>5, <1>8, <1>9, <1>10, <1>11, <1>12 DEF IInv

\* The request at the end of the file, if there is one.
LEMMA DoDisconnectFacts ==
    ASSUME NEW c \in Calls
    PROVE  LET quit == DoDisconnect(c)
           IN  /\ quit.call \in Calls /\ quit.call.there = c.there /\ quit.call.plci = c.plci
               /\ quit.call.b3 = c.b3 /\ quit.call.NotAcknowledged = c.NotAcknowledged
               /\ quit.ms \in {<<>>, <<B("DISCONNECTB3_REQ", 0)>>, <<D("DISCONNECT_REQ", 0)>>}
<1> DEFINE d == [c EXCEPT !.state = "D_DisconnectPending"]
<1>1. /\ d \in Calls /\ d.there = c.there /\ d.plci = c.plci /\ d.b3 = c.b3
      /\ d.NotAcknowledged = c.NotAcknowledged
  BY DEF Calls, CallStates
<1>2. CASE c.state \in {"B_ConnectPending", "Connected"}
  <2>1. DoDisconnect(c) = [call |-> c, ms |-> IF wait4dataconf /\ c.NotAcknowledged > 0
                                                THEN <<>> ELSE <<B("DISCONNECTB3_REQ", 0)>>]
    BY <1>2 DEF DoDisconnect
  <2> QED  BY <2>1
<1>3. CASE c.state \in {"D_ConnectPending", "B_DisconnectPending"}
  <2>1. DoDisconnect(c) = [call |-> d, ms |-> <<D("DISCONNECT_REQ", 0)>>]
    BY <1>3 DEF DoDisconnect
  <2>2. DoDisconnect(c).call = d /\ DoDisconnect(c).ms = <<D("DISCONNECT_REQ", 0)>>
    BY <2>1
  <2> QED  BY <1>1, <2>2, Zenon
<1>4. CASE c.state \notin {"B_ConnectPending", "Connected", "D_ConnectPending", "B_DisconnectPending"}
  <2>1. DoDisconnect(c) = [call |-> c, ms |-> <<>>]
    BY <1>4 DEF DoDisconnect
  <2> QED  BY <2>1
<1> QED  BY <1>2, <1>3, <1>4

\* The requests and responses that are put, whatever is behind them.
LEMMA NumberBehind ==
    ASSUME NEW ms \in Seq(Messages), Number(ms, Asking) = 0, NEW r \in Seq(Messages)
    PROVE  /\ ms \o r \in Seq(Messages)
           /\ \A T : T \subseteq Asking => Number(ms \o r, T) = Number(r, T)
           /\ \A T : Number(ms \o r, T) = Number(ms, T) + Number(r, T)
<1>1. \A T : Number(ms \o r, T) = Number(ms, T) + Number(r, T)
  BY NumberConcat
<1>2. ASSUME NEW T, T \subseteq Asking  PROVE Number(ms \o r, T) = Number(r, T)
  <2>1. Number(ms, T) <= Number(ms, Asking) /\ Number(ms, T) \in Nat /\ Number(r, T) \in Nat
    BY <1>2, NumberSubset, NumberType
  <2>2. Number(ms, T) = 0
    BY <2>1
  <2>3. Number(ms \o r, T) = Number(ms, T) + Number(r, T)
    BY <1>1
  <2> QED  BY <2>1, <2>2, <2>3
<1>3. ms \o r \in Seq(Messages)
  OBVIOUS
<1> QED  BY <1>1, <1>2, <1>3

LEMMA AskingParts ==
    /\ Of("CONNECT_REQ") \subseteq Asking /\ Of("CONNECTB3_REQ") \subseteq Asking
    /\ Of("DATAB3_REQ") \subseteq Asking /\ Of("DISCONNECTB3_REQ") \subseteq Asking
    /\ Asking \subseteq Asking /\ Stray \subseteq Asking /\ Stray' \subseteq Asking
BY DEF Of, Asking, Stray

\* One message at most is put behind ms.
Behind(c, ms, r) ==
    /\ Sends(ms \o r, "poll")
    /\ Number(r, Of("CONNECT_REQ")) = 0 /\ Number(r, Of("CONNECTB3_REQ")) = 0
    /\ Number(r, Of("DISCONNECT_RESP")) = 0 /\ Number(r, Asking) <= 1
    /\ pos' = pos + Number(r, Of("DATAB3_REQ")) /\ pos' \in 0 .. size
    /\ Number(r, Stray') = 0
    /\ Number(r, Of("DISCONNECTB3_REQ")) > 0 => pos' = size
    /\ call' \in Calls /\ call'.there = c.there /\ call'.plci = c.plci /\ call'.b3 = c.b3
    /\ call'.NotAcknowledged = c.NotAcknowledged + Number(r, Of("DATAB3_REQ"))

\* SendData.
LEMMA SendDataStep ==
    ASSUME IInv, NEW type \in {"CONNECTB3ACTIVE_IND", "DATAB3_CONF"}, Event(type), call.b3,
           NEW c \in Calls, c.there = call.there, c.plci = call.plci, c.b3 = call.b3,
           c.NotAcknowledged = call.NotAcknowledged - One(type = "DATAB3_CONF"),
           NEW ms \in Seq(Messages), Number(ms, Asking) = 0, Number(ms, Of("DISCONNECT_RESP")) = 0,
           SendData(c, ms, "poll")
    PROVE  IInv'
<1>1. Typed /\ pos \in Nat /\ size \in Nat /\ pos \in 0 .. size /\ c.NotAcknowledged \in Nat
      /\ size' = size
  BY NumbersType DEF IInv, Typed, Calls, Event
<1>2. ASSUME NEW r \in Seq(Messages), Behind(c, ms, r)
      PROVE  IInv'
  <2> USE DEF Behind
  <2> DEFINE out == ms \o r
  <2>1. /\ out \in Seq(Messages)
        /\ Number(out, Of("CONNECT_REQ")) = Number(r, Of("CONNECT_REQ"))
        /\ Number(out, Of("CONNECTB3_REQ")) = Number(r, Of("CONNECTB3_REQ"))
        /\ Number(out, Of("DATAB3_REQ")) = Number(r, Of("DATAB3_REQ"))
        /\ Number(out, Of("DISCONNECTB3_REQ")) = Number(r, Of("DISCONNECTB3_REQ"))
        /\ Number(out, Asking) = Number(r, Asking)
        /\ Number(out, Stray') = Number(r, Stray')
    BY NumberBehind, AskingParts
  <2>2. Number(out, Of("DISCONNECT_RESP")) = 0
    <3>1. Number(out, Of("DISCONNECT_RESP")) = Number(ms, Of("DISCONNECT_RESP")) + Number(r, Of("DISCONNECT_RESP"))
      BY NumberBehind
    <3> QED  BY <1>2, <3>1
  <2> HIDE DEF out
  <2>3. call'.NotAcknowledged = call.NotAcknowledged - One(type = "DATAB3_CONF") + Number(out, Of("DATAB3_REQ"))
    BY <1>2, <2>1
  <2>4. call'.there = call.there /\ call'.plci = call.plci /\ call'.b3 = call.b3
    BY <1>2, Zenon
  <2>5. Counted(type, out)
    BY <1>2, <2>1, <2>2, <2>3, <2>4 DEF Counted
  <2>6. Sends(out, "poll")
    BY <1>2 DEF out
  <2> QED  BY <2>1, <2>5, <2>6, Continues
<1>3. /\ <<>> \in Seq(Messages) /\ ms \o <<>> = ms
      /\ \A T : Number(<<>>, T) = 0
  BY NoneThere
<1>4. ASSUME NEW a \in Messages
      PROVE  <<a>> \in Seq(Messages) /\ \A T : Number(<<a>>, T) = One(a \in T)
  BY <1>4, NumberOne
<1>5. CASE ~c.doSend /\ call' = c /\ pos' = pos /\ Sends(ms, "poll")
  <2>1. call' \in Calls /\ call'.there = c.there /\ call'.plci = c.plci /\ call'.b3 = c.b3
    BY <1>5
  <2>2. call'.NotAcknowledged = c.NotAcknowledged + Number(<<>>, Of("DATAB3_REQ"))
        /\ pos' = pos + Number(<<>>, Of("DATAB3_REQ"))
    BY <1>1, <1>3, <1>5
  <2>3. Sends(ms \o <<>>, "poll") /\ pos' \in 0 .. size
    BY <1>1, <1>3, <1>5
  <2>4. Behind(c, ms, <<>>)
    BY <1>3, <2>1, <2>2, <2>3 DEF Behind
  <2> QED  BY <1>2, <1>3, <2>4
<1>6. CASE /\ c.doSend /\ pos = size /\ pos' = pos
           /\ LET quit == DoDisconnect([c EXCEPT !.doSend = FALSE])
              IN  call' = quit.call /\ Sends(ms \o quit.ms, "poll")
  <2> DEFINE d == [c EXCEPT !.doSend = FALSE]
             r == DoDisconnect(d).ms
  <2>1. /\ d \in Calls /\ d.there = c.there /\ d.plci = c.plci /\ d.b3 = c.b3
        /\ d.NotAcknowledged = c.NotAcknowledged
    <3>1. FALSE \in BOOLEAN
      OBVIOUS
    <3> QED  BY <3>1, Zenon DEF Calls
  <2>2. /\ call' \in Calls /\ call'.there = c.there /\ call'.plci = c.plci /\ call'.b3 = c.b3
        /\ call'.NotAcknowledged = c.NotAcknowledged
        /\ r \in {<<>>, <<B("DISCONNECTB3_REQ", 0)>>, <<D("DISCONNECT_REQ", 0)>>}
        /\ Sends(ms \o r, "poll")
    <3> HIDE DEF d
    <3>1. /\ DoDisconnect(d).call \in Calls /\ DoDisconnect(d).call.there = d.there
          /\ DoDisconnect(d).call.plci = d.plci /\ DoDisconnect(d).call.b3 = d.b3
          /\ DoDisconnect(d).call.NotAcknowledged = d.NotAcknowledged
          /\ r \in {<<>>, <<B("DISCONNECTB3_REQ", 0)>>, <<D("DISCONNECT_REQ", 0)>>}
      BY <2>1, DoDisconnectFacts
    <3>2. call' = DoDisconnect(d).call /\ Sends(ms \o r, "poll")
      BY <1>6 DEF d
    <3> QED  BY <2>1, <3>1, <3>2, Zenon
  <2> HIDE DEF d, r
  <2>3. /\ r \in Seq(Messages)
        /\ Number(r, Of("CONNECT_REQ")) = 0 /\ Number(r, Of("CONNECTB3_REQ")) = 0
        /\ Number(r, Of("DISCONNECT_RESP")) = 0 /\ Number(r, Asking) <= 1
        /\ Number(r, Of("DATAB3_REQ")) = 0 /\ Number(r, Stray') = 0
    <3>1. ASSUME NEW a \in Messages, a.type \in {"DISCONNECTB3_REQ", "DISCONNECT_REQ"}
          PROVE  /\ One(a \in Of("CONNECT_REQ")) = 0 /\ One(a \in Of("CONNECTB3_REQ")) = 0
                 /\ One(a \in Of("DISCONNECT_RESP")) = 0 /\ One(a \in Asking) <= 1
                 /\ One(a \in Of("DATAB3_REQ")) = 0 /\ One(a \in Stray') = 0
      <4>1. a \notin Stray'
        BY <3>1 DEF Stray, Of
      <4> QED  BY <3>1, <4>1, OfType DEF One
    <3>2. /\ B("DISCONNECTB3_REQ", 0) \in Messages /\ B("DISCONNECTB3_REQ", 0).type = "DISCONNECTB3_REQ"
          /\ D("DISCONNECT_REQ", 0) \in Messages /\ D("DISCONNECT_REQ", 0).type = "DISCONNECT_REQ"
      BY Made DEF Types
    <3>3. CASE r = <<>>
      BY <1>3, <3>3
    <3>4. CASE \E a \in Messages : a.type \in {"DISCONNECTB3_REQ", "DISCONNECT_REQ"} /\ r = <<a>>
      BY <1>4, <3>1, <3>4
    <3> QED  BY <2>2, <3>2, <3>3, <3>4
  <2>4. /\ call'.NotAcknowledged = c.NotAcknowledged + Number(r, Of("DATAB3_REQ"))
        /\ pos' = pos + Number(r, Of("DATAB3_REQ")) /\ pos' \in 0 .. size /\ pos' = size
    BY <1>1, <1>6, <2>2, <2>3
  <2>5. Behind(c, ms, r)
    BY <2>2, <2>3, <2>4 DEF Behind
  <2> QED  BY <1>2, <2>3, <2>5
<1>7. CASE /\ c.doSend /\ pos < size /\ pos' = pos + 1 /\ call' = OneMore(c)
           /\ Sends(Append(ms, B("DATAB3_REQ", pos')), "poll")
  <2> DEFINE a == B("DATAB3_REQ", pos')
  <2>1. pos' \in Nat /\ pos' \in 0 .. size /\ pos' = pos + 1
    BY <1>1, <1>7
  <2>2. a \in Messages /\ a.type = "DATAB3_REQ" /\ a.b3 /\ a.info = pos'
    <3>1. "DATAB3_REQ" \in Types
      BY DEF Types
    <3> QED  BY <2>1, <3>1, Made
  <2>3. /\ call' \in Calls /\ call'.there = c.there /\ call'.plci = c.plci /\ call'.b3 = c.b3
        /\ call'.NotAcknowledged = c.NotAcknowledged + 1
    <3>1. call' = [c EXCEPT !.NotAcknowledged = c.NotAcknowledged + 1]
      BY <1>7 DEF OneMore
    <3>2. c.NotAcknowledged + 1 \in Nat
      BY <1>1
    <3>3. call' \in Calls /\ call'.NotAcknowledged = c.NotAcknowledged + 1
      BY <3>1, <3>2 DEF Calls
    <3>4. call'.there = c.there /\ call'.plci = c.plci /\ call'.b3 = c.b3
      BY <3>1, Zenon DEF Calls
    <3> QED  BY <3>3, <3>4
  <2> HIDE DEF a
  <2>4. Sends(ms \o <<a>>, "poll") /\ <<a>> \in Seq(Messages)
    <3>1. Sends(Append(ms, a), "poll")
      BY <1>7 DEF a
    <3>2. Append(ms, a) = ms \o <<a>>
      BY <2>2
    <3> QED  BY <2>2, <3>1, <3>2
  <2>5. /\ Number(<<a>>, Of("CONNECT_REQ")) = 0 /\ Number(<<a>>, Of("CONNECTB3_REQ")) = 0
        /\ Number(<<a>>, Of("DISCONNECT_RESP")) = 0 /\ Number(<<a>>, Asking) <= 1
        /\ Number(<<a>>, Of("DATAB3_REQ")) = 1 /\ Number(<<a>>, Of("DISCONNECTB3_REQ")) = 0
    BY <1>4, <2>2, OfType DEF One
  <2>6. Number(<<a>>, Stray') = 0
    <3>1. a \notin Stray'
      BY <2>2 DEF Stray
    <3> QED  BY <1>4, <2>2, <3>1 DEF One
  <2>7. /\ pos' = pos + Number(<<a>>, Of("DATAB3_REQ"))
        /\ call'.NotAcknowledged = c.NotAcknowledged + Number(<<a>>, Of("DATAB3_REQ"))
        /\ ~(Number(<<a>>, Of("DISCONNECTB3_REQ")) > 0)
    BY <2>1, <2>3, <2>5
  <2>8. Behind(c, ms, <<a>>)
    BY <2>1, <2>3, <2>4, <2>5, <2>6, <2>7 DEF Behind
  <2> QED  BY <1>2, <2>4, <2>8
<1> QED
  BY <1>5, <1>6, <1>7 DEF SendData

--------------------------------------------------------------------------------
(* The handlers *)

\* The requests and responses they put.
LEMMA Responses ==
    ASSUME NEW a \in Messages,
           a.type \in {"INFO_RESP", "CONNECTACTIVE_RESP", "CONNECTB3ACTIVE_RESP", "CONNECTB3_REQ",
                       "DISCONNECTB3_RESP", "DISCONNECT_REQ", "DISCONNECT_RESP"}
    PROVE  /\ One(a \in Of("CONNECT_REQ")) = 0 /\ One(a \in Of("DATAB3_REQ")) = 0
           /\ One(a \in Of("DISCONNECTB3_REQ")) = 0
           /\ One(a \in Of("CONNECTB3_REQ")) = One(a.type = "CONNECTB3_REQ")
           /\ One(a \in Asking) = One(a.type = "CONNECTB3_REQ")
           /\ One(a \in Of("DISCONNECT_RESP")) = One(a.type = "DISCONNECT_RESP")
BY OfType DEF One

\* What they put, as QuietStep has it: a request for the fax connection behind
\* CONNECTACTIVE_IND only, the last response behind DISCONNECT_IND only.
Answering(type, ms) ==
    /\ ms \in Seq(Messages)
    /\ Number(ms, Of("CONNECT_REQ")) = 0 /\ Number(ms, Of("DATAB3_REQ")) = 0
    /\ Number(ms, Of("DISCONNECTB3_REQ")) = 0
    /\ Number(ms, Of("CONNECTB3_REQ")) <= One(type = "CONNECTACTIVE_IND")
    /\ Number(ms, Asking) <= One(type = "CONNECTACTIVE_IND")
    /\ Number(ms, Of("DISCONNECT_RESP")) <= One(type = "DISCONNECT_IND")

LEMMA AnsweringOnes ==
    ASSUME NEW type
    PROVE  /\ Answering(type, <<>>)
           /\ \A a \in Messages :
                 \/ a.type \in {"INFO_RESP", "CONNECTACTIVE_RESP", "CONNECTB3ACTIVE_RESP"}
                 \/ a.type = "DISCONNECT_RESP" /\ type = "DISCONNECT_IND"
                 => Answering(type, <<a>>)
           /\ \A a, b \in Messages :
                 \/ a.type = "DISCONNECTB3_RESP" /\ b.type = "DISCONNECT_REQ"
                 \/ a.type = "CONNECTACTIVE_RESP" /\ b.type = "CONNECTB3_REQ" /\ type = "CONNECTACTIVE_IND"
                 => Answering(type, <<a, b>>)
<1>1. One(type = "CONNECTACTIVE_IND") \in Nat /\ One(type = "DISCONNECT_IND") \in Nat
      /\ (type = "CONNECTACTIVE_IND" => One(type = "CONNECTACTIVE_IND") = 1)
      /\ (type = "DISCONNECT_IND" => One(type = "DISCONNECT_IND") = 1)
  BY DEF One
<1>2. Answering(type, <<>>)
  BY <1>1, NoneThere DEF Answering
<1>3. ASSUME NEW a \in Messages,
             \/ a.type \in {"INFO_RESP", "CONNECTACTIVE_RESP", "CONNECTB3ACTIVE_RESP"}
             \/ a.type = "DISCONNECT_RESP" /\ type = "DISCONNECT_IND"
      PROVE  Answering(type, <<a>>)
  <2>1. <<a>> \in Seq(Messages) /\ \A T : Number(<<a>>, T) = One(a \in T)
    BY NumberOne
  <2>2. One(a.type = "CONNECTB3_REQ") = 0 /\ One(a.type = "DISCONNECT_RESP") <= One(type = "DISCONNECT_IND")
    BY <1>1, <1>3 DEF One
  <2> QED  BY <1>1, <1>3, <2>1, <2>2, Responses DEF Answering
<1>4. ASSUME NEW a \in Messages, NEW b \in Messages,
             \/ a.type = "DISCONNECTB3_RESP" /\ b.type = "DISCONNECT_REQ"
             \/ a.type = "CONNECTACTIVE_RESP" /\ b.type = "CONNECTB3_REQ" /\ type = "CONNECTACTIVE_IND"
      PROVE  Answering(type, <<a, b>>)
  <2>1. <<a, b>> \in Seq(Messages) /\ \A T : Number(<<a, b>>, T) = One(a \in T) + One(b \in T)
    BY NumberPair
  <2>2. /\ One(a.type = "CONNECTB3_REQ") = 0 /\ One(a.type = "DISCONNECT_RESP") = 0
        /\ One(b.type = "DISCONNECT_RESP") = 0
        /\ One(b.type = "CONNECTB3_REQ") <= One(type = "CONNECTACTIVE_IND")
        /\ One(b.type = "CONNECTB3_REQ") \in Nat
    BY <1>1, <1>4 DEF One
  <2>3. /\ One(a \in Of("CONNECT_REQ")) = 0 /\ One(a \in Of("DATAB3_REQ")) = 0
        /\ One(a \in Of("DISCONNECTB3_REQ")) = 0 /\ One(a \in Of("CONNECTB3_REQ")) = 0
        /\ One(a \in Asking) = 0 /\ One(a \in Of("DISCONNECT_RESP")) = 0
    BY <1>4, <2>2, Responses
  <2>4. /\ One(b \in Of("CONNECT_REQ")) = 0 /\ One(b \in Of("DATAB3_REQ")) = 0
        /\ One(b \in Of("DISCONNECTB3_REQ")) = 0
        /\ One(b \in Of("CONNECTB3_REQ")) = One(b.type = "CONNECTB3_REQ")
        /\ One(b \in Asking) = One(b.type = "CONNECTB3_REQ")
        /\ One(b \in Of("DISCONNECT_RESP")) = 0
    BY <1>4, <2>2, Responses
  <2> QED  BY <1>1, <2>1, <2>2, <2>3, <2>4 DEF Answering
<1> QED  BY <1>2, <1>3, <1>4, Zenon

\* The call with a new state.
LEMMA NewStates ==
    ASSUME Typed, NEW state \in CallStates
    PROVE  /\ NewState(state) \in Calls /\ NewState(state).there = call.there
           /\ NewState(state).plci = call.plci /\ NewState(state).b3 = call.b3
           /\ NewState(state).NotAcknowledged = call.NotAcknowledged
BY DEF Typed, NewState, Calls

\* Such a handler, for a call whose connections stay as they are.
LEMMA Keeps ==
    ASSUME IInv, NEW type, NEW ms, NEW next \in {"poll", "exit"},
           Event(type), type # "DATAB3_CONF", Answering(type, ms), Sends(ms, next), pos' = pos,
           call' \in Calls, call'.NotAcknowledged = call.NotAcknowledged,
           call'.plci = call.plci, call'.b3 = call.b3, next = "poll" => call'.there = call.there
    PROVE  IInv'
<1>1. Typed /\ Blocks
  BY DEF IInv
<1>2. (call.b3 => call.plci) /\ (call.NotAcknowledged > 0 => call.b3)
  BY <1>1 DEF Typed, Blocks
<1>3. (call'.b3 => call'.plci) /\ (call.NotAcknowledged > 0 => call'.b3)
  BY <1>2, Zenon
<1>4. QuietStep(type, ms, next)
  BY <1>3 DEF QuietStep, Answering
<1> QED  BY <1>4, Quiet DEF Answering

\* handleConnectB3ActiveInd and handleDataB3Conf.
LEMMA BlockEvents ==
    ASSUME IInv, ConnectB3ActiveInd \/ DataB3Conf
    PROVE  IInv'
<1>1. /\ Typed /\ Control /\ Blocks /\ call \in Calls /\ call.NotAcknowledged \in Nat
      /\ capi \in Messages /\ toProg \in Seq(Messages)
  BY DEF IInv, Typed, Calls
<1>2. ASSUME NEW type \in {"CONNECTB3ACTIVE_IND", "DATAB3_CONF"}, Event(type)  PROVE capi.b3
  <2>1. Coming(capi, toProg, Nameless) = 0
    BY DEF IInv, Said
  <2>2. Number(toProg, Nameless) \in Nat
    BY <1>1, NumberType
  <2>3. capi \notin Nameless
    BY <2>1, <2>2 DEF Coming, One
  <2>4. capi.type = type
    BY <1>2 DEF Event
  <2> QED  BY <1>1, <2>3, <2>4, OfType
<1>3. CASE ConnectB3ActiveInd
  <2> DEFINE a == B("CONNECTB3ACTIVE_RESP", 0)
             c == [call EXCEPT !.state = "Connected", !.doSend = TRUE]
  <2>1. a \in Messages /\ a.type = "CONNECTB3ACTIVE_RESP"
    BY Made DEF Types
  <2>2. Event("CONNECTB3ACTIVE_IND")
    BY <1>3 DEF ConnectB3ActiveInd
  <2>3. Answering("CONNECTB3ACTIVE_IND", <<a>>)
    BY <2>1, AnsweringOnes
  <2>4. CASE ByIdent /\ SendData(c, <<a>>, "poll")
    <3>1. call.b3
      BY <1>2, <2>2, <2>4, Zenon DEF ByIdent
    <3>2. /\ c \in Calls /\ c.there = call.there /\ c.plci = call.plci /\ c.b3 = call.b3
          /\ c.NotAcknowledged = call.NotAcknowledged
      <4>1. TRUE \in BOOLEAN /\ "Connected" \in CallStates
        BY DEF CallStates
      <4> QED  BY <1>1, <4>1, Zenon DEF Calls
    <3> HIDE DEF a, c
    <3>3. c.NotAcknowledged = call.NotAcknowledged - One("CONNECTB3ACTIVE_IND" = "DATAB3_CONF")
      BY <1>1, <3>2 DEF One
    <3>4. <<a>> \in Seq(Messages) /\ Number(<<a>>, Asking) = 0 /\ Number(<<a>>, Of("DISCONNECT_RESP")) = 0
      <4>1. Number(<<a>>, Asking) \in Nat /\ Number(<<a>>, Of("DISCONNECT_RESP")) \in Nat
        BY <2>3, NumberType DEF Answering
      <4> QED  BY <2>3, <4>1 DEF Answering, One
    <3> QED  BY <2>2, <2>4, <3>1, <3>2, <3>3, <3>4, SendDataStep
  <2>5. CASE call' = NewState("Connected") /\ pos' = pos /\ Sends(<<a>>, "poll")
    <3>1. "Connected" \in CallStates
      BY DEF CallStates
    <3>2. /\ call' \in Calls /\ call'.there = call.there /\ call'.plci = call.plci /\ call'.b3 = call.b3
          /\ call'.NotAcknowledged = call.NotAcknowledged
      BY <1>1, <2>5, <3>1, NewStates
    <3> QED  BY <2>2, <2>3, <2>5, <3>2, Keeps
  <2> QED  BY <1>3, <2>4, <2>5 DEF ConnectB3ActiveInd
<1>4. CASE DataB3Conf
  <2> DEFINE c == [call EXCEPT !.NotAcknowledged = @ - 1]
  <2>1. Event("DATAB3_CONF") /\ capi.type = "DATAB3_CONF" /\ pc = "event"
    BY <1>4 DEF DataB3Conf, Event
\* The confirmation is found.
  <2>2. call.NotAcknowledged >= 1
    <3>1. call.NotAcknowledged >= DataB3Reqs(toBrick) + Len(line.unconf) + DataB3Confs(capi, toProg)
      BY <1>1 DEF Blocks
    <3>2. DataB3Reqs(toBrick) \in Nat /\ Len(line.unconf) \in Nat /\ DataB3Confs(capi, toProg) \in Nat
      BY <1>1, Requests, Indications, NumbersType DEF Typed
    <3>3. DataB3Confs(capi, toProg) >= 1
      <4>1. One(capi \in Of("DATAB3_CONF")) = 1
        BY <1>1, <2>1, OfType DEF One
      <4>2. Number(toProg, Of("DATAB3_CONF")) \in Nat
        BY <1>1, NumberType
      <4> QED  BY <4>1, <4>2 DEF DataB3Confs, Coming
    <3> QED  BY <1>1, <3>1, <3>2, <3>3
  <2>3. call.b3
    BY <1>1, <2>2 DEF Blocks
  <2>4. call.there /\ capi.b3
    BY <1>1, <1>2, <2>1 DEF Control
  <2>5. ByIdent
    BY <2>3, <2>4 DEF ByIdent
  <2>6. SendData(c, <<>>, "poll")
    BY <1>4, <2>5 DEF DataB3Conf
  <2>7. /\ c \in Calls /\ c.there = call.there /\ c.plci = call.plci /\ c.b3 = call.b3
        /\ c.NotAcknowledged = call.NotAcknowledged - 1
    <3>1. call.NotAcknowledged - 1 \in Nat
      BY <1>1, <2>2
    <3>2. c = [call EXCEPT !.NotAcknowledged = call.NotAcknowledged - 1]
      OBVIOUS
    <3>3. c \in Calls /\ c.NotAcknowledged = call.NotAcknowledged - 1
      BY <1>1, <3>1, <3>2 DEF Calls
    <3>4. c.there = call.there /\ c.plci = call.plci /\ c.b3 = call.b3
      BY <1>1, <3>2, Zenon DEF Calls
    <3> QED  BY <3>3, <3>4
  <2> HIDE DEF c
  <2>8. c.NotAcknowledged = call.NotAcknowledged - One("DATAB3_CONF" = "DATAB3_CONF")
    BY <2>7 DEF One
  <2> QED  BY <2>1, <2>3, <2>6, <2>7, <2>8, NoneThere, SendDataStep
<1> QED
  BY <1>3, <1>4

\* The call when it is freed, and when its connections are made.
LEMMA CallChanges ==
    ASSUME Typed, NEW b \in BOOLEAN
    PROVE  /\ Freed \in Calls /\ Freed.plci = call.plci /\ Freed.b3 = call.b3
           /\ Freed.NotAcknowledged = call.NotAcknowledged
           /\ LET c == [call EXCEPT !.plci = TRUE]
              IN  /\ c \in Calls /\ c.plci /\ c.b3 = call.b3 /\ c.there = call.there
                  /\ c.NotAcknowledged = call.NotAcknowledged
           /\ LET c == [call EXCEPT !.b3 = b]
              IN  /\ c \in Calls /\ c.plci = call.plci /\ c.b3 = b /\ c.there = call.there
                  /\ c.NotAcknowledged = call.NotAcknowledged
<1>1. call \in Calls /\ TRUE \in BOOLEAN /\ FALSE \in BOOLEAN
  BY DEF Typed
<1> QED  BY <1>1, Zenon DEF Freed, Calls

\* CAPI2_CONNECT_CONF.
LEMMA ConnectConfStep ==
    ASSUME IInv, ConnectConf
    PROVE  IInv'
<1>1. Typed /\ Blocks /\ TRUE \in BOOLEAN
  BY DEF IInv
<1>2. Event("CONNECT_CONF") /\ pos' = pos /\ Answering("CONNECT_CONF", <<>>)
  BY AnsweringOnes DEF ConnectConf
<1>3. CASE call' = [call EXCEPT !.plci = TRUE] /\ Sends(<<>>, "poll")
  <2>1. /\ call' \in Calls /\ call'.plci /\ call'.b3 = call.b3 /\ call'.there = call.there
        /\ call'.NotAcknowledged = call.NotAcknowledged
    BY <1>1, <1>3, CallChanges
  <2>2. call.NotAcknowledged > 0 => call'.b3
    BY <1>1, <2>1 DEF Blocks
  <2>3. QuietStep("CONNECT_CONF", <<>>, "poll")
    BY <1>2, <1>3, <2>1, <2>2 DEF QuietStep, Answering
  <2> QED  BY <1>2, <2>3, Quiet DEF Answering
<1>4. CASE call' = Freed /\ Sends(<<>>, "exit")
  <2>1. /\ call' \in Calls /\ call'.plci = call.plci /\ call'.b3 = call.b3
        /\ call'.NotAcknowledged = call.NotAcknowledged
    BY <1>1, <1>4, CallChanges
  <2> QED  BY <1>2, <1>4, <2>1, Keeps
<1> QED  BY <1>3, <1>4 DEF ConnectConf

\* CAPI2_CONNECTB3_CONF: where it refuses, no block is out.
LEMMA ConnectB3ConfStep ==
    ASSUME IInv, ConnectB3Conf
    PROVE  IInv'
<1>1. /\ Typed /\ Said /\ Blocks /\ capi \in Messages /\ toProg \in Seq(Messages)
      /\ capi.b3 \in BOOLEAN
  BY DEF IInv, Typed, Messages
<1>2. /\ Event("CONNECTB3_CONF") /\ pos' = pos /\ Answering("CONNECTB3_CONF", <<>>)
      /\ Sends(<<>>, "poll") /\ capi.type = "CONNECTB3_CONF"
  BY AnsweringOnes DEF ConnectB3Conf, Event
<1>3. CASE ByPlci /\ call' = [call EXCEPT !.b3 = capi.b3]
  <2>1. /\ call' \in Calls /\ call'.plci = call.plci /\ call'.b3 = capi.b3 /\ call'.there = call.there
        /\ call'.NotAcknowledged = call.NotAcknowledged
    BY <1>1, <1>3, CallChanges
  <2>2. call'.plci
    BY <1>3, <2>1 DEF ByPlci
  <2>3. call.NotAcknowledged > 0 => call'.b3
    <3>1. ASSUME ~capi.b3  PROVE ~(call.NotAcknowledged > 0)
      <4>1. capi \in Refusal
        BY <1>1, <1>2, <3>1, OfType
      <4>2. Coming(capi, toProg, Refusal) > 0
        <5>1. Number(toProg, Refusal) \in Nat
          BY <1>1, NumberType
        <5> QED  BY <4>1, <5>1 DEF Coming, One
      <4> QED  BY <1>1, <4>2 DEF Said
    <3> QED  BY <2>1, <3>1
  <2>4. QuietStep("CONNECTB3_CONF", <<>>, "poll")
    BY <1>2, <2>1, <2>2, <2>3 DEF QuietStep, Answering
  <2> QED  BY <1>2, <2>4, Quiet DEF Answering
<1>4. CASE call' = call
  <2>1. call' \in Calls
    BY <1>1, <1>4 DEF Typed
  <2> QED  BY <1>2, <1>4, <2>1, Keeps
<1> QED  BY <1>3, <1>4 DEF ConnectB3Conf

\* The handlers that change no more than the call's state.
LEMMA StateEvents ==
    ASSUME IInv, InfoInd \/ ConnectActiveInd \/ DisconnectB3Ind \/ DisconnectInd \/ Conf
    PROVE  IInv'
<1>1. Typed /\ call \in Calls
  BY DEF IInv, Typed
<1>2. CASE InfoInd
  <2>1. D("INFO_RESP", 0) \in Messages /\ D("INFO_RESP", 0).type = "INFO_RESP"
    BY Made DEF Types
  <2>2. Answering("INFO_IND", <<D("INFO_RESP", 0)>>)
    BY <2>1, AnsweringOnes
  <2>3. /\ Event("INFO_IND") /\ Sends(<<D("INFO_RESP", 0)>>, "poll") /\ call' = call /\ pos' = pos
    BY <1>2 DEF InfoInd
  <2> QED  BY <1>1, <2>2, <2>3, Keeps
<1>3. CASE ConnectActiveInd
  <2> DEFINE a == D("CONNECTACTIVE_RESP", 0)
             b == D("CONNECTB3_REQ", 0)
             ms == <<a>> \o (IF ByIdent THEN <<b>> ELSE <<>>)
  <2>1. /\ a \in Messages /\ a.type = "CONNECTACTIVE_RESP" /\ b \in Messages /\ b.type = "CONNECTB3_REQ"
    BY Made DEF Types
  <2>2. /\ call' \in Calls /\ call'.there = call.there /\ call'.plci = call.plci /\ call'.b3 = call.b3
        /\ call'.NotAcknowledged = call.NotAcknowledged
    <3>1. "B_ConnectPending" \in CallStates
      BY DEF CallStates
    <3> QED  BY <1>1, <1>3, <3>1, NewStates DEF ConnectActiveInd
  <2>3. Event("CONNECTACTIVE_IND") /\ Sends(ms, "poll") /\ pos' = pos
    BY <1>3 DEF ConnectActiveInd
  <2> HIDE DEF a, b
  <2>4. ms = <<a, b>> \/ ms = <<a>>
    <3>1. <<a>> \o <<b>> = <<a, b>> /\ <<a>> \o <<>> = <<a>>
      BY <2>1, NumberPair
    <3>2. ms = <<a>> \o <<b>> \/ ms = <<a>> \o <<>>
      OBVIOUS
    <3> QED  BY <3>1, <3>2, Zenon
  <2>5. Answering("CONNECTACTIVE_IND", ms)
    BY <2>1, <2>4, AnsweringOnes
  <2> QED  BY <2>2, <2>3, <2>5, Keeps
<1>4. CASE DisconnectB3Ind
  <2> DEFINE a == B("DISCONNECTB3_RESP", 0)
             b == D("DISCONNECT_REQ", 0)
  <2>1. /\ a \in Messages /\ a.type = "DISCONNECTB3_RESP" /\ b \in Messages /\ b.type = "DISCONNECT_REQ"
    BY Made DEF Types
  <2>2. /\ call' \in Calls /\ call'.there = call.there /\ call'.plci = call.plci /\ call'.b3 = call.b3
        /\ call'.NotAcknowledged = call.NotAcknowledged
    <3>1. "D_DisconnectPending" \in CallStates
      BY DEF CallStates
    <3> QED  BY <1>1, <1>4, <3>1, NewStates DEF DisconnectB3Ind
  <2>3. Answering("DISCONNECTB3_IND", <<a, b>>)
    BY <2>1, AnsweringOnes
  <2>4. Event("DISCONNECTB3_IND") /\ Sends(<<a, b>>, "poll") /\ pos' = pos
    BY <1>4 DEF DisconnectB3Ind
  <2> QED  BY <2>2, <2>3, <2>4, Keeps
<1>5. CASE DisconnectInd
  <2>1. D("DISCONNECT_RESP", 0) \in Messages /\ D("DISCONNECT_RESP", 0).type = "DISCONNECT_RESP"
    BY Made DEF Types
  <2>2. Answering("DISCONNECT_IND", <<D("DISCONNECT_RESP", 0)>>)
    BY <2>1, AnsweringOnes
  <2>3. /\ Event("DISCONNECT_IND") /\ Sends(<<D("DISCONNECT_RESP", 0)>>, "exit") /\ pos' = pos
        /\ call' = Freed \/ call' = call
    BY <1>5 DEF DisconnectInd
  <2>4. /\ call' \in Calls /\ call'.plci = call.plci /\ call'.b3 = call.b3
        /\ call'.NotAcknowledged = call.NotAcknowledged
    BY <1>1, <2>3, CallChanges
  <2> QED  BY <2>2, <2>3, <2>4, Keeps
<1>6. CASE Conf
  <2>1. PICK type \in {"LISTEN_CONF", "DISCONNECTB3_CONF", "DISCONNECT_CONF"} : Event(type)
    BY <1>6 DEF Conf
  <2>2. Answering(type, <<>>) /\ type # "DATAB3_CONF"
    BY AnsweringOnes
  <2>3. Sends(<<>>, "poll") /\ call' = call /\ pos' = pos
    BY <1>6 DEF Conf
  <2> QED  BY <1>1, <2>1, <2>2, <2>3, Keeps
<1> QED
  BY <1>2, <1>3, <1>4, <1>5, <1>6

--------------------------------------------------------------------------------
(* The theorems *)

\* Before the program has begun nothing is under way, and no call is there.
LEMMA InitIInv ==
    ASSUME Init
    PROVE  IInv
<1>1. /\ pc = "init" /\ capi = NoMsg /\ call = NewCall /\ wait4dataconf \in BOOLEAN
      /\ size \in 0 .. MaxBlocks /\ pos = 0 /\ conn = "dead" /\ toBrick = <<>> /\ toProg = <<>>
      /\ line = NoLine
  BY DEF Init
<1>2. capi \in Messages
  <2>1. "none" \in Types /\ FALSE \in BOOLEAN /\ 0 \in Nat
    BY DEF Types
  <2> QED  BY <1>1, <2>1, MessageFacts, Zenon DEF NoMsg
<1>3. /\ call \in Calls /\ call.there /\ ~call.b3 /\ call.NotAcknowledged = 0
  <2>1. /\ TRUE \in BOOLEAN /\ FALSE \in BOOLEAN /\ 0 \in Nat /\ "Disconnected" \in CallStates
    BY DEF CallStates
  <2>2. call \in Calls
    BY <1>1, <2>1, Zenon DEF NewCall, Calls
  <2>3. call.there /\ ~call.b3 /\ call.NotAcknowledged = 0
    BY <1>1 DEF NewCall
  <2> QED  BY <2>2, <2>3
<1>4. /\ line \in Lines /\ line.st = "free" /\ line.got = <<>> /\ line.unconf = <<>>
      /\ line.end = "open"
  <2>1. <<>> \in Seq(Nat)
    OBVIOUS
  <2> QED  BY <1>1, <2>1 DEF NoLine, Lines
<1>5. /\ toBrick \in Seq(Messages) /\ toProg \in Seq(Messages)
      /\ ConnectReqs(toBrick) = 0 /\ ConnectB3Reqs(toBrick) = 0 /\ DataB3Reqs(toBrick) = 0
      /\ DisconnectB3Reqs(toBrick) = 0 /\ DisconnectResps(toBrick) = 0
      /\ \A T : Number(toBrick, T) = 0 /\ Number(toProg, T) = 0
  BY <1>1, NoneThere
<1>6. \A T : NoMsg \notin T => Coming(capi, toProg, T) = 0
  BY <1>1, <1>5 DEF Coming, One
<1>7. /\ ConnectActiveInds(capi, toProg) = 0 /\ ConnectB3ActiveInds(capi, toProg) = 0
      /\ DataB3Confs(capi, toProg) = 0 /\ DisconnectInds(capi, toProg) = 0
      /\ Coming(capi, toProg, Telling) = 0 /\ Coming(capi, toProg, Nameless) = 0
      /\ Coming(capi, toProg, Refusal) = 0
  <2>1. {"CONNECTACTIVE_IND", "CONNECTB3ACTIVE_IND", "DATAB3_CONF", "DISCONNECT_IND"}
           \subseteq Types \ {"none"}
    BY DEF Types
  <2> QED  BY <1>6, <2>1, NoMsgFacts DEF ConnectActiveInds, ConnectB3ActiveInds, DataB3Confs,
              DisconnectInds
<1>8. Turn <= 1
  <2>1. Turn = Number(toBrick, Asking) + Coming(capi, toProg, Telling)
                  + (Begins(pc) + Busy(line) + Len(line.unconf))
    BY <1>2, <1>4, <1>5, TurnParts DEF Turn
  <2>2. Begins(pc) = 1 /\ Busy(line) = 0 /\ Len(line.unconf) = 0
    BY <1>1, <1>4 DEF Begins, Busy
  <2> QED  BY <1>5, <1>7, <2>1, <2>2
<1>9. Typed
  <2>1. pos \in 0 .. size
    BY <1>1, FaxSendAssumption
  <2> QED  BY <1>1, <1>2, <1>3, <1>4, <1>5, <2>1 DEF Typed
<1>10. Control
  BY <1>1, <1>3 DEF Control
<1>11. Said
  BY <1>5, <1>7 DEF Said
<1>12. Phases
  BY <1>1, <1>3, <1>4, <1>5, <1>7 DEF Phases
<1>13. Blocks
  <2>1. Len(line.unconf) = 0
    BY <1>4
  <2> QED  BY <1>3, <1>4, <1>5, <1>7, <2>1 DEF Blocks
<1> QED
  BY <1>8, <1>9, <1>10, <1>11, <1>12, <1>13 DEF IInv

LEMMA NextIInv ==
    ASSUME IInv, [Next]_vars
    PROVE  IInv'
<1>1. CASE UNCHANGED vars
  <2>1. /\ pc' = pc /\ capi' = capi /\ call' = call /\ wait4dataconf' = wait4dataconf
        /\ size' = size /\ pos' = pos /\ conn' = conn /\ toBrick' = toBrick /\ toProg' = toProg
        /\ line' = line
    BY <1>1 DEF vars, file, net
  <2>2. Typed' /\ Control'
    BY <2>1 DEF IInv, Typed, Control
  <2>3. Turn' = Turn /\ Stray' = Stray /\ (Early' => Early)
    BY <2>1 DEF Turn, TurnOf, Stray, Early
  <2>4. Said' /\ Phases'
    BY <2>1, <2>3 DEF IInv, Said, Phases
  <2>5. Blocks'
    BY <2>1 DEF IInv, Blocks
  <2> QED  BY <2>2, <2>3, <2>4, <2>5 DEF IInv
<1>2. CASE Main
  <2>1. CASE Start
    BY <2>1, StartStep
  <2>2. CASE Get
    BY <2>2, GetStep
  <2>3. CASE GetFails
    BY <2>3, GetFailsStep
  <2>4. CASE ConnectConf
    BY <2>4, ConnectConfStep
  <2>5. CASE ConnectB3Conf
    BY <2>5, ConnectB3ConfStep
  <2>6. CASE ConnectB3ActiveInd \/ DataB3Conf
    BY <2>6, BlockEvents
  <2>7. CASE InfoInd \/ ConnectActiveInd \/ DisconnectB3Ind \/ DisconnectInd \/ Conf
    BY <2>7, StateEvents
  <2> QED  BY <1>2, <2>1, <2>2, <2>3, <2>4, <2>5, <2>6, <2>7 DEF Main, CapiEvent
<1>3. CASE Brick
  BY <1>3, BrickStep
<1>4. CASE Break
  BY <1>4, BreakStep
<1> QED
  BY <1>1, <1>2, <1>3, <1>4 DEF Next

\* IInv is an invariant.
THEOREM Invariance == Spec => []IInv
<1>1. Init => IInv
  BY InitIInv
<1>2. IInv /\ [Next]_vars => IInv'
  BY NextIInv
<1> QED  BY <1>1, <1>2, PTL DEF Spec

LEMMA TypesKept == ASSUME IInv  PROVE TypeOK
<1>1. Typed /\ call \in Calls /\ line \in Lines
  BY DEF IInv, Typed
<1>2. call.NotAcknowledged \in 0 .. MaxBlocks
  BY <1>1, FaxSendAssumption DEF Typed, Calls
<1> QED  BY <1>1, <1>2 DEF Typed, TypeOK, Calls, CallStates, Lines

\* The variables have the types of TypeOK.
THEOREM TypeCorrect == Spec => []TypeOK
<1>1. IInv => TypeOK
  BY TypesKept
<1> QED  BY <1>1, Invariance, PTL

\* One block at most is under way or with the brick, because the program reads the next
\* when it is told that the last has gone out.
LEMMA OneBlock ==
    ASSUME IInv
    PROVE  /\ DataB3Reqs(toBrick) \in Nat /\ Len(line.unconf) \in Nat
           /\ DataB3Reqs(toBrick) + Len(line.unconf) <= 1
<1>1. /\ Turn <= 1 /\ capi \in Messages /\ toBrick \in Seq(Messages) /\ toProg \in Seq(Messages)
      /\ line \in Lines
  BY DEF IInv, Typed
<1>2. /\ Begins(pc) \in Nat /\ Number(toBrick, Asking) \in Nat /\ Coming(capi, toProg, Telling) \in Nat
      /\ Busy(line) \in Nat /\ Len(line.unconf) \in Nat
      /\ Turn = Number(toBrick, Asking) + Coming(capi, toProg, Telling)
                + (Begins(pc) + Busy(line) + Len(line.unconf))
  BY <1>1, TurnParts DEF Turn
<1>3. DataB3Reqs(toBrick) \in Nat /\ DataB3Reqs(toBrick) <= Number(toBrick, Asking)
  BY <1>1, Requests
<1>4. Number(toBrick, Asking) + (Begins(pc) + Busy(line) + Len(line.unconf)) <= 1
  BY <1>1, <1>2
<1>5. Number(toBrick, Asking) + Len(line.unconf) <= 1
  BY <1>2, <1>4
<1> QED  BY <1>2, <1>3, <1>5, SMTT(40), SMTT(41), ZenonT(30)

\* Blocks that are numbered as they were read, the last of them with the brick.
LEMMA InOrder ==
    ASSUME NEW g \in Seq(Nat), NEW u \in Seq(Nat), NEW p \in Nat,
           \A n \in DOMAIN g : g[n] = n, \A n \in DOMAIN u : u[n] = p,
           Len(u) <= 1, Len(u) = 1 => p = Len(g) + 1
    PROVE  g \o u = [n \in 1 .. Len(g) + Len(u) |-> n]
<1> DEFINE s == g \o u
<1>1. s \in Seq(Nat) /\ Len(s) = Len(g) + Len(u) /\ Len(g) \in Nat /\ Len(u) \in Nat
  OBVIOUS
<1>2. \A k \in 1 .. Len(u) : s[Len(g) + k] = u[k]
  OBVIOUS
<1>3. ASSUME NEW n \in 1 .. Len(g) + Len(u)  PROVE s[n] = n
  <2>1. CASE n \in 1 .. Len(g)
    BY <2>1
  <2>2. CASE n \notin 1 .. Len(g)
    <3> DEFINE a == Len(g)
               b == Len(u)
    <3> HIDE DEF a, b, s
    <3>1. a \in Nat /\ b \in Nat /\ b <= 1 /\ n \in 1 .. a + b /\ n \notin 1 .. a
      BY <1>1, <2>2 DEF a, b
    <3>2. n = a + 1 /\ b = 1
      BY <3>1
    <3>3. n = Len(g) + 1 /\ Len(u) = 1
      BY <3>2 DEF a, b
    <3>4. s[n] = u[1] /\ u[1] = p
      BY <1>2, <3>3
    <3> QED  BY <3>3, <3>4
  <2> QED  BY <2>1, <2>2
<1> HIDE DEF s
<1>4. s = [n \in 1 .. Len(s) |-> s[n]]
  <2>1. s \in Seq(Nat)
    BY <1>1
  <2> QED  BY <2>1
<1>5. s = [n \in 1 .. Len(g) + Len(u) |-> n]
  BY <1>1, <1>3, <1>4
<1> QED  BY <1>5 DEF s

\* What NoneLost counts is what the invariant counts.
LEMMA PlacesNumber ==
    ASSUME IInv
    PROVE  /\ Under = PlacesOf(toBrick, Of("DATAB3_REQ"))
           /\ Cardinality(Under) = DataB3Reqs(toBrick)
           /\ Cardinality(Confs) = DataB3Confs(capi, toProg)
<1>1. /\ capi \in Messages /\ toBrick \in Seq(Messages) /\ toProg \in Seq(Messages)
  BY DEF IInv, Typed
<1>2. ASSUME NEW q \in Seq(Messages), NEW type
      PROVE  Places(q, type) = PlacesOf(q, Of(type))
  BY <1>2 DEF Places, PlacesOf, Of
<1>3. Under = PlacesOf(toBrick, Of("DATAB3_REQ"))
  BY <1>1, <1>2 DEF Under
<1>4. <<capi>> \in Seq(Messages) /\ <<capi>> \o toProg \in Seq(Messages)
  BY <1>1
<1>5. Cardinality(Confs) = Number(<<capi>> \o toProg, Of("DATAB3_CONF"))
  BY <1>2, <1>4 DEF Confs, Number
<1>6. Number(<<capi>> \o toProg, Of("DATAB3_CONF"))
         = Number(<<capi>>, Of("DATAB3_CONF")) + Number(toProg, Of("DATAB3_CONF"))
  BY <1>1, <1>4, NumberConcat
<1>7. Number(<<capi>>, Of("DATAB3_CONF")) = One(capi \in Of("DATAB3_CONF"))
  BY NumberOne
<1> QED  BY <1>3, <1>5, <1>6, <1>7 DEF Number, DataB3Reqs, DataB3Confs, Coming

\* No block and no confirmation is lost, counted twice, or out of order: NotAcknowledged
\* counts what is under way, whatever happens to the call.
THEOREM BlocksAccounted == Spec => []NoneLost
<1>1. IInv => TypeOK
  BY TypesKept
<1>2. ASSUME IInv, conn = "up", line.st = "b3up"
      PROVE  /\ call.NotAcknowledged = Cardinality(Under) + Len(line.unconf) + Cardinality(Confs)
             /\ line.got \o line.unconf = [n \in 1 .. pos - Cardinality(Under) |-> n]
             /\ \A k \in Under : toBrick[k].info = pos - Cardinality({j \in Under : j > k})
  <2> USE <1>2
  <2>1. /\ Typed /\ Blocks /\ toBrick \in Seq(Messages) /\ line.got \in Seq(Nat) /\ line.unconf \in Seq(Nat)
        /\ pos \in Nat /\ Len(line.got) \in Nat
    BY NumbersType DEF IInv, Typed, Lines
  <2>2. /\ DataB3Reqs(toBrick) \in Nat /\ Len(line.unconf) \in Nat
        /\ DataB3Reqs(toBrick) + Len(line.unconf) <= 1
    BY OneBlock
  <2>3. /\ call.NotAcknowledged = DataB3Reqs(toBrick) + Len(line.unconf) + DataB3Confs(capi, toProg)
        /\ pos = Len(line.got) + Len(line.unconf) + DataB3Reqs(toBrick)
    BY <2>1 DEF Blocks
  <2>4. call.NotAcknowledged = Cardinality(Under) + Len(line.unconf) + Cardinality(Confs)
    BY <2>3, PlacesNumber
\* The blocks that have gone out, and the one the brick has.
  <2>5. line.got \o line.unconf = [n \in 1 .. pos - Cardinality(Under) |-> n]
    <3>1. /\ \A n \in DOMAIN line.got : line.got[n] = n
          /\ \A n \in DOMAIN line.unconf : line.unconf[n] = pos
      BY <2>1 DEF Blocks
    <3>2. Len(line.unconf) <= 1
      BY <2>2
    <3>3. Len(line.unconf) = 1 => pos = Len(line.got) + 1
      <4>1. CASE Len(line.unconf) = 1
        <5>1. DataB3Reqs(toBrick) = 0
          BY <2>2, <4>1
        <5> QED  BY <2>1, <2>3, <4>1, <5>1
      <4> QED  BY <4>1
    <3>4. line.got \o line.unconf = [n \in 1 .. Len(line.got) + Len(line.unconf) |-> n]
      BY <2>1, <2>2, <3>1, <3>2, <3>3, InOrder
    <3>5. pos - DataB3Reqs(toBrick) = Len(line.got) + Len(line.unconf)
      <4>1. /\ Len(line.got) \in Nat /\ Len(line.unconf) \in Nat /\ DataB3Reqs(toBrick) \in Nat
            /\ pos = Len(line.got) + Len(line.unconf) + DataB3Reqs(toBrick)
        BY <2>1, <2>2, <2>3
      <4> DEFINE a == Len(line.got)
                 b == Len(line.unconf)
                 d == DataB3Reqs(toBrick)
      <4> HIDE DEF a, b, d
      <4>2. a \in Nat /\ b \in Nat /\ d \in Nat /\ pos = a + b + d
        BY <4>1 DEF a, b, d
      <4>3. pos - d = a + b
        BY ONLY <4>2
      <4> QED  BY <4>3 DEF a, b, d
    <3>6. Cardinality(Under) = DataB3Reqs(toBrick)
      BY PlacesNumber
    <3> QED  BY <3>4, <3>5, <3>6
\* The one under way to it.
  <2>6. ASSUME NEW k \in Under  PROVE toBrick[k].info = pos - Cardinality({j \in Under : j > k})
    <3>1. /\ Under = PlacesOf(toBrick, Of("DATAB3_REQ")) /\ Cardinality(Under) <= 1
          /\ IsFiniteSet(Under) /\ Under \in SUBSET (1 .. Len(toBrick))
      BY <2>1, <2>2, PlacesNumber, NumberType
    <3>2. k \in DOMAIN toBrick /\ toBrick[k] \in Of("DATAB3_REQ") /\ toBrick[k] \in Messages
      BY <2>1, <3>1 DEF PlacesOf
    <3>3. toBrick[k] \notin Stray
      <4>1. Number(toBrick, Stray) = 0
        BY DEF IInv, Said
      <4> QED  BY <2>1, <3>2, <4>1, NumberType
    <3>4. toBrick[k].info = pos
      BY <3>2, <3>3 DEF Stray
    <3>5. {j \in Under : j > k} = {}
      <4>1. ASSUME NEW j \in Under, j > k  PROVE FALSE
        <5>1. {j, k} \subseteq Under /\ j # k
          BY <3>1, <3>2, <4>1
        <5>2. Cardinality({j, k}) <= Cardinality(Under)
          BY <3>1, <5>1, FS_Subset
        <5>3. Cardinality({j, k}) = 2
          <6>1. IsFiniteSet({k}) /\ Cardinality({k}) = 1
            BY FS_Singleton
          <6>2. {j, k} = {k} \cup {j} /\ j \notin {k}
            BY <5>1
          <6>3. Cardinality({k} \cup {j}) = Cardinality({k}) + 1
            BY <6>1, <6>2, FS_AddElement
          <6> QED  BY <6>1, <6>2, <6>3
        <5>4. Cardinality(Under) \in Nat
          BY <3>1, FS_CardinalityType
        <5> QED  BY <3>1, <5>2, <5>3, <5>4
      <4> QED  BY <4>1
    <3>6. Cardinality({j \in Under : j > k}) = 0
      BY <3>5, FS_EmptySet
    <3> QED  BY <2>1, <3>4, <3>6
  <2> QED  BY <2>4, <2>5, <2>6
<1>3. IInv => NoneLost
  BY <1>1, <1>2 DEF NoneLost
<1> QED  BY <1>3, Invariance, PTL

--------------------------------------------------------------------------------
(* FaxSend implements FaxTransfer *)

\* A step that does not move the brick's call is no step of the fax.
LEMMA NoTransfer ==
    ASSUME size' = size, line'.got = line.got, line'.end = line.end
    PROVE  UNCHANGED Transfer!tvars
BY DEF Transfer!tvars

\* The fax ends before its time.
LEMMA LostTransfer ==
    ASSUME NEW st, line \in Lines, size' = size, line' = Lost(st)
    PROVE  [Transfer!Next]_Transfer!tvars
<1>1. line'.got = line.got /\ line'.end = IF line.end = "open" THEN "aborted" ELSE line.end
  BY DEF Lost, Lines
<1>2. CASE line.end = "open"
  <2>1. Transfer!Abort
    BY <1>1, <1>2 DEF Transfer!Abort
  <2> QED  BY <2>1 DEF Transfer!Next
<1>3. CASE line.end # "open"
  BY <1>1, <1>3, NoTransfer
<1> QED  BY <1>2, <1>3

LEMMA AtTransfer ==
    ASSUME NEW st, line \in Lines, size' = size, line' = At(st)
    PROVE  UNCHANGED Transfer!tvars
<1>1. line'.got = line.got /\ line'.end = line.end
  BY DEF At, Lines
<1> QED  BY <1>1, NoTransfer

LEMMA ConfirmTransfer ==
    ASSUME IInv, Confirm
    PROVE  Transfer!Take
<1>1. /\ line \in Lines /\ line.st = "b3up" /\ line.unconf # <<>> /\ conn = "up" /\ size' = size
      /\ line' = [line EXCEPT !.got = Append(@, Head(line.unconf)), !.unconf = Tail(@)]
      /\ pos \in 0 .. size /\ Len(line.got) \in Nat /\ pos \in Nat /\ size \in Nat
  BY NumbersType DEF IInv, Typed, Confirm, Moves, file
<1>2. line.end = "open"
  BY <1>1 DEF IInv, Phases
<1>3. Len(line.unconf) = 1 /\ DataB3Reqs(toBrick) = 0
  <2>1. Len(line.unconf) > 0
    BY <1>1 DEF Lines
  <2>2. /\ DataB3Reqs(toBrick) \in Nat /\ Len(line.unconf) \in Nat
        /\ DataB3Reqs(toBrick) + Len(line.unconf) <= 1
    BY OneBlock
  <2>3. ASSUME NEW a \in Nat, NEW b \in Nat, a + b <= 1, b > 0  PROVE b = 1 /\ a = 0
    BY <2>3
  <2> QED  BY <2>1, <2>2, <2>3
<1>4. pos = Len(line.got) + 1 /\ line.unconf[1] = pos
  <2>1. /\ pos = Len(line.got) + Len(line.unconf) + DataB3Reqs(toBrick)
        /\ \A n \in DOMAIN line.unconf : line.unconf[n] = pos
    BY <1>1 DEF IInv, Blocks
  <2>2. 1 \in DOMAIN line.unconf
    BY <1>1, <1>3 DEF Lines
  <2> QED  BY <1>1, <1>3, <2>1, <2>2
<1>5. /\ line'.got = Append(line.got, Len(line.got) + 1) /\ line'.end = line.end
  BY <1>1, <1>3, <1>4 DEF Lines
<1> QED  BY <1>1, <1>2, <1>4, <1>5 DEF Transfer!Take

LEMMA BrickTakesTransfer ==
    ASSUME IInv, BrickTakes
    PROVE  [Transfer!Next]_Transfer!tvars
<1> DEFINE m == Head(toBrick)
<1>1. /\ Typed /\ line \in Lines /\ toBrick \in Seq(Messages) /\ toBrick # <<>> /\ toBrick' = Tail(toBrick)
  BY DEF IInv, Typed, BrickTakes
<1>2. ASSUME NEW l, NEW ms, Moves(l, ms)
      PROVE  conn = "up" /\ line' = l /\ size' = size /\ pos' = pos
  BY <1>2 DEF Moves, file
<1>3. CASE \E ms : Moves(line, ms)
  BY <1>2, <1>3, NoTransfer
<1>4. CASE \E st, ms : Moves(At(st), ms)
  BY <1>1, <1>2, <1>4, AtTransfer
<1>5. CASE \E ms : Moves(Lost("clearing"), ms)
  BY <1>1, <1>2, <1>5, LostTransfer
<1>6. CASE \E ms : Moves([line EXCEPT !.unconf = Append(@, m.info)], ms)
  <2>1. line'.got = line.got /\ line'.end = line.end /\ size' = size
    BY <1>1, <1>2, <1>6 DEF Lines
  <2> QED  BY <2>1, NoTransfer
\* The end the program asks for.
<1>7. CASE /\ m.type = "DISCONNECTB3_REQ" /\ line.st = "b3up"
           /\ Moves([line EXCEPT !.st = "b3down", !.unconf = <<>>, !.end = "complete"],
                    <<B("DISCONNECTB3_CONF", 0), B("DISCONNECTB3_IND", 0)>>)
  <2> DEFINE l == [line EXCEPT !.st = "b3down", !.unconf = <<>>, !.end = "complete"]
             a == B("DISCONNECTB3_CONF", 0)
             b == B("DISCONNECTB3_IND", 0)
  <2>1. /\ l \in Lines /\ l.got = line.got /\ l.end = "complete"
    <3>1. <<>> \in Seq(Nat)
      OBVIOUS
    <3> QED  BY <1>1, <3>1 DEF Lines
  <2>2. a \in Messages /\ b \in Messages
    BY Made DEF Types
  <2> HIDE DEF l, a, b
  <2>3. <<a, b>> \in Seq(Messages) /\ Moves(l, <<a, b>>)
    BY <1>7, <2>2 DEF l, a, b
  <2>4. m \in Messages /\ m \in Asking /\ DisconnectB3Reqs(toBrick) > 0
    BY <1>1, <1>7, HeadCounts, OfType
  <2>5. /\ Number(toBrick', Asking) = 0 /\ line.unconf = <<>>
    BY <1>1, <2>1, <2>3, <2>4, TakenMoved
  <2>6. conn = "up" /\ line' = l /\ size' = size /\ pos' = pos
    BY <1>2, <2>3
  <2>7. DataB3Reqs(toBrick) = 0
    <3>1. DataB3Reqs(toBrick') = DataB3Reqs(toBrick) - One(m.type = "DATAB3_REQ")
      BY <1>1, <2>6, TakenCounts
    <3>2. One(m.type = "DATAB3_REQ") = 0
      BY <1>7 DEF One
    <3>3. DataB3Reqs(toBrick) \in Nat
      BY <1>1, Requests
    <3>4. toBrick' \in Seq(Messages)
      BY <1>1
    <3>5. DataB3Reqs(toBrick') = 0
      BY <2>5, <3>4, NoRequests
    <3> QED  BY <3>1, <3>2, <3>3, <3>5
  <2>8. Len(line.got) = size /\ line.end = "open"
    <3>1. /\ pos = Len(line.got) + Len(line.unconf) + DataB3Reqs(toBrick) /\ pos = size
          /\ line.end = "open"
      BY <1>7, <2>4, <2>6 DEF IInv, Blocks, Phases
    <3>2. Len(line.unconf) = 0 /\ Len(line.got) \in Nat
      BY <1>1, <2>5, NumbersType
    <3> QED  BY <2>7, <3>1, <3>2
  <2>9. Transfer!Complete
    BY <2>1, <2>6, <2>8 DEF Transfer!Complete
  <2> QED  BY <2>9 DEF Transfer!Next
<1> QED
  BY <1>3, <1>4, <1>5, <1>6, <1>7 DEF BrickTakes

\* Each block goes out once, in order, and the program ends a fax only behind its last
\* block: whatever it does, with or without option -W.
THEOREM ImplementsTransfer == Spec => TransferSpec
<1>1. Init => Transfer!Init
  BY DEF Init, NoLine, Transfer!Init
<1>2. IInv /\ [Next]_vars => [Transfer!Next]_Transfer!tvars
  <2> SUFFICES ASSUME IInv, [Next]_vars  PROVE [Transfer!Next]_Transfer!tvars
    OBVIOUS
  <2>1. line \in Lines
    BY DEF IInv, Typed
  <2>2. ASSUME NEW l, NEW ms, Moves(l, ms)  PROVE line' = l /\ size' = size
    BY <2>2 DEF Moves, file
  <2>3. CASE UNCHANGED vars \/ Start \/ Get \/ GetFails
    <3>1. size' = size /\ line' = line
      BY <2>3 DEF vars, file, Start, Get, GetFails
    <3> QED  BY <3>1, NoTransfer
  <2>4. CASE CapiEvent
    <3>1. size' = size /\ line' = line
      <4>1. \E type : Event(type)
        BY <2>4 DEF CapiEvent, ConnectConf, InfoInd, ConnectActiveInd, ConnectB3Conf,
              ConnectB3ActiveInd, DataB3Conf, DisconnectB3Ind, DisconnectInd, Conf
      <4> QED  BY <4>1 DEF Event
    <3> QED  BY <3>1, NoTransfer
  <2>5. CASE Dial \/ Train \/ HangUp
    <3>1. (\E st, ms : Moves(At(st), ms)) \/ (\E st, ms : Moves(Lost(st), ms))
      BY <2>5 DEF Dial, Train, HangUp
    <3> QED  BY <2>1, <2>2, <3>1, AtTransfer, LostTransfer
  <2>6. CASE Confirm
    BY <2>6, ConfirmTransfer DEF Transfer!Next
  <2>7. CASE BrickTakes
    BY <2>7, BrickTakesTransfer
  <2>8. CASE Break
    <3>1. size' = size /\ line' = Lost("free")
      BY <2>8 DEF Break, file
    <3> QED  BY <2>1, <3>1, LostTransfer
  <2> QED  BY <2>3, <2>4, <2>5, <2>6, <2>7, <2>8 DEF Next, Main, Brick
<1> QED
  BY <1>1, <1>2, Invariance, PTL DEF Spec, TransferSpec, Transfer!Spec
================================================================================
