----------------------------- MODULE CapiTestProofs ----------------------------
(****************************************************************************)
(* Proofs about CapiTest, for every number of calls and signals, calls to a *)
(* connection and window, as sender and as receiver: every step keeps the   *)
(* inductive invariant IInv of CapiTestFacts, and from it follow LimitKept, *)
(* PollListRight, WindowKept and Reachable.                                 *)
(****************************************************************************)
EXTENDS CapiTestFacts

--------------------------------------------------------------------------------
(* The steps of the program: capi_event *)

LEMMA GoesOn ==
    ASSUME NEW u \in State, NEW n \in Nat, Goes(u, n), u.appls # <<>> => n <= Len(u.pollfds),
           cfg' \in Configs, answered' \in Nat, signals' \in Nat,
           Whole(cfg', u, toProg', line', listens', answered', signals')
    PROVE  IInv'
<1>1. Program' = u
  <2>1. u = [appls |-> u.appls, pollfds |-> u.pollfds, made |-> u.made, dialled |-> u.dialled, ms |-> u.ms]
    BY StateIn
  <2> QED  BY <2>1 DEF Goes, Program
<1>2. Control'
  BY DEF Goes, Control
<1> QED  BY <1>1, <1>2 DEF IInv

Ahead(fds, n) == {m \in DOMAIN fds : m > n /\ fds[m].revents}

LEMMA ReadyIn ==
    ASSUME NEW fds \in Seq(Polled), NEW n
    PROVE  Ready(fds, n) \in Nat /\ Ready(fds, n) <= Len(fds)
<1>1. Ready(fds, n) = Place(Ahead(fds, n))
  BY DEF Ready, Ahead, Place
<1> DEFINE S == Ahead(fds, n)  e == Len(fds)
<1>2. S \subseteq 1 .. e /\ e \in Nat
  BY DEF Ahead
<1> HIDE DEF S
<1>3. Place(S) = 0 \/ Place(S) \in S
  BY <1>2, PlaceIn
<1> DEFINE p == Place(S)
<1>4. p \in 0 .. e
  <2>1. p = 0 \/ p \in S
    BY <1>3
  <2>2. e \in Nat /\ \A x \in S : x \in 1 .. e
    BY <1>2
  <2> HIDE DEF p, e
  <2>3. CASE p = 0
    BY <2>2, <2>3
  <2>4. CASE p \in S
    <3>1. p \in 1 .. e
      BY <2>2, <2>4
    <3> QED  BY <2>2, <3>1
  <2> QED  BY <2>1, <2>3, <2>4
<1> QED  BY <1>1, <1>2, <1>4 DEF S

Cleared(fds, n) == IF n \in DOMAIN fds THEN [fds EXCEPT ![n].revents = FALSE] ELSE fds

LEMMA ClearedIs ==
    ASSUME NEW s \in State, NEW n, NEW u, u = [s EXCEPT !.pollfds = Cleared(@, n)]
    PROVE  u \in State /\ u.pollfds = Cleared(s.pollfds, n) /\ Alike(s, u) /\ u.appls = s.appls
<1> DEFINE fds == s.pollfds  es == Cleared(fds, n)
<1>1. fds \in Seq(Polled)
  BY StateIn
<1>2. /\ es \in Seq(Polled) /\ Len(es) = Len(fds) /\ DOMAIN es = DOMAIN fds
      /\ \A m \in DOMAIN fds : es[m].fd = fds[m].fd /\ es[m].arg = fds[m].arg
  <2> HIDE DEF fds
  <2>1. CASE n \notin DOMAIN fds
    BY <1>1, <2>1 DEF Cleared
  <2>2. CASE n \in DOMAIN fds
    <3> DEFINE e == [fds[n] EXCEPT !.revents = FALSE]
    <3>1. fds[n] \in Polled
      BY <1>1, <2>2
    <3>2. e \in Polled /\ e.fd = fds[n].fd /\ e.arg = fds[n].arg
      BY ONLY <3>1 DEF Polled
    <3>3. es = [fds EXCEPT ![n] = e]
      BY <2>2 DEF Cleared
    <3> HIDE DEF e, es
    <3>4. /\ es \in Seq(Polled) /\ Len(es) = Len(fds) /\ DOMAIN es = DOMAIN fds
          /\ es[n] = e /\ \A m \in DOMAIN fds : m # n => es[m] = fds[m]
      BY <1>1, <2>2, <3>2, <3>3
    <3> QED  BY <3>2, <3>4
  <2> QED  BY <2>1, <2>2
<1>3. u = [s EXCEPT !.pollfds = es]
  OBVIOUS
<1> HIDE DEF fds, es
<1>4. /\ u \in State /\ u.pollfds = es /\ u.appls = s.appls /\ u.made = s.made /\ u.dialled = s.dialled
      /\ u.ms = s.ms
  BY <1>2, <1>3 DEF State
<1> QED  BY <1>2, <1>4 DEF Alike, fds, es

LEMMA Walked ==
    ASSUME NEW s, Walks(s), cfg' = cfg, answered' = answered, signals' = signals, line' = line,
           listens' = listens, cfg \in Configs, answered \in Nat, signals \in Nat,
           Whole(cfg, s, toProg', line, listens, answered, signals)
    PROVE  IInv'
<1>1. s \in State
  BY DEF Whole, Inv, Structured
<1> DEFINE fds == Cleared(s.pollfds, at)  u == [s EXCEPT !.pollfds = fds]  n == Ready(fds, at)
<1>2. Goes(u, n)
  BY DEF Walks, Cleared
<1>3. u = [s EXCEPT !.pollfds = Cleared(@, at)]
  OBVIOUS
<1>4. u \in State /\ u.pollfds = fds /\ Alike(s, u) /\ u.appls = s.appls
  <2> HIDE DEF u
  <2> QED  BY <1>1, <1>3, ClearedIs
<1> HIDE DEF fds, u
<1>5. n \in Nat /\ n <= Len(u.pollfds)
  <2>1. fds \in Seq(Polled)
    BY <1>4, StateIn
  <2> QED  BY <1>4, <2>1, ReadyIn
<1>6. Whole(cfg, u, toProg', line, listens, answered, signals)
  BY <1>4, AlikeWhole
<1> HIDE DEF n
<1>7. /\ u \in State /\ n \in Nat /\ Goes(u, n) /\ (u.appls # <<>> => n <= Len(u.pollfds))
      /\ cfg' \in Configs /\ answered' \in Nat /\ signals' \in Nat
      /\ Whole(cfg', u, toProg', line', listens', answered', signals')
  BY <1>2, <1>4, <1>5, <1>6
<1> QED  BY ONLY <1>7, GoesOn

LEMMA NowIs ==
    ASSUME IInv, toBrick = <<>>
    PROVE  /\ Now = Program /\ Now \in State /\ Silent(Now) /\ Now.appls = appls /\ Now.pollfds = pollfds
           /\ Now.made = made /\ Now.dialled = dialled
           /\ Whole(cfg, Now, toProg, line, listens, answered, signals) /\ Inv(cfg, Now, toProg, line)
           /\ cfg \in Configs /\ answered \in Nat /\ signals \in Nat /\ cfg.recv \in BOOLEAN
<1>1. Now = Program /\ Silent(Now) /\ Now.appls = appls /\ Now.pollfds = pollfds
      /\ Now.made = made /\ Now.dialled = dialled
  BY DEF Now, Program, Silent
<1>2. /\ Whole(cfg, Program, toProg, line, listens, answered, signals)
      /\ cfg \in Configs /\ answered \in Nat /\ signals \in Nat
  BY DEF IInv, Control
<1>3. Inv(cfg, Program, toProg, line) /\ Program \in State
  BY <1>2 DEF Whole, Inv, Structured
<1> QED  BY <1>1, <1>2, <1>3, Options

LEMMA Received ==
    ASSUME IInv, NEW type, Event(type)
    PROVE  /\ Gets(cfg, Now, toProg, line, listens, answered, signals, pA.id, K)
           /\ pA = Now.appls[K] /\ capi = Head(toProg[pA.id]) /\ capi.type = type
           /\ toProg' = Taken(toProg, pA.id) /\ cfg' = cfg /\ answered' = answered
           /\ signals' = signals /\ line' = line /\ listens' = listens
           /\ cfg \in Configs /\ answered \in Nat /\ signals \in Nat /\ Now \in State
           /\ pA.id \in Nat /\ K \in DOMAIN appls /\ Now.appls = appls /\ capi \in Message
<1>1. toBrick = <<>> /\ \E k \in DOMAIN appls : appls[k].id = pollfds[at].arg
  BY DEF Event
<1>2. K \in DOMAIN appls /\ appls[K].id = pollfds[at].arg
  BY <1>1 DEF K
<1>3. pA = appls[K] /\ capi = Head(toProg[pA.id]) /\ pA.id = pollfds[at].arg
  BY <1>2 DEF pA, capi
<1>4. /\ toProg' = Taken(toProg, pA.id) /\ cfg' = cfg /\ answered' = answered
      /\ signals' = signals /\ line' = line /\ listens' = listens
      /\ toProg[pA.id] # <<>> /\ capi.type = type
  BY <1>3 DEF Event, Taken
<1> HIDE DEF Event
<1>5. /\ Now \in State /\ Silent(Now) /\ Now.appls = appls
      /\ Whole(cfg, Now, toProg, line, listens, answered, signals) /\ Inv(cfg, Now, toProg, line)
      /\ cfg \in Configs /\ answered \in Nat /\ signals \in Nat
  BY <1>1, NowIs
<1>6. pA.id \in ApplIds /\ pA.id \in Nat
  <2>1. Structured(cfg, Now) /\ Mailed(cfg, Now, toProg, line)
    BY <1>5 DEF Inv
  <2>2. Now.appls[K].id \in 1 .. Now.made
    BY <1>2, <1>5, <2>1 DEF Structured, ApplRight
  <2> QED  BY <1>3, <1>5, <2>1, <2>2, MailedIn
<1>7. Gets(cfg, Now, toProg, line, listens, answered, signals, pA.id, K)
  BY <1>2, <1>3, <1>4, <1>5, <1>6 DEF Gets
<1>8. capi \in Message
  BY <1>3, <1>7, GetsIn
<1> QED  BY <1>2, <1>3, <1>4, <1>5, <1>6, <1>7, <1>8

LEMMA Stepped ==
    ASSUME IInv, NEW type, Event(type), NEW s, Walks(s),
           Whole(cfg, s, Taken(toProg, pA.id), line, listens, answered, signals)
    PROVE  IInv'
<1>1. /\ toProg' = Taken(toProg, pA.id) /\ cfg' = cfg /\ answered' = answered
      /\ signals' = signals /\ line' = line /\ listens' = listens
      /\ cfg \in Configs /\ answered \in Nat /\ signals \in Nat
  BY Received
<1>2. /\ Walks(s) /\ cfg' = cfg /\ answered' = answered /\ signals' = signals /\ line' = line
      /\ listens' = listens /\ cfg \in Configs /\ answered \in Nat /\ signals \in Nat
      /\ Whole(cfg, s, toProg', line, listens, answered, signals)
  BY SMTT(40), SMTT(41), ZenonT(30), <1>1
<1> QED  BY ONLY <1>2, Walked

\* The call whose place it is, if there is one.
LEMMA PlacesIn ==
    ASSUME IInv, NEW type, Event(type)
    PROVE  /\ ByPlci # 0 => /\ ByPlci \in DOMAIN Now.appls[K].calls /\ pA.calls # <<>>
                            /\ Now.appls[K].calls[ByPlci].id = capi.id /\ Now.appls[K].calls[ByPlci].plci
           /\ ByIdent # 0 => /\ ByIdent \in DOMAIN Now.appls[K].calls /\ pA.calls # <<>>
                             /\ Now.appls[K].calls[ByIdent].id = capi.id
                             /\ capi.b3 => Now.appls[K].calls[ByIdent].b3
           /\ ByMessid # 0 => ByMessid \in DOMAIN Now.appls[K].calls /\ pA.calls # <<>>
           /\ capi.b3 /\ ByIdent = 0 => \A j \in DOMAIN Now.appls[K].calls :
                 ~(Now.appls[K].calls[j].id = capi.id /\ Now.appls[K].calls[j].b3)
<1>1. pA = Now.appls[K] /\ Now \in State /\ K \in DOMAIN Now.appls
  BY Received
<1> DEFINE cs == pA.calls  n == Len(cs)
           P == {j \in DOMAIN cs : cs[j].id = capi.id /\ cs[j].plci}
           B == {j \in DOMAIN cs : cs[j].id = capi.id /\ cs[j].b3}
           M == {j \in DOMAIN cs : cs[j].id = capi.id /\ cs[j].active}
<1>2. DOMAIN cs = 1 .. n /\ cs = Now.appls[K].calls
  BY <1>1, StateIn
<1>3. /\ ByPlci = Place(P) /\ ByMessid = Place(M)
      /\ ByIdent = IF capi.b3 THEN Place(B) ELSE Place(P)
  BY DEF ByPlci, ByMessid, ByIdent
<1>4. P \subseteq 1 .. n /\ B \subseteq 1 .. n /\ M \subseteq 1 .. n
  BY <1>2
<1>5. ASSUME NEW j \in DOMAIN cs PROVE cs # <<>>
  <2>1. CASE cs = <<>>
    <3>1. DOMAIN cs = {}
      BY <2>1
    <3> QED  BY <3>1
  <2> QED  BY <2>1
<1>6. /\ Place(P) # 0 => Place(P) \in P
      /\ Place(B) # 0 => Place(B) \in B
      /\ Place(B) = 0 => B = {}
      /\ Place(M) # 0 => Place(M) \in M
  <2> HIDE DEF P, B, M
  <2> QED  BY <1>4, PlaceIn
<1> HIDE DEF cs, n
<1> QED  BY Zenon, <1>2, <1>3, <1>5, <1>6 DEF cs

LEMMA ConnectIndKeeps == ASSUME IInv, ConnectInd PROVE IInv'
<1> DEFINE u == Accepted(Now, K, Head(toProg[pA.id]).id)
           m == Msg("CONNECT_RESP", pA.id, Head(toProg[pA.id]).id, FALSE, 0)
           type == "CONNECT_IND"  a == pA.id  k == K  s == Put(CheckAppl(u, K), m)
<1>1. Event(type)
  BY DEF ConnectInd
<1>2. /\ Gets(cfg, Now, toProg, line, listens, answered, signals, pA.id, K)
      /\ capi = Head(toProg[pA.id]) /\ capi.type = type
  BY <1>1, Received
<1>3. Walks(s)
  BY <1>2 DEF ConnectInd, Accepted
<1>4. /\ cfg \in Configs /\ answered \in Nat /\ signals \in Nat
      /\ Whole(cfg, Now, toProg, line, listens, answered, signals) /\ Silent(Now) /\ pA.id \in ApplIds
      /\ toProg[pA.id] # <<>> /\ Head(toProg[pA.id]).type = "CONNECT_IND" /\ K \in DOMAIN Now.appls
      /\ Now.appls[K].id = pA.id
  BY <1>2 DEF Gets
<1> HIDE DEF u, m
<1>5. Whole(cfg, Put(CheckAppl(u, K), m), Taken(toProg, pA.id), line, listens, answered, signals)
  BY ONLY <1>4, TakesCall DEF u, m
<1>6. IInv /\ Event(type) /\ Walks(s)
      /\ Whole(cfg, s, Taken(toProg, pA.id), line, listens, answered, signals)
  BY <1>1, <1>3, <1>5
<1> HIDE DEF s, type
<1> QED  BY ONLY <1>6, Stepped

LEMMA ConnectConfKeeps == ASSUME IInv, ConnectConf PROVE IInv'
<1> DEFINE type == "CONNECT_CONF"  j == ByMessid  c == Now.appls[K].calls[j]
           d == [c EXCEPT !.plci = TRUE]
<1>1. Event(type)
  BY DEF ConnectConf
<1>2. /\ Gets(cfg, Now, toProg, line, listens, answered, signals, pA.id, K)
      /\ capi = Head(toProg[pA.id]) /\ capi.type = type /\ pA = Now.appls[K]
  BY <1>1, Received
<1>3. Head(toProg[pA.id]).type # "DATAB3_CONF"
  BY <1>2
<1>4. /\ Run(cfg, Now, Now, Taken(toProg, pA.id), line)
      /\ Whole(cfg, Now, Taken(toProg, pA.id), line, listens, answered, signals)
      /\ \A y \in DOMAIN Now.appls[K].calls : \A x : SameCall(Now.appls[K].calls[y], x) =>
            Whole(cfg, Became(Now, K, y, x), Taken(toProg, pA.id), line, listens, answered, signals)
      /\ Now.appls[K].calls # <<>> => Whole(cfg, FreeAppl(Now, K), Taken(toProg, pA.id), line, listens, answered, signals)
  BY <1>2, <1>3, ConfTaken
<1>5. j # 0 => j \in DOMAIN Now.appls[K].calls /\ pA.calls # <<>>
  BY <1>1, PlacesIn
<1>6. CASE j = 0
  BY <1>1, <1>4, <1>6, Stepped DEF ConnectConf
<1>7. CASE j # 0 /\ capi.info = 0
  <2>1. K \in DOMAIN Now.appls
    BY <1>2 DEF Gets
  <2>2. c \in Call /\ (c.b3 => c.plci)
    BY <1>4, <1>5, <1>7, <2>1, CallOf
  <2>3. SameCall(c, d)
    <3>1. "Connected" \in States
      BY DEF States
    <3> HIDE DEF c
    <3> QED  BY Zenon, <2>2, <3>1, CallSet
  <2>4. Whole(cfg, Became(Now, K, j, d), Taken(toProg, pA.id), line, listens, answered, signals)
    BY <1>4, <1>5, <1>7, <2>3
  <2>5. Walks([Now EXCEPT !.appls[K].calls[j].plci = TRUE])
    BY <1>7 DEF ConnectConf
  <2>6. [Now EXCEPT !.appls[K].calls[j].plci = TRUE] = Became(Now, K, j, d)
    BY DEF Became
  <2>7. Walks(Became(Now, K, j, d))
    BY <2>5, <2>6
  <2> HIDE DEF d
  <2> QED  BY <1>1, <2>4, <2>7, Stepped
<1>8. CASE j # 0 /\ capi.info # 0
  <2>1. Walks(FreeAppl(Now, K))
    BY <1>8 DEF ConnectConf
  <2>2. Whole(cfg, FreeAppl(Now, K), Taken(toProg, pA.id), line, listens, answered, signals)
    BY <1>2, <1>4, <1>5, <1>8
  <2> QED  BY <1>1, <2>1, <2>2, Stepped
<1> QED  BY <1>6, <1>7, <1>8

LEMMA ConfKeeps == ASSUME IInv, Conf PROVE IInv'
<1>1. PICK type \in {"LISTEN_CONF", "DISCONNECTB3_CONF", "DISCONNECT_CONF"} : Event(type)
  BY DEF Conf
<1>2. /\ Gets(cfg, Now, toProg, line, listens, answered, signals, pA.id, K)
      /\ capi = Head(toProg[pA.id]) /\ capi.type = type
  BY <1>1, Received
<1>3. Head(toProg[pA.id]).type # "DATAB3_CONF"
  BY <1>2
<1>4. Whole(cfg, Now, Taken(toProg, pA.id), line, listens, answered, signals)
  BY <1>2, <1>3, ConfTaken
<1>5. Walks(Now)
  BY SMTT(40), SMTT(41), ZenonT(30) DEF Conf
<1> QED  BY <1>1, <1>4, <1>5, Stepped

LEMMA Answers ==
    ASSUME IInv, NEW h, Event(h), h \notin {"DATAB3_CONF", "LISTEN_CONF"},
           NEW type, type \in PlainTypes, type # "DATAB3_REQ", NEW u, u = Answer(type)
    PROVE  /\ u = Put(Now, Reply(type, pA.id, Head(toProg[pA.id])))
           /\ Head(toProg[pA.id]).id # 0 /\ Run(cfg, Now, u, Taken(toProg, pA.id), line)
           /\ u.appls = Now.appls /\ K \in DOMAIN u.appls
           /\ \A i \in CallIds : MayGo(cfg, Now, Taken(toProg, pA.id), line, i)
                                   => MayGo(cfg, u, Taken(toProg, pA.id), line, i)
           /\ Whole(cfg, u, Taken(toProg, pA.id), line, listens, answered, signals)
           /\ pA.calls # <<>> =>
                 Whole(cfg, FreeAppl(u, K), Taken(toProg, pA.id), line, listens, answered, signals)
           /\ \A j \in DOMAIN Now.appls[K].calls : \A d : SameCall(Now.appls[K].calls[j], d) =>
                 /\ Whole(cfg, Became(u, K, j, d), Taken(toProg, pA.id), line, listens, answered, signals)
                 /\ Run(cfg, Now, Became(u, K, j, d), Taken(toProg, pA.id), line)
<1>1. /\ Gets(cfg, Now, toProg, line, listens, answered, signals, pA.id, K)
      /\ capi = Head(toProg[pA.id]) /\ capi.type = h /\ pA = Now.appls[K]
  BY Received
<1>2. u = Put(Now, Reply(type, pA.id, Head(toProg[pA.id])))
  BY <1>1 DEF Answer, Reply
<1>3. /\ Gets(cfg, Now, toProg, line, listens, answered, signals, pA.id, K)
      /\ Head(toProg[pA.id]).type \notin {"DATAB3_CONF", "LISTEN_CONF"}
      /\ type \in PlainTypes /\ type # "DATAB3_REQ"
      /\ u = Put(Now, Reply(type, pA.id, Head(toProg[pA.id])))
  BY <1>1, <1>2
<1> DEFINE t == Now  s == toProg  l == line  ls == listens  an == answered  sg == signals  a == pA.id
           k == K  g == cfg
<1> HIDE DEF t, s, l, ls, an, sg, a, k, g
<1>9. /\ Gets(g, t, s, l, ls, an, sg, a, k) /\ Head(s[a]).type \notin {"DATAB3_CONF", "LISTEN_CONF"}
      /\ type \in PlainTypes /\ type # "DATAB3_REQ" /\ u = Put(t, Reply(type, a, Head(s[a])))
  BY <1>3 DEF t, s, l, ls, an, sg, a, k, g
<1>10. /\ Head(s[a]).id # 0 /\ Run(g, t, u, Taken(s, a), l) /\ u.appls = t.appls
       /\ \A i \in CallIds : MayGo(g, t, Taken(s, a), l, i) => MayGo(g, u, Taken(s, a), l, i)
       /\ Whole(g, u, Taken(s, a), l, ls, an, sg)
  BY ONLY <1>9, AnswerTaken
<1>11. t.appls[k].calls # <<>> => Whole(g, FreeAppl(u, k), Taken(s, a), l, ls, an, sg)
  <2> SUFFICES ASSUME t.appls[k].calls # <<>>
               PROVE  Whole(g, FreeAppl(u, k), Taken(s, a), l, ls, an, sg)
    OBVIOUS
  <2> QED  BY ONLY <1>9, t.appls[k].calls # <<>>, AnswerTaken
<1>12. ASSUME NEW j \in DOMAIN t.appls[k].calls, NEW d, SameCall(t.appls[k].calls[j], d)
       PROVE  /\ Whole(g, Became(u, k, j, d), Taken(s, a), l, ls, an, sg)
              /\ Run(g, t, Became(u, k, j, d), Taken(s, a), l)
  BY ONLY <1>9, <1>12, AnswerTaken
<1>4. /\ Head(toProg[pA.id]).id # 0 /\ Run(cfg, Now, u, Taken(toProg, pA.id), line)
      /\ u.appls = Now.appls
      /\ \A i \in CallIds : MayGo(cfg, Now, Taken(toProg, pA.id), line, i)
                              => MayGo(cfg, u, Taken(toProg, pA.id), line, i)
      /\ Whole(cfg, u, Taken(toProg, pA.id), line, listens, answered, signals)
      /\ Now.appls[K].calls # <<>> =>
            Whole(cfg, FreeAppl(u, K), Taken(toProg, pA.id), line, listens, answered, signals)
      /\ \A j \in DOMAIN Now.appls[K].calls : \A d : SameCall(Now.appls[K].calls[j], d) =>
            /\ Whole(cfg, Became(u, K, j, d), Taken(toProg, pA.id), line, listens, answered, signals)
            /\ Run(cfg, Now, Became(u, K, j, d), Taken(toProg, pA.id), line)
  BY <1>10, <1>11, <1>12 DEF t, s, l, ls, an, sg, a, k, g
<1>5. K \in DOMAIN u.appls
  BY <1>1, <1>4 DEF Gets
<1> QED  BY Zenon, <1>1, <1>2, <1>4, <1>5

\* The call in place j of the application the message is for.
LEMMA CallAt ==
    ASSUME IInv, NEW type, Event(type), NEW j \in DOMAIN Now.appls[K].calls
    PROVE  /\ Now.appls[K].calls[j] \in Call /\ CallRight(cfg, Now.appls[K].calls[j], Now.dialled)
           /\ Now.appls[K].calls[j].b3 => Now.appls[K].calls[j].plci
<1>1. Gets(cfg, Now, toProg, line, listens, answered, signals, pA.id, K)
  BY Received
<1>2. Structured(cfg, Now) /\ K \in DOMAIN Now.appls
  BY <1>1, GetsIn
<1>3. CallRight(cfg, Now.appls[K].calls[j], Now.dialled)
  BY <1>2 DEF Structured, ApplRight
<1>4. Now \in State
  BY <1>2 DEF Structured
<1> QED  BY <1>2, <1>3, <1>4, StateIn DEF CallRight

LEMMA ConnectActiveIndKeeps == ASSUME IInv, ConnectActiveInd PROVE IInv'
<1> DEFINE h == "CONNECTACTIVE_IND"  type == "CONNECTACTIVE_RESP"  u == Answer(type)  j == ByIdent
           c == Now.appls[K].calls[j]  x == [c EXCEPT !.state = "D_Connected"]
           y == [c EXCEPT !.state = "B_ConnectPending"]  s2 == Taken(toProg, pA.id)
<1>1. Event(h)
  BY DEF ConnectActiveInd
<1>2. /\ Gets(cfg, Now, toProg, line, listens, answered, signals, pA.id, K)
      /\ capi = Head(toProg[pA.id]) /\ capi.type = h /\ pA = Now.appls[K]
  BY <1>1, Received
<1>3. h \notin {"DATAB3_CONF", "LISTEN_CONF"} /\ type \in PlainTypes /\ type # "DATAB3_REQ"
  BY DEF PlainTypes
<1>4. j # 0 => /\ j \in DOMAIN Now.appls[K].calls /\ c.id = capi.id
               /\ c \in Call /\ (c.b3 => c.plci) /\ CallRight(cfg, c, Now.dialled)
  BY <1>1, PlacesIn, CallAt
<1>5. j # 0 => SameCall(c, x) /\ SameCall(c, y)
  <2>1. "D_Connected" \in States /\ "B_ConnectPending" \in States
    BY DEF States
  <2> HIDE DEF c
  <2> QED  BY Zenon, <1>4, <2>1, CallSet
<1>6. /\ j = 0 => Walks(u)
      /\ j # 0 /\ ~c.active => Walks([u EXCEPT !.appls[K].calls[j].state = "D_Connected"])
      /\ j # 0 /\ c.active => Walks(Put([u EXCEPT !.appls[K].calls[j].state = "B_ConnectPending"],
                                        Hands("CONNECTB3_REQ", pA.id, capi.id, FALSE)))
  <2> HIDE DEF u
  <2> QED  BY <1>2 DEF ConnectActiveInd, Hands, u
<1> HIDE DEF h, type
<1>7. u = Answer(type)
  OBVIOUS
<1> HIDE DEF u, x, y
<1>8. /\ Run(cfg, Now, u, s2, line) /\ u.appls = Now.appls /\ K \in DOMAIN u.appls
      /\ \A i \in CallIds : MayGo(cfg, Now, s2, line, i) => MayGo(cfg, u, s2, line, i)
      /\ Whole(cfg, u, s2, line, listens, answered, signals)
      /\ \A n \in DOMAIN Now.appls[K].calls : \A d : SameCall(Now.appls[K].calls[n], d) =>
            /\ Whole(cfg, Became(u, K, n, d), s2, line, listens, answered, signals)
            /\ Run(cfg, Now, Became(u, K, n, d), s2, line)
  BY <1>1, <1>3, <1>7, Answers
<1>9. CASE j = 0
  BY <1>1, <1>6, <1>8, <1>9, Stepped
<1>10. CASE j # 0 /\ ~c.active
  <2>1. Whole(cfg, Became(u, K, j, x), s2, line, listens, answered, signals)
    BY <1>4, <1>5, <1>8, <1>10
  <2>2. [u EXCEPT !.appls[K].calls[j].state = "D_Connected"] = Became(u, K, j, x)
    BY <1>8 DEF Became, x
  <2>3. Walks(Became(u, K, j, x))
    BY <1>6, <1>10, <2>2
  <2> QED  BY <1>1, <2>1, <2>3, Stepped
<1>11. CASE j # 0 /\ c.active
  <2> DEFINE w == Became(u, K, j, y)  i == Head(toProg[pA.id]).id  b3 == FALSE
             req == "CONNECTB3_REQ"  m == Hands(req, pA.id, i, b3)
  <2>1. Run(cfg, Now, w, s2, line)
    BY <1>4, <1>5, <1>8, <1>11
  <2>2. [u EXCEPT !.appls[K].calls[j].state = "B_ConnectPending"] = w
    BY SMTT(40), SMTT(41), ZenonT(30), <1>8 DEF Became, y
  <2>3. Walks(Put(w, m))
    BY <1>2, <1>6, <1>11, <2>2
  <2>4. ~cfg.recv
    BY <1>4, <1>11 DEF CallRight
  <2>5. /\ Head(toProg[pA.id]).type \in TokTypes(cfg) /\ Head(toProg[pA.id]).type \in DueTypes(cfg)
        /\ Head(toProg[pA.id]).type # "LISTEN_CONF"
    BY <1>2, <2>4 DEF TokTypes, DueTypes, h
  <2>6. \A n \in CallIds : MayGo(cfg, u, s2, line, n) => MayGo(cfg, w, s2, line, n)
    <3>1. SameCall(u.appls[K].calls[j], y) /\ j \in DOMAIN u.appls[K].calls
      BY <1>4, <1>5, <1>8, <1>11
    <3>2. /\ Run(cfg, Now, u, s2, line) /\ K \in DOMAIN u.appls /\ j \in DOMAIN u.appls[K].calls
          /\ SameCall(u.appls[K].calls[j], y)
      BY <1>8, <3>1
    <3> HIDE DEF s2, j
    <3>3. /\ Run(cfg, Now, Became(u, K, j, y), s2, line)
          /\ \A n \in CallIds : MayGo(cfg, u, s2, line, n) => MayGo(cfg, Became(u, K, j, y), s2, line, n)
      BY ONLY SMTT(40), SMTT(41), ZenonT(30), <3>2, Touched
    <3> QED  BY <3>3
  <2>7. MayGo(cfg, Now, s2, line, i) => MayGo(cfg, w, s2, line, i)
    BY <1>8, <2>6 DEF MayGo
  <2>8. /\ Gets(cfg, Now, toProg, line, listens, answered, signals, pA.id, K)
        /\ i = Head(toProg[pA.id]).id /\ Head(toProg[pA.id]).type \in TokTypes(cfg)
        /\ Head(toProg[pA.id]).type # "LISTEN_CONF" /\ Run(cfg, Now, w, Taken(toProg, pA.id), line)
        /\ MayGo(cfg, Now, Taken(toProg, pA.id), line, i) => MayGo(cfg, w, Taken(toProg, pA.id), line, i)
        /\ b3 \in BOOLEAN
        /\ \/ req = "CONNECTB3_REQ" /\ ~cfg.recv /\ Head(toProg[pA.id]).type \in DueTypes(cfg)
           \/ req = "CONNECTB3_RESP" /\ cfg.recv
    BY <1>2, <2>1, <2>4, <2>5, <2>7
  <2> HIDE DEF w, i, b3, req, s2
  <2>9. Whole(cfg, Put(w, Hands(req, pA.id, i, b3)), Taken(toProg, pA.id), line, listens, answered, signals)
    BY ONLY <2>8, TurnPut
  <2> HIDE DEF m
  <2> QED  BY <1>1, <2>3, <2>9, Stepped DEF m
<1> QED  BY <1>9, <1>10, <1>11

LEMMA ConnectB3ConfKeeps == ASSUME IInv, ConnectB3Conf PROVE IInv'
<1> DEFINE type == "CONNECTB3_CONF"  j == ByPlci  c == Now.appls[K].calls[j]
           d == [c EXCEPT !.b3 = TRUE]
<1>1. Event(type)
  BY DEF ConnectB3Conf
<1>2. /\ Gets(cfg, Now, toProg, line, listens, answered, signals, pA.id, K)
      /\ capi = Head(toProg[pA.id]) /\ capi.type = type /\ pA = Now.appls[K]
  BY <1>1, Received
<1>3. Head(toProg[pA.id]).type # "DATAB3_CONF"
  BY <1>2
<1>4. /\ Whole(cfg, Now, Taken(toProg, pA.id), line, listens, answered, signals)
      /\ \A y \in DOMAIN Now.appls[K].calls : \A x : SameCall(Now.appls[K].calls[y], x) =>
            Whole(cfg, Became(Now, K, y, x), Taken(toProg, pA.id), line, listens, answered, signals)
  BY <1>2, <1>3, ConfTaken
<1>5. j # 0 => j \in DOMAIN Now.appls[K].calls /\ c.plci /\ c \in Call /\ (c.b3 => c.plci)
  BY <1>1, PlacesIn, CallAt
<1>6. CASE j = 0
  BY <1>1, <1>4, <1>6, Stepped DEF ConnectB3Conf
<1>7. CASE j # 0
  <2>1. SameCall(c, d)
    <3>1. "Connected" \in States
      BY DEF States
    <3> HIDE DEF c
    <3> QED  BY Zenon, <1>5, <1>7, <3>1, CallSet
  <2>2. Whole(cfg, Became(Now, K, j, d), Taken(toProg, pA.id), line, listens, answered, signals)
    BY <1>4, <1>5, <1>7, <2>1
  <2>3. Walks([Now EXCEPT !.appls[K].calls[j].b3 = TRUE])
    BY <1>7 DEF ConnectB3Conf
  <2>4. [Now EXCEPT !.appls[K].calls[j].b3 = TRUE] = Became(Now, K, j, d)
    BY DEF Became
  <2>5. Walks(Became(Now, K, j, d))
    BY SMTT(40), SMTT(41), ZenonT(30), <2>3, <2>4
  <2> HIDE DEF d
  <2> QED  BY <1>1, <2>2, <2>5, Stepped
<1> QED  BY <1>6, <1>7

\* The answer is put before the call is changed, or behind it.
Joined(c) == [[c EXCEPT !.b3 = TRUE] EXCEPT !.state = "B_ConnectPending"]
Joins(t, k, j) == [t EXCEPT !.appls[k].calls[j].b3 = TRUE, !.appls[k].calls[j].state = "B_ConnectPending"]

LEMMA PutFirst ==
    ASSUME NEW t \in State, NEW k, NEW j, NEW m
    PROVE  Joins(Put(t, m), k, j) = Put(Became(t, k, j, Joined(t.appls[k].calls[j])), m)
<1> DEFINE c == t.appls[k].calls[j]  d == [c EXCEPT !.b3 = TRUE]  e == [d EXCEPT !.state = "B_ConnectPending"]
           as == t.appls  ap == as[k]  cs == ap.calls
           as1 == [as EXCEPT ![k].calls[j] = e]
           as2 == [[as EXCEPT ![k].calls[j].b3 = TRUE] EXCEPT ![k].calls[j].state = "B_ConnectPending"]
           ms == Append(t.ms, m)
<1>1. t = [appls |-> t.appls, pollfds |-> t.pollfds, made |-> t.made, dialled |-> t.dialled, ms |-> t.ms]
  BY StateIn
<1>2. as1 = as2
  OBVIOUS
<1> DEFINE F == t.pollfds  M == t.made  D == t.dialled  Q == t.ms
           Of5(x, y) == [appls |-> x, pollfds |-> F, made |-> M, dialled |-> D, ms |-> y]
<1>3. \A x, y, z : /\ [Of5(x, y) EXCEPT !.appls = z] = Of5(z, y)
                   /\ [Of5(x, y) EXCEPT !.ms = z] = Of5(x, z)
                   /\ Of5(x, y).appls = x /\ Of5(x, y).ms = y
  <2> HIDE DEF F, M, D
  <2> QED  OBVIOUS
<1>4. t = Of5(as, Q)
  BY <1>1
<1> HIDE DEF Of5
<1>5. Put(Became(t, k, j, e), m) = Of5(as1, ms)
  <2>1. Became(t, k, j, e) = [t EXCEPT !.appls = as1]
    BY DEF Became
  <2>2. Became(t, k, j, e) = Of5(as1, Q)
    BY <1>3, <1>4, <2>1
  <2> DEFINE b == Became(t, k, j, e)
  <2>3. Put(b, m) = [b EXCEPT !.ms = Append(b.ms, m)]
    BY DEF Put
  <2> HIDE DEF b, as1, Q
  <2>4. b.ms = Q
    BY <1>3, <2>2 DEF b
  <2>5. ms = Append(Q, m)
    BY DEF Q
  <2>6. Put(b, m) = [b EXCEPT !.ms = ms]
    BY SMTT(40), SMTT(41), ZenonT(30), <2>3, <2>4, <2>5
  <2> HIDE DEF ms
  <2> QED  BY <1>3, <2>2, <2>6 DEF b
<1>6. [Put(t, m) EXCEPT !.appls[k].calls[j].b3 = TRUE, !.appls[k].calls[j].state = "B_ConnectPending"]
         = Of5(as2, ms)
  <2>1. Put(t, m) = Of5(as, ms)
    <3>1. Put(t, m) = [t EXCEPT !.ms = ms]
      BY DEF Put
    <3> HIDE DEF as, Q, ms
    <3> QED  BY ZenonT(60), <1>3, <1>4, <3>1
  <2>2. Put(t, m).appls = as
    BY <1>3, <2>1
  <2> DEFINE p == Put(t, m)  X == [as EXCEPT ![k].calls[j].b3 = TRUE]
             p1 == [p EXCEPT !.appls[k].calls[j].b3 = TRUE]
             p2 == [p1 EXCEPT !.appls[k].calls[j].state = "B_ConnectPending"]
  <2> HIDE DEF p
  <2>3. [p EXCEPT !.appls[k].calls[j].b3 = TRUE, !.appls[k].calls[j].state = "B_ConnectPending"] = p2
    OBVIOUS
  <2>4. p1 = [p EXCEPT !.appls = [p.appls EXCEPT ![k].calls[j].b3 = TRUE]]
    OBVIOUS
  <2>5. p2 = [p1 EXCEPT !.appls = [p1.appls EXCEPT ![k].calls[j].state = "B_ConnectPending"]]
    <3> HIDE DEF p1
    <3> QED  OBVIOUS
  <2>6. p.appls = as /\ p = Of5(as, ms)
    BY <2>1, <2>2 DEF p
  <2>7. p1 = [p EXCEPT !.appls = X]
    <3>1. [p.appls EXCEPT ![k].calls[j].b3 = TRUE] = X
      BY <2>6
    <3> HIDE DEF X, p1
    <3> QED  BY <2>4, <3>1 DEF p1
  <2>8. p1 = Of5(X, ms) /\ p1.appls = X
    <3> HIDE DEF X, p1, as, ms
    <3>1. p1 = [Of5(as, ms) EXCEPT !.appls = X]
      BY <2>6, <2>7
    <3>2. [Of5(as, ms) EXCEPT !.appls = X] = Of5(X, ms)
      BY ONLY TRUE DEF Of5
    <3> QED  BY <1>3, <3>1, <3>2
  <2>9. p2 = [p1 EXCEPT !.appls = as2]
    <3>1. [p1.appls EXCEPT ![k].calls[j].state = "B_ConnectPending"] = as2
      <4> HIDE DEF p1
      <4> QED  BY Zenon, <2>8
    <3> HIDE DEF p1, p2, as2
    <3> QED  BY SMTT(40), SMTT(41), ZenonT(30), <2>5, <3>1
  <2>10. p2 = Of5(as2, ms)
    <3> HIDE DEF p1, p2, as2, X, as, ms
    <3> QED  BY <1>3, <2>8, <2>9
  <2> HIDE DEF p2
  <2> QED  BY <2>3, <2>10 DEF p
<1> QED  BY <1>2, <1>5, <1>6 DEF Joins, Joined

LEMMA ConnectB3IndKeeps == ASSUME IInv, ConnectB3Ind PROVE IInv'
<1> DEFINE type == "CONNECTB3_IND"  j == ByPlci  c == Now.appls[K].calls[j]
           d == Joined(c)
           w == Became(Now, K, j, d)  i == Head(toProg[pA.id]).id  b3 == Head(toProg[pA.id]).b3
           resp == "CONNECTB3_RESP"  s2 == Taken(toProg, pA.id)  m == Hands(resp, pA.id, i, b3)
<1>1. Event(type)
  BY DEF ConnectB3Ind
<1>2. /\ Gets(cfg, Now, toProg, line, listens, answered, signals, pA.id, K)
      /\ capi = Head(toProg[pA.id]) /\ capi.type = type /\ pA = Now.appls[K] /\ Now \in State
      /\ K \in DOMAIN Now.appls
  BY <1>1, Received
<1>3. Head(toProg[pA.id]).type # "DATAB3_CONF"
  BY <1>2
<1>4. /\ Whole(cfg, Now, s2, line, listens, answered, signals) /\ Run(cfg, Now, Now, s2, line)
  BY <1>2, <1>3, ConfTaken
<1>5. j # 0 => j \in DOMAIN Now.appls[K].calls /\ c.plci /\ c \in Call /\ (c.b3 => c.plci)
  BY <1>1, PlacesIn, CallAt
<1>6. CASE j = 0
  BY <1>1, <1>4, <1>6, Stepped DEF ConnectB3Ind
<1>7. CASE j # 0
  <2>1. SameCall(c, d)
    <3>1. "B_ConnectPending" \in States
      BY DEF States
    <3> HIDE DEF c
    <3> QED  BY Zenon, <1>5, <1>7, <3>1, CallSet DEF Joined
  <2>2. /\ Run(cfg, Now, w, s2, line)
        /\ \A n \in CallIds : MayGo(cfg, Now, s2, line, n) => MayGo(cfg, w, s2, line, n)
    <3>1. /\ Run(cfg, Now, Now, s2, line) /\ K \in DOMAIN Now.appls /\ j \in DOMAIN Now.appls[K].calls
          /\ SameCall(Now.appls[K].calls[j], d)
      BY <1>2, <1>4, <1>5, <1>7, <2>1
    <3> HIDE DEF s2, j, d
    <3>2. /\ Run(cfg, Now, Became(Now, K, j, d), s2, line)
          /\ \A n \in CallIds : MayGo(cfg, Now, s2, line, n) => MayGo(cfg, Became(Now, K, j, d), s2, line, n)
      BY ONLY <3>1, Touched
    <3> QED  BY <3>2
  <2>3. Walks(Put(w, m))
    <3>1. Walks([Answer("CONNECTB3_RESP") EXCEPT !.appls[K].calls[j].b3 = TRUE,
                                                !.appls[K].calls[j].state = "B_ConnectPending"])
      BY <1>7 DEF ConnectB3Ind
    <3>2. Answer("CONNECTB3_RESP") = Put(Now, m)
      BY <1>2 DEF Answer, Hands
    <3> HIDE DEF j, m
    <3>3. Joins(Put(Now, m), K, j) = Put(w, m)
      BY <1>2, PutFirst
    <3>4. Walks(Joins(Put(Now, m), K, j))
      BY Zenon, <3>1, <3>2 DEF Joins
    <3> QED  BY <3>3, <3>4
  <2>4. /\ cfg.recv /\ Head(toProg[pA.id]).type \in TokTypes(cfg)
        /\ Head(toProg[pA.id]).type # "LISTEN_CONF" /\ b3 \in BOOLEAN
    <3>1. Posted(cfg, Head(toProg[pA.id]), pA.id, line, Now.dialled) /\ b3 \in BOOLEAN
      BY SMTT(40), SMTT(41), ZenonT(30), <1>2, GetsIn
    <3> QED  BY <1>2, <3>1 DEF TokTypes, Posted
  <2>5. MayGo(cfg, Now, s2, line, i) => MayGo(cfg, w, s2, line, i)
    BY ZenonT(60), <2>2 DEF MayGo
  <2>6. /\ Gets(cfg, Now, toProg, line, listens, answered, signals, pA.id, K)
        /\ i = Head(toProg[pA.id]).id /\ Head(toProg[pA.id]).type \in TokTypes(cfg)
        /\ Head(toProg[pA.id]).type # "LISTEN_CONF" /\ Run(cfg, Now, w, Taken(toProg, pA.id), line)
        /\ MayGo(cfg, Now, Taken(toProg, pA.id), line, i) => MayGo(cfg, w, Taken(toProg, pA.id), line, i)
        /\ b3 \in BOOLEAN
        /\ \/ resp = "CONNECTB3_REQ" /\ ~cfg.recv /\ Head(toProg[pA.id]).type \in DueTypes(cfg)
           \/ resp = "CONNECTB3_RESP" /\ cfg.recv
    BY <1>2, <2>2, <2>4, <2>5
  <2> HIDE DEF w, i, b3, resp, s2
  <2>7. Whole(cfg, Put(w, Hands(resp, pA.id, i, b3)), Taken(toProg, pA.id), line, listens, answered, signals)
    BY ONLY <2>6, TurnPut
  <2> HIDE DEF m
  <2> QED  BY <1>1, <2>3, <2>7, Stepped DEF m
<1> QED  BY <1>6, <1>7

LEMMA DataB3IndKeeps == ASSUME IInv, DataB3Ind PROVE IInv'
<1> DEFINE h == "DATAB3_IND"  type == "DATAB3_RESP"  u == Answer(type)  s2 == Taken(toProg, pA.id)
<1>1. Event(h) /\ h \notin {"DATAB3_CONF", "LISTEN_CONF"} /\ type \in PlainTypes /\ type # "DATAB3_REQ"
  BY DEF DataB3Ind, PlainTypes
<1>2. Whole(cfg, Now, s2, line, listens, answered, signals)
  <2>1. /\ Gets(cfg, Now, toProg, line, listens, answered, signals, pA.id, K)
        /\ capi = Head(toProg[pA.id]) /\ capi.type = h
    BY <1>1, Received
  <2>2. Head(toProg[pA.id]).type # "DATAB3_CONF"
    BY <2>1
  <2> QED  BY <2>1, <2>2, ConfTaken
<1>3. Walks(Now) \/ Walks(u)
  BY DEF DataB3Ind
<1> HIDE DEF h, type
<1>4. u = Answer(type)
  OBVIOUS
<1> HIDE DEF u
<1>5. Whole(cfg, u, s2, line, listens, answered, signals)
  BY <1>1, <1>4, Answers
<1> QED  BY <1>1, <1>2, <1>3, <1>5, Stepped

LEMMA DisconnectIndKeeps == ASSUME IInv, DisconnectInd PROVE IInv'
<1> DEFINE h == "DISCONNECT_IND"  type == "DISCONNECT_RESP"  u == Answer(type)  s2 == Taken(toProg, pA.id)
<1>1. Event(h) /\ h \notin {"DATAB3_CONF", "LISTEN_CONF"} /\ type \in PlainTypes /\ type # "DATAB3_REQ"
  BY DEF DisconnectInd, PlainTypes
<1>2. /\ ByIdent = 0 => Walks(u)
      /\ ByIdent # 0 => Walks(FreeAppl(u, K)) /\ pA.calls # <<>>
  BY <1>1, PlacesIn DEF DisconnectInd
<1> HIDE DEF h, type
<1>3. u = Answer(type)
  OBVIOUS
<1> HIDE DEF u
<1>4. /\ Whole(cfg, u, s2, line, listens, answered, signals)
      /\ pA.calls # <<>> => Whole(cfg, FreeAppl(u, K), s2, line, listens, answered, signals)
  BY <1>1, <1>3, Answers
<1>5. CASE ByIdent = 0
  BY <1>1, <1>2, <1>4, <1>5, Stepped
<1>6. CASE ByIdent # 0
  BY <1>1, <1>2, <1>4, <1>6, Stepped
<1> QED  BY <1>5, <1>6

LEMMA SenderSets ==
    ASSUME NEW a, NEW c, NEW d
    PROVE  /\ [Sender(a, c) EXCEPT !.c = d] = Sender(a, d)
           /\ [Sender(a, c) EXCEPT !.c.NotAcknowledged = @ - 1] = Sender(a, Counting(c))
<1> DEFINE e == [c EXCEPT !.NotAcknowledged = @ - 1]
<1>1. [Sender(a, c) EXCEPT !.c = d] = Sender(a, d)
  BY DEF Sender
<1>2. [Sender(a, c) EXCEPT !.c.NotAcknowledged = @ - 1] = [Sender(a, c) EXCEPT !.c = e]
  BY DEF Sender
<1> HIDE DEF e
<1>3. [Sender(a, c) EXCEPT !.c = e] = Sender(a, e)
  BY DEF Sender
<1> QED  BY <1>1, <1>2, <1>3 DEF e, Counting

LEMMA ConnectB3ActiveIndKeeps == ASSUME IInv, ConnectB3ActiveInd PROVE IInv'
<1> DEFINE h == "CONNECTB3ACTIVE_IND"  type == "CONNECTB3ACTIVE_RESP"  u == Answer(type)  j == ByIdent
           c == Now.appls[K].calls[j]  s2 == Taken(toProg, pA.id)  r == Fill(Sender(pA.id, Activated(c)))
           w == Changed(u, K, j, r.c, r.ms)  v == GenNextCall(w, K)
<1>1. Event(h) /\ h \notin {"DATAB3_CONF", "LISTEN_CONF"} /\ type \in PlainTypes /\ type # "DATAB3_REQ"
  BY DEF ConnectB3ActiveInd, PlainTypes
<1>2. /\ Gets(cfg, Now, toProg, line, listens, answered, signals, pA.id, K)
      /\ capi = Head(toProg[pA.id]) /\ capi.type = h /\ pA = Now.appls[K] /\ cfg \in Configs
  BY SMTT(40), SMTT(41), ZenonT(30), <1>1, Received
<1>3. capi.b3
  <2>1. Posted(cfg, Head(toProg[pA.id]), pA.id, line, Now.dialled)
    BY SMTT(40), SMTT(41), ZenonT(30), <1>2, GetsIn
  <2> QED  BY <1>2, <2>1 DEF Posted
<1>4. j # 0 => /\ j \in DOMAIN Now.appls[K].calls /\ c.b3 /\ c.id = Head(toProg[pA.id]).id
  BY <1>1, <1>2, <1>3, PlacesIn
<1>5. /\ u = Put(Now, Reply(type, pA.id, Head(toProg[pA.id])))
      /\ Whole(cfg, u, s2, line, listens, answered, signals)
  <2> HIDE DEF h, type
  <2>1. u = Answer(type)
    OBVIOUS
  <2> HIDE DEF u
  <2> QED  BY <1>1, <2>1, Answers
<1>6. CASE j = 0
  <2>1. Walks(u)
    BY <1>6 DEF ConnectB3ActiveInd
  <2> HIDE DEF u
  <2> QED  BY <1>1, <1>5, <2>1, Stepped
<1>7. CASE j # 0
  <2>1. ~c.doSend /\ Run(cfg, Now, w, s2, line)
    <3>1. /\ cfg \in Configs /\ Gets(cfg, Now, toProg, line, listens, answered, signals, pA.id, K)
          /\ Head(toProg[pA.id]).type = "CONNECTB3ACTIVE_IND"
          /\ u = Put(Now, Reply("CONNECTB3ACTIVE_RESP", pA.id, Head(toProg[pA.id])))
          /\ j \in DOMAIN Now.appls[K].calls /\ Now.appls[K].calls[j].id = Head(toProg[pA.id]).id
          /\ Now.appls[K].calls[j].b3 /\ r = Fill(Sender(pA.id, Activated(Now.appls[K].calls[j])))
      BY <1>2, <1>4, <1>5, <1>7
    <3> HIDE DEF u, r, j
    <3>2. ~Now.appls[K].calls[j].doSend
          /\ Run(cfg, Now, Changed(u, K, j, r.c, r.ms), Taken(toProg, pA.id), line)
      BY ONLY <3>1, ActiveSends
    <3> QED  BY <3>2
  <2>2. Whole(cfg, v, s2, line, listens, answered, signals)
    <3>1. /\ cfg \in Configs /\ Gets(cfg, Now, toProg, line, listens, answered, signals, pA.id, K)
          /\ Head(toProg[pA.id]).type = "CONNECTB3ACTIVE_IND"
          /\ j \in DOMAIN Now.appls[K].calls /\ Now.appls[K].calls[j].id = Head(toProg[pA.id]).id
          /\ Run(cfg, Now, w, Taken(toProg, pA.id), line)
      BY <1>2, <1>4, <1>7, <2>1
    <3> HIDE DEF w, j
    <3>2. Whole(cfg, GenNextCall(w, K), Taken(toProg, pA.id), line, listens, answered, signals)
      BY ONLY <3>1, DialsAfter
    <3> QED  BY SMTT(40), SMTT(41), ZenonT(30), <3>2
  <2>3. Walks(v)
    <3> DEFINE e == [pA.calls[j] EXCEPT !.state = "Connected"]
    <3>1. e.doSend = c.doSend /\ Activated(c) = [e EXCEPT !.doSend = TRUE] /\ pA.calls[j] = c
      <4>1. pA.calls[j] = c
        BY <1>2
      <4>2. c \in Call
        BY <1>1, <1>4, <1>7, CallAt
      <4> HIDE DEF c
      <4> QED  BY <4>1, <4>2 DEF Activated, Call
    <3>2. Of(j) = Sender(pA.id, c)
      BY <3>1 DEF Of, Sender
    <3>3. [Of(j) EXCEPT !.c = [e EXCEPT !.doSend = TRUE]] = Sender(pA.id, Activated(c))
      <4> DEFINE x == [e EXCEPT !.doSend = TRUE]
      <4>1. x = Activated(c)
        BY <3>1
      <4> HIDE DEF x, e, c, j
      <4>2. [Of(j) EXCEPT !.c = x] = [Sender(pA.id, c) EXCEPT !.c = x]
        BY <3>2
      <4>3. [Sender(pA.id, c) EXCEPT !.c = x] = Sender(pA.id, x)
        BY SenderSets
      <4>4. [Of(j) EXCEPT !.c = x] = Sender(pA.id, Activated(c))
        BY <4>1, <4>2, <4>3
      <4> QED  BY <4>4 DEF x
    <3>4. Walks(GenNextCall(Updated(u, j, Fill([Of(j) EXCEPT !.c = [e EXCEPT !.doSend = TRUE]])), K))
      <4>1. ~e.doSend
        BY <2>1, <3>1
      <4>2. \E x \in {e} : \E y \in {IF x.doSend THEN [Of(j) EXCEPT !.c = x]
                                     ELSE Fill([Of(j) EXCEPT !.c = [x EXCEPT !.doSend = TRUE]])} :
                Walks(GenNextCall(Updated(u, j, y), K))
        BY <1>7 DEF ConnectB3ActiveInd
      <4> HIDE DEF e, u, j
      <4>3. \E y \in {IF e.doSend THEN [Of(j) EXCEPT !.c = e]
                      ELSE Fill([Of(j) EXCEPT !.c = [e EXCEPT !.doSend = TRUE]])} :
                Walks(GenNextCall(Updated(u, j, y), K))
        BY <4>2
      <4> QED  BY <4>1, <4>3
    <3>5. Walks(GenNextCall(Updated(u, j, r), K))
      BY <3>3, <3>4
    <3>6. Updated(u, j, r) = w
      BY DEF Updated, Changed
    <3> HIDE DEF w, u, r
    <3> QED  BY <3>5, <3>6
  <2> HIDE DEF v
  <2> QED  BY <1>1, <2>2, <2>3, Stepped
<1> QED  BY <1>6, <1>7

LEMMA DataB3ConfKeeps == ASSUME IInv, DataB3Conf PROVE IInv'
<1> DEFINE h == "DATAB3_CONF"  j == ByIdent  c == Now.appls[K].calls[j]  s2 == Taken(toProg, pA.id)
           r == SendData(Sender(pA.id, Counting(c)))  w == Changed(Now, K, j, r.c, r.ms)
<1>1. Event(h)
  BY DEF DataB3Conf
<1>2. /\ Gets(cfg, Now, toProg, line, listens, answered, signals, pA.id, K)
      /\ capi = Head(toProg[pA.id]) /\ capi.type = h /\ pA = Now.appls[K] /\ cfg \in Configs
  BY <1>1, Received
<1>3. /\ Head(toProg[pA.id]).b3
      /\ (\A n \in DOMAIN Now.appls[K].calls :
             ~(Now.appls[K].calls[n].id = Head(toProg[pA.id]).id /\ Now.appls[K].calls[n].b3))
            => Whole(cfg, Now, Taken(toProg, pA.id), line, listens, answered, signals)
      /\ \A n \in DOMAIN Now.appls[K].calls :
            Now.appls[K].calls[n].id = Head(toProg[pA.id]).id =>
                \A x : x = SendData(Sender(pA.id, Counting(Now.appls[K].calls[n]))) =>
                      Whole(cfg, Changed(Now, K, n, x.c, x.ms), Taken(toProg, pA.id), line, listens, answered, signals)
  BY <1>2, DataConfTaken
<1>4. CASE j = 0
  <2>1. Whole(cfg, Now, s2, line, listens, answered, signals)
    BY <1>1, <1>2, <1>3, <1>4, PlacesIn
  <2>2. Walks(Now)
    BY <1>4 DEF DataB3Conf
  <2> QED  BY SMTT(40), SMTT(41), ZenonT(30), <1>1, <2>1, <2>2, Stepped
<1>5. CASE j # 0
  <2>1. j \in DOMAIN Now.appls[K].calls /\ c.id = Head(toProg[pA.id]).id
    BY <1>1, <1>2, <1>5, PlacesIn
  <2>2. Whole(cfg, w, s2, line, listens, answered, signals)
    BY <1>3, <2>1
  <2>3. Of(j) = Sender(pA.id, c)
    BY <1>2 DEF Of, Sender
  <2>4. [Of(j) EXCEPT !.c.NotAcknowledged = @ - 1] = Sender(pA.id, Counting(c))
    <3> HIDE DEF c, j
    <3> QED  BY <2>3, SenderSets
  <2>5. Walks(Updated(Now, j, SendData([Of(j) EXCEPT !.c.NotAcknowledged = @ - 1])))
    BY <1>5 DEF DataB3Conf
  <2>6. Walks(Updated(Now, j, r))
    BY <2>4, <2>5
  <2>7. Updated(Now, j, r) = w
    BY DEF Updated, Changed
  <2> HIDE DEF w, r
  <2> QED  BY SMTT(40), SMTT(41), ZenonT(30), <1>1, <2>2, <2>6, <2>7, Stepped
<1> QED  BY <1>4, <1>5

LEMMA DisconnectB3IndKeeps == ASSUME IInv, DisconnectB3Ind PROVE IInv'
<1> DEFINE h == "DISCONNECTB3_IND"  type == "DISCONNECTB3_RESP"  u == Answer(type)  j == ByIdent
           i == Head(toProg[pA.id]).id  o == FALSE  x == "DISCONNECT_REQ"
           m == Hands(x, pA.id, i, o)  v == Put(u, m)  s2 == Taken(toProg, pA.id)
           c == Now.appls[K].calls[j]  d == [c EXCEPT !.state = "D_DisconnectPending"]
<1>1. Event(h) /\ h \notin {"DATAB3_CONF", "LISTEN_CONF"} /\ type \in PlainTypes /\ type # "DATAB3_REQ"
  BY DEF DisconnectB3Ind, PlainTypes
<1>2. /\ Gets(cfg, Now, toProg, line, listens, answered, signals, pA.id, K)
      /\ capi = Head(toProg[pA.id]) /\ capi.type = h /\ pA = Now.appls[K] /\ Now \in State
  BY SMTT(40), SMTT(41), ZenonT(30), <1>1, Received
<1>3. /\ j = 0 => Walks(v)
      /\ j # 0 => Walks([v EXCEPT !.appls[K].calls[j].state = "D_DisconnectPending"])
  BY Zenon, <1>2 DEF DisconnectB3Ind, Hands
<1>4. /\ Run(cfg, Now, u, s2, line) /\ u.appls = Now.appls /\ K \in DOMAIN u.appls /\ i # 0
  <2> HIDE DEF h, type
  <2>1. u = Answer(type)
    OBVIOUS
  <2> HIDE DEF u
  <2> QED  BY <1>1, <2>1, Answers
<1> HIDE DEF u
<1>5. /\ m \in Message /\ m.type = x /\ m.appl = pA.id /\ m.id = i
      /\ pA.id \in 1 .. Now.made /\ i \in 1 .. Now.dialled /\ line[i].appl = pA.id
  <2>1. /\ pA.id \in 1 .. Now.made /\ i \in 1 .. Now.dialled /\ line[i].appl = pA.id /\ i \in Nat
        /\ pA.id \in Nat
    BY <1>2, <1>4, GetsIn
  <2>2. x \in Types /\ o \in BOOLEAN /\ 0 \in Nat
    BY DEF Types
  <2> HIDE DEF x, o, i
  <2>3. /\ Msg(x, pA.id, i, o, 0) \in Message
        /\ Msg(x, pA.id, i, o, 0).type = x /\ Msg(x, pA.id, i, o, 0).appl = pA.id
        /\ Msg(x, pA.id, i, o, 0).id = i
    BY <2>1, <2>2, MessageIs
  <2> QED  BY SMTT(40), SMTT(41), ZenonT(30), <2>1, <2>3 DEF Hands
<1>6. Run(cfg, Now, v, s2, line) /\ v.appls = Now.appls
  <2>1. u.made = Now.made /\ u.dialled = Now.dialled
    BY <1>4 DEF Run, SameFrame
  <2>2. /\ Run(cfg, Now, u, s2, line) /\ m \in Message /\ m.type \in PlainTypes /\ m.type # "DATAB3_REQ"
        /\ m.appl \in 1 .. u.made /\ m.id \in 1 .. u.dialled /\ line[m.id].appl = m.appl
    BY <1>4, <1>5, <2>1 DEF PlainTypes
  <2> DEFINE g == cfg  t0 == Now  t == u  l == line
  <2>3. /\ Run(g, t0, t, s2, l) /\ m \in Message /\ m.type \in PlainTypes /\ m.type # "DATAB3_REQ"
        /\ m.appl \in 1 .. t.made /\ m.id \in 1 .. t.dialled /\ l[m.id].appl = m.appl
    BY <2>2
  <2> HIDE DEF m, s2, g, t0, t, l
  <2>4. /\ Run(g, t0, Put(t, m), s2, l) /\ Put(t, m).appls = t.appls
        /\ Put(t, m).ms = t.ms \o <<m>> /\ Put(t, m).dialled = t.dialled
        /\ Put(t, m).made = t.made
    BY ONLY <2>3, Says
  <2> QED  BY <1>4, <2>4 DEF g, t0, t, l
<1> HIDE DEF v
<1>7. Whole(cfg, v, s2, line, listens, answered, signals)
  BY <1>2, <1>6, GetsSettle
<1>8. CASE j = 0
  BY <1>1, <1>3, <1>7, <1>8, Stepped
<1>9. CASE j # 0
  <2>1. /\ j \in DOMAIN Now.appls[K].calls /\ c \in Call /\ (c.b3 => c.plci)
    BY <1>1, <1>9, PlacesIn, CallAt
  <2>2. SameCall(c, d)
    <3>1. "D_DisconnectPending" \in States
      BY DEF States
    <3> HIDE DEF c
    <3> QED  BY Zenon, <2>1, <3>1, CallSet
  <2>3. /\ Run(cfg, Now, v, s2, line) /\ K \in DOMAIN v.appls /\ j \in DOMAIN v.appls[K].calls
        /\ SameCall(v.appls[K].calls[j], d)
    BY <1>4, <1>6, <2>1, <2>2
  <2>4. [v EXCEPT !.appls[K].calls[j].state = "D_DisconnectPending"] = Became(v, K, j, d)
    BY <1>6 DEF Became
  <2> HIDE DEF s2, j, d
  <2>5. Run(cfg, Now, Became(v, K, j, d), s2, line)
    BY ONLY <2>3, Touched
  <2>6. Whole(cfg, Became(v, K, j, d), s2, line, listens, answered, signals)
    BY <1>2, <2>5, GetsSettle DEF s2
  <2>7. Walks(Became(v, K, j, d))
    BY <1>3, <1>9, <2>4
  <2> QED  BY <1>1, <2>6, <2>7, Stepped DEF s2
<1> QED  BY <1>8, <1>9

LEMMA CapiEventKeeps == ASSUME IInv, CapiEvent PROVE IInv'
BY ConnectIndKeeps, ConnectConfKeeps, ConnectActiveIndKeeps, ConnectB3ConfKeeps, ConnectB3IndKeeps,
   ConnectB3ActiveIndKeeps, DataB3ConfKeeps, DataB3IndKeeps, DisconnectB3IndKeeps, DisconnectIndKeeps,
   ConfKeeps DEF CapiEvent

--------------------------------------------------------------------------------
(* The other steps of the program, and the signals *)

LEMMA NoneNumber == \A T : Number(<<>>, T) = 0
<1>1. ASSUME NEW T PROVE Number(<<>>, T) = 0
  BY NumberOne
<1> QED  BY <1>1

LEMMA InitInv == ASSUME Init PROVE IInv
<1> DEFINE t == Program  s == toProg  l == line
<1>1. /\ pc = "init" /\ cfg \in Configs /\ appls = <<>> /\ pollfds = <<>> /\ at = 0 /\ made = 0 /\ dialled = 0
      /\ answered = 0 /\ signals = 0 /\ toBrick = <<>> /\ listens = {}
      /\ s = [a \in ApplIds |-> <<>>] /\ l = [i \in CallIds |-> Idle]
  BY DEF Init
<1>2. Control
  BY <1>1 DEF Control
<1>3. /\ t.appls = <<>> /\ t.pollfds = <<>> /\ t.made = 0 /\ t.dialled = 0 /\ t.ms = <<>> /\ t \in State
      /\ DOMAIN t.appls = {} /\ DOMAIN t.ms = {} /\ DOMAIN t.pollfds = {}
  <2>1. <<>> \in Seq(Appl) /\ <<>> \in Seq(Polled) /\ <<>> \in Seq(Message)
    OBVIOUS
  <2> QED  BY <1>1, <2>1 DEF Program, State
<1>4. \A i \in CallIds : l[i] = Idle /\ In(s, l, i) = <<>>
  BY <1>1 DEF In, Idle
<1>5. \A a \in ApplIds : s[a] = <<>> /\ DOMAIN s[a] = {}
  BY <1>1
<1>6. Idle \in Lines /\ Idle.st = "free" /\ Idle.appl = 0 /\ Idle.unconf = 0
  BY DEF Idle, Lines, LineStates
<1>7. s \in [ApplIds -> Seq(Message)] /\ l \in [CallIds -> Lines]
  <2>1. <<>> \in Seq(Message)
    OBVIOUS
  <2> QED  BY <1>1, <1>6, <2>1
<1>8. cfg.recv \in BOOLEAN /\ cfg.MaxActivCalls \in Nat /\ cfg.answers \in Nat /\ cfg.signals \in Nat
  BY <1>1, Options
<1> HIDE DEF t, s, l
<1>9. Structured(cfg, t)
  <2>1. Len(t.pollfds) <= MaxFd
    BY <1>3, CapiTestAssumption
  <2> QED  BY <1>3, <2>1 DEF Structured, Apart, Polls
<1>10. Mailed(cfg, t, s, l)
  <2>1. \A i \in CallIds : Known(cfg, l, i, t.made, t.dialled)
    BY <1>3, <1>4, <1>6 DEF Known
  <2> QED  BY <1>3, <1>5, <1>7, <2>1 DEF Mailed
<1>11. Released(t)
  BY <1>3 DEF Released
<1>12. ASSUME NEW i \in CallIds
       PROVE  Turn(cfg, t.ms, s, l, i) = 0
  <2>1. One(l[i].st = "dialling") = 0
    BY <1>4, <1>6 DEF One
  <2> QED  BY <1>3, <1>4, <2>1, NoneNumber DEF Turn
<1>13. Turns(cfg, t, s, l)
  BY <1>12 DEF Turns
<1>14. Fits(cfg, t, s, l)
  BY <1>3 DEF Fits
<1>15. Due(cfg, t.ms, s, l) = {}
  BY <1>3, <1>4, NoneNumber DEF Due
<1>16. Bounded(cfg, t, s, l, 0, 0)
  <2>1. Cardinality(Due(cfg, t.ms, s, l)) = 0
    BY <1>15, FS_EmptySet
  <2> QED  BY <1>3, <1>8, <2>1 DEF Bounded
<1>17. Chain(cfg, t, s, l)
  <2>1. Numbers(t.appls) = {}
    BY <1>3 DEF Numbers
  <2>2. Cardinality(Numbers(t.appls)) = 0
    BY <2>1, FS_EmptySet
  <2> QED  BY <1>3, <1>8, <2>2 DEF Chain
<1>18. Whole(cfg, t, s, l, {}, 0, 0)
  BY <1>3, <1>9, <1>10, <1>11, <1>13, <1>14, <1>16, <1>17 DEF Whole, Inv, Heard
<1> QED  BY <1>1, <1>2, <1>18 DEF IInv, t, s, l

LEMMA PollKeeps == ASSUME IInv, Poll PROVE IInv'
<1> DEFINE fds == [n \in DOMAIN pollfds |-> [pollfds[n] EXCEPT !.revents = toProg[pollfds[n].arg] # <<>>]]
           t == Now  u == [t EXCEPT !.pollfds = fds]
<1>1. /\ pc = "poll" /\ toBrick = <<>> /\ pollfds' = fds /\ at' = Ready(pollfds', 0)
      /\ pc' = pc /\ cfg' = cfg /\ appls' = appls /\ made' = made /\ dialled' = dialled /\ answered' = answered
      /\ signals' = signals /\ toBrick' = toBrick /\ toProg' = toProg /\ line' = line /\ listens' = listens
  BY DEF Poll, brick
<1>2. /\ t = Program /\ t \in State /\ t.appls = appls /\ t.pollfds = pollfds
      /\ Whole(cfg, t, toProg, line, listens, answered, signals)
  BY <1>1, NowIs
<1>3. pollfds \in Seq(Polled)
  BY <1>2, StateIn
<1>4. /\ fds \in Seq(Polled) /\ Len(fds) = Len(pollfds) /\ DOMAIN fds = DOMAIN pollfds
      /\ \A n \in DOMAIN pollfds : fds[n].fd = pollfds[n].fd /\ fds[n].arg = pollfds[n].arg
  <2>1. ASSUME NEW p \in Polled, NEW b \in BOOLEAN
        PROVE  /\ [p EXCEPT !.revents = b] \in Polled /\ [p EXCEPT !.revents = b].fd = p.fd
               /\ [p EXCEPT !.revents = b].arg = p.arg
    BY DEF Polled
  <2>2. \A n \in DOMAIN pollfds : pollfds[n] \in Polled
    BY <1>3
  <2> HIDE DEF Polled
  <2>3. \A n \in DOMAIN pollfds : /\ fds[n] \in Polled /\ fds[n].fd = pollfds[n].fd
                                  /\ fds[n].arg = pollfds[n].arg
    BY <2>1, <2>2
  <2>4. DOMAIN pollfds = 1 .. Len(pollfds) /\ Len(pollfds) \in Nat /\ DOMAIN fds = DOMAIN pollfds
    BY <1>3
  <2>5. fds = [n \in 1 .. Len(pollfds) |-> fds[n]]
    BY <2>4
  <2> HIDE DEF fds
  <2>6. fds \in Seq(Polled)
    <3> DEFINE e == Len(pollfds)
    <3>1. e \in Nat /\ fds = [n \in 1 .. e |-> fds[n]] /\ \A n \in 1 .. e : fds[n] \in Polled
      BY <2>3, <2>4, <2>5
    <3> HIDE DEF e
    <3> QED  BY ONLY <3>1
  <2>7. Len(fds) = Len(pollfds)
    BY <2>4, <2>6
  <2> QED  BY <2>3, <2>4, <2>6, <2>7
<1> HIDE DEF fds, t
<1>5. /\ u \in State /\ u.pollfds = fds /\ u.appls = t.appls /\ u.made = t.made /\ u.dialled = t.dialled
      /\ u.ms = t.ms
  BY <1>2, <1>4 DEF State
<1>6. Alike(t, u)
  BY <1>2, <1>4, <1>5 DEF Alike
<1>7. Whole(cfg, u, toProg, line, listens, answered, signals)
  BY <1>2, <1>5, <1>6, AlikeWhole
<1>8. Program' = u
  <2>1. u = [appls |-> u.appls, pollfds |-> u.pollfds, made |-> u.made, dialled |-> u.dialled, ms |-> u.ms]
    BY <1>5, StateIn
  <2>2. t = Program
    BY <1>2
  <2>3. t.appls = appls /\ t.made = made /\ t.dialled = dialled /\ t.ms = toBrick
    BY <2>2 DEF Program
  <2> HIDE DEF u
  <2> QED  BY <1>1, <1>5, <2>1, <2>3 DEF Program
<1>9. Control'
  <2>1. Ready(fds, 0) \in Nat /\ Ready(fds, 0) <= Len(fds)
    BY <1>4, ReadyIn
  <2> QED  BY <1>1, <2>1 DEF IInv, Control
<1> QED  BY <1>1, <1>7, <1>8, <1>9 DEF IInv

LEMMA SignalWhole ==
    ASSUME NEW g \in Configs, NEW t, NEW s, NEW l, NEW ls, NEW an \in Nat, NEW sg \in Nat,
           Whole(g, t, s, l, ls, an, sg), sg < g.signals, t.dialled \in Nat
    PROVE  Whole(g, t, s, l, ls, an, sg + 1)
<1>1. Bounded(g, t, s, l, an, sg)
  BY DEF Whole
<1>2. sg + 1 <= g.signals /\ sg + 1 # 0
  BY Options
<1>3. Bounded(g, t, s, l, an, sg + 1)
  <2> DEFINE e == Cardinality(Due(g, t.ms, s, l))  x == t.dialled
  <2>1. e \in Nat /\ x \in Nat
    BY DueType
  <2> HIDE DEF e, x
  <2>2. x + e <= 1 + sg + an => x + e <= 1 + (sg + 1) + an
    BY <2>1
  <2> QED  BY <1>1, <1>2, <2>2 DEF Bounded, e, x
<1> QED  BY <1>2, <1>3 DEF Whole

LEMMA StopsKeeps == ASSUME IInv, Stops PROVE IInv'
<1>1. /\ pc = "poll" /\ toBrick = <<>> /\ signals < cfg.signals /\ signals' = signals + 1
      /\ cfg' = cfg /\ answered' = answered /\ toProg' = toProg /\ line' = line /\ listens' = listens
      /\ appls' = appls /\ pollfds' = pollfds /\ made' = made /\ dialled' = dialled /\ at' = at
      /\ toBrick' = toBrick /\ pc' \in {"killed", "exit"}
  BY DEF Stops, Signalled, prog
<1>2. /\ Now = Program /\ Now \in State /\ cfg \in Configs /\ answered \in Nat /\ signals \in Nat
      /\ Whole(cfg, Program, toProg, line, listens, answered, signals)
  BY <1>1, NowIs
<1>3. Program' = Program
  BY <1>1 DEF Program
<1>4. Program.dialled \in Nat
  BY <1>2, StateIn
<1> HIDE DEF Program
<1>5. Whole(cfg, Program, toProg, line, listens, answered, signals + 1)
  BY <1>1, <1>2, <1>4, SignalWhole
<1>6. Control'
  BY <1>1 DEF IInv, Control
<1> QED  BY <1>1, <1>3, <1>5, <1>6 DEF IInv

\* The poll list grows, if anything, when a call is dialled.
LEMMA DialsPolled ==
    ASSUME cfg \in Configs, ~cfg.recv, NEW t, NEW s, NEW l, Inv(cfg, t, s, l), Open(t),
           NEW k \in DOMAIN t.appls, t.made <= 1 + t.dialled, t.dialled + 1 \in CallIds,
           cfg.MaxActivCalls = 0 => t.dialled = 0,
           Inv(cfg, GenNextCall(t, k), s, l)
    PROVE  Len(t.pollfds) <= Len(GenNextCall(t, k).pollfds)
<1> DEFINE u == GenNextCall(t, k)  a == AllocAppl(t)  n == Min(Rooms(t, k))
<1>1. /\ t \in State /\ Structured(cfg, t) /\ t.pollfds \in Seq(Polled) /\ Len(t.pollfds) \in Nat
      /\ u \in State /\ t.dialled \in Nat /\ t.made \in Nat
  <2>1. t \in State /\ u \in State /\ Structured(cfg, t)
    BY DEF Inv, Structured
  <2>2. t.pollfds \in Seq(Polled)
    BY <2>1, StateIn
  <2> QED  BY <2>1, <2>2, StateIn
<1>2. t.made + 1 \in ApplIds
  <2> DEFINE x == t.made  y == t.dialled
  <2>1. /\ x \in Nat /\ y \in Nat /\ x <= 1 + y /\ y + 1 \in CallIds /\ MaxCalls \in Nat /\ MaxSignals \in Nat
        /\ CallIds = 1 .. MaxCalls + MaxSignals + 1 /\ ApplIds = 1 .. MaxCalls + MaxSignals + 2
    BY <1>1, Constants
  <2> HIDE DEF x, y
  <2>2. x + 1 \in ApplIds
    BY ONLY <2>1
  <2> QED  BY <2>2 DEF x
<1>3. Registers(cfg, t, a, s, l)
  BY <1>2, Options, Allocs
<1>4. /\ Inv(cfg, a, s, l) /\ Open(a) /\ 1 \in DOMAIN a.appls /\ a.dialled = t.dialled
  BY <1>3 DEF Registers, OneMore
<1>a. Len(t.pollfds) <= Len(a.pollfds)
  <2>1. a = Grown(t)
    BY <1>1, <1>2, AllocIs
  <2>2. a.pollfds = Longer(t) /\ Polling(t) \in Polled
    BY <1>1, <1>2, <2>1, GrownShape
  <2>3. CASE Len(t.pollfds) < MaxFd
    <3> DEFINE q == t.pollfds  p == Polling(t)
    <3>1. q \in Seq(Polled) /\ p \in Polled /\ a.pollfds = Append(q, p)
      BY <1>1, <2>2, <2>3 DEF Longer
    <3> HIDE DEF q, p
    <3>2. Len(Append(q, p)) = Len(q) + 1 /\ Len(q) \in Nat
      BY <3>1
    <3>3. Len(q) <= Len(a.pollfds)
      BY <3>1, <3>2
    <3> QED  BY <3>3 DEF q
  <2>4. CASE ~(Len(t.pollfds) < MaxFd)
    BY <1>1, <2>2, <2>4 DEF Longer
  <2> QED  BY <2>3, <2>4
<1>5. \/ u = t
      \/ u = a
      \/ u = GenCall(a, 1)
      \/ Rooms(t, k) # {} /\ u = GenCall(t, n)
  BY DEF GenNextCall
<1>6. Rooms(t, k) # {} => n \in DOMAIN t.appls
  BY <1>1, RoomsIn
<1>7. ASSUME NEW v, NEW h \in DOMAIN v.appls, Inv(cfg, v, s, l), Open(v), v.dialled + 1 \in CallIds
      PROVE  GenCall(v, h).pollfds = v.pollfds
  <2>1. Called(cfg, v, GenCall(v, h), h, s, l)
    BY <1>7, GenCalls
  <2> QED  BY <2>1 DEF Called, Added
<1> HIDE DEF u, a, n
<1>8. Len(t.pollfds) <= Len(u.pollfds)
  <2>1. CASE u = t
    BY <1>1, <2>1
  <2>2. CASE u = a
    BY <1>1, <1>a, <2>2
  <2>3. CASE u = GenCall(a, 1)
    <3>1. GenCall(a, 1).pollfds = a.pollfds
      BY <1>4, <1>7
    <3> QED  BY <1>1, <1>a, <2>3, <3>1
  <2>4. CASE Rooms(t, k) # {} /\ u = GenCall(t, n)
    <3>1. GenCall(t, n).pollfds = t.pollfds
      BY <1>6, <1>7, <2>4
    <3> QED  BY <1>1, <2>4, <3>1
  <2> QED  BY <1>5, <2>1, <2>2, <2>3, <2>4
<1> QED  BY <1>1, <1>8 DEF u

LEMMA Usr2Keeps == ASSUME IInv, Usr2 PROVE IInv'
<1> DEFINE h == 1  u == GenNextCall(Now, h)
<1>1. /\ pc = "poll" /\ toBrick = <<>> /\ signals < cfg.signals /\ signals' = signals + 1
      /\ cfg' = cfg /\ answered' = answered /\ toProg' = toProg /\ line' = line /\ listens' = listens
      /\ Goes(u, at)
  BY DEF Usr2, Signalled
<1>2. /\ Now = Program /\ Now \in State /\ Now.appls = appls /\ Now.pollfds = pollfds /\ Silent(Now)
      /\ Whole(cfg, Now, toProg, line, listens, answered, signals) /\ Inv(cfg, Now, toProg, line)
      /\ cfg \in Configs /\ answered \in Nat /\ signals \in Nat /\ cfg.recv \in BOOLEAN
  BY <1>1, NowIs
<1>3. /\ appls # <<>> /\ at \in Nat /\ at <= Len(pollfds)
  BY <1>1 DEF IInv, Control
<1>4. /\ h \in DOMAIN Now.appls /\ Now.dialled \in Nat /\ Now.made \in Nat
  <2>1. appls \in Seq(Appl)
    BY <1>2, StateIn
  <2> QED  BY <1>2, <1>3, <2>1, StateIn
<1> HIDE DEF h
<1>5. Whole(cfg, Now, toProg, line, listens, answered, signals')
  BY <1>1, <1>2, <1>4, SignalWhole
<1>6. CASE cfg.recv
  <2>1. u = Now
    BY <1>6 DEF GenNextCall
  <2>2. /\ u \in State /\ at \in Nat /\ Goes(u, at) /\ (u.appls # <<>> => at <= Len(u.pollfds))
        /\ cfg' \in Configs /\ answered' \in Nat /\ signals' \in Nat
        /\ Whole(cfg', u, toProg', line', listens', answered', signals')
    BY <1>1, <1>2, <1>3, <1>5, <2>1
  <2> HIDE DEF u
  <2> QED  BY ONLY <2>2, GoesOn
<1>7. CASE ~cfg.recv
  <2>1. /\ listens \subseteq 1 .. Now.made /\ Heard(cfg, Now, listens)
        /\ Bounded(cfg, Now, toProg, line, answered, signals)
    BY <1>2 DEF Whole
  <2>2. Open(Now) /\ Dumb(Now)
    <3>1. DOMAIN Now.ms = {}
      BY <1>2 DEF Silent
    <3> QED  BY <1>7, <2>1, <3>1 DEF Open, Dumb, Heard
  <2>3. /\ Now.dialled + Cardinality(Due(cfg, Now.ms, toProg, line)) <= signals' + answered
        /\ Now.dialled + 1 \in CallIds /\ answered <= cfg.answers /\ signals' <= cfg.signals
        /\ Now.made <= 1 + Now.dialled
        /\ cfg.MaxActivCalls = 0 => Now.dialled = 0
    <3> DEFINE x == Now.dialled  y == Cardinality(Due(cfg, Now.ms, toProg, line))  z == signals'
    <3>1. /\ x + y <= 1 + signals + answered /\ answered <= cfg.answers /\ signals <= cfg.signals
          /\ Now.made <= 1 + Now.dialled
          /\ cfg.MaxActivCalls = 0 => Now.dialled = 0
      BY <1>7, <2>1 DEF Bounded
    <3>2. /\ x \in Nat /\ y \in Nat /\ answered \in Nat /\ signals \in Nat /\ z = signals + 1
          /\ signals < cfg.signals
          /\ cfg.answers \in Nat /\ cfg.signals \in Nat /\ cfg.answers <= MaxCalls
          /\ cfg.signals <= MaxSignals /\ MaxCalls \in Nat /\ MaxSignals \in Nat
          /\ CallIds = 1 .. MaxCalls + MaxSignals + 1
      BY <1>1, <1>2, <1>4, DueType, Options, Constants
    <3> HIDE DEF x, y, z
    <3>3. x + y <= z + answered /\ x + 1 \in CallIds /\ z <= cfg.signals
      BY ONLY SMTT(40), SMTT(41), ZenonT(30), <3>1, <3>2
    <3> QED  BY <3>1, <3>3 DEF x, y, z
  <2>4. Went(cfg, Now, u, h, toProg, line)
    <3> DEFINE t == Now  s == toProg  l == line
    <3>1. /\ cfg \in Configs /\ ~cfg.recv /\ Inv(cfg, t, s, l) /\ Open(t) /\ Dumb(t)
          /\ h \in DOMAIN t.appls /\ t.made <= 1 + t.dialled /\ t.dialled + 1 \in CallIds
          /\ cfg.MaxActivCalls = 0 => t.dialled = 0
      BY <1>2, <1>4, <1>7, <2>2, <2>3
    <3> HIDE DEF t, s, l
    <3>2. Went(cfg, t, GenNextCall(t, h), h, s, l)
      BY ONLY <3>1, Dials
    <3> QED  BY <3>2 DEF t, s, l
  <2>5. signals' # 0 /\ signals' \in Nat
    BY <1>1, <1>2
  <2>6. /\ cfg \in Configs /\ ~cfg.recv /\ answered \in Nat /\ signals' \in Nat
        /\ Went(cfg, Now, u, h, toProg, line) /\ listens \subseteq 1 .. Now.made /\ Now.made \in Nat
        /\ Now.dialled \in Nat /\ answered <= cfg.answers /\ signals' <= cfg.signals
        /\ Now.dialled + Cardinality(Due(cfg, Now.ms, toProg, line)) <= signals' + answered
        /\ cfg.MaxActivCalls = 0 => Now.dialled = 0
        /\ signals' = 0 => /\ h = 1 /\ Resting(cfg, Now, toProg, line) /\ OthersFull(cfg, Now)
                           /\ Cardinality(Numbers(Now.appls)) <= cfg.MaxActivCalls
    BY <1>2, <1>4, <1>7, <2>1, <2>3, <2>4, <2>5
  <2>7. Whole(cfg, u, toProg, line, listens, answered, signals')
    <3> HIDE DEF u
    <3> QED  BY ONLY <2>6, WentWhole
  <2>8. Inv(cfg, u, toProg, line) /\ u \in State
    BY <2>4 DEF Went, Inv, Structured
  <2>9. Len(pollfds) <= Len(u.pollfds)
    <3> DEFINE t == Now  s == toProg  l == line
    <3>1. /\ cfg \in Configs /\ ~cfg.recv /\ Inv(cfg, t, s, l) /\ Open(t)
          /\ h \in DOMAIN t.appls /\ t.made <= 1 + t.dialled /\ t.dialled + 1 \in CallIds
          /\ cfg.MaxActivCalls = 0 => t.dialled = 0
          /\ Inv(cfg, GenNextCall(t, h), s, l)
      BY <1>2, <1>4, <1>7, <2>2, <2>3, <2>8
    <3> HIDE DEF t, s, l
    <3>2. Len(t.pollfds) <= Len(GenNextCall(t, h).pollfds)
      BY ONLY <3>1, DialsPolled
    <3> QED  BY <1>2, <3>2 DEF t
  <2>10. at <= Len(u.pollfds)
    <3> DEFINE x == Len(u.pollfds)  y == Len(pollfds)
    <3>1. x \in Nat /\ y \in Nat /\ y <= x /\ at \in Nat /\ at <= y
      BY <1>2, <1>3, <2>8, <2>9, StateIn
    <3> HIDE DEF x, y
    <3>2. at <= x
      BY ONLY <3>1
    <3> QED  BY <3>2 DEF x
  <2>11. /\ u \in State /\ at \in Nat /\ Goes(u, at) /\ (u.appls # <<>> => at <= Len(u.pollfds))
         /\ cfg' \in Configs /\ answered' \in Nat /\ signals' \in Nat
         /\ Whole(cfg', u, toProg', line', listens', answered', signals')
    BY <1>1, <1>2, <1>3, <2>5, <2>7, <2>8, <2>10
  <2> HIDE DEF u
  <2> QED  BY ONLY <2>11, GoesOn
<1> QED  BY <1>2, <1>6, <1>7

\* The walk is over no application.
LEMMA DeafenedNone ==
    ASSUME NEW t, NEW k \in Nat, k >= 1
    PROVE  Deafened(t, k, k - 1) = t
<1> DEFINE n == k - 1
           h == CHOOSE o : o = [i \in k - 1 .. n |-> IF i = k - 1 THEN t ELSE SetListen(o[i - 1], i, FALSE)]
<1>1. Deafened(t, k, n) = h[n]
  BY DEF Deafened
<1>2. \E o : o = [i \in k - 1 .. n |-> IF i = k - 1 THEN t ELSE SetListen(o[i - 1], i, FALSE)]
  <2> DEFINE b == k - 1
  <2>1. b \in Nat /\ b + 0 = b
    OBVIOUS
  <2> HIDE DEF b
  <2>2. \E o : DeafLoop(o, t, b, b + 0)
    BY <2>1, DeafExists
  <2>3. \E o : DeafLoop(o, t, b, b)
    BY <2>1, <2>2
  <2> QED  BY <2>3 DEF DeafLoop, b
<1>3. DeafLoop(h, t, n, n)
  BY <1>2 DEF DeafLoop
<1> HIDE DEF h
<1>4. h[n] = t
  <2>1. n \in n .. n
    OBVIOUS
  <2> HIDE DEF n
  <2> QED  BY <1>3, <2>1 DEF DeafLoop
<1> QED  BY <1>1, <1>4

LEMMA StartKeeps == ASSUME IInv, Start PROVE IInv'
<1> DEFINE v == AllocAppl(Now)  h == 1  u == GenNextCall(v, h)  s == toProg  l == line  z == 0
<1>1. /\ pc = "init" /\ Goes(GenNextCall(CheckAppl(AllocAppl(Now), 1), 1), 0)
      /\ cfg' = cfg /\ answered' = answered /\ signals' = signals /\ toProg' = toProg /\ line' = line
      /\ listens' = listens
  BY DEF Start
<1>2. /\ made = 0 /\ dialled = 0 /\ answered = z /\ signals = z /\ appls = <<>> /\ toBrick = <<>>
  BY <1>1 DEF IInv, Control
<1>3. /\ Now \in State /\ Now.appls = <<>> /\ Silent(Now) /\ Now.made = 0 /\ Now.dialled = 0
      /\ Whole(cfg, Now, s, l, listens, z, z) /\ Inv(cfg, Now, s, l)
      /\ cfg \in Configs /\ cfg.recv \in BOOLEAN /\ z \in Nat /\ DOMAIN Now.ms = {}
  <2>1. /\ Now \in State /\ Silent(Now) /\ Now.appls = appls /\ Now.made = made /\ Now.dialled = dialled
        /\ Whole(cfg, Now, toProg, line, listens, answered, signals) /\ Inv(cfg, Now, toProg, line)
        /\ cfg \in Configs /\ cfg.recv \in BOOLEAN /\ answered \in Nat
    BY <1>2, NowIs
  <2>2. DOMAIN Now.ms = {}
    BY <2>1 DEF Silent
  <2> QED  BY <1>2, <2>1, <2>2
<1>4. 1 \in ApplIds /\ 1 \in CallIds /\ MaxCalls \in Nat /\ MaxSignals \in Nat
  BY Constants
<1>5. Open(Now)
  BY <1>3 DEF Open
<1>6. Registers(cfg, Now, v, s, l)
  <2>1. /\ cfg.recv \in BOOLEAN /\ Inv(cfg, Now, s, l) /\ Open(Now) /\ Now.made + 1 \in ApplIds
    BY <1>3, <1>4, <1>5
  <2> HIDE DEF s, l
  <2> QED  BY ONLY <2>1, Allocs
<1> HIDE DEF v, h, z, s, l
<1>7. /\ Inv(cfg, v, s, l) /\ Open(v) /\ Quietly(cfg, Now, v, s, l) /\ v.made = 1 /\ v.dialled = 0
      /\ v.appls[1].id = 1 /\ v.appls[1].active_calls = 0 /\ v.appls[1].calls = <<>>
      /\ v.appls[1].listen <=> cfg.recv
  <2>1. Now.made + 1 = 1
    BY <1>3
  <2> QED  BY <1>3, <1>6, <2>1 DEF Registers
<1>8. v \in State /\ Len(v.appls) = 1 /\ DOMAIN v.appls = {1} /\ v.appls # <<>>
  <2>1. Len(Now.appls) = 0
    BY <1>3
  <2>2. Len(v.appls) = 1
    BY <1>6, <2>1 DEF Registers, OneMore
  <2>3. v \in State
    BY <1>7 DEF Inv, Structured
  <2>4. DOMAIN v.appls = 1 .. 1 /\ 1 .. 1 = {1}
    BY <2>2, <2>3, StateIn
  <2>5. v.appls # <<>>
    <3>1. CASE v.appls = <<>>
      <4>1. Len(v.appls) = 0
        BY <3>1
      <4> QED  BY <2>2, <4>1
    <3> QED  BY <3>1
  <2> QED  BY <2>2, <2>3, <2>4, <2>5
<1>9. CheckAppl(v, 1) = v
  <2>1. CASE ~cfg.recv
    BY <2>1 DEF CheckAppl
  <2>2. CASE cfg.recv
    <3> DEFINE n == Min(Rooms(v, h))
    <3>0. h = 1 /\ h \in Nat
      BY DEF h
    <3>1. h \in Rooms(v, h)
      <4>1. cfg.callperappl \in Nat /\ cfg.callperappl # 0
        BY <1>3, Options
      <4> QED  BY <1>7, <1>8, <3>0, <4>1 DEF Rooms
    <3>2. n \in DOMAIN v.appls
      <4>1. Rooms(v, h) # {} /\ h \in DOMAIN v.appls
        BY <1>8, <3>0, <3>1
      <4> QED  BY <1>3, <1>8, <4>1, RoomsIn
    <3>3. n = h
      BY <1>8, <3>0, <3>2
    <3> HIDE DEF n
    <3>4. CheckAppl(v, h) = SetListen(Deafened(v, h, n - 1), n, TRUE)
      BY <2>2, <3>1 DEF CheckAppl, n
    <3>5. Deafened(v, h, h - 1) = v
      BY <3>0, DeafenedNone
    <3>6. CheckAppl(v, h) = SetListen(v, h, TRUE)
      BY <3>3, <3>4, <3>5
    <3>7. v.appls[h].listen = TRUE
      <4>1. v.appls[h].listen \in BOOLEAN
        BY <1>8, <3>0, StateIn
      <4> QED  BY <1>7, <2>2, <3>0, <4>1
    <3>8. SetListen(v, h, TRUE) = v
      BY <3>7 DEF SetListen
    <3> QED  BY <3>0, <3>6, <3>8
  <2> QED  BY <2>1, <2>2
<1>10. Goes(u, 0)
  BY <1>1, <1>9 DEF v, h
<1>11. listens = {} /\ Cardinality(Due(cfg, v.ms, s, l)) = 0 /\ Due(cfg, v.ms, s, l) = {}
  <2>1. listens \subseteq 1 .. Now.made /\ Bounded(cfg, Now, s, l, z, z)
    BY <1>3 DEF Whole
  <2>2. listens = {}
    BY <1>3, <2>1
  <2>3. Due(cfg, v.ms, s, l) = Due(cfg, Now.ms, s, l)
    BY <1>7 DEF Quietly
  <2>4. Cardinality(Due(cfg, Now.ms, s, l)) = 0
    <3> DEFINE y == Cardinality(Due(cfg, Now.ms, s, l))
    <3>0. z = 0
      BY DEF z
    <3>1. ~cfg.recv => Now.dialled + y <= 1 + z + z
      BY <2>1 DEF Bounded
    <3>2. IsFiniteSet(Due(cfg, Now.ms, s, l))
      BY DueType
    <3>3. Due(cfg, Now.ms, s, l) = {}
      <4> SUFFICES ASSUME NEW i \in CallIds,
                          Number(Now.ms, Dues(cfg, i)) + Number(In(s, l, i), Dues(cfg, i)) > 0
                   PROVE  FALSE
        BY DEF Due
      <4>1. Structured(cfg, Now) /\ Mailed(cfg, Now, s, l)
        BY <1>3 DEF Inv
      <4>2. i > Now.dialled
        BY <1>3, Constants
      <4>3. l[i] = Idle
        BY <4>1, <4>2 DEF Mailed, Known
      <4>4. In(s, l, i) = <<>>
        BY <4>3 DEF In, Idle
      <4>5. Now.ms = <<>>
        BY <1>3 DEF Silent
      <4> QED  BY <4>4, <4>5, NoneNumber
    <3> QED  BY <3>3, FS_EmptySet
  <2>5. Due(cfg, v.ms, s, l) = {}
    <3>1. IsFiniteSet(Due(cfg, v.ms, s, l))
      BY DueType
    <3> QED  BY <2>3, <2>4, <3>1, FS_EmptySet
  <2> QED  BY <2>2, <2>3, <2>4, <2>5
<1>12. CASE cfg.recv
  <2>1. u = v
    BY <1>12 DEF GenNextCall
  <2>2. Heard(cfg, v, listens)
    <3>1. cfg.callperappl \in Nat /\ cfg.callperappl # 0
      BY <1>3, Options
    <3>2. /\ \A n \in DOMAIN v.ms : Asks(v.ms[n], 1, 1)
          /\ \E n \in DOMAIN v.ms : Asks(v.ms[n], 1, 1)
      <4>1. Now.made + 1 = 1
        BY <1>3
      <4> QED  BY <1>3, <1>6, <1>12, <4>1 DEF Registers
    <3> QED  BY <1>7, <1>8, <1>12, <3>1, <3>2 DEF Heard, Asks
  <2>3. Listened(cfg, v)
    BY <1>7, <1>8, <1>12 DEF Listened
  <2>4. Bounded(cfg, v, s, l, z, z)
    <3>1. cfg.answers \in Nat /\ cfg.signals \in Nat
      BY <1>3, Options
    <3> QED  BY <1>7, <1>11, <1>12, <3>1 DEF Bounded, z
  <2>5. Whole(cfg, v, s, l, listens, z, z)
    BY <1>7, <1>11, <1>12, <2>2, <2>3, <2>4 DEF Whole
  <2>6. /\ u \in State /\ z \in Nat /\ Goes(u, z) /\ (u.appls # <<>> => z <= Len(u.pollfds))
        /\ cfg' \in Configs /\ answered' \in Nat /\ signals' \in Nat
        /\ Whole(cfg', u, toProg', line', listens', answered', signals')
    <3>1. z <= Len(u.pollfds)
      BY <1>8, <2>1, StateIn DEF z
    <3>2. z = 0
      BY DEF z
    <3> HIDE DEF u
    <3> QED  BY <1>1, <1>2, <1>3, <1>8, <1>10, <2>1, <2>5, <3>1, <3>2 DEF s, l
  <2> HIDE DEF u
  <2> QED  BY ONLY <2>6, GoesOn
<1>13. CASE ~cfg.recv
  <2>1. h \in DOMAIN v.appls /\ h = 1
    BY <1>8 DEF h
  <2>2. /\ Dumb(v) /\ v.made <= 1 + v.dialled /\ v.dialled + 1 \in CallIds
    BY <1>4, <1>7, <1>8, <1>13 DEF Dumb
  <2>3. Went(cfg, v, u, h, s, l)
    <3>1. /\ cfg \in Configs /\ ~cfg.recv /\ Inv(cfg, v, s, l) /\ Open(v) /\ Dumb(v)
          /\ h \in DOMAIN v.appls /\ v.made <= 1 + v.dialled /\ v.dialled + 1 \in CallIds
          /\ cfg.MaxActivCalls = 0 => v.dialled = 0
      BY <1>3, <1>7, <1>13, <2>1, <2>2
    <3>2. Went(cfg, v, GenNextCall(v, h), h, s, l)
      BY ONLY <3>1, Dials
    <3> QED  BY <3>2
  <2>4. Resting(cfg, v, s, l) /\ OthersFull(cfg, v) /\ Numbers(v.appls) = {}
    <3>1. DOMAIN v.appls[1].calls = {}
      BY <1>7
    <3> QED  BY <1>8, <3>1 DEF Resting, OthersFull, Numbers
  <2>5. Cardinality(Numbers(v.appls)) <= cfg.MaxActivCalls
    <3>1. Cardinality(Numbers(v.appls)) = 0
      BY <2>4, FS_EmptySet
    <3> QED  BY <1>3, <3>1, Options
  <2>6. z = 0 /\ cfg.answers \in Nat /\ cfg.signals \in Nat
    BY <1>3, Options DEF z
  <2>7. /\ cfg \in Configs /\ ~cfg.recv /\ z \in Nat
        /\ Went(cfg, v, u, h, s, l) /\ listens \subseteq 1 .. v.made /\ v.made \in Nat
        /\ v.dialled \in Nat /\ z <= cfg.answers /\ z <= cfg.signals
        /\ v.dialled + Cardinality(Due(cfg, v.ms, s, l)) <= z + z
        /\ cfg.MaxActivCalls = 0 => v.dialled = 0
        /\ z = 0 => /\ h = 1 /\ Resting(cfg, v, s, l) /\ OthersFull(cfg, v)
                    /\ Cardinality(Numbers(v.appls)) <= cfg.MaxActivCalls
    <3> HIDE DEF u
    <3> QED  BY <1>3, <1>7, <1>11, <1>13, <2>1, <2>3, <2>4, <2>5, <2>6
  <2> HIDE DEF u
  <2>8. Whole(cfg, u, s, l, listens, z, z)
    BY ONLY <2>7, WentWhole
  <2>9. u \in State
    BY <2>3 DEF Went, Inv, Structured
  <2>10. z <= Len(u.pollfds)
    BY <2>6, <2>9, StateIn
  <2>11. /\ u \in State /\ z \in Nat /\ Goes(u, z) /\ (u.appls # <<>> => z <= Len(u.pollfds))
         /\ cfg' \in Configs /\ answered' \in Nat /\ signals' \in Nat
         /\ Whole(cfg', u, toProg', line', listens', answered', signals')
    BY <1>1, <1>2, <1>3, <1>10, <2>6, <2>8, <2>9, <2>10 DEF s, l
  <2> QED  BY ONLY <2>11, GoesOn
<1> QED  BY <1>3, <1>12, <1>13

\* DisconnectAll
Down(t, j) == DoDisconnect(Sender(t.appls[1].id, t.appls[1].calls[j]))
Downs(v, t, j) == Changed(v, 1, j, Down(t, j).c, Down(t, j).ms)
DownLoop(h, t, n) == h = [j \in 0 .. n |-> IF j = 0 THEN t ELSE Downs(h[j - 1], t, j)]

LEMMA DownExists ==
    ASSUME NEW t, NEW n \in Nat
    PROVE  \E h : DownLoop(h, t, n)
<1> DEFINE Bad == {k \in Nat : ~ \E h : DownLoop(h, t, k)}
<1>1. 0 \notin Bad
  <2> DEFINE h == [k \in 0 .. 0 |-> t]
  <2>1. DownLoop(h, t, 0)
    BY DEF DownLoop
  <2> QED  BY <2>1
<1>2. ASSUME NEW k \in Nat, NEW h, DownLoop(h, t, k)
      PROVE  \E g : DownLoop(g, t, k + 1)
  <2> DEFINE g == [j \in 0 .. k + 1 |-> IF j = k + 1 THEN Downs(h[k], t, k + 1) ELSE h[j]]
  <2>1. ASSUME NEW j \in 0 .. k + 1
        PROVE  g[j] = IF j = 0 THEN t ELSE Downs(g[j - 1], t, j)
    <3>1. CASE j = 0
      BY <1>2, <3>1 DEF DownLoop
    <3>2. CASE j \in 1 .. k
      <4>1. g[j] = h[j] /\ g[j - 1] = h[j - 1] /\ j \in 0 .. k /\ j # 0
        BY <3>2
      <4>2. h[j] = Downs(h[j - 1], t, j)
        BY <1>2, <4>1 DEF DownLoop
      <4> QED  BY <4>1, <4>2
    <3>3. CASE j = k + 1
      <4>1. g[j] = Downs(h[k], t, j) /\ g[j - 1] = h[k] /\ j # 0
        BY <3>3
      <4> QED  BY <4>1
    <3> QED  BY <3>1, <3>2, <3>3
  <2>2. g = [j \in 0 .. k + 1 |-> g[j]]
    OBVIOUS
  <2> HIDE DEF g
  <2>3. g = [j \in 0 .. k + 1 |-> IF j = 0 THEN t ELSE Downs(g[j - 1], t, j)]
    BY <2>1, <2>2, Zenon
  <2>4. DownLoop(g, t, k + 1)
    BY <2>3 DEF DownLoop
  <2> QED  BY <2>4
<1>3. Bad = {}
  <2>1. ASSUME Bad # {}  PROVE FALSE
    <3>1. PICK k \in Bad : \A j \in Bad : k <= j
      BY <2>1, Least
    <3>2. k - 1 \in Nat /\ k - 1 \notin Bad /\ k = (k - 1) + 1
      BY <1>1, <3>1
    <3>3. \E h : DownLoop(h, t, k - 1)
      BY <3>2
    <3>4. \E g : DownLoop(g, t, (k - 1) + 1)
      BY <1>2, <3>2, <3>3
    <3> QED  BY <3>1, <3>2, <3>4
  <2> QED  BY <2>1
<1> QED  BY <1>3

LEMMA DownOne ==
    ASSUME NEW g, NEW t, NEW v, NEW s, NEW l, Run(g, t, v, s, l), NEW j, 1 \in DOMAIN v.appls,
           j \in DOMAIN v.appls[1].calls, v.appls[1].calls[j] = t.appls[1].calls[j]
    PROVE  /\ Run(g, t, Downs(v, t, j), s, l)
           /\ \A i \in DOMAIN v.appls[1].calls : i # j => Downs(v, t, j).appls[1].calls[i] = v.appls[1].calls[i]
<1> DEFINE k == 1  c == v.appls[1].calls[j]  a == v.appls[1].id  r0 == Sender(a, c)  r == DoDisconnect(r0)
<1>1. /\ c \in Call /\ c.id \in 1 .. v.dialled /\ CallRight(g, c, v.dialled) /\ a \in Nat
      /\ c.NotAcknowledged \in Nat /\ v.appls[1].id = t.appls[1].id
  <2>1. v \in State /\ SameFrame(t, v)
    BY RunIn
  <2>2. a \in Nat /\ v.appls[1].id = t.appls[1].id
    BY <2>1, StateIn DEF SameFrame
  <2> QED  BY <2>2, RunAt
<1>2. Down(t, j) = r
  BY <1>1 DEF Down
<1>3. r0 \in Senders /\ r0.appl = a /\ r0.c = c /\ Begun(r0)
  BY <1>1, SenderIs
<1> HIDE DEF r0, c, a
<1>4. Sends(r0, r, 0) /\ ~r.c.doSend
  BY <1>3, Disconnects
<1> HIDE DEF r
<1>5. PICK x \in Seq(Message) : SendsBy(r0, r, 0, x)
  BY <1>4 DEF Sends
<1> DEFINE d == r.c
<1>6. /\ d \in Call /\ d.id = c.id /\ d.b3 = c.b3 /\ d.plci = c.plci /\ d.active = c.active
      /\ Plain(x) /\ \A n \in DOMAIN x : /\ x[n].id = c.id /\ x[n].appl = a
                                         /\ x[n].type = "DATAB3_REQ" => x[n].b3
      /\ d.NotAcknowledged = c.NotAcknowledged + Number(x, Typed(c.id, "DATAB3_REQ"))
      /\ d.NotAcknowledged <= c.NotAcknowledged + 0 /\ ~d.doSend
  BY <1>3, <1>4, <1>5 DEF SendsBy, Concerns, Senders
<1>7. r.ms = x
  <2>1. r0.ms = <<>> /\ r.ms = r0.ms \o x
    BY <1>3, <1>5 DEF SendsBy, Begun
  <2>2. <<>> \o x = x
    OBVIOUS
  <2> QED  BY <2>1, <2>2
<1>8. d.NotAcknowledged = c.NotAcknowledged
  <2> DEFINE n == Number(x, Typed(c.id, "DATAB3_REQ"))  y == d.NotAcknowledged  e == c.NotAcknowledged
  <2>1. n \in Nat /\ e \in Nat /\ y = e + n /\ y <= e + 0
    BY <1>1, <1>6, NumberType DEF c
  <2> HIDE DEF n, y, e
  <2>2. y = e
    BY ONLY <2>1
  <2> QED  BY <2>2 DEF y, e
<1>9. CallRight(g, d, v.dialled)
  <2>1. CallRight(g, c, v.dialled)
    BY SMTT(40), SMTT(41), ZenonT(30), <1>1 DEF c
  <2> HIDE DEF d
  <2> QED  BY <1>6, <1>8, <2>1 DEF CallRight
<1>10. /\ Run(g, t, v, s, l) /\ k \in DOMAIN v.appls /\ j \in DOMAIN v.appls[k].calls /\ c = v.appls[k].calls[j]
       /\ d \in Call /\ d.id = c.id /\ CallRight(g, d, v.dialled) /\ x \in Seq(Message) /\ Plain(x)
       /\ \A n \in DOMAIN x : /\ x[n].id = c.id /\ x[n].appl = v.appls[k].id
                              /\ x[n].type = "DATAB3_REQ" => x[n].b3
       /\ d.NotAcknowledged = c.NotAcknowledged + Number(x, Typed(c.id, "DATAB3_REQ"))
       /\ d.NotAcknowledged = c.NotAcknowledged /\ (d.doSend => c.doSend)
  <2> HIDE DEF d
  <2> QED  BY SMTT(40), SMTT(41), ZenonT(30), <1>5, <1>6, <1>8, <1>9 DEF c, a
<1> HIDE DEF d, k
<1>11. /\ Run(g, t, Changed(v, k, j, d, x), s, l)
       /\ \A n \in DOMAIN v.appls : \A i \in DOMAIN v.appls[n].calls :
             n # k \/ i # j => Changed(v, k, j, d, x).appls[n].calls[i] = v.appls[n].calls[i]
  BY ONLY <1>10, Changes
<1>12. Changed(v, k, j, d, x) = Downs(v, t, j) /\ k = 1
  BY <1>2, <1>7 DEF Downs, d, k
<1> QED  BY SMTT(40), SMTT(41), ZenonT(30), <1>10, <1>11, <1>12

LEMMA DownLoops ==
    ASSUME NEW g, NEW t, NEW s, NEW l, Run(g, t, t, s, l), 1 \in DOMAIN t.appls, NEW n \in Nat,
           n = Len(t.appls[1].calls), NEW h, DownLoop(h, t, n)
    PROVE  Run(g, t, h[n], s, l)
<1> DEFINE P(k) == /\ Run(g, t, h[k], s, l)
                   /\ \A i \in 1 .. n : i > k => h[k].appls[1].calls[i] = t.appls[1].calls[i]
           Bad == {k \in 0 .. n : ~P(k)}
<1>0. DOMAIN t.appls[1].calls = 1 .. n
  <2>1. t \in State
    BY RunIn
  <2> QED  BY <2>1, StateIn
<1>1. 0 \notin Bad
  <2>1. h[0] = t
    BY DEF DownLoop
  <2> QED  BY <2>1
<1>2. ASSUME NEW k \in Nat, k + 1 \in 0 .. n, P(k)
      PROVE  P(k + 1)
  <2> DEFINE j == k + 1  v == h[k]
  <2>0. j \in 1 .. n /\ j > k /\ j # 0 /\ j - 1 = k /\ j \in 0 .. n
    BY <1>2
  <2>1. h[j] = Downs(h[j - 1], t, j)
    <3> HIDE DEF j
    <3> QED  BY <2>0 DEF DownLoop
  <2>2. h[j] = Downs(v, t, j)
    BY <2>0, <2>1
  <2>3. /\ Run(g, t, v, s, l) /\ 1 \in DOMAIN v.appls /\ DOMAIN v.appls[1].calls = 1 .. n
        /\ v.appls[1].calls[j] = t.appls[1].calls[j]
    <3>1. Run(g, t, v, s, l) /\ v.appls[1].calls[j] = t.appls[1].calls[j]
      BY <1>2, <2>0
    <3>2. SameFrame(t, v)
      BY <3>1, RunIn
    <3> QED  BY <1>0, <3>1, <3>2 DEF SameFrame
  <2> HIDE DEF j, v
  <2>4. /\ Run(g, t, Downs(v, t, j), s, l)
        /\ \A i \in DOMAIN v.appls[1].calls : i # j => Downs(v, t, j).appls[1].calls[i] = v.appls[1].calls[i]
    BY <2>0, <2>3, DownOne
  <2>5. ASSUME NEW i \in 1 .. n, i > j
        PROVE  h[j].appls[1].calls[i] = t.appls[1].calls[i]
    <3>1. i # j /\ i > k
      BY <2>0, <2>5
    <3> QED  BY <1>2, <2>2, <2>3, <2>4, <3>1 DEF v
  <2>6. P(j)
    BY <2>2, <2>4, <2>5
  <2> QED  BY <2>6 DEF j
<1>3. Bad = {}
  <2>1. ASSUME Bad # {}  PROVE FALSE
    <3>0. Bad \subseteq Nat
      OBVIOUS
    <3>1. PICK k \in Bad : \A j \in Bad : k <= j
      <4> HIDE DEF Bad
      <4> QED  BY <2>1, <3>0, Least
    <3>2. k \in 0 .. n
      BY <3>1
    <3>3. k - 1 \in Nat /\ k - 1 \in 0 .. n /\ k - 1 \notin Bad /\ k = (k - 1) + 1 /\ k \in 0 .. n
      <4> HIDE DEF Bad
      <4> QED  BY <1>1, <3>0, <3>1, <3>2
    <3>4. P(k - 1)
      BY <3>3
    <3> HIDE DEF P
    <3>5. P((k - 1) + 1)
      BY <1>2, <3>3, <3>4
    <3>6. P(k)
      BY <3>3, <3>5
    <3> QED  BY <3>1, <3>6
  <2> QED  BY <2>1
<1>4. n \in 0 .. n
  OBVIOUS
<1>5. P(n)
  <2> HIDE DEF P
  <2> QED  BY SMTT(40), SMTT(41), ZenonT(30), <1>3, <1>4
<1> QED  BY <1>5

\* SIGHUP.
LEMMA HupKeeps == ASSUME IInv, Hup PROVE IInv'
<1> DEFINE t == Now  s == toProg  l == line
           n == Len(appls[1].calls)
           F(o) == [j \in 0 .. n |-> IF j = 0 THEN Now
                       ELSE [o[j - 1] EXCEPT
                                !.appls[1].calls[j] = DoDisconnect(Sender(appls[1].id, appls[1].calls[j])).c,
                                !.ms = @ \o DoDisconnect(Sender(appls[1].id, appls[1].calls[j])).ms]]
           h == CHOOSE o : o = F(o)
           u == h[n]
<1>1. /\ pc = "poll" /\ toBrick = <<>> /\ signals < cfg.signals /\ signals' = signals + 1
      /\ cfg' = cfg /\ answered' = answered /\ toProg' = toProg /\ line' = line /\ listens' = listens
  BY ZenonT(60) DEF Hup, Signalled
<1>a. Goes(u, at)
  BY Zenon DEF Hup, Sender
<1>2. /\ Now = Program /\ Now \in State /\ Now.appls = appls /\ Now.pollfds = pollfds /\ Silent(Now)
      /\ Whole(cfg, Now, toProg, line, listens, answered, signals) /\ Inv(cfg, Now, toProg, line)
      /\ cfg \in Configs /\ answered \in Nat /\ signals \in Nat /\ cfg.recv \in BOOLEAN
  BY <1>1, NowIs
<1>3. /\ appls # <<>> /\ at \in Nat /\ at <= Len(pollfds)
  BY <1>1 DEF IInv, Control
<1>4. /\ 1 \in DOMAIN t.appls /\ t.dialled \in Nat /\ t.made \in Nat
      /\ n \in Nat /\ n = Len(t.appls[1].calls)
  <2>1. appls \in Seq(Appl)
    BY <1>2, StateIn
  <2>2. 1 \in DOMAIN t.appls
    BY <1>2, <1>3, <2>1
  <2> QED  BY <1>2, <1>3, <2>1, <2>2, StateIn
<1>5. Run(cfg, t, t, s, l)
  BY <1>2, Begins DEF Silent
<1>6. DownLoop(h, t, n)
  <2> DEFINE G(o) == [j \in 0 .. n |-> IF j = 0 THEN t ELSE Downs(o[j - 1], t, j)]
  <2>1. \A o : F(o) = G(o)
    <3> SUFFICES ASSUME NEW o PROVE F(o) = G(o)
      BY Zenon
    <3>1. ASSUME NEW j \in 0 .. n
          PROVE  (IF j = 0 THEN Now
                  ELSE [o[j - 1] EXCEPT
                           !.appls[1].calls[j] = DoDisconnect(Sender(appls[1].id, appls[1].calls[j])).c,
                           !.ms = @ \o DoDisconnect(Sender(appls[1].id, appls[1].calls[j])).ms])
                 = (IF j = 0 THEN t ELSE Downs(o[j - 1], t, j))
      <4>1. DoDisconnect(Sender(appls[1].id, appls[1].calls[j])) = Down(t, j)
        BY <1>2 DEF Down
      <4> HIDE DEF t
      <4> QED  BY <4>1 DEF Downs, Changed, t
    <3> HIDE DEF n
    <3> QED  BY ZenonT(60), <3>1
  <2>2. \E o : DownLoop(o, t, n)
    <3> HIDE DEF t, n
    <3> QED  BY <1>4, DownExists
  <2>3. \E o : o = F(o)
    <3>1. PICK o : DownLoop(o, t, n)
      BY <2>2
    <3>2. o = G(o)
      BY SMTT(40), SMTT(41), ZenonT(30), <3>1 DEF DownLoop
    <3>3. F(o) = G(o)
      BY Zenon, <2>1
    <3> HIDE DEF F, G
    <3> QED  BY <3>2, <3>3
  <2>4. h = F(h)
    <3> HIDE DEF F
    <3> QED  BY <2>3
  <2> HIDE DEF h, F
  <2>5. h = G(h)
    BY <2>1, <2>4
  <2> QED  BY SMTT(40), SMTT(41), ZenonT(30), <2>5 DEF DownLoop
<1> HIDE DEF t, s, l, n, F, h
<1>7. Run(cfg, t, u, s, l)
  BY <1>4, <1>5, <1>6, DownLoops
<1> HIDE DEF u
<1>8. /\ u \in State /\ Inv(cfg, u, s, l) /\ SameFrame(t, u) /\ Plain(u.ms) /\ u.ms \in Seq(Message)
      /\ Held(s, l)
  BY <1>7, RunIn
<1>9. Whole(cfg, u, s, l, listens, answered, signals)
  <2>1. u.ms = t.ms \o u.ms /\ t.ms \in Seq(Message)
    <3>1. t.ms = <<>>
      BY <1>2 DEF Silent, t
    <3> QED  BY <1>8, <3>1
  <2>2. \A i \in CallIds : Number(u.ms, Toks(cfg, i)) = 0 /\ Number(u.ms, Dues(cfg, i)) = 0
    BY <1>8, PlainCounts
  <2>3. ASSUME NEW i \in CallIds, Turn(cfg, u.ms, s, l, i) = 1
        PROVE  Turn(cfg, t.ms, s, l, i) = 1
    <3> DEFINE x == u.ms
    <3>1. Turn(cfg, t.ms \o x, s, l, i) = Turn(cfg, t.ms, s, l, i) + Number(x, Toks(cfg, i))
      BY <1>8, <2>1, PutCounts
    <3>2. Turn(cfg, t.ms, s, l, i) \in Nat
      BY <1>8, <2>1, Counted
    <3>3. u.ms = t.ms \o x /\ x = u.ms
      BY <2>1
    <3> HIDE DEF x
    <3>4. Number(x, Toks(cfg, i)) = 0 /\ Turn(cfg, t.ms \o x, s, l, i) = 1
      BY <2>2, <2>3, <3>3
    <3> QED  BY <3>1, <3>2, <3>4
  <2>4. Due(cfg, u.ms, s, l) \in SUBSET Due(cfg, t.ms, s, l)
    <3> DEFINE x == u.ms
    <3>1. x \in Seq(Message) /\ (\A i \in CallIds : Number(x, Dues(cfg, i)) = 0)
      BY <1>8, <2>2
    <3> HIDE DEF x
    <3>2. Due(cfg, t.ms \o x, s, l) = Due(cfg, t.ms, s, l)
      BY <1>8, <2>1, <3>1, PutDue
    <3>3. u.ms = t.ms \o x
      BY <2>1 DEF x
    <3> QED  BY <3>2, <3>3
  <2>5. Unasked(u.ms)
    BY <1>8 DEF Plain, PlainTypes, Unasked
  <2>6. /\ answered \in Nat /\ signals \in Nat /\ Whole(cfg, t, s, l, listens, answered, signals)
        /\ t.ms = <<>> /\ Inv(cfg, u, s, l) /\ SameFrame(t, u) /\ Unasked(u.ms)
        /\ \A i \in CallIds : Turn(cfg, u.ms, s, l, i) = 1 => Turn(cfg, t.ms, s, l, i) = 1
        /\ Due(cfg, u.ms, s, l) \in SUBSET Due(cfg, t.ms, s, l)
    BY <1>2, <1>8, <2>3, <2>4, <2>5 DEF t, s, l, Silent
  <2> QED  BY ONLY <2>6, Settles
<1>10. Whole(cfg, u, s, l, listens, answered, signals')
  <2>1. u.dialled \in Nat
    BY <1>8, StateIn
  <2> QED  BY <1>1, <1>2, <1>9, <2>1, SignalWhole
<1>11. /\ u \in State /\ at \in Nat /\ Goes(u, at) /\ (u.appls # <<>> => at <= Len(u.pollfds))
       /\ cfg' \in Configs /\ answered' \in Nat /\ signals' \in Nat
       /\ Whole(cfg', u, toProg', line', listens', answered', signals')
  <2>1. Len(u.pollfds) = Len(pollfds)
    BY <1>2, <1>8 DEF SameFrame, t
  <2> QED  BY <1>1, <1>a, <1>2, <1>3, <1>8, <1>10, <2>1 DEF s, l
<1> QED  BY ONLY <1>11, GoesOn

--------------------------------------------------------------------------------
(* What the brick does to its calls and says *)

\* Call i becomes c, and the brick says x about it.
Becoming(l, i, c) == [l EXCEPT ![i] = c]

LEMMA Posts ==
    ASSUME NEW s, NEW l, Held(s, l), NEW i \in CallIds, NEW c \in Lines, NEW l2, l2 = Becoming(l, i, c),
           NEW a \in ApplIds, a = c.appl, l[i].appl \in {0, a},
           l[i].appl = 0 => \A n \in DOMAIN s[a] : s[a][n].id # i,
           NEW x \in Seq(Message), \A n \in DOMAIN x : x[n].id = i /\ x[n].appl = a
    PROVE  /\ Held(Given(s, a, x), l2) /\ l2[i] = c /\ \A j \in CallIds : j # i => l2[j] = l[j]
           /\ \A j \in CallIds : \A T : AboutCall(T, j) =>
                 /\ Number(In(Given(s, a, x), l2, j), T) = Number(In(s, l, j), T) + Number(x, T)
                 /\ j # i => Number(x, T) = 0
<1>1. /\ Held(s, l2) /\ l2[i] = c /\ \A j \in CallIds : j # i => l2[j] = l[j]
  BY DEF Held, Becoming
<1>2. \A n \in DOMAIN x : x[n].appl = a /\ Belongs(x[n], l2)
  BY <1>1 DEF Belongs
<1>3. ASSUME NEW j \in CallIds, NEW T, AboutCall(T, j)
      PROVE  /\ Held(Given(s, a, x), l2)
             /\ Number(In(Given(s, a, x), l2, j), T) = Number(In(s, l, j), T) + Number(x, T)
             /\ j # i => Number(x, T) = 0
  <2>1. /\ Held(Given(s, a, x), l2)
        /\ Number(In(Given(s, a, x), l2, j), T) = Number(In(s, l2, j), T) + Number(x, T)
    <3>1. /\ Held(s, l2) /\ j \in CallIds /\ l2[j].appl = l2[j].appl /\ a \in ApplIds
          /\ x \in Seq(Message) /\ (\A n \in DOMAIN x : x[n].appl = a /\ Belongs(x[n], l2))
          /\ AboutCall(T, j)
      BY <1>1, <1>2, <1>3
    <3> QED  BY ONLY <3>1, PostIn
  <2>2. Number(In(s, l2, j), T) = Number(In(s, l, j), T)
    <3>1. CASE l2[j].appl = l[j].appl
      BY <3>1 DEF In
    <3>2. CASE l2[j].appl # l[j].appl
      <4>1. j = i /\ l[i].appl = 0 /\ l2[i].appl = a
        BY <1>1, <3>2
      <4>2. In(s, l, j) = <<>> /\ In(s, l2, j) = s[a] /\ s[a] \in Seq(Message)
        BY <4>1, Constants DEF In, Held
      <4>3. \A n \in DOMAIN s[a] : s[a][n] \notin T
        BY <1>3, <4>1 DEF AboutCall
      <4>4. Number(s[a], T) = 0
        BY <4>2, <4>3, NumberNone
      <4> QED  BY <4>2, <4>4, NumberOne
    <3> QED  BY <3>1, <3>2
  <2>3. ASSUME j # i  PROVE Number(x, T) = 0
    <3>1. \A n \in DOMAIN x : x[n] \notin T
      BY <1>3, <2>3 DEF AboutCall
    <3> QED  BY <3>1, NumberNone
  <2> QED  BY <2>1, <2>2, <2>3
<1>4. Held(Given(s, a, x), l2)
  <2>1. AboutCall({}, i)
    BY DEF AboutCall
  <2> QED  BY <1>3, <2>1
<1> QED  BY <1>1, <1>3, <1>4

\* The brick has taken the messages h, which are about its call i, and has not taken
\* r yet.  The call becomes c, and the brick says x about it.
Answering(g, i, c, x) ==
    /\ x \in Seq(Message)
    /\ \A n \in DOMAIN x : /\ x[n].id = i /\ x[n].appl = c.appl
                           /\ x[n].type \notin {"CONNECT_IND", "LISTEN_CONF"}
                           /\ x[n].type \in {"CONNECTB3ACTIVE_IND", "DATAB3_CONF"} => x[n].b3
                           /\ x[n].type = "CONNECTB3_IND" => g.recv
Taking(q, i, c, h, r) ==
    /\ h \in Seq(Message) /\ r \in Seq(Message) /\ q = h \o r
    /\ \A n \in DOMAIN h : /\ h[n].id = i /\ h[n].type \notin {"LISTEN_REQ", "RELEASE"}
                           /\ h[n].appl = c.appl
    /\ \A n \in DOMAIN r : ~(r[n].type = "CONNECT_REQ" /\ r[n].id = i)
Balanced(g, i, d, c, x, h) ==
    /\ Number(x, Toks(g, i)) + One(c.st = "dialling") <= Number(h, Toks(g, i)) + One(d.st = "dialling")
    /\ Number(x, Typed(i, "DATAB3_CONF")) + c.unconf <= Number(h, Typed(i, "DATAB3_REQ")) + d.unconf
    /\ c.st = "b3up" =>
          \/ Number(h, Toks(g, i)) > 0
          \/ /\ d.st = "b3up"
             /\ Number(x, Typed(i, "DATAB3_CONF")) + c.unconf = Number(h, Typed(i, "DATAB3_REQ")) + d.unconf
Does(g, t, l, i, c, x, h, r) ==
    /\ i \in CallIds /\ i \in 1 .. t.dialled /\ c \in Lines /\ c.appl \in 1 .. t.made
    /\ l[i].appl \in {0, c.appl} /\ (c.st \in {"dialling", "active"} => ~g.recv)
    /\ Answering(g, i, c, x) /\ Taking(t.ms, i, c, h, r) /\ Balanced(g, i, l[i], c, x, h)

LEMMA DoesPost ==
    ASSUME NEW g, NEW t, NEW s, NEW l, Structured(g, t), Mailed(g, t, s, l), NEW i, NEW c, NEW x, NEW h, NEW r,
           Does(g, t, l, i, c, x, h, r), NEW s2, s2 = Given(s, c.appl, x), NEW l2, l2 = Becoming(l, i, c)
    PROVE  /\ Held(s, l) /\ Held(s2, l2) /\ l2[i] = c /\ \A j \in CallIds : j # i => l2[j] = l[j]
           /\ \A j \in CallIds : \A T : AboutCall(T, j) =>
                 /\ Number(In(s2, l2, j), T) = Number(In(s, l, j), T) + Number(x, T)
                 /\ j # i => Number(x, T) = 0 /\ Number(h, T) = 0
           /\ i \in CallIds /\ c.appl \in ApplIds /\ c \in Lines
           /\ x \in Seq(Message) /\ h \in Seq(Message) /\ r \in Seq(Message) /\ t.ms = h \o r
<1> DEFINE a == c.appl
<1>1. /\ Held(s, l) /\ a \in ApplIds /\ i \in CallIds /\ c \in Lines /\ l[i].appl \in {0, a}
  BY MailedIn DEF Does
<1>2. /\ x \in Seq(Message) /\ (\A n \in DOMAIN x : x[n].id = i /\ x[n].appl = a)
      /\ h \in Seq(Message) /\ r \in Seq(Message) /\ t.ms = h \o r
      /\ \A n \in DOMAIN h : h[n].id = i
  BY DEF Does, Answering, Taking
<1>3. l[i].appl = 0 => \A n \in DOMAIN s[a] : s[a][n].id # i
  <2>1. \A n \in DOMAIN s[a] : Posted(g, s[a][n], a, l, t.dialled)
    BY <1>1 DEF Mailed
  <2>2. a # 0 /\ i # 0
    BY <1>1, Constants
  <2> QED  BY <2>1, <2>2 DEF Posted
<1>4. a = c.appl
  OBVIOUS
<1> HIDE DEF a
<1>5. /\ Held(Given(s, a, x), l2) /\ l2[i] = c /\ \A j \in CallIds : j # i => l2[j] = l[j]
      /\ \A j \in CallIds : \A T : AboutCall(T, j) =>
            /\ Number(In(Given(s, a, x), l2, j), T) = Number(In(s, l, j), T) + Number(x, T)
            /\ j # i => Number(x, T) = 0
  <2>1. /\ l2 = Becoming(l, i, c) /\ Held(s, l) /\ i \in CallIds /\ c \in Lines /\ a \in ApplIds
        /\ a = c.appl /\ l[i].appl \in {0, a} /\ (l[i].appl = 0 => \A n \in DOMAIN s[a] : s[a][n].id # i)
        /\ x \in Seq(Message) /\ (\A n \in DOMAIN x : x[n].id = i /\ x[n].appl = a)
    BY <1>1, <1>2, <1>3, <1>4
  <2> QED  BY ONLY <2>1, Posts
<1>6. ASSUME NEW j \in CallIds, NEW T, AboutCall(T, j), j # i
      PROVE  Number(h, T) = 0
  <2>1. \A n \in DOMAIN h : h[n] \notin T
    BY <1>2, <1>6 DEF AboutCall
  <2> QED  BY <1>2, <2>1, NumberNone
<1> QED  BY <1>1, <1>2, <1>4, <1>5, <1>6

\* The turns and blocks of the call grow no more, those of the others stay.
LEMMA DoesCounts ==
    ASSUME NEW g, NEW t, NEW s, NEW l, Structured(g, t), Mailed(g, t, s, l), NEW i, NEW c, NEW x, NEW h, NEW r,
           Does(g, t, l, i, c, x, h, r), NEW s2, s2 = Given(s, c.appl, x), NEW l2, l2 = Becoming(l, i, c)
    PROVE  /\ \A j \in CallIds :
                 /\ Turn(g, r, s2, l2, j) <= Turn(g, t.ms, s, l, j)
                 /\ Unread(r, s2, l2, j) <= Unread(t.ms, s, l, j)
                 /\ Turn(g, r, s2, l2, j) \in Nat /\ Turn(g, t.ms, s, l, j) \in Nat
                 /\ Unread(r, s2, l2, j) \in Nat /\ Unread(t.ms, s, l, j) \in Nat
                 /\ l2[j].st = "b3up" =>
                       \/ Turn(g, t.ms, s, l, j) > 0
                       \/ l[j].st = "b3up" /\ Unread(r, s2, l2, j) = Unread(t.ms, s, l, j)
                 /\ Number(In(s2, l2, j), Typed(j, "CONNECT_IND")) = Number(In(s, l, j), Typed(j, "CONNECT_IND"))
<1>1. /\ Held(s, l) /\ Held(s2, l2) /\ l2[i] = c /\ (\A j \in CallIds : j # i => l2[j] = l[j])
      /\ \A j \in CallIds : \A T : AboutCall(T, j) =>
            /\ Number(In(s2, l2, j), T) = Number(In(s, l, j), T) + Number(x, T)
            /\ j # i => Number(x, T) = 0 /\ Number(h, T) = 0
      /\ x \in Seq(Message) /\ h \in Seq(Message) /\ r \in Seq(Message) /\ t.ms = h \o r
  BY DoesPost
<1>2. Balanced(g, i, l[i], c, x, h) /\ (\A n \in DOMAIN x : x[n].type # "CONNECT_IND")
  BY DEF Does, Answering
<1> SUFFICES ASSUME NEW j \in CallIds
             PROVE  /\ Turn(g, r, s2, l2, j) <= Turn(g, t.ms, s, l, j)
                    /\ Unread(r, s2, l2, j) <= Unread(t.ms, s, l, j)
                    /\ Turn(g, r, s2, l2, j) \in Nat /\ Turn(g, t.ms, s, l, j) \in Nat
                    /\ Unread(r, s2, l2, j) \in Nat /\ Unread(t.ms, s, l, j) \in Nat
                    /\ l2[j].st = "b3up" =>
                          \/ Turn(g, t.ms, s, l, j) > 0
                          \/ l[j].st = "b3up" /\ Unread(r, s2, l2, j) = Unread(t.ms, s, l, j)
                    /\ Number(In(s2, l2, j), Typed(j, "CONNECT_IND"))
                          = Number(In(s, l, j), Typed(j, "CONNECT_IND"))
  OBVIOUS
<1> DEFINE A == Toks(g, j)  B == Typed(j, "DATAB3_REQ")  C == Typed(j, "DATAB3_CONF")
           D == Typed(j, "CONNECT_IND")
<1>3. AboutCall(A, j) /\ AboutCall(B, j) /\ AboutCall(C, j) /\ AboutCall(D, j)
  BY AboutCalls
<1>4. Number(x, D) = 0
  <2>1. \A n \in DOMAIN x : x[n] \notin D
    BY <1>2 DEF Typed
  <2> QED  BY <1>1, <2>1, NumberNone
<1> DEFINE q == t.ms
           a1 == Number(r, A)  a2 == Number(In(s, l, j), A)  a3 == Number(x, A)  a4 == Number(h, A)
           a5 == One(l[j].st = "dialling")  a6 == One(l2[j].st = "dialling")
           b1 == Number(r, B)  b2 == Number(In(s, l, j), C)  b3 == Number(x, C)  b4 == Number(h, B)
           b5 == l[j].unconf  b6 == l2[j].unconf
<1>5. /\ Turn(g, q, s, l, j) = Number(q, A) + a2 + a5 /\ Unread(q, s, l, j) = Number(q, B) + b5 + b2
      /\ Turn(g, r, s2, l2, j) = a1 + Number(In(s2, l2, j), A) + a6
      /\ Unread(r, s2, l2, j) = b1 + b6 + Number(In(s2, l2, j), C)
  BY DEF Turn, Unread
<1>6. Number(q, A) = a4 + a1 /\ Number(q, B) = b4 + b1
  BY <1>1, NumberConcat
<1>7. /\ Number(In(s2, l2, j), A) = a2 + a3 /\ Number(In(s2, l2, j), C) = b2 + b3
      /\ Number(In(s2, l2, j), D) = Number(In(s, l, j), D) + Number(x, D)
  BY <1>1, <1>3
<1>8. /\ a1 \in Nat /\ a2 \in Nat /\ a3 \in Nat /\ a4 \in Nat /\ b1 \in Nat /\ b2 \in Nat /\ b3 \in Nat
      /\ b4 \in Nat /\ b5 \in Nat /\ Number(In(s, l, j), D) \in Nat
  <2>1. a1 \in Nat /\ a3 \in Nat /\ a4 \in Nat /\ b1 \in Nat /\ b3 \in Nat /\ b4 \in Nat
    BY <1>1, NumberType
  <2>2. In(s, l, j) \in Seq(Message)
    BY <1>1, InType
  <2>3. a2 \in Nat /\ b2 \in Nat /\ Number(In(s, l, j), D) \in Nat
    BY <2>2, NumberType
  <2>4. b5 \in Nat
    BY <1>1 DEF Held, Lines
  <2> QED  BY <2>1, <2>3, <2>4
<1>9. a5 \in Nat /\ a6 \in Nat /\ b6 \in Nat
  <2>1. b6 \in Nat
    BY <1>1 DEF Held, Lines
  <2> QED  BY <2>1 DEF One
<1>10. /\ a3 + a6 <= a4 + a5 /\ b3 + b6 <= b4 + b5
       /\ l2[j].st = "b3up" => a4 > 0 \/ (l[j].st = "b3up" /\ b3 + b6 = b4 + b5)
  <2>1. CASE j = i
    BY <1>1, <1>2, <2>1 DEF Balanced
  <2>2. CASE j # i
    <3>1. l2[j] = l[j] /\ a3 = 0 /\ a4 = 0 /\ b3 = 0 /\ b4 = 0
      BY <1>1, <1>3, <2>2
    <3> QED  BY <1>8, <1>9, <3>1
  <2> QED  BY <2>1, <2>2
<1> DEFINE T1 == Turn(g, q, s, l, j)  T2 == Turn(g, r, s2, l2, j)
           U1 == Unread(q, s, l, j)  U2 == Unread(r, s2, l2, j)
<1>11. T1 = (a4 + a1) + a2 + a5 /\ T2 = a1 + (a2 + a3) + a6
       /\ U1 = (b4 + b1) + b5 + b2 /\ U2 = b1 + b6 + (b2 + b3)
  BY <1>5, <1>6, <1>7
<1> HIDE DEF T1, T2, U1, U2, a1, a2, a3, a4, a5, a6, b1, b2, b3, b4, b5, b6
<1>12. /\ T2 <= T1 /\ U2 <= U1 /\ T1 \in Nat /\ T2 \in Nat /\ U1 \in Nat /\ U2 \in Nat
       /\ a4 > 0 => T1 > 0
       /\ b3 + b6 = b4 + b5 => U2 = U1
  <2>1. /\ a1 \in Nat /\ a2 \in Nat /\ a3 \in Nat /\ a4 \in Nat /\ a5 \in Nat /\ a6 \in Nat
        /\ a3 + a6 <= a4 + a5 /\ T1 = (a4 + a1) + a2 + a5 /\ T2 = a1 + (a2 + a3) + a6
    BY <1>8, <1>9, <1>10, <1>11
  <2>2. /\ b1 \in Nat /\ b2 \in Nat /\ b3 \in Nat /\ b4 \in Nat /\ b5 \in Nat /\ b6 \in Nat
        /\ b3 + b6 <= b4 + b5 /\ U1 = (b4 + b1) + b5 + b2 /\ U2 = b1 + b6 + (b2 + b3)
    BY <1>8, <1>9, <1>10, <1>11
  <2>3. T1 \in Nat /\ T2 \in Nat /\ T2 <= T1 /\ (a4 > 0 => T1 > 0)
    BY ONLY <2>1
  <2>4. U1 \in Nat /\ U2 \in Nat /\ U2 <= U1 /\ (b3 + b6 = b4 + b5 => U2 = U1)
    BY ONLY <2>2
  <2> QED  BY <2>3, <2>4
<1>13. l2[j].st = "b3up" => T1 > 0 \/ (l[j].st = "b3up" /\ U2 = U1)
  BY <1>10, <1>12
<1>14. Number(In(s2, l2, j), D) = Number(In(s, l, j), D)
  BY <1>4, <1>7, <1>8
<1> QED  BY <1>12, <1>13, <1>14 DEF T1, T2, U1, U2

\* So the invariant is kept.
Lastly(t, r) == [t EXCEPT !.ms = r]

LEMMA LastlyIs ==
    ASSUME NEW t \in State, NEW r \in Seq(Message)
    PROVE  /\ Lastly(t, r) \in State /\ Lastly(t, r).ms = r /\ Lastly(t, r).appls = t.appls
           /\ Lastly(t, r).pollfds = t.pollfds /\ Lastly(t, r).made = t.made
           /\ Lastly(t, r).dialled = t.dialled
<1>1. t = [appls |-> t.appls, pollfds |-> t.pollfds, made |-> t.made, dialled |-> t.dialled, ms |-> t.ms]
  BY StateIn
<1> QED  BY <1>1 DEF Lastly, State

LEMMA DoesTurns ==
    ASSUME NEW g, NEW t, NEW s, NEW l, Inv(g, t, s, l), NEW i, NEW c, NEW x, NEW h, NEW r,
           Does(g, t, l, i, c, x, h, r), NEW s2, s2 = Given(s, c.appl, x), NEW l2, l2 = Becoming(l, i, c)
    PROVE  /\ Turns(g, Lastly(t, r), s2, l2)
           /\ \A j \in CallIds : Turn(g, r, s2, l2, j) = 1 => Turn(g, t.ms, s, l, j) = 1
<1>1. Structured(g, t) /\ Mailed(g, t, s, l) /\ Turns(g, t, s, l) /\ t \in State /\ r \in Seq(Message)
  BY DEF Inv, Structured, Does, Taking
<1>2. Lastly(t, r).ms = r
  BY <1>1, LastlyIs
<1>3. \A j \in CallIds :
         /\ Turn(g, r, s2, l2, j) <= Turn(g, t.ms, s, l, j)
         /\ Unread(r, s2, l2, j) <= Unread(t.ms, s, l, j)
         /\ Turn(g, r, s2, l2, j) \in Nat /\ Turn(g, t.ms, s, l, j) \in Nat
         /\ Unread(r, s2, l2, j) \in Nat /\ Unread(t.ms, s, l, j) \in Nat
  BY <1>1, DoesCounts
<1>4. ASSUME NEW j \in CallIds
      PROVE  /\ Turn(g, r, s2, l2, j) <= 1
             /\ Turn(g, r, s2, l2, j) = 1 => Unread(r, s2, l2, j) = 0 /\ Turn(g, t.ms, s, l, j) = 1
  <2> DEFINE T1 == Turn(g, t.ms, s, l, j)  T2 == Turn(g, r, s2, l2, j)
             U1 == Unread(t.ms, s, l, j)  U2 == Unread(r, s2, l2, j)
  <2>1. T2 <= T1 /\ U2 <= U1 /\ T1 \in Nat /\ T2 \in Nat /\ U1 \in Nat /\ U2 \in Nat
    BY <1>3
  <2>2. T1 <= 1 /\ (T1 = 1 => U1 = 0)
    BY <1>1 DEF Turns
  <2> HIDE DEF T1, T2, U1, U2
  <2>3. T2 <= 1 /\ (T2 = 1 => U2 = 0 /\ T1 = 1)
    BY <2>1, <2>2
  <2> QED  BY <2>3 DEF T1, T2, U1, U2
<1> QED  BY <1>2, <1>4 DEF Turns

LEMMA DoesMailed ==
    ASSUME NEW g, NEW t, NEW s, NEW l, Structured(g, t), Mailed(g, t, s, l), NEW i, NEW c, NEW x, NEW h, NEW r,
           Does(g, t, l, i, c, x, h, r), NEW s2, s2 = Given(s, c.appl, x), NEW l2, l2 = Becoming(l, i, c)
    PROVE  Mailed(g, Lastly(t, r), s2, l2)
<1> DEFINE u == Lastly(t, r)  b == c.appl
<1>1. /\ Held(s, l) /\ Held(s2, l2) /\ l2[i] = c /\ (\A j \in CallIds : j # i => l2[j] = l[j])
      /\ x \in Seq(Message) /\ h \in Seq(Message) /\ r \in Seq(Message) /\ t.ms = h \o r
      /\ i \in CallIds /\ c.appl \in ApplIds
  BY DoesPost
<1>2. u.ms = r /\ u.made = t.made /\ u.dialled = t.dialled
  <2>1. t \in State
    BY DEF Structured
  <2> QED  BY <1>1, <2>1, LastlyIs
<1>3. /\ i \in 1 .. t.dialled /\ b \in 1 .. t.made /\ l[i].appl \in {0, b}
      /\ (c.st \in {"dialling", "active"} => ~g.recv) /\ Answering(g, i, c, x)
      /\ \A n \in DOMAIN r : ~(r[n].type = "CONNECT_REQ" /\ r[n].id = i)
  BY DEF Does, Taking
<1>4. /\ \A a \in ApplIds : a # 0
      /\ \A j \in CallIds : j # 0
      /\ \A j \in 1 .. t.dialled : j \in CallIds
      /\ t.made \in Nat /\ t.dialled \in Nat
  BY MailedIn, Constants
<1>5. l2[i].appl = b
  BY <1>1
<1> HIDE DEF u, b
<1>6. ASSUME NEW a \in ApplIds, NEW n \in DOMAIN s2[a]
      PROVE  Posted(g, s2[a][n], a, l2, t.dialled)
  <2>1. s \in [ApplIds -> Seq(Message)] /\ s[a] \in Seq(Message)
    BY <1>1 DEF Held
  <2>2. \/ n \in DOMAIN s[a] /\ s2[a][n] = s[a][n]
        \/ \E k \in DOMAIN x : s2[a][n] = x[k] /\ a = b
    <3>1. CASE a # b
      <4>1. s2[a] = s[a]
        BY <2>1, <3>1 DEF Given, b
      <4> QED  BY <1>6, <4>1
    <3>2. CASE a = b
      <4>1. s2[a] = s[a] \o x
        BY <2>1, <3>2 DEF Given, b
      <4> DEFINE y == s[a]
      <4>2. y \in Seq(Message) /\ s2[a] = y \o x
        BY <2>1, <4>1
      <4> HIDE DEF y
      <4>3. n \in DOMAIN y \/ n - Len(y) \in DOMAIN x
        BY <1>1, <1>6, <4>2
      <4>4. n \in DOMAIN y => s2[a][n] = y[n]
        BY <1>1, <4>2
      <4>5. n \notin DOMAIN y => s2[a][n] = x[n - Len(y)]
        BY <1>1, <1>6, <4>2
      <4> QED  BY <3>2, <4>3, <4>4, <4>5 DEF y
    <3> QED  BY <3>1, <3>2
  <2>3. CASE n \in DOMAIN s[a] /\ s2[a][n] = s[a][n]
    <3> DEFINE m == s[a][n]
    <3>1. Posted(g, m, a, l, t.dialled)
      BY <2>3 DEF Mailed
    <3>2. ASSUME m.id # 0  PROVE l2[m.id].appl = a
      <4>1. m.id \in CallIds /\ l[m.id].appl = a /\ a # 0
        <5>1. m.id \in 0 .. t.dialled
          BY <3>1 DEF Posted
        <5>2. m.id \in 1 .. t.dialled
          BY <1>4, <3>2, <5>1
        <5> QED  BY <1>4, <3>1, <3>2, <5>2 DEF Posted
      <4>2. CASE m.id = i
        BY <1>3, <1>5, <4>1, <4>2
      <4>3. CASE m.id # i
        BY <1>1, <4>1, <4>3
      <4> QED  BY <4>2, <4>3
    <3> HIDE DEF m
    <3>3. Posted(g, m, a, l2, t.dialled)
      BY <3>1, <3>2 DEF Posted
    <3> QED  BY <2>3, <3>3 DEF m
  <2>4. ASSUME NEW k \in DOMAIN x, s2[a][n] = x[k], a = b
        PROVE  Posted(g, s2[a][n], a, l2, t.dialled)
    <3> DEFINE m == x[k]
    <3>1. /\ m.id = i /\ m.appl = a /\ m.type \notin {"CONNECT_IND", "LISTEN_CONF"}
          /\ m.type \in {"CONNECTB3ACTIVE_IND", "DATAB3_CONF"} => m.b3
          /\ m.type = "CONNECTB3_IND" => g.recv
      BY <1>3, <2>4 DEF Answering, b
    <3>2. i \in 0 .. t.dialled /\ i # 0
      BY <1>1, <1>3, <1>4
    <3> HIDE DEF m
    <3>3. Posted(g, m, a, l2, t.dialled)
      BY <1>5, <2>4, <3>1, <3>2 DEF Posted
    <3> QED  BY <2>4, <3>3 DEF m
  <2> QED  BY <2>2, <2>3, <2>4
<1>7. ASSUME NEW n \in DOMAIN r
      PROVE  Asked(g, r[n], l2, t.made, t.dialled)
  <2> DEFINE m == r[n]
  <2>1. Asked(g, m, l, t.made, t.dialled)
    <3> DEFINE k == Len(h) + n
    <3>1. k \in DOMAIN t.ms /\ t.ms[k] = r[n]
      BY <1>1, <1>7
    <3> QED  BY <3>1 DEF Mailed
  <2>2. ~(m.type = "CONNECT_REQ" /\ m.id = i)
    BY <1>3, <1>7
  <2> HIDE DEF m
  <2>3. ASSUME m.id # 0
        PROVE  IF m.type = "CONNECT_REQ" THEN l2[m.id] = Idle ELSE l2[m.id].appl = m.appl
    <3>1. m.id \in CallIds /\ m.appl # 0
      <4>1. m.id \in 0 .. t.dialled /\ m.appl \in 1 .. t.made
        BY <2>1 DEF Asked
      <4>2. m.id \in 1 .. t.dialled
        BY <1>4, <2>3, <4>1
      <4> QED  BY <1>4, <4>1, <4>2
    <3>2. IF m.type = "CONNECT_REQ" THEN l[m.id] = Idle ELSE l[m.id].appl = m.appl
      BY <2>1, <2>3 DEF Asked
    <3>3. CASE m.id = i
      BY <1>3, <1>5, <2>2, <3>1, <3>2, <3>3
    <3>4. CASE m.id # i
      BY <1>1, <3>1, <3>2, <3>4
    <3> QED  BY <3>3, <3>4
  <2>4. Asked(g, m, l2, t.made, t.dialled)
    BY <2>1, <2>3 DEF Asked
  <2> QED  BY <2>4 DEF m
<1>8. ASSUME NEW j \in CallIds
      PROVE  Known(g, l2, j, t.made, t.dialled)
  <2>1. CASE j = i
    <3>1. b \in 0 .. t.made /\ b # 0 /\ ~(i > t.dialled)
      BY <1>1, <1>3, <1>4
    <3> QED  BY <1>1, <1>3, <1>5, <2>1, <3>1 DEF Known
  <2>2. CASE j # i
    <3>1. Known(g, l, j, t.made, t.dialled) /\ l2[j] = l[j]
      BY <1>1, <1>8, <2>2 DEF Mailed
    <3> QED  BY <3>1 DEF Known
  <2> QED  BY <2>1, <2>2
<1>9. s2 \in [ApplIds -> Seq(Message)] /\ l2 \in [CallIds -> Lines]
  BY <1>1 DEF Held
<1> QED  BY <1>2, <1>6, <1>7, <1>8, <1>9 DEF Mailed, u

LEMMA DoesFits ==
    ASSUME NEW g, NEW t, NEW s, NEW l, Inv(g, t, s, l), NEW i, NEW c, NEW x, NEW h, NEW r,
           Does(g, t, l, i, c, x, h, r), NEW s2, s2 = Given(s, c.appl, x), NEW l2, l2 = Becoming(l, i, c)
    PROVE  Fits(g, Lastly(t, r), s2, l2)
<1>1. Structured(g, t) /\ Mailed(g, t, s, l) /\ Turns(g, t, s, l) /\ Fits(g, t, s, l) /\ t \in State
  BY DEF Inv, Structured
<1>2. /\ Held(s, l) /\ Held(s2, l2) /\ l2[i] = c /\ (\A j \in CallIds : j # i => l2[j] = l[j])
      /\ x \in Seq(Message) /\ h \in Seq(Message) /\ r \in Seq(Message) /\ t.ms = h \o r
      /\ i \in CallIds /\ c.appl \in ApplIds
  BY <1>1, DoesPost
<1>3. Lastly(t, r).ms = r /\ Lastly(t, r).appls = t.appls
  BY <1>1, <1>2, LastlyIs
<1>4. /\ l[i].appl \in {0, c.appl}
      /\ \A n \in DOMAIN h : h[n].id = i /\ h[n].appl = c.appl
  BY DEF Does, Taking
<1>5. ASSUME NEW k \in DOMAIN t.appls, NEW j \in DOMAIN t.appls[k].calls
      PROVE  Fit(g, r, s2, l2, t.appls[k].id, t.appls[k].calls[j])
  <2> DEFINE d == t.appls[k].calls[j]  a == t.appls[k].id  e == d.id
  <2>1. /\ e \in CallIds /\ d.NotAcknowledged \in Nat /\ a # 0
        /\ Fit(g, t.ms, s, l, a, d)
    <3>1. e \in 1 .. t.dialled /\ a \in 1 .. t.made
      BY <1>1 DEF Structured, ApplRight, CallRight
    <3> QED  BY <1>1, <3>1, MailedIn, StateIn, Constants DEF Fits
  <2>2. /\ Turn(g, r, s2, l2, e) <= Turn(g, t.ms, s, l, e)
        /\ Unread(r, s2, l2, e) <= Unread(t.ms, s, l, e)
        /\ Turn(g, r, s2, l2, e) \in Nat /\ Turn(g, t.ms, s, l, e) \in Nat
        /\ Unread(r, s2, l2, e) \in Nat /\ Unread(t.ms, s, l, e) \in Nat
        /\ l2[e].st = "b3up" =>
              \/ Turn(g, t.ms, s, l, e) > 0
              \/ l[e].st = "b3up" /\ Unread(r, s2, l2, e) = Unread(t.ms, s, l, e)
        /\ Number(In(s2, l2, e), Typed(e, "CONNECT_IND")) = Number(In(s, l, e), Typed(e, "CONNECT_IND"))
    BY <1>1, <2>1, DoesCounts
  <2>3. Turn(g, t.ms, s, l, e) <= 1
    BY <1>1, <2>1 DEF Turns
  <2> HIDE DEF d, a, e
  <2>e. e = d.id
    BY DEF e
  <2>4. l2[e].appl = a \/ \E n \in DOMAIN r : r[n].type = "CONNECT_REQ" /\ r[n].id = e /\ r[n].appl = a
    <3>1. CASE l[e].appl = a
      <4>1. CASE e = i
        BY <1>2, <1>4, <2>1, <3>1, <4>1
      <4>2. CASE e # i
        BY <1>2, <2>1, <3>1, <4>2
      <4> QED  BY <4>1, <4>2
    <3>2. ASSUME NEW n \in DOMAIN t.ms, t.ms[n].type = "CONNECT_REQ", t.ms[n].id = e, t.ms[n].appl = a
          PROVE  l2[e].appl = a \/ \E y \in DOMAIN r : r[y].type = "CONNECT_REQ" /\ r[y].id = e /\ r[y].appl = a
      <4>1. CASE n \in DOMAIN h
        <5>1. h[n] = t.ms[n]
          BY <1>2, <4>1
        <5>2. e = i /\ c.appl = a
          BY <1>4, <3>2, <4>1, <5>1
        <5> QED  BY <1>2, <5>2
      <4>2. CASE n \notin DOMAIN h
        <5>1. n - Len(h) \in DOMAIN r /\ r[n - Len(h)] = t.ms[n]
          BY <1>2, <3>2, <4>2
        <5> QED  BY <3>2, <5>1
      <4> QED  BY <4>1, <4>2
    <3>3. l[e].appl = a \/ \E n \in DOMAIN t.ms : t.ms[n].type = "CONNECT_REQ" /\ t.ms[n].id = e /\ t.ms[n].appl = a
      BY <2>1, <2>e DEF Fit
    <3> QED  BY <3>1, <3>2, <3>3
  <2>5. /\ Turn(g, t.ms, s, l, e) = 1 => ~d.doSend /\ d.NotAcknowledged = 0
        /\ Unread(t.ms, s, l, e) <= d.NotAcknowledged
        /\ l[e].st = "b3up" => Unread(t.ms, s, l, e) = d.NotAcknowledged
        /\ Number(In(s, l, e), Typed(e, "CONNECT_IND")) = 0
    BY <2>1, <2>e DEF Fit
  <2> DEFINE T1 == Turn(g, t.ms, s, l, e)  T2 == Turn(g, r, s2, l2, e)
             U1 == Unread(t.ms, s, l, e)  U2 == Unread(r, s2, l2, e)  na == d.NotAcknowledged
  <2>6. /\ T2 <= T1 /\ U2 <= U1 /\ T1 \in Nat /\ T2 \in Nat /\ U1 \in Nat /\ U2 \in Nat /\ na \in Nat
        /\ T1 <= 1 /\ (T1 = 1 => ~d.doSend /\ na = 0) /\ U1 <= na
        /\ l2[e].st = "b3up" => T1 > 0 \/ U2 = na
    BY <2>1, <2>2, <2>3, <2>5
  <2> HIDE DEF T1, T2, U1, U2, na
  <2>7. (T2 = 1 => ~d.doSend /\ na = 0) /\ U2 <= na
    BY ONLY <2>6
  <2>8. l2[e].st = "b3up" => U2 = na
    <3>1. T1 > 0 => U2 = na
      BY ONLY <2>6
    <3> QED  BY <2>6, <3>1
  <2>9. Fit(g, r, s2, l2, a, d)
    BY <2>2, <2>4, <2>5, <2>7, <2>8, <2>e DEF Fit, T2, U2, na
  <2> QED  BY <2>9 DEF a, d
<1> QED  BY <1>3, <1>5 DEF Fits

LEMMA LastlyStructured ==
    ASSUME NEW g, NEW t, Structured(g, t), NEW r \in Seq(Message)
    PROVE  Structured(g, Lastly(t, r))
<1>1. t \in State
  BY DEF Structured
<1>2. /\ Lastly(t, r) \in State /\ Lastly(t, r).appls = t.appls
      /\ Lastly(t, r).pollfds = t.pollfds /\ Lastly(t, r).made = t.made
      /\ Lastly(t, r).dialled = t.dialled
  BY <1>1, LastlyIs
<1> DEFINE u == Lastly(t, r)
<1>3. /\ u \in State /\ u.appls = t.appls /\ u.pollfds = t.pollfds /\ u.made = t.made
      /\ u.dialled = t.dialled
  BY <1>2
<1> HIDE DEF u
<1>4. Structured(g, u)
  BY <1>3 DEF Structured
<1> QED  BY <1>4 DEF u

LEMMA DoesInv ==
    ASSUME NEW g, NEW t, NEW s, NEW l, Inv(g, t, s, l), NEW i, NEW c, NEW x, NEW h, NEW r,
           Does(g, t, l, i, c, x, h, r), NEW s2, s2 = Given(s, c.appl, x), NEW l2, l2 = Becoming(l, i, c)
    PROVE  Inv(g, Lastly(t, r), s2, l2)
<1>1. Structured(g, t) /\ Mailed(g, t, s, l) /\ Released(t) /\ t \in State
  BY DEF Inv, Structured
<1>2. h \in Seq(Message) /\ r \in Seq(Message) /\ t.ms = h \o r
  BY DEF Does, Taking
<1>3. Lastly(t, r).ms = r /\ Lastly(t, r).appls = t.appls
  BY <1>1, <1>2, LastlyIs
<1>4. Structured(g, Lastly(t, r))
  BY <1>1, <1>2, LastlyStructured
<1>5. Mailed(g, Lastly(t, r), s2, l2)
  BY <1>1, DoesMailed
<1>6. Turns(g, Lastly(t, r), s2, l2)
  BY DoesTurns
<1>7. Fits(g, Lastly(t, r), s2, l2)
  BY DoesFits
<1>8. Released(Lastly(t, r))
  <2>1. ASSUME NEW n \in DOMAIN r, r[n].type = "RELEASE"
        PROVE  n = Len(r) /\ \A k \in DOMAIN t.appls : t.appls[k].id # r[n].appl
    <3> DEFINE k == Len(h) + n
    <3>1. k \in DOMAIN t.ms /\ t.ms[k] = r[n] /\ Len(t.ms) = Len(h) + Len(r) /\ Len(h) \in Nat /\ Len(r) \in Nat
          /\ n \in Nat
      BY <1>2, <2>1
    <3>2. k = Len(t.ms) /\ \A y \in DOMAIN t.appls : t.appls[y].id # r[n].appl
      BY <1>1, <2>1, <3>1 DEF Released
    <3> QED  BY SMTT(40), SMTT(41), ZenonT(30), <3>1, <3>2
  <2> QED  BY <1>3, <2>1 DEF Released
<1> QED  BY <1>4, <1>5, <1>6, <1>7, <1>8 DEF Inv

LEMMA DoesHeard ==
    ASSUME NEW g, NEW t, NEW l, t \in State, NEW i, NEW c, NEW x, NEW h, NEW r,
           Does(g, t, l, i, c, x, h, r), NEW ls, Heard(g, t, ls)
    PROVE  Heard(g, Lastly(t, r), ls)
<1>1. h \in Seq(Message) /\ r \in Seq(Message) /\ t.ms = h \o r /\ \A n \in DOMAIN h : h[n].type # "LISTEN_REQ"
  BY DEF Does, Taking
<1>2. Lastly(t, r).ms = r /\ Lastly(t, r).appls = t.appls
  BY <1>1, LastlyIs
<1>3. ASSUME NEW k \in DOMAIN t.appls, t.appls[k].listen
      PROVE  /\ g.recv /\ t.appls[k].active_calls < g.callperappl
             /\ \A n \in DOMAIN r : ~Asks(r[n], t.appls[k].id, 0)
             /\ t.appls[k].id \in ls \/ \E n \in DOMAIN r : Asks(r[n], t.appls[k].id, 1)
  <2>1. /\ g.recv /\ t.appls[k].active_calls < g.callperappl
        /\ \A n \in DOMAIN t.ms : ~Asks(t.ms[n], t.appls[k].id, 0)
        /\ t.appls[k].id \in ls \/ \E n \in DOMAIN t.ms : Asks(t.ms[n], t.appls[k].id, 1)
    BY <1>3 DEF Heard
  <2>2. ASSUME NEW n \in DOMAIN r  PROVE ~Asks(r[n], t.appls[k].id, 0)
    <3>1. Len(h) + n \in DOMAIN t.ms /\ t.ms[Len(h) + n] = r[n]
      BY <1>1, <2>2
    <3> QED  BY <2>1, <3>1
  <2>3. ASSUME NEW n \in DOMAIN t.ms, Asks(t.ms[n], t.appls[k].id, 1)
        PROVE  \E y \in DOMAIN r : Asks(r[y], t.appls[k].id, 1)
    <3>1. n \notin DOMAIN h
      <4>1. SUFFICES ASSUME n \in DOMAIN h PROVE FALSE
        OBVIOUS
      <4>2. t.ms[n] = h[n]
        BY <1>1, <4>1
      <4> QED  BY <1>1, <2>3, <4>1, <4>2 DEF Asks
    <3>2. n - Len(h) \in DOMAIN r /\ r[n - Len(h)] = t.ms[n]
      BY <1>1, <2>3, <3>1
    <3> QED  BY <2>3, <3>2
  <2> QED  BY <2>1, <2>2, <2>3
<1> QED  BY <1>2, <1>3 DEF Heard

LEMMA DoesDue ==
    ASSUME NEW g, NEW t, NEW s, NEW l, Structured(g, t), Mailed(g, t, s, l), NEW i, NEW c, NEW x, NEW h, NEW r,
           Does(g, t, l, i, c, x, h, r), NEW s2, s2 = Given(s, c.appl, x), NEW l2, l2 = Becoming(l, i, c)
    PROVE  /\ Due(g, r, s2, l2) \subseteq Due(g, t.ms, s, l) \cup {i}
           /\ Number(x, Dues(g, i)) <= Number(h, Dues(g, i)) =>
                 Due(g, r, s2, l2) \in SUBSET Due(g, t.ms, s, l)
<1>1. /\ Held(s, l) /\ Held(s2, l2)
      /\ \A j \in CallIds : \A T : AboutCall(T, j) =>
            /\ Number(In(s2, l2, j), T) = Number(In(s, l, j), T) + Number(x, T)
            /\ j # i => Number(x, T) = 0 /\ Number(h, T) = 0
      /\ x \in Seq(Message) /\ h \in Seq(Message) /\ r \in Seq(Message) /\ t.ms = h \o r
  BY DoesPost
<1>2. ASSUME NEW j \in CallIds, Number(r, Dues(g, j)) + Number(In(s2, l2, j), Dues(g, j)) > 0,
             Number(x, Dues(g, j)) <= Number(h, Dues(g, j))
      PROVE  Number(t.ms, Dues(g, j)) + Number(In(s, l, j), Dues(g, j)) > 0
  <2> DEFINE D == Dues(g, j)  q == t.ms
  <2>1. AboutCall(D, j)
    BY AboutCalls
  <2>2. Number(In(s2, l2, j), D) = Number(In(s, l, j), D) + Number(x, D)
    BY <1>1, <2>1
  <2>3. Number(q, D) = Number(h, D) + Number(r, D)
    BY <1>1, NumberConcat
  <2> DEFINE a1 == Number(h, D)  a2 == Number(r, D)  a3 == Number(In(s, l, j), D)  a4 == Number(x, D)
  <2>4. a1 \in Nat /\ a2 \in Nat /\ a3 \in Nat /\ a4 \in Nat
    <3>1. In(s, l, j) \in Seq(Message)
      BY <1>1, InType
    <3> QED  BY <1>1, <3>1, NumberType
  <2>5. a2 + (a3 + a4) > 0 /\ a4 <= a1
    BY <1>2, <2>2
  <2>6. Number(q, D) + Number(In(s, l, j), D) = (a1 + a2) + a3
    BY <2>3
  <2> HIDE DEF a1, a2, a3, a4
  <2>7. (a1 + a2) + a3 > 0
    BY ONLY <2>4, <2>5
  <2> QED  BY <2>6, <2>7
<1>3. ASSUME NEW j \in CallIds, j # i
      PROVE  Number(x, Dues(g, j)) <= Number(h, Dues(g, j))
  <2>1. AboutCall(Dues(g, j), j)
    BY AboutCalls
  <2>2. Number(x, Dues(g, j)) = 0 /\ Number(h, Dues(g, j)) = 0
    BY <1>1, <1>3, <2>1
  <2> QED  BY <2>2
<1> QED  BY <1>2, <1>3 DEF Due

\* All of it, where no call gets due, and where the called side answers.
LEMMA DoesMost ==
    ASSUME NEW g, NEW t, NEW s, NEW l, NEW ls, NEW an, NEW sg, Whole(g, t, s, l, ls, an, sg),
           NEW i, NEW c, NEW x, NEW h, NEW r,
           Does(g, t, l, i, c, x, h, r), NEW s2, s2 = Given(s, c.appl, x), NEW l2, l2 = Becoming(l, i, c),
           NEW u, u = Lastly(t, r)
    PROVE  /\ Inv(g, u, s2, l2) /\ ls \subseteq 1 .. u.made /\ Heard(g, u, ls)
           /\ u.appls # <<>> => Listened(g, u)
           /\ ~g.recv /\ sg = 0 => Chain(g, u, s2, l2)
           /\ u.made = t.made /\ u.dialled = t.dialled /\ u.ms = r /\ t.made \in Nat /\ t.dialled \in Nat
           /\ Structured(g, t) /\ Mailed(g, t, s, l)
<1>1. /\ Inv(g, t, s, l) /\ ls \subseteq 1 .. t.made /\ Heard(g, t, ls) /\ (t.appls # <<>> => Listened(g, t))
      /\ ~g.recv /\ sg = 0 => Chain(g, t, s, l)
  BY DEF Whole
<1>2. Structured(g, t) /\ Mailed(g, t, s, l) /\ t \in State /\ r \in Seq(Message)
  BY <1>1 DEF Inv, Structured, Does, Taking
<1>3. /\ u \in State /\ u.ms = r /\ u.appls = t.appls /\ u.pollfds = t.pollfds
      /\ u.made = t.made /\ u.dialled = t.dialled /\ t.made \in Nat /\ t.dialled \in Nat
  BY <1>2, LastlyIs, StateIn
<1>4. Inv(g, u, s2, l2)
  BY <1>1, DoesInv
<1>5. Heard(g, u, ls)
  BY <1>1, <1>2, DoesHeard
<1>6. Listened(g, t) => Listened(g, u)
  BY <1>3 DEF Listened
<1>7. ASSUME Chain(g, t, s, l)  PROVE Chain(g, u, s2, l2)
  <2>1. SameFrame(t, u)
    BY <1>3 DEF SameFrame
  <2>2. \A k \in DOMAIN t.appls : \A j \in DOMAIN t.appls[k].calls : t.appls[k].calls[j].id \in CallIds
    <3>1. ASSUME NEW k \in DOMAIN t.appls, NEW j \in DOMAIN t.appls[k].calls
          PROVE  t.appls[k].calls[j].id \in 1 .. t.dialled
      BY <1>2, <3>1 DEF Structured, ApplRight, CallRight
    <3> QED  BY <1>2, <3>1, MailedIn
  <2>3. \A j \in CallIds : Turn(g, u.ms, s2, l2, j) = 1 => Turn(g, t.ms, s, l, j) = 1
    <3>1. \A j \in CallIds : Turn(g, r, s2, l2, j) = 1 => Turn(g, t.ms, s, l, j) = 1
      BY <1>1, DoesTurns
    <3> QED  BY <1>3, <3>1
  <2> QED  BY <1>7, <2>1, <2>2, <2>3, ChainKept
<1> QED  BY <1>1, <1>2, <1>3, <1>4, <1>5, <1>6, <1>7

LEMMA DoesWhole ==
    ASSUME NEW g, NEW t, NEW s, NEW l, NEW ls, NEW an \in Nat, NEW sg \in Nat, Whole(g, t, s, l, ls, an, sg),
           NEW i, NEW c, NEW x, NEW h, NEW r,
           Does(g, t, l, i, c, x, h, r), NEW s2, s2 = Given(s, c.appl, x), NEW l2, l2 = Becoming(l, i, c),
           NEW u, u = Lastly(t, r), Number(x, Dues(g, i)) <= Number(h, Dues(g, i))
    PROVE  Whole(g, u, s2, l2, ls, an, sg)
<1>1. /\ Inv(g, u, s2, l2) /\ ls \subseteq 1 .. u.made /\ Heard(g, u, ls)
      /\ u.appls # <<>> => Listened(g, u)
      /\ ~g.recv /\ sg = 0 => Chain(g, u, s2, l2)
      /\ u.made = t.made /\ u.dialled = t.dialled /\ u.ms = r /\ t.made \in Nat /\ t.dialled \in Nat
      /\ Structured(g, t) /\ Mailed(g, t, s, l)
  BY DoesMost
<1>2. Bounded(g, t, s, l, an, sg)
  BY DEF Whole
<1>3. Due(g, u.ms, s2, l2) \in SUBSET Due(g, t.ms, s, l)
  <2>1. Due(g, r, s2, l2) \in SUBSET Due(g, t.ms, s, l)
    BY <1>1, DoesDue
  <2> QED  BY <1>1, <2>1
<1>4. Bounded(g, u, s2, l2, an, sg)
  BY <1>1, <1>2, <1>3, BoundedKept
<1> QED  BY <1>1, <1>4 DEF Whole

LEMMA DoesAnswer ==
    ASSUME NEW g \in Configs, ~g.recv, NEW t, NEW s, NEW l, NEW ls, NEW an \in Nat, NEW sg \in Nat,
           Whole(g, t, s, l, ls, an, sg), an < g.answers,
           NEW i, NEW c, NEW x, NEW h, NEW r,
           Does(g, t, l, i, c, x, h, r), NEW s2, s2 = Given(s, c.appl, x), NEW l2, l2 = Becoming(l, i, c),
           NEW u, u = Lastly(t, r)
    PROVE  Whole(g, u, s2, l2, ls, an + 1, sg)
<1>1. /\ Inv(g, u, s2, l2) /\ ls \subseteq 1 .. u.made /\ Heard(g, u, ls)
      /\ u.appls # <<>> => Listened(g, u)
      /\ ~g.recv /\ sg = 0 => Chain(g, u, s2, l2)
      /\ u.made = t.made /\ u.dialled = t.dialled /\ u.ms = r /\ t.made \in Nat /\ t.dialled \in Nat
      /\ Structured(g, t) /\ Mailed(g, t, s, l)
  BY DoesMost
<1>2. Bounded(g, t, s, l, an, sg)
  BY DEF Whole
<1> DEFINE D == Due(g, t.ms, s, l)  E == Due(g, u.ms, s2, l2)  y == Cardinality(D)  z == Cardinality(E)
<1>3. z <= y + 1 /\ y \in Nat /\ z \in Nat
  <2>1. Due(g, r, s2, l2) \subseteq D \cup {i}
    BY <1>1, DoesDue
  <2>2. E \subseteq D \cup {i} /\ IsFiniteSet(D) /\ y \in Nat /\ IsFiniteSet(E) /\ z \in Nat
    BY <1>1, <2>1, DueType
  <2> HIDE DEF D, E
  <2>3. IsFiniteSet(D \cup {i}) /\ Cardinality(D \cup {i}) <= y + 1
    BY <2>2, FS_AddElement
  <2>4. z <= Cardinality(D \cup {i})
    BY <2>2, <2>3, FS_Subset
  <2>5. Cardinality(D \cup {i}) \in Nat
    BY <2>3, FS_CardinalityType
  <2> QED  BY <2>2, <2>3, <2>4, <2>5
<1>4. /\ t.dialled + y <= 1 + sg + an /\ t.made <= 1 + t.dialled /\ sg <= g.signals
      /\ g.MaxActivCalls = 0 => t.dialled = 0
  BY <1>2 DEF Bounded
<1>5. t.dialled + z <= 1 + sg + (an + 1) /\ an + 1 <= g.answers
  <2> DEFINE d == t.dialled  ga == g.answers
  <2>1. d \in Nat /\ d + y <= 1 + sg + an /\ z <= y + 1 /\ y \in Nat /\ z \in Nat /\ an < ga /\ ga \in Nat
    BY <1>1, <1>3, <1>4, Options
  <2> HIDE DEF d, y, z, ga
  <2>2. d + z <= 1 + sg + (an + 1) /\ an + 1 <= ga
    BY ONLY <2>1, an \in Nat, sg \in Nat
  <2> QED  BY <2>2 DEF d, ga
<1> HIDE DEF z
<1>6. Bounded(g, u, s2, l2, an + 1, sg)
  BY <1>1, <1>4, <1>5 DEF Bounded, z
<1> QED  BY <1>1, <1>6 DEF Whole

\* The step of the brick as a whole.
LEMMA BrickGoes ==
    ASSUME IInv, NEW i, NEW c, NEW x, NEW h, NEW r, Does(cfg, Program, line, i, c, x, h, r),
           line' = Becoming(line, i, c), toProg' = Given(toProg, c.appl, x), toBrick' = r,
           UNCHANGED <<pc, cfg, prog, at, signals>>, listens' = listens,
           \/ answered' = answered /\ Number(x, Dues(cfg, i)) <= Number(h, Dues(cfg, i))
           \/ answered' = answered + 1 /\ ~cfg.recv /\ answered < cfg.answers
    PROVE  IInv'
<1> DEFINE t == Program  u == Lastly(Program, r)
<1>1. /\ Whole(cfg, t, toProg, line, listens, answered, signals)
      /\ cfg \in Configs /\ answered \in Nat /\ signals \in Nat
  BY DEF IInv, Control
<1>2. /\ pc' = pc /\ cfg' = cfg /\ appls' = appls /\ pollfds' = pollfds /\ made' = made /\ dialled' = dialled
      /\ at' = at /\ signals' = signals
  BY DEF prog
<1>3. Program' = u
  <2>1. Program' = [appls |-> appls, pollfds |-> pollfds, made |-> made, dialled |-> dialled, ms |-> r]
    BY <1>2 DEF Program
  <2>2. u = [appls |-> appls, pollfds |-> pollfds, made |-> made, dialled |-> dialled, ms |-> r]
    BY DEF Lastly, Program
  <2> QED  BY <2>1, <2>2
<1>4. pc # "init" /\ answered' \in Nat
  <2>1. i \in 1 .. dialled
    BY DEF Does, Program
  <2>2. pc = "init" => dialled = 0
    BY DEF IInv, Control
  <2>3. 1 .. 0 = {}
    OBVIOUS
  <2> QED  BY <1>1, <2>1, <2>2, <2>3
<1>5. Control'
  BY <1>2, <1>4 DEF IInv, Control
<1> HIDE DEF t, u
<1>6. Whole(cfg, u, toProg', line', listens, answered', signals)
  <2>1. CASE answered' = answered /\ Number(x, Dues(cfg, i)) <= Number(h, Dues(cfg, i))
    <3> DEFINE s == toProg  l == line  s2 == toProg'  l2 == line'  g == cfg
    <3>1. /\ answered \in Nat /\ signals \in Nat /\ Whole(g, t, s, l, listens, answered, signals)
          /\ Does(g, t, l, i, c, x, h, r) /\ s2 = Given(s, c.appl, x) /\ l2 = Becoming(l, i, c)
          /\ u = Lastly(t, r) /\ Number(x, Dues(g, i)) <= Number(h, Dues(g, i))
      BY <1>1, <2>1 DEF t, u
    <3> HIDE DEF s, l, s2, l2, g
    <3>2. Whole(g, u, s2, l2, listens, answered, signals)
      BY ONLY <3>1, DoesWhole
    <3> QED  BY <2>1, <3>2 DEF s2, l2, g
  <2>2. CASE answered' = answered + 1 /\ ~cfg.recv /\ answered < cfg.answers
    <3> DEFINE s == toProg  l == line  s2 == toProg'  l2 == line'  g == cfg
    <3>1. /\ g \in Configs /\ ~g.recv /\ answered \in Nat /\ signals \in Nat
          /\ Whole(g, t, s, l, listens, answered, signals) /\ answered < g.answers
          /\ Does(g, t, l, i, c, x, h, r) /\ s2 = Given(s, c.appl, x) /\ l2 = Becoming(l, i, c)
          /\ u = Lastly(t, r)
      BY <1>1, <2>2 DEF t, u
    <3> HIDE DEF s, l, s2, l2, g
    <3>2. Whole(g, u, s2, l2, listens, answered + 1, signals)
      BY ONLY <3>1, DoesAnswer
    <3> QED  BY <2>2, <3>2 DEF s2, l2, g
  <2> QED  BY <2>1, <2>2
<1>7. Whole(cfg, Program, toProg, line, listens, answered, signals)'
  BY <1>2, <1>3, <1>6
<1> QED  BY <1>5, <1>7 DEF IInv

\* What the brick says about its call.
Saying(i, call, ms) == [n \in DOMAIN ms |-> Msg(ms[n][1], call.appl, i, ms[n][2], ms[n][3])]

LEMMA BecomesIs ==
    ASSUME NEW i, NEW c, NEW ms, Becomes(i, c, ms)
    PROVE  /\ line' = Becoming(line, i, c) /\ toProg' = Given(toProg, c.appl, Saying(i, c, ms))
           /\ UNCHANGED <<pc, cfg, prog, at, signals>>
  BY DEF Becomes, Becoming, Given, Saying

LEMMA SayNone ==
    ASSUME NEW i, NEW c, NEW none, none = <<>>
    PROVE  Saying(i, c, none) = <<>>
  BY DEF Saying

LEMMA SayOne ==
    ASSUME NEW i, NEW c, NEW y, NEW ms, ms = <<y>>
    PROVE  Saying(i, c, ms) = <<Msg(y[1], c.appl, i, y[2], y[3])>>
  BY DEF Saying

LEMMA SayTwo ==
    ASSUME NEW i, NEW c, NEW y, NEW z, NEW ms, ms = <<y, z>>
    PROVE  Saying(i, c, ms) = <<Msg(y[1], c.appl, i, y[2], y[3]), Msg(z[1], c.appl, i, z[2], z[3])>>
  BY DEF Saying

\* Counts of a single message, and of two.
LEMMA CountOne ==
    ASSUME NEW g, NEW m \in Message, NEW x, x = <<m>>
    PROVE  /\ x \in Seq(Message) /\ DOMAIN x = {1} /\ x[1] = m
           /\ Number(x, Toks(g, m.id)) = One(m.type \in TokTypes(g))
           /\ Number(x, Dues(g, m.id)) = One(m.type \in DueTypes(g))
           /\ \A type : Number(x, Typed(m.id, type)) = One(m.type = type)
<1>1. x \in Seq(Message) /\ DOMAIN x = {1} /\ x[1] = m
  OBVIOUS
<1>2. \A T : Number(x, T) = One(m \in T)
  BY NumberOne
<1>3. /\ m \in Toks(g, m.id) <=> m.type \in TokTypes(g)
      /\ m \in Dues(g, m.id) <=> m.type \in DueTypes(g)
      /\ \A type : m \in Typed(m.id, type) <=> m.type = type
  BY MessageIn
<1>4. One(m \in Toks(g, m.id)) = One(m.type \in TokTypes(g)) /\ One(m \in Dues(g, m.id)) = One(m.type \in DueTypes(g))
  BY <1>3 DEF One
<1>5. \A type : One(m \in Typed(m.id, type)) = One(m.type = type)
  BY <1>3 DEF One
<1> QED  BY <1>1, <1>2, <1>4, <1>5

IsPair(x, m, n) == x = <<m, n>>

LEMMA PairIs ==
    ASSUME NEW m \in Message, NEW n \in Message, NEW x, IsPair(x, m, n)
    PROVE  /\ x \in Seq(Message) /\ DOMAIN x = {1, 2} /\ x[1] = m /\ x[2] = n
           /\ x = <<m>> \o <<n>>
<1> DEFINE y == <<m>>  z == <<n>>
<1>1. x \in Seq(Message) /\ Len(x) = 2 /\ x[1] = m /\ x[2] = n
  BY DEF IsPair
<1>2. DOMAIN x = {1, 2}
  BY <1>1
<1>3. x = y \o z
  <2>1. y \in Seq(Message) /\ Len(y) = 1 /\ y[1] = m /\ z \in Seq(Message) /\ Len(z) = 1 /\ z[1] = n
    OBVIOUS
  <2> HIDE DEF y, z
  <2>2. /\ y \o z \in Seq(Message) /\ Len(y \o z) = 2 /\ (y \o z)[1] = m /\ (y \o z)[2] = n
    <3>1. /\ y \o z \in Seq(Message) /\ Len(y \o z) = Len(y) + Len(z)
          /\ \A k \in 1 .. Len(y) + Len(z) :
                (y \o z)[k] = IF k <= Len(y) THEN y[k] ELSE z[k - Len(y)]
      BY ONLY <2>1, ConcatProperties
    <3> QED  BY ONLY <2>1, <3>1
  <2> DEFINE w == y \o z
  <2>3. w \in Seq(Message) /\ Len(w) = 2 /\ w[1] = m /\ w[2] = n
    BY <2>2
  <2> HIDE DEF w
  <2>4. x = w
    <3>1. DOMAIN w = {1, 2} /\ w = [k \in DOMAIN w |-> w[k]] /\ x = [k \in DOMAIN x |-> x[k]]
      BY <1>1, <2>3
    <3> QED  BY <1>1, <1>2, <2>3, <3>1
  <2> QED  BY <2>4 DEF w
<1> QED  BY <1>1, <1>2, <1>3

LEMMA PairCount ==
    ASSUME NEW m \in Message, NEW n \in Message, NEW x, IsPair(x, m, n), NEW T
    PROVE  Number(x, T) = One(m \in T) + One(n \in T)
<1> DEFINE y == <<m>>  z == <<n>>
<1>1. x = y \o z
  BY PairIs
<1>2. y \in Seq(Message) /\ z \in Seq(Message)
  OBVIOUS
<1>3. Number(y, T) = One(m \in T) /\ Number(z, T) = One(n \in T)
  BY NumberOne
<1> HIDE DEF y, z
<1>4. Number(y \o z, T) = Number(y, T) + Number(z, T)
  BY <1>2, NumberConcat
<1> QED  BY <1>1, <1>3, <1>4

LEMMA CountTwo ==
    ASSUME NEW g, NEW m \in Message, NEW n \in Message, NEW i, m.id = i, n.id = i, NEW x, IsPair(x, m, n)
    PROVE  /\ Number(x, Toks(g, i)) = One(m.type \in TokTypes(g)) + One(n.type \in TokTypes(g))
           /\ Number(x, Dues(g, i)) = One(m.type \in DueTypes(g)) + One(n.type \in DueTypes(g))
           /\ \A type : Number(x, Typed(i, type)) = One(m.type = type) + One(n.type = type)
<1>1. /\ m \in Toks(g, i) <=> m.type \in TokTypes(g)
      /\ m \in Dues(g, i) <=> m.type \in DueTypes(g)
      /\ \A type : m \in Typed(i, type) <=> m.type = type
  BY MessageIn
<1>2. /\ n \in Toks(g, i) <=> n.type \in TokTypes(g)
      /\ n \in Dues(g, i) <=> n.type \in DueTypes(g)
      /\ \A type : n \in Typed(i, type) <=> n.type = type
  BY MessageIn
<1>3. /\ Number(x, Toks(g, i)) = One(m \in Toks(g, i)) + One(n \in Toks(g, i))
      /\ Number(x, Dues(g, i)) = One(m \in Dues(g, i)) + One(n \in Dues(g, i))
  BY PairCount
<1>4. \A type : Number(x, Typed(i, type)) = One(m \in Typed(i, type)) + One(n \in Typed(i, type))
  BY PairCount
<1> QED  BY <1>1, <1>2, <1>3, <1>4 DEF One

\* The brick may take h, and goes on with call c.
Able(i, c, h, r) ==
    /\ i \in CallIds /\ i \in 1 .. dialled /\ c \in Lines /\ c.appl \in 1 .. made
    /\ line[i].appl \in {0, c.appl} /\ (c.st \in {"dialling", "active"} => ~cfg.recv)
    /\ Taking(toBrick, i, c, h, r)
Weighs(g, i, h, y, z, w) ==
    Number(h, Toks(g, i)) = y /\ Number(h, Typed(i, "DATAB3_REQ")) = z /\ Number(h, Dues(g, i)) = w

\* It says a turns and b confirmations where it has taken y turns and z blocks.
Fair(d, c, a, b, y, z) ==
    /\ a + One(c.st = "dialling") <= y + One(d.st = "dialling")
    /\ b + c.unconf <= z + d.unconf
    /\ c.st = "b3up" => y > 0 \/ (d.st = "b3up" /\ b + c.unconf = z + d.unconf)
Mild(g, type, b3) ==
    /\ type \in Types \ {"CONNECT_IND", "LISTEN_CONF"} /\ b3 \in BOOLEAN
    /\ type \in {"CONNECTB3ACTIVE_IND", "DATAB3_CONF"} => b3
    /\ type = "CONNECTB3_IND" => g.recv
Answered(d, w) ==
    \/ answered' = answered /\ d <= w
    \/ answered' = answered + 1 /\ ~cfg.recv /\ answered < cfg.answers

LEMMA SaysAll ==
    ASSUME IInv, NEW i, NEW c, NEW h, NEW r, Able(i, c, h, r), toBrick' = r, listens' = listens,
           NEW y, NEW z, NEW w, Weighs(cfg, i, h, y, z, w), NEW ms, Becomes(i, c, ms),
           NEW x, x = Saying(i, c, ms), Answering(cfg, i, c, x),
           NEW a, NEW b, NEW d, Number(x, Toks(cfg, i)) = a, Number(x, Typed(i, "DATAB3_CONF")) = b,
           Number(x, Dues(cfg, i)) = d, Fair(line[i], c, a, b, y, z), Answered(d, w)
    PROVE  IInv'
<1>1. Does(cfg, Program, line, i, c, x, h, r)
  <2> DEFINE q == toBrick
  <2>1. Program.ms = q /\ Program.made = made /\ Program.dialled = dialled
    BY DEF Program
  <2>2. Balanced(cfg, i, line[i], c, x, h)
    BY DEF Balanced, Fair, Weighs
  <2>3. Taking(Program.ms, i, c, h, r)
    BY <2>1 DEF Able
  <2> QED  BY <2>1, <2>2, <2>3 DEF Does, Able
<1>2. /\ line' = Becoming(line, i, c) /\ toProg' = Given(toProg, c.appl, x)
      /\ UNCHANGED <<pc, cfg, prog, at, signals>>
  BY BecomesIs
<1>3. \/ answered' = answered /\ Number(x, Dues(cfg, i)) <= Number(h, Dues(cfg, i))
      \/ answered' = answered + 1 /\ ~cfg.recv /\ answered < cfg.answers
  BY DEF Answered, Weighs
<1>4. /\ IInv /\ Does(cfg, Program, line, i, c, x, h, r) /\ line' = Becoming(line, i, c)
      /\ toProg' = Given(toProg, c.appl, x) /\ toBrick' = r /\ UNCHANGED <<pc, cfg, prog, at, signals>>
      /\ listens' = listens
  BY <1>1, <1>2
<1> QED  BY ONLY <1>3, <1>4, BrickGoes

LEMMA SaysNone ==
    ASSUME IInv, NEW i, NEW c, NEW h, NEW r, Able(i, c, h, r), toBrick' = r, listens' = listens,
           NEW y, NEW z, NEW w, Weighs(cfg, i, h, y, z, w), Becomes(i, c, <<>>),
           Fair(line[i], c, 0, 0, y, z), Answered(0, w)
    PROVE  IInv'
<1> DEFINE ms == <<>>  x == Saying(i, c, ms)
<1>1. x = <<>>
  BY SayNone
<1>2. x \in Seq(Message) /\ DOMAIN x = {}
  <2>1. <<>> \in Seq(Message) /\ DOMAIN <<>> = {}
    OBVIOUS
  <2> HIDE DEF x
  <2> QED  BY ONLY <1>1, <2>1
<1>3. /\ Number(x, Toks(cfg, i)) = 0 /\ Number(x, Typed(i, "DATAB3_CONF")) = 0 /\ Number(x, Dues(cfg, i)) = 0
  BY <1>1, NoneNumber
<1>4. Answering(cfg, i, c, x)
  BY <1>2 DEF Answering
<1>5. x = Saying(i, c, ms) /\ Becomes(i, c, ms)
  OBVIOUS
<1> DEFINE a == 0  b == 0  d == 0
<1>6. /\ IInv /\ Able(i, c, h, r) /\ toBrick' = r /\ listens' = listens /\ Weighs(cfg, i, h, y, z, w)
      /\ Becomes(i, c, ms) /\ x = Saying(i, c, ms) /\ Answering(cfg, i, c, x)
      /\ Number(x, Toks(cfg, i)) = a /\ Number(x, Typed(i, "DATAB3_CONF")) = b
      /\ Number(x, Dues(cfg, i)) = d /\ Fair(line[i], c, a, b, y, z) /\ Answered(d, w)
  BY <1>3, <1>4, <1>5
<1> HIDE DEF x, ms, a, b, d
<1> QED  BY ONLY <1>6, SaysAll

LEMMA SaysOne ==
    ASSUME IInv, NEW i, NEW c, NEW h, NEW r, Able(i, c, h, r), toBrick' = r, listens' = listens,
           NEW y, NEW z, NEW w, Weighs(cfg, i, h, y, z, w),
           NEW ty, NEW b3, NEW info \in Nat, Becomes(i, c, <<<<ty, b3, info>>>>), Mild(cfg, ty, b3),
           Fair(line[i], c, One(ty \in TokTypes(cfg)), One(ty = "DATAB3_CONF"), y, z),
           Answered(One(ty \in DueTypes(cfg)), w)
    PROVE  IInv'
<1> DEFINE e == <<ty, b3, info>>  ms == <<e>>  x == Saying(i, c, ms)  m == Msg(ty, c.appl, i, b3, info)
<1>1. x = <<m>>
  BY SayOne
<1>2. /\ m \in Message /\ m.type = ty /\ m.appl = c.appl /\ m.id = i /\ m.b3 = b3
  <2>1. i \in Nat /\ c.appl \in Nat /\ info \in Nat /\ ty \in Types /\ b3 \in BOOLEAN
    BY DEF Able, Mild
  <2> DEFINE o == c.appl
  <2>2. o \in Nat
    BY <2>1
  <2> HIDE DEF o
  <2>3. Msg(ty, o, i, b3, info) \in Message /\ Msg(ty, o, i, b3, info).type = ty /\ Msg(ty, o, i, b3, info).appl = o
        /\ Msg(ty, o, i, b3, info).id = i /\ Msg(ty, o, i, b3, info).b3 = b3
    BY ONLY <2>1, <2>2, MessageIs
  <2> QED  BY <2>3 DEF o
<1>3. x = Saying(i, c, ms) /\ Becomes(i, c, ms)
  OBVIOUS
<1> HIDE DEF x, ms, m
<1>4. /\ x \in Seq(Message) /\ DOMAIN x = {1} /\ x[1] = m
      /\ Number(x, Toks(cfg, m.id)) = One(m.type \in TokTypes(cfg))
      /\ Number(x, Dues(cfg, m.id)) = One(m.type \in DueTypes(cfg))
      /\ \A type : Number(x, Typed(m.id, type)) = One(m.type = type)
  BY SMTT(40), SMTT(41), ZenonT(30), <1>1, <1>2, CountOne
<1>5. Answering(cfg, i, c, x)
  BY <1>2, <1>4 DEF Answering, Mild
<1> DEFINE a == One(ty \in TokTypes(cfg))  b == One(ty = "DATAB3_CONF")  d == One(ty \in DueTypes(cfg))
<1>6. /\ IInv /\ Able(i, c, h, r) /\ toBrick' = r /\ listens' = listens /\ Weighs(cfg, i, h, y, z, w)
      /\ Becomes(i, c, ms) /\ x = Saying(i, c, ms) /\ Answering(cfg, i, c, x)
      /\ Number(x, Toks(cfg, i)) = a /\ Number(x, Typed(i, "DATAB3_CONF")) = b
      /\ Number(x, Dues(cfg, i)) = d /\ Fair(line[i], c, a, b, y, z) /\ Answered(d, w)
  BY <1>2, <1>3, <1>4, <1>5
<1> HIDE DEF a, b, d
<1> QED  BY ONLY <1>6, SaysAll

LEMMA SaysTwo ==
    ASSUME IInv, NEW i, NEW c, NEW h, NEW r, Able(i, c, h, r), toBrick' = r, listens' = listens,
           NEW y, NEW z, NEW w, Weighs(cfg, i, h, y, z, w),
           NEW ty, NEW b3, NEW info \in Nat, NEW ty2, NEW b4, NEW info2 \in Nat,
           Becomes(i, c, <<<<ty, b3, info>>, <<ty2, b4, info2>>>>), Mild(cfg, ty, b3), Mild(cfg, ty2, b4),
           Fair(line[i], c, One(ty \in TokTypes(cfg)) + One(ty2 \in TokTypes(cfg)),
                One(ty = "DATAB3_CONF") + One(ty2 = "DATAB3_CONF"), y, z),
           Answered(One(ty \in DueTypes(cfg)) + One(ty2 \in DueTypes(cfg)), w)
    PROVE  IInv'
<1> DEFINE e == <<ty, b3, info>>  f == <<ty2, b4, info2>>  ms == <<e, f>>  x == Saying(i, c, ms)
           m == Msg(ty, c.appl, i, b3, info)  n == Msg(ty2, c.appl, i, b4, info2)
<1>1. x = <<m, n>>
  BY SayTwo
<1>2. /\ m \in Message /\ m.type = ty /\ m.appl = c.appl /\ m.id = i /\ m.b3 = b3
      /\ n \in Message /\ n.type = ty2 /\ n.appl = c.appl /\ n.id = i /\ n.b3 = b4
  <2>1. /\ i \in Nat /\ c.appl \in Nat /\ info \in Nat /\ ty \in Types /\ b3 \in BOOLEAN
        /\ info2 \in Nat /\ ty2 \in Types /\ b4 \in BOOLEAN
    BY DEF Able, Mild
  <2> DEFINE o == c.appl
  <2>2. o \in Nat
    BY <2>1
  <2> HIDE DEF o
  <2>3. Msg(ty, o, i, b3, info) \in Message /\ Msg(ty, o, i, b3, info).type = ty /\ Msg(ty, o, i, b3, info).appl = o
        /\ Msg(ty, o, i, b3, info).id = i /\ Msg(ty, o, i, b3, info).b3 = b3
    BY ONLY <2>1, <2>2, MessageIs
  <2>4. Msg(ty2, o, i, b4, info2) \in Message /\ Msg(ty2, o, i, b4, info2).type = ty2 /\ Msg(ty2, o, i, b4, info2).appl = o
        /\ Msg(ty2, o, i, b4, info2).id = i /\ Msg(ty2, o, i, b4, info2).b3 = b4
    BY ONLY SMTT(40), SMTT(41), ZenonT(30), <2>1, <2>2, MessageIs
  <2> QED  BY <2>3, <2>4 DEF o
<1>3. x = Saying(i, c, ms) /\ Becomes(i, c, ms)
  OBVIOUS
<1> HIDE DEF x, ms, m, n
<1>4. /\ x \in Seq(Message) /\ DOMAIN x = {1, 2} /\ x[1] = m /\ x[2] = n
      /\ Number(x, Toks(cfg, i)) = One(m.type \in TokTypes(cfg)) + One(n.type \in TokTypes(cfg))
      /\ Number(x, Dues(cfg, i)) = One(m.type \in DueTypes(cfg)) + One(n.type \in DueTypes(cfg))
      /\ \A type : Number(x, Typed(i, type)) = One(m.type = type) + One(n.type = type)
  <2>1. m \in Message /\ n \in Message /\ m.id = i /\ n.id = i /\ IsPair(x, m, n)
    BY <1>1, <1>2 DEF IsPair
  <2>2. x \in Seq(Message) /\ DOMAIN x = {1, 2} /\ x[1] = m /\ x[2] = n
    BY ONLY ZenonT(60), <2>1, PairIs
  <2> DEFINE g == cfg
  <2> HIDE DEF g
  <2>3. /\ Number(x, Toks(g, i)) = One(m.type \in TokTypes(g)) + One(n.type \in TokTypes(g))
        /\ Number(x, Dues(g, i)) = One(m.type \in DueTypes(g)) + One(n.type \in DueTypes(g))
    BY ONLY <2>1, CountTwo
  <2>4. \A type : Number(x, Typed(i, type)) = One(m.type = type) + One(n.type = type)
    BY ONLY SMTT(40), SMTT(41), ZenonT(30), <2>1, CountTwo
  <2> QED  BY <2>2, <2>3, <2>4 DEF g
<1>5. Answering(cfg, i, c, x)
  BY <1>2, <1>4 DEF Answering, Mild
<1> DEFINE a == One(ty \in TokTypes(cfg)) + One(ty2 \in TokTypes(cfg))
           b == One(ty = "DATAB3_CONF") + One(ty2 = "DATAB3_CONF")
           d == One(ty \in DueTypes(cfg)) + One(ty2 \in DueTypes(cfg))
<1>6. /\ IInv /\ Able(i, c, h, r) /\ toBrick' = r /\ listens' = listens /\ Weighs(cfg, i, h, y, z, w)
      /\ Becomes(i, c, ms) /\ x = Saying(i, c, ms) /\ Answering(cfg, i, c, x)
      /\ Number(x, Toks(cfg, i)) = a /\ Number(x, Typed(i, "DATAB3_CONF")) = b
      /\ Number(x, Dues(cfg, i)) = d /\ Fair(line[i], c, a, b, y, z) /\ Answered(d, w)
  BY <1>2, <1>3, <1>4, <1>5
<1> HIDE DEF a, b, d
<1> QED  BY ONLY <1>6, SaysAll

--------------------------------------------------------------------------------
(* The brick takes a message *)

IsFirst(q, m, r) == q # <<>> /\ m = Head(q) /\ r = Tail(q)

LEMMA FirstIs ==
    ASSUME NEW q \in Seq(Message), NEW m, NEW r, IsFirst(q, m, r)
    PROVE  /\ m \in Message /\ r \in Seq(Message) /\ <<m>> \in Seq(Message) /\ q = <<m>> \o r
           /\ 1 \in DOMAIN q /\ q[1] = m
           /\ \A n \in DOMAIN r : n + 1 \in DOMAIN q /\ q[n + 1] = r[n] /\ n \in Nat
           /\ \A n \in DOMAIN q : n # 1 => n - 1 \in DOMAIN r /\ r[n - 1] = q[n] /\ n \in Nat
           /\ \A T : Number(q, T) = One(m \in T) + Number(r, T) /\ Number(r, T) \in Nat
           /\ Len(q) = Len(r) + 1 /\ Len(r) \in Nat
<1>1. q # <<>> /\ m = Head(q) /\ r = Tail(q)
  BY DEF IsFirst
<1>2. m \in Message /\ r \in Seq(Message) /\ <<m>> \in Seq(Message) /\ Len(q) = Len(r) + 1 /\ Len(r) \in Nat
  BY <1>1
<1>3. q = <<m>> \o r
  BY <1>1
<1>4. /\ 1 \in DOMAIN q /\ q[1] = m
      /\ \A n \in DOMAIN r : n + 1 \in DOMAIN q /\ q[n + 1] = r[n] /\ n \in Nat
      /\ \A n \in DOMAIN q : n # 1 => n - 1 \in DOMAIN r /\ r[n - 1] = q[n] /\ n \in Nat
  BY <1>1, TailOf
<1>5. ASSUME NEW T
      PROVE  Number(q, T) = One(m \in T) + Number(r, T) /\ Number(r, T) \in Nat
  <2>1. Number(q, T) = One(Head(q) \in T) + Number(Tail(q), T)
    BY <1>1, NumberTail
  <2>2. Number(r, T) \in Nat
    BY <1>2, NumberType
  <2> QED  BY <1>1, <2>1, <2>2
<1> QED  BY <1>2, <1>3, <1>4, <1>5

LEMMA WholeIn ==
    ASSUME IInv
    PROVE  /\ toBrick \in Seq(Message) /\ made \in Nat /\ dialled \in Nat /\ Held(toProg, line)
           /\ cfg \in Configs /\ cfg.recv \in BOOLEAN
           /\ \A n \in DOMAIN toBrick : Asked(cfg, toBrick[n], line, made, dialled)
           /\ \A i \in CallIds : Known(cfg, line, i, made, dialled) /\ Turn(cfg, toBrick, toProg, line, i) <= 1
           /\ \A i \in 1 .. dialled : i \in CallIds
           /\ Structured(cfg, Program) /\ Mailed(cfg, Program, toProg, line)
<1>1. Program.ms = toBrick /\ Program.made = made /\ Program.dialled = dialled
  BY DEF Program
<1>2. /\ Inv(cfg, Program, toProg, line) /\ cfg \in Configs
  BY DEF IInv, Whole, Control
<1>3. Structured(cfg, Program) /\ Mailed(cfg, Program, toProg, line) /\ Turns(cfg, Program, toProg, line)
  BY <1>2 DEF Inv
<1> DEFINE t == Program
<1> HIDE DEF t
<1>4. /\ t.ms \in Seq(Message) /\ t.made \in Nat /\ t.dialled \in Nat /\ Held(toProg, line)
      /\ \A i \in 1 .. t.dialled : i \in CallIds
  BY <1>3, MailedIn DEF t
<1>5. \A n \in DOMAIN t.ms : Asked(cfg, t.ms[n], line, t.made, t.dialled)
  BY <1>3 DEF Mailed, t
<1>6. \A i \in CallIds : Known(cfg, line, i, t.made, t.dialled)
  BY <1>3 DEF Mailed, t
<1>7. \A i \in CallIds : Turn(cfg, t.ms, toProg, line, i) <= 1
  BY <1>3 DEF Turns, t
<1>8. cfg.recv \in BOOLEAN
  BY <1>2, Options
<1> QED  BY <1>1, <1>2, <1>3, <1>4, <1>5, <1>6, <1>7, <1>8 DEF t

\* What the brick knows of the message it takes.
Fine(m) ==
    /\ m.id \in CallIds /\ m.id \in 1 .. dialled /\ m.appl \in 1 .. made /\ m.appl \in Nat
    /\ line[m.id] \in Lines
    /\ IF m.type = "CONNECT_REQ" THEN line[m.id] = Idle /\ ~cfg.recv ELSE line[m.id].appl = m.appl
    /\ m.type = "DATAB3_REQ" => m.b3
    /\ m.type \in {"CONNECT_RESP", "CONNECTB3_RESP"} => cfg.recv
    /\ m.type = "CONNECTB3_REQ" => ~cfg.recv
    /\ m.type \notin {"LISTEN_REQ", "RELEASE"}

LEMMA FirstFine ==
    ASSUME IInv, NEW m, NEW r, IsFirst(toBrick, m, r), m.id # 0
    PROVE  Fine(m) /\ m \in Message
<1>1. /\ toBrick \in Seq(Message) /\ made \in Nat /\ dialled \in Nat /\ Held(toProg, line)
      /\ \A n \in DOMAIN toBrick : Asked(cfg, toBrick[n], line, made, dialled)
      /\ \A i \in 1 .. dialled : i \in CallIds
  BY WholeIn
<1>2. m \in Message /\ 1 \in DOMAIN toBrick /\ toBrick[1] = m
  BY <1>1, FirstIs
<1>3. Asked(cfg, m, line, made, dialled)
  BY <1>1, <1>2
<1>4. m.id \in 1 .. dialled /\ m.appl \in 1 .. made /\ m.appl \in Nat
  BY <1>1, <1>3 DEF Asked
<1>5. m.id \in CallIds /\ line \in [CallIds -> Lines]
  BY <1>1, <1>4 DEF Held
<1> QED  BY <1>2, <1>3, <1>4, <1>5 DEF Asked, Fine

LEMMA OnlyOne ==
    ASSUME IInv, NEW m, NEW r, IsFirst(toBrick, m, r), m.id # 0
    PROVE  \A n \in DOMAIN r : ~(r[n].type = "CONNECT_REQ" /\ r[n].id = m.id)
<1>1. SUFFICES ASSUME NEW n \in DOMAIN r, r[n].type = "CONNECT_REQ", r[n].id = m.id
               PROVE  FALSE
  OBVIOUS
<1>2. /\ toBrick \in Seq(Message) /\ made \in Nat /\ dialled \in Nat /\ Held(toProg, line)
      /\ \A k \in DOMAIN toBrick : Asked(cfg, toBrick[k], line, made, dialled)
      /\ Turn(cfg, toBrick, toProg, line, m.id) <= 1
  BY WholeIn, FirstFine DEF Fine
<1>3. Fine(m) /\ m \in Message
  BY FirstFine
<1>4. /\ r \in Seq(Message) /\ n + 1 \in DOMAIN toBrick /\ toBrick[n + 1] = r[n] /\ r[n] \in Message
      /\ \A T : Number(toBrick, T) = One(m \in T) + Number(r, T) /\ Number(r, T) \in Nat
  <2>4. toBrick \in Seq(Message) /\ IsFirst(toBrick, m, r) /\ n \in DOMAIN r
    BY <1>2
  <2> DEFINE q == toBrick
  <2>5. q \in Seq(Message) /\ IsFirst(q, m, r)
    BY <2>4
  <2> HIDE DEF q
  <2>6. /\ r \in Seq(Message)
        /\ \A k \in DOMAIN r : k + 1 \in DOMAIN q /\ q[k + 1] = r[k] /\ k \in Nat
    BY ONLY <2>5, FirstIs
  <2>1. r \in Seq(Message) /\ n + 1 \in DOMAIN toBrick /\ toBrick[n + 1] = r[n]
    BY <2>4, <2>6 DEF q
  <2>3. \A T : Number(toBrick, T) = One(m \in T) + Number(r, T) /\ Number(r, T) \in Nat
    BY <1>2, FirstIs
  <2>2. r[n] \in Message
    BY <2>1
  <2> QED  BY <2>1, <2>2, <2>3
<1>5. line[m.id] = Idle
  <2>1. Asked(cfg, r[n], line, made, dialled)
    BY <1>2, <1>4
  <2> QED  BY <1>1, <1>3, <2>1 DEF Asked, Fine
<1>6. m.type = "CONNECT_REQ"
  BY <1>3, <1>5 DEF Fine, Idle
<1> DEFINE g == cfg  i == m.id  T == Toks(g, i)
<1>7. m \in T /\ r[n] \in T
  BY <1>1, <1>3, <1>4, <1>6, MessageIn DEF TokTypes
<1>8. Number(r, T) >= 1 /\ Number(r, T) \in Nat
  <2> HIDE DEF T
  <2> QED  BY <1>4, <1>7, NumberSome
<1>9. Number(toBrick, T) >= 2
  <2>1. Number(toBrick, T) = One(m \in T) + Number(r, T)
    BY <1>4
  <2>2. One(m \in T) = 1
    BY <1>7 DEF One
  <2> QED  BY <1>8, <2>1, <2>2
<1>10. /\ Number(toBrick, T) \in Nat /\ Number(In(toProg, line, i), T) \in Nat
       /\ Turn(g, toBrick, toProg, line, i) = Number(toBrick, T) + Number(In(toProg, line, i), T)
                                             + One(line[i].st = "dialling")
  BY <1>2, <1>3, Counted DEF Fine
<1>11. One(line[i].st = "dialling") \in {0, 1}
  BY DEF One
<1> QED
  <2> DEFINE a == Number(toBrick, T)  b == Number(In(toProg, line, i), T)  e == One(line[i].st = "dialling")
             f == Turn(g, toBrick, toProg, line, i)
  <2>1. a >= 2 /\ a \in Nat /\ b \in Nat /\ e \in {0, 1} /\ f = a + b + e /\ f <= 1
    BY <1>2, <1>9, <1>10, <1>11
  <2> HIDE DEF a, b, e, f
  <2> QED  BY ONLY <2>1

\* The call becomes c, which belongs to the message.
Grows(m, r, c) ==
    /\ IsFirst(toBrick, m, r) /\ toBrick' = r /\ m.id # 0 /\ listens' = listens /\ answered' = answered
    /\ c \in Lines /\ c.appl = m.appl /\ (c.st \in {"dialling", "active"} => ~cfg.recv)

LEMMA GrowsAble ==
    ASSUME IInv, NEW m, NEW r, NEW c, Grows(m, r, c), NEW i, i = m.id, NEW h, h = <<m>>
    PROVE  /\ Able(i, c, h, r) /\ toBrick' = r /\ listens' = listens /\ answered' = answered
           /\ Weighs(cfg, i, h, One(m.type \in TokTypes(cfg)), One(m.type = "DATAB3_REQ"),
                     One(m.type \in DueTypes(cfg)))
<1>1. IsFirst(toBrick, m, r) /\ m.id # 0
  BY DEF Grows
<1>2. Fine(m) /\ m \in Message
  BY <1>1, FirstFine
<1>3. \A n \in DOMAIN r : ~(r[n].type = "CONNECT_REQ" /\ r[n].id = m.id)
  BY <1>1, OnlyOne
<1>4. toBrick \in Seq(Message)
  BY WholeIn
<1>5. r \in Seq(Message) /\ toBrick = h \o r
  BY <1>1, <1>4, FirstIs
<1>6. /\ h \in Seq(Message) /\ DOMAIN h = {1} /\ h[1] = m
      /\ Number(h, Toks(cfg, m.id)) = One(m.type \in TokTypes(cfg))
      /\ Number(h, Dues(cfg, m.id)) = One(m.type \in DueTypes(cfg))
      /\ \A type : Number(h, Typed(m.id, type)) = One(m.type = type)
  BY <1>2, CountOne
<1>7. Taking(toBrick, i, c, h, r)
  BY <1>2, <1>3, <1>5, <1>6 DEF Taking, Fine, Grows
<1>8. line[m.id].appl \in {0, c.appl}
  BY <1>2 DEF Fine, Grows, Idle
<1>9. Able(i, c, h, r)
  BY <1>2, <1>7, <1>8 DEF Able, Fine, Grows
<1>10. Weighs(cfg, i, h, One(m.type \in TokTypes(cfg)), One(m.type = "DATAB3_REQ"), One(m.type \in DueTypes(cfg)))
  BY <1>6 DEF Weighs
<1> QED  BY <1>9, <1>10 DEF Grows

LEMMA GrowsNone ==
    ASSUME IInv, NEW m, NEW r, NEW c, Grows(m, r, c), Becomes(m.id, c, <<>>),
           Fair(line[m.id], c, 0, 0, One(m.type \in TokTypes(cfg)), One(m.type = "DATAB3_REQ"))
    PROVE  IInv'
<1> DEFINE h == <<m>>  i == m.id  y == One(m.type \in TokTypes(cfg))  z == One(m.type = "DATAB3_REQ")
           w == One(m.type \in DueTypes(cfg))
<1>1. Able(i, c, h, r) /\ toBrick' = r /\ listens' = listens /\ answered' = answered /\ Weighs(cfg, i, h, y, z, w)
  BY GrowsAble
<1>2. Answered(0, w)
  BY <1>1 DEF Answered, One
<1>3. IInv /\ Becomes(i, c, <<>>) /\ Fair(line[i], c, 0, 0, y, z)
  OBVIOUS
<1> HIDE DEF h, i, y, z, w
<1> QED  BY ONLY <1>1, <1>2, <1>3, SaysNone

LEMMA GrowsOne ==
    ASSUME IInv, NEW m, NEW r, NEW c, Grows(m, r, c), NEW ty, NEW b3, NEW info \in Nat,
           Becomes(m.id, c, <<<<ty, b3, info>>>>), Mild(cfg, ty, b3), ty \notin TokTypes(cfg), ty \notin DueTypes(cfg),
           Fair(line[m.id], c, 0, One(ty = "DATAB3_CONF"), One(m.type \in TokTypes(cfg)), One(m.type = "DATAB3_REQ"))
    PROVE  IInv'
<1> DEFINE h == <<m>>  i == m.id  y == One(m.type \in TokTypes(cfg))  z == One(m.type = "DATAB3_REQ")
           w == One(m.type \in DueTypes(cfg))
<1>1. Able(i, c, h, r) /\ toBrick' = r /\ listens' = listens /\ answered' = answered /\ Weighs(cfg, i, h, y, z, w)
  BY GrowsAble
<1>2. One(ty \in TokTypes(cfg)) = 0 /\ One(ty \in DueTypes(cfg)) = 0
  BY DEF One
<1>3. Answered(One(ty \in DueTypes(cfg)), w)
  BY <1>1, <1>2 DEF Answered, One
<1>4. /\ IInv /\ Becomes(i, c, <<<<ty, b3, info>>>>) /\ info \in Nat /\ Mild(cfg, ty, b3)
      /\ Fair(line[i], c, One(ty \in TokTypes(cfg)), One(ty = "DATAB3_CONF"), y, z)
  BY <1>2
<1> HIDE DEF h, i, y, z, w
<1> QED  BY ONLY <1>1, <1>3, <1>4, SaysOne

LEMMA GrowsTwo ==
    ASSUME IInv, NEW m, NEW r, NEW c, Grows(m, r, c), NEW ty, NEW b3, NEW ty2, NEW b4,
           Becomes(m.id, c, <<<<ty, b3, 0>>, <<ty2, b4, 0>>>>), Mild(cfg, ty, b3), Mild(cfg, ty2, b4),
           ty \notin TokTypes(cfg) \cup DueTypes(cfg) \cup {"DATAB3_CONF"}, ty2 # "DATAB3_CONF",
           ty2 \in DueTypes(cfg) => m.type \in DueTypes(cfg),
           Fair(line[m.id], c, One(ty2 \in TokTypes(cfg)), 0, One(m.type \in TokTypes(cfg)), One(m.type = "DATAB3_REQ"))
    PROVE  IInv'
<1> DEFINE h == <<m>>  i == m.id  y == One(m.type \in TokTypes(cfg))  z == One(m.type = "DATAB3_REQ")
           w == One(m.type \in DueTypes(cfg))  o == 0
<1>1. Able(i, c, h, r) /\ toBrick' = r /\ listens' = listens /\ answered' = answered /\ Weighs(cfg, i, h, y, z, w)
  BY GrowsAble
<1>2. /\ One(ty \in TokTypes(cfg)) = 0 /\ One(ty \in DueTypes(cfg)) = 0 /\ One(ty = "DATAB3_CONF") = 0
      /\ One(ty2 = "DATAB3_CONF") = 0 /\ One(ty2 \in TokTypes(cfg)) \in Nat /\ One(ty2 \in DueTypes(cfg)) \in Nat
      /\ One(ty2 \in DueTypes(cfg)) <= w
  BY DEF One
<1>3. /\ One(ty \in TokTypes(cfg)) + One(ty2 \in TokTypes(cfg)) = One(ty2 \in TokTypes(cfg))
      /\ One(ty \in DueTypes(cfg)) + One(ty2 \in DueTypes(cfg)) = One(ty2 \in DueTypes(cfg))
      /\ One(ty = "DATAB3_CONF") + One(ty2 = "DATAB3_CONF") = 0
  BY <1>2
<1>4. Answered(One(ty \in DueTypes(cfg)) + One(ty2 \in DueTypes(cfg)), w)
  BY <1>1, <1>2, <1>3 DEF Answered
<1>5. /\ IInv /\ Becomes(i, c, <<<<ty, b3, o>>, <<ty2, b4, o>>>>) /\ o \in Nat /\ Mild(cfg, ty, b3) /\ Mild(cfg, ty2, b4)
      /\ Fair(line[i], c, One(ty \in TokTypes(cfg)) + One(ty2 \in TokTypes(cfg)),
              One(ty = "DATAB3_CONF") + One(ty2 = "DATAB3_CONF"), y, z)
  BY <1>3
<1> HIDE DEF h, i, y, z, w, o
<1> QED  BY ONLY <1>1, <1>4, <1>5, SaysTwo

\* The brick's call as it changes.
LEMMA LineIs ==
    ASSUME NEW d \in Lines, NEW st \in LineStates
    PROVE  /\ d.st \in LineStates /\ d.appl \in Nat /\ d.unconf \in Nat /\ d.played \in Nat
           /\ [d EXCEPT !.st = st] \in Lines /\ [d EXCEPT !.st = st].st = st
           /\ [d EXCEPT !.st = st].appl = d.appl /\ [d EXCEPT !.st = st].unconf = d.unconf
           /\ [[d EXCEPT !.st = st] EXCEPT !.unconf = 0] \in Lines
           /\ [[d EXCEPT !.st = st] EXCEPT !.unconf = 0].st = st
           /\ [[d EXCEPT !.st = st] EXCEPT !.unconf = 0].appl = d.appl
           /\ [[d EXCEPT !.st = st] EXCEPT !.unconf = 0].unconf = 0
           /\ [d EXCEPT !.st = d.st] = d
  BY DEF Lines

LineOf(st, a, u, p) == [st |-> st, appl |-> a, unconf |-> u, played |-> p]

LEMMA LineOfIs ==
    ASSUME NEW st, NEW a, NEW u, NEW p, NEW d, d = LineOf(st, a, u, p)
    PROVE  /\ \A v : [d EXCEPT !.unconf = v] = LineOf(st, a, v, p)
           /\ \A v : [d EXCEPT !.st = v] = LineOf(v, a, u, p)
           /\ \A v : [d EXCEPT !.appl = v] = LineOf(st, v, u, p)
           /\ \A v : [d EXCEPT !.played = v] = LineOf(st, a, u, v)
           /\ d.st = st /\ d.appl = a /\ d.unconf = u /\ d.played = p
           /\ st \in LineStates /\ a \in Nat /\ u \in Nat /\ p \in Nat => d \in Lines
  BY DEF LineOf, Lines

LEMMA LineCounts ==
    ASSUME NEW d \in Lines
    PROVE  /\ [d EXCEPT !.unconf = @ + 1] \in Lines /\ [d EXCEPT !.unconf = @ + 1].st = d.st
           /\ [d EXCEPT !.unconf = @ + 1].appl = d.appl /\ [d EXCEPT !.unconf = @ + 1].unconf = d.unconf + 1
           /\ d.unconf > 0 =>
                 /\ [d EXCEPT !.unconf = @ - 1, !.played = @ + 1] \in Lines
                 /\ [d EXCEPT !.unconf = @ - 1, !.played = @ + 1].st = d.st
                 /\ [d EXCEPT !.unconf = @ - 1, !.played = @ + 1].appl = d.appl
                 /\ [d EXCEPT !.unconf = @ - 1, !.played = @ + 1].unconf = d.unconf - 1
<1>1. /\ d.st \in LineStates /\ d.appl \in Nat /\ d.unconf \in Nat /\ d.played \in Nat
      /\ d = LineOf(d.st, d.appl, d.unconf, d.played)
  BY DEF Lines, LineOf
<1> DEFINE u == d.unconf + 1  v == d.unconf - 1  p == d.played + 1
<1>2. u \in Nat /\ p \in Nat /\ (d.unconf > 0 => v \in Nat)
  BY <1>1
<1>3. /\ [d EXCEPT !.unconf = @ + 1] = [d EXCEPT !.unconf = u]
      /\ [d EXCEPT !.unconf = @ - 1, !.played = @ + 1] = [[d EXCEPT !.unconf = v] EXCEPT !.played = p]
  <2>1. [d EXCEPT !.unconf = v].played = d.played
    BY DEF Lines
  <2> QED  BY <2>1
<1> HIDE DEF u, v, p
<1> DEFINE e == [d EXCEPT !.unconf = v]  f == [e EXCEPT !.played = p]  h == [d EXCEPT !.unconf = u]
<1>4. /\ h = LineOf(d.st, d.appl, u, d.played) /\ e = LineOf(d.st, d.appl, v, d.played)
  BY <1>1, LineOfIs
<1>5. f = LineOf(d.st, d.appl, v, p)
  <2> DEFINE x == d.st  y == d.appl  z == d.played
  <2>1. e = LineOf(x, y, v, z)
    BY <1>4
  <2> HIDE DEF x, y, z, e
  <2>2. [e EXCEPT !.played = p] = LineOf(x, y, v, p)
    BY ONLY <2>1, LineOfIs
  <2> QED  BY <2>2 DEF x, y, z
<1> HIDE DEF e, f, h
<1>6. h \in Lines /\ h.st = d.st /\ h.appl = d.appl /\ h.unconf = u
  BY <1>1, <1>2, <1>4, LineOfIs
<1>7. f.st = d.st /\ f.appl = d.appl /\ f.unconf = v /\ (d.unconf > 0 => f \in Lines)
  BY <1>1, <1>2, <1>5, LineOfIs
<1> QED  BY <1>1, <1>3, <1>6, <1>7 DEF e, f, h, u, v

Takes1(m, r) ==
    IsFirst(toBrick, m, r) /\ toBrick' = r /\ answered' = answered /\ m.type \notin {"LISTEN_REQ", "RELEASE"}

LEMMA Took ==
    ASSUME IInv, NEW m, NEW r, Takes1(m, r)
    PROVE  /\ Fine(m) /\ m \in Message /\ m.id # 0 /\ cfg.recv \in BOOLEAN /\ line[m.id] \in Lines
           /\ \A c : /\ c \in Lines /\ c.appl = m.appl /\ listens' = listens
                     /\ (c.st \in {"dialling", "active"} => ~cfg.recv)
                     => Grows(m, r, c)
<1>1. /\ toBrick \in Seq(Message) /\ cfg.recv \in BOOLEAN
      /\ \A n \in DOMAIN toBrick : Asked(cfg, toBrick[n], line, made, dialled)
  BY WholeIn
<1>2. IsFirst(toBrick, m, r) /\ m.type \notin {"LISTEN_REQ", "RELEASE"}
  BY DEF Takes1
<1>3. 1 \in DOMAIN toBrick /\ toBrick[1] = m
  BY <1>1, <1>2, FirstIs
<1>4. m.id # 0
  BY <1>1, <1>2, <1>3 DEF Asked
<1>5. Fine(m) /\ m \in Message
  BY <1>2, <1>4, FirstFine
<1>6. line[m.id] \in Lines
  BY <1>5 DEF Fine
<1> QED  BY <1>1, <1>2, <1>4, <1>5, <1>6 DEF Grows, Takes1

LEMMA TokWeight ==
    ASSUME cfg.recv \in BOOLEAN
    PROVE  /\ {"CONNECT_REQ", "CONNECT_RESP", "CONNECTB3_REQ", "CONNECTB3_RESP", "CONNECTB3_IND",
               "CONNECTB3ACTIVE_IND"} \subseteq TokTypes(cfg)
           /\ \A type \in {"DATAB3_REQ", "DISCONNECTB3_REQ", "DISCONNECT_REQ", "CONNECT_CONF", "CONNECTB3_CONF",
                           "DATAB3_CONF", "DATAB3_IND", "DISCONNECTB3_CONF", "DISCONNECTB3_IND",
                           "DISCONNECT_CONF", "DISCONNECT_IND"} :
                 type \notin TokTypes(cfg) /\ type \notin DueTypes(cfg)
           /\ "CONNECTACTIVE_IND" \in TokTypes(cfg) <=> ~cfg.recv
           /\ "CONNECTACTIVE_IND" \in DueTypes(cfg) <=> ~cfg.recv
           /\ "CONNECTB3_IND" \notin DueTypes(cfg)
           /\ "CONNECTB3ACTIVE_IND" \in DueTypes(cfg) <=> ~cfg.recv
           /\ "CONNECTB3_REQ" \in DueTypes(cfg) <=> ~cfg.recv
  BY DEF TokTypes, DueTypes

\* CONNECT_REQ: the call is dialled, or refused.
LEMMA ConnectReqTakes ==
    ASSUME IInv, NEW m, NEW r, Takes1(m, r), m.type = "CONNECT_REQ", listens' = listens,
           NEW c, c \in {[Idle EXCEPT !.st = "dialling", !.appl = m.appl], [Idle EXCEPT !.appl = m.appl]},
           NEW info \in Nat, Becomes(m.id, c, <<<<"CONNECT_CONF", FALSE, info>>>>)
    PROVE  IInv'
<1>1. Fine(m) /\ m \in Message /\ cfg.recv \in BOOLEAN
  BY Took
<1>2. m.appl \in Nat /\ line[m.id] = Idle /\ ~cfg.recv
  BY <1>1 DEF Fine
<1>3. c \in Lines /\ c.appl = m.appl /\ c.unconf = 0 /\ c.st \in {"dialling", "free"}
  <2> DEFINE o == m.appl
  <2>1. o \in Nat
    BY <1>2
  <2> HIDE DEF o
  <2> DEFINE e == [Idle EXCEPT !.st = "dialling"]
  <2>2. Idle = LineOf("free", 0, 0, 0) /\ "free" \in LineStates /\ "dialling" \in LineStates
    BY DEF Idle, LineOf, LineStates
  <2>3. e = LineOf("dialling", 0, 0, 0)
    BY <2>2, LineOfIs
  <2> HIDE DEF e
  <2>4. [e EXCEPT !.appl = o] = LineOf("dialling", o, 0, 0) /\ [Idle EXCEPT !.appl = o] = LineOf("free", o, 0, 0)
    BY <2>2, <2>3, LineOfIs
  <2>5. c = [e EXCEPT !.appl = o] \/ c = [Idle EXCEPT !.appl = o]
    BY DEF e, o
  <2>6. c = LineOf("dialling", o, 0, 0) \/ c = LineOf("free", o, 0, 0)
    BY <2>4, <2>5
  <2>7. c \in Lines /\ c.appl = o /\ c.unconf = 0 /\ c.st \in {"dialling", "free"}
    BY <2>1, <2>2, <2>6, LineOfIs
  <2> QED  BY <2>7 DEF o
<1>4. Grows(m, r, c)
  BY <1>2, <1>3, Took
<1> DEFINE ty == "CONNECT_CONF"  b3 == FALSE
<1>5. Mild(cfg, ty, b3) /\ ty \notin TokTypes(cfg) /\ ty \notin DueTypes(cfg)
  <2>1. "CONNECT_CONF" \in Types
    BY DEF Types
  <2>2. ty \notin TokTypes(cfg) /\ ty \notin DueTypes(cfg)
    BY <1>1, TokWeight
  <2> QED  BY <2>1, <2>2 DEF Mild
<1>6. Fair(line[m.id], c, 0, One(ty = "DATAB3_CONF"), One(m.type \in TokTypes(cfg)), One(m.type = "DATAB3_REQ"))
  <2>1. m.type \in TokTypes(cfg)
    BY <1>1, TokWeight
  <2>2. line[m.id].st = "free" /\ line[m.id].unconf = 0
    BY <1>2 DEF Idle
  <2> QED  BY <1>3, <2>1, <2>2 DEF Fair, One
<1>7. Becomes(m.id, c, <<<<ty, b3, info>>>>)
  OBVIOUS
<1> HIDE DEF ty, b3
<1> QED  BY ONLY IInv, info \in Nat, <1>4, <1>5, <1>6, <1>7, GrowsOne

\* The call goes to st, one message is said, which moves nothing.
LEMMA SaysPlain ==
    ASSUME IInv, NEW m, NEW r, Takes1(m, r), m.type # "CONNECT_REQ", listens' = listens,
           NEW c \in Lines, c.appl = m.appl, c.st \in {"dialling", "active"} => ~cfg.recv,
           NEW ty \in {"DATAB3_CONF", "DISCONNECTB3_CONF", "DISCONNECT_CONF"}, NEW b3 \in BOOLEAN,
           ty = "DATAB3_CONF" => b3 /\ m.type = "DATAB3_REQ",
           c = line[m.id], ty = "DATAB3_CONF" \/ m.type # "DATAB3_REQ", ty = "DATAB3_CONF" => c.st # "b3up",
           Becomes(m.id, c, <<<<ty, b3, 0>>>>)
    PROVE  IInv'
<1>1. Fine(m) /\ m \in Message /\ cfg.recv \in BOOLEAN
  BY Took
<1>2. Grows(m, r, c)
  BY Took
<1>3. Mild(cfg, ty, b3) /\ ty \notin TokTypes(cfg) /\ ty \notin DueTypes(cfg)
  <2>1. {"DATAB3_CONF", "DISCONNECTB3_CONF", "DISCONNECT_CONF"} \subseteq Types
    BY DEF Types
  <2>2. ty \notin TokTypes(cfg) /\ ty \notin DueTypes(cfg)
    BY <1>1, TokWeight
  <2> QED  BY <2>1, <2>2 DEF Mild
<1>4. Fair(line[m.id], c, 0, One(ty = "DATAB3_CONF"), One(m.type \in TokTypes(cfg)), One(m.type = "DATAB3_REQ"))
  <2>1. c.unconf \in Nat
    BY DEF Lines
  <2>2. One(ty = "DATAB3_CONF") = One(m.type = "DATAB3_REQ")
    BY DEF One
  <2>3. One(m.type \in TokTypes(cfg)) \in {0, 1} /\ One(c.st = "dialling") \in {0, 1}
    BY DEF One
  <2>4. One(ty = "DATAB3_CONF") \in {0, 1} /\ One(m.type = "DATAB3_REQ") \in {0, 1}
    BY DEF One
  <2> QED  BY <2>1, <2>2, <2>3, <2>4 DEF Fair
<1> DEFINE o == 0
<1>5. Becomes(m.id, c, <<<<ty, b3, o>>>>) /\ o \in Nat
  OBVIOUS
<1> HIDE DEF o
<1> QED  BY ONLY IInv, <1>2, <1>3, <1>4, <1>5, GrowsOne

\* A message that changes nothing.
LEMMA SaysNothing ==
    ASSUME IInv, NEW m, NEW r, Takes1(m, r), m.type # "CONNECT_REQ", listens' = listens,
           NEW c \in Lines, c.appl = m.appl, c.st \in {"dialling", "active"} => ~cfg.recv,
           c.st = line[m.id].st, c.unconf = line[m.id].unconf + One(m.type = "DATAB3_REQ"), Becomes(m.id, c, <<>>)
    PROVE  IInv'
<1>1. Fine(m) /\ m \in Message /\ cfg.recv \in BOOLEAN
  BY Took
<1>2. Grows(m, r, c)
  BY Took
<1>3. Fair(line[m.id], c, 0, 0, One(m.type \in TokTypes(cfg)), One(m.type = "DATAB3_REQ"))
  <2>1. c.unconf \in Nat /\ line[m.id].unconf \in Nat
    BY <1>1 DEF Lines, Fine
  <2>2. One(m.type \in TokTypes(cfg)) \in {0, 1} /\ One(c.st = "dialling") \in {0, 1}
    BY DEF One
  <2>3. One(m.type = "DATAB3_REQ") \in {0, 1}
    BY DEF One
  <2> QED  BY <2>1, <2>2, <2>3 DEF Fair
<1> QED  BY <1>2, <1>3, GrowsNone

\* The call goes on, two messages are said.
LEMMA SaysBoth ==
    ASSUME IInv, NEW m, NEW r, Takes1(m, r), m.type # "CONNECT_REQ", m.type # "DATAB3_REQ", listens' = listens,
           NEW c \in Lines, c.appl = m.appl, c.st \notin {"dialling", "active"}, c.unconf <= line[m.id].unconf,
           NEW ty \in Types \ {"CONNECT_IND", "LISTEN_CONF"}, NEW b3 \in BOOLEAN,
           NEW ty2 \in Types \ {"CONNECT_IND", "LISTEN_CONF"}, NEW b4 \in BOOLEAN,
           ty \notin TokTypes(cfg) \cup DueTypes(cfg) \cup {"DATAB3_CONF"}, ty2 # "DATAB3_CONF",
           ty2 \in TokTypes(cfg) \/ c.st = "b3up" => m.type \in TokTypes(cfg),
           ty2 \in DueTypes(cfg) => m.type \in DueTypes(cfg),
           ty2 = "CONNECTB3ACTIVE_IND" => b4, ty2 = "CONNECTB3_IND" => cfg.recv, cfg.recv \in BOOLEAN,
           Becomes(m.id, c, <<<<ty, b3, 0>>, <<ty2, b4, 0>>>>)
    PROVE  IInv'
<1>1. Fine(m) /\ m \in Message /\ line[m.id] \in Lines
  BY Took
<1>2. Grows(m, r, c)
  BY Took
<1>3. Mild(cfg, ty, b3) /\ Mild(cfg, ty2, b4)
  <2>1. "CONNECTB3ACTIVE_IND" \in TokTypes(cfg) /\ "CONNECTB3_IND" \in TokTypes(cfg)
    BY TokWeight
  <2> QED  BY <2>1 DEF Mild
<1>4. Fair(line[m.id], c, One(ty2 \in TokTypes(cfg)), 0, One(m.type \in TokTypes(cfg)), One(m.type = "DATAB3_REQ"))
  <2>1. c.unconf \in Nat /\ line[m.id].unconf \in Nat
    BY <1>1 DEF Lines
  <2>2. One(m.type = "DATAB3_REQ") = 0 /\ One(c.st = "dialling") = 0
    BY DEF One
  <2>3. One(line[m.id].st = "dialling") \in {0, 1}
    BY DEF One
  <2>4. One(ty2 \in TokTypes(cfg)) <= One(m.type \in TokTypes(cfg)) /\ (c.st = "b3up" => One(m.type \in TokTypes(cfg)) = 1)
    BY DEF One
  <2>5. One(ty2 \in TokTypes(cfg)) \in {0, 1} /\ One(m.type \in TokTypes(cfg)) \in {0, 1}
    BY DEF One
  <2> QED  BY <2>1, <2>2, <2>3, <2>4, <2>5 DEF Fair
<1>5. /\ IInv /\ Grows(m, r, c) /\ Becomes(m.id, c, <<<<ty, b3, 0>>, <<ty2, b4, 0>>>>)
      /\ Mild(cfg, ty, b3) /\ Mild(cfg, ty2, b4)
      /\ ty \notin TokTypes(cfg) \cup DueTypes(cfg) \cup {"DATAB3_CONF"} /\ ty2 # "DATAB3_CONF"
      /\ (ty2 \in DueTypes(cfg) => m.type \in DueTypes(cfg))
      /\ Fair(line[m.id], c, One(ty2 \in TokTypes(cfg)), 0, One(m.type \in TokTypes(cfg)), One(m.type = "DATAB3_REQ"))
  BY <1>2, <1>3, <1>4
<1> QED  BY ONLY <1>5, GrowsTwo

Shapes(i, a) ==
    \A st \in LineStates :
        /\ At(i, st) \in Lines /\ At(i, st).st = st /\ At(i, st).appl = a
        /\ At(i, st).unconf = line[i].unconf
        /\ [At(i, st) EXCEPT !.unconf = 0] \in Lines /\ [At(i, st) EXCEPT !.unconf = 0].st = st
        /\ [At(i, st) EXCEPT !.unconf = 0].appl = a /\ [At(i, st) EXCEPT !.unconf = 0].unconf = 0

LEMMA AtIs ==
    ASSUME IInv, NEW m, NEW r, Takes1(m, r), m.type # "CONNECT_REQ", NEW i, i = m.id
    PROVE  /\ Shapes(i, m.appl)
           /\ At(i, line[i].st) = line[i] /\ line[i] \in Lines /\ line[i].appl = m.appl
           /\ line[i].st \in LineStates /\ line[i].unconf \in Nat /\ m.b3 \in BOOLEAN /\ cfg.recv \in BOOLEAN
           /\ line[i].st \in {"dialling", "active"} => ~cfg.recv
           /\ Fine(m) /\ m \in Message
<1>1. Fine(m) /\ m \in Message /\ cfg.recv \in BOOLEAN /\ line[i] \in Lines
  BY Took
<1>2. line[i].appl = m.appl /\ i \in CallIds
  BY <1>1 DEF Fine
<1>3. line[i].st \in {"dialling", "active"} => ~cfg.recv
  BY <1>2, WholeIn DEF Known
<1>4. m.b3 \in BOOLEAN
  BY <1>1 DEF Message
<1> DEFINE d == line[i]
<1>5. d \in Lines /\ d.appl = m.appl
  BY <1>1, <1>2
<1> HIDE DEF d
<1>6. ASSUME NEW st \in LineStates
      PROVE  /\ At(i, st) \in Lines /\ At(i, st).st = st /\ At(i, st).appl = m.appl
             /\ At(i, st).unconf = line[i].unconf
             /\ [At(i, st) EXCEPT !.unconf = 0] \in Lines /\ [At(i, st) EXCEPT !.unconf = 0].st = st
             /\ [At(i, st) EXCEPT !.unconf = 0].appl = m.appl /\ [At(i, st) EXCEPT !.unconf = 0].unconf = 0
  <2> DEFINE e == [d EXCEPT !.st = st]
  <2>1. At(i, st) = e /\ line[i] = d
    BY DEF At, d
  <2>2. /\ e \in Lines /\ e.st = st /\ e.appl = d.appl /\ e.unconf = d.unconf
        /\ [e EXCEPT !.unconf = 0] \in Lines /\ [e EXCEPT !.unconf = 0].st = st
        /\ [e EXCEPT !.unconf = 0].appl = d.appl /\ [e EXCEPT !.unconf = 0].unconf = 0
    BY Zenon, <1>5, LineIs
  <2> HIDE DEF e
  <2> QED  BY <1>5, <2>1, <2>2
<1>7. d.st \in LineStates /\ d.unconf \in Nat /\ [d EXCEPT !.st = d.st] = d
  BY <1>5 DEF Lines
<1>8. At(i, line[i].st) = line[i] /\ line[i].st \in LineStates /\ line[i].unconf \in Nat
  BY <1>7 DEF At, d
<1>9. Shapes(i, m.appl)
  BY <1>6 DEF Shapes
<1> QED  BY <1>1, <1>2, <1>3, <1>4, <1>8, <1>9

\* CONNECT_RESP: the B channel is offered.
LEMMA ConnectRespTakes ==
    ASSUME IInv, NEW m, NEW r, Takes1(m, r), m.type = "CONNECT_RESP", listens' = listens,
           line[m.id].st = "offered",
           Becomes(m.id, At(m.id, "b3offered"), <<<<"CONNECTACTIVE_IND", FALSE, 0>>, <<"CONNECTB3_IND", TRUE, 0>>>>)
    PROVE  IInv'
<1> DEFINE st == "b3offered"  i == m.id  c == At(i, st)  ty == "CONNECTACTIVE_IND"  b3 == FALSE
           ty2 == "CONNECTB3_IND"  b4 == TRUE
<1>1. /\ c \in Lines /\ c.st = st /\ c.appl = m.appl /\ c.unconf = line[m.id].unconf /\ line[m.id].unconf \in Nat
      /\ Fine(m) /\ cfg.recv \in BOOLEAN
  <2>1. st \in LineStates /\ m.type # "CONNECT_REQ" /\ i = m.id
    BY DEF LineStates
  <2> HIDE DEF st, i
  <2>5. Shapes(i, m.appl)
    BY <2>1, AtIs
  <2>2. c \in Lines /\ c.st = st /\ c.appl = m.appl /\ c.unconf = line[i].unconf
    BY <2>1, <2>5 DEF Shapes
  <2>4. line[m.id] \in Lines /\ Fine(m) /\ cfg.recv \in BOOLEAN
    BY Took
  <2>3. line[i].unconf \in Nat /\ Fine(m) /\ cfg.recv \in BOOLEAN
    BY <2>1, <2>4 DEF Lines
  <2> QED  BY <2>1, <2>2, <2>3
<1>2. cfg.recv
  BY <1>1 DEF Fine
<1>3. /\ ty \in Types \ {"CONNECT_IND", "LISTEN_CONF"} /\ ty2 \in Types \ {"CONNECT_IND", "LISTEN_CONF"}
      /\ b3 \in BOOLEAN /\ b4 \in BOOLEAN
  BY DEF Types
<1>4. /\ ty \notin TokTypes(cfg) \cup DueTypes(cfg) \cup {"DATAB3_CONF"} /\ ty2 # "DATAB3_CONF"
      /\ m.type \in TokTypes(cfg) /\ ty2 \notin DueTypes(cfg)
  BY <1>1, <1>2, TokWeight
<1>5. /\ c.st \notin {"dialling", "active"} /\ c.unconf <= line[m.id].unconf
      /\ ty2 # "CONNECTB3ACTIVE_IND" /\ m.type # "CONNECT_REQ" /\ m.type # "DATAB3_REQ"
      /\ Becomes(m.id, c, <<<<ty, b3, 0>>, <<ty2, b4, 0>>>>)
  BY <1>1
<1> HIDE DEF st, c, ty, b3, ty2, b4
<1> QED  BY <1>1, <1>2, <1>3, <1>4, <1>5, SaysBoth

\* CONNECTB3_REQ: the B channel is up.
LEMMA ConnectB3ReqTakes ==
    ASSUME IInv, NEW m, NEW r, Takes1(m, r), m.type = "CONNECTB3_REQ", listens' = listens,
           Becomes(m.id, At(m.id, "b3up"), <<<<"CONNECTB3_CONF", TRUE, 0>>, <<"CONNECTB3ACTIVE_IND", TRUE, 0>>>>)
    PROVE  IInv'
<1> DEFINE st == "b3up"  i == m.id  c == At(i, st)  ty == "CONNECTB3_CONF"  b3 == TRUE
           ty2 == "CONNECTB3ACTIVE_IND"  b4 == TRUE
<1>1. /\ c \in Lines /\ c.st = st /\ c.appl = m.appl /\ c.unconf = line[m.id].unconf /\ line[m.id].unconf \in Nat
      /\ Fine(m) /\ cfg.recv \in BOOLEAN
  <2>1. st \in LineStates /\ m.type # "CONNECT_REQ" /\ i = m.id
    BY DEF LineStates
  <2> HIDE DEF st, i
  <2>5. Shapes(i, m.appl)
    BY <2>1, AtIs
  <2>2. c \in Lines /\ c.st = st /\ c.appl = m.appl /\ c.unconf = line[i].unconf
    BY <2>1, <2>5 DEF Shapes
  <2>4. line[m.id] \in Lines /\ Fine(m) /\ cfg.recv \in BOOLEAN
    BY Took
  <2>3. line[i].unconf \in Nat /\ Fine(m) /\ cfg.recv \in BOOLEAN
    BY <2>1, <2>4 DEF Lines
  <2> QED  BY <2>1, <2>2, <2>3
<1>2. ~cfg.recv
  BY <1>1 DEF Fine
<1>3. /\ ty \in Types \ {"CONNECT_IND", "LISTEN_CONF"} /\ ty2 \in Types \ {"CONNECT_IND", "LISTEN_CONF"}
      /\ b3 \in BOOLEAN /\ b4 \in BOOLEAN
  BY DEF Types
<1>4. /\ ty \notin TokTypes(cfg) \cup DueTypes(cfg) \cup {"DATAB3_CONF"} /\ ty2 # "DATAB3_CONF"
      /\ m.type \in TokTypes(cfg) /\ m.type \in DueTypes(cfg)
  BY <1>1, <1>2, TokWeight
<1>5. /\ c.st \notin {"dialling", "active"} /\ c.unconf <= line[m.id].unconf
      /\ b4 /\ ty2 # "CONNECTB3_IND" /\ m.type # "CONNECT_REQ" /\ m.type # "DATAB3_REQ"
      /\ Becomes(m.id, c, <<<<ty, b3, 0>>, <<ty2, b4, 0>>>>)
  BY <1>1
<1> HIDE DEF st, c, ty, b3, ty2, b4
<1> QED  BY <1>1, <1>2, <1>3, <1>4, <1>5, SaysBoth

\* DISCONNECTB3_REQ, DISCONNECT_REQ: the call goes down by a step.
LEMMA DownTakes ==
    ASSUME IInv, NEW m, NEW r, Takes1(m, r), m.type \in {"DISCONNECTB3_REQ", "DISCONNECT_REQ"}, listens' = listens,
           NEW c, c \in {[At(m.id, "b3down") EXCEPT !.unconf = 0], At(m.id, "clearing")},
           NEW ty \in {"DISCONNECTB3_CONF", "DISCONNECT_CONF"}, NEW b3 \in BOOLEAN,
           NEW ty2 \in {"DISCONNECTB3_IND", "DISCONNECT_IND"},
           Becomes(m.id, c, <<<<ty, b3, 0>>, <<ty2, b3, 0>>>>)
    PROVE  IInv'
<1> DEFINE st == "b3down"  sd == "clearing"  i == m.id  e == [At(i, st) EXCEPT !.unconf = 0]  f == At(i, sd)
<1>0. st \in LineStates /\ sd \in LineStates /\ m.type # "CONNECT_REQ"
  BY DEF LineStates
<1>1. /\ f \in Lines /\ f.st = sd /\ f.appl = m.appl /\ f.unconf = line[i].unconf
      /\ Fine(m) /\ cfg.recv \in BOOLEAN /\ line[i].unconf \in Nat
  <2>1. sd \in LineStates /\ m.type # "CONNECT_REQ" /\ i = m.id
    BY <1>0
  <2> HIDE DEF st, sd, i
  <2>5. Shapes(i, m.appl)
    BY <2>1, AtIs
  <2>2. f \in Lines /\ f.st = sd /\ f.appl = m.appl /\ f.unconf = line[i].unconf
    BY <2>1, <2>5 DEF Shapes
  <2>4. line[m.id] \in Lines /\ Fine(m) /\ cfg.recv \in BOOLEAN
    BY Took
  <2>3. line[i].unconf \in Nat /\ Fine(m) /\ cfg.recv \in BOOLEAN
    BY <2>1, <2>4 DEF Lines
  <2> QED  BY <2>2, <2>3
<1>2. e \in Lines /\ e.st = st /\ e.appl = m.appl /\ e.unconf = 0
  <2>1. st \in LineStates /\ Shapes(i, m.appl)
    BY <1>0, AtIs
  <2> HIDE DEF st, i
  <2> QED  BY <2>1 DEF Shapes
<1>7. c \in {e, f}
  OBVIOUS
<1> HIDE DEF e, f
<1>3. /\ c \in Lines /\ c.st \in {"b3down", "clearing"} /\ c.appl = m.appl /\ c.unconf <= line[m.id].unconf
  BY <1>1, <1>2, <1>7
<1>4. /\ ty \in Types \ {"CONNECT_IND", "LISTEN_CONF"} /\ ty2 \in Types \ {"CONNECT_IND", "LISTEN_CONF"}
  BY DEF Types
<1>5. /\ ty \notin TokTypes(cfg) /\ ty \notin DueTypes(cfg) /\ ty2 \notin TokTypes(cfg) /\ ty2 \notin DueTypes(cfg)
      /\ m.type \notin TokTypes(cfg)
  BY <1>1, TokWeight
<1>6. /\ ty \notin TokTypes(cfg) \cup DueTypes(cfg) \cup {"DATAB3_CONF"} /\ ty2 # "DATAB3_CONF"
      /\ ty2 # "CONNECTB3ACTIVE_IND" /\ ty2 # "CONNECTB3_IND" /\ m.type # "CONNECT_REQ" /\ m.type # "DATAB3_REQ"
      /\ c.st \notin {"dialling", "active"} /\ c.st # "b3up"
  BY <1>3, <1>5
<1> QED  BY <1>1, <1>3, <1>4, <1>5, <1>6, SaysBoth

\* CONNECTB3_RESP: the B channel is up.
LEMMA ConnectB3RespTakes ==
    ASSUME IInv, NEW m, NEW r, Takes1(m, r), m.type = "CONNECTB3_RESP", listens' = listens,
           Becomes(m.id, At(m.id, "b3up"), <<<<"CONNECTB3ACTIVE_IND", TRUE, 0>>>>)
    PROVE  IInv'
<1> DEFINE st == "b3up"  i == m.id  c == At(i, st)  ty == "CONNECTB3ACTIVE_IND"  b3 == TRUE  o == 0
           h == <<m>>  y == One(m.type \in TokTypes(cfg))  z == One(m.type = "DATAB3_REQ")
           w == One(m.type \in DueTypes(cfg))
<1>1. /\ c \in Lines /\ c.st = st /\ c.appl = m.appl /\ c.unconf = line[i].unconf /\ line[i].unconf \in Nat
      /\ Fine(m) /\ cfg.recv \in BOOLEAN
  <2>1. st \in LineStates /\ m.type # "CONNECT_REQ" /\ i = m.id
    BY DEF LineStates
  <2> HIDE DEF st, i
  <2>5. Shapes(i, m.appl)
    BY <2>1, AtIs
  <2>2. c \in Lines /\ c.st = st /\ c.appl = m.appl /\ c.unconf = line[i].unconf
    BY <2>1, <2>5 DEF Shapes
  <2>4. line[m.id] \in Lines /\ Fine(m) /\ cfg.recv \in BOOLEAN
    BY Took
  <2>3. line[i].unconf \in Nat /\ Fine(m) /\ cfg.recv \in BOOLEAN
    BY <2>1, <2>4 DEF Lines
  <2> QED  BY <2>1, <2>2, <2>3
<1>2. cfg.recv
  BY <1>1 DEF Fine
<1>3. Mild(cfg, ty, b3)
  BY DEF Mild, Types
<1>4. y = 1 /\ z = 0 /\ One(ty \in TokTypes(cfg)) = 1 /\ One(ty \in DueTypes(cfg)) = 0 /\ One(ty = "DATAB3_CONF") = 0
  BY <1>1, <1>2, TokWeight DEF One
<1>5. Grows(m, r, c)
  <2>1. c.st \notin {"dialling", "active"}
    BY <1>1
  <2> HIDE DEF c
  <2> QED  BY <1>1, <2>1, Took
<1>6. Able(i, c, h, r) /\ toBrick' = r /\ listens' = listens /\ answered' = answered /\ Weighs(cfg, i, h, y, z, w)
  <2> HIDE DEF c
  <2> QED  BY <1>5, GrowsAble
<1>7. Answered(One(ty \in DueTypes(cfg)), w)
  BY <1>4, <1>6 DEF Answered, One
<1>8. Fair(line[i], c, One(ty \in TokTypes(cfg)), One(ty = "DATAB3_CONF"), y, z)
  <2>1. One(c.st = "dialling") = 0 /\ One(line[i].st = "dialling") \in {0, 1}
    BY <1>1 DEF One
  <2> QED  BY <1>1, <1>4, <2>1 DEF Fair
<1>9. IInv /\ Becomes(i, c, <<<<ty, b3, o>>>>) /\ o \in Nat
  OBVIOUS
<1> HIDE DEF st, i, c, ty, b3, o, h, y, z, w
<1> QED  BY ONLY <1>3, <1>6, <1>7, <1>8, <1>9, SaysOne

\* A message about a call, whatever it is.
LEMMA CallTakesKeeps ==
    ASSUME IInv, BrickTakes, NEW m, m = Head(toBrick), m.type \notin {"LISTEN_REQ", "RELEASE"}
    PROVE  IInv'
<1> DEFINE r == Tail(toBrick)  i == m.id
<1>1. Takes1(m, r)
  BY SMTT(40), SMTT(41), ZenonT(30) DEF BrickTakes, Takes1, IsFirst
<1>2. \/ /\ m.type = "CONNECT_REQ"
         /\ \/ Becomes(i, [Idle EXCEPT !.st = "dialling", !.appl = m.appl], <<<<"CONNECT_CONF", FALSE, 0>>>>)
            \/ Becomes(i, [Idle EXCEPT !.appl = m.appl], <<<<"CONNECT_CONF", FALSE, 1>>>>)
      \/ /\ m.type = "CONNECT_RESP" /\ line[i].st = "offered"
         /\ Becomes(i, At(i, "b3offered"), <<<<"CONNECTACTIVE_IND", FALSE, 0>>, <<"CONNECTB3_IND", TRUE, 0>>>>)
      \/ /\ m.type = "CONNECTB3_RESP"
         /\ Becomes(i, At(i, "b3up"), <<<<"CONNECTB3ACTIVE_IND", TRUE, 0>>>>)
      \/ /\ m.type = "CONNECTB3_REQ"
         /\ Becomes(i, At(i, "b3up"), <<<<"CONNECTB3_CONF", TRUE, 0>>, <<"CONNECTB3ACTIVE_IND", TRUE, 0>>>>)
      \/ /\ m.type = "DATAB3_REQ" /\ line[i].st = "b3up"
         /\ Becomes(i, [line[i] EXCEPT !.unconf = @ + 1], <<>>)
      \/ /\ m.type = "DATAB3_REQ" /\ line[i].st # "b3up"
         /\ Becomes(i, At(i, line[i].st), <<<<"DATAB3_CONF", m.b3, 0>>>>)
      \/ /\ m.type = "DISCONNECTB3_REQ"
         /\ Becomes(i, [At(i, "b3down") EXCEPT !.unconf = 0],
                    <<<<"DISCONNECTB3_CONF", TRUE, 0>>, <<"DISCONNECTB3_IND", TRUE, 0>>>>)
      \/ /\ m.type = "DISCONNECTB3_REQ"
         /\ Becomes(i, At(i, line[i].st), <<<<"DISCONNECTB3_CONF", m.b3, 0>>>>)
      \/ /\ m.type = "DISCONNECT_REQ"
         /\ Becomes(i, At(i, "clearing"), <<<<"DISCONNECT_CONF", FALSE, 0>>, <<"DISCONNECT_IND", FALSE, 0>>>>)
      \/ /\ m.type = "DISCONNECT_REQ"
         /\ Becomes(i, At(i, line[i].st), <<<<"DISCONNECT_CONF", m.b3, 0>>>>)
      \/ /\ m.type \in {"CONNECT_RESP", "CONNECTB3_RESP", "CONNECTB3_REQ", "CONNECTACTIVE_RESP",
                        "CONNECTB3ACTIVE_RESP", "DATAB3_RESP", "DISCONNECTB3_RESP", "DISCONNECT_RESP"}
         /\ Becomes(i, At(i, line[i].st), <<>>)
  BY ZenonT(60) DEF BrickTakes
<1>3. listens' = listens
  BY DEF BrickTakes
<1> HIDE DEF r
<1>4. CASE /\ m.type = "CONNECT_REQ"
           /\ \/ Becomes(i, [Idle EXCEPT !.st = "dialling", !.appl = m.appl], <<<<"CONNECT_CONF", FALSE, 0>>>>)
              \/ Becomes(i, [Idle EXCEPT !.appl = m.appl], <<<<"CONNECT_CONF", FALSE, 1>>>>)
  <2> DEFINE c == [Idle EXCEPT !.st = "dialling", !.appl = m.appl]  d == [Idle EXCEPT !.appl = m.appl]  no == 0  yes == 1
  <2>1. /\ c \in {[Idle EXCEPT !.st = "dialling", !.appl = m.appl], [Idle EXCEPT !.appl = m.appl]}
        /\ d \in {[Idle EXCEPT !.st = "dialling", !.appl = m.appl], [Idle EXCEPT !.appl = m.appl]}
        /\ no \in Nat /\ yes \in Nat
    OBVIOUS
  <2>2. Becomes(m.id, c, <<<<"CONNECT_CONF", FALSE, no>>>>) \/ Becomes(m.id, d, <<<<"CONNECT_CONF", FALSE, yes>>>>)
    BY <1>4
  <2> HIDE DEF c, d, no, yes
  <2> QED  BY Zenon, <1>1, <1>3, <1>4, <2>1, <2>2, ConnectReqTakes
<1>5. CASE /\ m.type = "CONNECT_RESP" /\ line[i].st = "offered"
           /\ Becomes(i, At(i, "b3offered"), <<<<"CONNECTACTIVE_IND", FALSE, 0>>, <<"CONNECTB3_IND", TRUE, 0>>>>)
  BY <1>1, <1>3, <1>5, ConnectRespTakes
<1>6. CASE /\ m.type = "CONNECTB3_RESP"
           /\ Becomes(i, At(i, "b3up"), <<<<"CONNECTB3ACTIVE_IND", TRUE, 0>>>>)
  BY <1>1, <1>3, <1>6, ConnectB3RespTakes
<1>7. CASE /\ m.type = "CONNECTB3_REQ"
           /\ Becomes(i, At(i, "b3up"), <<<<"CONNECTB3_CONF", TRUE, 0>>, <<"CONNECTB3ACTIVE_IND", TRUE, 0>>>>)
  BY <1>1, <1>3, <1>7, ConnectB3ReqTakes
<1>8. CASE \/ /\ m.type = "DISCONNECTB3_REQ"
              /\ Becomes(i, [At(i, "b3down") EXCEPT !.unconf = 0],
                         <<<<"DISCONNECTB3_CONF", TRUE, 0>>, <<"DISCONNECTB3_IND", TRUE, 0>>>>)
           \/ /\ m.type = "DISCONNECT_REQ"
              /\ Becomes(i, At(i, "clearing"), <<<<"DISCONNECT_CONF", FALSE, 0>>, <<"DISCONNECT_IND", FALSE, 0>>>>)
  <2> DEFINE c == [At(i, "b3down") EXCEPT !.unconf = 0]  d == At(i, "clearing")
             ty == "DISCONNECTB3_CONF"  ty2 == "DISCONNECTB3_IND"  tz == "DISCONNECT_CONF"  tz2 == "DISCONNECT_IND"
             up == TRUE  no == FALSE
  <2>1. /\ c \in {[At(m.id, "b3down") EXCEPT !.unconf = 0], At(m.id, "clearing")}
        /\ d \in {[At(m.id, "b3down") EXCEPT !.unconf = 0], At(m.id, "clearing")}
        /\ ty \in {"DISCONNECTB3_CONF", "DISCONNECT_CONF"} /\ ty2 \in {"DISCONNECTB3_IND", "DISCONNECT_IND"}
        /\ tz \in {"DISCONNECTB3_CONF", "DISCONNECT_CONF"} /\ tz2 \in {"DISCONNECTB3_IND", "DISCONNECT_IND"}
        /\ up \in BOOLEAN /\ no \in BOOLEAN
    OBVIOUS
  <2>2. \/ Becomes(m.id, c, <<<<ty, up, 0>>, <<ty2, up, 0>>>>)
        \/ Becomes(m.id, d, <<<<tz, no, 0>>, <<tz2, no, 0>>>>)
    BY <1>8
  <2>3. m.type \in {"DISCONNECTB3_REQ", "DISCONNECT_REQ"}
    BY <1>8
  <2> HIDE DEF c, d, ty, ty2, tz, tz2, up, no
  <2>4. CASE Becomes(m.id, c, <<<<ty, up, 0>>, <<ty2, up, 0>>>>)
    <3>1. /\ IInv /\ Takes1(m, r) /\ m.type \in {"DISCONNECTB3_REQ", "DISCONNECT_REQ"} /\ listens' = listens
          /\ c \in {[At(m.id, "b3down") EXCEPT !.unconf = 0], At(m.id, "clearing")}
          /\ ty \in {"DISCONNECTB3_CONF", "DISCONNECT_CONF"} /\ up \in BOOLEAN
          /\ ty2 \in {"DISCONNECTB3_IND", "DISCONNECT_IND"} /\ Becomes(m.id, c, <<<<ty, up, 0>>, <<ty2, up, 0>>>>)
      BY <1>1, <1>3, <2>1, <2>3, <2>4
    <3> QED  BY ONLY ZenonT(60), <3>1, DownTakes
  <2>5. CASE Becomes(m.id, d, <<<<tz, no, 0>>, <<tz2, no, 0>>>>)
    <3>1. /\ IInv /\ Takes1(m, r) /\ m.type \in {"DISCONNECTB3_REQ", "DISCONNECT_REQ"} /\ listens' = listens
          /\ d \in {[At(m.id, "b3down") EXCEPT !.unconf = 0], At(m.id, "clearing")}
          /\ tz \in {"DISCONNECTB3_CONF", "DISCONNECT_CONF"} /\ no \in BOOLEAN
          /\ tz2 \in {"DISCONNECTB3_IND", "DISCONNECT_IND"} /\ Becomes(m.id, d, <<<<tz, no, 0>>, <<tz2, no, 0>>>>)
      BY <1>1, <1>3, <2>1, <2>3, <2>5
    <3> QED  BY ONLY ZenonT(60), <3>1, DownTakes
  <2> QED  BY <2>2, <2>4, <2>5
<1> DEFINE c == At(i, line[i].st)
<1>9. ASSUME m.type # "CONNECT_REQ"
      PROVE  /\ c = line[m.id] /\ c \in Lines /\ c.appl = m.appl /\ (c.st \in {"dialling", "active"} => ~cfg.recv)
             /\ m.b3 \in BOOLEAN /\ Fine(m) /\ c.unconf \in Nat
  <2>1. /\ At(i, line[i].st) = line[i] /\ line[i] \in Lines /\ line[i].appl = m.appl
        /\ line[i].unconf \in Nat /\ m.b3 \in BOOLEAN
        /\ (line[i].st \in {"dialling", "active"} => ~cfg.recv)
        /\ Fine(m)
    <3> HIDE DEF i
    <3>1. i = m.id
      BY DEF i
    <3> QED  BY <1>1, <1>9, <3>1, AtIs
  <2> QED  BY <2>1
<1>10. CASE \/ /\ m.type = "DATAB3_REQ" /\ line[i].st # "b3up"
               /\ Becomes(i, At(i, line[i].st), <<<<"DATAB3_CONF", m.b3, 0>>>>)
            \/ /\ m.type = "DISCONNECTB3_REQ"
               /\ Becomes(i, At(i, line[i].st), <<<<"DISCONNECTB3_CONF", m.b3, 0>>>>)
            \/ /\ m.type = "DISCONNECT_REQ"
               /\ Becomes(i, At(i, line[i].st), <<<<"DISCONNECT_CONF", m.b3, 0>>>>)
  <2> DEFINE ty == IF m.type = "DATAB3_REQ" THEN "DATAB3_CONF"
                   ELSE IF m.type = "DISCONNECTB3_REQ" THEN "DISCONNECTB3_CONF" ELSE "DISCONNECT_CONF"
             b3 == m.b3
  <2>1. /\ m.type # "CONNECT_REQ" /\ ty \in {"DATAB3_CONF", "DISCONNECTB3_CONF", "DISCONNECT_CONF"}
        /\ Becomes(i, c, <<<<ty, b3, 0>>>>)
        /\ (ty = "DATAB3_CONF" <=> m.type = "DATAB3_REQ") /\ (ty = "DATAB3_CONF" => line[i].st # "b3up")
    BY <1>10
  <2>2. /\ c = line[m.id] /\ c \in Lines /\ c.appl = m.appl /\ (c.st \in {"dialling", "active"} => ~cfg.recv)
        /\ b3 \in BOOLEAN /\ Fine(m)
    BY <1>9, <2>1
  <2>3. (ty = "DATAB3_CONF" => b3 /\ m.type = "DATAB3_REQ") /\ (ty = "DATAB3_CONF" \/ m.type # "DATAB3_REQ")
        /\ (ty = "DATAB3_CONF" => c.st # "b3up") /\ Becomes(m.id, c, <<<<ty, b3, 0>>>>)
    BY <2>1, <2>2 DEF Fine
  <2> HIDE DEF ty, b3, c
  <2> QED  BY <1>1, <1>3, <2>1, <2>2, <2>3, SaysPlain
<1>11. CASE \/ /\ m.type = "DATAB3_REQ" /\ line[i].st = "b3up"
               /\ Becomes(i, [line[i] EXCEPT !.unconf = @ + 1], <<>>)
            \/ /\ m.type \in {"CONNECT_RESP", "CONNECTB3_RESP", "CONNECTB3_REQ", "CONNECTACTIVE_RESP",
                              "CONNECTB3ACTIVE_RESP", "DATAB3_RESP", "DISCONNECTB3_RESP", "DISCONNECT_RESP"}
               /\ Becomes(i, At(i, line[i].st), <<>>)
  <2> DEFINE d == [line[i] EXCEPT !.unconf = @ + 1]  u == IF m.type = "DATAB3_REQ" THEN d ELSE c
  <2>1. m.type # "CONNECT_REQ" /\ Becomes(m.id, u, <<>>)
    BY <1>11
  <2>2. /\ c = line[m.id] /\ c \in Lines /\ c.appl = m.appl /\ (c.st \in {"dialling", "active"} => ~cfg.recv)
        /\ c.unconf \in Nat
    BY <1>9, <2>1
  <2>3. d \in Lines /\ d.st = line[i].st /\ d.appl = line[i].appl /\ d.unconf = line[i].unconf + 1
    <3> DEFINE e == line[i]
    <3>1. e \in Lines
      BY <2>2
    <3> HIDE DEF e
    <3>2. /\ [e EXCEPT !.unconf = @ + 1] \in Lines /\ [e EXCEPT !.unconf = @ + 1].st = e.st
          /\ [e EXCEPT !.unconf = @ + 1].appl = e.appl /\ [e EXCEPT !.unconf = @ + 1].unconf = e.unconf + 1
      BY ONLY Zenon, <3>1, LineCounts
    <3> QED  BY <3>2 DEF e
  <2>4. c.unconf = line[m.id].unconf + 0
    BY <2>2
  <2> HIDE DEF c, d
  <2>5. /\ u \in Lines /\ u.appl = m.appl /\ (u.st \in {"dialling", "active"} => ~cfg.recv)
        /\ u.st = line[m.id].st /\ u.unconf = line[m.id].unconf + One(m.type = "DATAB3_REQ")
    <3>1. CASE m.type = "DATAB3_REQ"
      BY <2>2, <2>3, <3>1 DEF One
    <3>2. CASE m.type # "DATAB3_REQ"
      BY <2>2, <2>4, <3>2 DEF One
    <3> QED  BY <3>1, <3>2
  <2> HIDE DEF u
  <2> QED  BY <1>1, <1>3, <2>1, <2>5, SaysNothing
<1> QED  BY SMTT(40), SMTT(41), ZenonT(30), <1>2, <1>4, <1>5, <1>6, <1>7, <1>8, <1>10, <1>11

--------------------------------------------------------------------------------
(* The brick moves of itself, or for the other side *)

\* The call becomes c of itself; the brick has nothing to take.
Stirs(i, c, no) ==
    /\ i \in CallIds /\ line[i].st # "free" /\ toBrick = no /\ no = <<>> /\ toBrick' = toBrick /\ listens' = listens
    /\ c \in Lines /\ c.appl = line[i].appl /\ (c.st \in {"dialling", "active"} => ~cfg.recv)

LEMMA StirsAble ==
    ASSUME IInv, NEW i, NEW c, NEW no, Stirs(i, c, no), NEW n, n = 0
    PROVE  Able(i, c, no, no) /\ toBrick' = no /\ listens' = listens /\ Weighs(cfg, i, no, n, n, n)
<1>1. /\ i \in CallIds /\ line[i].st # "free" /\ toBrick = no /\ toBrick' = toBrick
      /\ no \in Seq(Message) /\ DOMAIN no = {} /\ no \o no = no
  BY DEF Stirs
<1>2. no = <<>>
  BY DEF Stirs
<1>3. Weighs(cfg, i, no, n, n, n)
  BY <1>2, NoneNumber DEF Weighs
<1>4. /\ Known(cfg, line, i, made, dialled) /\ made \in Nat /\ dialled \in Nat /\ line \in [CallIds -> Lines]
      /\ i \in Nat /\ i >= 1
  BY <1>1, WholeIn, Constants DEF Held
<1>5. line[i].appl \in 1 .. made /\ i \in 1 .. dialled
  <2>1. line[i] # Idle
    BY <1>1 DEF Idle
  <2>2. line[i].appl \in 0 .. made /\ line[i].appl # 0 /\ ~(i > dialled)
    BY <1>4, <2>1 DEF Known
  <2> QED  BY <1>4, <2>2
<1>6. Taking(toBrick, i, c, no, no)
  BY <1>1 DEF Taking
<1>7. Able(i, c, no, no)
  BY <1>1, <1>5, <1>6 DEF Able, Stirs
<1> QED  BY <1>1, <1>3, <1>7 DEF Stirs

LEMMA StirsOne ==
    ASSUME IInv, NEW i, NEW c, NEW no, Stirs(i, c, no), NEW n, n = 0, NEW ty, NEW b3,
           Becomes(i, c, <<<<ty, b3, n>>>>), Mild(cfg, ty, b3),
           Fair(line[i], c, One(ty \in TokTypes(cfg)), One(ty = "DATAB3_CONF"), n, n),
           Answered(One(ty \in DueTypes(cfg)), n)
    PROVE  IInv'
<1>1. Able(i, c, no, no) /\ toBrick' = no /\ listens' = listens /\ Weighs(cfg, i, no, n, n, n)
  BY StirsAble
<1>2. n \in Nat
  OBVIOUS
<1>3. /\ Becomes(i, c, <<<<ty, b3, n>>>>) /\ Mild(cfg, ty, b3)
      /\ Fair(line[i], c, One(ty \in TokTypes(cfg)), One(ty = "DATAB3_CONF"), n, n)
      /\ Answered(One(ty \in DueTypes(cfg)), n)
  OBVIOUS
<1> QED  BY ONLY IInv, <1>1, <1>2, <1>3, SaysOne

LEMMA StirsTwo ==
    ASSUME IInv, NEW i, NEW c, NEW no, Stirs(i, c, no), NEW n, n = 0, NEW ty, NEW ty2, NEW b3,
           Becomes(i, c, <<<<ty, b3, n>>, <<ty2, b3, n>>>>), Mild(cfg, ty, b3), Mild(cfg, ty2, b3),
           Fair(line[i], c, One(ty \in TokTypes(cfg)) + One(ty2 \in TokTypes(cfg)),
                One(ty = "DATAB3_CONF") + One(ty2 = "DATAB3_CONF"), n, n),
           Answered(One(ty \in DueTypes(cfg)) + One(ty2 \in DueTypes(cfg)), n)
    PROVE  IInv'
<1>1. Able(i, c, no, no) /\ toBrick' = no /\ listens' = listens /\ Weighs(cfg, i, no, n, n, n)
  BY StirsAble
<1>2. n \in Nat
  OBVIOUS
<1>3. /\ Becomes(i, c, <<<<ty, b3, n>>, <<ty2, b3, n>>>>) /\ Mild(cfg, ty, b3) /\ Mild(cfg, ty2, b3)
      /\ Fair(line[i], c, One(ty \in TokTypes(cfg)) + One(ty2 \in TokTypes(cfg)),
              One(ty = "DATAB3_CONF") + One(ty2 = "DATAB3_CONF"), n, n)
      /\ Answered(One(ty \in DueTypes(cfg)) + One(ty2 \in DueTypes(cfg)), n)
  OBVIOUS
<1> QED  BY ONLY IInv, <1>1, <1>2, <1>3, SaysTwo

LEMMA LineType ==
    ASSUME IInv, NEW i \in CallIds
    PROVE  /\ line[i] \in Lines /\ line[i].unconf \in Nat /\ cfg.recv \in BOOLEAN
           /\ line[i].st \in {"dialling", "active"} => ~cfg.recv
<1>1. line \in [CallIds -> Lines] /\ cfg.recv \in BOOLEAN /\ Known(cfg, line, i, made, dialled)
  BY WholeIn DEF Held
<1>2. line[i] \in Lines
  BY <1>1
<1> QED  BY <1>1, <1>2 DEF Known, Lines

LEMMA AtLine ==
    ASSUME IInv, NEW i \in CallIds, NEW st \in LineStates
    PROVE  /\ At(i, st) \in Lines /\ At(i, st).st = st /\ At(i, st).appl = line[i].appl
           /\ At(i, st).unconf = line[i].unconf
           /\ [At(i, st) EXCEPT !.unconf = 0] \in Lines /\ [At(i, st) EXCEPT !.unconf = 0].st = st
           /\ [At(i, st) EXCEPT !.unconf = 0].appl = line[i].appl /\ [At(i, st) EXCEPT !.unconf = 0].unconf = 0
<1> DEFINE d == line[i]  e == [d EXCEPT !.st = st]
<1>1. At(i, st) = e
  BY DEF At
<1>2. d \in Lines
  BY LineType
<1> HIDE DEF d
<1>3. /\ e \in Lines /\ e.st = st /\ e.appl = d.appl /\ e.unconf = d.unconf
      /\ [e EXCEPT !.unconf = 0] \in Lines /\ [e EXCEPT !.unconf = 0].st = st
      /\ [e EXCEPT !.unconf = 0].appl = d.appl /\ [e EXCEPT !.unconf = 0].unconf = 0
  BY ZenonT(60), <1>2, LineIs
<1> HIDE DEF e
<1> QED  BY <1>1, <1>3 DEF d

LEMMA MovesIs ==
    ASSUME NEW i \in CallIds, NEW c, NEW ms, Moves(i, c, ms), line[i].st # "free", c \in Lines,
           c.appl = line[i].appl, c.st \in {"dialling", "active"} => ~cfg.recv, NEW no, no = <<>>
    PROVE  Stirs(i, c, no) /\ Becomes(i, c, ms)
  BY DEF Moves, Stirs

LEMMA TakesKeeps == ASSUME IInv, NEW i \in CallIds, Takes(i) PROVE IInv'
<1> DEFINE st == "active"  c == At(i, st)  ty == "CONNECTACTIVE_IND"  b3 == FALSE  n == 0  no == <<>>
           ms == <<<<ty, b3, n>>>>
<1>1. /\ line[i].st = "dialling" /\ answered < cfg.answers /\ answered' = answered + 1 /\ Moves(i, c, ms)
  BY DEF Takes
<1>2. line[i].unconf \in Nat /\ cfg.recv \in BOOLEAN /\ ~cfg.recv
  BY <1>1, LineType
<1>3. c \in Lines /\ c.st = st /\ c.appl = line[i].appl /\ c.unconf = line[i].unconf
  <2>1. st \in LineStates
    BY DEF LineStates
  <2> HIDE DEF st
  <2> QED  BY <2>1, AtLine
<1>4. Stirs(i, c, no) /\ Becomes(i, c, <<<<ty, b3, n>>>>)
  <2>1. line[i].st # "free" /\ (c.st \in {"dialling", "active"} => ~cfg.recv) /\ no = <<>>
    BY <1>1, <1>2
  <2>2. Moves(i, c, ms) /\ c \in Lines /\ c.appl = line[i].appl
    BY <1>1, <1>3
  <2> HIDE DEF c, ms, no
  <2>3. Stirs(i, c, no) /\ Becomes(i, c, ms)
    BY <2>1, <2>2, MovesIs
  <2> QED  BY <2>3 DEF ms
<1>5. Mild(cfg, ty, b3)
  BY DEF Mild, Types
<1>6. One(ty \in TokTypes(cfg)) = 1 /\ One(ty = "DATAB3_CONF") = 0 /\ One(line[i].st = "dialling") = 1
      /\ One(c.st = "dialling") = 0
  BY <1>1, <1>2, <1>3, TokWeight DEF One
<1>7. Fair(line[i], c, One(ty \in TokTypes(cfg)), One(ty = "DATAB3_CONF"), n, n)
  BY <1>2, <1>3, <1>6 DEF Fair
<1>8. Answered(One(ty \in DueTypes(cfg)), n)
  BY <1>1, <1>2 DEF Answered
<1>9. n = 0
  OBVIOUS
<1> HIDE DEF st, c, ty, b3, n, no
<1> QED  BY ONLY IInv, <1>4, <1>5, <1>7, <1>8, <1>9, StirsOne

\* A block goes out, or comes in with one.
LEMMA PlayKeeps == ASSUME IInv, NEW i \in CallIds, Play(i) \/ Speak(i) PROVE IInv'
<1> DEFINE d == line[i]  c == [d EXCEPT !.unconf = @ - 1, !.played = @ + 1]  ty == "DATAB3_CONF"  tx == "DATAB3_IND"
           b3 == TRUE  n == 0  no == <<>>  ms == <<<<ty, b3, n>>>>  mz == <<<<tx, b3, n>>, <<ty, b3, n>>>>
<1>1. /\ line[i].st = "b3up" /\ line[i].unconf > 0 /\ answered' = answered
      /\ Moves(i, c, ms) \/ Moves(i, c, mz)
  BY DEF Play, Speak
<1>2. line[i] \in Lines /\ line[i].unconf \in Nat /\ cfg.recv \in BOOLEAN
  BY LineType
<1>3. c \in Lines /\ c.st = "b3up" /\ c.appl = line[i].appl /\ c.unconf = line[i].unconf - 1
  <2>1. d \in Lines /\ d.unconf > 0 /\ d.st = "b3up"
    BY <1>1, <1>2
  <2> HIDE DEF d
  <2>2. c \in Lines /\ c.st = d.st /\ c.appl = d.appl /\ c.unconf = d.unconf - 1
    BY ONLY Zenon, <2>1, LineCounts
  <2> QED  BY <2>1, <2>2 DEF d
<1>4. Stirs(i, c, no) /\ (Becomes(i, c, ms) \/ Becomes(i, c, mz))
  <2>1. line[i].st # "free" /\ (c.st \in {"dialling", "active"} => ~cfg.recv) /\ no = <<>>
    BY <1>1, <1>3
  <2>2. (Moves(i, c, ms) \/ Moves(i, c, mz)) /\ c \in Lines /\ c.appl = line[i].appl
    BY <1>1, <1>3
  <2> HIDE DEF c, ms, mz, no
  <2> QED  BY <2>1, <2>2, MovesIs
<1>5. Mild(cfg, ty, b3) /\ Mild(cfg, tx, b3)
  BY DEF Mild, Types
<1>6. /\ One(ty \in TokTypes(cfg)) = 0 /\ One(tx \in TokTypes(cfg)) = 0 /\ One(ty = "DATAB3_CONF") = 1
      /\ One(tx = "DATAB3_CONF") = 0 /\ One(ty \in DueTypes(cfg)) = 0 /\ One(tx \in DueTypes(cfg)) = 0
      /\ One(line[i].st = "dialling") = 0 /\ One(c.st = "dialling") = 0
  BY <1>1, <1>2, <1>3, TokWeight DEF One
<1>7. /\ Fair(line[i], c, One(ty \in TokTypes(cfg)), One(ty = "DATAB3_CONF"), n, n)
      /\ Fair(line[i], c, One(tx \in TokTypes(cfg)) + One(ty \in TokTypes(cfg)),
              One(tx = "DATAB3_CONF") + One(ty = "DATAB3_CONF"), n, n)
  BY <1>1, <1>2, <1>3, <1>6 DEF Fair
<1>8. /\ Answered(One(ty \in DueTypes(cfg)), n)
      /\ Answered(One(tx \in DueTypes(cfg)) + One(ty \in DueTypes(cfg)), n)
  BY <1>1, <1>6 DEF Answered
<1>9. n = 0 /\ (Becomes(i, c, <<<<ty, b3, n>>>>) \/ Becomes(i, c, <<<<tx, b3, n>>, <<ty, b3, n>>>>))
  BY <1>4
<1>10. Stirs(i, c, no)
  BY <1>4
<1> HIDE DEF d, c, ty, tx, b3, n, no, ms, mz
<1>11. CASE Becomes(i, c, <<<<ty, b3, n>>>>)
  BY ONLY IInv, <1>5, <1>7, <1>8, <1>9, <1>10, <1>11, StirsOne
<1>12. CASE Becomes(i, c, <<<<tx, b3, n>>, <<ty, b3, n>>>>)
  BY ONLY IInv, <1>5, <1>7, <1>8, <1>9, <1>10, <1>12, StirsTwo
<1> QED  BY <1>9, <1>11, <1>12

LEMMA HangUpKeeps == ASSUME IInv, NEW i \in CallIds, HangUp(i) PROVE IInv'
<1> DEFINE st == "b3down"  sd == "clearing"  e == [At(i, st) EXCEPT !.unconf = 0]  f == At(i, sd)
           ty == "DISCONNECTB3_IND"  tz == "DISCONNECT_IND"  up == TRUE  dn == FALSE  n == 0  no == <<>>
           ms == <<<<ty, up, n>>>>  mz == <<<<tz, dn, n>>>>
<1>1. /\ line[i].st # "free" /\ answered' = answered
      /\ Moves(i, e, ms) \/ Moves(i, f, mz)
  BY DEF HangUp
<1>2. line[i].unconf \in Nat /\ cfg.recv \in BOOLEAN
  BY LineType
<1>3. /\ e \in Lines /\ e.st = st /\ e.appl = line[i].appl /\ e.unconf = 0
      /\ f \in Lines /\ f.st = sd /\ f.appl = line[i].appl /\ f.unconf = line[i].unconf
  <2>1. st \in LineStates /\ sd \in LineStates
    BY DEF LineStates
  <2> HIDE DEF st, sd
  <2>2. e \in Lines /\ e.st = st /\ e.appl = line[i].appl /\ e.unconf = 0
    BY <2>1, AtLine
  <2>3. f \in Lines /\ f.st = sd /\ f.appl = line[i].appl /\ f.unconf = line[i].unconf
    BY <2>1, AtLine
  <2> QED  BY <2>2, <2>3
<1>4. \/ Stirs(i, e, no) /\ Becomes(i, e, ms)
      \/ Stirs(i, f, no) /\ Becomes(i, f, mz)
  <2>1. /\ line[i].st # "free" /\ (e.st \in {"dialling", "active"} => ~cfg.recv) /\ no = <<>>
        /\ (f.st \in {"dialling", "active"} => ~cfg.recv)
    BY <1>1, <1>3
  <2>2. /\ Moves(i, e, ms) \/ Moves(i, f, mz)
        /\ e \in Lines /\ e.appl = line[i].appl /\ f \in Lines /\ f.appl = line[i].appl
    BY <1>1, <1>3
  <2> HIDE DEF e, f, ms, mz, no
  <2> QED  BY <2>1, <2>2, MovesIs
<1>5. Mild(cfg, ty, up) /\ Mild(cfg, tz, dn)
  BY DEF Mild, Types
<1>6. /\ One(ty \in TokTypes(cfg)) = 0 /\ One(ty \in DueTypes(cfg)) = 0 /\ One(ty = "DATAB3_CONF") = 0
      /\ One(tz \in TokTypes(cfg)) = 0 /\ One(tz \in DueTypes(cfg)) = 0 /\ One(tz = "DATAB3_CONF") = 0
      /\ One(e.st = "dialling") = 0 /\ One(f.st = "dialling") = 0 /\ One(line[i].st = "dialling") \in {0, 1}
  BY <1>2, <1>3, TokWeight DEF One
<1>7. /\ Fair(line[i], e, One(ty \in TokTypes(cfg)), One(ty = "DATAB3_CONF"), n, n)
      /\ Fair(line[i], f, One(tz \in TokTypes(cfg)), One(tz = "DATAB3_CONF"), n, n)
  BY <1>2, <1>3, <1>6 DEF Fair
<1>8. Answered(One(ty \in DueTypes(cfg)), n) /\ Answered(One(tz \in DueTypes(cfg)), n)
  BY <1>1, <1>6 DEF Answered
<1>9. /\ n = 0
      /\ \/ Stirs(i, e, no) /\ Becomes(i, e, <<<<ty, up, n>>>>)
         \/ Stirs(i, f, no) /\ Becomes(i, f, <<<<tz, dn, n>>>>)
  BY <1>4
<1> HIDE DEF st, sd, e, f, ty, tz, up, dn, n, no, ms, mz
<1>10. CASE Stirs(i, e, no) /\ Becomes(i, e, <<<<ty, up, n>>>>)
  BY ONLY IInv, <1>5, <1>7, <1>8, <1>9, <1>10, StirsOne
<1>11. CASE Stirs(i, f, no) /\ Becomes(i, f, <<<<tz, dn, n>>>>)
  BY ONLY IInv, <1>5, <1>7, <1>8, <1>9, <1>11, StirsOne
<1> QED  BY <1>9, <1>10, <1>11

--------------------------------------------------------------------------------
(* The brick takes what is not about a call *)

\* What no longer is under way leaves the rest of it as it is.
LEMMA SameMost ==
    ASSUME NEW g, NEW t, NEW s, NEW s2, NEW l, NEW l2, NEW ls, NEW ls2, NEW an \in Nat, NEW sg \in Nat,
           Whole(g, t, s, l, ls, an, sg), NEW r \in Seq(Message), NEW u, u = Lastly(t, r),
           Inv(g, u, s2, l2), ls2 \subseteq 1 .. t.made, Heard(g, u, ls2),
           \A i \in CallIds : Turn(g, r, s2, l2, i) = 1 => Turn(g, t.ms, s, l, i) = 1,
           Due(g, r, s2, l2) \in SUBSET Due(g, t.ms, s, l)
    PROVE  Whole(g, u, s2, l2, ls2, an, sg)
<1>1. /\ Inv(g, t, s, l) /\ (t.appls # <<>> => Listened(g, t))
      /\ (~g.recv /\ sg = 0 => Chain(g, t, s, l)) /\ Bounded(g, t, s, l, an, sg)
  BY DEF Whole
<1>2. Structured(g, t) /\ Mailed(g, t, s, l) /\ t \in State
  BY <1>1 DEF Inv, Structured
<1>3. /\ u \in State /\ u.ms = r /\ u.appls = t.appls /\ u.pollfds = t.pollfds
      /\ u.made = t.made /\ u.dialled = t.dialled /\ t.made \in Nat /\ t.dialled \in Nat
  BY <1>2, LastlyIs, StateIn
<1>4. Listened(g, t) => Listened(g, u)
  BY <1>3 DEF Listened
<1>5. ASSUME Chain(g, t, s, l)  PROVE Chain(g, u, s2, l2)
  <2>1. SameFrame(t, u)
    BY <1>3 DEF SameFrame
  <2>2. \A k \in DOMAIN t.appls : \A j \in DOMAIN t.appls[k].calls : t.appls[k].calls[j].id \in CallIds
    <3>1. ASSUME NEW k \in DOMAIN t.appls, NEW j \in DOMAIN t.appls[k].calls
          PROVE  t.appls[k].calls[j].id \in 1 .. t.dialled
      BY <1>2, <3>1 DEF Structured, ApplRight, CallRight
    <3> QED  BY <1>2, <3>1, MailedIn
  <2>3. \A j \in CallIds : Turn(g, u.ms, s2, l2, j) = 1 => Turn(g, t.ms, s, l, j) = 1
    BY <1>3
  <2> QED  BY <1>5, <2>1, <2>2, <2>3, ChainKept
<1>6. Due(g, u.ms, s2, l2) \in SUBSET Due(g, t.ms, s, l)
  BY <1>3
<1>7. Bounded(g, u, s2, l2, an, sg)
  BY <1>1, <1>3, <1>6, BoundedKept
<1> QED  BY <1>1, <1>3, <1>4, <1>5, <1>7 DEF Whole

LEMMA TakesWhole ==
    ASSUME IInv, NEW r, Whole(cfg, Lastly(Program, r), toProg', line', listens', answered, signals),
           toBrick' = r, toBrick # <<>>, UNCHANGED <<pc, cfg, prog, at, signals>>, answered' = answered
    PROVE  IInv'
<1> DEFINE u == Lastly(Program, r)
<1>1. /\ pc' = pc /\ cfg' = cfg /\ appls' = appls /\ pollfds' = pollfds /\ made' = made /\ dialled' = dialled
      /\ at' = at /\ signals' = signals
  BY DEF prog
<1>2. Program' = u
  <2>1. Program' = [appls |-> appls, pollfds |-> pollfds, made |-> made, dialled |-> dialled, ms |-> r]
    BY <1>1 DEF Program
  <2>2. u = [appls |-> appls, pollfds |-> pollfds, made |-> made, dialled |-> dialled, ms |-> r]
    BY DEF Lastly, Program
  <2> QED  BY <2>1, <2>2
<1>3. Control'
  BY <1>1 DEF IInv, Control
<1>4. Whole(cfg, Program, toProg, line, listens, answered, signals)'
  BY <1>1, <1>2
<1> QED  BY <1>3, <1>4 DEF IInv

Dropped(s, a) == [s EXCEPT ![a] = <<>>]
Freed(l, a) == [n \in CallIds |-> IF l[n].appl = a THEN Idle ELSE l[n]]

LEMMA DroppedIs ==
    ASSUME NEW s, NEW l, Held(s, l), NEW a \in ApplIds, NEW s2, s2 = Dropped(s, a), NEW l2, l2 = Freed(l, a)
    PROVE  /\ Held(s2, l2)
           /\ \A i \in CallIds : /\ l[i].appl = a => l2[i] = Idle /\ In(s2, l2, i) = <<>>
                                 /\ l[i].appl # a => l2[i] = l[i] /\ In(s2, l2, i) = In(s, l, i)
           /\ s2[a] = <<>> /\ \A b \in ApplIds : b # a => s2[b] = s[b]
<1>1. /\ s \in [ApplIds -> Seq(Message)] /\ l \in [CallIds -> Lines]
      /\ \A i \in CallIds : l[i].appl \in ApplIds \cup {0}
  BY DEF Held
<1>2. s2 \in [ApplIds -> Seq(Message)] /\ s2[a] = <<>> /\ \A b \in ApplIds : b # a => s2[b] = s[b]
  BY <1>1 DEF Dropped
<1>3. Idle \in Lines /\ Idle.appl = 0
  BY DEF Idle, Lines, LineStates
<1>4. \A i \in CallIds : l2[i] = IF l[i].appl = a THEN Idle ELSE l[i]
  BY DEF Freed
<1>5. l2 \in [CallIds -> Lines]
  <2>1. \A i \in CallIds : (IF l[i].appl = a THEN Idle ELSE l[i]) \in Lines
    BY <1>1, <1>3
  <2> QED  BY <2>1 DEF Freed
<1>6. \A i \in CallIds : l2[i].appl \in ApplIds \cup {0}
  BY <1>1, <1>3, <1>4
<1>7. Held(s2, l2)
  BY <1>2, <1>5, <1>6 DEF Held
<1>8. ASSUME NEW i \in CallIds, l[i].appl = a
      PROVE  l2[i] = Idle /\ In(s2, l2, i) = <<>>
  BY <1>3, <1>4, <1>8 DEF In
<1>9. ASSUME NEW i \in CallIds, l[i].appl # a
      PROVE  l2[i] = l[i] /\ In(s2, l2, i) = In(s, l, i)
  <2>1. l2[i] = l[i]
    BY <1>4, <1>9
  <2>2. CASE l[i].appl = 0
    BY <2>1, <2>2 DEF In
  <2>3. CASE l[i].appl # 0
    BY <1>1, <1>2, <1>9, <2>1, <2>3 DEF In
  <2> QED  BY <2>1, <2>2, <2>3
<1> QED  BY <1>2, <1>7, <1>8, <1>9

\* The message is about no call: the rest has as many about one.
LEMMA RestCounts ==
    ASSUME NEW q \in Seq(Message), NEW m, NEW r, IsFirst(q, m, r), m.id = 0, NEW i \in CallIds, NEW T, AboutCall(T, i)
    PROVE  Number(q, T) = Number(r, T)
<1>1. Number(q, T) = One(m \in T) + Number(r, T) /\ Number(r, T) \in Nat
  BY FirstIs
<1>2. m \notin T
  BY Constants DEF AboutCall
<1> QED  BY <1>1, <1>2 DEF One

LEMMA RestTurns ==
    ASSUME NEW g, NEW q \in Seq(Message), NEW m, NEW r, IsFirst(q, m, r), m.id = 0, NEW s, NEW l, Held(s, l),
           NEW i \in CallIds
    PROVE  /\ Turn(g, r, s, l, i) = Turn(g, q, s, l, i) /\ Unread(r, s, l, i) = Unread(q, s, l, i)
           /\ Number(r, Dues(g, i)) = Number(q, Dues(g, i))
<1>1. r \in Seq(Message)
  BY FirstIs
<1> DEFINE D == "DATAB3_REQ"
<1>2. AboutCall(Toks(g, i), i) /\ AboutCall(Typed(i, D), i) /\ AboutCall(Dues(g, i), i)
  BY AboutCalls
<1>3. /\ Number(r, Toks(g, i)) = Number(q, Toks(g, i)) /\ Number(r, Typed(i, D)) = Number(q, Typed(i, D))
      /\ Number(r, Dues(g, i)) = Number(q, Dues(g, i))
  BY <1>2, RestCounts
<1> QED  BY <1>3 DEF Turn, Unread

Releases(q, m, r) == q = <<m>> /\ r = <<>> /\ m.type = "RELEASE" /\ m.id = 0 /\ m \in Message

LEMMA ReleaseCounts ==
    ASSUME NEW g, NEW q, NEW m, NEW r, Releases(q, m, r), NEW s, NEW l, Held(s, l), NEW a \in ApplIds,
           NEW s2, s2 = Dropped(s, a), NEW l2, l2 = Freed(l, a), NEW i \in CallIds
    PROVE  /\ l[i].appl # a => /\ Turn(g, r, s2, l2, i) = Turn(g, q, s, l, i)
                               /\ Unread(r, s2, l2, i) = Unread(q, s, l, i)
                               /\ In(s2, l2, i) = In(s, l, i) /\ l2[i] = l[i]
           /\ l[i].appl = a => Turn(g, r, s2, l2, i) = 0 /\ Unread(r, s2, l2, i) = 0
           /\ Number(r, Dues(g, i)) + Number(In(s2, l2, i), Dues(g, i)) > 0 =>
                 Number(q, Dues(g, i)) + Number(In(s, l, i), Dues(g, i)) > 0
<1>1. q \in Seq(Message) /\ r \in Seq(Message) /\ IsFirst(q, m, r)
  BY DEF Releases, IsFirst
<1>2. m.id = 0
  BY DEF Releases
<1>3. /\ Turn(g, r, s, l, i) = Turn(g, q, s, l, i) /\ Unread(r, s, l, i) = Unread(q, s, l, i)
      /\ Number(r, Dues(g, i)) = Number(q, Dues(g, i))
  BY SMTT(40), SMTT(41), ZenonT(30), <1>1, <1>2, RestTurns
<1>4. /\ l[i].appl = a => l2[i] = Idle /\ In(s2, l2, i) = <<>>
      /\ l[i].appl # a => l2[i] = l[i] /\ In(s2, l2, i) = In(s, l, i)
  BY DroppedIs
<1>5. ASSUME l[i].appl # a
      PROVE  /\ Turn(g, r, s2, l2, i) = Turn(g, q, s, l, i) /\ Unread(r, s2, l2, i) = Unread(q, s, l, i)
             /\ In(s2, l2, i) = In(s, l, i) /\ l2[i] = l[i]
  BY <1>3, <1>4, <1>5 DEF Turn, Unread
<1>6. ASSUME l[i].appl = a
      PROVE  /\ Turn(g, r, s2, l2, i) = 0 /\ Unread(r, s2, l2, i) = 0
             /\ Number(r, Dues(g, i)) = 0 /\ Number(In(s2, l2, i), Dues(g, i)) = 0
  <2>1. r = <<>> /\ In(s2, l2, i) = <<>> /\ l2[i] = Idle
    BY <1>4, <1>6 DEF Releases
  <2>2. \A T : Number(r, T) = 0 /\ Number(In(s2, l2, i), T) = 0
    BY <2>1, NoneNumber
  <2>3. One(l2[i].st = "dialling") = 0 /\ l2[i].unconf = 0
    BY <2>1 DEF Idle, One
  <2> QED  BY <2>2, <2>3 DEF Turn, Unread
<1> QED  BY <1>3, <1>5, <1>6

LEMMA ReleaseMailed ==
    ASSUME NEW g, NEW t, NEW s, NEW l, Structured(g, t), Mailed(g, t, s, l), NEW r, r = <<>>,
           NEW a \in ApplIds, NEW s2, s2 = Dropped(s, a), NEW l2, l2 = Freed(l, a)
    PROVE  Mailed(g, Lastly(t, r), s2, l2)
<1> DEFINE u == Lastly(t, r)
<1>1. /\ Held(s, l) /\ t \in State /\ r \in Seq(Message) /\ DOMAIN r = {}
      /\ (\A j \in 1 .. t.dialled : j \in CallIds) /\ t.made \in Nat /\ t.dialled \in Nat
  <2>1. t \in State /\ Held(s, l) /\ (\A j \in 1 .. t.dialled : j \in CallIds) /\ t.made \in Nat /\ t.dialled \in Nat
    BY MailedIn
  <2>2. r \in Seq(Message) /\ DOMAIN r = {}
    OBVIOUS
  <2> QED  BY <2>1, <2>2
<1>2. u.ms = r /\ u.made = t.made /\ u.dialled = t.dialled
  BY <1>1, LastlyIs
<1>3. Held(s2, l2) /\ s2[a] = <<>> /\ \A b \in ApplIds : b # a => s2[b] = s[b]
  BY <1>1, DroppedIs
<1>4. \A i \in CallIds : (l[i].appl = a => l2[i] = Idle) /\ (l[i].appl # a => l2[i] = l[i])
  BY <1>1, DroppedIs
<1> HIDE DEF u
<1>5. ASSUME NEW b \in ApplIds, NEW n \in DOMAIN s2[b]
      PROVE  Posted(g, s2[b][n], b, l2, t.dialled)
  <2>1. b # a
    <3>1. ASSUME b = a  PROVE FALSE
      <4>1. DOMAIN s2[b] = {}
        BY <1>3, <3>1
      <4> QED  BY <1>5, <4>1
    <3> QED  BY <3>1
  <2>2. s2[b] = s[b]
    BY <1>3, <2>1
  <2> DEFINE m == s2[b][n]
  <2>3. Posted(g, m, b, l, t.dialled)
    BY <1>5, <2>2 DEF Mailed
  <2>4. ASSUME m.id # 0  PROVE l2[m.id].appl = b
    <3>1. m.id \in 0 .. t.dialled /\ l[m.id].appl = b
      BY <2>3, <2>4 DEF Posted
    <3>2. m.id \in CallIds
      BY <1>1, <2>4, <3>1
    <3> QED  BY <1>4, <2>1, <3>1, <3>2
  <2> HIDE DEF m
  <2>5. Posted(g, m, b, l2, t.dialled)
    BY <2>3, <2>4 DEF Posted
  <2> QED  BY <2>5 DEF m
<1>6. ASSUME NEW i \in CallIds
      PROVE  Known(g, l2, i, t.made, t.dialled)
  <2>1. CASE l[i].appl = a
    <3>1. l2[i] = Idle
      BY <1>4, <2>1
    <3> QED  BY <1>1, <3>1 DEF Known, Idle
  <2>2. CASE l[i].appl # a
    <3>1. l2[i] = l[i] /\ Known(g, l, i, t.made, t.dialled)
      BY <1>4, <2>2 DEF Mailed
    <3> QED  BY <3>1 DEF Known
  <2> QED  BY <2>1, <2>2
<1>7. \A n \in DOMAIN u.ms : Asked(g, u.ms[n], l2, u.made, u.dialled)
  BY <1>1, <1>2
<1>8. s2 \in [ApplIds -> Seq(Message)] /\ l2 \in [CallIds -> Lines]
  BY <1>3 DEF Held
<1> QED  BY <1>2, <1>5, <1>6, <1>7, <1>8 DEF Mailed, u

LEMMA ReleaseInv ==
    ASSUME NEW g, NEW t, NEW s, NEW l, Inv(g, t, s, l), NEW m, NEW r, Releases(t.ms, m, r),
           NEW a \in ApplIds, a = m.appl, NEW s2, s2 = Dropped(s, a), NEW l2, l2 = Freed(l, a)
    PROVE  Inv(g, Lastly(t, r), s2, l2)
<1> DEFINE u == Lastly(t, r)  q == t.ms
<1>1. /\ Structured(g, t) /\ Mailed(g, t, s, l) /\ Released(t) /\ Turns(g, t, s, l) /\ Fits(g, t, s, l)
      /\ t \in State
  BY DEF Inv, Structured
<1>2. r \in Seq(Message) /\ DOMAIN r = {} /\ Releases(q, m, r) /\ r = <<>>
  BY DEF Releases
<1>3. /\ u.ms = r /\ u.appls = t.appls /\ u.pollfds = t.pollfds /\ u.made = t.made /\ u.dialled = t.dialled
  BY <1>1, <1>2, LastlyIs
<1>4. Held(s, l) /\ \A j \in 1 .. t.dialled : j \in CallIds
  BY <1>1, MailedIn
<1> HIDE DEF u
<1>5. Structured(g, u)
  BY <1>1, <1>2, LastlyStructured DEF u
<1>6. Mailed(g, u, s2, l2)
  BY <1>1, <1>2, ReleaseMailed DEF u
<1>7. Released(u)
  BY <1>2, <1>3 DEF Released
<1>8. q = <<m>> /\ m.type = "RELEASE"
  BY <1>2 DEF Releases
<1> HIDE DEF q
<1>9. \A i \in CallIds :
         /\ l[i].appl # a => /\ Turn(g, r, s2, l2, i) = Turn(g, q, s, l, i)
                             /\ Unread(r, s2, l2, i) = Unread(q, s, l, i)
                             /\ In(s2, l2, i) = In(s, l, i) /\ l2[i] = l[i]
         /\ l[i].appl = a => Turn(g, r, s2, l2, i) = 0 /\ Unread(r, s2, l2, i) = 0
  <2>1. Releases(q, m, r) /\ Held(s, l) /\ s2 = Dropped(s, a) /\ l2 = Freed(l, a) /\ a \in ApplIds
    BY <1>2, <1>4
  <2>2. ASSUME NEW i \in CallIds
        PROVE  /\ l[i].appl # a => /\ Turn(g, r, s2, l2, i) = Turn(g, q, s, l, i)
                                   /\ Unread(r, s2, l2, i) = Unread(q, s, l, i)
                                   /\ In(s2, l2, i) = In(s, l, i) /\ l2[i] = l[i]
               /\ l[i].appl = a => Turn(g, r, s2, l2, i) = 0 /\ Unread(r, s2, l2, i) = 0
    BY ONLY <2>1, i \in CallIds, ReleaseCounts
  <2> QED  BY <2>2
<1>10. Turns(g, u, s2, l2)
  <2>1. \A i \in CallIds : Turn(g, q, s, l, i) <= 1 /\ (Turn(g, q, s, l, i) = 1 => Unread(q, s, l, i) = 0)
    BY <1>1 DEF Turns, q
  <2>2. ASSUME NEW i \in CallIds
        PROVE  Turn(g, r, s2, l2, i) <= 1 /\ (Turn(g, r, s2, l2, i) = 1 => Unread(r, s2, l2, i) = 0)
    BY <1>9, <2>1
  <2> QED  BY <1>3, <2>2 DEF Turns
<1>11. Fits(g, u, s2, l2)
  <2>1. ASSUME NEW k \in DOMAIN t.appls, NEW j \in DOMAIN t.appls[k].calls
        PROVE  Fit(g, r, s2, l2, t.appls[k].id, t.appls[k].calls[j])
    <3> DEFINE c == t.appls[k].calls[j]  i == c.id  b == t.appls[k].id
    <3>1. Fit(g, q, s, l, b, c) /\ i \in CallIds
      <4>1. Fit(g, q, s, l, b, c)
        BY <1>1 DEF Fits, q
      <4>2. i \in 1 .. t.dialled
        BY <1>1 DEF Structured, ApplRight, CallRight
      <4> QED  BY <1>4, <4>1, <4>2
    <3>2. b # a
      <4>1. 1 \in DOMAIN t.ms /\ t.ms[1].type = "RELEASE" /\ t.ms[1].appl = a
        BY SMTT(40), SMTT(41), ZenonT(30), <1>8 DEF q
      <4> QED  BY <1>1, <4>1 DEF Released
    <3>3. l[i].appl = b
      <4>1. \A n \in DOMAIN q : q[n].type # "CONNECT_REQ"
        BY <1>8
      <4> QED  BY <3>1, <4>1 DEF Fit
    <3>4. /\ Turn(g, r, s2, l2, i) = Turn(g, q, s, l, i) /\ Unread(r, s2, l2, i) = Unread(q, s, l, i)
          /\ In(s2, l2, i) = In(s, l, i) /\ l2[i] = l[i]
      BY <1>9, <3>1, <3>2, <3>3
    <3> HIDE DEF c, b
    <3>5. /\ Turn(g, q, s, l, c.id) = 1 => ~c.doSend /\ c.NotAcknowledged = 0
          /\ Unread(q, s, l, c.id) <= c.NotAcknowledged
          /\ l[c.id].st = "b3up" => Unread(q, s, l, c.id) = c.NotAcknowledged
          /\ Number(In(s, l, c.id), Typed(c.id, "CONNECT_IND")) = 0
      BY ONLY <3>1 DEF Fit
    <3>6. /\ l2[c.id].appl = b
          /\ Turn(g, r, s2, l2, c.id) = 1 => ~c.doSend /\ c.NotAcknowledged = 0
          /\ Unread(r, s2, l2, c.id) <= c.NotAcknowledged
          /\ l2[c.id].st = "b3up" => Unread(r, s2, l2, c.id) = c.NotAcknowledged
          /\ Number(In(s2, l2, c.id), Typed(c.id, "CONNECT_IND")) = 0
      BY ONLY <3>3, <3>4, <3>5
    <3>7. \/ l2[c.id].appl = b
          \/ \E n \in DOMAIN r : r[n].type = "CONNECT_REQ" /\ r[n].id = c.id /\ r[n].appl = b
      BY <3>6
    <3>8. Fit(g, r, s2, l2, b, c)
      BY <3>6, <3>7, Zenon DEF Fit
    <3> QED  BY <3>8 DEF b, c
  <2> QED  BY <1>3, <2>1 DEF Fits
<1> QED  BY <1>5, <1>6, <1>7, <1>10, <1>11 DEF Inv, u

LEMMA ReleaseHeard ==
    ASSUME NEW g, NEW t \in State, NEW m, NEW r, Releases(t.ms, m, r), Released(t), NEW a, a = m.appl,
           NEW ls, Heard(g, t, ls)
    PROVE  Heard(g, Lastly(t, r), ls \ {a})
<1> DEFINE u == Lastly(t, r)
<1>1. /\ r \in Seq(Message) /\ DOMAIN r = {} /\ t.ms = <<m>> /\ m.type = "RELEASE"
  BY DEF Releases
<1>2. u.ms = r /\ u.appls = t.appls
  BY <1>1, LastlyIs
<1>3. DOMAIN t.ms = {1} /\ t.ms[1] = m
  BY <1>1
<1> HIDE DEF u
<1>4. ASSUME NEW k \in DOMAIN t.appls, t.appls[k].listen
      PROVE  /\ g.recv /\ t.appls[k].active_calls < g.callperappl
             /\ t.appls[k].id \in ls \ {a}
  <2>1. /\ g.recv /\ t.appls[k].active_calls < g.callperappl
        /\ t.appls[k].id \in ls \/ \E n \in DOMAIN t.ms : Asks(t.ms[n], t.appls[k].id, 1)
    BY <1>4 DEF Heard
  <2>2. ~Asks(m, t.appls[k].id, 1)
    BY <1>1 DEF Asks
  <2>3. t.appls[k].id # a
    BY <1>1, <1>3 DEF Released
  <2> QED  BY <1>3, <2>1, <2>2, <2>3
<1> QED  BY <1>1, <1>2, <1>4 DEF Heard, u

LEMMA ReleaseTakes ==
    ASSUME IInv, BrickTakes, NEW m, m = Head(toBrick), m.type = "RELEASE"
    PROVE  IInv'
<1> DEFINE r == Tail(toBrick)  t == Program  g == cfg  s == toProg  l == line  q == toBrick
           s2 == toProg'  l2 == line'  ls2 == listens'  a == m.appl
<1>1. /\ toBrick # <<>> /\ toBrick' = r /\ listens' = listens \ {a} /\ toProg' = Dropped(toProg, a)
      /\ line' = Freed(line, a) /\ UNCHANGED <<pc, cfg, prog, at, signals>> /\ answered' = answered
  BY Zenon DEF BrickTakes, Dropped, Freed
<1>2. /\ Whole(g, t, s, l, listens, answered, signals) /\ answered \in Nat /\ signals \in Nat
      /\ Inv(g, t, s, l) /\ t.ms = q
  BY DEF IInv, Control, Whole, Program
<1>3. /\ Structured(g, t) /\ Mailed(g, t, s, l) /\ Released(t) /\ t \in State
  BY <1>2 DEF Inv, Structured
<1>4. /\ q \in Seq(Message) /\ made \in Nat /\ Held(s, l)
      /\ \A n \in DOMAIN q : Asked(g, q[n], line, made, dialled)
  BY WholeIn
<1>5. IsFirst(q, m, r)
  BY <1>1 DEF IsFirst
<1> HIDE DEF r
<1>6. m \in Message /\ 1 \in DOMAIN q /\ q[1] = m /\ Len(q) = Len(r) + 1 /\ r \in Seq(Message) /\ q = <<m>> \o r
      /\ Len(r) \in Nat
  BY <1>4, <1>5, FirstIs
<1>7. m.id = 0 /\ m.appl \in 1 .. made
  BY <1>4, <1>6 DEF Asked
<1>8. Len(q) = 1
  BY <1>2, <1>3, <1>6 DEF Released
<1>9. r = <<>> /\ q = <<m>>
  <2>1. Len(r) = 0
    BY <1>6, <1>8
  <2>2. r = <<>>
    BY <1>6, <2>1
  <2> QED  BY <1>6, <2>2
<1>10. Releases(q, m, r)
  BY <1>6, <1>7, <1>9 DEF Releases
<1>11. a \in ApplIds
  BY <1>3, <1>7, MailedIn DEF Program
<1> HIDE DEF t, g, s, l, q, s2, l2, ls2, a
<1>12. Releases(t.ms, m, r) /\ a = m.appl /\ s2 = Dropped(s, a) /\ l2 = Freed(l, a) /\ ls2 = listens \ {a}
  BY <1>1, <1>2, <1>10 DEF a, s2, l2, s, l, ls2
<1>13. Inv(g, Lastly(t, r), s2, l2)
  BY ONLY <1>2, <1>11, <1>12, ReleaseInv
<1>14. Heard(g, Lastly(t, r), ls2) /\ ls2 \subseteq 1 .. t.made
  <2>1. Heard(g, t, listens) /\ listens \subseteq 1 .. t.made
    BY <1>2 DEF Whole
  <2>2. Heard(g, Lastly(t, r), listens \ {a})
    BY ONLY <1>3, <1>12, <2>1, ReleaseHeard
  <2> QED  BY <1>12, <2>1, <2>2
<1>15. ASSUME NEW i \in CallIds
       PROVE  /\ Turn(g, r, s2, l2, i) = 1 => Turn(g, t.ms, s, l, i) = 1
              /\ Number(r, Dues(g, i)) + Number(In(s2, l2, i), Dues(g, i)) > 0 =>
                    Number(t.ms, Dues(g, i)) + Number(In(s, l, i), Dues(g, i)) > 0
  <2> DEFINE w == t.ms
  <2>1. Releases(w, m, r) /\ Held(s, l) /\ s2 = Dropped(s, a) /\ l2 = Freed(l, a) /\ a \in ApplIds
    BY <1>4, <1>11, <1>12
  <2> HIDE DEF w
  <2>2. /\ l[i].appl # a => Turn(g, r, s2, l2, i) = Turn(g, w, s, l, i)
        /\ l[i].appl = a => Turn(g, r, s2, l2, i) = 0
        /\ Number(r, Dues(g, i)) + Number(In(s2, l2, i), Dues(g, i)) > 0 =>
              Number(w, Dues(g, i)) + Number(In(s, l, i), Dues(g, i)) > 0
    BY ONLY <2>1, i \in CallIds, ReleaseCounts
  <2> QED  BY <2>2 DEF w
<1>16. Due(g, r, s2, l2) \in SUBSET Due(g, t.ms, s, l)
  BY <1>15 DEF Due
<1>17. \A i \in CallIds : Turn(g, r, s2, l2, i) = 1 => Turn(g, t.ms, s, l, i) = 1
  BY <1>15
<1>18. Whole(g, Lastly(t, r), s2, l2, ls2, answered, signals)
  <2> DEFINE u == Lastly(t, r)
  <2>1. /\ answered \in Nat /\ signals \in Nat /\ Whole(g, t, s, l, listens, answered, signals) /\ r \in Seq(Message)
        /\ u = Lastly(t, r) /\ Inv(g, u, s2, l2) /\ ls2 \subseteq 1 .. t.made /\ Heard(g, u, ls2)
    BY <1>2, <1>6, <1>13, <1>14
  <2> HIDE DEF u
  <2>2. Whole(g, u, s2, l2, ls2, answered, signals)
    BY ONLY <2>1, <1>16, <1>17, SameMost
  <2> QED  BY <2>1, <2>2
<1> QED  BY Zenon, <1>1, <1>18, TakesWhole DEF t, g, s2, l2, ls2

\* LISTEN_REQ is confirmed.
Subscribes(q, m, r, y) ==
    /\ IsFirst(q, m, r) /\ m.type = "LISTEN_REQ" /\ m.id = 0 /\ m.appl \in ApplIds
    /\ y \in Message /\ y.type = "LISTEN_CONF" /\ y.appl = m.appl /\ y.id = 0

Unmoved(g, q, r, s, s2, l) ==
    \A i \in CallIds :
        /\ Turn(g, r, s2, l, i) = Turn(g, q, s, l, i) /\ Unread(r, s2, l, i) = Unread(q, s, l, i)
        /\ Number(r, Dues(g, i)) = Number(q, Dues(g, i))
        /\ \A T : AboutCall(T, i) => Number(In(s2, l, i), T) = Number(In(s, l, i), T)

LEMMA ListenCounts ==
    ASSUME NEW g, NEW q \in Seq(Message), NEW m, NEW r, NEW y, Subscribes(q, m, r, y), NEW s, NEW l, Held(s, l),
           NEW a, a = m.appl, NEW x, x = <<y>>, NEW s2, s2 = Given(s, a, x)
    PROVE  Held(s2, l) /\ Unmoved(g, q, r, s, s2, l)
<1>1. /\ IsFirst(q, m, r) /\ m.id = 0 /\ a \in ApplIds /\ y \in Message /\ y.appl = a /\ y.id = 0
  BY DEF Subscribes
<1>2. x \in Seq(Message) /\ DOMAIN x = {1} /\ x[1] = y
  BY <1>1
<1>3. \A n \in DOMAIN x : x[n].appl = a /\ Belongs(x[n], l)
  BY <1>1, <1>2, Constants DEF Belongs
<1>4. ASSUME NEW i \in CallIds, NEW T, AboutCall(T, i)
      PROVE  Held(s2, l) /\ Number(In(s2, l, i), T) = Number(In(s, l, i), T)
  <2>1. Held(s2, l) /\ Number(In(s2, l, i), T) = Number(In(s, l, i), T) + Number(x, T)
    <3>1. l[i].appl = l[i].appl
      OBVIOUS
    <3>2. Held(s, l) /\ a \in ApplIds /\ x \in Seq(Message) /\ s2 = Given(s, a, x)
      BY <1>1, <1>2
    <3> QED  BY ONLY <1>3, <1>4, <3>1, <3>2, PostIn
  <2>2. y \notin T
    BY <1>1, <1>4, Constants DEF AboutCall
  <2>3. Number(x, T) = 0
    BY <2>2, NumberOne DEF One
  <2>4. Number(In(s, l, i), T) \in Nat
    <3>1. In(s, l, i) \in Seq(Message)
      BY InType
    <3> QED  BY <3>1, NumberType
  <2> QED  BY <2>1, <2>3, <2>4
<1>5. ASSUME NEW i \in CallIds
      PROVE  /\ Turn(g, r, s2, l, i) = Turn(g, q, s, l, i) /\ Unread(r, s2, l, i) = Unread(q, s, l, i)
             /\ Number(r, Dues(g, i)) = Number(q, Dues(g, i)) /\ Held(s2, l)
  <2> DEFINE D == "DATAB3_CONF"
  <2>1. AboutCall(Toks(g, i), i) /\ AboutCall(Typed(i, D), i)
    BY AboutCalls
  <2>2. /\ Number(In(s2, l, i), Toks(g, i)) = Number(In(s, l, i), Toks(g, i))
        /\ Number(In(s2, l, i), Typed(i, D)) = Number(In(s, l, i), Typed(i, D)) /\ Held(s2, l)
    BY <1>4, <2>1
  <2>3. /\ Turn(g, r, s, l, i) = Turn(g, q, s, l, i) /\ Unread(r, s, l, i) = Unread(q, s, l, i)
        /\ Number(r, Dues(g, i)) = Number(q, Dues(g, i))
    BY <1>1, RestTurns
  <2> QED  BY <2>2, <2>3 DEF Turn, Unread
<1>6. 1 \in CallIds
  BY Constants
<1> QED  BY <1>4, <1>5, <1>6 DEF Unmoved

LEMMA ListenMailed ==
    ASSUME NEW g, NEW t, NEW s, NEW l, Structured(g, t), Mailed(g, t, s, l), NEW m, NEW r, NEW y,
           Subscribes(t.ms, m, r, y), NEW a, a = m.appl, NEW x, x = <<y>>, NEW s2, s2 = Given(s, a, x)
    PROVE  Mailed(g, Lastly(t, r), s2, l)
<1> DEFINE u == Lastly(t, r)  q == t.ms
<1>1. /\ Held(s, l) /\ t \in State /\ q \in Seq(Message) /\ t.dialled \in Nat
  BY MailedIn
<1>2. IsFirst(q, m, r) /\ a \in ApplIds /\ y \in Message /\ y.type = "LISTEN_CONF" /\ y.appl = a /\ y.id = 0
  BY DEF Subscribes
<1>3. r \in Seq(Message) /\ \A n \in DOMAIN r : n + 1 \in DOMAIN q /\ q[n + 1] = r[n] /\ n \in Nat
  <2> HIDE DEF q
  <2> QED  BY <1>1, <1>2, FirstIs
<1>4. u.ms = r /\ u.made = t.made /\ u.dialled = t.dialled
  BY <1>1, <1>3, LastlyIs
<1> HIDE DEF u
<1>5. \A n \in DOMAIN r : Asked(g, r[n], l, t.made, t.dialled)
  BY <1>3 DEF Mailed
<1>6. /\ s \in [ApplIds -> Seq(Message)] /\ l \in [CallIds -> Lines] /\ x \in Seq(Message) /\ DOMAIN x = {1} /\ x[1] = y
  BY <1>1, <1>2 DEF Held
<1>7. s2 \in [ApplIds -> Seq(Message)] /\ s2[a] = s[a] \o x /\ \A b \in ApplIds : b # a => s2[b] = s[b]
  BY <1>2, <1>6 DEF Given
<1>8. ASSUME NEW b \in ApplIds, NEW n \in DOMAIN s2[b]
      PROVE  Posted(g, s2[b][n], b, l, t.dialled)
  <2>1. ASSUME NEW k \in DOMAIN s[b], s2[b][n] = s[b][k]
        PROVE  Posted(g, s2[b][n], b, l, t.dialled)
    BY <2>1 DEF Mailed
  <2>2. CASE b # a
    <3>1. s2[b] = s[b]
      BY <1>7, <2>2
    <3> QED  BY <1>8, <2>1, <3>1
  <2>3. CASE b = a
    <3> DEFINE z == s[a]
    <3>1. z \in Seq(Message) /\ s2[b] = z \o x
      BY <1>2, <1>6, <1>7, <2>3
    <3> HIDE DEF z
    <3>2. \/ n \in DOMAIN z /\ s2[b][n] = z[n]
          \/ s2[b][n] = x[n - Len(z)] /\ n - Len(z) \in DOMAIN x
      <4>1. n \in DOMAIN (z \o x)
        BY <1>8, <3>1
      <4>2. /\ \A k \in DOMAIN z : k \in DOMAIN (z \o x) /\ (z \o x)[k] = z[k]
            /\ \A k \in DOMAIN (z \o x) :
                  \/ k \in DOMAIN z
                  \/ k > Len(z) /\ k - Len(z) \in DOMAIN x /\ (z \o x)[k] = x[k - Len(z)]
        BY ONLY <1>6, <3>1, ConcatOf
      <4> QED  BY <3>1, <4>1, <4>2
    <3>3. CASE n \in DOMAIN z /\ s2[b][n] = z[n]
      BY <2>1, <2>3, <3>3 DEF z
    <3>4. CASE s2[b][n] = x[n - Len(z)] /\ n - Len(z) \in DOMAIN x
      <4>1. s2[b][n] = y
        BY <1>6, <3>4
      <4>2. 0 \in 0 .. t.dialled
        BY <1>1
      <4>3. Posted(g, y, b, l, t.dialled)
        BY <1>2, <2>3, <4>2 DEF Posted
      <4> QED  BY <4>1, <4>3
    <3> QED  BY <3>2, <3>3, <3>4
  <2> QED  BY <2>2, <2>3
<1>9. \A i \in CallIds : Known(g, l, i, t.made, t.dialled)
  BY DEF Mailed
<1> QED  BY <1>4, <1>5, <1>6, <1>7, <1>8, <1>9 DEF Mailed, u

LEMMA ListenInv ==
    ASSUME NEW g, NEW t, NEW s, NEW l, Inv(g, t, s, l), NEW m, NEW r, NEW y, Subscribes(t.ms, m, r, y),
           NEW a, a = m.appl, NEW x, x = <<y>>, NEW s2, s2 = Given(s, a, x)
    PROVE  Inv(g, Lastly(t, r), s2, l)
<1> DEFINE u == Lastly(t, r)  q == t.ms
<1>1. /\ Structured(g, t) /\ Mailed(g, t, s, l) /\ Released(t) /\ Turns(g, t, s, l) /\ Fits(g, t, s, l)
      /\ t \in State
  BY DEF Inv, Structured
<1>2. Held(s, l) /\ q \in Seq(Message) /\ \A j \in 1 .. t.dialled : j \in CallIds
  BY <1>1, MailedIn
<1>3. IsFirst(q, m, r) /\ Subscribes(q, m, r, y) /\ m.type = "LISTEN_REQ"
  BY DEF Subscribes
<1>4. /\ r \in Seq(Message) /\ \A n \in DOMAIN r : n + 1 \in DOMAIN q /\ q[n + 1] = r[n] /\ n \in Nat
      /\ Len(q) = Len(r) + 1 /\ Len(r) \in Nat /\ q[1] = m
      /\ \A n \in DOMAIN q : n # 1 => n - 1 \in DOMAIN r /\ r[n - 1] = q[n] /\ n \in Nat
  <2> HIDE DEF q
  <2> QED  BY ZenonT(60), <1>2, <1>3, FirstIs
<1>5. /\ u.ms = r /\ u.appls = t.appls /\ u.pollfds = t.pollfds /\ u.made = t.made /\ u.dialled = t.dialled
  BY <1>1, <1>4, LastlyIs
<1> HIDE DEF u
<1>6. Structured(g, u)
  BY <1>1, <1>4, LastlyStructured DEF u
<1>7. Mailed(g, u, s2, l)
  BY <1>1, ListenMailed DEF u
<1>8. Released(u)
  <2>1. ASSUME NEW n \in DOMAIN r, r[n].type = "RELEASE"
        PROVE  n = Len(r) /\ \A k \in DOMAIN t.appls : t.appls[k].id # r[n].appl
    <3>1. n + 1 = Len(q) /\ \A k \in DOMAIN t.appls : t.appls[k].id # r[n].appl
      BY <1>1, <1>4, <2>1 DEF Released
    <3> QED  BY <1>4, <3>1
  <2> QED  BY <1>5, <2>1 DEF Released
<1> HIDE DEF q
<1>9. /\ \A i \in CallIds :
            /\ Turn(g, r, s2, l, i) = Turn(g, q, s, l, i) /\ Unread(r, s2, l, i) = Unread(q, s, l, i)
            /\ \A T : AboutCall(T, i) => Number(In(s2, l, i), T) = Number(In(s, l, i), T)
  <2>1. Unmoved(g, q, r, s, s2, l)
    BY <1>2, <1>3, ListenCounts
  <2> QED  BY <2>1 DEF Unmoved
<1>10. Turns(g, u, s2, l)
  <2>1. \A i \in CallIds : Turn(g, q, s, l, i) <= 1 /\ (Turn(g, q, s, l, i) = 1 => Unread(q, s, l, i) = 0)
    BY <1>1 DEF Turns, q
  <2>2. ASSUME NEW i \in CallIds
        PROVE  Turn(g, r, s2, l, i) <= 1 /\ (Turn(g, r, s2, l, i) = 1 => Unread(r, s2, l, i) = 0)
    BY <1>9, <2>1
  <2> QED  BY <1>5, <2>2 DEF Turns
<1>11. Fits(g, u, s2, l)
  <2>1. ASSUME NEW k \in DOMAIN t.appls, NEW j \in DOMAIN t.appls[k].calls
        PROVE  Fit(g, r, s2, l, t.appls[k].id, t.appls[k].calls[j])
    <3> DEFINE c == t.appls[k].calls[j]  b == t.appls[k].id
    <3>1. Fit(g, q, s, l, b, c) /\ c.id \in CallIds
      <4>1. Fit(g, q, s, l, b, c)
        BY <1>1 DEF Fits, q
      <4>2. c.id \in 1 .. t.dialled
        BY <1>1 DEF Structured, ApplRight, CallRight
      <4> QED  BY <1>2, <4>1, <4>2
    <3> HIDE DEF c, b
    <3> DEFINE D == "CONNECT_IND"
    <3>2. AboutCall(Typed(c.id, D), c.id)
      BY AboutCalls
    <3>3. /\ Turn(g, r, s2, l, c.id) = Turn(g, q, s, l, c.id) /\ Unread(r, s2, l, c.id) = Unread(q, s, l, c.id)
          /\ Number(In(s2, l, c.id), Typed(c.id, D)) = Number(In(s, l, c.id), Typed(c.id, D))
      BY <1>9, <3>1, <3>2
    <3>4. \/ l[c.id].appl = b
          \/ \E n \in DOMAIN r : r[n].type = "CONNECT_REQ" /\ r[n].id = c.id /\ r[n].appl = b
      <4>1. CASE l[c.id].appl = b
        BY <4>1
      <4>2. ASSUME NEW n \in DOMAIN q, q[n].type = "CONNECT_REQ", q[n].id = c.id, q[n].appl = b
            PROVE  n - 1 \in DOMAIN r /\ r[n - 1].type = "CONNECT_REQ" /\ r[n - 1].id = c.id /\ r[n - 1].appl = b
        <5>1. n # 1
          BY <1>3, <1>4, <4>2
        <5> QED  BY <1>4, <4>2, <5>1
      <4>3. \/ l[c.id].appl = b
            \/ \E n \in DOMAIN q : q[n].type = "CONNECT_REQ" /\ q[n].id = c.id /\ q[n].appl = b
        BY <3>1 DEF Fit
      <4> QED  BY <4>1, <4>2, <4>3
    <3>5. /\ Turn(g, q, s, l, c.id) = 1 => ~c.doSend /\ c.NotAcknowledged = 0
          /\ Unread(q, s, l, c.id) <= c.NotAcknowledged
          /\ l[c.id].st = "b3up" => Unread(q, s, l, c.id) = c.NotAcknowledged
          /\ Number(In(s, l, c.id), Typed(c.id, "CONNECT_IND")) = 0
      BY ONLY <3>1 DEF Fit
    <3>6. /\ Turn(g, r, s2, l, c.id) = 1 => ~c.doSend /\ c.NotAcknowledged = 0
          /\ Unread(r, s2, l, c.id) <= c.NotAcknowledged
          /\ l[c.id].st = "b3up" => Unread(r, s2, l, c.id) = c.NotAcknowledged
          /\ Number(In(s2, l, c.id), Typed(c.id, "CONNECT_IND")) = 0
      BY ONLY <3>3, <3>5
    <3>8. Fit(g, r, s2, l, b, c)
      BY <3>4, <3>6, Zenon DEF Fit
    <3> QED  BY <3>8 DEF b, c
  <2> QED  BY <1>5, <2>1 DEF Fits
<1> QED  BY <1>6, <1>7, <1>8, <1>10, <1>11 DEF Inv, u

Listening(ls, m) == IF m.info = 1 THEN ls \cup {m.appl} ELSE ls \ {m.appl}

LEMMA ListenHeard ==
    ASSUME NEW g, NEW t \in State, NEW m, NEW r, NEW y, Subscribes(t.ms, m, r, y), NEW ls, Heard(g, t, ls)
    PROVE  Heard(g, Lastly(t, r), Listening(ls, m))
<1> DEFINE u == Lastly(t, r)  q == t.ms
<1>1. q \in Seq(Message) /\ IsFirst(q, m, r) /\ m.type = "LISTEN_REQ"
  BY StateIn DEF Subscribes
<1>2. /\ r \in Seq(Message) /\ \A n \in DOMAIN r : n + 1 \in DOMAIN q /\ q[n + 1] = r[n] /\ n \in Nat
      /\ 1 \in DOMAIN q /\ q[1] = m
      /\ \A n \in DOMAIN q : n # 1 => n - 1 \in DOMAIN r /\ r[n - 1] = q[n] /\ n \in Nat
  <2> HIDE DEF q
  <2> QED  BY <1>1, FirstIs
<1>3. u.ms = r /\ u.appls = t.appls
  BY <1>2, LastlyIs
<1> HIDE DEF u
<1>4. ASSUME NEW k \in DOMAIN t.appls, t.appls[k].listen
      PROVE  /\ g.recv /\ t.appls[k].active_calls < g.callperappl
             /\ \A n \in DOMAIN r : ~Asks(r[n], t.appls[k].id, 0)
             /\ t.appls[k].id \in Listening(ls, m) \/ \E n \in DOMAIN r : Asks(r[n], t.appls[k].id, 1)
  <2> DEFINE a == t.appls[k].id
  <2>1. /\ g.recv /\ t.appls[k].active_calls < g.callperappl
        /\ \A n \in DOMAIN q : ~Asks(q[n], a, 0)
        /\ a \in ls \/ \E n \in DOMAIN q : Asks(q[n], a, 1)
    BY <1>4 DEF Heard
  <2> HIDE DEF a, q
  <2>2. \A n \in DOMAIN r : ~Asks(r[n], a, 0)
    BY <1>2, <2>1
  <2>3. m.appl = a => m.info = 1
    BY <1>1, <1>2, <2>1 DEF Asks
  <2>4. Asks(m, a, 1) => m.appl = a
    BY DEF Asks
  <2>5. a \in Listening(ls, m) \/ \E n \in DOMAIN r : Asks(r[n], a, 1)
    <3>1. CASE a \in ls \/ m.appl = a
      BY <2>3, <3>1 DEF Listening
    <3>2. ASSUME NEW n \in DOMAIN q, Asks(q[n], a, 1), m.appl # a
          PROVE  n - 1 \in DOMAIN r /\ Asks(r[n - 1], a, 1)
      <4>1. n # 1
        BY <1>2, <2>4, <3>2
      <4> QED  BY <1>2, <3>2, <4>1
    <3> QED  BY <2>1, <3>1, <3>2
  <2> QED  BY <2>1, <2>2, <2>5 DEF a
<1> QED  BY <1>3, <1>4 DEF Heard, u

LEMMA ListenTakes ==
    ASSUME IInv, BrickTakes, NEW m, m = Head(toBrick), m.type = "LISTEN_REQ"
    PROVE  IInv'
<1> DEFINE r == Tail(toBrick)  t == Program  g == cfg  s == toProg  l == line  q == toBrick
           s2 == toProg'  ls2 == listens'  a == m.appl  y == Msg("LISTEN_CONF", a, 0, FALSE, 0)  x == <<y>>
<1>1. /\ toBrick # <<>> /\ toBrick' = r /\ listens' = Listening(listens, m)
      /\ toProg' = [toProg EXCEPT ![a] = Append(@, y)]
      /\ line' = line /\ UNCHANGED <<pc, cfg, prog, at, signals>> /\ answered' = answered
  BY Zenon DEF BrickTakes, Listening
<1>2. /\ Whole(g, t, s, l, listens, answered, signals) /\ answered \in Nat /\ signals \in Nat
      /\ Inv(g, t, s, l) /\ t.ms = q /\ t.made = made
  BY DEF IInv, Control, Whole, Program
<1>3. /\ Structured(g, t) /\ Mailed(g, t, s, l) /\ t \in State
  BY <1>2 DEF Inv, Structured
<1>4. /\ q \in Seq(Message) /\ made \in Nat /\ Held(s, l)
      /\ \A n \in DOMAIN q : Asked(g, q[n], line, made, dialled)
  BY WholeIn
<1>5. IsFirst(q, m, r)
  BY <1>1 DEF IsFirst
<1> HIDE DEF r
<1>6. m \in Message /\ 1 \in DOMAIN q /\ q[1] = m /\ r \in Seq(Message)
  BY <1>4, <1>5, FirstIs
<1>7. m.id = 0 /\ m.appl \in 1 .. made
  BY <1>4, <1>6 DEF Asked
<1>8. a \in ApplIds /\ a \in Nat
  BY <1>3, <1>7, MailedIn DEF Program
<1>9. /\ y \in Message /\ y.type = "LISTEN_CONF" /\ y.appl = a /\ y.id = 0
  <2> HIDE DEF a
  <2> QED  BY <1>8 DEF Msg, Message, Types
<1>10. Subscribes(q, m, r, y)
  BY <1>5, <1>7, <1>8, <1>9 DEF Subscribes
<1>11. toProg' = Given(toProg, a, x)
  <2>1. s[a] \in Seq(Message) /\ s \in [ApplIds -> Seq(Message)]
    BY <1>4, <1>8 DEF Held
  <2> HIDE DEF y
  <2>2. Append(s[a], y) = s[a] \o x
    BY <1>9, <2>1
  <2> QED  BY <1>1, <2>2 DEF Given
<1>12. ls2 = Listening(listens, m) /\ x = <<y>> /\ a = m.appl
  BY <1>1
<1>13. line' = l
  BY <1>1
<1> HIDE DEF t, g, s, l, q, s2, ls2, a, y, x
<1>14. Subscribes(t.ms, m, r, y) /\ s2 = Given(s, a, x)
  BY <1>2, <1>10, <1>11 DEF s2, s
<1>15. Inv(g, Lastly(t, r), s2, l)
  BY ONLY <1>2, <1>12, <1>14, ListenInv
<1>16. Heard(g, Lastly(t, r), ls2) /\ ls2 \subseteq 1 .. t.made
  <2>1. Heard(g, t, listens) /\ listens \subseteq 1 .. t.made
    BY <1>2 DEF Whole
  <2>2. Heard(g, Lastly(t, r), Listening(listens, m))
    BY ONLY <1>3, <1>14, <2>1, ListenHeard
  <2> QED  BY <1>2, <1>7, <1>12, <2>1, <2>2 DEF Listening
<1>17. ASSUME NEW i \in CallIds
       PROVE  /\ Turn(g, r, s2, l, i) = 1 => Turn(g, t.ms, s, l, i) = 1
              /\ Number(r, Dues(g, i)) + Number(In(s2, l, i), Dues(g, i)) > 0 =>
                    Number(t.ms, Dues(g, i)) + Number(In(s, l, i), Dues(g, i)) > 0
  <2> DEFINE w == t.ms
  <2>1. w \in Seq(Message) /\ Subscribes(w, m, r, y) /\ Held(s, l) /\ s2 = Given(s, a, x)
    BY <1>2, <1>4, <1>14
  <2> HIDE DEF w
  <2>8. Unmoved(g, w, r, s, s2, l)
    BY ONLY <1>12, <2>1, ListenCounts
  <2>2. /\ Turn(g, r, s2, l, i) = Turn(g, w, s, l, i) /\ Number(r, Dues(g, i)) = Number(w, Dues(g, i))
        /\ \A T : AboutCall(T, i) => Number(In(s2, l, i), T) = Number(In(s, l, i), T)
    BY ONLY <2>8, i \in CallIds DEF Unmoved
  <2>3. AboutCall(Dues(g, i), i)
    BY AboutCalls
  <2> QED  BY <2>2, <2>3 DEF w
<1>18. Due(g, r, s2, l) \in SUBSET Due(g, t.ms, s, l)
  BY <1>17 DEF Due
<1>19. \A i \in CallIds : Turn(g, r, s2, l, i) = 1 => Turn(g, t.ms, s, l, i) = 1
  BY <1>17
<1>20. Whole(g, Lastly(t, r), s2, l, ls2, answered, signals)
  <2> DEFINE u == Lastly(t, r)
  <2>1. /\ answered \in Nat /\ signals \in Nat /\ Whole(g, t, s, l, listens, answered, signals) /\ r \in Seq(Message)
        /\ u = Lastly(t, r) /\ Inv(g, u, s2, l) /\ ls2 \subseteq 1 .. t.made /\ Heard(g, u, ls2)
    BY <1>2, <1>6, <1>15, <1>16
  <2> HIDE DEF u
  <2>2. Whole(g, u, s2, l, ls2, answered, signals)
    BY ONLY <2>1, <1>18, <1>19, SameMost
  <2> QED  BY <2>1, <2>2
<1> QED  BY Zenon, <1>1, <1>13, <1>20, TakesWhole DEF t, g, s2, ls2

LEMMA BrickTakesKeeps == ASSUME IInv, BrickTakes PROVE IInv'
<1> DEFINE m == Head(toBrick)
<1> QED  BY CallTakesKeeps, ListenTakes, ReleaseTakes

--------------------------------------------------------------------------------
(* A call comes in *)

Rings(g, t, a, m, e, c, x) ==
    /\ g \in Configs /\ g.recv /\ Silent(t) /\ a \in 1 .. t.made /\ e = t.dialled + 1 /\ e \in CallIds
    /\ m \in Message /\ m.type = "CONNECT_IND" /\ m.appl = a /\ m.id = e /\ x = <<m>>
    /\ c \in Lines /\ c.appl = a /\ c.st = "offered" /\ c.unconf = 0
RingCounts(g, q, e, s, l, s2, l2) ==
    /\ Turn(g, q, s2, l2, e) = 1 /\ Unread(q, s2, l2, e) = 0
    /\ \A j \in CallIds : j # e =>
          /\ Turn(g, q, s2, l2, j) = Turn(g, q, s, l, j) /\ Unread(q, s2, l2, j) = Unread(q, s, l, j)
          /\ Number(In(s2, l2, j), Dues(g, j)) = Number(In(s, l, j), Dues(g, j))
          /\ Number(In(s2, l2, j), Typed(j, "CONNECT_IND")) = Number(In(s, l, j), Typed(j, "CONNECT_IND"))

LEMMA RingPosts ==
    ASSUME NEW g, NEW t, NEW s, NEW l, Inv(g, t, s, l), NEW a, NEW m, NEW e, NEW c, NEW x,
           Rings(g, t, a, m, e, c, x), NEW s2, s2 = Given(s, a, x), NEW l2, l2 = Becoming(l, e, c)
    PROVE  /\ Held(s, l) /\ Held(s2, l2) /\ l2[e] = c /\ \A j \in CallIds : j # e => l2[j] = l[j]
           /\ a \in ApplIds /\ l[e] = Idle /\ l[e].appl = 0
           /\ RingCounts(g, t.ms, e, s, l, s2, l2)
<1> DEFINE q == t.ms
<1>1. /\ Structured(g, t) /\ Mailed(g, t, s, l) /\ Held(s, l) /\ q \in Seq(Message) /\ t.dialled \in Nat
      /\ \A b \in 1 .. t.made : b \in ApplIds
  <2>1. Structured(g, t) /\ Mailed(g, t, s, l)
    BY DEF Inv
  <2> QED  BY <2>1, MailedIn
<1>2. /\ e = t.dialled + 1 /\ e \in CallIds /\ m \in Message /\ m.appl = a /\ m.id = e /\ x = <<m>>
      /\ m.type = "CONNECT_IND" /\ g.recv /\ a \in ApplIds
      /\ c \in Lines /\ c.appl = a /\ c.st = "offered" /\ c.unconf = 0
  BY <1>1 DEF Rings
<1>3. /\ l[e] = Idle /\ Turn(g, q, s, l, e) = 0 /\ Unread(q, s, l, e) = 0 /\ l[e].appl = 0
      /\ l[e].st = "free"
  BY <1>2, Fresh
<1>4. \A n \in DOMAIN s[a] : s[a][n].id # e
  <2>1. ASSUME NEW n \in DOMAIN s[a]  PROVE s[a][n].id # e
    <3>1. s[a][n].id \in 0 .. t.dialled
      BY <1>1, <1>2 DEF Mailed, Posted
    <3> QED  BY <1>1, <1>2, <3>1
  <2> QED  BY <2>1
<1>5. /\ x \in Seq(Message) /\ DOMAIN x = {1} /\ x[1] = m
      /\ Number(x, Toks(g, m.id)) = One(m.type \in TokTypes(g))
      /\ \A type : Number(x, Typed(m.id, type)) = One(m.type = type)
  <2>1. m \in Message /\ x = <<m>>
    BY <1>2
  <2> QED  BY ONLY <2>1, CountOne
<1>6. Number(x, Toks(g, e)) = 1 /\ Number(x, Typed(e, "DATAB3_CONF")) = 0
  BY <1>2, <1>5 DEF One, TokTypes
<1> HIDE DEF q
<1>7. /\ Held(s2, l2) /\ l2[e] = c /\ \A j \in CallIds : j # e => l2[j] = l[j]
      /\ \A j \in CallIds : \A T : AboutCall(T, j) =>
            /\ Number(In(s2, l2, j), T) = Number(In(s, l, j), T) + Number(x, T)
            /\ j # e => Number(x, T) = 0
  <2>1. /\ Held(s, l) /\ e \in CallIds /\ c \in Lines /\ l2 = Becoming(l, e, c) /\ a \in ApplIds /\ a = c.appl
        /\ l[e].appl \in {0, a} /\ x \in Seq(Message)
        /\ l[e].appl = 0 => \A n \in DOMAIN s[a] : s[a][n].id # e
        /\ \A n \in DOMAIN x : x[n].id = e /\ x[n].appl = a
    BY <1>1, <1>2, <1>3, <1>4, <1>5
  <2> QED  BY ONLY <2>1, s2 = Given(s, a, x), Posts
<1>8. ASSUME NEW j \in CallIds
      PROVE  /\ AboutCall(Toks(g, j), j) /\ AboutCall(Dues(g, j), j) /\ AboutCall(Typed(j, "DATAB3_CONF"), j)
             /\ AboutCall(Typed(j, "CONNECT_IND"), j)
             /\ \A T : Number(q, T) \in Nat /\ Number(In(s, l, j), T) \in Nat
  <2>1. \A T : Number(q, T) \in Nat /\ Number(In(s, l, j), T) \in Nat
    BY <1>1, Counted
  <2> QED  BY <2>1, AboutCalls
<1>9. Turn(g, q, s2, l2, e) = 1 /\ Unread(q, s2, l2, e) = 0
  <2>1. /\ Number(In(s2, l2, e), Toks(g, e)) = Number(In(s, l, e), Toks(g, e)) + 1
        /\ Number(In(s2, l2, e), Typed(e, "DATAB3_CONF")) = Number(In(s, l, e), Typed(e, "DATAB3_CONF")) + 0
    BY <1>2, <1>6, <1>7, <1>8
  <2>2. l2[e].st = "offered" /\ l2[e].unconf = 0 /\ l[e].unconf = 0
    BY <1>2, <1>3, <1>7 DEF Idle
  <2>3. One(l2[e].st = "dialling") = 0 /\ One(l[e].st = "dialling") = 0
    BY <1>3, <2>2 DEF One
  <2>4. /\ Turn(g, q, s, l, e) = Number(q, Toks(g, e)) + Number(In(s, l, e), Toks(g, e)) + 0
        /\ Unread(q, s, l, e) = Number(q, Typed(e, "DATAB3_REQ")) + 0 + Number(In(s, l, e), Typed(e, "DATAB3_CONF"))
    BY <2>2, <2>3 DEF Turn, Unread
  <2>5. /\ Turn(g, q, s2, l2, e) = Number(q, Toks(g, e)) + Number(In(s2, l2, e), Toks(g, e)) + 0
        /\ Unread(q, s2, l2, e) = Number(q, Typed(e, "DATAB3_REQ")) + 0 + Number(In(s2, l2, e), Typed(e, "DATAB3_CONF"))
    BY <2>2, <2>3 DEF Turn, Unread
  <2>6. \A T : Number(q, T) \in Nat /\ Number(In(s, l, e), T) \in Nat
    BY <1>2, <1>8
  <2> QED  BY <1>3, <2>1, <2>4, <2>5, <2>6
<1>10. ASSUME NEW j \in CallIds, j # e
       PROVE  /\ Turn(g, q, s2, l2, j) = Turn(g, q, s, l, j) /\ Unread(q, s2, l2, j) = Unread(q, s, l, j)
              /\ Number(In(s2, l2, j), Dues(g, j)) = Number(In(s, l, j), Dues(g, j))
              /\ Number(In(s2, l2, j), Typed(j, "CONNECT_IND")) = Number(In(s, l, j), Typed(j, "CONNECT_IND"))
  <2>1. \A T : AboutCall(T, j) => Number(In(s2, l2, j), T) = Number(In(s, l, j), T)
    BY <1>7, <1>8, <1>10
  <2>2. l2[j] = l[j]
    BY <1>7, <1>10
  <2> QED  BY <1>8, <2>1, <2>2 DEF Turn, Unread
<1>11. RingCounts(g, q, e, s, l, s2, l2)
  BY <1>9, <1>10 DEF RingCounts
<1> QED  BY <1>1, <1>2, <1>3, <1>7, <1>11 DEF q

Rung(t, e) == [t EXCEPT !.dialled = e]

LEMMA RungIs ==
    ASSUME NEW t \in State, NEW e \in Nat
    PROVE  /\ Rung(t, e) \in State /\ Rung(t, e).appls = t.appls /\ Rung(t, e).pollfds = t.pollfds
           /\ Rung(t, e).made = t.made /\ Rung(t, e).dialled = e /\ Rung(t, e).ms = t.ms
  BY StateIn DEF Rung, State

LEMMA RingMailed ==
    ASSUME NEW g, NEW t, NEW s, NEW l, Inv(g, t, s, l), NEW a, NEW m, NEW e, NEW c, NEW x,
           Rings(g, t, a, m, e, c, x), NEW s2, s2 = Given(s, a, x), NEW l2, l2 = Becoming(l, e, c),
           NEW u, u = Rung(t, e)
    PROVE  Mailed(g, u, s2, l2)
<1>1. /\ Structured(g, t) /\ Mailed(g, t, s, l) /\ t \in State /\ t.dialled \in Nat /\ t.made \in Nat
      /\ \A j \in 1 .. t.dialled : j \in CallIds
  <2>1. Structured(g, t) /\ Mailed(g, t, s, l)
    BY DEF Inv
  <2> QED  BY <2>1, MailedIn
<1>2. /\ Held(s, l) /\ Held(s2, l2) /\ l2[e] = c /\ \A j \in CallIds : j # e => l2[j] = l[j]
      /\ a \in ApplIds
  BY RingPosts
<1>3. /\ e = t.dialled + 1 /\ e \in CallIds /\ m \in Message /\ m.appl = a /\ m.id = e /\ x = <<m>>
      /\ m.type = "CONNECT_IND" /\ g.recv /\ c.appl = a /\ c.st = "offered" /\ a \in 1 .. t.made /\ t.ms = <<>>
  BY DEF Rings, Silent
<1>4. u.ms = t.ms /\ u.made = t.made /\ u.dialled = e /\ DOMAIN u.ms = {}
  <2>1. e \in Nat
    BY <1>1, <1>3
  <2>2. u.ms = t.ms /\ u.made = t.made /\ u.dialled = e
    BY <1>1, <2>1, RungIs
  <2> QED  BY <1>3, <2>2
<1>5. ASSUME NEW b \in ApplIds, NEW n \in DOMAIN s2[b]  PROVE Posted(g, s2[b][n], b, l2, e)
  <2>1. s \in [ApplIds -> Seq(Message)] /\ s[b] \in Seq(Message)
    BY <1>2 DEF Held
  <2>2. \/ n \in DOMAIN s[b] /\ s2[b][n] = s[b][n]
        \/ s2[b][n] = m /\ a = b
    <3>1. CASE a # b
      <4>1. s2[b] = s[b]
        BY <2>1, <3>1 DEF Given
      <4> QED  BY <1>5, <4>1
    <3>2. CASE a = b
      <4> DEFINE y == s[b]
      <4>1. s2[b] = y \o <<m>> /\ y \in Seq(Message)
        BY <1>3, <2>1, <3>2 DEF Given
      <4> HIDE DEF y
      <4>2. y \o <<m>> = Append(y, m) /\ Len(Append(y, m)) = Len(y) + 1 /\ Len(y) \in Nat
        BY <1>3, <4>1
      <4>3. n \in 1 .. Len(y) + 1 /\ DOMAIN y = 1 .. Len(y)
        BY <1>5, <4>1, <4>2, <1>3
      <4>4. n \in DOMAIN y \/ n = Len(y) + 1
        BY <4>2, <4>3
      <4>5. n \in DOMAIN y => Append(y, m)[n] = y[n]
        BY <1>3, <4>1
      <4>6. Append(y, m)[Len(y) + 1] = m
        BY <1>3, <4>1
      <4> QED  BY <3>2, <4>1, <4>2, <4>4, <4>5, <4>6 DEF y
    <3> QED  BY <3>1, <3>2
  <2>3. CASE n \in DOMAIN s[b] /\ s2[b][n] = s[b][n]
    <3> DEFINE z == s[b][n]
    <3>1. Posted(g, z, b, l, t.dialled)
      BY <1>1, <2>3 DEF Mailed
    <3>2. z.id \in 0 .. t.dialled /\ z.id \in 0 .. e
      BY <1>1, <1>3, <3>1 DEF Posted
    <3>3. z.id # 0 => l2[z.id].appl = b
      <4>1. z.id # 0 => z.id \in CallIds /\ z.id # e /\ l[z.id].appl = b
        BY <1>1, <1>3, <3>1, <3>2 DEF Posted
      <4> QED  BY <1>2, <4>1
    <3> HIDE DEF z
    <3>4. Posted(g, z, b, l2, e)
      BY <3>1, <3>2, <3>3 DEF Posted
    <3> QED  BY <2>3, <3>4 DEF z
  <2>4. CASE s2[b][n] = m /\ a = b
    <3>1. m.id \in 0 .. e /\ m.id # 0 /\ l2[m.id].appl = b
      BY <1>1, <1>2, <1>3, <2>4
    <3>2. Posted(g, m, b, l2, e)
      BY <1>3, <2>4, <3>1 DEF Posted
    <3> QED  BY <2>4, <3>2
  <2> QED  BY <2>2, <2>3, <2>4
<1>6. ASSUME NEW j \in CallIds  PROVE Known(g, l2, j, t.made, e)
  <2>1. Known(g, l, j, t.made, t.dialled)
    BY <1>1 DEF Mailed
  <2>2. CASE j # e
    <3>1. l2[j] = l[j] /\ j \in Nat
      BY <1>2, <2>2, Constants
    <3>2. j > e => j > t.dialled
      BY <1>1, <1>3, <3>1
    <3> QED  BY <2>1, <3>1, <3>2 DEF Known
  <2>3. CASE j = e
    <3>1. l2[j] = c /\ ~(j > e) /\ a # 0 /\ a \in 0 .. t.made
      BY <1>1, <1>2, <1>3, <2>3
    <3> QED  BY <1>3, <3>1 DEF Known
  <2> QED  BY <2>2, <2>3
<1> QED  BY <1>2, <1>4, <1>5, <1>6 DEF Mailed, Held

LEMMA RungStructured ==
    ASSUME NEW g, NEW t, Structured(g, t), NEW e, e = t.dialled + 1, e \in CallIds, NEW u, u = Rung(t, e)
    PROVE  Structured(g, u)
<1>1. t \in State /\ t.dialled \in Nat /\ e \in Nat
  BY StateIn DEF Structured
<1>2. /\ u \in State /\ u.appls = t.appls /\ u.pollfds = t.pollfds /\ u.made = t.made /\ u.dialled = e
  BY <1>1, RungIs
<1>3. \A i \in 1 .. t.dialled : i \in 1 .. e
  BY <1>1
<1>4. ASSUME NEW k \in DOMAIN t.appls  PROVE ApplRight(g, t.appls[k], t.made, e)
  <2>1. ApplRight(g, t.appls[k], t.made, t.dialled)
    BY DEF Structured
  <2> QED  BY <1>3, <2>1 DEF ApplRight, CallRight
<1> QED  BY <1>2, <1>4 DEF Structured

LEMMA RingInv ==
    ASSUME NEW g, NEW t, NEW s, NEW l, Inv(g, t, s, l), NEW a, NEW m, NEW e, NEW c, NEW x,
           Rings(g, t, a, m, e, c, x), NEW s2, s2 = Given(s, a, x), NEW l2, l2 = Becoming(l, e, c),
           NEW u, u = Rung(t, e)
    PROVE  Inv(g, u, s2, l2)
<1>1. /\ Structured(g, t) /\ Turns(g, t, s, l) /\ Fits(g, t, s, l) /\ t \in State /\ Released(t)
  BY DEF Inv, Structured
<1>2. /\ e = t.dialled + 1 /\ e \in CallIds /\ e \in Nat /\ t.dialled \in Nat
      /\ \A j \in 1 .. t.dialled : j \in CallIds
  BY SMTT(40), SMTT(41), ZenonT(30), <1>1, StateIn, Constants DEF Rings, Structured
<1>3. /\ u.appls = t.appls /\ u.made = t.made /\ u.dialled = e /\ u.ms = t.ms
  BY <1>1, <1>2, RungIs
<1> DEFINE q == t.ms
<1>4. /\ \A j \in CallIds : j # e => l2[j] = l[j]
      /\ RingCounts(g, q, e, s, l, s2, l2)
  BY RingPosts
<1> HIDE DEF q
<1>5. Turns(g, u, s2, l2)
  <2>1. ASSUME NEW i \in CallIds
        PROVE  Turn(g, q, s2, l2, i) <= 1 /\ (Turn(g, q, s2, l2, i) = 1 => Unread(q, s2, l2, i) = 0)
    <3>1. CASE i = e
      BY <1>4, <3>1 DEF RingCounts
    <3>2. CASE i # e
      <4>1. /\ Turn(g, q, s2, l2, i) = Turn(g, q, s, l, i) /\ Unread(q, s2, l2, i) = Unread(q, s, l, i)
        BY <1>4, <3>2 DEF RingCounts
      <4>2. Turn(g, q, s, l, i) <= 1 /\ (Turn(g, q, s, l, i) = 1 => Unread(q, s, l, i) = 0)
        BY <1>1 DEF Turns, q
      <4> QED  BY <4>1, <4>2
    <3> QED  BY <3>1, <3>2
  <2> QED  BY <1>3, <2>1 DEF Turns, q
<1>6. Fits(g, u, s2, l2)
  <2>1. ASSUME NEW k \in DOMAIN t.appls, NEW j \in DOMAIN t.appls[k].calls
        PROVE  Fit(g, q, s2, l2, t.appls[k].id, t.appls[k].calls[j])
    <3> DEFINE d == t.appls[k].calls[j]  b == t.appls[k].id
    <3>1. Fit(g, q, s, l, b, d)
      BY <1>1 DEF Fits, q
    <3>2. d.id \in 1 .. t.dialled
      BY <1>1 DEF Structured, ApplRight, CallRight
    <3> HIDE DEF d, b
    <3>3. d.id \in CallIds /\ d.id # e
      BY <1>2, <3>2
    <3>4. /\ Turn(g, q, s2, l2, d.id) = Turn(g, q, s, l, d.id) /\ Unread(q, s2, l2, d.id) = Unread(q, s, l, d.id)
          /\ Number(In(s2, l2, d.id), Typed(d.id, "CONNECT_IND")) = Number(In(s, l, d.id), Typed(d.id, "CONNECT_IND"))
          /\ l2[d.id] = l[d.id]
      BY <1>4, <3>3 DEF RingCounts
    <3>5. Fit(g, q, s2, l2, b, d)
      BY <3>1, <3>4, Zenon DEF Fit
    <3> QED  BY <3>5 DEF d, b
  <2> QED  BY <1>3, <2>1 DEF Fits, q
<1>7. Structured(g, u)
  BY <1>1, <1>2, RungStructured
<1>8. Mailed(g, u, s2, l2)
  BY RingMailed
<1>9. Released(u)
  BY <1>1, <1>3 DEF Released
<1> QED  BY <1>5, <1>6, <1>7, <1>8, <1>9 DEF Inv

LEMMA RingDue ==
    ASSUME NEW g, NEW t, NEW s, NEW l, Inv(g, t, s, l), NEW a, NEW m, NEW e, NEW c, NEW x,
           Rings(g, t, a, m, e, c, x), NEW s2, s2 = Given(s, a, x), NEW l2, l2 = Becoming(l, e, c)
    PROVE  /\ Cardinality(Due(g, t.ms, s2, l2)) <= Cardinality(Due(g, t.ms, s, l)) + 1
           /\ Cardinality(Due(g, t.ms, s2, l2)) \in Nat /\ Cardinality(Due(g, t.ms, s, l)) \in Nat
<1> DEFINE q == t.ms  D == Due(g, q, s, l)  D2 == Due(g, q, s2, l2)
<1>1. RingCounts(g, q, e, s, l, s2, l2)
  BY RingPosts
<1>2. IsFiniteSet(D) /\ Cardinality(D) \in Nat /\ Cardinality(D2) \in Nat
  BY DueType
<1>3. D2 \subseteq D \cup {e}
  <2>1. ASSUME NEW i \in CallIds, i # e
        PROVE  Number(In(s2, l2, i), Dues(g, i)) = Number(In(s, l, i), Dues(g, i))
    BY <1>1, <2>1 DEF RingCounts
  <2> QED  BY <2>1 DEF Due
<1> HIDE DEF D, D2
<1>4. IsFiniteSet(D \cup {e}) /\ Cardinality(D \cup {e}) <= Cardinality(D) + 1 /\ Cardinality(D \cup {e}) \in Nat
  <2>1. /\ IsFiniteSet(D \cup {e})
        /\ Cardinality(D \cup {e}) = IF e \in D THEN Cardinality(D) ELSE Cardinality(D) + 1
    BY <1>2, FS_AddElement
  <2> QED  BY <1>2, <2>1
<1>5. Cardinality(D2) <= Cardinality(D \cup {e})
  BY <1>3, <1>4, FS_Subset
<1>6. Cardinality(D2) <= Cardinality(D) + 1
  BY <1>2, <1>4, <1>5
<1> QED  BY <1>2, <1>6 DEF D, D2

LEMMA RingWhole ==
    ASSUME NEW g, NEW t, NEW s, NEW l, NEW ls, NEW an \in Nat, NEW sg \in Nat, Whole(g, t, s, l, ls, an, sg),
           an < g.answers, NEW a, NEW m, NEW e, NEW c, NEW x,
           Rings(g, t, a, m, e, c, x), NEW s2, s2 = Given(s, a, x), NEW l2, l2 = Becoming(l, e, c),
           NEW u, u = Rung(t, e)
    PROVE  Whole(g, u, s2, l2, ls, an + 1, sg)
<1>1. /\ Inv(g, t, s, l) /\ ls \subseteq 1 .. t.made /\ Heard(g, t, ls) /\ (t.appls # <<>> => Listened(g, t))
      /\ Bounded(g, t, s, l, an, sg)
  BY DEF Whole
<1>2. t \in State /\ t.made \in Nat /\ t.dialled \in Nat
  BY <1>1, StateIn DEF Inv, Structured
<1>3. g \in Configs /\ g.recv /\ e = t.dialled + 1 /\ e \in Nat
  BY <1>2 DEF Rings
<1>4. /\ u.appls = t.appls /\ u.made = t.made /\ u.dialled = e /\ u.ms = t.ms
  BY <1>2, <1>3, RungIs
<1>5. Inv(g, u, s2, l2)
  BY <1>1, RingInv
<1>6. Heard(g, u, ls) /\ (u.appls # <<>> => Listened(g, u)) /\ ls \subseteq 1 .. u.made
  BY <1>1, <1>4 DEF Heard, Listened
<1>7. Bounded(g, u, s2, l2, an + 1, sg)
  <2> DEFINE n == Cardinality(Due(g, t.ms, s, l))  n2 == Cardinality(Due(g, t.ms, s2, l2))
  <2>1. n2 <= n + 1 /\ n \in Nat /\ n2 \in Nat
    BY <1>1, RingDue
  <2>2. an <= g.answers /\ sg <= g.signals /\ t.dialled = an /\ t.made + n <= 1 + t.dialled
    BY <1>1, <1>3 DEF Bounded
  <2>3. g.answers \in Nat
    BY <1>3, Options
  <2> HIDE DEF n, n2
  <2>4. an + 1 <= g.answers /\ e = an + 1 /\ t.made + n2 <= 1 + e
    BY <1>2, <1>3, <2>1, <2>2, <2>3
  <2> QED  BY <1>3, <1>4, <2>2, <2>4 DEF Bounded, n2
<1> QED  BY <1>3, <1>5, <1>6, <1>7 DEF Whole

LEMMA RingKeeps == ASSUME IInv, Ring PROVE IInv'
<1> DEFINE e == dialled + 1  o == "offered"  z == 0
<1>1. /\ pc = "poll" /\ toBrick = <<>> /\ cfg.recv /\ answered < cfg.answers /\ answered' = answered + 1
      /\ dialled' = e /\ UNCHANGED <<pc, cfg, appls, pollfds, made, at, signals, toBrick, listens>>
  BY DEF Ring
<1>2. PICK a \in listens :
         /\ line' = [line EXCEPT ![e] = [Idle EXCEPT !.st = o, !.appl = a]]
         /\ toProg' = [toProg EXCEPT ![a] = Append(@, Msg("CONNECT_IND", a, e, FALSE, 0))]
  BY Zenon, <1>1 DEF Ring
<1>3. /\ Now = Program /\ Now \in State /\ Silent(Now) /\ Now.dialled = dialled /\ Now.made = made
      /\ Whole(cfg, Now, toProg, line, listens, answered, signals) /\ Inv(cfg, Now, toProg, line)
      /\ cfg \in Configs /\ answered \in Nat /\ signals \in Nat
  BY <1>1, NowIs
<1>4. /\ Held(toProg, line) /\ dialled \in Nat /\ made \in Nat /\ a \in 1 .. made /\ a \in ApplIds
      /\ dialled = answered /\ MaxCalls \in Nat /\ MaxSignals \in Nat
  <2>1. Structured(cfg, Now) /\ Mailed(cfg, Now, toProg, line)
    BY <1>3 DEF Inv
  <2>2. listens \subseteq 1 .. Now.made /\ Now.dialled = answered
    BY <1>1, <1>3 DEF Whole, Bounded
  <2> QED  BY <1>3, <2>1, <2>2, MailedIn, Constants
<1>5. e \in CallIds /\ e \in Nat
  <2>1. cfg.answers \in Nat /\ cfg.answers <= MaxCalls
    BY <1>3, Options
  <2> QED  BY <1>1, <1>3, <1>4, <2>1, Constants
<1> DEFINE m == Msg("CONNECT_IND", a, e, FALSE, 0)  c == LineOf(o, a, z, z)  x == <<m>>
           t == Now  u == Rung(t, e)  s == toProg  l == line  s2 == Given(s, a, x)  l2 == Becoming(l, e, c)
<1>6. m \in Message /\ m.type = "CONNECT_IND" /\ m.appl = a /\ m.id = e
  <2> HIDE DEF e
  <2>1. a \in Nat
    BY <1>4
  <2> QED  BY <1>5, <2>1 DEF Msg, Message, Types
<1>7. c \in Lines /\ c.appl = a /\ c.st = o /\ c.unconf = 0
  <2>1. a \in Nat
    BY <1>4
  <2> QED  BY <2>1 DEF LineOf, Lines, LineStates
<1>8. [Idle EXCEPT !.st = o, !.appl = a] = c
  <2> DEFINE f == "free"  d == LineOf(f, z, z, z)  b == LineOf(o, z, z, z)
  <2>1. d = Idle
    BY DEF LineOf, Idle
  <2> HIDE DEF f, z, o
  <2>2. [d EXCEPT !.st = o] = b
    BY LineOfIs
  <2>3. [b EXCEPT !.appl = a] = c
    BY LineOfIs
  <2> HIDE DEF d, b, c
  <2>4. [d EXCEPT !.st = o, !.appl = a] = [[d EXCEPT !.st = o] EXCEPT !.appl = a]
    BY <2>2, Zenon
  <2> QED  BY <2>1, <2>2, <2>3, <2>4
<1>9. line' = l2
  BY <1>2, <1>8 DEF Becoming
<1>10. toProg' = s2
  <2>1. s[a] \in Seq(Message) /\ s \in [ApplIds -> Seq(Message)]
    BY <1>4 DEF Held
  <2> HIDE DEF m
  <2>2. Append(s[a], m) = s[a] \o x
    BY <1>6, <2>1
  <2> QED  BY <1>2, <2>2 DEF Given, m
<1>11. Rings(cfg, t, a, m, e, c, x)
  BY <1>1, <1>3, <1>4, <1>5, <1>6, <1>7 DEF Rings
<1>12. Whole(cfg, u, s2, l2, listens, answered + 1, signals)
  <2>1. /\ Whole(cfg, t, s, l, listens, answered, signals) /\ answered < cfg.answers /\ answered \in Nat
        /\ signals \in Nat /\ s2 = Given(s, a, x) /\ l2 = Becoming(l, e, c) /\ u = Rung(t, e)
    BY <1>1, <1>3
  <2> HIDE DEF m, c, x, t, u, s, l, s2, l2, e
  <2> QED  BY ONLY <1>11, <2>1, RingWhole
<1>13. Program' = u
  <2>1. u = [appls |-> appls, pollfds |-> pollfds, made |-> made, dialled |-> e, ms |-> toBrick]
    BY <1>1 DEF Rung, Now
  <2> QED  BY <1>1, <2>1 DEF Program
<1>14. Control'
  BY <1>1, <1>3 DEF IInv, Control
<1> HIDE DEF e, m, c, x, t, u, s2, l2
<1>15. cfg' = cfg /\ listens' = listens /\ answered' = answered + 1 /\ signals' = signals
  BY <1>1
<1>16. Whole(cfg, Program, toProg, line, listens, answered, signals)'
  BY <1>9, <1>10, <1>12, <1>13, <1>15
<1> QED  BY <1>14, <1>16 DEF IInv

--------------------------------------------------------------------------------
(* The invariant, and what follows from it *)

LEMMA StutterKeeps == ASSUME IInv, UNCHANGED vars PROVE IInv'
<1>1. /\ pc' = pc /\ cfg' = cfg /\ appls' = appls /\ pollfds' = pollfds /\ made' = made /\ dialled' = dialled
      /\ at' = at /\ answered' = answered /\ signals' = signals /\ toBrick' = toBrick /\ toProg' = toProg
      /\ line' = line /\ listens' = listens
  BY DEF vars, prog, brick
<1>2. Program' = Program
  BY <1>1 DEF Program
<1>3. Control'
  BY <1>1 DEF IInv, Control
<1>4. Whole(cfg, Program, toProg, line, listens, answered, signals)'
  BY <1>1, <1>2 DEF IInv
<1> QED  BY <1>3, <1>4 DEF IInv

LEMMA NextKeeps == ASSUME IInv, Next PROVE IInv'
<1>1. CASE Main
  BY <1>1, StartKeeps, PollKeeps, CapiEventKeeps DEF Main
<1>2. CASE Signals
  BY <1>2, Usr2Keeps, HupKeeps, StopsKeeps DEF Signals
<1>3. CASE Ring
  BY <1>3, RingKeeps
<1>4. CASE Brick
  BY <1>4, BrickTakesKeeps, TakesKeeps, PlayKeeps, HangUpKeeps DEF Brick
<1> QED  BY <1>1, <1>2, <1>3, <1>4 DEF Next

\* The inductive invariant holds in every reachable state, whatever the number of
\* calls and signals, the window and the calls to a connection.
THEOREM Invariance == Spec => []IInv
<1>1. Init => IInv
  BY InitInv
<1>2. IInv /\ [Next]_vars => IInv'
  BY NextKeeps, StutterKeeps
<1> QED  BY <1>1, <1>2, PTL DEF Spec

LEMMA InvFacts ==
    ASSUME IInv
    PROVE  /\ Structured(cfg, Program) /\ Mailed(cfg, Program, toProg, line) /\ Program \in State
           /\ Program.appls = appls /\ Program.pollfds = pollfds /\ Program.made = made
           /\ Program.dialled = dialled /\ Program.ms = toBrick
           /\ made \in ApplIds \cup {0} /\ dialled \in CallIds \cup {0} /\ cfg \in Configs
           /\ listens \subseteq 1 .. made /\ Held(toProg, line)
           /\ Heard(cfg, Program, listens) /\ Fits(cfg, Program, toProg, line)
           /\ appls # <<>> => Listened(cfg, Program)
           /\ ~cfg.recv /\ signals = 0 => Chain(cfg, Program, toProg, line)
<1>1. /\ Program.appls = appls /\ Program.pollfds = pollfds /\ Program.made = made
      /\ Program.dialled = dialled /\ Program.ms = toBrick
  BY DEF Program
<1>2. /\ Whole(cfg, Program, toProg, line, listens, answered, signals) /\ cfg \in Configs
  BY DEF IInv, Control
<1> HIDE DEF Program
<1>3. /\ Inv(cfg, Program, toProg, line) /\ listens \subseteq 1 .. made /\ Heard(cfg, Program, listens)
      /\ (appls # <<>> => Listened(cfg, Program))
      /\ (~cfg.recv /\ signals = 0 => Chain(cfg, Program, toProg, line))
  BY <1>1, <1>2 DEF Whole
<1>4. /\ Structured(cfg, Program) /\ Mailed(cfg, Program, toProg, line) /\ Fits(cfg, Program, toProg, line)
  BY <1>3 DEF Inv
<1>5. Program \in State /\ made \in ApplIds \cup {0} /\ dialled \in CallIds \cup {0}
  BY <1>1, <1>4 DEF Structured
<1>6. Held(toProg, line)
  BY <1>4, MailedIn
<1> QED  BY <1>1, <1>2, <1>3, <1>4, <1>5, <1>6

LEMMA TypeHolds == ASSUME IInv PROVE TypeOK
<1>1. /\ Structured(cfg, Program) /\ Program \in State /\ Program.appls = appls /\ Program.made = made
      /\ Program.dialled = dialled /\ made \in ApplIds \cup {0} /\ dialled \in CallIds \cup {0}
      /\ listens \subseteq 1 .. made
  BY InvFacts
<1>2. pc \in {"init", "poll", "exit", "killed"} /\ cfg \in Configs /\ at \in Nat
  BY DEF IInv, Control
<1>3. listens \subseteq ApplIds
  <2>1. 1 .. made \subseteq ApplIds
    BY <1>1, Constants
  <2> QED  BY <1>1, <2>1
<1> HIDE DEF Program
<1>4. ASSUME NEW k \in DOMAIN appls
      PROVE  /\ appls[k].id \in 1 .. made /\ appls[k].fd >= 3
             /\ \A j \in DOMAIN appls[k].calls :
                   /\ appls[k].calls[j].id \in 1 .. dialled /\ appls[k].calls[j].state \in States
                   /\ appls[k].calls[j].NotAcknowledged \in Nat
                   /\ (appls[k].calls[j].b3 => appls[k].calls[j].plci)
  <2>1. ApplRight(cfg, appls[k], made, dialled)
    BY <1>1 DEF Structured
  <2>2. ASSUME NEW j \in DOMAIN appls[k].calls
        PROVE  appls[k].calls[j].state \in States /\ appls[k].calls[j].NotAcknowledged \in Nat
    <3>1. appls[k].calls[j] \in Call
      BY <1>1, StateIn
    <3> QED  BY <3>1 DEF Call
  <2> QED  BY <2>1, <2>2 DEF ApplRight, CallRight
<1> QED  BY <1>1, <1>2, <1>3, <1>4 DEF TypeOK

LEMMA LimitFollows == ASSUME IInv PROVE LimitKept
<1>1. SUFFICES ASSUME ~cfg.recv, signals = 0
               PROVE  Cardinality(Spots(appls)) <= cfg.MaxActivCalls
  BY DEF LimitKept, Spots
<1>2. /\ Chain(cfg, Program, toProg, line) /\ Structured(cfg, Program) /\ Program.appls = appls
  BY <1>1, InvFacts
<1> HIDE DEF Program
<1>3. Cardinality(Numbers(appls)) <= cfg.MaxActivCalls
  BY <1>2 DEF Chain
<1>4. Cardinality(Spots(Program.appls)) = Cardinality(Numbers(Program.appls))
  BY <1>2, ActiveNumbers
<1> QED  BY <1>2, <1>3, <1>4

LEMMA PollListFollows == ASSUME IInv PROVE PollListRight
<1>1. Structured(cfg, Program) /\ Program.appls = appls /\ Program.pollfds = pollfds
  BY InvFacts
<1>2. pc = "poll" => at <= Len(pollfds)
  BY DEF IInv, Control
<1> HIDE DEF Program
<1>3. Polls(appls, pollfds)
  BY <1>1 DEF Structured
<1> QED  BY <1>2, <1>3, TypeHolds DEF PollListRight, Polls

LEMMA CountIs ==
    ASSUME NEW q \in Seq(Message), NEW i, NEW type
    PROVE  Count(q, i, type) = Number(q, Typed(i, type))
<1>1. \A n \in DOMAIN q : q[n] \in Message
  OBVIOUS
<1>2. {n \in DOMAIN q : q[n].id = i /\ q[n].type = type} = PlacesOf(q, Typed(i, type))
  BY <1>1 DEF PlacesOf, Typed
<1> QED  BY <1>2 DEF Count, Number

LEMMA WindowFollows == ASSUME IInv PROVE WindowKept
<1>1. /\ Structured(cfg, Program) /\ Mailed(cfg, Program, toProg, line) /\ Program \in State
      /\ Program.appls = appls /\ Program.ms = toBrick /\ Program.dialled = dialled
      /\ Held(toProg, line) /\ Fits(cfg, Program, toProg, line)
  BY InvFacts
<1>2. toBrick \in Seq(Message) /\ \A i \in 1 .. dialled : i \in CallIds
  BY <1>1, MailedIn
<1> HIDE DEF Program
<1>3. SUFFICES ASSUME NEW k \in DOMAIN appls, NEW j \in DOMAIN appls[k].calls, NEW c, c = appls[k].calls[j],
                      line[c.id].st = "b3up"
               PROVE  /\ c.NotAcknowledged = Count(toBrick, c.id, "DATAB3_REQ") + line[c.id].unconf
                                             + Count(toProg[line[c.id].appl], c.id, "DATAB3_CONF")
                      /\ c.NotAcknowledged <= Window
  BY DEF WindowKept
<1>4. Fit(cfg, toBrick, toProg, line, appls[k].id, c)
  BY <1>1, <1>3 DEF Fits
<1>5. CallRight(cfg, c, dialled)
  BY <1>1, <1>3 DEF Structured, ApplRight
<1>6. c.id \in CallIds
  BY <1>2, <1>5 DEF CallRight
<1>7. line[c.id].appl # 0
  <2>1. Known(cfg, line, c.id, Program.made, Program.dialled)
    BY <1>1, <1>6 DEF Mailed
  <2>2. Idle.st # "b3up"
    BY DEF Idle
  <2> QED  BY <1>3, <2>1, <2>2 DEF Known
<1>8. /\ In(toProg, line, c.id) = toProg[line[c.id].appl] /\ In(toProg, line, c.id) \in Seq(Message)
  BY <1>1, <1>6, <1>7, InType
<1>9. Unread(toBrick, toProg, line, c.id) = c.NotAcknowledged
  BY <1>3, <1>4 DEF Fit
<1>10. /\ Count(toBrick, c.id, "DATAB3_REQ") = Number(toBrick, Typed(c.id, "DATAB3_REQ"))
       /\ Count(toProg[line[c.id].appl], c.id, "DATAB3_CONF")
             = Number(In(toProg, line, c.id), Typed(c.id, "DATAB3_CONF"))
  BY <1>2, <1>8, CountIs
<1>11. c.NotAcknowledged <= Window
  BY <1>5 DEF CallRight, Limit, Window
<1> QED  BY <1>9, <1>10, <1>11 DEF Unread

LEMMA ReachableFollows == ASSUME IInv PROVE Reachable
<1>1. SUFFICES ASSUME cfg.recv, cfg.callperappl = 1, pc = "poll", toBrick = <<>>
               PROVE  \E k \in DOMAIN appls : appls[k].listen /\ appls[k].id \in listens
  BY DEF Reachable
<1>2. appls # <<>>
  BY <1>1 DEF IInv, Control
<1>3. /\ Heard(cfg, Program, listens) /\ Listened(cfg, Program) /\ Program.appls = appls
      /\ Program.ms = toBrick
  BY <1>2, InvFacts
<1>4. DOMAIN Program.ms = {}
  BY <1>1, <1>3
<1> HIDE DEF Program
<1>5. PICK k \in DOMAIN appls : appls[k].listen
  BY <1>1, <1>3 DEF Listened
<1>6. appls[k].id \in listens
  BY <1>3, <1>4, <1>5 DEF Heard
<1> QED  BY <1>5, <1>6

\* The variables have their types: every application has the identifier of a
\* registration that was made, every call the number of a call that was dialled or
\* came in, and a call has its NCCI only with its PLCI.
THEOREM TypeCorrect == Spec => []TypeOK
BY Invariance, TypeHolds, PTL

\* Until a SIGUSR2 comes a sender has no more calls than option -s asks for, in all
\* its applications together, whatever calls have ended and applications gone:
\* gen_next_call counts from the application of the call that is connected on, which
\* is enough as that call is the one dialled last and in the first application.
THEOREM LimitCorrect == Spec => []LimitKept
BY Invariance, LimitFollows, PTL

\* mypolldel and pollset keep the poll list: each living application it had room for
\* is on it once, under the descriptor it has now, nobody else is, there are never
\* more than fit, and pollloopt's place is inside the list, whichever descriptors
\* registering gives out again.
THEOREM PollListCorrect == Spec => []PollListRight
BY Invariance, PollListFollows, PTL

\* NotAcknowledged of a call whose B channel is up is the number of blocks on their
\* way to the brick, with it, or being confirmed, and never more than the window.
THEOREM WindowCorrect == Spec => []WindowKept
BY Invariance, WindowFollows, PTL

\* check_appl registers in time: a receiver with one call to a connection always has
\* an application that the brick offers calls to, when nothing is on its way to it.
THEOREM ReceiverReachable == Spec => []Reachable
BY Invariance, ReachableFollows, PTL
================================================================================
