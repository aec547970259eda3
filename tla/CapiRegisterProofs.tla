--------------------------- MODULE CapiRegisterProofs ---------------------------
(****************************************************************************)
(* Proofs about CapiRegister, for every finite set of descriptors, every    *)
(* set of challenges and every number of calls, with servers that refuse,   *)
(* answer something else or end the connection: the inductive invariant     *)
(* IInv, and from it TypeOK, Registered, Descriptors and FailureCoded.      *)
(****************************************************************************)
EXTENDS CapiRegister, FiniteSetTheorems, WellFoundedInduction, TLAPS

--------------------------------------------------------------------------------
(* The least number of a set *)

\* A set of numbers has a smallest one: the intervals up to its numbers are finite,
\* and of these one has no smaller one.
LEMMA Least ==
    ASSUME NEW S, S \subseteq Nat, S # {}
    PROVE  \E m \in S : \A n \in S : m <= n
<1> DEFINE T == {0 .. n : n \in S}
<1>1. T \subseteq FiniteSubsetsOf(Nat) /\ T # {}
  <2>1. \A n \in S : 0 .. n \subseteq Nat /\ IsFiniteSet(0 .. n)
    BY FS_Interval
  <2> QED  BY <2>1 DEF FiniteSubsetsOf
<1>2. IsWellFoundedOn(StrictSubsetOrdering(Nat), FiniteSubsetsOf(Nat))
  BY FS_StrictSubsetOrderingWellFounded
<1>3. PICK t \in T : \A u \in T : <<u, t>> \notin StrictSubsetOrdering(Nat)
  BY <1>1, <1>2, WFMin
<1>4. PICK m \in S : t = 0 .. m
  OBVIOUS
<1>5. ASSUME NEW n \in S, ~(m <= n)  PROVE FALSE
  <2>1. 0 .. n \in T /\ 0 .. n \in SUBSET Nat /\ 0 .. m \in SUBSET Nat
    OBVIOUS
  <2>2. 0 .. n \subseteq 0 .. m /\ m \in 0 .. m /\ m \notin 0 .. n
    BY <1>5
  <2>3. <<0 .. n, 0 .. m>> \in StrictSubsetOrdering(Nat)
    BY <2>1, <2>2 DEF StrictSubsetOrdering
  <2> QED  BY <1>3, <1>4, <2>1, <2>3
<1>6. \A n \in S : m <= n
  BY <1>5
<1> QED  BY <1>6

--------------------------------------------------------------------------------
(* The inductive invariant *)

Requests == [type : {"GETCHALLENGE", "SETUSER", "REGISTER"}, chall : Challenges \cup {None}]

Answers == [type : {"GETCHALLENGE", "SETUSER", "REGISTER", "OTHER"},
            chall : Challenges \cup {None}, ok : BOOLEAN]

Links == [req : Seq(Requests), ans : Seq(Answers), eof : BOOLEAN,
          chall : Challenges \cup {None}, user : BOOLEAN, appl : BOOLEAN]

\* One call is under way, or none.
Busy == IF pc = "idle" THEN 0 ELSE 1

\* Every open descriptor is accounted for, and every failed authentication was a call.
Counted ==
    /\ IsFiniteSet(apps)
    /\ Cardinality(open) = Cardinality(apps) + refused + Busy
    /\ refused + Busy <= calls

\* The applications are open, one to a descriptor, and the call under way has one
\* of its own.
Separate ==
    /\ \A a \in apps : a.fd \in open /\ (pc # "idle" => a.fd # fd)
    /\ \A a, b \in apps : a.fd = b.fd => a = b
    /\ pc # "idle" => fd \in open

\* Nothing is on the way on this connection.
Silent(f) == link[f].req = <<>> /\ link[f].ans = <<>>

\* What an answer of this type that says ok tells of the connection of the call.
Verdict(type) == CASE type = "SETUSER" -> link[fd].user
                   [] type = "REGISTER" -> link[fd].appl
                   [] OTHER -> TRUE

\* The request of this type is on its way, or its answer, and the answer is true.
Exchanged(type) ==
    \/ /\ \E r \in Requests : link[fd].req = <<r>> /\ r.type = type
       /\ link[fd].ans = <<>>
    \/ /\ link[fd].req = <<>>
       /\ \E a \in Answers : /\ link[fd].ans = <<a>>
                             /\ a.type = type /\ a.ok => Verdict(type)

\* The connection of the call under way is where the call is.
InStep ==
    /\ pc \in PutSteps => Silent(fd)
    /\ pc = "await_challenge" => Exchanged("GETCHALLENGE")
    /\ pc = "await_user" => Exchanged("SETUSER")
    /\ pc = "await_register" => Exchanged("REGISTER")
    /\ pc \in {"register", "await_register"} /\ user => link[fd].user

IInv ==
    /\ TypeOK
    /\ link \in [Fds -> Links]
    /\ Counted
    /\ Separate
    /\ Registered
    /\ InStep
    /\ FailureCoded

--------------------------------------------------------------------------------
(* Sets *)

\* The smallest element of a set of numbers is one of them.
LEMMA MinIn ==
    ASSUME NEW S, S \subseteq Nat, S # {}
    PROVE  Min(S) \in S
BY Least DEF Min

\* The open descriptors are finitely many, and opening or closing one counts one.
LEMMA OpenFinite ==
    ASSUME TypeOK
    PROVE  /\ IsFiniteSet(open) /\ Cardinality(open) \in Nat
           /\ \A f : f \in open => Cardinality(open \ {f}) = Cardinality(open) - 1
           /\ \A f : f \notin open => Cardinality(open \cup {f}) = Cardinality(open) + 1
<1>1. IsFiniteSet(open)
  BY RegisterAssumption, FS_Subset DEF TypeOK
<1> QED
  BY <1>1, FS_CardinalityType, FS_AddElement, FS_RemoveElement

\* The same of the applications.
LEMMA AppsFinite ==
    ASSUME Counted
    PROVE  /\ Cardinality(apps) \in Nat
           /\ \A a \in apps : /\ IsFiniteSet(apps \ {a})
                              /\ Cardinality(apps \ {a}) = Cardinality(apps) - 1
           /\ \A a : a \notin apps => /\ IsFiniteSet(apps \cup {a})
                                      /\ Cardinality(apps \cup {a}) = Cardinality(apps) + 1
BY FS_CardinalityType, FS_AddElement, FS_RemoveElement DEF Counted

\* No descriptor is -1.
LEMMA NoFd == -1 \notin Fds
BY RegisterAssumption

--------------------------------------------------------------------------------
(* What several steps have in common *)

\* The call under way has a descriptor, and a connection there.
LEMMA CallFacts ==
    ASSUME IInv, pc # "idle"
    PROVE  /\ fd \in Fds /\ fd \in open /\ link[fd] \in Links
           /\ \A a \in apps : a.fd \in Fds /\ a.fd # fd
           /\ Cardinality(open) \in Nat /\ Cardinality(apps) \in Nat
           /\ Cardinality(open) = Cardinality(apps) + refused + 1
           /\ refused \in Nat /\ calls \in Nat /\ refused + 1 <= calls
<1>1. fd \in Fds
  BY DEF IInv, TypeOK
<1> QED
  BY <1>1, OpenFinite, AppsFinite DEF IInv, TypeOK, Counted, Separate, Busy

\* A call that fails closes its socket or counts as a failed authentication, and
\* leaves the connections of the applications alone.
LEMMA ReturnStep ==
    ASSUME IInv, pc # "idle", NEW code, code = "OK" => pc = "await_register", Return(code),
           link' \in [Fds -> Links], \A f \in Fds : f # fd => link'[f] = link[f]
    PROVE  IInv'
<1>1. /\ pc' = "idle" /\ fd' = -1 /\ ret' = "failed" /\ errno' = code /\ failed' = pc
      /\ UNCHANGED <<entry, user, chall, apps, calls>>
  BY DEF Return
<1>2. \/ open' = open /\ refused' = refused + 1
      \/ open' = open \ {fd} /\ refused' = refused
  BY DEF Return
<1>3. /\ fd \in Fds /\ fd \in open
      /\ \A a \in apps : a.fd \in Fds /\ a.fd # fd
      /\ Cardinality(open) \in Nat /\ Cardinality(apps) \in Nat
      /\ Cardinality(open) = Cardinality(apps) + refused + 1
      /\ refused \in Nat /\ calls \in Nat /\ refused + 1 <= calls
  BY CallFacts
<1>4. Counted'
  <2>1. Cardinality(open \ {fd}) = Cardinality(open) - 1
    BY <1>3, OpenFinite DEF IInv
  <2>2. Cardinality(open') = Cardinality(apps) + refused'
    <3>1. CASE open' = open /\ refused' = refused + 1
      BY <1>3, <3>1
    <3>2. CASE open' = open \ {fd} /\ refused' = refused
      BY <1>3, <2>1, <3>2
    <3> QED  BY <1>2, <3>1, <3>2
  <2>3. refused' <= calls /\ refused' \in Nat
    BY <1>2, <1>3
  <2>4. IsFiniteSet(apps)
    BY DEF IInv, Counted
  <2>5. Busy' = 0
    BY <1>1 DEF Busy
  <2>6. Cardinality(open') = Cardinality(apps) + refused' + Busy' /\ refused' + Busy' <= calls
    <3>1. \A x, y, z \in Nat : x = y + z => x = y + z + 0 /\ z + 0 = z
      OBVIOUS
    <3>2. Cardinality(open') \in Nat /\ Cardinality(apps) \in Nat
      BY <1>2, <1>3, <2>1, <2>2, <2>3
    <3> QED  BY <2>2, <2>3, <2>5, <3>1, <3>2
  <2> QED  BY <1>1, <2>4, <2>6 DEF Counted
<1>5. TypeOK'
  <2>1. refused' \in 0 .. MaxCalls
    BY <1>2, <1>3, RegisterAssumption DEF IInv, TypeOK
  <2>2. open' \subseteq Fds
    BY <1>2 DEF IInv, TypeOK
  <2>3. failed' \in UserSteps \cup {"register", "await_register", "open", None}
    BY <1>1 DEF IInv, TypeOK
  <2>4. DOMAIN link' = Fds /\ \A f \in Fds : link'[f].chall \in Challenges \cup {None}
    BY DEF Links
  <2> QED  BY <1>1, <2>1, <2>2, <2>3, <2>4 DEF IInv, TypeOK
<1>6. Separate'
  BY <1>1, <1>2, <1>3 DEF IInv, Separate
<1>7. Registered'
  BY <1>1, <1>2, <1>3 DEF IInv, Registered
<1>8. InStep'
  BY <1>1 DEF InStep, PutSteps
<1>9. FailureCoded'
  BY <1>1 DEF FailureCoded
<1> QED
  BY <1>4, <1>5, <1>6, <1>7, <1>8, <1>9 DEF IInv

\* A call that goes on changes its own connection and nothing else.
LEMMA GoOnStep ==
    ASSUME IInv, pc # "idle", NEW next \in UserSteps \cup {"register", "await_register"},
           GoOn(next), chall' \in Challenges \cup {None},
           link' \in [Fds -> Links], \A f \in Fds : f # fd => link'[f] = link[f],
           InStep'
    PROVE  IInv'
<1>1. /\ pc' = next /\ errno' = "OK" /\ next # "idle"
      /\ UNCHANGED <<entry, user, fd, ret, failed, open, apps, refused, calls>>
  BY DEF GoOn, UserSteps
<1>2. fd \in Fds /\ \A a \in apps : a.fd \in Fds /\ a.fd # fd
  BY CallFacts
<1>3. TypeOK'
  <2>1. DOMAIN link' = Fds /\ \A f \in Fds : link'[f].chall \in Challenges \cup {None}
    BY DEF Links
  <2>2. fd' # -1
    BY <1>1, <1>2, NoFd
  <2> QED  BY <1>1, <2>1, <2>2 DEF IInv, TypeOK
<1>4. Counted' /\ Separate'
  BY <1>1 DEF IInv, Counted, Separate, Busy
<1>5. Registered'
  BY <1>1, <1>2 DEF IInv, Registered
<1>6. FailureCoded'
  BY <1>1 DEF FailureCoded
<1> QED
  BY <1>3, <1>4, <1>5, <1>6 DEF IInv

--------------------------------------------------------------------------------
(* The steps of a call *)

LEMMA OpenStep ==
    ASSUME IInv, Open
    PROVE  IInv'
<1>1. /\ pc = "idle" /\ calls < MaxCalls /\ calls' = calls + 1 /\ Fds # open
      /\ fd' = Min(Fds \ open) /\ open' = open \cup {fd'}
      /\ link' = [link EXCEPT ![fd'] = Fresh]
      /\ chall' = None /\ UNCHANGED <<ret, errno, failed, apps, refused>>
  BY DEF Open, answer
<1>2. PICK e \in Entries, u \in BOOLEAN :
          /\ entry' = e /\ user' = u
          /\ pc' = IF u THEN "get_challenge" ELSE "register"
          /\ e = "query" => ~u
  BY DEF Open
<1>3. fd' \in Fds /\ fd' \notin open
  <2>1. Fds \ open \subseteq Nat /\ Fds \ open # {}
    BY <1>1, RegisterAssumption DEF IInv, TypeOK
  <2> HIDE DEF Min
  <2>2. Min(Fds \ open) \in Fds \ open
    BY <2>1, MinIn
  <2> QED  BY <1>1, <2>2
<1>4. Fresh \in Links
  <2>1. <<>> \in Seq(Requests) /\ <<>> \in Seq(Answers)
    OBVIOUS
  <2> QED  BY <2>1 DEF Fresh, Links
<1>5. link' \in [Fds -> Links] /\ link'[fd'] = Fresh /\ \A f \in Fds : f # fd' => link'[f] = link[f]
  BY <1>1, <1>3, <1>4 DEF IInv
<1>6. \A a \in apps : a.fd \in Fds /\ a.fd \in open /\ a.fd # fd'
  BY <1>3 DEF IInv, TypeOK, Separate
<1>7. pc' \in {"get_challenge", "register"} /\ (pc' = "register" => ~user')
  BY <1>2
<1>8. Counted'
  <2>1. Cardinality(open') = Cardinality(open) + 1 /\ Cardinality(open) \in Nat
    BY <1>1, <1>3, OpenFinite DEF IInv
  <2>2. Cardinality(apps) \in Nat
    BY AppsFinite DEF IInv
  <2>3. Busy = 0 /\ Busy' = 1
    BY <1>1, <1>7 DEF Busy
  <2>4. refused \in Nat /\ calls \in Nat
    BY DEF IInv, TypeOK
  <2>5. IsFiniteSet(apps) /\ Cardinality(open) = Cardinality(apps) + refused /\ refused <= calls
    BY <2>2, <2>3, <2>4 DEF IInv, Counted
  <2>6. Cardinality(open') = Cardinality(apps) + refused + 1 /\ refused + 1 <= calls'
    BY <1>1, <2>1, <2>2, <2>4, <2>5
  <2> QED  BY <1>1, <2>3, <2>5, <2>6 DEF Counted
<1>9. TypeOK'
  <2>1. DOMAIN link' = Fds /\ \A f \in Fds : link'[f].chall \in Challenges \cup {None}
    BY <1>5 DEF Links
  <2>2. fd' # -1 /\ pc' # "idle"
    BY <1>3, <1>7, NoFd
  <2>3. calls' \in 0 .. MaxCalls
    BY <1>1, RegisterAssumption DEF IInv, TypeOK
  <2>4. pc' \in UserSteps \cup {"idle", "register", "await_register"}
    BY <1>7 DEF UserSteps
  <2>5. entry' \in Entries /\ user' \in BOOLEAN
    BY <1>2
  <2> QED  BY <1>1, <1>3, <2>1, <2>2, <2>3, <2>4, <2>5 DEF IInv, TypeOK
<1>10. Separate'
  BY <1>1, <1>6 DEF IInv, Separate
<1>11. Registered'
  BY <1>1, <1>5, <1>6 DEF IInv, Registered
<1>12. InStep'
  BY <1>5, <1>7 DEF InStep, Silent, Fresh
<1>13. FailureCoded'
  BY <1>7 DEF FailureCoded
<1> QED
  BY <1>5, <1>8, <1>9, <1>10, <1>11, <1>12, <1>13 DEF IInv

LEMMA OpenFailsStep ==
    ASSUME IInv, OpenFails
    PROVE  IInv'
<1>1. /\ pc = "idle" /\ calls < MaxCalls /\ calls' = calls + 1
      /\ ret' = "failed" /\ failed' = "open" /\ errno' # "OK"
      /\ UNCHANGED <<pc, entry, user, fd, chall, open, link, apps, refused>>
  BY DEF OpenFails, call
<1>2. calls' \in 0 .. MaxCalls
  BY <1>1, RegisterAssumption DEF IInv, TypeOK
<1>3. TypeOK'
  BY <1>1, <1>2 DEF IInv, TypeOK
<1>4. Counted'
  <2>1. refused + Busy' <= calls' /\ Busy' = Busy
    BY <1>1 DEF IInv, TypeOK, Counted, Busy
  <2> QED  BY <1>1, <2>1 DEF IInv, Counted
<1>5. Separate' /\ Registered' /\ FailureCoded'
  BY <1>1 DEF IInv, Separate, Registered, FailureCoded
<1>6. InStep'
  BY <1>1 DEF InStep, PutSteps
<1> QED
  BY <1>1, <1>3, <1>4, <1>5, <1>6 DEF IInv

\* A request goes out on a silent connection.
LEMMA RequestStep ==
    ASSUME IInv, NEW type \in {"GETCHALLENGE", "SETUSER", "REGISTER"},
           NEW next \in {"await_challenge", "await_user", "await_register"},
           pc \in PutSteps, Request(type, next),
           next = "await_challenge" => type = "GETCHALLENGE",
           next = "await_user" => type = "SETUSER",
           next = "await_register" => type = "REGISTER" /\ pc = "register"
    PROVE  IInv'
<1> DEFINE r == [type |-> type, chall |-> chall]
<1>1. /\ link' = [link EXCEPT ![fd].req = Append(@, r)]
      /\ GoOn(next) /\ chall' = chall /\ pc # "idle"
  BY DEF Request, PutSteps
<1>2. fd \in Fds /\ link[fd] \in Links
  BY <1>1, CallFacts
<1>3. r \in Requests /\ r.type = type
  BY DEF IInv, TypeOK, Requests
<1> HIDE DEF r
<1>4. link[fd].req = <<>> /\ link[fd].ans = <<>>
  BY DEF IInv, InStep, Silent
<1>5. link' = [link EXCEPT ![fd] = [link[fd] EXCEPT !.req = Append(link[fd].req, r)]]
  BY <1>1
<1>6. Append(link[fd].req, r) = <<r>> /\ <<r>> \in Seq(Requests)
  BY <1>3, <1>4
<1>7. [link[fd] EXCEPT !.req = <<r>>] \in Links
  BY <1>2, <1>6 DEF Links
<1>8. /\ link' \in [Fds -> Links] /\ \A f \in Fds : f # fd => link'[f] = link[f]
      /\ link'[fd] = [link[fd] EXCEPT !.req = <<r>>]
  BY <1>2, <1>5, <1>6, <1>7 DEF IInv
<1>9. link'[fd].req = <<r>> /\ link'[fd].ans = <<>> /\ link'[fd].user = link[fd].user
  BY <1>2, <1>4, <1>8 DEF Links
<1>10. /\ pc' = next /\ UNCHANGED <<entry, user, fd>>
  BY <1>1 DEF GoOn
<1>11. InStep'
  <2>1. Exchanged(type)'
    BY <1>3, <1>9, <1>10 DEF Exchanged
  <2>2. pc' \notin PutSteps /\ (pc' = "await_register" => pc = "register")
    BY <1>10 DEF PutSteps
  <2> QED  BY <1>9, <1>10, <2>1, <2>2 DEF IInv, InStep
<1>12. next \in UserSteps \cup {"register", "await_register"} /\ chall' \in Challenges \cup {None}
  BY <1>1 DEF UserSteps, IInv, TypeOK
<1> QED
  BY <1>1, <1>8, <1>11, <1>12, GoOnStep

LEMMA SendStep ==
    ASSUME IInv, Send
    PROVE  IInv'
<1>1. CASE GetChallenge
  BY <1>1, RequestStep DEF GetChallenge, PutSteps
<1>2. CASE SetUser
  BY <1>2, RequestStep DEF SetUser, PutSteps
<1>3. CASE Register
  BY <1>3, RequestStep DEF Register, PutSteps
<1> QED
  BY <1>1, <1>2, <1>3 DEF Send

\* The ways a call fails in which nothing has come.
LEMMA FailsStep ==
    ASSUME IInv, PutFails \/ GetFails \/ NoAnswer
    PROVE  IInv'
<1>1. /\ pc # "idle" /\ link' = link
      /\ \E code \in {"INTERNAL_BUSY_CONDITION", "OS_RESOURCE_ERROR", "MSG_QUEUE_OVERFLOW",
                      "MSG_QUEUE_EMPTY"} : Return(code)
  BY DEF PutFails, GetFails, NoAnswer, PutSteps, TimedSteps
<1>2. link' \in [Fds -> Links]
  BY <1>1 DEF IInv
<1> QED
  BY <1>1, <1>2, ReturnStep

LEMMA PollStep ==
    ASSUME IInv, Poll
    PROVE  IInv'
<1>1. /\ pc = "await_register"
      /\ UNCHANGED <<pc, entry, user, fd, chall, ret, failed, open, link, apps, refused, calls>>
  BY DEF Poll, call
<1>2. TypeOK'
  BY <1>1 DEF IInv, TypeOK
<1>3. Counted' /\ Separate' /\ Registered'
  BY <1>1 DEF IInv, Counted, Busy, Separate, Registered
<1>4. InStep'
  BY <1>1 DEF IInv, InStep, Silent, Exchanged, Verdict
<1>5. FailureCoded'
  BY <1>1 DEF FailureCoded
<1> QED
  BY <1>1, <1>2, <1>3, <1>4, <1>5 DEF IInv

\* The answer is taken: nothing is left on the connection, and what it says is true.
LEMMA Taken ==
    ASSUME IInv, NEW step \in {"await_challenge", "await_user", "await_register"},
           Answered(step),
           NEW type, type = CASE step = "await_challenge" -> "GETCHALLENGE"
                              [] step = "await_user" -> "SETUSER"
                              [] OTHER -> "REGISTER"
    PROVE  LET a == Head(link[fd].ans)
           IN  /\ pc # "idle" /\ a \in Answers
               /\ a.type = type /\ a.ok => Verdict(type)
               /\ link' \in [Fds -> Links]
               /\ \A f \in Fds : f # fd => link'[f] = link[f]
               /\ link'[fd].req = <<>> /\ link'[fd].ans = <<>>
               /\ link'[fd].user = link[fd].user /\ link'[fd].appl = link[fd].appl
<1>1. /\ pc = step /\ link[fd].ans # <<>>
      /\ link' = [link EXCEPT ![fd] = [link[fd] EXCEPT !.ans = Tail(link[fd].ans)]]
      /\ pc # "idle"
  BY DEF Answered
<1>2. fd \in Fds /\ link[fd] \in Links
  BY <1>1, CallFacts
<1>3. Exchanged(type)
  BY <1>1 DEF IInv, InStep
<1>4. PICK a \in Answers : /\ link[fd].req = <<>> /\ link[fd].ans = <<a>>
                           /\ a.type = type /\ a.ok => Verdict(type)
  BY <1>1, <1>3 DEF Exchanged
<1>5. Head(link[fd].ans) = a /\ Tail(link[fd].ans) = <<>>
  BY <1>4
<1>6. [link[fd] EXCEPT !.ans = <<>>] \in Links
  <2>1. <<>> \in Seq(Answers)
    OBVIOUS
  <2> QED  BY <1>2, <2>1 DEF Links
<1>7. /\ link' \in [Fds -> Links] /\ \A f \in Fds : f # fd => link'[f] = link[f]
      /\ link'[fd] = [link[fd] EXCEPT !.ans = <<>>]
  BY <1>1, <1>2, <1>5, <1>6 DEF IInv
<1>8. /\ link'[fd].req = <<>> /\ link'[fd].ans = <<>>
      /\ link'[fd].user = link[fd].user /\ link'[fd].appl = link[fd].appl
  BY <1>2, <1>4, <1>7 DEF Links
<1> QED
  BY <1>1, <1>4, <1>5, <1>7, <1>8

LEMMA ChallengeAnswerStep ==
    ASSUME IInv, ChallengeAnswer
    PROVE  IInv'
<1> DEFINE a == Head(link[fd].ans)
<1>1. Answered("await_challenge") /\ pc = "await_challenge"
  BY DEF ChallengeAnswer, Answered
<1>2. /\ pc # "idle" /\ a \in Answers /\ link' \in [Fds -> Links]
      /\ \A f \in Fds : f # fd => link'[f] = link[f]
      /\ link'[fd].req = <<>> /\ link'[fd].ans = <<>>
  BY <1>1, Taken
<1>3. \/ chall' = a.chall /\ GoOn("set_user")
      \/ Return("REG_OS_RESOURCE_ERROR")
  BY DEF ChallengeAnswer
<1> HIDE DEF a
<1>4. CASE chall' = a.chall /\ GoOn("set_user")
  <2>1. pc' = "set_user" /\ fd' = fd
    BY <1>4 DEF GoOn
  <2>2. InStep'
    BY <1>2, <2>1 DEF InStep, Silent
  <2>3. chall' \in Challenges \cup {None} /\ "set_user" \in UserSteps
    BY <1>2, <1>4 DEF Answers, UserSteps
  <2> QED  BY <1>2, <1>4, <2>2, <2>3, GoOnStep
<1>5. CASE Return("REG_OS_RESOURCE_ERROR")
  BY <1>2, <1>5, ReturnStep
<1> QED
  BY <1>3, <1>4, <1>5

LEMMA UserAnswerStep ==
    ASSUME IInv, UserAnswer
    PROVE  IInv'
<1> DEFINE a == Head(link[fd].ans)
<1>1. Answered("await_user") /\ pc = "await_user"
  BY DEF UserAnswer, Answered
<1>2. /\ pc # "idle" /\ a \in Answers /\ link' \in [Fds -> Links]
      /\ a.type = "SETUSER" /\ a.ok => Verdict("SETUSER")
      /\ \A f \in Fds : f # fd => link'[f] = link[f]
      /\ link'[fd].req = <<>> /\ link'[fd].ans = <<>> /\ link'[fd].user = link[fd].user
  BY <1>1, Taken
<1>3. \/ a.type = "SETUSER" /\ a.ok /\ GoOn("register") /\ UNCHANGED chall
      \/ Return("REG_EXT_EQUIPMENT_NOT_SUPPORTED")
  BY DEF UserAnswer
<1> HIDE DEF a
<1>4. CASE a.type = "SETUSER" /\ a.ok /\ GoOn("register") /\ UNCHANGED chall
  <2>1. pc' = "register" /\ fd' = fd /\ user' = user
    BY <1>4 DEF GoOn
  <2>2. link'[fd].user
    BY <1>2, <1>4 DEF Verdict
  <2>3. InStep'
    BY <1>2, <2>1, <2>2 DEF InStep, Silent
  <2>4. chall' \in Challenges \cup {None}
    BY <1>4 DEF IInv, TypeOK
  <2> QED  BY <1>2, <1>4, <2>3, <2>4, GoOnStep
<1>5. CASE Return("REG_EXT_EQUIPMENT_NOT_SUPPORTED")
  BY <1>2, <1>5, ReturnStep
<1> QED
  BY <1>3, <1>4, <1>5

\* A call that succeeds hands its connection over to the program, or closes it.
LEMMA RegisterAnswerStep ==
    ASSUME IInv, RegisterAnswer
    PROVE  IInv'
<1> DEFINE a == Head(link[fd].ans)
           n == [fd |-> fd, user |-> user]
<1>1. Answered("await_register") /\ pc = "await_register"
  BY DEF RegisterAnswer, Answered
<1>2. /\ pc # "idle" /\ a \in Answers /\ link' \in [Fds -> Links]
      /\ a.type = "REGISTER" /\ a.ok => Verdict("REGISTER")
      /\ \A f \in Fds : f # fd => link'[f] = link[f]
      /\ link'[fd].req = <<>> /\ link'[fd].ans = <<>>
      /\ link'[fd].user = link[fd].user /\ link'[fd].appl = link[fd].appl
  BY <1>1, Taken
<1>3. \/ a.type = "REGISTER" /\ a.ok /\ Conclude
      \/ Return("OK")
  BY DEF RegisterAnswer
<1> HIDE DEF a
<1>4. ASSUME a.type = "REGISTER" /\ a.ok, Conclude  PROVE IInv'
  <2>1. /\ pc' = "idle" /\ fd' = -1 /\ ret' = "ok" /\ errno' = "OK"
        /\ UNCHANGED <<entry, user, chall, failed, refused, calls>>
    BY <1>4 DEF Conclude
  <2>2. \/ open' = open \ {fd} /\ apps' = apps
        \/ open' = open /\ apps' = apps \cup {n}
    BY <1>4 DEF Conclude
  <2>3. link'[fd].appl /\ (user => link'[fd].user)
    BY <1>1, <1>2, <1>4 DEF Verdict, IInv, InStep
  <2>4. /\ fd \in Fds /\ fd \in open
        /\ \A b \in apps : b.fd \in Fds /\ b.fd # fd
    BY <1>2, CallFacts
  <2>5. n \notin apps /\ n \in [fd : Fds, user : BOOLEAN] /\ n.fd = fd /\ n.user = user
    BY <2>4 DEF IInv, TypeOK
  <2> HIDE DEF n
  <2>6. Counted'
    <3>1. /\ Cardinality(open) \in Nat /\ Cardinality(apps) \in Nat
          /\ Cardinality(open) = Cardinality(apps) + refused + 1
          /\ refused \in Nat /\ calls \in Nat /\ refused + 1 <= calls
      BY <1>2, CallFacts
    <3>2. IsFiniteSet(apps') /\ Cardinality(open') = Cardinality(apps') + refused
      <4>1. CASE open' = open \ {fd} /\ apps' = apps
        <5>1. Cardinality(open') = Cardinality(open) - 1
          BY <2>4, <4>1, OpenFinite DEF IInv
        <5> QED  BY <3>1, <4>1, <5>1 DEF IInv, Counted
      <4>2. CASE open' = open /\ apps' = apps \cup {n}
        <5>1. IsFiniteSet(apps') /\ Cardinality(apps') = Cardinality(apps) + 1
          BY <2>5, <4>2, AppsFinite DEF IInv
        <5> QED  BY <3>1, <4>2, <5>1
      <4> QED  BY <2>2, <4>1, <4>2
    <3>3. refused + 0 = refused /\ refused <= calls
      BY <3>1
    <3>4. Cardinality(apps') \in Nat
      BY <3>2, FS_CardinalityType
    <3>5. Busy' = 0 /\ refused' = refused /\ calls' = calls
      BY <2>1 DEF Busy
    <3>6. Cardinality(open') = Cardinality(apps') + refused + 0
      BY <3>1, <3>2, <3>4
    <3> QED  BY <3>2, <3>3, <3>5, <3>6 DEF Counted
  <2>7. TypeOK'
    <3>1. DOMAIN link' = Fds /\ \A f \in Fds : link'[f].chall \in Challenges \cup {None}
      BY <1>2 DEF Links
    <3>2. open' \subseteq Fds /\ apps' \subseteq [fd : Fds, user : BOOLEAN]
      BY <2>2, <2>5 DEF IInv, TypeOK
    <3> QED  BY <2>1, <3>1, <3>2 DEF IInv, TypeOK
  <2>8. Separate'
    <3>1. \A b \in apps' : b \in apps \/ (b = n /\ open' = open)
      BY <2>2
    <3>2. \A b \in apps : b.fd \in open /\ b.fd \in open'
      BY <2>2, <2>4 DEF IInv, Separate
    <3>3. \A b, c \in apps' : b.fd = c.fd => b = c
      BY <2>4, <2>5, <3>1 DEF IInv, Separate
    <3> QED  BY <2>1, <2>4, <2>5, <3>1, <3>2, <3>3 DEF Separate
  <2>9. Registered'
    <3>1. ASSUME NEW b \in apps
          PROVE  /\ b.fd \in open' /\ link'[b.fd].appl /\ (b.user => link'[b.fd].user)
                 /\ link'[b.fd].req = <<>> /\ link'[b.fd].ans = <<>>
      BY <1>2, <2>2, <2>4 DEF IInv, Registered
    <3>2. n \in apps' =>
             /\ n.fd \in open' /\ link'[n.fd].appl /\ (n.user => link'[n.fd].user)
             /\ link'[n.fd].req = <<>> /\ link'[n.fd].ans = <<>>
      BY <1>2, <2>2, <2>3, <2>4, <2>5
    <3> QED  BY <2>2, <3>1, <3>2 DEF Registered
  <2>10. InStep' /\ FailureCoded'
    BY <2>1 DEF InStep, PutSteps, FailureCoded
  <2> QED  BY <1>2, <2>6, <2>7, <2>8, <2>9, <2>10 DEF IInv
<1>5. CASE Return("OK")
  BY <1>1, <1>2, <1>5, ReturnStep
<1> QED
  BY <1>3, <1>4, <1>5

\* An application that is released takes its descriptor along and no other.
LEMMA ReleaseStep ==
    ASSUME IInv, Release
    PROVE  IInv'
<1>1. PICK a \in apps : apps' = apps \ {a} /\ open' = open \ {a.fd}
  BY DEF Release
<1>2. /\ pc = "idle"
      /\ UNCHANGED <<pc, entry, user, fd, chall, ret, errno, failed, link, refused, calls>>
  BY DEF Release, call, answer
<1>3. a.fd \in open /\ \A b \in apps' : b \in apps /\ b.fd # a.fd
  BY <1>1 DEF IInv, Separate
<1>4. Counted'
  <2>1. Cardinality(open') = Cardinality(open) - 1 /\ Cardinality(open) \in Nat
    BY <1>1, <1>3, OpenFinite DEF IInv
  <2>2. /\ IsFiniteSet(apps') /\ Cardinality(apps') = Cardinality(apps) - 1
        /\ Cardinality(apps) \in Nat
    BY <1>1, AppsFinite DEF IInv
  <2>3. refused \in Nat /\ Busy = 0 /\ Busy' = 0
    BY <1>2 DEF IInv, TypeOK, Busy
  <2>4. Cardinality(open) = Cardinality(apps) + refused + 0 /\ refused + 0 <= calls
    BY <2>3 DEF IInv, Counted
  <2>5. Cardinality(open') = Cardinality(apps') + refused + 0
    BY <2>1, <2>2, <2>3, <2>4
  <2> QED  BY <1>2, <2>2, <2>3, <2>4, <2>5 DEF Counted
<1>5. TypeOK'
  BY <1>1, <1>2 DEF IInv, TypeOK
<1>6. Separate' /\ Registered'
  BY <1>1, <1>2, <1>3 DEF IInv, Separate, Registered
<1>7. InStep' /\ FailureCoded'
  BY <1>2 DEF InStep, PutSteps, IInv, FailureCoded
<1> QED
  BY <1>2, <1>4, <1>5, <1>6, <1>7 DEF IInv

--------------------------------------------------------------------------------
(* The steps of the server *)

\* The server takes the oldest request off the connection and puts an answer on it,
\* whose verdict is what it then knows.
LEMMA ServeFacts ==
    ASSUME IInv, NEW f \in Fds, Serve(f)
    PROVE  \E l \in Links, a \in Answers, r \in Requests :
              /\ link' = [link EXCEPT ![f] = [l EXCEPT !.ans = Append(@, a)]]
              /\ r = Head(link[f].req) /\ link[f].req # <<>>
              /\ l.req = Tail(link[f].req) /\ l.ans = link[f].ans
              /\ a.type = "SETUSER" => r.type = "SETUSER" /\ l.user = a.ok
              /\ a.type = "REGISTER" => r.type = "REGISTER" /\ l.appl = a.ok
              /\ r.type # "SETUSER" => l.user = link[f].user
<1> DEFINE r == Head(link[f].req)
           rest == [link[f] EXCEPT !.req = Tail(@)]
           Answer(type, c, ok) == [type |-> type, chall |-> c, ok |-> ok]
           Replied(l, a) == link' = [link EXCEPT ![f] = [l EXCEPT !.ans = Append(@, a)]]
           Right(l, a) == /\ l.req = rest.req /\ l.ans = rest.ans
                          /\ a.type = "SETUSER" => r.type = "SETUSER" /\ l.user = a.ok
                          /\ a.type = "REGISTER" => r.type = "REGISTER" /\ l.appl = a.ok
                          /\ r.type # "SETUSER" => l.user = rest.user
<1>1. link[f].req # <<>> /\ link[f] \in Links
  BY DEF Serve, IInv
<1>2. r \in Requests /\ Tail(link[f].req) \in Seq(Requests)
  <2>1. link[f].req \in Seq(Requests)
    BY <1>1 DEF Links
  <2> QED  BY <1>1, <2>1
<1>3. /\ rest \in Links /\ rest.req = Tail(link[f].req) /\ rest.ans = link[f].ans
      /\ rest.user = link[f].user
  BY <1>1, <1>2 DEF Links
<1>4. \/ /\ r.type = "GETCHALLENGE"
         /\ \E c \in Challenges \cup {None} :
               Replied([rest EXCEPT !.chall = c], Answer("GETCHALLENGE", c, TRUE))
      \/ /\ r.type = "SETUSER"
         /\ \E ok \in BOOLEAN : Replied([rest EXCEPT !.user = ok], Answer("SETUSER", None, ok))
      \/ /\ r.type = "REGISTER"
         /\ \E ok \in BOOLEAN : Replied([rest EXCEPT !.appl = ok], Answer("REGISTER", None, ok))
      \/ Replied(rest, Answer("OTHER", None, TRUE))
  BY DEF Serve
<1> HIDE DEF r, rest
<1>5. \A c \in Challenges \cup {None}, ok \in BOOLEAN,
         type \in {"GETCHALLENGE", "SETUSER", "REGISTER", "OTHER"} :
            /\ Answer(type, c, ok) \in Answers
            /\ Answer(type, c, ok).type = type /\ Answer(type, c, ok).ok = ok
  BY DEF Answers
<1> HIDE DEF Answer
<1>6. ASSUME NEW c \in Challenges \cup {None}, r.type = "GETCHALLENGE",
             Replied([rest EXCEPT !.chall = c], Answer("GETCHALLENGE", c, TRUE))
      PROVE  \E l \in Links, a \in Answers : Replied(l, a) /\ Right(l, a)
  <2>1. /\ [rest EXCEPT !.chall = c] \in Links
        /\ [rest EXCEPT !.chall = c].req = rest.req
        /\ [rest EXCEPT !.chall = c].ans = rest.ans
        /\ [rest EXCEPT !.chall = c].user = rest.user
    BY <1>3 DEF Links
  <2>2. LET a == Answer("GETCHALLENGE", c, TRUE)
        IN  a \in Answers /\ a.type = "GETCHALLENGE" /\ a.ok = TRUE
    BY <1>5
  <2> QED  BY <1>6, <2>1, <2>2, Zenon
<1>7. ASSUME NEW ok \in BOOLEAN, r.type = "SETUSER",
             Replied([rest EXCEPT !.user = ok], Answer("SETUSER", None, ok))
      PROVE  \E l \in Links, a \in Answers : Replied(l, a) /\ Right(l, a)
  <2>1. /\ [rest EXCEPT !.user = ok] \in Links
        /\ [rest EXCEPT !.user = ok].req = rest.req
        /\ [rest EXCEPT !.user = ok].ans = rest.ans
        /\ [rest EXCEPT !.user = ok].user = ok
    BY <1>3 DEF Links
  <2>2. LET a == Answer("SETUSER", None, ok)
        IN  a \in Answers /\ a.type = "SETUSER" /\ a.ok = ok
    BY <1>5
  <2> QED  BY <1>7, <2>1, <2>2, Zenon
<1>8. ASSUME NEW ok \in BOOLEAN, r.type = "REGISTER",
             Replied([rest EXCEPT !.appl = ok], Answer("REGISTER", None, ok))
      PROVE  \E l \in Links, a \in Answers : Replied(l, a) /\ Right(l, a)
  <2>1. /\ [rest EXCEPT !.appl = ok] \in Links
        /\ [rest EXCEPT !.appl = ok].req = rest.req
        /\ [rest EXCEPT !.appl = ok].ans = rest.ans
        /\ [rest EXCEPT !.appl = ok].user = rest.user
        /\ [rest EXCEPT !.appl = ok].appl = ok
    BY <1>3 DEF Links
  <2>2. LET a == Answer("REGISTER", None, ok)
        IN  a \in Answers /\ a.type = "REGISTER" /\ a.ok = ok
    BY <1>5
  <2> QED  BY <1>8, <2>1, <2>2, Zenon
<1>9. ASSUME Replied(rest, Answer("OTHER", None, TRUE))
      PROVE  \E l \in Links, a \in Answers : Replied(l, a) /\ Right(l, a)
  <2>1. LET a == Answer("OTHER", None, TRUE)
        IN  a \in Answers /\ a.type = "OTHER"
    BY <1>5
  <2>2. Right(rest, Answer("OTHER", None, TRUE))
    BY <2>1
  <2> HIDE DEF Replied, Right
  <2> QED  BY <1>3, <1>9, <2>1, <2>2
<1>10. \E l \in Links, a \in Answers : Replied(l, a) /\ Right(l, a)
  <2> HIDE DEF Replied, Right
  <2> QED  BY <1>4, <1>6, <1>7, <1>8, <1>9, Zenon
<1> QED
  <2>1. PICK l \in Links, a \in Answers : Replied(l, a) /\ Right(l, a)
    BY <1>10
  <2> QED  BY <1>1, <1>2, <1>3, <2>1, Zenon DEF r

\* Only the call under way, or a connection that nobody holds any more, has a
\* request for the server to answer.
LEMMA ServeStep ==
    ASSUME IInv, NEW f \in Fds, Serve(f)
    PROVE  IInv'
<1>1. PICK l \in Links, a \in Answers, r \in Requests :
          /\ link' = [link EXCEPT ![f] = [l EXCEPT !.ans = Append(@, a)]]
          /\ r = Head(link[f].req) /\ link[f].req # <<>>
          /\ l.req = Tail(link[f].req) /\ l.ans = link[f].ans
          /\ a.type = "SETUSER" => r.type = "SETUSER" /\ l.user = a.ok
          /\ a.type = "REGISTER" => r.type = "REGISTER" /\ l.appl = a.ok
          /\ r.type # "SETUSER" => l.user = link[f].user
  BY ServeFacts
<1>2. UNCHANGED <<pc, entry, user, fd, chall, ret, errno, failed, open, apps, refused, calls>>
  BY DEF Serve, call, answer
<1>3. [l EXCEPT !.ans = Append(@, a)] \in Links
  <2>1. Append(l.ans, a) \in Seq(Answers)
    BY DEF Links
  <2> QED  BY <2>1 DEF Links
<1>4. /\ link' \in [Fds -> Links] /\ \A g \in Fds : g # f => link'[g] = link[g]
      /\ link'[f] = [l EXCEPT !.ans = Append(@, a)]
  BY <1>1, <1>3 DEF IInv
<1>5. /\ link'[f].req = Tail(link[f].req) /\ link'[f].ans = Append(link[f].ans, a)
      /\ link'[f].user = l.user /\ link'[f].appl = l.appl
  BY <1>1, <1>4 DEF Links
<1>6. \A b \in apps : b.fd \in Fds /\ b.fd # f
  BY <1>1 DEF IInv, TypeOK, Registered
<1>7. TypeOK'
  <2>1. DOMAIN link' = Fds /\ \A g \in Fds : link'[g].chall \in Challenges \cup {None}
    BY <1>4 DEF Links
  <2> QED  BY <1>2, <2>1 DEF IInv, TypeOK
<1>8. Counted' /\ Separate' /\ FailureCoded'
  BY <1>2 DEF IInv, Counted, Busy, Separate, FailureCoded
<1>9. Registered'
  BY <1>2, <1>4, <1>6 DEF IInv, Registered
<1>10. InStep'
  <2>1. CASE pc = "idle"
    BY <1>2, <2>1 DEF InStep, PutSteps
  <2>2. CASE pc # "idle" /\ fd # f
    <3>1. link'[fd] = link[fd]
      BY <1>4, <2>2 DEF IInv, TypeOK
    <3> QED  BY <1>2, <3>1 DEF IInv, InStep, Silent, Exchanged, Verdict
  <2>3. CASE pc # "idle" /\ fd = f
    <3>1. ~Silent(fd)
      BY <1>1, <2>3 DEF Silent
    <3>2. ASSUME NEW type \in {"GETCHALLENGE", "SETUSER", "REGISTER"}, Exchanged(type)
          PROVE  /\ r.type = type
                 /\ Exchanged(type)'
      <4>1. r.type = type /\ link[fd].req = <<r>> /\ link[fd].ans = <<>>
        BY <1>1, <2>3, <3>2 DEF Exchanged
      <4>2. link'[fd].req = <<>> /\ link'[fd].ans = <<a>>
        BY <1>5, <2>3, <4>1
      <4>3. a.type = type /\ a.ok => Verdict(type)'
        BY <1>1, <1>2, <1>5, <2>3, <4>1 DEF Verdict
      <4> QED  BY <1>2, <4>1, <4>2, <4>3 DEF Exchanged
    <3>3. r.type # "SETUSER" => link'[fd].user = link[fd].user
      BY <1>1, <1>5, <2>3
    <3> QED  BY <1>2, <3>1, <3>2, <3>3 DEF IInv, InStep, PutSteps
  <2> QED  BY <2>1, <2>2, <2>3
<1> QED
  BY <1>4, <1>7, <1>8, <1>9, <1>10 DEF IInv

LEMMA ServerClosesStep ==
    ASSUME IInv, NEW f \in Fds, ServerCloses(f)
    PROVE  IInv'
<1>1. link' = [link EXCEPT ![f] = [link[f] EXCEPT !.eof = TRUE]]
  BY DEF ServerCloses
<1>2. UNCHANGED <<pc, entry, user, fd, chall, ret, errno, failed, open, apps, refused, calls>>
  BY DEF ServerCloses, call, answer
<1>3. link[f] \in Links /\ [link[f] EXCEPT !.eof = TRUE] \in Links
  BY DEF IInv, Links
<1>4. link' \in [Fds -> Links]
  BY <1>1, <1>3 DEF IInv
<1>5. \A g \in Fds : /\ link'[g].req = link[g].req /\ link'[g].ans = link[g].ans
                     /\ link'[g].user = link[g].user /\ link'[g].appl = link[g].appl
                     /\ link'[g].chall = link[g].chall
  BY <1>1, <1>3 DEF IInv, Links
<1>6. TypeOK'
  BY <1>2, <1>4, <1>5 DEF IInv, TypeOK
<1>7. Counted' /\ Separate' /\ FailureCoded'
  BY <1>2 DEF IInv, Counted, Busy, Separate, FailureCoded
<1>8. Registered'
  <2>1. \A b \in apps : b.fd \in Fds
    BY DEF IInv, TypeOK
  <2> QED  BY <1>2, <1>5, <2>1 DEF IInv, Registered
<1>9. InStep'
  <2>1. CASE pc = "idle"
    BY <1>2, <2>1 DEF InStep, PutSteps
  <2>2. CASE pc # "idle"
    <3>1. fd \in Fds
      BY <2>2 DEF IInv, TypeOK
    <3> QED  BY <1>2, <1>5, <3>1 DEF IInv, InStep, Silent, Exchanged, Verdict
  <2> QED  BY <2>1, <2>2
<1> QED
  BY <1>4, <1>6, <1>7, <1>8, <1>9 DEF IInv

LEMMA StutterStep ==
    ASSUME IInv, UNCHANGED vars
    PROVE  IInv'
<1>1. UNCHANGED <<pc, entry, user, fd, chall, ret, errno, failed, open, link, apps, refused, calls>>
  BY Zenon DEF vars, call, answer
<1> QED
  BY <1>1 DEF IInv, TypeOK, Counted, Busy, Separate, Registered, InStep, Silent, Exchanged,
              Verdict, FailureCoded

LEMMA StepInv == IInv /\ [Next]_vars => IInv'
BY OpenStep, OpenFailsStep, ReleaseStep, SendStep, FailsStep, PollStep,
   ChallengeAnswerStep, UserAnswerStep, RegisterAnswerStep, ServeStep, ServerClosesStep,
   StutterStep DEF Next, Receive

LEMMA InitInv == Init => IInv
<1> SUFFICES ASSUME Init  PROVE IInv
  OBVIOUS
<1>1. /\ pc = "idle" /\ entry = "query" /\ user = FALSE /\ fd = -1 /\ chall = None
      /\ ret = None /\ errno = "OK" /\ failed = None
      /\ open = {} /\ link = [f \in Fds |-> Fresh]
      /\ apps = {} /\ refused = 0 /\ calls = 0
  BY DEF Init
<1>2. Fresh \in Links /\ Fresh.chall = None
  <2>1. <<>> \in Seq(Requests) /\ <<>> \in Seq(Answers)
    OBVIOUS
  <2> QED  BY <2>1 DEF Fresh, Links
<1>3. link \in [Fds -> Links]
  BY <1>1, <1>2
<1>4. TypeOK
  <2>1. /\ DOMAIN link = Fds /\ \A f \in Fds : link[f].chall \in Challenges \cup {None}
    BY <1>1, <1>2
  <2>2. 0 \in 0 .. MaxCalls
    BY RegisterAssumption
  <2>3. open \subseteq Fds /\ apps \subseteq [fd : Fds, user : BOOLEAN]
    BY <1>1
  <2>4. entry \in Entries /\ ret \in {"ok", "failed", None} /\ user \in BOOLEAN
    BY <1>1 DEF Entries
  <2> QED  BY <1>1, <2>1, <2>2, <2>3, <2>4 DEF TypeOK
<1>5. Counted
  BY <1>1, FS_EmptySet DEF Counted, Busy
<1>6. Separate /\ Registered /\ InStep /\ FailureCoded
  BY <1>1 DEF Separate, Registered, InStep, PutSteps, FailureCoded, None
<1> QED
  BY <1>3, <1>4, <1>5, <1>6 DEF IInv

--------------------------------------------------------------------------------
(* The theorems *)

\* The inductive invariant holds of every reachable state, whatever the server
\* answers and wherever a call fails.
THEOREM Invariance == Spec => []IInv
<1> QED
  BY InitInv, StepInv, PTL DEF Spec

\* The variables keep their types: the state of the calls is all that they reach.
THEOREM TypeCorrect == Spec => []TypeOK
<1>1. IInv => TypeOK
  BY DEF IInv
<1> QED
  BY <1>1, Invariance, PTL

\* capi2_register and rcapi_register return the descriptor of a connection only when
\* the server has registered the application on it, with the user authenticated
\* there if one was named, and with nothing of the exchange left on it.
THEOREM RegisteredForReal == Spec => []Registered
<1>1. IInv => Registered
  BY DEF IInv
<1> QED
  BY <1>1, Invariance, PTL

\* No call leaves a socket open or closes one of an application, but for the early
\* return of rcapi_register from a failed authentication.
THEOREM DescriptorsAccounted == Spec => []Descriptors
<1>1. IInv => Descriptors
  <2> SUFFICES ASSUME IInv  PROVE Descriptors
    OBVIOUS
  <2>1. {a.fd : a \in apps} \subseteq open
    BY DEF IInv, Separate
  <2>2. Cardinality(open) = Cardinality(apps) + refused + (IF pc = "idle" THEN 0 ELSE 1)
    BY DEF IInv, Counted, Busy
  <2> QED  BY <2>1, <2>2 DEF IInv, Descriptors
<1> QED
  BY <1>1, Invariance, PTL

\* A failed call leaves a code in capi2_errno, unless it was the last request that
\* got the wrong answer.
THEOREM FailuresCoded == Spec => []FailureCoded
<1>1. IInv => FailureCoded
  BY DEF IInv
<1> QED
  BY <1>1, Invariance, PTL
================================================================================
