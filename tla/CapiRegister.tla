----------------------------- MODULE CapiRegister ------------------------------
(****************************************************************************)
(* The calls of the remote CAPI library that make a connection of their     *)
(* own: capi2_register (rcapi2.c), rcapi_register with capi2_checkuser2     *)
(* (userchk2.c), and the queries rcapi_get_manufacturer, _version, _serial  *)
(* and _profile (rcapi2.c), which differ in what they copy out only.        *)
(*                                                                          *)
(* A call opens a socket, authenticates the CAPI user with a challenge of   *)
(* the server and a hash of it, registers, and keeps the socket: its        *)
(* descriptor is the application ID.  A query closes its socket again.      *)
(* One call runs at a time.  Messages are whole here (RcapiSend,            *)
(* RcapiReceive); the server and the network are external.                  *)
(****************************************************************************)
EXTENDS Integers, Sequences, FiniteSets, FiniteSetsExt

CONSTANTS Fds,         \* the descriptors the process may get
          Challenges,  \* the challenges of the server
          MaxCalls,    \* bound: how many calls there are
          MayClose     \* TRUE: the server may close a connection

ASSUME RegisterAssumption ==
    /\ Fds \subseteq Nat \ {0}
    /\ IsFiniteSet(Fds)
    /\ MaxCalls \in Nat
    /\ MayClose \in BOOLEAN

None == "none"

\* The functions; rcapi_register is capi2_register but for where the user comes
\* from and for what it does when the authentication fails.
Entries == {"capi2_register", "rcapi_register", "query"}

VARIABLES
    pc,        \* the step the call is at, "idle" between two calls
    entry,     \* which function it is
    user,      \* whether it authenticates a user
    fd,        \* its descriptor, or -1
    chall,     \* the challenge it has received
    ret,       \* what the last call has returned: "ok", "failed", None at first
    errno,     \* capi2_errno, "OK" for 0
    open,      \* the open descriptors
    link,      \* of each descriptor, its connection: what is on the way, whether it
               \* has ended, and what the server knows of it
    apps,      \* history: the applications of the program, [fd, user]
    failed,    \* history: the step at which the last call has failed
    refused,   \* history: how often rcapi_register has failed to authenticate
    calls      \* how many calls have begun

call == <<pc, entry, user, fd, chall>>
answer == <<ret, errno, failed>>
vars == <<call, answer, open, link, apps, refused, calls>>

\* A new connection: no request, no answer, nobody authenticated or registered.
Fresh == [req |-> <<>>, ans |-> <<>>, eof |-> FALSE,
          chall |-> None, user |-> FALSE, appl |-> FALSE]

Init ==
    /\ pc = "idle" /\ entry = "query" /\ user = FALSE /\ fd = -1 /\ chall = None
    /\ ret = None /\ errno = "OK" /\ failed = None
    /\ open = {} /\ link = [f \in Fds |-> Fresh]
    /\ apps = {} /\ refused = 0 /\ calls = 0

--------------------------------------------------------------------------------
(* A call *)

\* rcapi_open has a socket: the lowest descriptor that is free.  A user is named
\* by CAPI_USER or by the argument auth; a query names none.
Open ==
    /\ pc = "idle" /\ calls < MaxCalls /\ calls' = calls + 1
    /\ Fds # open
    /\ \E e \in Entries, u \in BOOLEAN :
          /\ e = "query" => ~u
          /\ entry' = e /\ user' = u
          /\ pc' = IF u THEN "get_challenge" ELSE "register"
    /\ fd' = Min(Fds \ open)
    /\ open' = open \cup {fd'}
    /\ link' = [link EXCEPT ![fd'] = Fresh]
    /\ chall' = None
    /\ UNCHANGED <<answer, apps, refused>>

\* capi_tcp_open fails: no host, no descriptor, no server.
OpenFails ==
    /\ pc = "idle" /\ calls < MaxCalls /\ calls' = calls + 1
    /\ ret' = "failed" /\ failed' = "open"
    /\ errno' \in {"REG_CAPI_NOT_INSTALLED", "CAPI_NOT_INSTALLED"}
    /\ UNCHANGED <<call, open, link, apps, refused>>

\* The steps at which a request is sent, and those at which its answer is awaited.
UserSteps == {"get_challenge", "await_challenge", "set_user", "await_user"}
PutSteps == {"get_challenge", "set_user", "register"}
TimedSteps == {"await_challenge", "await_user"}

\* Variant: every failed authentication returns without closing the socket.
ReturnOpen(code) ==
    /\ pc' = "idle" /\ fd' = -1 /\ ret' = "failed" /\ errno' = code /\ failed' = pc
    /\ open' = (IF pc \in UserSteps THEN open ELSE open \ {fd})
    /\ refused' = (IF pc \in UserSteps /\ entry = "rcapi_register" THEN refused + 1 ELSE refused)
    /\ UNCHANGED <<entry, user, chall, apps, calls>>

\* error: the call closes its socket and returns a negative value.  Only
\* rcapi_register returns from a failed authentication without closing it.
Return(code) ==
    /\ pc' = "idle" /\ fd' = -1
    /\ ret' = "failed" /\ errno' = code /\ failed' = pc
    /\ IF entry = "rcapi_register" /\ pc \in UserSteps
         THEN open' = open /\ refused' = refused + 1
         ELSE open' = open \ {fd} /\ refused' = refused
    /\ UNCHANGED <<entry, user, chall, apps, calls>>

\* The call goes on: its last put or get has set capi2_errno to 0.
GoOn(next) ==
    /\ pc' = next
    /\ errno' = "OK"
    /\ UNCHANGED <<entry, user, fd, ret, failed, open, apps, refused, calls>>

\* capi2_put_message: the request is on its way.
Request(type, next) ==
    /\ link' = [link EXCEPT ![fd].req = Append(@, [type |-> type, chall |-> chall])]
    /\ GoOn(next)
    /\ UNCHANGED chall

GetChallenge == pc = "get_challenge" /\ Request("GETCHALLENGE", "await_challenge")

\* The hash is of the user, the challenge and the password.
SetUser == pc = "set_user" /\ Request("SETUSER", "await_user")

\* REGISTER_REQ, or the request of the query.
Register == pc = "register" /\ Request("REGISTER", "await_register")

\* capi2_put_message fails (RcapiSend).
PutFails ==
    /\ pc \in PutSteps
    /\ \E code \in {"INTERNAL_BUSY_CONDITION", "OS_RESOURCE_ERROR", "MSG_QUEUE_OVERFLOW"} :
          Return(code)
    /\ UNCHANGED link

\* capi2_wait_for_signal fails, or capi2_get_message in any way but an empty queue.
GetFails ==
    /\ pc \in TimedSteps \cup {"await_register"}
    /\ \E code \in {"INTERNAL_BUSY_CONDITION", "OS_RESOURCE_ERROR"} \cup
                   (IF pc \in TimedSteps THEN {"MSG_QUEUE_OVERFLOW"} ELSE {}) :
          Return(code)
    /\ UNCHANGED link

\* No answer within MAXRTT, or the end of the connection, which capi2_get_message
\* takes for an empty queue.
NoAnswer ==
    /\ pc \in TimedSteps
    /\ link[fd].ans = <<>>
    /\ Return("MSG_QUEUE_EMPTY")
    /\ UNCHANGED link

\* The loop around capi2_get_message finds an empty queue, or the end of the
\* connection: it calls it again.
Poll ==
    /\ pc = "await_register"
    /\ link[fd].ans = <<>>
    /\ errno' = "MSG_QUEUE_EMPTY"
    /\ UNCHANGED <<call, ret, failed, open, link, apps, refused, calls>>

\* capi2_get_message hands over the next answer.
Answered(step) ==
    /\ pc = step
    /\ link[fd].ans # <<>>
    /\ link' = [link EXCEPT ![fd].ans = Tail(@)]

\* Variant: a wrong answer leaves capi2_errno alone.
ChallengeAnswerUncoded ==
    /\ Answered("await_challenge")
    /\ LET a == Head(link[fd].ans)
       IN  IF a.type = "GETCHALLENGE" /\ a.chall # None
             THEN chall' = a.chall /\ GoOn("set_user")
             ELSE Return("OK")

ChallengeAnswer ==
    /\ Answered("await_challenge")
    /\ LET a == Head(link[fd].ans)
       IN  IF a.type = "GETCHALLENGE" /\ a.chall # None
             THEN chall' = a.chall /\ GoOn("set_user")
             ELSE Return("REG_OS_RESOURCE_ERROR")

\* Variant: info of the CONTROL_CONF is not looked at.
UserAnswerAny ==
    /\ Answered("await_user")
    /\ LET a == Head(link[fd].ans)
       IN  IF a.type = "SETUSER"
             THEN GoOn("register") /\ UNCHANGED chall
             ELSE Return("REG_EXT_EQUIPMENT_NOT_SUPPORTED")

UserAnswer ==
    /\ Answered("await_user")
    /\ LET a == Head(link[fd].ans)
       IN  IF a.type = "SETUSER" /\ a.ok
             THEN GoOn("register") /\ UNCHANGED chall
             ELSE Return("REG_EXT_EQUIPMENT_NOT_SUPPORTED")

\* The call has succeeded: the descriptor is the application ID; a query closes
\* its socket.
Conclude ==
    /\ pc' = "idle" /\ fd' = -1 /\ ret' = "ok" /\ errno' = "OK"
    /\ IF entry = "query"
         THEN open' = open \ {fd} /\ UNCHANGED apps
         ELSE apps' = apps \cup {[fd |-> fd, user |-> user]} /\ UNCHANGED open
    /\ UNCHANGED <<entry, user, chall, failed, refused, calls>>

\* Variant: info of the REGISTER_CONF is not looked at.
RegisterAnswerAny ==
    /\ Answered("await_register")
    /\ IF Head(link[fd].ans).type = "REGISTER" THEN Conclude ELSE Return("OK")

\* Variant: the loop goes on until the answer is the one that was asked for.
RegisterAnswerWaits ==
    /\ Answered("await_register")
    /\ LET a == Head(link[fd].ans)
       IN  IF a.type = "REGISTER" /\ a.ok
             THEN Conclude
             ELSE UNCHANGED <<call, answer, open, apps, refused, calls>>

\* REGISTER_CONF, or the answer to the query.  Any other answer ends at error, and
\* capi2_errno is what capi2_get_message has left there: 0.
RegisterAnswer ==
    /\ Answered("await_register")
    /\ LET a == Head(link[fd].ans)
       IN  IF a.type = "REGISTER" /\ a.ok THEN Conclude ELSE Return("OK")

\* capi2_release of an application.
Release ==
    /\ pc = "idle"
    /\ \E a \in apps : apps' = apps \ {a} /\ open' = open \ {a.fd}
    /\ UNCHANGED <<call, answer, link, refused, calls>>

--------------------------------------------------------------------------------
(* The server *)

\* The server answers the oldest request of a connection: with a challenge or
\* without, with a verdict on the user, which is right only for the challenge it
\* has sent last on this connection, with a verdict on the application, or with a
\* message that does not answer the request.
Serve(f) ==
    /\ f \in open /\ ~link[f].eof /\ link[f].req # <<>>
    /\ LET r == Head(link[f].req)
           rest == [link[f] EXCEPT !.req = Tail(@)]
           Reply(l, type, c, ok) ==
               link' = [link EXCEPT ![f] =
                   [l EXCEPT !.ans = Append(@, [type |-> type, chall |-> c, ok |-> ok])]]
       IN  \/ /\ r.type = "GETCHALLENGE"
              /\ \E c \in Challenges \cup {None} :
                    Reply([rest EXCEPT !.chall = c], "GETCHALLENGE", c, TRUE)
           \/ /\ r.type = "SETUSER"
              /\ \E ok \in BOOLEAN : /\ ok => r.chall = rest.chall
                                     /\ Reply([rest EXCEPT !.user = ok], "SETUSER", None, ok)
           \/ /\ r.type = "REGISTER"
              /\ \E ok \in BOOLEAN : Reply([rest EXCEPT !.appl = ok], "REGISTER", None, ok)
           \/ Reply(rest, "OTHER", None, TRUE)
    /\ UNCHANGED <<call, answer, open, apps, refused, calls>>

\* The server ends a connection, its requests unanswered.
ServerCloses(f) ==
    /\ MayClose /\ f \in open /\ ~link[f].eof
    /\ link' = [link EXCEPT ![f].eof = TRUE]
    /\ UNCHANGED <<call, answer, open, apps, refused, calls>>

Send == GetChallenge \/ SetUser \/ Register
Receive == ChallengeAnswer \/ UserAnswer \/ RegisterAnswer

Next == \/ Open \/ OpenFails \/ Release
        \/ Send \/ PutFails
        \/ Receive \/ NoAnswer \/ GetFails \/ Poll
        \/ \E f \in Fds : Serve(f) \/ ServerCloses(f)

Spec == Init /\ [][Next]_vars

\* A call that can go on does, the timeout of 6 seconds runs out (it starts again
\* with every signal, but the programs' come every 10 seconds), and the server
\* answers every request on a connection it keeps.
FairSpec == /\ Spec
            /\ WF_vars(Send) /\ WF_vars(Receive) /\ WF_vars(NoAnswer)
            /\ \A f \in Fds : WF_vars(Serve(f))

--------------------------------------------------------------------------------
(* Properties *)

TypeOK ==
    /\ pc \in UserSteps \cup {"idle", "register", "await_register"}
    /\ entry \in Entries /\ user \in BOOLEAN
    /\ fd \in Fds \cup {-1} /\ (fd = -1 <=> pc = "idle")
    /\ chall \in Challenges \cup {None}
    /\ ret \in {"ok", "failed", None}
    /\ failed \in UserSteps \cup {"register", "await_register", "open", None}
    /\ open \subseteq Fds
    /\ DOMAIN link = Fds
    /\ \A f \in Fds : link[f].chall \in Challenges \cup {None}
    /\ apps \subseteq [fd : Fds, user : BOOLEAN]
    /\ refused \in 0 .. MaxCalls /\ calls \in 0 .. MaxCalls

\* An application the program holds is one the server has registered on that very
\* connection, with the user authenticated there if one was named, and nothing of
\* the exchange is left on the connection for the program's first
\* capi2_get_message to find (capi2_register, rcapi_register returning fd).
Registered ==
    \A a \in apps :
        /\ a.fd \in open
        /\ link[a.fd].appl
        /\ a.user => link[a.fd].user
        /\ link[a.fd].req = <<>> /\ link[a.fd].ans = <<>>

\* The variables have their types, and the descriptors that are open are those of the applications, the one of the
\* call under way, and one for each authentication that rcapi_register has failed
\* (its early return, userchk2.c:93): no other path of a failing call, whatever
\* step it fails at, leaves a socket open or closes that of an application.
Descriptors ==
    /\ TypeOK
    /\ {a.fd : a \in apps} \subseteq open
    /\ Cardinality(open) =
           Cardinality(apps) + refused + (IF pc = "idle" THEN 0 ELSE 1)

\* A failed call leaves a code in capi2_errno, at every step of the
\* authentication (capi2_checkuser2: "RET value 0 ok. else error in capi2_errno",
\* userchk2.c:163) and everywhere else but for one: the answer to the last request
\* is not the one that was asked for.
FailureCoded ==
    ret = "failed" /\ errno = "OK" /\ pc = "idle" => failed = "await_register"

\* Every call comes back, unless the server has ended its connection: only the
\* authentication has a timeout, the loop behind it (rcapi2.c:323) has none.
CallReturns ==
    pc # "idle" ~> pc = "idle" \/ (pc = "await_register" /\ link[fd].eof)
================================================================================
