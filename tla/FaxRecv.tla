-------------------------------- MODULE FaxRecv --------------------------------
(****************************************************************************)
(* faxrecv.c: the server that takes incoming calls and stores the faxes.    *)
(* Its main loop polls the socket of the remote CAPI and hands each message *)
(* to capi_event, which finds the call it is about, moves that call through *)
(* its states and answers.  Every 10 seconds SIGALRM interrupts it: the     *)
(* handler listens again and, when that fails, registers anew.              *)
(*                                                                          *)
(* The brick (the remote CAPI server with its ISDN lines), the callers and  *)
(* the network are external.  Messages travel whole and in order (RcapiSend,*)
(* RcapiReceive).  The handler may come while capi_event is at a message;   *)
(* what capi_event does with one is then a step behind it.                  *)
(****************************************************************************)
EXTENDS Integers, Sequences, FiniteSets, FiniteSetsExt, SequencesExt

CONSTANTS Plcis,       \* the connections the brick can have at a time
          Ncnt,        \* global.ncnt: how many digits are waited for (option -n)
          Daemon,      \* cfg.fork_flag: TRUE if the loop never ends (option -b)
          Window,      \* cfg.winsize: how many blocks may be unacknowledged
          MaxCalls,    \* bound: how many calls come in
          MaxBlocks,   \* bound: how many blocks a fax has
          MaxReboots,  \* bound: how often the brick is rebooted
          FilesFail    \* TRUE: the file of a fax may not be created or written

ASSUME FaxRecvAssumption ==
    /\ {Ncnt, Window, MaxCalls, MaxBlocks, MaxReboots} \subseteq Nat
    /\ Daemon \in BOOLEAN /\ FilesFail \in BOOLEAN

VARIABLES
    pc,         \* "init", "poll", "event", "register" in the handler, "exit", "killed"
    back,       \* where the handler returns to
    replaced,   \* history: the handler has replaced the connection while capi_event was
                \* at a message of the old one
    cfd,        \* cfg.fd, 0 while there is none
    pfd,        \* pfd.fd, set once
    capi,       \* the message capi_event has got
    calls,      \* global.calls, newest first
    conn,       \* the connection: "up"; "gone" when the brick has forgotten it; "rst" when
                \* it has been told so; "reset" with the error pending; "dead" behind it
    toBrick,    \* messages under way to the brick
    toProg,     \* messages under way to the program
    brick,      \* "up" or "down"
    listening,  \* the brick has a LISTEN_REQ of this registration
    line,       \* of each PLCI, the brick's call
    rung,       \* how many calls have come in
    reboots,    \* how often the brick has been rebooted
    files       \* history: of each call, the blocks that fwrite() has taken for its file,
                \* as a whole or in part

prog == <<back, replaced, cfd, pfd, calls>>
net == <<conn, toBrick, toProg>>
far == <<brick, listening, line, rung, reboots>>
vars == <<pc, capi, prog, net, far, files>>

CallIds == 1 .. MaxCalls

\* Descriptors 0 to 2 are taken.
LowestFd(open) == Min((3 .. MaxCalls + 4) \ open)

\* The descriptors the program has open.
Open(cs, socket) == {socket} \cup {cs[k].fp : k \in DOMAIN cs}

NoMsg == [type |-> "none", plci |-> 0, b3 |-> FALSE, id |-> 0, arg |-> 0]

Idle == [st |-> "free", id |-> 0, right |-> FALSE, sent |-> 0, unacked |-> 0, digits |-> 0]

Init ==
    /\ pc = "init" /\ back = "poll" /\ replaced = FALSE
    /\ cfd = 0 /\ pfd = 0 /\ capi = NoMsg /\ calls = <<>>
    /\ conn = "dead" /\ toBrick = <<>> /\ toProg = <<>>
    /\ brick = "up" /\ listening = FALSE
    /\ line = [p \in Plcis |-> Idle]
    /\ rung = 0 /\ reboots = 0
    /\ files = [i \in CallIds |-> <<>>]

\* A message of the program about the call of capi.
About(type, arg) == [type |-> type, plci |-> capi.plci, b3 |-> capi.b3,
                     id |-> capi.id, arg |-> arg]

Listen == [NoMsg EXCEPT !.type = "LISTEN_REQ"]

\* The program puts messages, takes no notice of what capi2_put_message returns
\* and goes on at next.  The first put behind a reset fails, any later one raises
\* SIGPIPE, which ends the program.
Sends(ms, next) ==
    /\ pc' = IF \/ conn = "dead" /\ ms # <<>>
                \/ conn = "reset" /\ Len(ms) > 1 THEN "killed" ELSE next
    /\ toBrick' = IF conn = "up" THEN toBrick \o ms ELSE toBrick
    /\ conn' = IF ms = <<>> THEN conn
               ELSE CASE conn = "gone" -> "rst" [] conn = "reset" -> "dead" [] OTHER -> conn
    /\ UNCHANGED toProg

--------------------------------------------------------------------------------
(* Registration and the signal handler *)

\* init_capi: registers, and asks for calls.  A capi2_register that fails is
\* called again after 30 seconds.
Register ==
    /\ brick = "up"
    /\ cfd' = LowestFd(Open(calls, cfd))
    /\ conn' = "up" /\ toBrick' = <<Listen>> /\ toProg' = <<>>
    /\ listening' = FALSE
    /\ UNCHANGED <<capi, back, calls, brick, line, rung, reboots, files>>

\* main: the first registration.
Start ==
    /\ pc = "init" /\ pc' = "poll"
    /\ Register
    /\ pfd' = cfd'
    /\ UNCHANGED replaced

\* catch_signal: the handler listens again.  While one LISTEN_REQ is under way
\* there is no other, they are 10 seconds apart.
Alarm ==
    /\ pc \in {"poll", "event"}
    /\ conn \in {"up", "gone", "rst", "dead"}
    /\ \A k \in DOMAIN toBrick : toBrick[k].type # "LISTEN_REQ"
    /\ \A k \in DOMAIN toProg : toProg[k].type # "LISTEN_CONF"
    /\ Sends(<<Listen>>, pc)
    /\ UNCHANGED <<capi, prog, far, files>>

\* Variant: the handler registers anew before it releases.
AlarmFailsKeeps ==
    /\ pc = "poll" /\ conn = "reset"
    /\ pc' = "register" /\ back' = pc /\ conn' = "dead"
    /\ UNCHANGED <<capi, replaced, cfd, pfd, calls, toBrick, toProg, far, files>>

\* catch_signal: listen() fails, the handler releases the application, and
\* registers until it succeeds.  It was the alarm before this one that the brick
\* has answered with a reset, which nobody has read yet.
AlarmFails ==
    /\ pc \in {"poll", "event"}
    /\ conn = "reset"
    /\ pc' = "register" /\ back' = pc
    /\ cfd' = 0
    /\ conn' = "dead"
    /\ UNCHANGED <<capi, replaced, pfd, calls, toBrick, toProg, far, files>>

\* capi_event, if it was at a message, goes on with it on the new connection.
AlarmRegisters ==
    /\ pc = "register" /\ pc' = back
    /\ Register
    /\ replaced' = IF back = "event" THEN TRUE ELSE replaced
    /\ UNCHANGED pfd

--------------------------------------------------------------------------------
(* capi_event *)

\* The main loop's poll() reports pfd.fd (with POLLNVAL even if that is closed),
\* and capi2_get_message has a message.
Get ==
    /\ pc = "poll"
    /\ toProg # <<>>
    /\ capi' = Head(toProg) /\ toProg' = Tail(toProg)
    /\ pc' = "event"
    /\ UNCHANGED <<prog, conn, toBrick, far, files>>

\* capi2_get_message fails: the first read() behind a reset has the error, later
\* ones find the end of the stream.  capi_event returns -1, then 0.  (With any other
\* error it would go on with a message that is not there; the only one there can be
\* is for urgent data, which a brick does not send.)
GetFails ==
    /\ pc = "poll"
    /\ toProg = <<>> /\ conn \in {"reset", "dead"}
    /\ conn' = "dead"
    /\ UNCHANGED <<pc, capi, prog, toBrick, toProg, far, files>>

FirstOf(S) == IF S = {} THEN 0 ELSE Min(S)

\* Variant: only the number of the NCCI is compared, not the PLCI with it.
ByIdentNcci == FirstOf({k \in DOMAIN calls : calls[k].b3 \/ calls[k].plci = capi.plci})

\* getCallbyIdent: by the NCCI if the message has one, else by the PLCI; the
\* newest call first, 0 if there is none.
ByPlci == FirstOf({k \in DOMAIN calls : calls[k].plci = capi.plci})
ByIdent == IF capi.b3
             THEN FirstOf({k \in DOMAIN calls : calls[k].plci = capi.plci /\ calls[k].b3})
             ELSE ByPlci

\* capi_event with a message of this type.
Event(type) ==
    /\ pc = "event" /\ capi.type = type
    /\ capi' = NoMsg
    /\ UNCHANGED <<back, replaced, cfd, pfd, far>>

\* NEWSTATE of the k-th call, if there is one.
NewState(cs, k, state) == IF k = 0 THEN cs ELSE [cs EXCEPT ![k].state = state]

\* Variant: the new call becomes the last of the list.
EnqueuedLast(state) ==
    Append(calls, [id |-> capi.id, plci |-> capi.plci, b3 |-> FALSE, state |-> state,
                   ncnt |-> 0, fp |-> 0])

\* createNewCallPtr: the new call becomes the first of the list.
Enqueued(state) == <<[id |-> capi.id, plci |-> capi.plci, b3 |-> FALSE, state |-> state,
                      ncnt |-> 0, fp |-> 0]>> \o calls

\* matchBindings: the called number is the right one.  The message that completes
\* it tells.
Matches == capi.arg = 1

\* CAPI2_CONNECT_IND: with option -n the digits are waited for; a call for the
\* right number is accepted; any other is ignored, and no call is kept for it.
\* There may be no memory for a call.
ConnectInd ==
    /\ Event("CONNECT_IND")
    /\ \/ /\ Ncnt > 0
          /\ calls' = Enqueued("OverlapReceiving")
          /\ Sends(<<>>, "poll")
       \/ /\ Ncnt = 0 /\ Matches
          /\ calls' = Enqueued("D_ConnectPending")
          /\ Sends(<<About("CONNECT_RESP", 0)>>, "poll")
       \/ /\ Ncnt = 0 /\ ~Matches
          /\ calls' = NewState(calls, ByIdent, "IgnoreDisconnect")
          /\ Sends(<<About("CONNECT_RESP", 1)>>, "poll")
       \/ /\ Ncnt > 0 \/ Matches
          /\ calls' = calls
          /\ Sends(<<About("CONNECT_RESP", 8)>>, "poll")
    /\ UNCHANGED files

\* handleInfoInd: while the number is not complete, the k-th call collects digits.
Waits(k) == k # 0 /\ calls[k].state = "OverlapReceiving"
Collected(k) == IF Waits(k) THEN [calls EXCEPT ![k].ncnt = @ + 1] ELSE calls

\* Variants: the number is taken for complete with any digit, or one too late.
InfoIndWith(wanted) ==
    /\ Event("INFO_IND")
    /\ LET k == ByIdent
       IN  IF Waits(k) /\ Collected(k)[k].ncnt >= wanted /\ Matches
             THEN /\ calls' = NewState(Collected(k), k, "D_ConnectPending")
                  /\ Sends(<<About("INFO_RESP", 0), About("CONNECT_RESP", 0)>>, "poll")
             ELSE calls' = Collected(k) /\ Sends(<<About("INFO_RESP", 0)>>, "poll")
    /\ UNCHANGED files
InfoIndEarly == InfoIndWith(1)
InfoIndLate == InfoIndWith(Ncnt + 1)

\* CAPI2_INFO_IND with a digit of the called number (AI_DAD).  With the last one
\* the number is complete, and the call is accepted or ignored.
InfoInd ==
    /\ Event("INFO_IND")
    /\ LET k == ByIdent
           complete == Waits(k) /\ Collected(k)[k].ncnt >= Ncnt
       IN  \/ /\ ~complete
              /\ calls' = Collected(k)
              /\ Sends(<<About("INFO_RESP", 0)>>, "poll")
           \/ /\ complete /\ Matches
              /\ calls' = NewState(Collected(k), k, "D_ConnectPending")
              /\ Sends(<<About("INFO_RESP", 0), About("CONNECT_RESP", 0)>>, "poll")
           \/ /\ complete /\ ~Matches
              /\ calls' = NewState(Collected(k), k, "IgnoreDisconnect")
              /\ Sends(<<About("INFO_RESP", 0), About("CONNECT_RESP", 1)>>, "poll")
    /\ UNCHANGED files

\* CAPI2_CONNECTACTIVE_IND: NEWSTATE of a null pointer ends the program.
ConnectActiveInd ==
    /\ Event("CONNECTACTIVE_IND")
    /\ calls' = NewState(calls, ByIdent, "D_Connected")
    /\ Sends(<<About("CONNECTACTIVE_RESP", 0)>>, IF ByIdent = 0 THEN "killed" ELSE "poll")
    /\ UNCHANGED files

\* CAPI2_CONNECTB3_IND: the call is found by its PLCI and takes the NCCI.
ConnectB3Ind ==
    /\ Event("CONNECTB3_IND")
    /\ IF ByPlci = 0
         THEN calls' = calls /\ Sends(<<>>, "poll")
         ELSE /\ calls' = [NewState(calls, ByPlci, "B_ConnectPending") EXCEPT ![ByPlci].b3 = TRUE]
              /\ Sends(<<About("CONNECTB3_RESP", 0)>>, "poll")
    /\ UNCHANGED files

\* doDisconnect: the state behind it and the request it sends.
DoDisconnect(state) ==
    CASE state \in {"B_ConnectPending", "Connected"} ->
             [state |-> "B_DisconnectPending", ms |-> <<About("DISCONNECTB3_REQ", 0)>>]
      [] state \in {"D_ConnectPending", "B_DisconnectPending"} ->
             [state |-> "D_DisconnectPending", ms |-> <<About("DISCONNECT_REQ", 0)>>]
      [] OTHER -> [state |-> state, ms |-> <<>>]

\* handleConnectB3ActiveInd: the k-th call is connected and has a file of its own.
WithFile(k) ==
    [calls EXCEPT ![k].state = "Connected", ![k].fp = LowestFd(Open(calls, cfd))]

\* CAPI2_CONNECTB3ACTIVE_IND: the file of the fax is created; doDisconnect if it
\* cannot be.
ConnectB3ActiveInd ==
    /\ Event("CONNECTB3ACTIVE_IND")
    /\ LET k == ByIdent
           resp == About("CONNECTB3ACTIVE_RESP", 0)
       IN  \/ /\ k = 0
              /\ calls' = calls /\ Sends(<<resp>>, "poll")
           \/ /\ k # 0
              /\ calls' = WithFile(k)
              /\ Sends(<<resp>>, "poll")
           \/ /\ k # 0 /\ FilesFail
              /\ calls' = NewState(calls, k, DoDisconnect("Connected").state)
              /\ Sends(<<resp>> \o DoDisconnect("Connected").ms, "poll")
    /\ UNCHANGED files

\* handleDataB3Ind: the block, or what fwrite() has taken of it, is behind the others
\* in the file of the k-th call.
Took == {"whole", "part"}
Entry(took) == [id |-> capi.id, block |-> capi.arg, took |-> took]
Written(k, took) == [files EXCEPT ![calls[k].id] = Append(@, Entry(took))]

\* Variants: the block is acknowledged without being written, or written without
\* being acknowledged.
DataB3IndUnwritten ==
    /\ Event("DATAB3_IND")
    /\ Sends(<<About("DATAB3_RESP", capi.arg)>>, "poll")
    /\ UNCHANGED <<calls, files>>
DataB3IndSilent ==
    /\ Event("DATAB3_IND")
    /\ files' = [files EXCEPT ![capi.id] = Append(@, Entry("whole"))]
    /\ Sends(<<>>, "poll")
    /\ UNCHANGED calls

\* CAPI2_DATAB3_IND: the block is written and acknowledged, and so is one of which
\* fwrite() takes only a part, for handleDataB3Ind looks for len <= 0.  One of which
\* it takes nothing is not acknowledged; fwrite() to a null pointer ends the program.
DataB3Ind ==
    /\ Event("DATAB3_IND")
    /\ LET k == ByIdent
           resp == About("DATAB3_RESP", capi.arg)
       IN  \/ /\ k = 0
              /\ files' = files /\ Sends(<<>>, "poll")
           \/ /\ k # 0 /\ calls[k].fp = 0
              /\ files' = files /\ Sends(<<>>, "killed")
           \/ /\ k # 0 /\ calls[k].fp # 0
              /\ \E took \in Took :
                    /\ took = "part" => FilesFail
                    /\ files' = Written(k, took)
              /\ Sends(<<resp>>, "poll")
           \/ /\ k # 0 /\ calls[k].fp # 0 /\ FilesFail
              /\ files' = files /\ Sends(<<>>, "poll")
    /\ UNCHANGED calls

\* CAPI2_DISCONNECTB3_IND: the call, if there is one, is taken down.
DisconnectB3Ind ==
    /\ Event("DISCONNECTB3_IND")
    /\ calls' = NewState(calls, ByIdent, "D_DisconnectPending")
    /\ Sends(<<About("DISCONNECTB3_RESP", 0), About("DISCONNECT_REQ", 0)>>, "poll")
    /\ UNCHANGED files

\* free_call: the k-th call is taken off the list, its file is closed.
FreeCall(k) == IF k = 0 THEN calls ELSE RemoveAt(calls, k)

\* Variants: the call is not freed; it is asked to end only now.
DisconnectIndKeeps ==
    /\ Event("DISCONNECT_IND")
    /\ calls' = NewState(calls, ByIdent, "Disconnected")
    /\ Sends(<<About("DISCONNECT_RESP", 0)>>, IF Daemon THEN "poll" ELSE "exit")
    /\ UNCHANGED files
DisconnectIndRequests ==
    /\ Event("DISCONNECT_IND")
    /\ calls' = FreeCall(ByIdent)
    /\ Sends(<<About("DISCONNECT_RESP", 0), About("DISCONNECT_REQ", 0)>>, "poll")
    /\ UNCHANGED files

\* CAPI2_DISCONNECT_IND: the call is freed and its file closed.  Without option
\* -b the program is through: the state that would keep it running is
\* overwritten before it is looked at.
DisconnectInd ==
    /\ Event("DISCONNECT_IND")
    /\ calls' = FreeCall(ByIdent)
    /\ Sends(<<About("DISCONNECT_RESP", 0)>>, IF Daemon THEN "poll" ELSE "exit")
    /\ UNCHANGED files

\* The confirmations are only logged.
Conf ==
    /\ \E type \in {"LISTEN_CONF", "DISCONNECTB3_CONF", "DISCONNECT_CONF"} : Event(type)
    /\ Sends(<<>>, "poll")
    /\ UNCHANGED <<calls, files>>

CapiEvent == \/ ConnectInd \/ InfoInd \/ ConnectActiveInd
             \/ ConnectB3Ind \/ ConnectB3ActiveInd \/ DataB3Ind
             \/ DisconnectB3Ind \/ DisconnectInd \/ Conf

--------------------------------------------------------------------------------
(* The brick *)

\* A message of the brick about the call on line p.
Ind(p, b3, type, arg) == [type |-> type, plci |-> p, b3 |-> b3, id |-> line[p].id, arg |-> arg]

\* The brick changes the call on line p and sends messages.
Moves(p, call, ms) ==
    /\ brick = "up" /\ conn = "up"
    /\ line' = [line EXCEPT ![p] = call]
    /\ toProg' = toProg \o ms
    /\ UNCHANGED <<pc, capi, prog, conn, brick, reboots, files>>

\* A call comes in, for the right number or for another.
Ring(p) ==
    /\ line[p].st = "free" /\ listening
    /\ rung < MaxCalls /\ rung' = rung + 1
    /\ \E right \in {0, 1} :
          Moves(p, [Idle EXCEPT !.st = "offered", !.id = rung', !.right = (right = 1)],
                <<[type |-> "CONNECT_IND", plci |-> p, b3 |-> FALSE, id |-> rung', arg |-> right]>>)
    /\ UNCHANGED <<toBrick, listening>>

\* The caller dials a digit more.
Digit(p) ==
    /\ line[p].st = "offered" /\ line[p].digits < Ncnt
    /\ Moves(p, [line[p] EXCEPT !.digits = @ + 1],
             <<Ind(p, FALSE, "INFO_IND", IF line[p].right THEN 1 ELSE 0)>>)
    /\ UNCHANGED <<toBrick, listening, rung>>

\* The call is active, the brick goes on with the fax connection.
OfferB3(p) ==
    /\ line[p].st = "active"
    /\ Moves(p, [line[p] EXCEPT !.st = "b3offered"], <<Ind(p, TRUE, "CONNECTB3_IND", 0)>>)
    /\ UNCHANGED <<toBrick, listening, rung>>

\* A block of the fax.
Block(p) ==
    /\ line[p].st = "b3up" /\ line[p].sent < MaxBlocks /\ line[p].unacked < Window
    /\ Moves(p, [line[p] EXCEPT !.sent = @ + 1, !.unacked = @ + 1],
             <<Ind(p, TRUE, "DATAB3_IND", line[p].sent + 1)>>)
    /\ UNCHANGED <<toBrick, listening, rung>>

\* The fax is through, or the caller hangs up.
HangUp(p) ==
    /\ \/ /\ line[p].st \in {"b3offered", "b3up"}
          /\ Moves(p, [line[p] EXCEPT !.st = "b3down"], <<Ind(p, TRUE, "DISCONNECTB3_IND", 0)>>)
       \/ /\ line[p].st \in {"offered", "active", "b3down"}
          /\ Moves(p, [line[p] EXCEPT !.st = "clearing"], <<Ind(p, FALSE, "DISCONNECT_IND", 0)>>)
    /\ UNCHANGED <<toBrick, listening, rung>>

\* What the brick makes of a message m of the program: the state of the line
\* behind it and the messages it answers with.
Reaction(m) ==
    LET l == line[m.plci]
        p == m.plci
        conf == <<Ind(p, m.b3, IF m.type = "DISCONNECTB3_REQ" THEN "DISCONNECTB3_CONF" ELSE "DISCONNECT_CONF", 0)>>
        To(st, ms) == [line |-> [l EXCEPT !.st = st], ms |-> ms]
    IN  CASE m.type = "CONNECT_RESP" /\ l.st = "offered" ->
               IF m.arg = 0 THEN To("active", <<Ind(p, FALSE, "CONNECTACTIVE_IND", 0)>>)
                            ELSE To("clearing", <<Ind(p, FALSE, "DISCONNECT_IND", 0)>>)
          [] m.type = "CONNECTB3_RESP" /\ l.st = "b3offered" ->
               To("b3up", <<Ind(p, TRUE, "CONNECTB3ACTIVE_IND", 0)>>)
          [] m.type = "DATAB3_RESP" /\ l.unacked > 0 ->
               [line |-> [l EXCEPT !.unacked = @ - 1], ms |-> <<>>]
          [] m.type = "DISCONNECTB3_REQ" /\ l.st = "b3up" ->
               To("b3down", conf \o <<Ind(p, TRUE, "DISCONNECTB3_IND", 0)>>)
          [] m.type = "DISCONNECTB3_REQ" /\ l.st # "b3up" -> To(l.st, conf)
          [] m.type = "DISCONNECT_REQ" /\ l.st \notin {"free", "clearing"} ->
               To("clearing", conf \o <<Ind(p, FALSE, "DISCONNECT_IND", 0)>>)
          [] m.type = "DISCONNECT_REQ" /\ l.st \in {"free", "clearing"} -> To(l.st, conf)
          [] m.type = "DISCONNECT_RESP" /\ l.st = "clearing" -> [line |-> Idle, ms |-> <<>>]
          [] OTHER -> To(l.st, <<>>)

\* The brick takes the next message of the program.
BrickTakes ==
    /\ toBrick # <<>> /\ toBrick' = Tail(toBrick)
    /\ LET m == Head(toBrick)
       IN  \/ /\ m.type = "LISTEN_REQ" /\ brick = "up" /\ conn = "up"
              /\ listening' = TRUE
              /\ toProg' = Append(toProg, [NoMsg EXCEPT !.type = "LISTEN_CONF"])
              /\ UNCHANGED <<pc, capi, prog, conn, brick, line, reboots, files>>
           \/ /\ m.type # "LISTEN_REQ"
              /\ Moves(m.plci, Reaction(m).line, Reaction(m).ms)
              /\ UNCHANGED listening
    /\ UNCHANGED rung

\* The brick is rebooted and has forgotten everything; what it had sent arrives.
Reboot ==
    /\ brick = "up" /\ reboots < MaxReboots /\ reboots' = reboots + 1
    /\ brick' = "down"
    /\ conn' = IF conn = "up" THEN "gone" ELSE conn
    /\ toBrick' = <<>> /\ listening' = FALSE /\ line' = [p \in Plcis |-> Idle]
    /\ UNCHANGED <<pc, capi, prog, toProg, rung, files>>

BrickUp ==
    /\ brick = "down" /\ brick' = "up"
    /\ UNCHANGED <<pc, capi, prog, net, listening, line, rung, reboots, files>>

\* The brick answers what it gets on a connection it has forgotten with a reset.
Reset ==
    /\ conn = "rst" /\ brick = "up"
    /\ conn' = "reset"
    /\ UNCHANGED <<pc, capi, prog, toBrick, toProg, far, files>>

Main == Start \/ Get \/ GetFails \/ CapiEvent
Handler == Alarm \/ AlarmFails \/ AlarmRegisters

Next == \/ Main
        \/ Handler
        \/ BrickTakes \/ Reboot \/ BrickUp \/ Reset
        \/ \E p \in Plcis : Ring(p) \/ Digit(p) \/ OfferB3(p) \/ Block(p) \/ HangUp(p)

Spec == Init /\ [][Next]_vars

\* The program runs when it can, the alarm clock goes off, the brick takes what
\* is sent and comes up again.  No caller owes anything.
FairSpec == /\ Spec
            /\ WF_vars(Main)
            /\ WF_vars(Alarm) /\ WF_vars(AlarmFails) /\ WF_vars(AlarmRegisters)
            /\ WF_vars(BrickTakes) /\ WF_vars(BrickUp) /\ WF_vars(Reset)

--------------------------------------------------------------------------------
(* Properties *)

States == {"OverlapReceiving", "D_ConnectPending", "D_Connected", "B_ConnectPending",
           "Connected", "B_DisconnectPending", "D_DisconnectPending", "IgnoreDisconnect"}

TypeOK ==
    /\ pc \in {"init", "poll", "event", "register", "exit", "killed"}
    /\ back \in {"poll", "event"} /\ replaced \in BOOLEAN
    /\ cfd \in Nat /\ (cfd = 0 => pc \in {"init", "register"})
    /\ pc = "event" => capi # NoMsg
    /\ \A k \in DOMAIN calls :
          /\ calls[k].id \in CallIds /\ calls[k].plci \in Plcis
          /\ calls[k].state \in States
          /\ calls[k].ncnt \in 0 .. Ncnt
          /\ calls[k].fp = 0 \/ calls[k].fp >= 3
    /\ conn \in {"up", "gone", "rst", "reset", "dead"}
    /\ \A p \in Plcis : /\ line[p].unacked \in 0 .. Window
                        /\ line[p].sent \in 0 .. MaxBlocks
    /\ rung \in 0 .. MaxCalls /\ reboots \in 0 .. MaxReboots

\* The call that capi_event finds for a message of an accepted call is that call,
\* and there is one: capi_event does not ask for it everywhere
\* (CAPI2_CONNECTACTIVE_IND), and calls of an earlier registration, which stay in
\* the list, may have the same PLCI and NCCI (getCallbyIdent).  This and the others
\* that ask for ~replaced hold until the handler replaces the connection in the
\* middle of capi_event: the answer to the message it was at then goes out on the new
\* one, about whatever call has that PLCI now.
FindsCall ==
    pc = "event" /\ ~replaced =>
         LET k == IF capi.type = "CONNECTB3_IND" THEN ByPlci ELSE ByIdent
             known == \E j \in DOMAIN calls : calls[j].id = capi.id
         IN  \/ capi.type \in {"CONNECTACTIVE_IND", "CONNECTB3_IND", "CONNECTB3ACTIVE_IND",
                               "DATAB3_IND", "DISCONNECTB3_IND"}
             \/ capi.type \in {"DISCONNECT_IND", "INFO_IND"} /\ known
             => k # 0 /\ calls[k].id = capi.id

\* The variables have their types, and a call the program keeps is one the brick
\* still has: it is freed before the PLCI may come again, so no two calls have the
\* same, and none is left over (free_call at CAPI2_DISCONNECT_IND only).
CallsAlive ==
    /\ TypeOK
    /\ \A k \in DOMAIN calls : line[calls[k].plci].id = calls[k].id

\* Nothing the program sends about a call is under way when the PLCI is already
\* another call's: its CAPI2_DISCONNECT_REQ behind CAPI2_DISCONNECTB3_IND crosses
\* the end of the call, and must not end the next one.
NothingStray ==
    ~replaced => \A k \in DOMAIN toBrick :
        toBrick[k].type # "LISTEN_REQ" => line[toBrick[k].plci].id \in {0, toBrick[k].id}

\* The file of a fax has the blocks of that fax, in order, none missing, if files do
\* not fail.
FilesInOrder ==
    ~replaced => \A i \in CallIds : \A n \in DOMAIN files[i] :
        files[i][n] = [id |-> i, block |-> n, took |-> "whole"]

\* The brick never counts a block as received of which fwrite() has taken nothing
\* (CAPI2_DATAB3_RESP only behind a write).  It may count one of which fwrite() has
\* taken only a part, with files that fail, and what fwrite() has taken may still be
\* lost when the file is closed, which nobody looks at.
AckedStored ==
    ~replaced => \A p \in Plcis : line[p].id # 0 =>
        line[p].sent - line[p].unacked <= Len(files[line[p].id])

\* The brick goes on only with calls for the right number, and with option -n
\* not before all digits are there.
AcceptsRight ==
    ~replaced => \A p \in Plcis : line[p].st \in {"active", "b3offered", "b3up", "b3down"} =>
        line[p].right /\ line[p].digits >= Ncnt

\* main has copied cfg.fd once; the handler replaces it.  As nothing takes the
\* descriptor in between, the new socket has the old one's number.
PollsOwnSocket == pc \in {"poll", "event"} => pfd = cfd

\* A call that the right number has been dialled for is answered.
Answered ==
    \A p \in Plcis : line[p].st = "offered" /\ line[p].digits >= Ncnt ~> line[p].st # "offered"

\* The blocks of a fax are acknowledged, so the window opens again.
Acknowledged ==
    \A p \in Plcis : line[p].unacked = Window /\ line[p].st = "b3up"
                     ~> line[p].unacked < Window \/ line[p].st # "b3up"

\* A PLCI is given back when the call is over, and with it the program's record
\* of the call and the descriptor of its file.
Freed ==
    \A p \in Plcis : \A i \in CallIds :
        line[p].st = "clearing" /\ line[p].id = i
            ~> line[p].id # i /\ ~ \E k \in DOMAIN calls : calls[k].id = i

================================================================================
