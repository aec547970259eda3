-------------------------------- MODULE CapiTest --------------------------------
(****************************************************************************)
(* capitest.c: the load generator.  It keeps applications, each one a       *)
(* registration with a connection of its own to the brick, and the calls of *)
(* each.  As sender it dials, one call when the last one is connected, up   *)
(* to a number of calls; as receiver (option -r) it takes calls and         *)
(* registers anew when its applications are full.  Every call sends blocks, *)
(* a window at a time.  pollloopt walks the list of the connections and     *)
(* hands each one that is readable to capi_event.  SIGUSR2 dials a call     *)
(* more, SIGHUP disconnects, SIGUSR1 prints.                                *)
(*                                                                          *)
(* The brick and whoever is called or calls are external; the brick has     *)
(* taken what the program sends before anything else happens, messages to   *)
(* the program take time.  A signal comes between two messages, and         *)
(* registering succeeds (alloc_appl tries until it does).                   *)
(****************************************************************************)
EXTENDS Integers, Sequences, FiniteSets, FiniteSetsExt, SequencesExt

CONSTANTS MaxCalls,    \* bound: how many calls are answered, or come in
          MaxSignals,  \* bound: how many signals come
          MaxFd,       \* MAX_FD: how many connections the poll list takes
          Configs      \* bound: how the program is called and what happens, see cfg

ASSUME CapiTestAssumption ==
    /\ MaxCalls \in Nat /\ MaxSignals \in Nat /\ MaxFd \in Nat \ {0}
    /\ Configs \subseteq [recv : BOOLEAN, MaxActivCalls : Nat, callperappl : Nat \ {0},
                          usWindowSize : Nat, maxSentPackets : Nat, wait4dataconf : BOOLEAN,
                          answers : 0 .. MaxCalls, signals : 0 .. MaxSignals, plays : Nat]

VARIABLES
    pc,        \* "init", "poll", "exit", "killed"
    cfg,       \* the options -r, -s, -y, -w, -M, -W; bounds: how many calls are answered
               \* or come in, how many signals come, how many blocks of a call are taken
    appls,     \* global.pApplAnchor: the applications, newest first, each with its calls
    pollfds,   \* the poll list: the connections, whose they are, and their revents
    at,        \* where pollloopt is in it; 0: in poll()
    made,      \* how many applications there have been
    dialled,   \* how many calls have been dialled, or have come in
    answered,  \* how many of them the called side has answered
    signals,   \* how many signals have come
    toBrick,   \* messages the brick takes next
    toProg,    \* of each application, messages under way to it
    line,      \* the brick's calls
    listens    \* the applications the brick offers calls to

prog == <<appls, pollfds, made, dialled>>
brick == <<toBrick, toProg, line, listens>>
vars == <<pc, cfg, prog, at, answered, signals, brick>>

CallIds == 1 .. MaxCalls + MaxSignals + 1
ApplIds == 1 .. MaxCalls + MaxSignals + 2

\* The brick's call: its application, whether it may send data, how many blocks it
\* has not confirmed, and how many it has taken.
Idle == [st |-> "free", appl |-> 0, unconf |-> 0, played |-> 0]

Init ==
    /\ pc = "init" /\ cfg \in Configs
    /\ appls = <<>> /\ pollfds = <<>> /\ at = 0
    /\ made = 0 /\ dialled = 0 /\ answered = 0 /\ signals = 0
    /\ toBrick = <<>> /\ toProg = [a \in ApplIds |-> <<>>]
    /\ line = [i \in CallIds |-> Idle] /\ listens = {}

\* A message about a call: with its NCCI (b3), or with its PLCI only.
Msg(type, appl, id, b3, info) ==
    [type |-> type, appl |-> appl, id |-> id, b3 |-> b3, info |-> info]

\* What of the program's state its functions pass on to each other; they put the
\* messages ms.
Now == [appls |-> appls, pollfds |-> pollfds, made |-> made, dialled |-> dialled, ms |-> <<>>]

Put(s, m) == [s EXCEPT !.ms = Append(@, m)]

\* The first of these places in a list, 0 if there is none.
Place(S) == IF S = {} THEN 0 ELSE Min(S)

--------------------------------------------------------------------------------
(* Applications and calls *)

\* set_listen: the k-th application is to be offered calls, or not to be.
SetListen(s, k, onoff) ==
    IF s.appls[k].listen = onoff THEN s
    ELSE Put([s EXCEPT !.appls[k].listen = onoff],
             Msg("LISTEN_REQ", s.appls[k].id, 0, FALSE, IF onoff THEN 1 ELSE 0))

\* Registering gets the lowest descriptor there is.
LowestFd(s) == Min((3 .. MaxCalls + MaxSignals + 5) \ {s.appls[k].fd : k \in DOMAIN s.appls})

\* alloc_appl, pollset: the new application is the first of the list, its connection
\* the last to be polled.  pollset refuses it when the poll list is full, which
\* alloc_appl does not look at: nothing that is sent to the application will be read
\* (history: polled).
AllocAppl(s) ==
    LET room == Len(s.pollfds) < MaxFd
        appl == [id |-> s.made + 1, fd |-> LowestFd(s), listen |-> FALSE, active_calls |-> 0,
                 calls |-> <<>>, polled |-> room]
        set == \E n \in DOMAIN s.pollfds : s.pollfds[n].fd = appl.fd
        t == [s EXCEPT !.appls = <<appl>> \o @, !.made = @ + 1,
                       !.pollfds = IF ~room \/ set THEN @
                                   ELSE Append(@, [fd |-> appl.fd, arg |-> appl.id, revents |-> FALSE])]
    IN  IF cfg.recv THEN SetListen(t, 1, TRUE) ELSE t

\* Variant: the connection stays on the list.
FreeApplPolled(s, k) ==
    Put([s EXCEPT !.appls = RemoveAt(@, k)], Msg("RELEASE", s.appls[k].id, 0, FALSE, 0))

\* free_appl, mypolldel: no one counts conn_calls, so the k-th application goes when
\* one of its calls has gone, and with it whatever calls it has left; the first entry
\* of the poll list with its descriptor is taken out.
FreeAppl(s, k) ==
    LET n == Place({n \in DOMAIN s.pollfds : s.pollfds[n].fd = s.appls[k].fd})
    IN  Put([s EXCEPT !.appls = RemoveAt(@, k), !.pollfds = IF n = 0 THEN @ ELSE RemoveAt(@, n)],
            Msg("RELEASE", s.appls[k].id, 0, FALSE, 0))

\* alloc_call_struct: the k-th application has a call more, the first of its list.
AllocCall(s, k, id, active) ==
    [s EXCEPT !.appls[k].active_calls = @ + 1,
              !.appls[k].calls =
                  <<[id |-> id, state |-> "D_ConnectPending", active |-> active, plci |-> ~active,
                     b3 |-> FALSE, doSend |-> FALSE, NotAcknowledged |-> 0, sentPackets |-> 0]>> \o @]

\* gen_call: the k-th application dials.
GenCall(s, k) ==
    LET id == s.dialled + 1
    IN  Put([AllocCall(s, k, id, TRUE) EXCEPT !.dialled = id],
            Msg("CONNECT_REQ", s.appls[k].id, id, FALSE, 0))

\* The applications from the k-th on that have room for a call.
Rooms(s, k) == {n \in k .. Len(s.appls) : s.appls[n].active_calls < cfg.callperappl}

\* Variant: only the calls of the call's own application are counted.
GenNextCallOwn(s, k) ==
    LET full == Rooms(s, k) = {}
        t == IF full THEN AllocAppl(s) ELSE s
    IN  IF cfg.recv \/ (cfg.MaxActivCalls > 0 /\ s.appls[k].active_calls >= cfg.MaxActivCalls)
          THEN s
          ELSE IF cfg.MaxActivCalls > 0 THEN GenCall(t, IF full THEN 1 ELSE Min(Rooms(s, k))) ELSE t

\* The active calls of the applications from the k-th on, as each one counts them.
Active(as, k) == UNION {{n} \X (1 .. as[n].active_calls) : n \in k .. Len(as)}

\* gen_next_call: the sender dials, unless the applications from the k-th on have
\* enough calls between them.  Without option -s it makes room, and does not dial.
GenNextCall(s, k) ==
    LET active == Cardinality(Active(s.appls, k))
        full == Rooms(s, k) = {}
        t == IF full THEN AllocAppl(s) ELSE s
    IN  IF cfg.recv \/ (cfg.MaxActivCalls > 0 /\ active >= cfg.MaxActivCalls) THEN s
        ELSE IF cfg.MaxActivCalls > 0 THEN GenCall(t, IF full THEN 1 ELSE Min(Rooms(s, k))) ELSE t

\* The k-th application and those behind it, up to the n-th, no longer listen.
Deafened(s, k, n) ==
    LET Off[i \in k - 1 .. n] == IF i = k - 1 THEN s ELSE SetListen(Off[i - 1], i, FALSE)
    IN  Off[n]

\* Variant: a full application goes on listening, there is no other.
CheckApplKeeps(s, k) ==
    IF ~cfg.recv THEN s
    ELSE IF Rooms(s, k) # {} THEN SetListen(s, Min(Rooms(s, k)), TRUE)
                             ELSE Deafened(s, k, Len(s.appls))

\* check_appl: from the k-th on the first application with room listens, the full
\* ones before it do not; if there is none, a new one is made.
CheckAppl(s, k) ==
    IF ~cfg.recv THEN s
    ELSE IF Rooms(s, k) # {} THEN LET n == Min(Rooms(s, k))
                                  IN  SetListen(Deafened(s, k, n - 1), n, TRUE)
                             ELSE AllocAppl(Deafened(s, k, Len(s.appls)))

--------------------------------------------------------------------------------
(* Sending: operators on a call c and the messages ms put about it *)

About(r, type) == [r EXCEPT !.ms = Append(@, Msg(type, r.appl, r.c.id, r.c.b3, 0))]

\* doDisconnect: with option -W a call that waits for confirmations is left alone,
\* and stays so.
DoDisconnect(r) ==
    LET quiet == [r EXCEPT !.c.doSend = FALSE]
    IN  CASE r.c.state \in {"B_ConnectPending", "Connected"} ->
                IF cfg.wait4dataconf /\ r.c.NotAcknowledged > 0
                  THEN quiet ELSE About(quiet, "DISCONNECTB3_REQ")
          [] r.c.state \in {"D_ConnectPending", "B_DisconnectPending"} ->
                LET plci == [quiet EXCEPT !.c.state = "D_DisconnectPending"]
                IN  [plci EXCEPT !.ms = Append(@, Msg("DISCONNECT_REQ", r.appl, r.c.id, FALSE, 0))]
          [] OTHER -> quiet

\* A block goes out; how many have is counted for option -M only.
Block(r) ==
    About([r EXCEPT !.c.NotAcknowledged = @ + 1,
                    !.c.sentPackets = Min({@ + 1, cfg.maxSentPackets})], "DATAB3_REQ")

\* SendData: with option -M a call that has sent its blocks is disconnected when
\* the last of them is confirmed; one more goes out behind that.
Through(c) == cfg.MaxActivCalls > 0 /\ cfg.maxSentPackets > 0 /\ c.sentPackets >= cfg.maxSentPackets
SendData(r) ==
    CASE ~r.c.doSend -> r
      [] r.c.doSend /\ Through(r.c) /\ r.c.NotAcknowledged > 0 -> r
      [] r.c.doSend /\ Through(r.c) /\ r.c.NotAcknowledged = 0 -> Block(DoDisconnect(r))
      [] OTHER -> Block(r)

\* handleConnectB3ActiveInd: a window of blocks goes out, one at least.
Window == IF cfg.usWindowSize = 0 THEN 1 ELSE cfg.usWindowSize
Fill(r) ==
    LET Sent[n \in 0 .. Window] == IF n = 0 THEN r ELSE SendData(Sent[n - 1])
    IN  Sent[Window]

--------------------------------------------------------------------------------
(* main and pollloopt *)

\* The program is in s and goes on at the entry n of the poll list.  It stops when
\* it has no application left (global.endloop).
Goes(s, n) ==
    /\ appls' = s.appls /\ made' = s.made /\ dialled' = s.dialled
    /\ pollfds' = s.pollfds /\ at' = n
    /\ toBrick' = s.ms
    /\ pc' = IF s.appls = <<>> THEN "exit" ELSE "poll"

\* main: the first application, and for a sender the first call.
Start ==
    /\ pc = "init"
    /\ Goes(GenNextCall(CheckAppl(AllocAppl(Now), 1), 1), 0)
    /\ UNCHANGED <<cfg, answered, signals, toProg, line, listens>>

\* Variant: the walk leaves one entry out.
ReadyLate(fds, n) ==
    LET set == {m \in DOMAIN fds : m > n + 1 /\ fds[m].revents}
    IN  IF set = {} THEN 0 ELSE Min(set)

\* The first entry behind n that has an event.
Ready(fds, n) ==
    LET set == {m \in DOMAIN fds : m > n /\ fds[m].revents}
    IN  IF set = {} THEN 0 ELSE Min(set)

\* poll(): the connections that have a message are readable.
Poll ==
    /\ pc = "poll" /\ toBrick = <<>> /\ at = 0
    /\ pollfds' = [n \in DOMAIN pollfds |->
                      [pollfds[n] EXCEPT !.revents = toProg[pollfds[n].arg] # <<>>]]
    /\ at' = Ready(pollfds', 0) /\ at' # 0
    /\ UNCHANGED <<pc, cfg, appls, made, dialled, answered, signals, brick>>

\* Behind the function the walk clears the revents of the entry that is now in the
\* place of the one it called the function for, and goes on behind it: mypolldel
\* moves another there.
Walks(after) ==
    \E s \in {after} :
        \E fds \in {IF at \in DOMAIN s.pollfds
                      THEN [s.pollfds EXCEPT ![at].revents = FALSE] ELSE s.pollfds} :
            Goes([s EXCEPT !.pollfds = fds], Ready(fds, at))

--------------------------------------------------------------------------------
(* capi_event *)

\* The application capi_event is called for, its place, and the message it gets.
K == CHOOSE k \in DOMAIN appls : appls[k].id = pollfds[at].arg
pA == appls[K]
capi == Head(toProg[pA.id])

\* capi2_get_message fails for nothing else than urgent data, which the brick does not send.
Event(type) ==
    /\ pc = "poll" /\ toBrick = <<>> /\ at # 0
    /\ \E k \in DOMAIN appls : appls[k].id = pollfds[at].arg
    /\ toProg[pollfds[at].arg] # <<>> /\ capi.type = type
    /\ toProg' = [toProg EXCEPT ![pA.id] = Tail(@)]
    /\ UNCHANGED <<cfg, answered, signals, line, listens>>

\* getCallbyIdent, getCallbyNcci, getCallbyPlci, getCallbyMessid: the place of the
\* call in its application's list, 0 if it is not there.
ByPlci == Place({j \in DOMAIN pA.calls : pA.calls[j].id = capi.id /\ pA.calls[j].plci})
ByIdent == IF capi.b3 THEN Place({j \in DOMAIN pA.calls : pA.calls[j].id = capi.id /\ pA.calls[j].b3})
                      ELSE ByPlci
ByMessid == Place({j \in DOMAIN pA.calls : pA.calls[j].id = capi.id /\ pA.calls[j].active})

\* The call becomes r.c, r.ms are put about it; what is put about capi itself.
Updated(s, j, r) == [s EXCEPT !.appls[K].calls[j] = r.c, !.ms = @ \o r.ms]
Of(j) == [appl |-> pA.id, c |-> pA.calls[j], ms |-> <<>>]
Answer(type) == Put(Now, Msg(type, pA.id, capi.id, capi.b3, 0))

\* CAPI2_CONNECT_IND: the call is taken, the applications are looked after.
ConnectInd ==
    /\ Event("CONNECT_IND")
    /\ LET s == CheckAppl(AllocCall(Now, K, capi.id, FALSE), K)
       IN  Walks(Put(s, Msg("CONNECT_RESP", pA.id, capi.id, FALSE, 0)))

\* CAPI2_CONNECT_CONF: the call gets its PLCI; one that is refused is freed, with
\* its application.
ConnectConf ==
    /\ Event("CONNECT_CONF")
    /\ CASE ByMessid = 0 -> Walks(Now)
         [] ByMessid # 0 /\ capi.info = 0 ->
               Walks([Now EXCEPT !.appls[K].calls[ByMessid].plci = TRUE])
         [] OTHER -> Walks(FreeAppl(Now, K))

\* CAPI2_CONNECTACTIVE_IND: the side that has dialled asks for the B channel.
ConnectActiveInd ==
    /\ Event("CONNECTACTIVE_IND")
    /\ LET s == Answer("CONNECTACTIVE_RESP")  j == ByIdent
       IN  CASE j = 0 -> Walks(s)
             [] j # 0 /\ ~pA.calls[j].active ->
                   Walks([s EXCEPT !.appls[K].calls[j].state = "D_Connected"])
             [] OTHER ->
                   Walks(Put([s EXCEPT !.appls[K].calls[j].state = "B_ConnectPending"],
                             Msg("CONNECTB3_REQ", pA.id, capi.id, FALSE, 0)))

\* CAPI2_CONNECTB3_CONF: the call gets its NCCI.
ConnectB3Conf ==
    /\ Event("CONNECTB3_CONF")
    /\ Walks(IF ByPlci = 0 THEN Now ELSE [Now EXCEPT !.appls[K].calls[ByPlci].b3 = TRUE])

\* CAPI2_CONNECTB3_IND: so does one that has come in, which is answered.
ConnectB3Ind ==
    /\ Event("CONNECTB3_IND")
    /\ Walks(IF ByPlci = 0 THEN Now
             ELSE [Answer("CONNECTB3_RESP") EXCEPT !.appls[K].calls[ByPlci].b3 = TRUE,
                       !.appls[K].calls[ByPlci].state = "B_ConnectPending"])

\* CAPI2_CONNECTB3ACTIVE_IND, handleConnectB3ActiveInd: a window of blocks is sent
\* and the next call dialled.
ConnectB3ActiveInd ==
    /\ Event("CONNECTB3ACTIVE_IND")
    /\ LET s == Answer("CONNECTB3ACTIVE_RESP")
       IN  IF ByIdent = 0 THEN Walks(s)
           ELSE \E c \in {[pA.calls[ByIdent] EXCEPT !.state = "Connected"]} :
                \E r \in {IF c.doSend THEN [Of(ByIdent) EXCEPT !.c = c]
                          ELSE Fill([Of(ByIdent) EXCEPT !.c = [c EXCEPT !.doSend = TRUE]])} :
                    Walks(GenNextCall(Updated(s, ByIdent, r), K))

\* Variant: the block confirmed is not counted off.
DataB3ConfUncounted ==
    /\ Event("DATAB3_CONF")
    /\ Walks(IF ByIdent = 0 THEN Now ELSE Updated(Now, ByIdent, SendData(Of(ByIdent))))

\* CAPI2_DATAB3_CONF, handleDataB3Conf: the next block is sent.
DataB3Conf ==
    /\ Event("DATAB3_CONF")
    /\ Walks(IF ByIdent = 0 THEN Now
             ELSE Updated(Now, ByIdent,
                          SendData([Of(ByIdent) EXCEPT !.c.NotAcknowledged = @ - 1])))

\* CAPI2_DATAB3_IND: what comes in is counted and acknowledged.
DataB3Ind ==
    /\ Event("DATAB3_IND")
    /\ Walks(IF ByIdent = 0 THEN Now ELSE Answer("DATAB3_RESP"))

\* CAPI2_DISCONNECTB3_IND: the call is taken down.
DisconnectB3Ind ==
    /\ Event("DISCONNECTB3_IND")
    /\ LET s == Put(Answer("DISCONNECTB3_RESP"), Msg("DISCONNECT_REQ", pA.id, capi.id, FALSE, 0))
       IN  Walks(IF ByIdent = 0 THEN s
                 ELSE [s EXCEPT !.appls[K].calls[ByIdent].state = "D_DisconnectPending"])

\* CAPI2_DISCONNECT_IND, free_call_struct: the call is freed, and its application.
DisconnectInd ==
    /\ Event("DISCONNECT_IND")
    /\ LET s == Answer("DISCONNECT_RESP")
       IN  Walks(IF ByIdent = 0 THEN s ELSE FreeAppl(s, K))

\* The other confirmations are not looked at.
Conf ==
    /\ \E type \in {"LISTEN_CONF", "DISCONNECTB3_CONF", "DISCONNECT_CONF"} : Event(type)
    /\ Walks(Now)

CapiEvent == \/ ConnectInd \/ ConnectConf \/ ConnectActiveInd \/ ConnectB3Conf \/ ConnectB3Ind
             \/ ConnectB3ActiveInd \/ DataB3Conf \/ DataB3Ind \/ DisconnectB3Ind \/ DisconnectInd
             \/ Conf

--------------------------------------------------------------------------------
(* catch_signal *)

Signalled ==
    /\ pc = "poll" /\ toBrick = <<>>
    /\ signals < cfg.signals /\ signals' = signals + 1
    /\ UNCHANGED <<cfg, answered, toProg, line, listens>>

\* SIGUSR2: a call more.
Usr2 == Signalled /\ Goes(GenNextCall(Now, 1), at)

\* SIGHUP, DisconnectAll: the walk over the calls ends with those of the first
\* application.
Hup ==
    /\ Signalled
    /\ LET Down[j \in 0 .. Len(appls[1].calls)] ==
               IF j = 0 THEN Now
               ELSE LET r == DoDisconnect([appl |-> appls[1].id, c |-> appls[1].calls[j], ms |-> <<>>])
                    IN  [Down[j - 1] EXCEPT !.appls[1].calls[j] = r.c, !.ms = @ \o r.ms]
       IN  Goes(Down[Len(appls[1].calls)], at)

\* SIGUSR1, print_call_stats: divides by the seconds there has been a call for,
\* which may be none.  SIGINT and the like end the program, too.
Stops ==
    /\ Signalled
    /\ \/ /\ \E k \in DOMAIN appls : appls[k].calls # <<>>
          /\ pc' = "killed"
       \/ pc' = "exit"
    /\ UNCHANGED <<prog, at, toBrick>>

--------------------------------------------------------------------------------
(* The brick and the other side *)

\* The brick's call i changes, the brick sends messages (type, b3, info) about it.
Becomes(i, call, ms) ==
    /\ line' = [line EXCEPT ![i] = call]
    /\ toProg' = [toProg EXCEPT ![call.appl] = @ \o
                     [n \in DOMAIN ms |-> Msg(ms[n][1], call.appl, i, ms[n][2], ms[n][3])]]
    /\ UNCHANGED <<pc, cfg, prog, at, signals>>

\* It does so of itself or for the other side.
Moves(i, call, ms) ==
    pc = "poll" /\ toBrick = <<>> /\ Becomes(i, call, ms) /\ UNCHANGED <<toBrick, listens>>

At(i, st) == [line[i] EXCEPT !.st = st]

\* A call comes in, for an application that listens.
Ring ==
    /\ pc = "poll" /\ toBrick = <<>> /\ cfg.recv
    /\ answered < cfg.answers /\ answered' = answered + 1
    /\ dialled' = dialled + 1
    /\ \E a \in listens :
          /\ line' = [line EXCEPT ![dialled'] = [Idle EXCEPT !.st = "offered", !.appl = a]]
          /\ toProg' = [toProg EXCEPT ![a] = Append(@, Msg("CONNECT_IND", a, dialled', FALSE, 0))]
    /\ UNCHANGED <<pc, cfg, appls, pollfds, made, at, signals, toBrick, listens>>

\* The called side answers.
Takes(i) ==
    /\ line[i].st = "dialling"
    /\ answered < cfg.answers /\ answered' = answered + 1
    /\ Moves(i, At(i, "active"), <<<<"CONNECTACTIVE_IND", FALSE, 0>>>>)

\* A block goes out.
Play(i) ==
    /\ line[i].st = "b3up" /\ line[i].unconf > 0 /\ line[i].played < cfg.plays
    /\ Moves(i, [line[i] EXCEPT !.unconf = @ - 1, !.played = @ + 1], <<<<"DATAB3_CONF", TRUE, 0>>>>)
    /\ UNCHANGED answered

\* A block comes in, with the first of the program's.
Speak(i) ==
    /\ line[i].st = "b3up" /\ line[i].played = 0 /\ line[i].unconf > 0
    /\ Moves(i, [line[i] EXCEPT !.unconf = @ - 1, !.played = @ + 1],
             <<<<"DATAB3_IND", TRUE, 0>>, <<"DATAB3_CONF", TRUE, 0>>>>)
    /\ UNCHANGED answered

\* The other side ends the connection, or hangs up.
HangUp(i) ==
    /\ \/ /\ line[i].st = "b3up"
          /\ Moves(i, [At(i, "b3down") EXCEPT !.unconf = 0], <<<<"DISCONNECTB3_IND", TRUE, 0>>>>)
       \/ /\ line[i].st \in {"offered", "dialling", "active", "b3offered", "b3down"}
          /\ Moves(i, At(i, "clearing"), <<<<"DISCONNECT_IND", FALSE, 0>>>>)
    /\ UNCHANGED answered

\* The brick takes the next message of the program.
BrickTakes ==
    /\ toBrick # <<>> /\ toBrick' = Tail(toBrick)
    /\ LET m == Head(toBrick)
           i == m.id
           To(st, ms) == Becomes(i, At(i, st), ms) /\ UNCHANGED listens
           Only(type) == To(line[i].st, <<<<type, m.b3, 0>>>>)
       IN  \/ /\ m.type = "LISTEN_REQ"
              /\ listens' = IF m.info = 1 THEN listens \cup {m.appl} ELSE listens \ {m.appl}
              /\ toProg' = [toProg EXCEPT ![m.appl] =
                               Append(@, Msg("LISTEN_CONF", m.appl, 0, FALSE, 0))]
              /\ UNCHANGED <<pc, cfg, prog, at, signals, line>>
           \/ /\ m.type = "RELEASE"
              /\ listens' = listens \ {m.appl}
              /\ toProg' = [toProg EXCEPT ![m.appl] = <<>>]
              /\ line' = [n \in CallIds |-> IF line[n].appl = m.appl THEN Idle ELSE line[n]]
              /\ UNCHANGED <<pc, cfg, prog, at, signals>>
           \/ /\ m.type = "CONNECT_REQ"
              /\ \/ Becomes(i, [Idle EXCEPT !.st = "dialling", !.appl = m.appl],
                            <<<<"CONNECT_CONF", FALSE, 0>>>>)
                 \/ Becomes(i, [Idle EXCEPT !.appl = m.appl], <<<<"CONNECT_CONF", FALSE, 1>>>>)
              /\ UNCHANGED listens
           \/ /\ m.type = "CONNECT_RESP" /\ line[i].st = "offered"
              /\ To("b3offered", <<<<"CONNECTACTIVE_IND", FALSE, 0>>, <<"CONNECTB3_IND", TRUE, 0>>>>)
           \/ /\ m.type = "CONNECTB3_RESP" /\ line[i].st = "b3offered"
              /\ To("b3up", <<<<"CONNECTB3ACTIVE_IND", TRUE, 0>>>>)
           \/ /\ m.type = "CONNECTB3_REQ" /\ line[i].st = "active"
              /\ To("b3up", <<<<"CONNECTB3_CONF", TRUE, 0>>, <<"CONNECTB3ACTIVE_IND", TRUE, 0>>>>)
           \/ /\ m.type = "DATAB3_REQ" /\ line[i].st = "b3up"
              /\ Becomes(i, [line[i] EXCEPT !.unconf = @ + 1], <<>>) /\ UNCHANGED listens
           \/ m.type = "DATAB3_REQ" /\ line[i].st # "b3up" /\ Only("DATAB3_CONF")
           \/ /\ m.type = "DISCONNECTB3_REQ" /\ m.b3 /\ line[i].st = "b3up"
              /\ Becomes(i, [At(i, "b3down") EXCEPT !.unconf = 0],
                         <<<<"DISCONNECTB3_CONF", TRUE, 0>>, <<"DISCONNECTB3_IND", TRUE, 0>>>>)
              /\ UNCHANGED listens
           \/ /\ m.type = "DISCONNECTB3_REQ" /\ ~(m.b3 /\ line[i].st = "b3up")
              /\ Only("DISCONNECTB3_CONF")
           \/ /\ m.type = "DISCONNECT_REQ" /\ line[i].st \notin {"free", "clearing"}
              /\ To("clearing", <<<<"DISCONNECT_CONF", FALSE, 0>>, <<"DISCONNECT_IND", FALSE, 0>>>>)
           \/ /\ m.type = "DISCONNECT_REQ" /\ line[i].st \in {"free", "clearing"}
              /\ Only("DISCONNECT_CONF")
           \/ /\ m.type \in {"CONNECT_RESP", "CONNECTB3_RESP", "CONNECTB3_REQ"}
              /\ line[i].st \in {"free", "clearing"}
              /\ To(line[i].st, <<>>)
           \/ /\ m.type \in {"CONNECTACTIVE_RESP", "CONNECTB3ACTIVE_RESP", "DATAB3_RESP",
                             "DISCONNECTB3_RESP", "DISCONNECT_RESP"}
              /\ To(line[i].st, <<>>)
    /\ UNCHANGED answered

Main == Start \/ Poll \/ CapiEvent
Signals == Usr2 \/ Hup \/ Stops
Brick == BrickTakes \/ \E i \in CallIds : Takes(i) \/ Play(i) \/ Speak(i) \/ HangUp(i)

Next == Main \/ Signals \/ Ring \/ Brick

Spec == Init /\ [][Next]_vars

\* The program runs when it can, and the brick takes what is sent.  No signal and
\* nothing the other side does is owed.
FairSpec == Spec /\ WF_vars(Main) /\ WF_vars(BrickTakes)

--------------------------------------------------------------------------------
(* Properties *)

States == {"D_ConnectPending", "D_Connected", "B_ConnectPending", "Connected",
           "B_DisconnectPending", "D_DisconnectPending"}

TypeOK ==
    /\ pc \in {"init", "poll", "exit", "killed"} /\ cfg \in Configs
    /\ \A k \in DOMAIN appls :
          /\ appls[k].id \in 1 .. made /\ appls[k].fd >= 3
          /\ \A j \in DOMAIN appls[k].calls :
                LET c == appls[k].calls[j]
                IN  /\ c.id \in 1 .. dialled /\ c.state \in States /\ c.NotAcknowledged \in Nat
                    /\ c.b3 => c.plci
    /\ at \in Nat /\ made \in ApplIds \cup {0} /\ dialled \in CallIds \cup {0}
    /\ listens \subseteq ApplIds

\* As long as no SIGUSR2 has come a sender has no more calls than option -s asks for,
\* over all its applications, although gen_next_call counts from the application
\* of the call on and frees applications as calls end.
LimitKept ==
    ~cfg.recv /\ signals = 0 =>
        Cardinality(UNION {{k} \X DOMAIN appls[k].calls : k \in DOMAIN appls}) <= cfg.MaxActivCalls

\* The variables have their types, and the poll list has each application it has had
\* room for, once, as long as it lives, under the descriptor it has now, whatever
\* descriptors registering has given out again.  It has nobody else, no more than fit,
\* and pollloopt is inside of it (mypolldel, pollset).
PollListRight ==
    /\ TypeOK
    /\ pc = "poll" => at <= Len(pollfds)
    /\ Len(pollfds) <= MaxFd
    /\ \A k \in DOMAIN appls :
          appls[k].polled <=> \E n \in DOMAIN pollfds : pollfds[n].fd = appls[k].fd
    /\ \A n \in DOMAIN pollfds : \E k \in DOMAIN appls :
          appls[k].fd = pollfds[n].fd /\ appls[k].id = pollfds[n].arg
    /\ \A m, n \in DOMAIN pollfds : pollfds[m].fd = pollfds[n].fd => m = n

\* The messages of this type about call i in q.
Count(q, i, type) == Cardinality({n \in DOMAIN q : q[n].id = i /\ q[n].type = type})

\* A call that is up has as many blocks unacknowledged as the brick has to take, to
\* send or to confirm to the program, and no more than the window.
WindowKept ==
    \A k \in DOMAIN appls : \A j \in DOMAIN appls[k].calls :
        LET c == appls[k].calls[j]  l == line[c.id]
        IN  l.st = "b3up" =>
              /\ c.NotAcknowledged = Count(toBrick, c.id, "DATAB3_REQ") + l.unconf
                                     + Count(toProg[l.appl], c.id, "DATAB3_CONF")
              /\ c.NotAcknowledged <= Window

\* A receiver with one call to a connection is always offered calls: when it waits,
\* some living application listens at the brick (PollListRight and Served tell
\* whether it will hear of them).
Reachable ==
    cfg.recv /\ cfg.callperappl = 1 /\ pc = "poll" /\ toBrick = <<>> =>
        \E k \in DOMAIN appls : appls[k].listen /\ appls[k].id \in listens

\* A message that has arrived for an application the poll list had room for is taken
\* in the end, or the application is freed: the walk that has lost an entry's event
\* comes round to it again.
Served ==
    \A a \in ApplIds :
        (\E k \in DOMAIN appls : appls[k].id = a /\ appls[k].polled) /\ toProg[a] # <<>>
            ~> \/ pc # "poll" \/ \A k \in DOMAIN appls : appls[k].id # a
               \/ toProg[a] = <<>>
================================================================================
