------------------------------ MODULE AnswerMachine ------------------------------
(****************************************************************************)
(* capirecv.c: the answering machine.  capi_event takes an incoming call,   *)
(* plays the announcement to it, a window of blocks at a time (SendData,    *)
(* nextwavestate), and behind it records what the caller says.  Several     *)
(* calls may be at it at once.                                              *)
(*                                                                          *)
(* The brick, the callers and the network are external; messages travel     *)
(* whole and in order.  Only those to the program take time, the brick has  *)
(* taken what the program sends before anything else happens: that messages *)
(* cross is seen as well when one way is slow.  How the program gets over a *)
(* lost connection is the text of faxrecv.c (FaxRecv) and left out here:    *)
(* the brick stays up.                                                      *)
(****************************************************************************)
EXTENDS Integers, Sequences, FiniteSets, FiniteSetsExt, SequencesExt

CONSTANTS Plcis,       \* the connections the brick can have at a time, numbers
          MaxCalls,    \* bound: how many calls come in at most
          Configs      \* bound: how the program is called and what comes in, see cfg

ASSUME AnswerMachineAssumption ==
    /\ Plcis \subseteq Nat /\ MaxCalls \in Nat
    /\ Configs \subseteq [ncnt : Nat, fork_flag : BOOLEAN, winsize : Nat, says : Nat, has : Nat,
                          rings : 0 .. MaxCalls, speaks : Nat]

VARIABLES
    pc,         \* "init", "poll", "exit", "killed"
    calls,      \* global.calls, newest first
    cfg,        \* ncnt: how many digits are waited for (option -n); fork_flag: the loop
                \* never ends (-b); winsize: how many blocks may be unacknowledged (-w);
                \* of the announcement txfile (-a) the blocks the header says it has and
                \* those it has; bounds: how many calls come in, and blocks in each
    toBrick,    \* messages the brick takes next
    toProg,     \* messages under way to the program
    line,       \* of each PLCI, the brick's call
    rung,       \* how many calls have come in
    files       \* of each call, the message recorded: the blocks that fwrite() has taken for
                \* it, those of which it has taken only a part, the size in its header

vars == <<pc, calls, cfg, toBrick, toProg, line, rung, files>>

CallIds == 1 .. MaxCalls

NoMsg == [type |-> "none", plci |-> 0, b3 |-> FALSE, id |-> 0, arg |-> 0]

\* The brick's call: the blocks of the announcement it has played and those it has
\* yet to play, the blocks of the caller it has sent and those acknowledged.
Idle == [st |-> "free", id |-> 0, digits |-> 0, played |-> <<>>, unconf |-> <<>>,
         sent |-> 0, acked |-> {}]

Init ==
    /\ pc = "init" /\ calls = <<>>
    /\ cfg \in Configs
    /\ toBrick = <<>> /\ toProg = <<>> /\ line = [p \in Plcis |-> Idle] /\ rung = 0
    /\ files = [i \in CallIds |-> [data |-> <<>>, part |-> {}, size |-> 0]]

\* The message capi_event gets: the main loop's poll() reports the socket,
\* capi2_get_message has a message.
capi == Head(toProg)

\* A message of the program about the call of capi.
About(type, arg) == [type |-> type, plci |-> capi.plci, b3 |-> capi.b3,
                     id |-> capi.id, arg |-> arg]

\* capi_event has handled its message; the program has put messages about the same
\* call and goes on at next.
Sends(ms, next) ==
    /\ pc' = next
    /\ toBrick' = ms /\ toProg' = Tail(toProg)
Quiet == Sends(<<>>, "poll")

\* main, init_capi: registers, and asks for calls.
Start ==
    /\ pc = "init" /\ pc' = "poll"
    /\ toProg' = <<[NoMsg EXCEPT !.type = "LISTEN_CONF"]>>
    /\ UNCHANGED <<calls, cfg, toBrick, line, rung, files>>

--------------------------------------------------------------------------------
(* capi_event *)

\* getCallbyPlci, getCallbyIdent: the newest call with the PLCI, or with the NCCI
\* if the message has one; 0 if there is none.
FirstOf(S) == IF S = {} THEN 0 ELSE Min(S)
ByPlci == FirstOf({k \in DOMAIN calls : calls[k].plci = capi.plci})
ByIdent == IF capi.b3
             THEN FirstOf({k \in DOMAIN calls : calls[k].plci = capi.plci /\ calls[k].b3})
             ELSE ByPlci

\* capi_event with a message of this type.
Event(type) ==
    /\ pc = "poll" /\ toBrick = <<>> /\ toProg # <<>> /\ capi.type = type
    /\ UNCHANGED <<cfg, line, rung>>

\* NEWSTATE of the k-th call, if there is one.
NewState(cs, k, state) == IF k = 0 THEN cs ELSE [cs EXCEPT ![k].state = state]

\* alloc_call, createNewCallPtr, enqueue_call: the new call is the first of the list.
Enqueued(state) ==
    <<[id |-> capi.id, plci |-> capi.plci, b3 |-> FALSE, state |-> state, ncnt |-> 0,
       txfp |-> FALSE, rxfp |-> "null", txlen |-> 0, doSend |-> FALSE, wavestate |-> 0,
       usDataHandle |-> 0, NotAcknowledged |-> 0]>> \o calls

\* matchBindings: the called number is the right one; the message that completes
\* it tells.
Matches == capi.arg = 1

\* CAPI2_CONNECT_IND, handleConnectInd: with option -n the digits are waited for; a
\* call for the right number is accepted, any other ignored.  There may be no
\* memory for a call.
ConnectInd ==
    /\ Event("CONNECT_IND")
    /\ \/ /\ cfg.ncnt > 0
          /\ calls' = Enqueued("OverlapReceiving")
          /\ Quiet
       \/ /\ cfg.ncnt = 0 /\ Matches
          /\ calls' = Enqueued("D_ConnectPending")
          /\ Sends(<<About("CONNECT_RESP", 0)>>, "poll")
       \/ /\ cfg.ncnt = 0 /\ ~Matches
          /\ calls' = NewState(calls, ByIdent, "IgnoreDisconnect")
          /\ Sends(<<About("CONNECT_RESP", 1)>>, "poll")
       \/ /\ cfg.ncnt > 0 \/ Matches
          /\ calls' = NewState(calls, 0, "Disconnected")
          /\ Sends(<<About("CONNECT_RESP", 8)>>, "poll")
    /\ UNCHANGED files

\* CAPI2_INFO_IND, handleInfoInd: a digit of the called number; with the last one
\* the call is accepted or ignored.
InfoInd ==
    /\ Event("INFO_IND")
    /\ LET k == ByIdent
           waits == k # 0 /\ calls[k].state = "OverlapReceiving"
           cs == IF waits THEN [calls EXCEPT ![k].ncnt = @ + 1] ELSE calls
           complete == waits /\ cs[k].ncnt >= cfg.ncnt
           Answer(arg) == Sends(<<About("INFO_RESP", 0), About("CONNECT_RESP", arg)>>, "poll")
       IN  \/ ~complete /\ calls' = cs /\ Sends(<<About("INFO_RESP", 0)>>, "poll")
           \/ complete /\ Matches /\ calls' = NewState(cs, k, "D_ConnectPending") /\ Answer(0)
           \/ complete /\ ~Matches /\ calls' = NewState(cs, k, "IgnoreDisconnect") /\ Answer(1)
    /\ UNCHANGED files

\* CAPI2_CONNECTACTIVE_IND: NEWSTATE of a null pointer ends the program.
ConnectActiveInd ==
    /\ Event("CONNECTACTIVE_IND")
    /\ calls' = NewState(calls, ByIdent, "D_Connected")
    /\ Sends(<<About("CONNECTACTIVE_RESP", 0)>>, IF ByIdent = 0 THEN "killed" ELSE "poll")
    /\ UNCHANGED files

\* CAPI2_CONNECTB3_IND: the call is found by its PLCI and takes the NCCI.
ConnectB3Ind ==
    /\ Event("CONNECTB3_IND")
    /\ IF ByPlci = 0
         THEN calls' = calls /\ Quiet
         ELSE /\ calls' = [NewState(calls, ByPlci, "B_ConnectPending") EXCEPT ![ByPlci].b3 = TRUE]
              /\ Sends(<<About("CONNECTB3_RESP", 0)>>, "poll")
    /\ UNCHANGED files

\* doDisconnect of a call that is Connected: wait4dataconf is off, there is no
\* option for it.
Disconnects == <<About("DISCONNECTB3_REQ", 0)>>

\* nextwavestate, case 1: the announcement is closed, a file is created for the
\* message.  The name counts up until there is no such file; it may not be created.
Records(c, created) ==
    [c EXCEPT !.doSend = FALSE, !.wavestate = 1, !.txfp = FALSE,
              !.rxfp = IF created THEN "open" ELSE "failed"]

\* Variant: the end is looked for one block too early.
SendDataShort(c, created) ==
    CASE ~c.txfp \/ ~c.doSend -> c
      [] c.txfp /\ c.doSend /\ (c.txlen <= 2 \/ c.usDataHandle = cfg.has) -> Records(c, created)
      [] OTHER -> [c EXCEPT !.txlen = @ - 1, !.usDataHandle = @ + 1, !.NotAcknowledged = @ + 1]

\* Variant: the block is not counted.
SendDataUncounted(c, created) ==
    CASE ~c.txfp \/ ~c.doSend -> c
      [] c.txfp /\ c.doSend /\ (c.txlen <= 1 \/ c.usDataHandle = cfg.has) -> Records(c, created)
      [] OTHER -> [c EXCEPT !.txlen = @ - 1, !.usDataHandle = @ + 1]

\* Variant: the file for the message is not created.
SendDataStops(c, created) ==
    CASE ~c.txfp \/ ~c.doSend -> c
      [] c.txfp /\ c.doSend /\ (c.txlen <= 1 \/ c.usDataHandle = cfg.has) ->
             [c EXCEPT !.doSend = FALSE]
      [] OTHER -> [c EXCEPT !.txlen = @ - 1, !.usDataHandle = @ + 1, !.NotAcknowledged = @ + 1]

\* SendData: the call behind it.  The next block is read and sent, but when nothing
\* is left to be read behind it the sending ends without it; it ends, too, where
\* the file is shorter than its header says.
SendData(c, created) ==
    CASE ~c.txfp \/ ~c.doSend -> c
      [] c.txfp /\ c.doSend /\ (c.txlen <= 1 \/ c.usDataHandle = cfg.has) -> Records(c, created)
      [] OTHER -> [c EXCEPT !.txlen = @ - 1, !.usDataHandle = @ + 1, !.NotAcknowledged = @ + 1]

\* The blocks that have been put when the call has become c.
Blocks(k, c) ==
    [n \in 1 .. c.usDataHandle - calls[k].usDataHandle |->
        About("DATAB3_REQ", calls[k].usDataHandle + n)]

\* nextwavestate, case 0: a window of blocks is sent, one at least.  The counter is
\* static, and SendData that comes to the end counts file names in it; but from
\* there on SendData does nothing more, however often it is called.
Window == IF cfg.winsize = 0 THEN 1 ELSE cfg.winsize
Fill(c, created) ==
    LET Sent[n \in 0 .. Window] == IF n = 0 THEN c ELSE SendData(Sent[n - 1], created)
    IN  Sent[Window]

\* handleConnectB3ActiveInd: the announcement is opened, skip_waveheader returns the
\* length its header has.
Opened(c) == [c EXCEPT !.state = "Connected", !.wavestate = 0, !.doSend = TRUE,
                       !.txfp = TRUE, !.txlen = cfg.says]

\* CAPI2_CONNECTB3ACTIVE_IND: switchDTMF follows the pointer before it is looked at.
\* When the announcement cannot be opened the call is given up.
ConnectB3ActiveInd ==
    /\ Event("CONNECTB3ACTIVE_IND")
    /\ LET k == ByIdent
           resp == <<About("FACILITY_REQ", 0), About("CONNECTB3ACTIVE_RESP", 0)>>
       IN  \/ /\ k = 0
              /\ calls' = calls /\ Sends(<<>>, "killed")
           \/ /\ k # 0
              /\ \E created \in BOOLEAN :
                    \E c \in {Fill(Opened(calls[k]), created)} :
                        calls' = [calls EXCEPT ![k] = c] /\ Sends(resp \o Blocks(k, c), "poll")
           \/ /\ k # 0
              /\ calls' = [calls EXCEPT ![k].state = "Connected", ![k].doSend = TRUE]
              /\ Sends(resp \o Disconnects, "poll")
    /\ UNCHANGED files

\* CAPI2_DATAB3_CONF, handleDataB3Conf: the next block is sent.
DataB3Conf ==
    /\ Event("DATAB3_CONF")
    /\ LET k == ByIdent
       IN  \/ k = 0 /\ calls' = calls /\ Quiet
           \/ /\ k # 0
              /\ \E created \in BOOLEAN :
                    \E c \in {SendData([calls[k] EXCEPT !.NotAcknowledged = @ - 1], created)} :
                        calls' = [calls EXCEPT ![k] = c] /\ Sends(Blocks(k, c), "poll")
    /\ UNCHANGED files

\* fwrite() takes a block behind the others of the k-th call's message, of those in
\* part (none or this one) not all of it.
Written(k, part) == [files EXCEPT ![calls[k].id].data = Append(@, capi.arg),
                                  ![calls[k].id].part = @ \cup part]

\* Variant: a block that cannot be written is acknowledged all the same.
DataB3IndAlways ==
    /\ Event("DATAB3_IND")
    /\ LET k == ByIdent
       IN  \/ /\ k # 0 /\ calls[k].rxfp = "open"
              /\ files' = Written(k, {})
           \/ files' = files
    /\ Sends(<<About("DATAB3_RESP", capi.arg)>>, "poll")
    /\ UNCHANGED calls

\* CAPI2_DATAB3_IND, handleDataB3Ind: as long as there is no file the block is
\* acknowledged and dropped; then it is written, and acknowledged if fwrite() has
\* taken any of it (of len # datalen it only tells).
DataB3Ind ==
    /\ Event("DATAB3_IND")
    /\ LET k == ByIdent
           resp == <<About("DATAB3_RESP", capi.arg)>>
       IN  \/ /\ k = 0
              /\ files' = files /\ Quiet
           \/ /\ k # 0 /\ calls[k].rxfp # "open"
              /\ files' = files /\ Sends(resp, "poll")
           \/ /\ k # 0 /\ calls[k].rxfp = "open"
              /\ \E part \in {{}, {capi.arg}} : files' = Written(k, part)
              /\ Sends(resp, "poll")
           \/ /\ k # 0 /\ calls[k].rxfp = "open"
              /\ files' = files /\ Quiet
    /\ UNCHANGED calls

\* CAPI2_DISCONNECTB3_IND: the call, if there is one, is taken down.
DisconnectB3Ind ==
    /\ Event("DISCONNECTB3_IND")
    /\ calls' = NewState(calls, ByIdent, "D_DisconnectPending")
    /\ Sends(<<About("DISCONNECTB3_RESP", 0), About("DISCONNECT_REQ", 0)>>, "poll")
    /\ UNCHANGED files

\* Variant: the header is written anew only while the call is connected.
FreeCallPlain(k) ==
    /\ calls' = IF k = 0 THEN calls ELSE RemoveAt(calls, k)
    /\ files' = IF k # 0 /\ calls[k].rxfp = "open" /\ calls[k].state = "Connected"
                  THEN [files EXCEPT ![calls[k].id].size = Len(files[calls[k].id].data)]
                  ELSE files

\* free_call: the k-th call is taken off the list; create_waveheader writes the
\* header of its message anew, now with the size.
FreeCall(k) ==
    /\ calls' = IF k = 0 THEN calls ELSE RemoveAt(calls, k)
    /\ files' = IF k # 0 /\ calls[k].rxfp = "open"
                  THEN [files EXCEPT ![calls[k].id].size = Len(files[calls[k].id].data)]
                  ELSE files

\* CAPI2_DISCONNECT_IND: the call is freed.  Without option -b the program is
\* through, whatever other calls there are.
DisconnectInd ==
    /\ Event("DISCONNECT_IND")
    /\ FreeCall(ByIdent)
    /\ Sends(<<About("DISCONNECT_RESP", 0)>>, IF cfg.fork_flag THEN "poll" ELSE "exit")

\* The other confirmations are not looked at.
Conf ==
    /\ \E type \in {"LISTEN_CONF", "FACILITY_CONF", "DISCONNECTB3_CONF", "DISCONNECT_CONF"} :
          Event(type)
    /\ Quiet
    /\ UNCHANGED <<calls, files>>

CapiEvent == \/ ConnectInd \/ InfoInd \/ ConnectActiveInd
             \/ ConnectB3Ind \/ ConnectB3ActiveInd \/ DataB3Conf \/ DataB3Ind
             \/ DisconnectB3Ind \/ DisconnectInd \/ Conf

--------------------------------------------------------------------------------
(* The brick and the callers *)

\* A message of the brick about the call on line p.
Ind(p, b3, type, arg) == [type |-> type, plci |-> p, b3 |-> b3, id |-> line[p].id, arg |-> arg]

\* The brick's call on line p changes, the brick sends messages.
Becomes(p, call, ms) ==
    /\ line' = [line EXCEPT ![p] = call]
    /\ toProg' = toProg \o ms
    /\ UNCHANGED <<pc, calls, cfg, files>>

\* It does so of itself or for the caller.
Moves(p, call, ms) == toBrick = <<>> /\ Becomes(p, call, ms) /\ UNCHANGED toBrick

\* A call comes in, for the right number or for another, on the lowest line that is
\* free (bound: the program makes no difference between them).
Ring(p) ==
    /\ line[p].st = "free" /\ pc # "init"
    /\ \A q \in Plcis : line[q].st = "free" => p <= q
    /\ rung < cfg.rings /\ rung' = rung + 1
    /\ \E right \in {0, 1} :
          Moves(p, [Idle EXCEPT !.st = "offered", !.id = rung'],
                <<[type |-> "CONNECT_IND", plci |-> p, b3 |-> FALSE, id |-> rung', arg |-> right]>>)

\* The caller dials a digit more.
Digit(p) ==
    /\ line[p].st = "offered" /\ line[p].digits < cfg.ncnt
    /\ \E right \in {0, 1} :
          Moves(p, [line[p] EXCEPT !.digits = @ + 1], <<Ind(p, FALSE, "INFO_IND", right)>>)
    /\ UNCHANGED rung

\* A block of the announcement has been played.
Play(p) ==
    /\ line[p].st = "b3up" /\ line[p].unconf # <<>>
    /\ Moves(p, [line[p] EXCEPT !.played = Append(@, Head(line[p].unconf)), !.unconf = Tail(@)],
             <<Ind(p, TRUE, "DATAB3_CONF", 0)>>)
    /\ UNCHANGED rung

\* A block of what the caller says; at most a window is not acknowledged.
Speak(p) ==
    /\ line[p].st = "b3up" /\ line[p].sent < cfg.speaks
    /\ line[p].sent - Cardinality(line[p].acked) < Window
    /\ Moves(p, [line[p] EXCEPT !.sent = @ + 1], <<Ind(p, TRUE, "DATAB3_IND", line[p].sent + 1)>>)
    /\ UNCHANGED rung

\* The caller hangs up.
HangUp(p) ==
    /\ \/ /\ line[p].st \in {"b3offered", "b3up"}
          /\ Moves(p, [line[p] EXCEPT !.st = "b3down", !.unconf = <<>>],
                   <<Ind(p, TRUE, "DISCONNECTB3_IND", 0)>>)
       \/ /\ line[p].st \in {"offered", "b3down"}
          /\ Moves(p, [line[p] EXCEPT !.st = "clearing"], <<Ind(p, FALSE, "DISCONNECT_IND", 0)>>)
    /\ UNCHANGED rung

\* The brick takes the next message of the program.
BrickTakes ==
    /\ toBrick # <<>> /\ toBrick' = Tail(toBrick)
    /\ LET m == Head(toBrick)
           p == m.plci
           l == line[p]
           To(st, ms) == Becomes(p, [l EXCEPT !.st = st], ms)
           Confirmed(type) == Ind(p, m.b3, type, 0)
       IN  CASE m.type = "CONNECT_RESP" /\ l.st = "offered" ->
                  IF m.arg = 0 THEN To("b3offered", <<Ind(p, FALSE, "CONNECTACTIVE_IND", 0),
                                                      Ind(p, TRUE, "CONNECTB3_IND", 0)>>)
                               ELSE To("clearing", <<Ind(p, FALSE, "DISCONNECT_IND", 0)>>)
             [] m.type = "CONNECTB3_RESP" /\ l.st = "b3offered" ->
                  To("b3up", <<Ind(p, TRUE, "CONNECTB3ACTIVE_IND", 0)>>)
             [] m.type = "FACILITY_REQ" -> To(l.st, <<Confirmed("FACILITY_CONF")>>)
             [] m.type = "DATAB3_REQ" /\ l.st = "b3up" ->
                  Becomes(p, [l EXCEPT !.unconf = Append(@, m.arg)], <<>>)
             [] m.type = "DATAB3_REQ" /\ l.st # "b3up" -> To(l.st, <<Confirmed("DATAB3_CONF")>>)
             [] m.type = "DATAB3_RESP" -> Becomes(p, [l EXCEPT !.acked = @ \cup {m.arg}], <<>>)
             [] m.type = "DISCONNECTB3_REQ" /\ l.st = "b3up" ->
                  Becomes(p, [l EXCEPT !.st = "b3down", !.unconf = <<>>],
                          <<Confirmed("DISCONNECTB3_CONF"), Ind(p, TRUE, "DISCONNECTB3_IND", 0)>>)
             [] m.type = "DISCONNECTB3_REQ" /\ l.st # "b3up" ->
                  To(l.st, <<Confirmed("DISCONNECTB3_CONF")>>)
             [] m.type = "DISCONNECT_REQ" /\ l.st \notin {"free", "clearing"} ->
                  To("clearing", <<Confirmed("DISCONNECT_CONF"), Ind(p, FALSE, "DISCONNECT_IND", 0)>>)
             [] m.type = "DISCONNECT_REQ" /\ l.st \in {"free", "clearing"} ->
                  To(l.st, <<Confirmed("DISCONNECT_CONF")>>)
             [] m.type = "DISCONNECT_RESP" /\ l.st = "clearing" -> Becomes(p, Idle, <<>>)
             [] OTHER -> To(l.st, <<>>)
    /\ UNCHANGED rung

Main == Start \/ CapiEvent
Brick == BrickTakes \/ \E p \in Plcis : Play(p)
Caller == \E p \in Plcis : Ring(p) \/ Digit(p) \/ Speak(p) \/ HangUp(p)

Next == Main \/ Brick \/ Caller

Spec == Init /\ [][Next]_vars

\* The program runs when it can; the brick plays what it has got.  No
\* caller owes anything.
FairSpec == /\ Spec
            /\ WF_vars(Main) /\ WF_vars(BrickTakes)
            /\ \A p \in Plcis : WF_vars(Play(p))

--------------------------------------------------------------------------------
(* Properties *)

States == {"OverlapReceiving", "D_ConnectPending", "D_Connected", "B_ConnectPending",
           "Connected", "B_DisconnectPending", "D_DisconnectPending", "Disconnected",
           "IgnoreDisconnect"}

TypeOK ==
    /\ pc \in {"init", "poll", "exit", "killed"} /\ cfg \in Configs
    /\ \A k \in DOMAIN calls :
          /\ calls[k].id \in CallIds /\ calls[k].plci \in Plcis
          /\ calls[k].state \in States /\ calls[k].ncnt \in 0 .. cfg.ncnt
          /\ calls[k].rxfp \in {"null", "open", "failed"}
          /\ calls[k].NotAcknowledged \in Nat /\ calls[k].usDataHandle \in 0 .. cfg.has
    /\ rung \in 0 .. MaxCalls
    /\ \A p \in Plcis : line[p].id \in CallIds \cup {0} /\ line[p].sent \in Nat

\* How many messages of this type are in q for call i.
Of(i, type, q) == Cardinality({n \in DOMAIN q : q[n].id = i /\ q[n].type = type})

\* The variables have their types, and while a call is up, NotAcknowledged counts the
\* blocks that are not played yet or played without the program knowing, and they
\* are never more than the window: calls whose confirmations come mixed share
\* capi_event and the counter of nextwavestate (NotAcknowledged, cnt).
WindowKept ==
    /\ TypeOK
    /\ \A k \in DOMAIN calls :
         LET c == calls[k]  l == line[c.plci]
         IN  l.id = c.id /\ l.st = "b3up" =>
              /\ c.NotAcknowledged = Of(c.id, "DATAB3_REQ", toBrick) + Len(l.unconf)
                                     + Of(c.id, "DATAB3_CONF", toProg)
              /\ c.NotAcknowledged <= Window

\* What a caller hears is the announcement from its first block on, in order, and
\* the recording begins only when all of it that the file has has been sent, but
\* for the last block, which SendData drops.
Announced ==
    /\ \A p \in Plcis : \A n \in DOMAIN line[p].played : line[p].played[n] = n
    /\ \A k \in DOMAIN calls : calls[k].rxfp # "null" =>
          calls[k].usDataHandle >= Min({cfg.has, cfg.says - 1})

\* No block is left out of a message: its blocks are in their order, and once the
\* recording has begun every block the brick counts as received is among them.  It
\* may be so with less than the caller has said: of a block that fwrite() cuts short
\* (part) the rest is missing, and the brick is not told.
NoneLeftOut ==
    \A p \in Plcis : line[p].id # 0 =>
        LET data == files[line[p].id].data
        IN  /\ \A n \in 1 .. Len(data) - 1 : data[n] < data[n + 1]
            /\ \A n \in DOMAIN data, b \in line[p].acked : b > data[n] => b \in Range(data)

\* A message whose call is over has its size in its header: players stop there.
HeaderRight ==
    \A i \in CallIds : (\A k \in DOMAIN calls : calls[k].id # i) =>
        files[i].size = Len(files[i].data)

\* Whoever is connected comes to the recording, or the call is over, or the program
\* is through with another call and has no option -b.  (A recording whose file
\* cannot be created counts here; nobody looks at what nextwavestate returns.)
RecordingStarts ==
    \A p \in Plcis : \A i \in CallIds :
        line[p].st = "b3up" /\ line[p].id = i
            ~> \/ line[p].id # i \/ line[p].st # "b3up" \/ pc = "exit"
               \/ \E k \in DOMAIN calls : calls[k].id = i /\ calls[k].rxfp # "null"
================================================================================
