-------------------------------- MODULE FaxSend --------------------------------
(****************************************************************************)
(* capifax.c: the client that sends one file as a fax.  It registers, asks  *)
(* for the connection, and then only reacts to the messages of the brick:   *)
(* pollloopt hands each of them to capi_event.                              *)
(*                                                                          *)
(* The brick, with the called fax behind it, and the connection are         *)
(* external.  Messages travel whole and in order (RcapiSend, RcapiReceive). *)
(* The external program of options -t and -T is left out.                   *)
(****************************************************************************)
EXTENDS Integers, Sequences, FiniteSets

CONSTANTS MaxBlocks,   \* bound: how many blocks the file has
          MayBreak     \* TRUE: the brick may die

ASSUME FaxSendAssumption == MaxBlocks \in Nat /\ MayBreak \in BOOLEAN

VARIABLES
    pc,             \* "init", "poll", "event", "exit", "killed"
    capi,           \* the message capi_event has got
    call,           \* the call_t; plci and b3 tell what is in its ident
    wait4dataconf,  \* cfg.wait4dataconf (option -W)
    size,           \* how many blocks the file has
    pos,            \* how many of them fread() has read, the last usDataHandle
    conn,           \* the connection: "up"; "reset" with the error pending; "dead"
    toBrick,        \* messages under way to the brick
    toProg,         \* messages under way to the program
    line            \* the brick's call

net == <<conn, toBrick, toProg>>
file == <<wait4dataconf, size, pos>>
vars == <<pc, capi, call, file, net, line>>

Msg(type, b3, info) == [type |-> type, b3 |-> b3, info |-> info]
NoMsg == Msg("none", FALSE, 0)

\* A message about the connection (PLCI) and one about the fax connection (NCCI).
D(type, info) == Msg(type, FALSE, info)
B(type, info) == Msg(type, TRUE, info)

NewCall == [there |-> TRUE, state |-> "Disconnected", plci |-> FALSE, b3 |-> FALSE,
            doSend |-> FALSE, NotAcknowledged |-> 0]

\* The brick's call: how far it is, the blocks that have gone out, those it has
\* taken but not confirmed, and how the fax has ended.
NoLine == [st |-> "free", got |-> <<>>, unconf |-> <<>>, end |-> "open"]

Init ==
    /\ pc = "init" /\ capi = NoMsg /\ call = NewCall
    /\ wait4dataconf \in BOOLEAN /\ size \in 0 .. MaxBlocks /\ pos = 0
    /\ conn = "dead" /\ toBrick = <<>> /\ toProg = <<>>
    /\ line = NoLine

\* The program puts messages and takes no notice of what capi2_put_message
\* returns.  The first put behind a reset fails, a later one raises SIGPIPE.
Sends(ms, next) ==
    /\ pc' = IF \/ conn = "dead" /\ ms # <<>>
                \/ conn = "reset" /\ Len(ms) > 1 THEN "killed" ELSE next
    /\ toBrick' = IF conn = "up" THEN toBrick \o ms ELSE toBrick
    /\ conn' = IF conn = "reset" /\ ms # <<>> THEN "dead" ELSE conn
    /\ UNCHANGED toProg

\* main: registers, and asks for the connection.
Start ==
    /\ pc = "init" /\ pc' = "poll"
    /\ conn' = "up"
    /\ toBrick' = <<D("LISTEN_REQ", 0), D("CONNECT_REQ", 0)>>
    /\ call' = [call EXCEPT !.state = "D_ConnectPending"]
    /\ UNCHANGED <<capi, file, toProg, line>>

--------------------------------------------------------------------------------
(* capi_event *)

\* pollloopt finds the socket readable, and capi2_get_message has a message.
Get ==
    /\ pc = "poll"
    /\ toProg # <<>>
    /\ capi' = Head(toProg) /\ toProg' = Tail(toProg)
    /\ pc' = "event"
    /\ UNCHANGED <<call, file, conn, toBrick, line>>

\* capi2_get_message fails.  The loop does not look at what capi_event returns.
\* (With an error other than that of a lost connection capi_event would go on with
\* a message that is not there; the only one there can be is for urgent data, which
\* a brick does not send.)
GetFails ==
    /\ pc = "poll"
    /\ toProg = <<>> /\ conn \in {"reset", "dead"}
    /\ conn' = "dead"
    /\ UNCHANGED <<pc, capi, call, file, toBrick, toProg, line>>

\* getCallbyIdent, getCallbyPlci: the call is found for a message about it.
ByIdent == call.there /\ (IF capi.b3 THEN call.b3 ELSE call.plci)
ByPlci == call.there /\ call.plci

\* capi_event with a message of this type.
Event(type) ==
    /\ pc = "event" /\ capi.type = type
    /\ capi' = NoMsg
    /\ UNCHANGED <<wait4dataconf, size, line>>

NewState(state) == IF ByIdent THEN [call EXCEPT !.state = state] ELSE call

\* The call is taken off the poll list and freed, its file closed.
Freed == [call EXCEPT !.there = FALSE]

\* doDisconnect for the call c: c behind it and the request it sends.
DoDisconnect(c) ==
    CASE c.state \in {"B_ConnectPending", "Connected"} ->
             [call |-> c, ms |-> IF wait4dataconf /\ c.NotAcknowledged > 0
                                   THEN <<>> ELSE <<B("DISCONNECTB3_REQ", 0)>>]
      [] c.state \in {"D_ConnectPending", "B_DisconnectPending"} ->
             [call |-> [c EXCEPT !.state = "D_DisconnectPending"],
              ms |-> <<D("DISCONNECT_REQ", 0)>>]
      [] OTHER -> [call |-> c, ms |-> <<>>]

\* The call c with one more block on its way.
OneMore(c) == [c EXCEPT !.NotAcknowledged = @ + 1]

\* Variant: the end of the file is looked for behind the block, not before the
\* next one.
SendDataAhead(c, ms, next) ==
    LET blk == IF c.doSend /\ pos < size THEN <<B("DATAB3_REQ", pos + 1)>> ELSE <<>>
        ended == c.doSend /\ pos + 1 >= size
        quit == DoDisconnect(c)
    IN  /\ pos' = pos + Len(blk)
        /\ call' = [quit.call EXCEPT !.doSend = @ /\ ~ended, !.NotAcknowledged = @ + Len(blk)]
        /\ Sends(ms \o blk \o (IF ended THEN quit.ms ELSE <<>>), next)

\* SendData for the call c, behind the messages ms: the next block of the file,
\* or at its end the request to disconnect.  An error of fread() is an end of the
\* file, too: size is the number of blocks fread() gives, and a fax of a file that
\* cannot be read to its end counts as complete.
SendData(c, ms, next) ==
    \/ /\ ~c.doSend
       /\ call' = c /\ pos' = pos
       /\ Sends(ms, next)
    \/ /\ c.doSend /\ pos = size
       /\ LET quit == DoDisconnect([c EXCEPT !.doSend = FALSE])
          IN  call' = quit.call /\ Sends(ms \o quit.ms, next)
       /\ pos' = pos
    \/ /\ c.doSend /\ pos < size
       /\ pos' = pos + 1
       /\ call' = OneMore(c)
       /\ Sends(Append(ms, B("DATAB3_REQ", pos')), next)

\* CAPI2_CONNECT_CONF, found by its message number: the call gets its PLCI, or
\* the program ends.
ConnectConf ==
    /\ Event("CONNECT_CONF")
    /\ IF capi.info = 0
         THEN call' = [call EXCEPT !.plci = TRUE] /\ Sends(<<>>, "poll")
         ELSE call' = Freed /\ Sends(<<>>, "exit")
    /\ UNCHANGED pos

\* CAPI2_INFO_IND.
InfoInd ==
    /\ Event("INFO_IND")
    /\ Sends(<<D("INFO_RESP", 0)>>, "poll")
    /\ UNCHANGED <<call, pos>>

\* CAPI2_CONNECTACTIVE_IND: the fax connection is asked for.
ConnectActiveInd ==
    /\ Event("CONNECTACTIVE_IND")
    /\ call' = NewState("B_ConnectPending")
    /\ Sends(<<D("CONNECTACTIVE_RESP", 0)>>
                 \o (IF ByIdent THEN <<D("CONNECTB3_REQ", 0)>> ELSE <<>>), "poll")
    /\ UNCHANGED pos

\* CAPI2_CONNECTB3_CONF: the call, found by its PLCI, takes the ident of the
\* message; capi_event does not look at its info.  A refusal has no NCCI.
ConnectB3Conf ==
    /\ Event("CONNECTB3_CONF")
    /\ call' = IF ByPlci THEN [call EXCEPT !.b3 = capi.b3] ELSE call
    /\ Sends(<<>>, "poll")
    /\ UNCHANGED pos

\* CAPI2_CONNECTB3ACTIVE_IND, handleConnectB3ActiveInd: the first block is sent.
ConnectB3ActiveInd ==
    /\ Event("CONNECTB3ACTIVE_IND")
    /\ LET resp == <<B("CONNECTB3ACTIVE_RESP", 0)>>
           up == [call EXCEPT !.state = "Connected", !.doSend = TRUE]
       IN  IF ByIdent /\ ~call.doSend
             THEN SendData(up, resp, "poll")
             ELSE call' = NewState("Connected") /\ pos' = pos /\ Sends(resp, "poll")

\* Variant: the confirmation is not counted.
DataB3ConfKeeps ==
    /\ Event("DATAB3_CONF")
    /\ IF ByIdent THEN SendData(call, <<>>, "poll")
                  ELSE call' = call /\ pos' = pos /\ Sends(<<>>, "poll")

\* CAPI2_DATAB3_CONF, handleDataB3Conf: the next block is sent, whatever the
\* confirmation's info says.
DataB3Conf ==
    /\ Event("DATAB3_CONF")
    /\ IF ByIdent
         THEN SendData([call EXCEPT !.NotAcknowledged = @ - 1], <<>>, "poll")
         ELSE call' = call /\ pos' = pos /\ Sends(<<>>, "poll")

\* Variant: the end of the fax connection is answered, the line is kept.
DisconnectB3IndKeeps ==
    /\ Event("DISCONNECTB3_IND")
    /\ call' = NewState("B_DisconnectPending")
    /\ Sends(<<B("DISCONNECTB3_RESP", 0)>>, "poll")
    /\ UNCHANGED pos

\* CAPI2_DISCONNECTB3_IND: the line is given up, too.
DisconnectB3Ind ==
    /\ Event("DISCONNECTB3_IND")
    /\ call' = NewState("D_DisconnectPending")
    /\ Sends(<<B("DISCONNECTB3_RESP", 0), D("DISCONNECT_REQ", 0)>>, "poll")
    /\ UNCHANGED pos

\* CAPI2_DISCONNECT_IND: the program ends.
DisconnectInd ==
    /\ Event("DISCONNECT_IND")
    /\ call' = IF ByIdent THEN Freed ELSE call
    /\ Sends(<<D("DISCONNECT_RESP", 0)>>, "exit")
    /\ UNCHANGED pos

\* The other confirmations are not looked at.
Conf ==
    /\ \E type \in {"LISTEN_CONF", "DISCONNECTB3_CONF", "DISCONNECT_CONF"} : Event(type)
    /\ Sends(<<>>, "poll")
    /\ UNCHANGED <<call, pos>>

CapiEvent == \/ ConnectConf \/ InfoInd \/ ConnectActiveInd
             \/ ConnectB3Conf \/ ConnectB3ActiveInd \/ DataB3Conf
             \/ DisconnectB3Ind \/ DisconnectInd \/ Conf

--------------------------------------------------------------------------------
(* The brick and the called fax *)

\* The brick's call moves, the brick sends messages.
Moves(l, ms) ==
    /\ conn = "up"
    /\ line' = l /\ toProg' = toProg \o ms
    /\ UNCHANGED <<pc, capi, call, file, conn>>

At(st) == [line EXCEPT !.st = st]

\* The fax connection is over before the program has ended it.
Lost(st) == [line EXCEPT !.st = st, !.unconf = <<>>,
                         !.end = IF @ = "open" THEN "aborted" ELSE @]

\* The called side takes the call, or it fails.
Dial ==
    /\ line.st = "dialling"
    /\ \/ Moves(At("active"), <<D("INFO_IND", 0), D("CONNECTACTIVE_IND", 0)>>)
       \/ Moves(Lost("clearing"), <<D("DISCONNECT_IND", 1)>>)
    /\ UNCHANGED toBrick

\* The two faxes agree, or do not.
Train ==
    /\ line.st = "b3asked"
    /\ \/ Moves(At("b3up"), <<B("CONNECTB3ACTIVE_IND", 0)>>)
       \/ Moves(Lost("b3down"), <<B("DISCONNECTB3_IND", 1)>>)
    /\ UNCHANGED toBrick

\* A block has gone out.
Confirm ==
    /\ line.st = "b3up" /\ line.unconf # <<>>
    /\ Moves([line EXCEPT !.got = Append(@, Head(line.unconf)), !.unconf = Tail(@)],
             <<B("DATAB3_CONF", 0)>>)
    /\ UNCHANGED toBrick

\* The called side breaks the fax off, or hangs up.
HangUp ==
    /\ \/ line.st = "b3up" /\ Moves(Lost("b3down"), <<B("DISCONNECTB3_IND", 1)>>)
       \/ line.st \in {"active", "b3down"} /\ Moves(Lost("clearing"), <<D("DISCONNECT_IND", 1)>>)
    /\ UNCHANGED toBrick

\* The brick takes the next message of the program.  A request that does not fit
\* is confirmed with an info.
BrickTakes ==
    /\ toBrick # <<>> /\ toBrick' = Tail(toBrick)
    /\ LET m == Head(toBrick)
           refused(type) == Moves(line, <<[m EXCEPT !.type = type, !.info = 1]>>)
       IN  \/ m.type = "LISTEN_REQ" /\ Moves(line, <<D("LISTEN_CONF", 0)>>)
           \/ m.type = "CONNECT_REQ" /\ Moves(At("dialling"), <<D("CONNECT_CONF", 0)>>)
           \/ m.type = "CONNECT_REQ" /\ refused("CONNECT_CONF")
           \/ /\ m.type = "CONNECTB3_REQ" /\ line.st = "active"
              /\ Moves(At("b3asked"), <<B("CONNECTB3_CONF", 0)>>)
           \/ m.type = "CONNECTB3_REQ" /\ refused("CONNECTB3_CONF")
           \/ /\ m.type = "DATAB3_REQ" /\ line.st = "b3up"
              /\ Moves([line EXCEPT !.unconf = Append(@, m.info)], <<>>)
           \/ m.type = "DATAB3_REQ" /\ line.st # "b3up" /\ refused("DATAB3_CONF")
           \/ /\ m.type = "DISCONNECTB3_REQ" /\ line.st = "b3up"
              /\ Moves([line EXCEPT !.st = "b3down", !.unconf = <<>>, !.end = "complete"],
                       <<B("DISCONNECTB3_CONF", 0), B("DISCONNECTB3_IND", 0)>>)
           \/ m.type = "DISCONNECTB3_REQ" /\ line.st # "b3up" /\ refused("DISCONNECTB3_CONF")
           \/ /\ m.type = "DISCONNECT_REQ" /\ line.st \notin {"free", "clearing"}
              /\ Moves(Lost("clearing"), <<D("DISCONNECT_CONF", 0), D("DISCONNECT_IND", 0)>>)
           \/ /\ m.type = "DISCONNECT_REQ" /\ line.st \in {"free", "clearing"}
              /\ refused("DISCONNECT_CONF")
           \/ m.type = "DISCONNECT_RESP" /\ Moves(At("free"), <<>>)
           \/ /\ m.type \in {"INFO_RESP", "CONNECTACTIVE_RESP", "CONNECTB3ACTIVE_RESP",
                             "DISCONNECTB3_RESP"}
              /\ Moves(line, <<>>)

\* The brick dies: what it had sent arrives, then the error.
Break ==
    /\ MayBreak /\ conn = "up" /\ pc \in {"poll", "event"}
    /\ conn' = "reset" /\ toBrick' = <<>>
    /\ line' = Lost("free")
    /\ UNCHANGED <<pc, capi, call, file, toProg>>

Main == Start \/ Get \/ GetFails \/ CapiEvent
Brick == Dial \/ Train \/ Confirm \/ HangUp \/ BrickTakes

Next == Main \/ Brick \/ Break

Spec == Init /\ [][Next]_vars

\* The program runs when it can, the brick takes what is sent, the network and the
\* called fax answer, a block goes out in the end.  Nobody owes a hang-up.
FairSpec == Spec /\ WF_vars(Main) /\ WF_vars(BrickTakes)
                 /\ WF_vars(Dial) /\ WF_vars(Train) /\ WF_vars(Confirm)

--------------------------------------------------------------------------------
(* Properties *)

TypeOK ==
    /\ pc \in {"init", "poll", "event", "exit", "killed"}
    /\ call.state \in {"Disconnected", "D_ConnectPending", "B_ConnectPending", "Connected",
                       "B_DisconnectPending", "D_DisconnectPending"}
    /\ call.b3 => call.plci
    /\ call.NotAcknowledged \in 0 .. MaxBlocks
    /\ pos \in 0 .. size
    /\ conn \in {"up", "reset", "dead"}
    /\ line.st \in {"free", "dialling", "active", "b3asked", "b3up", "b3down", "clearing"}

\* The places in q of the messages of this type: of the blocks under way to the
\* brick, and of the confirmations under way to the program.
Places(q, type) == {k \in DOMAIN q : q[k].type = type}
Under == Places(toBrick, "DATAB3_REQ")
Confs == Places(<<capi>> \o toProg, "DATAB3_CONF")

\* The variables have their types, and as long as the fax connection is up, NotAcknowledged counts the blocks that are
\* under way, with the brick, or confirmed without the program knowing, and every
\* block that has been read is in one of these places or gone out, in order: a
\* confirmation counted twice or missed would stop the fax or lose its end.
NoneLost ==
    /\ TypeOK
    /\ conn = "up" /\ line.st = "b3up" =>
        /\ call.NotAcknowledged = Cardinality(Under) + Len(line.unconf) + Cardinality(Confs)
        /\ line.got \o line.unconf = [n \in 1 .. pos - Cardinality(Under) |-> n]
        /\ \A k \in Under : toBrick[k].info = pos - Cardinality({j \in Under : j > k})

\* No block is behind the end the program asks for: SendData asks for it only when
\* it finds the end of the file, which it looks for behind a confirmation.  This
\* is why option -W makes no difference.
Transfer == INSTANCE FaxTransfer WITH got <- line.got, end <- line.end
TransferSpec == Transfer!Spec

\* Once the fax connection has been asked for, the line is given up and the
\* program ends, whoever ends the fax, unless the brick dies.
TakenDown ==
    line.st \in {"b3asked", "b3up", "b3down", "clearing"}
        ~> (line.st = "free" /\ pc = "exit") \/ conn # "up"
================================================================================
