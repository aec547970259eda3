----------------------------- MODULE CapiTrace ------------------------------
(***************************************************************************)
(* The way of a message from its constructor to the screen of capitrace.   *)
(*                                                                         *)
(* An application puts messages (src/libcapi.c and src/rcapi.c for CAPI    *)
(* 1.1, src/libcapi2.c for CAPI 2.0) and the BRICK sends it others.  The   *)
(* BRICK counts them all and sends a copy of each to the connection that   *)
(* capitrace (src/capitrace.c) has switched to tracing, except for those   *)
(* that are lost.  capitrace reads the copies in blocks (src/c_blockrw.c)  *)
(* and gives them to the dumper (src/capidump.c).                          *)
(***************************************************************************)
EXTENDS CapiDump

CONSTANTS
  Requests,         \* what the application may put: primitive, tag and structures
  Indications,      \* what the BRICK may send it, likewise
  MaxNumber,        \* the mask of get_messid, 0x7fff in the code
  MaxTraces         \* bound: how many messages the BRICK counts

ASSUME SamplesAssumption ==
  /\ \A r \in Requests : r.type \in DOMAIN Makes
  /\ \A i \in Indications : i.type \in Types

VARIABLES
  number,     \* messid_1 of the library the application uses
  torn,       \* its connection has failed in the middle of a message
  awaited,    \* what the last connect_req returned, and whether it was put
  seqcnt,     \* the BRICK: the number of the last message it traced
  missed,     \* the BRICK: traces lost since the last one that was sent
  stream,     \* the trace on its way to capitrace
  cnt,        \* capitrace: whether the acknowledgement has been skipped
  wanted,     \* capitrace: the size of the block it reads, or Idle
  got,        \* capitrace: the bytes of the block it has
  localSeqCnt,
  screen,     \* what has just been printed, and of what
  over        \* capitrace has ended

vars == <<number, torn, awaited, seqcnt, missed, stream, cnt, wanted, got,
          localSeqCnt, screen, over>>

app     == <<number, torn, awaited>>
brick   == <<seqcnt, missed>>
tracer  == <<cnt, wanted, got, localSeqCnt, over>>

Idle  == 0
Blank == <<>>
Error == 2 * MaxNumber + 1        \* (unsigned short)-1
NoCall == [api |-> 0, number |-> Error, put |-> FALSE]

LengthSize == 2
TraceHead  == 16                  \* capitrace_t

-----------------------------------------------------------------------------
(* What the tree of a structure tells its reader, piece by piece.          *)
RECURSIVE Tells(_)
Tells(s) ==
  (IF s.lead = <<>> THEN <<>> ELSE <<s.lead>>)
    \o FlattenSeq([i \in DOMAIN s.subs |-> Tells(s.subs[i])])

(* The end of two structures is not told.  The default window size, which  *)
(* is the 14th byte of the parameters of X.25, is only printed when their  *)
(* length is that of a pointer; and of a modem's configuration of layer 1  *)
(* (b1config_modem) the dumper knows the four words all of them have.      *)
First(s, n) == [s EXCEPT !.lead = SubSeq(@, 1, IF Len(@) < n THEN Len(@) ELSE n)]

BProtocolAt(type) == CASE type = "CAPI2_CONNECT_REQ" -> 5
                       [] type \in {"CAPI2_CONNECT_RESP", "CAPI2_SELECTB_REQ"} -> 1
                       [] OTHER -> 0

Printable(r) ==
  [i \in DOMAIN r.structs |->
     CASE r.type = "CAPI_SELECTB3_REQ" /\ r.tag = "X25" -> First(r.structs[i], 13)
       [] i = BProtocolAt(r.type) /\ r.structs[i] # None ->
            [r.structs[i] EXCEPT !.subs[1] = First(@, 8)]
       [] OTHER -> r.structs[i]]

(* What is put and what the BRICK sends: the primitive, where its number   *)
(* comes from, the message made of the structures, and what these tell.    *)
Sent(r, from, m) ==
  [type |-> r.type, from |-> from, m |-> m,
   tells |-> FlattenSeq([i \in DOMAIN r.structs |-> Tells(Printable(r)[i])])]

Puts(makes) ==
  {Sent(r, makes[r.type].number, Made(r.type, r.tag, r.structs))
     : r \in {r \in Requests : r.type \in DOMAIN makes}}

Puts11 == Puts(Makes11 @@ MakesControl)

Puts20 == Puts(Makes20)

Gives == {Sent(i, "given", Given(i.type, i.tag, i.structs)) : i \in Indications}

Ack == [seq |-> 0, gap |-> 0, size |-> LengthSize + TraceHead + SizeOf("CAPI_CONTROL_CONF"),
        m |-> Message("CAPI_CONTROL_CONF", "", <<>>), tells |-> <<>>]

Init ==
  /\ number \in 0..MaxNumber
  /\ torn = FALSE
  /\ awaited = NoCall
  /\ seqcnt = 2
  /\ missed = 0
  /\ stream = <<Ack>>
  /\ cnt = 0
  /\ wanted = Idle
  /\ got = 0
  /\ localSeqCnt = 2
  /\ screen = Blank
  /\ over = FALSE

-----------------------------------------------------------------------------
(* The BRICK counts a message and sends its trace, or loses it.            *)
Traces(r) ==
  /\ seqcnt < MaxTraces
  /\ seqcnt' = seqcnt + 1
  /\ \/ /\ stream = <<>>
        /\ stream' = <<[seq |-> seqcnt + 1, gap |-> missed, m |-> r.m,
                        size |-> LengthSize + TraceHead + r.m.len, tells |-> r.tells]>>
        /\ missed' = 0
     \/ /\ missed' = missed + 1
        /\ UNCHANGED stream

(* get_messid                                                              *)
Fresh(n) == (n + 1) % (MaxNumber + 1)

Numbers(r) == number' = IF r.from = "fresh" THEN Fresh(number) ELSE number

(* What the constructor returns to an application that has to wait for the *)
(* confirmation.  capi_put_message returns a code and never less than 0,   *)
(* so capi_connect_req always returns the number.                          *)

\* Variant: the confirmation is waited for whether the request has been put or not.
AwaitsAlways(t, put) ==
  awaited' =
    CASE t = "CAPI_CONNECT_REQ"  -> [api |-> 11, put |-> put, number |-> number']
      [] t = "CAPI2_CONNECT_REQ" -> [api |-> 20, put |-> put, number |-> number']
      [] OTHER -> NoCall

Awaits(t, put) ==
  awaited' =
    CASE t = "CAPI_CONNECT_REQ"  -> [api |-> 11, put |-> put, number |-> number']
      [] t = "CAPI2_CONNECT_REQ" -> [api |-> 20, put |-> put,
                                     number |-> IF put THEN number' ELSE Error]
      [] OTHER -> NoCall

(* capi_put_message: the length and the message are blocks of their own.   *)
(* capi_blockwrite has three ends: the block has been written; it has not, *)
(* and when that happens behind the first byte of the message what is put  *)
(* later would be taken for the rest; or write() has failed, and because   *)
(* len is unsigned that counts as progress, so that a byte is written      *)
(* twice and nothing is told.  Behind the last two the line is torn.       *)
Put11(r) ==
  /\ ~over /\ ~torn
  /\ Numbers(r)
  /\ \/ /\ Awaits(r.type, TRUE)
        /\ Traces(r)
        /\ UNCHANGED torn
     \/ /\ Awaits(r.type, FALSE)
        /\ torn' \in BOOLEAN
        /\ UNCHANGED <<brick, stream>>
     \/ /\ Awaits(r.type, TRUE)
        /\ torn' = TRUE
        /\ UNCHANGED <<brick, stream>>
  /\ screen' = Blank
  /\ UNCHANGED tracer

(* capi2_put_message takes the whole message or refuses it.                *)
Put20(r) ==
  /\ ~over /\ ~torn
  /\ Numbers(r)
  /\ \/ /\ Awaits(r.type, TRUE)
        /\ Traces(r)
     \/ /\ Awaits(r.type, FALSE)
        /\ UNCHANGED <<brick, stream>>
  /\ screen' = Blank
  /\ UNCHANGED <<torn, tracer>>

(* The BRICK sends the application a message; whatever it waited for is    *)
(* answered.                                                               *)
Indicate(i) ==
  /\ ~over /\ ~torn
  /\ Traces(i)
  /\ awaited' = NoCall
  /\ screen' = Blank
  /\ UNCHANGED <<number, torn, tracer>>

-----------------------------------------------------------------------------
(* main: the length of the next trace.                                     *)
ReadLength ==
  /\ ~over
  /\ stream # <<>>
  /\ wanted = Idle
  /\ wanted' = stream[1].size - LengthSize
  /\ screen' = Blank
  /\ UNCHANGED <<app, brick, stream, cnt, got, localSeqCnt, over>>

(* dump_capimsg: the count of the messages is compared with its own.       *)
Told(seq) == IF seq > localSeqCnt + 1 THEN seq - (localSeqCnt + 1) ELSE 0

\* Variant: the count goes on by one behind a gap.
DumpMsgBehind(f) ==
  /\ localSeqCnt' = localSeqCnt + 1
  /\ screen' = <<[name |-> NameOf(f.m), told |-> Told(f.seq),
                  output |-> DumpCapimsg(f.m), of |-> f]>>

DumpMsg(f) ==
  /\ localSeqCnt' = localSeqCnt + 1 + Told(f.seq)
  /\ screen' = <<[name |-> NameOf(f.m), told |-> Told(f.seq),
                  output |-> DumpCapimsg(f.m), of |-> f]>>

(* main and capi_blockread: n bytes of the block arrive.  With the last of *)
(* them the trace is complete; the first one is the acknowledgement, and   *)
(* one with nothing behind the header is skipped.                          *)
ReadTrace(n) ==
  /\ ~over
  /\ wanted # Idle
  /\ IF got + n < wanted
     THEN /\ got' = got + n
          /\ UNCHANGED <<stream, cnt, wanted, localSeqCnt, screen>>
     ELSE /\ got' = 0
          /\ stream' = <<>>
          /\ wanted' = Idle
          /\ cnt' = 1
          /\ IF cnt > 0 /\ wanted > TraceHead + Header
             THEN DumpMsg(stream[1])
             ELSE screen' = Blank /\ UNCHANGED localSeqCnt
  /\ UNCHANGED <<app, brick, over>>

(* The connection breaks.  A read that fails counts as one byte less,      *)
(* because len is unsigned; the end of the file then ends the block, which *)
(* is too short for main either way.                                       *)
Breaks ==
  /\ ~over
  /\ over' = TRUE
  /\ got' = 0
  /\ wanted' = Idle
  /\ stream' = <<>>
  /\ screen' = Blank
  /\ UNCHANGED <<app, brick, cnt, localSeqCnt>>

Next ==
  \/ \E r \in Puts11 : Put11(r)
  \/ \E r \in Puts20 : Put20(r)
  \/ \E i \in Gives : Indicate(i)
  \/ ReadLength
  \/ \E n \in (IF got = 0 THEN {TraceHead, wanted} ELSE {wanted - got}) : ReadTrace(n)
  \/ Breaks

Spec == Init /\ [][Next]_vars

-----------------------------------------------------------------------------

(* The dumper tells of lost traces exactly when some have been lost since  *)
(* the one printed before, and how many (localSeqCnt, capidump.c).         *)
LossTold == \A i \in DOMAIN screen : screen[i].told = screen[i].of.gap

TypeOK ==
  /\ number \in 0..MaxNumber /\ torn \in BOOLEAN /\ over \in BOOLEAN
  /\ awaited.number \in 0..Error
  /\ missed \in 0..seqcnt /\ seqcnt \in 0..MaxTraces /\ localSeqCnt \in 0..seqcnt
  /\ Len(stream) <= 1 /\ cnt \in 0..1
  /\ wanted \in Nat /\ got \in 0..wanted

(* The variables have their types, and an application of CAPI 2.0 waits    *)
(* for the confirmation of a connection exactly when capi2_connect_req has *)
(* put the request: no message number looks like the error, and no error   *)
(* like a number (libcapi2.c).                                             *)
ErrorClear ==
  /\ TypeOK
  /\ awaited.api = 20 => (awaited.number # Error <=> awaited.put)

(* The same of capi_connect_req, as its comment says (libcapi.c).          *)
ErrorTold == awaited.api = 11 => (awaited.number # Error <=> awaited.put)

=============================================================================
