----------------------------- MODULE RcapiReceive ------------------------------
(****************************************************************************)
(* capi2_get_message (rcapi2.c): the receiving side of a remote CAPI 2.0    *)
(* connection.  The server writes frames (CapiFrame) on a TCP stream; the   *)
(* stream hands the client any number of bytes at a time; the client takes  *)
(* them through a four-state parser that keeps nothing between two calls.   *)
(*                                                                          *)
(* The server, the network and what select() and read() answer are the      *)
(* environment; Call is the application's call and the code up to its       *)
(* first read(), the other client actions are the passes of its loop.       *)
(****************************************************************************)
EXTENDS CapiFrame

CONSTANTS MaxFrames,   \* bound: how many messages the server sends
          PeerMayDie   \* TRUE: the connection may break in the middle of a frame

ASSUME ReceiveAssumption == MaxFrames \in Nat /\ PeerMayDie \in BOOLEAN

VARIABLES
    sent,       \* history: the messages of the server and where their frames start
    wire,       \* history: every byte the server has put on the stream
    arrived,    \* how many bytes of wire have reached the client's socket
    peer,       \* "open", or "closed" once the server's end is gone
    rd,         \* how many bytes of wire the client has read
    pc,         \* "idle" outside capi2_get_message, "read" in its loop
    state,      \* the parser's state
    rSize,      \* how many bytes the state still wants
    msglen,     \* what is left of the total length
    buf,        \* the bytes stored behind Buffer, so Len(buf) is Offset
    cmsg,       \* the CAPI message, once Buffer points at the data
    result,     \* capi2_errno after the last call
    delivered   \* history: the messages handed to the application

server == <<sent, wire, peer>>
parser == <<state, rSize, msglen, buf, cmsg>>
vars == <<server, arrived, rd, pc, parser, result, delivered>>

\* What a call may return when it hands over no message.
Codes == {"MSG_QUEUE_EMPTY", "OS_RESOURCE_ERROR", "INTERNAL_BUSY_CONDITION"}

Init ==
    /\ sent = <<>> /\ wire = <<>> /\ peer = "open" /\ arrived = 0
    /\ rd = 0 /\ pc = "idle" /\ delivered = <<>>
    /\ state = 0 /\ rSize = 2 /\ msglen = 0 /\ buf = <<>> /\ cmsg = <<>>
    /\ result = "OK"

--------------------------------------------------------------------------------
(* The environment *)

\* The server writes the frame of a message.
ServerSend(m) ==
    /\ peer = "open"
    /\ Len(sent) < MaxFrames
    /\ sent' = Append(sent, [at |-> Len(wire), msg |-> m])
    /\ wire' = wire \o Frame(m)
    /\ UNCHANGED <<peer, arrived, rd, pc, parser, result, delivered>>

\* The server closes its end behind its last frame.
ServerClose ==
    /\ peer = "open"
    /\ peer' = "closed"
    /\ UNCHANGED <<sent, wire, arrived, rd, pc, parser, result, delivered>>

\* The server dies; of what has not arrived yet only a prefix still gets through.
PeerDies ==
    /\ PeerMayDie
    /\ peer = "open"
    /\ peer' = "closed"
    /\ \E cut \in arrived .. Len(wire) : wire' = SubSeq(wire, 1, cut)
    /\ UNCHANGED <<sent, arrived, rd, pc, parser, result, delivered>>

\* TCP hands over some more bytes, in segments of its own choice.
Arrive ==
    /\ arrived' \in (arrived + 1) .. Len(wire)
    /\ UNCHANGED <<server, rd, pc, parser, result, delivered>>

--------------------------------------------------------------------------------
(* One call of capi2_get_message *)

\* read() would return 0.
AtEOF == peer = "closed" /\ arrived = Len(wire) /\ rd = arrived

\* select() reports the socket readable.
Readable == rd < arrived \/ AtEOF

\* How many bytes a read() of size bytes may return.
Chunks(size) == {n \in 1 .. size : rd + n <= arrived}

\* read() stores n bytes at &Buffer[Offset].
ReadBytes(n) ==
    /\ rd' = rd + n
    /\ rSize' = rSize - n
    /\ buf' = buf \o SubSeq(wire, rd + 1, rd + n)

\* A call that hands over no message: it returns a code before the loop.
Return(code) ==
    /\ pc = "idle"
    /\ result' = code
    /\ UNCHANGED <<server, arrived, rd, pc, parser, delivered>>

\* select() finds nothing, is interrupted, or fails: the parenthesis in
\* "if ((ret = select(...) <= 0))" stores the comparison in ret, so the branch
\* for ret == -1 is never taken and every failure reads as an empty queue.
SelectNothing == Return("MSG_QUEUE_EMPTY")

\* select() reports the socket in errorfds.
SelectError == Return("OS_RESOURCE_ERROR")

\* The first read() finds the end of the stream, or a signal or another reader
\* came first (EINTR, EAGAIN).
ReadNothing == Readable /\ Return("MSG_QUEUE_EMPTY")

\* The first read() fails in any other way.
ReadError == Readable /\ Return("INTERNAL_BUSY_CONDITION")

\* The first read() returns one or both bytes of the total length; from here
\* on the call stays in its loop until it has the whole frame.
Call ==
    /\ pc = "idle"
    /\ pc' = "read"
    /\ state' = 0 /\ msglen' = 0 /\ cmsg' = <<>>
    /\ \E n \in Chunks(2) : /\ rd' = rd + n
                            /\ rSize' = 2 - n
                            /\ buf' = SubSeq(wire, rd + 1, rd + n)
    /\ UNCHANGED <<server, arrived, result, delivered>>

\* The loop's read() returns some of the bytes the state still wants.
ReadMore ==
    /\ pc = "read"
    /\ rSize > 0
    /\ \E n \in Chunks(rSize) : ReadBytes(n)
    /\ UNCHANGED <<server, arrived, pc, state, msglen, cmsg, result, delivered>>

\* The loop's read() returns 0 or -1: the loop takes no notice and tries again.
ReadAgain ==
    /\ pc = "read"
    /\ rSize > 0
    /\ UNCHANGED vars

\* Variant: case 0 takes the total length for little endian.
TotalLengthSwapped ==
    /\ pc = "read" /\ rSize = 0 /\ state = 0
    /\ msglen' = (buf[2] * Base + buf[1]) - 2
    /\ buf' = <<>> /\ state' = 1 /\ rSize' = 2
    /\ UNCHANGED <<server, arrived, rd, pc, cmsg, result, delivered>>

\* case 0: both bytes of the total length are there.
TotalLength ==
    /\ pc = "read" /\ rSize = 0 /\ state = 0
    /\ msglen' = (buf[1] * Base + buf[2]) - 2
    /\ buf' = <<>>
    /\ state' = 1
    /\ rSize' = 2
    /\ UNCHANGED <<server, arrived, rd, pc, cmsg, result, delivered>>

\* Variant: case 1 does not take the message off the total length (msglen -= rSize).
MessageLengthKept ==
    /\ pc = "read" /\ rSize = 0 /\ state = 1
    /\ rSize' = (buf[2] * Base + buf[1]) - 2
    /\ state' = 2
    /\ UNCHANGED <<server, arrived, rd, pc, msglen, buf, cmsg, result, delivered>>

\* case 1: both bytes of the length of the CAPI message are there.
MessageLength ==
    /\ pc = "read" /\ rSize = 0 /\ state = 1
    /\ LET size == buf[2] * Base + buf[1]
       IN  /\ msglen' = msglen - size
           /\ rSize' = size - 2
    /\ state' = 2
    /\ UNCHANGED <<server, arrived, rd, pc, buf, cmsg, result, delivered>>

\* The message the application finds in its buffers, c read into cmsg and d
\* into dbuf.
Received(c, d) == [prim |-> c[3], par |-> SubSeq(c, 4, Len(c)), data |-> d]

\* The call hands over a message.
HandOver(m) ==
    /\ pc' = "idle"
    /\ delivered' = Append(delivered, m)
    /\ result' = "OK"

\* Variant: case 2 goes on storing behind the message (Offset = 0 left out).
BodyBeforeDataOffset ==
    /\ pc = "read" /\ rSize = 0 /\ state = 2 /\ buf[3] = DATAB3
    /\ cmsg' = buf /\ rSize' = msglen /\ state' = 3
    /\ UNCHANGED <<server, arrived, rd, pc, msglen, buf, result, delivered>>

\* case 2: the CAPI message is complete and has data behind it, which go to dbuf.
BodyBeforeData ==
    /\ pc = "read" /\ rSize = 0 /\ state = 2
    /\ buf[3] = DATAB3
    /\ cmsg' = buf
    /\ buf' = <<>>
    /\ rSize' = msglen
    /\ state' = 3
    /\ UNCHANGED <<server, arrived, rd, pc, msglen, result, delivered>>

\* Variant: case 2 does not look at the primitive.
BodyOnlyAlways ==
    /\ pc = "read" /\ rSize = 0 /\ state = 2
    /\ HandOver(Received(buf, <<>>))
    /\ UNCHANGED <<server, arrived, rd, parser>>

\* case 2: the CAPI message is complete and is all there is.
BodyOnly ==
    /\ pc = "read" /\ rSize = 0 /\ state = 2
    /\ buf[3] # DATAB3
    /\ HandOver(Received(buf, <<>>))
    /\ UNCHANGED <<server, arrived, rd, parser>>

\* Variant: case 3 is left only behind a read, which there is none of for no data.
DataCompleteBehindRead ==
    /\ pc = "read" /\ rSize = 0 /\ state = 3 /\ buf # <<>>
    /\ HandOver(Received(cmsg, buf))
    /\ UNCHANGED <<server, arrived, rd, parser>>

\* case 3: the data are complete.
DataComplete ==
    /\ pc = "read" /\ rSize = 0 /\ state = 3
    /\ HandOver(Received(cmsg, buf))
    /\ UNCHANGED <<server, arrived, rd, parser>>

Environment == \/ \E m \in Msgs : ServerSend(m)
               \/ ServerClose
               \/ PeerDies
               \/ Arrive

\* The calls that come back at once, without a message.
EmptyCall == SelectNothing \/ SelectError \/ ReadNothing \/ ReadError

\* The passes of the loop that get on with the frame.
Progress == \/ ReadMore
            \/ TotalLength \/ MessageLength
            \/ BodyBeforeData \/ BodyOnly \/ DataComplete

Next == Environment \/ EmptyCall \/ Call \/ ReadAgain \/ Progress

Spec == Init /\ [][Next]_vars

\* TCP delivers what was written (Arrive), the application polls for as long as
\* there is something to read and is not put off by signals for ever (Call), and
\* a call in its loop keeps running (Progress).  The server owes nothing.
FairSpec == /\ Spec
            /\ WF_vars(Arrive)
            /\ WF_vars(Call)
            /\ WF_vars(Progress)

--------------------------------------------------------------------------------
(* Properties *)

TypeOK ==
    /\ sent \in Seq([at : Nat, msg : Msgs])
    /\ wire \in Seq(Byte)
    /\ peer \in {"open", "closed"}
    /\ arrived \in 0 .. Len(wire)
    /\ rd \in 0 .. arrived
    /\ pc \in {"idle", "read"}
    /\ state \in 0 .. 3
    /\ rSize \in Nat /\ msglen \in Nat
    /\ buf \in Seq(Byte) /\ cmsg \in Seq(Byte)
    /\ result \in Codes \cup {"OK"}
    /\ delivered \in Seq(MsgType)

\* Where the frame of the k-th message ends on the stream.
FrameEnd(k) == IF k = 0 THEN 0 ELSE sent[k].at + TotalLen(sent[k].msg)

\* The application gets the messages the server sent, in the order it sent them,
\* none twice, none left out, none with a byte of another: however TCP cuts the
\* stream and wherever a connection breaks (capi2_get_message).
InOrder ==
    /\ Len(delivered) <= Len(sent)
    /\ \A k \in 1 .. Len(delivered) : delivered[k] = sent[k].msg

\* The parser keeps nothing between two calls, so every call must begin on the
\* first byte of a frame: between calls the client has read exactly the frames
\* it has handed over (capi2_get_message, the local variables set at its start).
FrameSync == pc = "idle" => rd = FrameEnd(Len(delivered))

\* The stream is the frames of the messages one behind the other; its end is
\* the end of the last frame, or before it once the server is gone.
StreamInv ==
    /\ \A k \in 1 .. Len(sent) : sent[k].at = FrameEnd(k - 1)
    /\ Len(wire) <= FrameEnd(Len(sent))
    /\ peer = "open" => /\ Len(wire) = FrameEnd(Len(sent))
                        /\ \A k \in 1 .. Len(sent) : FrameEnd(k) <= Len(wire)
    /\ \A k \in 1 .. Len(sent) : \A i \in 1 .. TotalLen(sent[k].msg) :
          sent[k].at + i <= Len(wire) =>
              wire[sent[k].at + i] = Frame(sent[k].msg)[i]

\* The message the parser is reading; where its frame, the CAPI message in it
\* and the data behind that begin.
Current == sent[Len(delivered) + 1].msg
Begin == FrameEnd(Len(delivered))
BodyBegin == Begin + 2
DataBegin == BodyBegin + ProtLen(Current)

\* What is stored behind Buffer are the bytes read from place a on.
Stored(a) == rd = a + Len(buf) /\ buf = SubSeq(wire, a + 1, rd)

\* In each state the bytes behind Buffer are of the part of the current frame the
\* state is about, and rSize counts the bytes of that part still to come.
ParserInv ==
    /\ state = 0 => /\ Stored(Begin)
                    /\ Len(buf) + rSize = 2
    /\ state = 1 => /\ Stored(BodyBegin)
                    /\ Len(buf) + rSize = 2
                    /\ msglen = TotalLen(Current) - 2
    /\ state = 2 => /\ Stored(BodyBegin)
                    /\ Len(buf) + rSize = ProtLen(Current)
                    /\ msglen = DataLen(Current)
    /\ state = 3 => /\ Stored(DataBegin)
                    /\ Len(buf) + rSize = DataLen(Current)
                    /\ cmsg = SubSeq(wire, BodyBegin + 1, DataBegin)
                    /\ Current.prim = DATAB3

\* The inductive invariant behind InOrder and FrameSync (RcapiReceiveProofs): the
\* parser holds lengths it has read off the stream, so what the stream holds and
\* what the parser's variables mean in each state have to be carried along.
IInv ==
    /\ TypeOK
    /\ StreamInv
    /\ InOrder
    /\ FrameSync
    /\ pc = "read" => Len(delivered) < Len(sent) /\ ParserInv

\* A call never reads into the frame behind the one it hands over, and ends
\* knowing where that frame ends: what it has still to read is on the frame.
WithinFrame ==
    pc = "read" => /\ Len(delivered) < Len(sent)
                   /\ rd + rSize <= FrameEnd(Len(delivered) + 1)

\* capi2_get_message is not told how large cmsg is and ignores dlen; the stores
\* into both stay within the longest message and the longest data block that
\* the server's side of the protocol has.
BuffersFit ==
    pc = "read" =>
        /\ state \in {1, 2} => \E m \in Msgs : Len(buf) + rSize <= ProtLen(m)
        /\ state = 3 => \E m \in Msgs : Len(buf) + rSize <= DataLen(m)

\* What the client does is what a message queue does.
Queue == INSTANCE CapiQueue WITH sent <- [k \in 1 .. Len(sent) |-> sent[k].msg]

\* capi2_get_message implements CAPI_GET_MESSAGE on a message queue: each step
\* takes the oldest message, or leaves the queue alone.
QueueSpec == Queue!Spec

\* The connection has broken in front of bytes that were sent.
Cut == Len(wire) < FrameEnd(Len(sent))

\* Every message the server has sent is handed over in the end, if the
\* connection does not break before: no message waits in the stream for a later one,
\* and no call waits for bytes that are not coming (the loop of
\* capi2_get_message leaves state 3 with rSize = 0 even for no data at all).
AllDelivered ==
    \A k \in 1 .. MaxFrames : Len(sent) >= k ~> Len(delivered) >= k \/ Cut

\* "capi2_get_message does not block" (rcapi2.c:744): a call that has begun to
\* read a frame comes back.
CallReturns == pc = "read" ~> pc = "idle"
================================================================================
