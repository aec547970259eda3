------------------------------- MODULE RcapiSend -------------------------------
(****************************************************************************)
(* capi2_put_message (rcapi2.c): the sending side of a remote CAPI 2.0      *)
(* connection.  One writev() puts a whole frame (CapiFrame) on the stream;  *)
(* if the system takes only a part of it the rest is never sent.            *)
(*                                                                          *)
(* Two callers share the socket in one thread: the program, and its signal  *)
(* handler (faxrecv.c: catch_signal, armed every 10 seconds, sends a        *)
(* LISTEN_REQ).  A signal makes a writev() that has already passed on some  *)
(* bytes return their number; one that has not is called again (EINTR).     *)
(* The handler runs before the interrupted call gets on.                    *)
(*                                                                          *)
(* writev() only hands the bytes to the system: a connection that is reset  *)
(* loses what the server has not taken, and the puts had returned 0.        *)
(****************************************************************************)
EXTENDS CapiFrame

CONSTANTS MaxPuts,    \* bound: how many calls there are
          MayBreak    \* TRUE: the connection may break

ASSUME SendAssumption == MaxPuts \in Nat /\ MayBreak \in BOOLEAN /\ Msgs # {}

Callers == {"main", "handler"}

VARIABLES
    puts,       \* how many calls have begun
    pc,         \* of each caller: "idle", "writev", or "done" when writev() is back
    msg,        \* the message of its call
    off,        \* how many bytes of the frame its writev() has passed on
    at,         \* history: where on the stream they begin
    result,     \* capi2_errno of its last call
    wire,       \* every byte on the stream
    conn,       \* "up" or "down"
    accepted,   \* history: the puts that returned 0 and where their frames begin
    overflow,   \* history: a put has returned MSG_QUEUE_OVERFLOW
    got,        \* history: what the server has taken for frames, and where it began
    srd,        \* how many bytes of the stream the server has taken
    lost        \* what the server has not taken is lost

caller == <<pc, msg, off, at, result>>
remote == <<got, srd, lost>>
vars == <<puts, caller, wire, conn, accepted, overflow, remote>>

\* What the switch over errno makes of an error of writev().
ErrnoCode == [EAGAIN |-> "INTERNAL_BUSY_CONDITION",
              EBADF  |-> "ILLEGAL_APPLICATION",
              EINVAL |-> "ILLEGAL_MSG_PARAM_CODING",
              ENOSR  |-> "OS_RESOURCE_ERROR",
              EPIPE  |-> "MSG_QUEUE_OVERFLOW"]

Codes == {ErrnoCode[e] : e \in DOMAIN ErrnoCode}

Init ==
    /\ puts = 0
    /\ pc = [c \in Callers |-> "idle"]
    /\ msg \in [Callers -> {CHOOSE m \in Msgs : TRUE}]
    /\ off = [c \in Callers |-> 0]
    /\ at = [c \in Callers |-> 0]
    /\ result = [c \in Callers |-> "OK"]
    /\ wire = <<>> /\ conn = "up" /\ accepted = <<>> /\ overflow = FALSE
    /\ got = <<>> /\ srd = 0 /\ lost = FALSE

\* The program stands still while its signal handler runs.
Runs(c) == c = "main" => pc["handler"] = "idle"

\* The frame of c's call is on the stream as a whole.
Whole(c) == off[c] = TotalLen(msg[c])

\* c's writev() has come back with less than the frame.
Part(c) == pc[c] = "done" /\ ~Whole(c)

--------------------------------------------------------------------------------
(* capi2_put_message *)

\* Variant: an interrupted writev() is called again with the whole frame, whatever
\* it has passed on.
PutAgain(c, m) ==
    /\ pc[c] = "idle" /\ Runs(c)
    /\ puts < MaxPuts /\ puts' = puts + 1
    /\ pc' = [pc EXCEPT ![c] = "writev"]
    /\ msg' = [msg EXCEPT ![c] = m]
    /\ off' = [d \in Callers |-> IF d = c \/ pc[d] = "writev" THEN 0 ELSE off[d]]
    /\ UNCHANGED <<at, result, wire, conn, accepted, overflow, remote>>

\* A call begins.  When it is the handler's, a signal has interrupted the
\* program: its writev() comes back if it has passed on any bytes, and is
\* called again with the whole frame if it has not (errno == EINTR).
Put(c, m) ==
    /\ pc[c] = "idle" /\ Runs(c)
    /\ puts < MaxPuts /\ puts' = puts + 1
    /\ pc' = [d \in Callers |->
                 IF d = c THEN "writev"
                 ELSE IF pc[d] = "writev" /\ off[d] > 0 THEN "done" ELSE pc[d]]
    /\ msg' = [msg EXCEPT ![c] = m]
    /\ off' = [off EXCEPT ![c] = 0]
    /\ UNCHANGED <<at, result, wire, conn, accepted, overflow, remote>>

\* writev() passes some more bytes of the frame on to the stream.
Pass(c) ==
    /\ pc[c] = "writev" /\ Runs(c) /\ conn = "up"
    /\ \E n \in 1 .. TotalLen(msg[c]) - off[c] :
          /\ wire' = wire \o SubSeq(Frame(msg[c]), off[c] + 1, off[c] + n)
          /\ off' = [off EXCEPT ![c] = @ + n]
    /\ at' = IF off[c] = 0 THEN [at EXCEPT ![c] = Len(wire)] ELSE at
    /\ UNCHANGED <<puts, pc, msg, result, conn, accepted, overflow, remote>>

\* writev() is through, or finds the connection broken after some bytes.
WritevReturns(c) ==
    /\ pc[c] = "writev" /\ Runs(c)
    /\ off[c] > 0
    /\ Whole(c) \/ conn = "down"
    /\ pc' = [pc EXCEPT ![c] = "done"]
    /\ UNCHANGED <<puts, msg, off, at, result, wire, conn, accepted, overflow, remote>>

\* ret == msglen.
Success(c) ==
    /\ pc[c] = "done" /\ Runs(c)
    /\ Whole(c)
    /\ pc' = [pc EXCEPT ![c] = "idle"]
    /\ result' = [result EXCEPT ![c] = "OK"]
    /\ accepted' = Append(accepted, [msg |-> msg[c], at |-> at[c]])
    /\ UNCHANGED <<puts, msg, off, at, wire, conn, overflow, remote>>

\* Variant: any ret > 0 is a success.
OverflowAccepted(c) ==
    /\ pc[c] = "done" /\ Runs(c) /\ ~Whole(c)
    /\ pc' = [pc EXCEPT ![c] = "idle"]
    /\ result' = [result EXCEPT ![c] = "OK"]
    /\ accepted' = Append(accepted, [msg |-> msg[c], at |-> at[c]])
    /\ UNCHANGED <<puts, msg, off, at, wire, conn, overflow, remote>>

\* Variant: a part of a frame is reported as a busy system.
OverflowBusy(c) ==
    /\ pc[c] = "done" /\ Runs(c) /\ ~Whole(c)
    /\ pc' = [pc EXCEPT ![c] = "idle"]
    /\ result' = [result EXCEPT ![c] = "INTERNAL_BUSY_CONDITION"]
    /\ UNCHANGED <<puts, msg, off, at, wire, conn, accepted, overflow, remote>>

\* ret > 0, but less than msglen: what is on the stream stays there.
Overflow(c) ==
    /\ pc[c] = "done" /\ Runs(c)
    /\ ~Whole(c)
    /\ pc' = [pc EXCEPT ![c] = "idle"]
    /\ result' = [result EXCEPT ![c] = "MSG_QUEUE_OVERFLOW"]
    /\ overflow' = TRUE
    /\ UNCHANGED <<puts, msg, off, at, wire, conn, accepted, remote>>

\* Variant: the switch over errno is reached behind a part of a frame, too.
FailBehindPart(c) ==
    /\ pc[c] = "writev" /\ Runs(c)
    /\ pc' = [pc EXCEPT ![c] = "idle"]
    /\ \E e \in DOMAIN ErrnoCode : result' = [result EXCEPT ![c] = ErrnoCode[e]]
    /\ UNCHANGED <<puts, msg, off, at, wire, conn, accepted, overflow, remote>>

\* ret == -1: writev() fails before it has passed on anything.
Fail(c) ==
    /\ pc[c] = "writev" /\ Runs(c)
    /\ off[c] = 0
    /\ pc' = [pc EXCEPT ![c] = "idle"]
    /\ \E e \in DOMAIN ErrnoCode :
          /\ result' = [result EXCEPT ![c] = ErrnoCode[e]]
          /\ overflow' = (overflow \/ ErrnoCode[e] = "MSG_QUEUE_OVERFLOW")
    /\ UNCHANGED <<puts, msg, off, at, wire, conn, accepted, remote>>

--------------------------------------------------------------------------------
(* The environment *)

\* The server takes the next frame, the bytes that the total length announces.
ServerTakes ==
    /\ ~lost /\ srd + 2 <= Len(wire)
    /\ LET size == wire[srd + 1] * Base + wire[srd + 2]
       IN  /\ size >= 2 /\ srd + size <= Len(wire)
           /\ got' = Append(got, [at |-> srd, bytes |-> SubSeq(wire, srd + 1, srd + size)])
           /\ srd' = srd + size
    /\ UNCHANGED <<puts, caller, wire, conn, accepted, overflow, lost>>

\* The connection breaks for the program: writev() passes nothing on any more.
Break ==
    /\ MayBreak /\ conn = "up"
    /\ conn' = "down"
    /\ UNCHANGED <<puts, caller, wire, accepted, overflow, remote>>

\* A reset, or a brick that reboots: what is still in the socket buffers is lost.
\* The program need not see it at once, its writev() may go on passing bytes.
Lose ==
    /\ MayBreak /\ ~lost
    /\ lost' = TRUE
    /\ UNCHANGED <<puts, caller, wire, conn, accepted, overflow, got, srd>>

Return(c) == Success(c) \/ Overflow(c) \/ Fail(c)

Next == \/ \E c \in Callers :
              \/ \E m \in Msgs : Put(c, m)
              \/ Pass(c) \/ WritevReturns(c) \/ Return(c)
        \/ ServerTakes
        \/ Break
        \/ Lose

Spec == Init /\ [][Next]_vars

\* The system takes the bytes of a writev() as the server makes room for them,
\* a process that can run does, a broken connection is an error in the end, and the
\* server reads what it gets.  Nobody owes a call or any other error.
FairSpec == /\ Spec
            /\ \A c \in Callers : /\ WF_vars(~lost /\ Pass(c))
                                  /\ WF_vars(WritevReturns(c))
                                  /\ WF_vars(Success(c) \/ Overflow(c))
                                  /\ WF_vars(conn = "down" /\ Fail(c))
            /\ WF_vars(ServerTakes)

--------------------------------------------------------------------------------
(* Properties *)

TypeOK ==
    /\ puts \in 0 .. MaxPuts
    /\ pc \in [Callers -> {"idle", "writev", "done"}]
    /\ msg \in [Callers -> Msgs]
    /\ off \in [Callers -> Nat] /\ \A c \in Callers : off[c] <= TotalLen(msg[c])
    /\ at \in [Callers -> Nat]
    /\ result \in [Callers -> Codes \cup {"OK"}]
    /\ wire \in Seq(Byte)
    /\ conn \in {"up", "down"}
    /\ accepted \in Seq([msg : Msgs, at : Nat])
    /\ overflow \in BOOLEAN
    /\ got \in Seq([at : Nat, bytes : Seq(Byte)])
    /\ srd \in 0 .. Len(wire) /\ lost \in BOOLEAN

\* The variables have their types, and the frame of every put that returned 0 is
\* on the stream in one piece: no other caller's bytes are between its own,
\* whenever the signal came.
InOnePiece ==
    /\ TypeOK
    /\ \A k \in 1 .. Len(accepted) :
          LET a == accepted[k]
          IN  /\ a.at + TotalLen(a.msg) <= Len(wire)
              /\ SubSeq(wire, a.at + 1, a.at + TotalLen(a.msg)) = Frame(a.msg)

\* A part of a frame is on the stream and nothing will follow it.
Cut == overflow \/ \E c \in Callers : Part(c)

\* The frames that are on the stream as a whole, their puts back or about to be.
OnStream == {accepted[k] : k \in 1 .. Len(accepted)}
            \cup {[msg |-> msg[c], at |-> at[c]] : c \in {d \in Callers : pc[d] # "idle" /\ Whole(d)}}

\* g is the frame of f.
Is(g, f) == g.at = f.at /\ g.bytes = Frame(f.msg)

\* The server takes what was put and nothing else, no message of a put that
\* returned 0 left out, as long as no put has reported MSG_QUEUE_OVERFLOW or is
\* about to: this is what the program has to register again for ("TCP/IP stream
\* syncronisation may have been lost", rcapi2.c:689); puts that fail in other
\* ways leave the stream in order.
ServerInStep ==
    ~Cut => /\ \A k \in 1 .. Len(got) : \E f \in OnStream : Is(got[k], f)
            /\ \A f \in OnStream : f.at < srd => \E k \in 1 .. Len(got) : Is(got[k], f)

\* A caller that has bytes of a frame on the stream either completes it or
\* reports MSG_QUEUE_OVERFLOW: no call that has got bytes on the stream is taken
\* back, called again or reported as one that has done nothing.
NeverSentTwice ==
    [][\A c \in Callers :
          pc[c] # "idle" /\ off[c] > 0 =>
              /\ off'[c] >= off[c] /\ at'[c] = at[c]
              /\ pc'[c] = "idle" => result'[c] = IF Whole(c) THEN "OK" ELSE "MSG_QUEUE_OVERFLOW"]_vars

\* The server gets every message whose put returned 0, unless a put reports
\* MSG_QUEUE_OVERFLOW or a reset takes it out of the socket buffers, of which no
\* put has to tell: no message stays behind on a stream that is read.
AllTaken ==
    \A k \in 1 .. MaxPuts :
        Len(accepted) >= k ~> \/ overflow \/ lost
                              \/ \E i \in 1 .. Len(got) :
                                    k <= Len(accepted) /\ Is(got[i], accepted[k])
================================================================================
