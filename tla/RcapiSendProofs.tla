---------------------------- MODULE RcapiSendProofs ----------------------------
(****************************************************************************)
(* Proofs about RcapiSend, for every Base, every set of messages and every  *)
(* number of calls, over a connection that may break: the inductive         *)
(* invariant IInv, from it TypeOK, InOnePiece and ServerInStep, and the     *)
(* action property NeverSentTwice.                                          *)
(****************************************************************************)
EXTENDS RcapiSend, TLAPS

--------------------------------------------------------------------------------
(* Bytes of a stream, and pieces of it *)

\* An element of a sequence, and sequences with the same elements.
LEMMA Element ==
    ASSUME NEW S, NEW s \in Seq(S), NEW i \in 1 .. Len(s)
    PROVE  s[i] \in S
OBVIOUS

LEMMA SameElements ==
    ASSUME NEW S, NEW s \in Seq(S), NEW t \in Seq(S), Len(s) = Len(t),
           \A i \in 1 .. Len(s) : s[i] = t[i]
    PROVE  s = t
OBVIOUS

\* Two bytes hold a number below b * b.
LEMMA TwoDigits ==
    ASSUME NEW b \in Nat, b >= 2, NEW x \in Nat, x < b * b
    PROVE  /\ ((x \div b) % b) * b + (x % b) = x
           /\ (x \div b) % b \in 0 .. b - 1 /\ x % b \in 0 .. b - 1
BY SMTT(30)

--------------------------------------------------------------------------------
(* Bytes of the stream, and the frame of a message *)

\* What is put behind the stream, and a piece of it.
LEMMA ConcatFacts ==
    ASSUME NEW s \in Seq(Byte), NEW t \in Seq(Byte)
    PROVE  /\ s \o t \in Seq(Byte)
           /\ Len(s \o t) = Len(s) + Len(t)
           /\ \A i \in 1 .. Len(s) : (s \o t)[i] = s[i]
           /\ \A i \in 1 .. Len(t) : (s \o t)[Len(s) + i] = t[i]
OBVIOUS

LEMMA PartFacts ==
    ASSUME NEW s \in Seq(Byte), NEW a \in 0 .. Len(s), NEW c \in a .. Len(s)
    PROVE  /\ SubSeq(s, a + 1, c) \in Seq(Byte)
           /\ Len(SubSeq(s, a + 1, c)) = c - a
           /\ \A i \in 1 .. c - a : SubSeq(s, a + 1, c)[i] = s[a + i]
OBVIOUS

\* The lengths of a message of the protocol.
LEMMA LenFacts ==
    ASSUME NEW m \in Msgs
    PROVE  /\ m \in MsgType
           /\ ProtLen(m) \in Nat /\ DataLen(m) \in Nat /\ TotalLen(m) \in Nat
           /\ ProtLen(m) >= 3
           /\ TotalLen(m) = 2 + ProtLen(m) + DataLen(m)
           /\ TotalLen(m) < Base * Base /\ ProtLen(m) < Base * Base
           /\ m.prim # DATAB3 => m.data = <<>>
<1>1. m \in MsgType /\ TotalLen(m) < Base * Base /\ (m.prim # DATAB3 => m.data = <<>>)
  BY FrameAssumption
<1>2. ProtLen(m) \in Nat /\ ProtLen(m) >= 3 /\ DataLen(m) \in Nat
  BY <1>1 DEF MsgType, ProtLen, DataLen
<1>3. TotalLen(m) = 2 + ProtLen(m) + DataLen(m)
  BY DEF TotalLen
<1> QED  BY <1>1, <1>2, <1>3, FrameAssumption

\* The frame, byte by byte.
LEMMA FrameFacts ==
    ASSUME NEW m \in Msgs
    PROVE  /\ Frame(m) \in Seq(Byte)
           /\ Len(Frame(m)) = TotalLen(m)
           /\ Frame(m)[1] * Base + Frame(m)[2] = TotalLen(m)
           /\ Frame(m)[4] * Base + Frame(m)[3] = ProtLen(m)
           /\ Frame(m)[5] = m.prim
           /\ \A i \in 1 .. ProtLen(m) - 3 : Frame(m)[5 + i] = m.par[i]
           /\ \A i \in 1 .. DataLen(m) : Frame(m)[2 + ProtLen(m) + i] = m.data[i]
<1> DEFINE h == <<High(TotalLen(m)), Low(TotalLen(m)),
                  Low(ProtLen(m)), High(ProtLen(m)), m.prim>>
           hp == h \o m.par
<1>1. m.prim \in Byte /\ m.par \in Seq(Byte) /\ m.data \in Seq(Byte)
  BY LenFacts DEF MsgType
<1>2. /\ High(TotalLen(m)) * Base + Low(TotalLen(m)) = TotalLen(m)
      /\ High(ProtLen(m)) * Base + Low(ProtLen(m)) = ProtLen(m)
      /\ High(TotalLen(m)) \in Byte /\ Low(TotalLen(m)) \in Byte
      /\ High(ProtLen(m)) \in Byte /\ Low(ProtLen(m)) \in Byte
  BY FrameAssumption, TwoDigits, LenFacts DEF High, Low, Byte
<1>3. h \in Seq(Byte) /\ Len(h) = 5
  BY <1>1, <1>2
<1>4. Len(m.par) = ProtLen(m) - 3 /\ Len(m.data) = DataLen(m)
  BY <1>1 DEF ProtLen, DataLen
<1>5. /\ hp \in Seq(Byte) /\ Len(hp) = 2 + ProtLen(m)
      /\ \A i \in 1 .. 5 : hp[i] = h[i]
      /\ \A i \in 1 .. ProtLen(m) - 3 : hp[5 + i] = m.par[i]
  <2> HIDE DEF h
  <2>1. hp \in Seq(Byte) /\ Len(hp) = Len(h) + Len(m.par)
    BY <1>1, <1>3, ConcatFacts
  <2>2. \A i \in 1 .. Len(h) : hp[i] = h[i]
    BY <1>1, <1>3, ConcatFacts
  <2>3. \A i \in 1 .. Len(m.par) : hp[Len(h) + i] = m.par[i]
    BY <1>1, <1>3, ConcatFacts
  <2> HIDE DEF hp
  <2>4. Len(hp) = 2 + ProtLen(m)
    BY <1>3, <1>4, <2>1, LenFacts
  <2> QED  BY <1>3, <1>4, <2>1, <2>2, <2>3, <2>4
<1>6. /\ Frame(m) = hp \o m.data
      /\ Frame(m) \in Seq(Byte) /\ Len(Frame(m)) = TotalLen(m)
      /\ \A i \in 1 .. 2 + ProtLen(m) : Frame(m)[i] = hp[i]
      /\ \A i \in 1 .. DataLen(m) : Frame(m)[2 + ProtLen(m) + i] = m.data[i]
  <2>1. Frame(m) = hp \o m.data
    BY DEF Frame
  <2> HIDE DEF hp
  <2>2. hp \o m.data \in Seq(Byte) /\ Len(hp \o m.data) = Len(hp) + Len(m.data)
    BY <1>1, <1>5, ConcatFacts
  <2>3. \A i \in 1 .. Len(hp) : (hp \o m.data)[i] = hp[i]
    BY <1>1, <1>5, ConcatFacts
  <2>4. \A i \in 1 .. Len(m.data) : (hp \o m.data)[Len(hp) + i] = m.data[i]
    BY <1>1, <1>5, ConcatFacts
  <2>5. Len(hp) = 2 + ProtLen(m) /\ TotalLen(m) = Len(hp) + DataLen(m)
    BY <1>5, LenFacts
  <2> QED  BY <1>4, <2>1, <2>2, <2>3, <2>4, <2>5
<1>7. /\ Frame(m)[1] = High(TotalLen(m)) /\ Frame(m)[2] = Low(TotalLen(m))
      /\ Frame(m)[3] = Low(ProtLen(m)) /\ Frame(m)[4] = High(ProtLen(m))
      /\ Frame(m)[5] = m.prim
  <2>1. \A i \in 1 .. 5 : Frame(m)[i] = h[i]
    <3> HIDE DEF h, hp
    <3> QED  BY <1>5, <1>6, LenFacts
  <2> QED  BY <2>1
<1>8. \A i \in 1 .. ProtLen(m) - 3 : Frame(m)[5 + i] = m.par[i]
  <2> HIDE DEF h, hp
  <2> QED  BY <1>5, <1>6, LenFacts
<1> QED  BY <1>2, <1>6, <1>7, <1>8

--------------------------------------------------------------------------------
(* The inductive invariant *)

\* f is a frame that is on the stream as a whole.
OnWire(f) ==
    /\ f.at + TotalLen(f.msg) <= Len(wire)
    /\ \A i \in 1 .. TotalLen(f.msg) : wire[f.at + i] = Frame(f.msg)[i]

\* While the handler's call runs, the writev() that it has interrupted has passed
\* on nothing.
Interrupted == pc["handler"] # "idle" /\ pc["main"] = "writev" => off["main"] = 0

\* What the writev() of c has passed on is on the stream, at the end of it as long
\* as c is in writev().
Passed(c) ==
    pc[c] # "idle" /\ off[c] > 0 =>
        /\ at[c] + off[c] <= Len(wire)
        /\ \A i \in 1 .. off[c] : wire[at[c] + i] = Frame(msg[c])[i]
        /\ pc[c] = "writev" => at[c] + off[c] = Len(wire)

\* c is in the middle of a frame.
Writing(c) == pc[c] = "writev" /\ off[c] > 0 /\ ~Whole(c)

\* p is where a frame ends and the next one begins, or will.
Boundary(p) ==
    \/ \E f \in OnStream : f.at = p
    \/ \E c \in Callers : Writing(c) /\ at[c] = p
    \/ p = Len(wire) /\ \A c \in Callers : ~Writing(c)

\* The bytes of f lie before those of g, or behind them, or f is g.
Apart(f, g) == f = g \/ f.at + TotalLen(f.msg) <= g.at \/ g.at + TotalLen(g.msg) <= f.at

\* The stream is one frame behind the other, the last one perhaps not complete,
\* and the server has taken the first of them.
Framed ==
    /\ Boundary(srd)
    /\ \A f \in OnStream : Boundary(f.at + TotalLen(f.msg))
    /\ \A f, g \in OnStream : Apart(f, g)
    /\ \A c \in Callers : Writing(c) =>
          /\ srd <= at[c]
          /\ \A f \in OnStream : f.at + TotalLen(f.msg) <= at[c]
    /\ \A k \in 1 .. Len(got) : \E f \in OnStream : Is(got[k], f)
    /\ \A f \in OnStream : f.at < srd => \E k \in 1 .. Len(got) : Is(got[k], f)

\* The frames of the puts that returned 0 are on the stream.
AcceptedOnWire == \A k \in 1 .. Len(accepted) : OnWire(accepted[k])

\* Where the bytes of every call are, whether the stream is in order or not.
WireInv ==
    /\ TypeOK
    /\ Interrupted
    /\ \A c \in Callers : Passed(c)
    /\ AcceptedOnWire

IInv == WireInv /\ (~Cut => Framed)

--------------------------------------------------------------------------------
(* What is on the stream *)

\* A frame on the stream is the frame of an accepted put or of one that has passed
\* on all of its bytes.
LEMMA StreamMember ==
    \A f : f \in OnStream <=>
              \/ \E k \in 1 .. Len(accepted) : f = accepted[k]
              \/ \E c \in Callers : /\ pc[c] # "idle" /\ Whole(c)
                                    /\ f = [msg |-> msg[c], at |-> at[c]]
BY DEF OnStream

LEMMA StreamMemberNext ==
    \A f : f \in OnStream' <=>
              \/ \E k \in 1 .. Len(accepted') : f = accepted'[k]
              \/ \E c \in Callers : /\ pc'[c] # "idle" /\ Whole(c)'
                                    /\ f = [msg |-> msg'[c], at |-> at'[c]]
BY DEF OnStream

\* A frame on the stream is the frame of a message, at its place and whole.
LEMMA StreamFacts ==
    ASSUME WireInv, NEW f \in OnStream
    PROVE  /\ f \in [msg : Msgs, at : Nat]
           /\ TotalLen(f.msg) \in Nat /\ TotalLen(f.msg) >= 5
           /\ OnWire(f)
<1>1. CASE \E k \in 1 .. Len(accepted) : f = accepted[k]
  <2>1. PICK k \in 1 .. Len(accepted) : f = accepted[k]
    BY <1>1
  <2>2. accepted \in Seq([msg : Msgs, at : Nat])
    BY DEF WireInv, TypeOK
  <2>3. f \in [msg : Msgs, at : Nat] /\ OnWire(f)
    BY <2>1, <2>2, Element DEF WireInv, AcceptedOnWire
  <2> QED  BY <2>3, LenFacts
<1>2. ASSUME NEW c \in Callers, pc[c] # "idle", Whole(c), f = [msg |-> msg[c], at |-> at[c]]
      PROVE  /\ f \in [msg : Msgs, at : Nat]
             /\ TotalLen(f.msg) \in Nat /\ TotalLen(f.msg) >= 5
             /\ OnWire(f)
  <2>1. f \in [msg : Msgs, at : Nat] /\ f.msg = msg[c] /\ f.at = at[c]
    BY <1>2 DEF WireInv, TypeOK
  <2>2. TotalLen(f.msg) \in Nat /\ TotalLen(f.msg) >= 5
    BY <2>1, LenFacts
  <2>3. off[c] = TotalLen(f.msg) /\ off[c] > 0
    BY <1>2, <2>1, <2>2 DEF Whole
  <2> QED  BY <1>2, <2>1, <2>2, <2>3 DEF WireInv, Passed, OnWire
<1> QED
  BY <1>1, <1>2, StreamMember

\* A step that leaves the frames, the writers and the server alone leaves the
\* stream in order.
LEMMA FramedSame ==
    ASSUME Framed, OnStream' = OnStream, \A c \in Callers : Writing(c)' <=> Writing(c),
           UNCHANGED <<at, wire, got, srd>>
    PROVE  Framed'
BY DEF Framed, Boundary, Apart, Is

\* Only the handler can be in writev() with bytes on the stream, or only the
\* program.
LEMMA OneWriter ==
    ASSUME WireInv, NEW c \in Callers, pc[c] = "writev", Runs(c),
           NEW d \in Callers, d # c
    PROVE  ~(pc[d] = "writev" /\ off[d] > 0)
BY DEF WireInv, TypeOK, Interrupted, Runs, Callers

--------------------------------------------------------------------------------
(* The steps: the types *)

\* The bytes of a frame that a writev() passes on.
LEMMA Piece ==
    ASSUME TypeOK, NEW c \in Callers, NEW n \in 1 .. TotalLen(msg[c]) - off[c]
    PROVE  LET piece == SubSeq(Frame(msg[c]), off[c] + 1, off[c] + n)
           IN  /\ off[c] \in Nat /\ n \in Nat /\ n > 0
               /\ off[c] + n <= TotalLen(msg[c]) /\ TotalLen(msg[c]) \in Nat
               /\ wire \o piece \in Seq(Byte)
               /\ Len(wire) \in Nat
               /\ Len(wire \o piece) = Len(wire) + n
               /\ \A i \in 1 .. Len(wire) : (wire \o piece)[i] = wire[i]
               /\ \A i \in 1 .. n : (wire \o piece)[Len(wire) + i] = Frame(msg[c])[off[c] + i]
<1> DEFINE piece == SubSeq(Frame(msg[c]), off[c] + 1, off[c] + n)
<1>1. msg[c] \in Msgs /\ off[c] \in Nat /\ off[c] <= TotalLen(msg[c]) /\ wire \in Seq(Byte)
  BY DEF TypeOK
<1>2. TotalLen(msg[c]) \in Nat
  BY <1>1, LenFacts
<1>3. n \in Nat /\ n > 0 /\ off[c] + n <= TotalLen(msg[c])
  BY <1>1, <1>2
<1>4. Frame(msg[c]) \in Seq(Byte) /\ Len(Frame(msg[c])) = TotalLen(msg[c])
  BY <1>1, FrameFacts
<1>5. /\ piece \in Seq(Byte) /\ Len(piece) = n
      /\ \A i \in 1 .. n : piece[i] = Frame(msg[c])[off[c] + i]
  <2>1. off[c] \in 0 .. Len(Frame(msg[c])) /\ off[c] + n \in off[c] .. Len(Frame(msg[c]))
    BY <1>1, <1>2, <1>3, <1>4
  <2>2. (off[c] + n) - off[c] = n
    BY <1>1, <1>3
  <2> QED  BY <1>4, <2>1, <2>2, PartFacts, ZenonT(30)
<1> HIDE DEF piece
<1>6. /\ wire \o piece \in Seq(Byte)
      /\ Len(wire \o piece) = Len(wire) + n
      /\ \A i \in 1 .. Len(wire) : (wire \o piece)[i] = wire[i]
      /\ \A i \in 1 .. n : (wire \o piece)[Len(wire) + i] = piece[i]
  BY <1>1, <1>5, ConcatFacts
<1>7. Len(wire) \in Nat
  BY <1>1
<1> QED
  BY <1>1, <1>2, <1>3, <1>5, <1>6, <1>7 DEF piece

LEMMA TypeStep ==
    ASSUME TypeOK, [Next]_vars
    PROVE  TypeOK'
<1>1. ASSUME NEW c \in Callers, NEW m \in Msgs, Put(c, m)  PROVE TypeOK'
  <2>1. 0 <= TotalLen(m)
    BY LenFacts
  <2>2. ASSUME NEW d \in Callers  PROVE off'[d] <= TotalLen(msg'[d])
    <3>1. CASE d = c
      BY <1>1, <2>1, <3>1 DEF TypeOK, Put
    <3>2. CASE d # c
      BY <1>1, <3>2 DEF TypeOK, Put
    <3> QED  BY <3>1, <3>2
  <2> QED  BY <1>1, <2>2, SendAssumption DEF TypeOK, Put, caller, remote
<1>2. ASSUME NEW c \in Callers, Pass(c)  PROVE TypeOK'
  <2>1. PICK n \in 1 .. TotalLen(msg[c]) - off[c] :
            /\ wire' = wire \o SubSeq(Frame(msg[c]), off[c] + 1, off[c] + n)
            /\ off' = [off EXCEPT ![c] = @ + n]
    BY <1>2 DEF TypeOK, Pass
  <2>2. wire' \in Seq(Byte) /\ Len(wire') = Len(wire) + n /\ Len(wire) \in Nat /\ n \in Nat
    BY <2>1, Piece
  <2>3. off[c] + n \in Nat /\ off[c] + n <= TotalLen(msg[c])
    BY <2>1, Piece
  <2>4. at' \in [Callers -> Nat]
    BY <1>2, <2>2 DEF TypeOK, Pass
  <2>5. off' \in [Callers -> Nat] /\ \A d \in Callers : off'[d] <= TotalLen(msg'[d])
    BY <1>2, <2>1, <2>3 DEF TypeOK, Pass
  <2>6. srd' \in 0 .. Len(wire')
    BY <1>2, <2>2 DEF TypeOK, Pass, remote
  <2> QED  BY <1>2, <2>2, <2>4, <2>5, <2>6 DEF TypeOK, Pass, remote
<1>3. ASSUME NEW c \in Callers, WritevReturns(c)  PROVE TypeOK'
  BY <1>3 DEF TypeOK, WritevReturns, remote
<1>4. ASSUME NEW c \in Callers, Success(c)  PROVE TypeOK'
  <2>1. [msg |-> msg[c], at |-> at[c]] \in [msg : Msgs, at : Nat]
    BY DEF TypeOK
  <2>2. accepted' \in Seq([msg : Msgs, at : Nat])
    BY <1>4, <2>1 DEF TypeOK, Success
  <2> QED  BY <1>4, <2>2 DEF TypeOK, Success, remote
<1>5. ASSUME NEW c \in Callers, Overflow(c)  PROVE TypeOK'
  <2>1. "MSG_QUEUE_OVERFLOW" \in Codes
    BY DEF Codes, ErrnoCode
  <2> QED  BY <1>5, <2>1 DEF TypeOK, Overflow, remote
<1>6. ASSUME NEW c \in Callers, Fail(c)  PROVE TypeOK'
  <2>1. PICK e \in DOMAIN ErrnoCode :
            /\ result' = [result EXCEPT ![c] = ErrnoCode[e]]
            /\ overflow' = (overflow \/ ErrnoCode[e] = "MSG_QUEUE_OVERFLOW")
    BY <1>6 DEF Fail
  <2>2. ErrnoCode[e] \in Codes
    BY DEF Codes
  <2>3. overflow' \in BOOLEAN
    BY <2>1
  <2>4. result' \in [Callers -> Codes \cup {"OK"}]
    BY <2>1, <2>2 DEF TypeOK
  <2> QED  BY <1>6, <2>3, <2>4 DEF TypeOK, Fail, remote
<1>7. CASE ServerTakes
  <2> DEFINE size == wire[srd + 1] * Base + wire[srd + 2]
  <2>1. /\ srd + 2 <= Len(wire) /\ size >= 2 /\ srd + size <= Len(wire)
        /\ got' = Append(got, [at |-> srd, bytes |-> SubSeq(wire, srd + 1, srd + size)])
        /\ srd' = srd + size
    BY <1>7 DEF ServerTakes
  <2>2. srd \in Nat /\ Len(wire) \in Nat /\ size \in Nat
    <3>1. srd \in Nat /\ Len(wire) \in Nat
      BY DEF TypeOK
    <3>2. srd + 1 \in 1 .. Len(wire) /\ srd + 2 \in 1 .. Len(wire)
      BY <2>1, <3>1
    <3>3. wire[srd + 1] \in Nat /\ wire[srd + 2] \in Nat /\ Base \in Nat
      <4>1. wire \in Seq(Byte)
        BY DEF TypeOK
      <4>2. wire[srd + 1] \in Byte /\ wire[srd + 2] \in Byte
        BY <3>2, <4>1, Element
      <4>3. Base \in Nat /\ Byte \subseteq Nat
        BY FrameAssumption DEF Byte
      <4> QED  BY <4>2, <4>3
    <3>4. wire[srd + 1] * Base \in Nat
      BY <3>3
    <3>5. \A x, y \in Nat : x + y \in Nat
      OBVIOUS
    <3>6. size \in Nat
      BY <3>3, <3>4, <3>5
    <3> QED  BY <3>1, <3>6
  <2> HIDE DEF size
  <2>3. SubSeq(wire, srd + 1, srd + size) \in Seq(Byte)
    <3>1. srd \in 0 .. Len(wire) /\ srd + size \in srd .. Len(wire)
      BY <2>1, <2>2
    <3> QED  BY <3>1, PartFacts DEF TypeOK
  <2>4. got' \in Seq([at : Nat, bytes : Seq(Byte)])
    BY <2>1, <2>2, <2>3 DEF TypeOK
  <2>5. srd' \in 0 .. Len(wire')
    BY <1>7, <2>1, <2>2 DEF TypeOK, ServerTakes
  <2> QED  BY <1>7, <2>4, <2>5 DEF TypeOK, ServerTakes, caller
<1>8. CASE Break \/ Lose
  BY <1>8 DEF TypeOK, Break, Lose, caller, remote
<1>9. CASE UNCHANGED vars
  BY <1>9 DEF TypeOK, vars, caller, remote
<1> QED
  BY <1>1, <1>2, <1>3, <1>4, <1>5, <1>6, <1>7, <1>8, <1>9 DEF Next, Return

--------------------------------------------------------------------------------
(* The steps: the bytes of every call *)

\* The call that begins has passed on nothing yet; one that the signal has
\* interrupted keeps what it has passed on.
LEMMA PutWire ==
    ASSUME WireInv, TypeOK', NEW c \in Callers, NEW m \in Msgs, Put(c, m)
    PROVE  WireInv'
<1>1. Interrupted'
  BY DEF WireInv, TypeOK, Interrupted, Put, Runs, Callers
<1>2. ASSUME NEW d \in Callers  PROVE Passed(d)'
  <2>1. CASE d = c
    BY <2>1 DEF WireInv, TypeOK, Passed, Put
  <2>2. CASE d # c
    BY <2>2 DEF WireInv, TypeOK, Passed, Put
  <2> QED  BY <2>1, <2>2
<1>3. AcceptedOnWire'
  BY DEF WireInv, AcceptedOnWire, OnWire, Put
<1> QED
  BY <1>1, <1>2, <1>3 DEF WireInv

\* Bytes on the stream stay where they are when others come behind them.
LEMMA StillThere ==
    ASSUME NEW w, Len(w) \in Nat, NEW v, NEW n \in Nat, Len(v) = Len(w) + n,
           \A i \in 1 .. Len(w) : v[i] = w[i],
           NEW a \in Nat, NEW t \in Nat, NEW F, a + t <= Len(w),
           \A i \in 1 .. t : w[a + i] = F[i]
    PROVE  a + t <= Len(v) /\ \A i \in 1 .. t : v[a + i] = F[i]
<1>1. \A i \in 1 .. t : a + i \in 1 .. Len(w)
  OBVIOUS
<1> QED
  BY <1>1

\* Bytes that are put at the end of the stream leave the others alone.
LEMMA PassWire ==
    ASSUME WireInv, TypeOK', NEW c \in Callers, Pass(c)
    PROVE  WireInv'
<1>1. PICK n \in 1 .. TotalLen(msg[c]) - off[c] :
          /\ wire' = wire \o SubSeq(Frame(msg[c]), off[c] + 1, off[c] + n)
          /\ off' = [off EXCEPT ![c] = @ + n]
  BY DEF Pass
<1>2. /\ off[c] \in Nat /\ n \in Nat /\ n > 0
      /\ Len(wire) \in Nat /\ Len(wire') = Len(wire) + n
  BY <1>1, Piece DEF WireInv
<1>9. \A i \in 1 .. Len(wire) : wire'[i] = wire[i]
  BY <1>1, Piece DEF WireInv
<1>10. \A i \in 1 .. n : wire'[Len(wire) + i] = Frame(msg[c])[off[c] + i]
  BY <1>1, Piece DEF WireInv
<1>3. pc' = pc /\ msg' = msg /\ accepted' = accepted /\ pc[c] = "writev" /\ Runs(c)
  BY DEF Pass
<1>4. off'[c] = off[c] + n /\ \A d \in Callers : d # c => off'[d] = off[d] /\ at'[d] = at[d]
  BY <1>1 DEF WireInv, TypeOK, Pass
<1>5. Interrupted'
  BY <1>3, <1>4 DEF WireInv, TypeOK, Interrupted, Runs, Callers
<1>6. Passed(c)'
  <2>1. CASE off[c] = 0
    <3>1. at'[c] = Len(wire)
      BY <2>1 DEF WireInv, TypeOK, Pass
    <3> QED  BY <1>2, <1>3, <1>4, <1>10, <2>1, <3>1 DEF Passed
  <2>2. CASE off[c] > 0
    <3>1. at'[c] = at[c] /\ at[c] \in Nat
      BY <1>2, <2>2 DEF WireInv, TypeOK, Pass
    <3>2. at[c] + off[c] = Len(wire)
      BY <1>3, <2>2 DEF WireInv, Passed
    <3>8. \A i \in 1 .. off[c] : wire[at[c] + i] = Frame(msg[c])[i]
      BY <1>3, <2>2 DEF WireInv, Passed
    <3>3. \A i \in 1 .. off[c] : wire'[at[c] + i] = Frame(msg[c])[i]
      <4>1. ASSUME NEW i \in 1 .. off[c]  PROVE at[c] + i \in 1 .. Len(wire)
        BY <1>2, <3>1, <3>2, SMTT(30)
      <4>2. ASSUME NEW i \in 1 .. off[c]  PROVE wire'[at[c] + i] = wire[at[c] + i]
        BY <1>9, <4>1
      <4> QED  BY <3>8, <4>2
    <3>4. ASSUME NEW i \in 1 .. n
          PROVE  wire'[at[c] + (off[c] + i)] = Frame(msg[c])[off[c] + i]
      <4>1. \A x, y, z \in Nat : x + (y + z) = (x + y) + z
        OBVIOUS
      <4>2. at[c] + (off[c] + i) = (at[c] + off[c]) + i
        BY <1>2, <3>1, <4>1
      <4> QED  BY <1>10, <3>2, <4>2
    <3>5. ASSUME NEW i \in 1 .. off[c] + n  PROVE wire'[at[c] + i] = Frame(msg[c])[i]
      <4>1. CASE i <= off[c]
        BY <1>2, <3>3, <4>1
      <4>2. CASE i > off[c]
        <5>1. i - off[c] \in 1 .. n /\ off[c] + (i - off[c]) = i
          BY <1>2, <4>2
        <5> QED  BY <3>4, <5>1
      <4> QED  BY <1>2, <4>1, <4>2
    <3>6. at[c] + (off[c] + n) = Len(wire')
      BY <1>2, <3>1, <3>2
    <3>7. at[c] + (off[c] + n) <= Len(wire')
      BY <1>2, <3>6
    <3> QED  BY <1>3, <1>4, <3>1, <3>5, <3>6, <3>7 DEF Passed
  <2> QED  BY <1>2, <2>1, <2>2
<1>7. ASSUME NEW d \in Callers, d # c  PROVE Passed(d)'
  <2>1. ~(pc[d] = "writev" /\ off[d] > 0)
    BY <1>3, <1>7, OneWriter
  <2>2. at[d] \in Nat /\ off[d] \in Nat
    BY DEF WireInv, TypeOK
  <2>3. SUFFICES ASSUME pc[d] # "idle", off[d] > 0
                 PROVE  /\ at[d] + off[d] <= Len(wire')
                        /\ \A i \in 1 .. off[d] : wire'[at[d] + i] = Frame(msg[d])[i]
    BY <1>3, <1>4, <1>7, <2>1 DEF Passed
  <2>4. /\ at[d] + off[d] <= Len(wire)
        /\ \A i \in 1 .. off[d] : wire[at[d] + i] = Frame(msg[d])[i]
    BY <2>3 DEF WireInv, Passed
  <2> QED  BY <1>2, <1>9, <2>2, <2>4, StillThere
<1>8. ASSUME NEW k \in 1 .. Len(accepted')  PROVE OnWire(accepted[k])'
  <2>1. accepted[k] \in [msg : Msgs, at : Nat]
    BY <1>3, Element DEF WireInv, TypeOK
  <2>2. TotalLen(accepted[k].msg) \in Nat /\ accepted[k].at \in Nat
    BY <2>1, LenFacts
  <2>3. OnWire(accepted[k])
    BY <1>3 DEF WireInv, AcceptedOnWire
  <2> DEFINE f == accepted[k]
  <2>4. f' = f
    BY <1>3
  <2>5. TotalLen(f.msg) \in Nat /\ f.at \in Nat /\ OnWire(f)
    BY <2>2, <2>3
  <2> HIDE DEF f
  <2> DEFINE a == f.at  t == TotalLen(f.msg)  F == Frame(f.msg)
  <2>6. a + t <= Len(wire) /\ \A i \in 1 .. t : wire[a + i] = F[i]
    BY <2>5 DEF OnWire
  <2>7. a \in Nat /\ t \in Nat
    BY <2>5
  <2> HIDE DEF a, t, F
  <2>8. a + t <= Len(wire') /\ \A i \in 1 .. t : wire'[a + i] = F[i]
    BY <1>2, <1>9, <2>6, <2>7, StillThere
  <2>9. OnWire(f)'
    BY <2>4, <2>8 DEF OnWire, a, t, F
  <2> QED  BY <2>9 DEF f
<1> QED
  BY <1>3, <1>5, <1>6, <1>7, <1>8 DEF WireInv, AcceptedOnWire

\* The frame of a put that returns 0 is on the stream.
LEMMA SuccessWire ==
    ASSUME WireInv, TypeOK', NEW c \in Callers, Success(c)
    PROVE  WireInv'
<1>1. Interrupted' /\ \A d \in Callers : Passed(d)'
  BY SMTT(40), SMTT(41), ZenonT(30) DEF WireInv, TypeOK, Interrupted, Passed, Success
<1>2. ASSUME NEW k \in 1 .. Len(accepted')  PROVE OnWire(accepted[k])'
  <2> DEFINE f == [msg |-> msg[c], at |-> at[c]]
  <2>1. accepted' = Append(accepted, f) /\ wire' = wire
    BY DEF Success
  <2>2. accepted \in Seq([msg : Msgs, at : Nat]) /\ f \in [msg : Msgs, at : Nat]
    BY DEF WireInv, TypeOK
  <2>3. OnWire(f)
    <3>1. msg[c] \in Msgs
      BY DEF WireInv, TypeOK
    <3>2. TotalLen(msg[c]) \in Nat /\ TotalLen(msg[c]) > 0
      BY <3>1, LenFacts
    <3>3. pc[c] = "done" /\ off[c] = TotalLen(msg[c])
      BY DEF Success, Whole
    <3> QED  BY <3>2, <3>3 DEF WireInv, Passed, OnWire
  <2> HIDE DEF f
  <2>4. CASE k = Len(accepted) + 1
    BY <2>1, <2>2, <2>3, <2>4 DEF OnWire
  <2>5. CASE k \in 1 .. Len(accepted)
    BY <2>1, <2>2, <2>5 DEF WireInv, AcceptedOnWire, OnWire
  <2> QED  BY <2>1, <2>2, <2>4, <2>5
<1> QED
  BY <1>1, <1>2 DEF WireInv, AcceptedOnWire

\* The other steps put nothing on the stream and accept nothing.
LEMMA QuietWire ==
    ASSUME WireInv, TypeOK', UNCHANGED <<msg, off, at, wire, accepted>>,
           \/ pc' = pc
           \/ \E c \in Callers, p \in {"idle", "done"} :
                 pc[c] # "idle" /\ pc' = [pc EXCEPT ![c] = p]
    PROVE  WireInv'
<1>1. \A d \in Callers : pc'[d] = pc[d] \/ (pc'[d] \in {"idle", "done"} /\ pc[d] # "idle")
  BY DEF WireInv, TypeOK
<1>2. Interrupted'
  BY <1>1 DEF WireInv, TypeOK, Interrupted, Callers
<1>3. \A d \in Callers : Passed(d)'
  BY <1>1, SMTT(30) DEF WireInv, TypeOK, Passed
<1>4. AcceptedOnWire'
  BY DEF WireInv, AcceptedOnWire, OnWire
<1> QED
  BY <1>2, <1>3, <1>4 DEF WireInv

LEMMA WireStep == WireInv /\ [Next]_vars => WireInv'
<1> SUFFICES ASSUME WireInv, [Next]_vars  PROVE WireInv'
  OBVIOUS
<1>1. TypeOK'
  BY TypeStep DEF WireInv
<1>2. ASSUME NEW c \in Callers, WritevReturns(c) \/ Overflow(c) \/ Fail(c)  PROVE WireInv'
  <2>1. /\ UNCHANGED <<msg, off, at, wire, accepted>>
        /\ pc[c] # "idle" /\ \E p \in {"idle", "done"} : pc' = [pc EXCEPT ![c] = p]
    BY <1>2 DEF WritevReturns, Overflow, Fail
  <2> QED  BY <1>1, <2>1, QuietWire
<1>3. CASE ServerTakes
  <2>1. UNCHANGED <<pc, msg, off, at, wire, accepted>>
    BY <1>3 DEF ServerTakes, caller
  <2> QED  BY <1>1, <2>1, QuietWire
<1>4. CASE Break \/ Lose
  <2>1. UNCHANGED <<pc, msg, off, at, wire, accepted>>
    BY <1>4 DEF Break, Lose, caller
  <2> QED  BY <1>1, <2>1, QuietWire
<1>5. CASE UNCHANGED vars
  <2>1. UNCHANGED <<pc, msg, off, at, wire, accepted>>
    BY <1>5 DEF vars, caller
  <2> QED  BY <1>1, <2>1, QuietWire
<1> QED
  BY <1>1, <1>2, <1>3, <1>4, <1>5, PutWire, PassWire, SuccessWire DEF Next, Return

--------------------------------------------------------------------------------
(* The steps: the frames, one behind the other *)

\* A stream that is cut stays so.
LEMMA CutStays ==
    ASSUME WireInv, [Next]_vars, Cut
    PROVE  Cut'
<1>1. CASE overflow
  <2>1. overflow'
    <3>1. ASSUME NEW c \in Callers,
                 \/ \E m \in Msgs : Put(c, m)
                 \/ Pass(c) \/ WritevReturns(c) \/ Success(c) \/ Overflow(c) \/ Fail(c)
          PROVE  overflow'
      BY <1>1, <3>1 DEF Put, Pass, WritevReturns, Success, Overflow, Fail
    <3>2. CASE ServerTakes \/ Break \/ Lose \/ UNCHANGED vars
      <4>1. overflow' = overflow
        BY <3>2, Zenon DEF ServerTakes, Break, Lose, vars
      <4> QED  BY <1>1, <4>1
    <3> QED  BY <3>1, <3>2 DEF Next, Return
  <2> QED  BY <2>1 DEF Cut
<1>2. ASSUME NEW c \in Callers, Part(c)  PROVE Cut'
  <2>1. pc[c] = "done" /\ ~Whole(c)
    BY <1>2 DEF Part
  <2>2. CASE UNCHANGED <<pc, msg, off>>
    <3>1. Part(c)'
      BY <2>1, <2>2 DEF Part, Whole
    <3> QED  BY <3>1 DEF Cut
  <2>3. ASSUME NEW d \in Callers, d # c,
               \/ \E m \in Msgs : Put(d, m)
               \/ Pass(d) \/ WritevReturns(d) \/ Success(d) \/ Overflow(d) \/ Fail(d)
        PROVE  Cut'
    <3>1. pc'[c] = pc[c] /\ msg'[c] = msg[c] /\ off'[c] = off[c]
      BY <2>1, <2>3 DEF WireInv, TypeOK, Put, Pass, WritevReturns, Success, Overflow, Fail
    <3>2. Part(c)'
      BY <2>1, <3>1 DEF Part, Whole
    <3> QED  BY <3>2 DEF Cut
  <2>4. CASE Overflow(c)
    BY <2>4 DEF Overflow, Cut
  <2>5. ~(\/ \E m \in Msgs : Put(c, m)
          \/ Pass(c) \/ WritevReturns(c) \/ Success(c) \/ Fail(c))
    BY <2>1 DEF Put, Pass, WritevReturns, Success, Fail
  <2>6. CASE ServerTakes \/ Break \/ Lose \/ UNCHANGED vars
    <3>1. UNCHANGED <<pc, msg, off>>
      BY <2>6, Zenon DEF ServerTakes, Break, Lose, vars, caller
    <3> QED  BY <2>2, <3>1
  <2> QED  BY <2>3, <2>4, <2>5, <2>6 DEF Next, Return
<1> QED
  BY <1>1, <1>2 DEF Cut

\* A caller that has put nothing on the stream, or all of its frame, can get on
\* without changing what is there.
LEMMA PutFramed ==
    ASSUME WireInv, WireInv', ~Cut', Framed, NEW c \in Callers, NEW m \in Msgs, Put(c, m)
    PROVE  Framed'
<1>1. /\ pc[c] = "idle" /\ pc'[c] = "writev" /\ off'[c] = 0
      /\ msg'[c] = m /\ UNCHANGED <<at, wire, accepted, got, srd>>
  BY DEF WireInv, TypeOK, Put, remote
<1>2. \A d \in Callers : d # c =>
          /\ off'[d] = off[d] /\ msg'[d] = msg[d]
          /\ pc'[d] = IF pc[d] = "writev" /\ off[d] > 0 THEN "done" ELSE pc[d]
  BY DEF WireInv, TypeOK, Put
<1>3. ~Whole(c)'
  <2>1. TotalLen(m) # 0
    BY LenFacts
  <2> QED  BY <1>1, <2>1 DEF Whole
<1>4. \A d \in Callers : d # c => (Whole(d)' <=> Whole(d)) /\ (pc'[d] # "idle" <=> pc[d] # "idle")
  BY <1>2 DEF Whole
<1>5. OnStream' = OnStream
  <2>1. \A d \in Callers : \A f :
            /\ pc'[d] # "idle" /\ Whole(d)' /\ f = [msg |-> msg'[d], at |-> at'[d]]
            <=> pc[d] # "idle" /\ Whole(d) /\ f = [msg |-> msg[d], at |-> at[d]]
    BY <1>1, <1>2, <1>3, <1>4
  <2>2. \A f : f \in OnStream' <=> f \in OnStream
    BY <1>1, <2>1, StreamMember, StreamMemberNext
  <2> QED  BY <2>2
<1>6. ASSUME NEW d \in Callers  PROVE ~Writing(d) /\ ~Writing(d)'
  <2>1. CASE d = c
    BY <1>1, <2>1 DEF Writing
  <2>2. CASE d # c
    <3>1. ~Part(d)'
      BY DEF Cut
    <3> QED  BY <1>2, <1>4, <2>2, <3>1 DEF Writing, Part, WireInv, TypeOK
  <2> QED  BY <2>1, <2>2
<1> QED
  BY <1>1, <1>5, <1>6, FramedSame

\* A writev() that comes back leaves the stream as it is, and the frame is whole
\* unless the stream is cut.
LEMMA ReturnFramed ==
    ASSUME WireInv, ~Cut', Framed, NEW c \in Callers, WritevReturns(c)
    PROVE  Framed'
<1>1. /\ pc[c] = "writev" /\ pc' = [pc EXCEPT ![c] = "done"]
      /\ UNCHANGED <<msg, off, at, wire, accepted, got, srd>>
  BY DEF WritevReturns, remote
<1>2. \A d \in Callers : (Whole(d)' <=> Whole(d)) /\ (pc'[d] # "idle" <=> pc[d] # "idle")
  BY <1>1 DEF WireInv, TypeOK, Whole
<1>3. OnStream' = OnStream
  <2>1. \A f : f \in OnStream' <=> f \in OnStream
    BY <1>1, <1>2, StreamMember, StreamMemberNext
  <2> QED  BY <2>1
<1>4. Whole(c)
  <2>1. ~Part(c)'
    BY DEF Cut
  <2> QED  BY <1>1, <1>2, <2>1 DEF WireInv, TypeOK, Part
<1>5. \A d \in Callers : Writing(d)' <=> Writing(d)
  BY <1>1, <1>2, <1>4 DEF WireInv, TypeOK, Writing
<1> QED
  BY <1>1, <1>3, <1>5, FramedSame

\* The frame of a put that returns 0 was on the stream before.
LEMMA SuccessFramed ==
    ASSUME WireInv, Framed, NEW c \in Callers, Success(c)
    PROVE  Framed'
<1> DEFINE g == [msg |-> msg[c], at |-> at[c]]
<1>1. /\ pc[c] = "done" /\ Whole(c) /\ pc' = [pc EXCEPT ![c] = "idle"]
      /\ accepted' = Append(accepted, g)
      /\ UNCHANGED <<msg, off, at, wire, got, srd>>
  BY DEF Success, remote
<1>2. \A d \in Callers : /\ Whole(d)' <=> Whole(d)
                         /\ d # c => pc'[d] = pc[d]
  BY <1>1 DEF WireInv, TypeOK, Whole
<1>3. pc'[c] = "idle"
  BY <1>1 DEF WireInv, TypeOK
<1>4. OnStream' = OnStream
  <2>1. accepted \in Seq([msg : Msgs, at : Nat])
    BY DEF WireInv, TypeOK
  <2>2. \A f : (\E k \in 1 .. Len(accepted') : f = accepted'[k])
                 <=> f = g \/ \E k \in 1 .. Len(accepted) : f = accepted[k]
    <3> HIDE DEF g
    <3>1. /\ Len(accepted) \in Nat /\ Len(accepted') = Len(accepted) + 1
          /\ \A k \in 1 .. Len(accepted) : accepted'[k] = accepted[k]
          /\ accepted'[Len(accepted) + 1] = g
      BY <1>1, <2>1
    <3>2. \A k \in 1 .. Len(accepted') : k \in 1 .. Len(accepted) \/ k = Len(accepted) + 1
      BY <3>1
    <3>3. \A k \in 1 .. Len(accepted) : k \in 1 .. Len(accepted')
      BY <3>1
    <3>4. Len(accepted) + 1 \in 1 .. Len(accepted')
      BY <3>1
    <3> QED  BY <3>1, <3>2, <3>3, <3>4
  <2>3. ASSUME NEW f
        PROVE  (\E d \in Callers : pc[d] # "idle" /\ Whole(d) /\ f = [msg |-> msg[d], at |-> at[d]])
                 <=> \/ f = g
                     \/ \E d \in Callers : /\ pc'[d] # "idle" /\ Whole(d)'
                                           /\ f = [msg |-> msg'[d], at |-> at'[d]]
    BY <1>1, <1>2, <1>3
  <2> HIDE DEF g
  <2>4. ASSUME NEW f  PROVE f \in OnStream' <=> f \in OnStream
    <3>1. f \in OnStream <=>
             \/ \E k \in 1 .. Len(accepted) : f = accepted[k]
             \/ \E d \in Callers : pc[d] # "idle" /\ Whole(d) /\ f = [msg |-> msg[d], at |-> at[d]]
      BY StreamMember
    <3>2. f \in OnStream' <=>
             \/ \E k \in 1 .. Len(accepted') : f = accepted'[k]
             \/ \E d \in Callers : /\ pc'[d] # "idle" /\ Whole(d)'
                                   /\ f = [msg |-> msg'[d], at |-> at'[d]]
      BY StreamMemberNext
    <3>3. (\E k \in 1 .. Len(accepted') : f = accepted'[k])
             <=> f = g \/ \E k \in 1 .. Len(accepted) : f = accepted[k]
      BY <2>2
    <3> QED  BY <2>3, <3>1, <3>2, <3>3
  <2> QED  BY <2>4
<1>5. \A d \in Callers : Writing(d)' <=> Writing(d)
  BY <1>1, <1>2, <1>3 DEF Writing
<1> QED
  BY <1>1, <1>4, <1>5, FramedSame

\* A put that fails has no frame on the stream.
LEMMA FailFramed ==
    ASSUME WireInv, Framed, NEW c \in Callers, Fail(c)
    PROVE  Framed'
<1>1. /\ pc[c] = "writev" /\ off[c] = 0 /\ pc' = [pc EXCEPT ![c] = "idle"]
      /\ UNCHANGED <<msg, off, at, wire, accepted, got, srd>>
  BY DEF Fail, remote
<1>2. \A d \in Callers : /\ Whole(d)' <=> Whole(d)
                         /\ d # c => pc'[d] = pc[d]
  BY <1>1 DEF WireInv, TypeOK, Whole
<1>3. pc'[c] = "idle" /\ ~Whole(c)
  <2>1. TotalLen(msg[c]) # 0
    BY LenFacts DEF WireInv, TypeOK
  <2> QED  BY <1>1, <2>1 DEF WireInv, TypeOK, Whole
<1>4. OnStream' = OnStream
  <2>1. \A f : f \in OnStream' <=> f \in OnStream
    BY <1>1, <1>2, <1>3, StreamMember, StreamMemberNext
  <2> QED  BY <2>1
<1>5. \A d \in Callers : Writing(d)' <=> Writing(d)
  BY <1>1, <1>2, <1>3 DEF Writing
<1> QED
  BY <1>1, <1>4, <1>5, FramedSame

\* The server takes a frame that was put, as a whole, and stands at the next one.
LEMMA TakesFramed ==
    ASSUME WireInv, Framed, ServerTakes
    PROVE  Framed'
<1> DEFINE size == wire[srd + 1] * Base + wire[srd + 2]
           g == [at |-> srd, bytes |-> SubSeq(wire, srd + 1, srd + size)]
<1>1. /\ srd + 2 <= Len(wire) /\ srd + size <= Len(wire)
      /\ got' = Append(got, g) /\ srd' = srd + size
      /\ UNCHANGED <<pc, msg, off, at, wire, accepted>>
  BY DEF ServerTakes, caller
<1>2. OnStream' = OnStream /\ \A c \in Callers : Writing(c)' <=> Writing(c)
  BY <1>1 DEF OnStream, Writing, Whole
<1>3. wire \in Seq(Byte) /\ srd \in Nat /\ Len(wire) \in Nat
  BY DEF WireInv, TypeOK
<1>4. PICK f \in OnStream : f.at = srd
  <2>1. srd # Len(wire)
    BY <1>1, <1>3
  <2>2. ASSUME NEW c \in Callers, Writing(c), at[c] = srd  PROVE FALSE
    <3>1. /\ off[c] \in Nat /\ off[c] > 0 /\ msg[c] \in Msgs
          /\ off[c] <= TotalLen(msg[c]) /\ off[c] # TotalLen(msg[c])
      BY <2>2 DEF WireInv, TypeOK, Writing, Whole
    <3>2. srd + off[c] = Len(wire)
      BY <2>2 DEF WireInv, Passed, Writing
    <3>3. \A i \in 1 .. off[c] : wire[srd + i] = Frame(msg[c])[i]
      BY <2>2 DEF WireInv, Passed, Writing
    <3>4. off[c] >= 2
      BY <1>1, <1>3, <3>1, <3>2
    <3>5. wire[srd + 1] = Frame(msg[c])[1] /\ wire[srd + 2] = Frame(msg[c])[2]
      BY <3>1, <3>3, <3>4
    <3>6. size = TotalLen(msg[c])
      BY <3>1, <3>5, FrameFacts
    <3>7. TotalLen(msg[c]) \in Nat
      BY <3>1, LenFacts
    <3> HIDE DEF size
    <3> QED  BY <1>1, <1>3, <3>1, <3>2, <3>6, <3>7, SMTT(40), SMTT(41), ZenonT(30)
  <2> QED  BY <2>1, <2>2 DEF Framed, Boundary
<1>5. /\ f.msg \in Msgs /\ TotalLen(f.msg) \in Nat /\ TotalLen(f.msg) >= 5
      /\ OnWire(f)
  BY StreamFacts
<1>6. \A i \in 1 .. TotalLen(f.msg) : wire[srd + i] = Frame(f.msg)[i]
  BY <1>4, <1>5 DEF OnWire
<1>7. size = TotalLen(f.msg)
  <2>1. wire[srd + 1] = Frame(f.msg)[1] /\ wire[srd + 2] = Frame(f.msg)[2]
    BY <1>5, <1>6
  <2> QED  BY <1>5, <2>1, FrameFacts
<1> HIDE DEF size
<1>8. Is(g, f)
  <2>1. srd \in 0 .. Len(wire) /\ srd + size \in srd .. Len(wire)
    BY <1>1, <1>3, <1>5, <1>7
  <2>2. (srd + size) - srd = size
    BY <1>3, <1>5, <1>7
  <2>3. /\ SubSeq(wire, srd + 1, srd + size) \in Seq(Byte)
        /\ Len(SubSeq(wire, srd + 1, srd + size)) = size
        /\ \A i \in 1 .. size : SubSeq(wire, srd + 1, srd + size)[i] = wire[srd + i]
    BY <1>3, <2>1, <2>2, PartFacts
  <2>4. Frame(f.msg) \in Seq(Byte) /\ Len(Frame(f.msg)) = size
    BY <1>5, <1>7, FrameFacts
  <2>5. SubSeq(wire, srd + 1, srd + size) = Frame(f.msg)
    BY <1>6, <1>7, <2>3, <2>4, SameElements
  <2> QED  BY <1>4, <2>5 DEF Is
<1> HIDE DEF g
<1>9. /\ Len(got') = Len(got) + 1 /\ Len(got) \in Nat
      /\ \A k \in 1 .. Len(got) : got'[k] = got[k]
      /\ got'[Len(got) + 1] = g
  BY <1>1 DEF WireInv, TypeOK
<1>10. \A p : Boundary(p)' <=> Boundary(p)
  BY <1>1, <1>2 DEF Boundary
<1>11. Boundary(srd)'
  BY <1>1, <1>4, <1>7, <1>10 DEF Framed
<1>12. \A e \in OnStream' : Boundary(e.at + TotalLen(e.msg))'
  BY <1>2, <1>10 DEF Framed
<1>13. \A e, h \in OnStream' : Apart(e, h)
  BY <1>2 DEF Framed
<1>14. \A c \in Callers : Writing(c)' =>
          /\ srd' <= at'[c]
          /\ \A e \in OnStream' : e.at + TotalLen(e.msg) <= at'[c]
  BY <1>1, <1>2, <1>4, <1>7 DEF Framed
<1>15. ASSUME NEW k \in 1 .. Len(got')  PROVE \E e \in OnStream' : Is(got'[k], e)
  <2>1. CASE k = Len(got) + 1
    BY <1>2, <1>8, <1>9, <2>1
  <2>2. CASE k \in 1 .. Len(got)
    BY <1>2, <1>9, <2>2 DEF Framed
  <2> QED  BY <1>9, <2>1, <2>2
<1>16. ASSUME NEW e \in OnStream', e.at < srd'  PROVE \E k \in 1 .. Len(got') : Is(got'[k], e)
  <2>1. /\ e \in OnStream /\ e.at \in Nat /\ TotalLen(e.msg) \in Nat
        /\ TotalLen(e.msg) >= 5 /\ Apart(f, e)
    BY <1>2, StreamFacts DEF Framed
  <2>2. CASE e = f
    BY <1>8, <1>9, <2>2
  <2>3. CASE e # f
    <3>1. e.at < srd
      BY <1>1, <1>3, <1>4, <1>5, <1>7, <1>16, <2>1, <2>3 DEF Apart
    <3>2. PICK k \in 1 .. Len(got) : Is(got[k], e)
      BY <2>1, <3>1 DEF Framed
    <3>3. k \in 1 .. Len(got')
      BY <1>9
    <3> QED  BY <1>9, <3>2, <3>3
  <2> QED  BY <2>2, <2>3
<1> QED
  BY <1>11, <1>12, <1>13, <1>14, <1>15, <1>16 DEF Framed, Apart, Is

\* The bytes that a writev() passes on begin a frame behind the others, continue it
\* or complete it.
LEMMA PassFramed ==
    ASSUME WireInv, WireInv', Framed, NEW c \in Callers, Pass(c)
    PROVE  Framed'
<1> DEFINE p == at'[c]
           g == [msg |-> msg[c], at |-> p]
<1>1. PICK n \in 1 .. TotalLen(msg[c]) - off[c] :
          /\ wire' = wire \o SubSeq(Frame(msg[c]), off[c] + 1, off[c] + n)
          /\ off' = [off EXCEPT ![c] = @ + n]
  BY DEF Pass
<1>2. /\ off[c] \in Nat /\ n \in Nat /\ n > 0
      /\ TotalLen(msg[c]) \in Nat /\ off[c] + n <= TotalLen(msg[c])
      /\ Len(wire) \in Nat /\ Len(wire') = Len(wire) + n
  BY <1>1, Piece DEF WireInv
<1>3. /\ pc[c] = "writev" /\ Runs(c)
      /\ UNCHANGED <<pc, msg, accepted, got, srd>>
  BY DEF Pass, remote
<1>4. /\ off'[c] = off[c] + n
      /\ \A d \in Callers : d # c => off'[d] = off[d] /\ at'[d] = at[d]
  BY <1>1 DEF WireInv, TypeOK, Pass
<1>5. ~Whole(c) /\ Whole(c)' <=> off[c] + n = TotalLen(msg[c])
  BY <1>2, <1>3, <1>4 DEF Whole
<1>6. \A d \in Callers : d # c => /\ ~Writing(d) /\ ~Writing(d)'
                                  /\ Whole(d)' <=> Whole(d)
  <2>1. ASSUME NEW d \in Callers, d # c
        PROVE  ~Writing(d) /\ ~Writing(d)' /\ (Whole(d)' <=> Whole(d))
    <3>1. ~(pc[d] = "writev" /\ off[d] > 0)
      BY <1>3, <2>1, OneWriter
    <3> QED  BY <1>3, <1>4, <2>1, <3>1 DEF Writing, Whole
  <2> QED  BY <2>1
<1>7. /\ off[c] = 0 => p = Len(wire)
      /\ off[c] > 0 => p = at[c] /\ Writing(c)
  <2>1. at \in [Callers -> Nat] /\ at' = IF off[c] = 0 THEN [at EXCEPT ![c] = Len(wire)] ELSE at
    BY DEF WireInv, TypeOK, Pass
  <2>2. off[c] > 0 => Writing(c)
    BY <1>2, <1>3 DEF Writing, Whole
  <2>3. off[c] > 0 => off[c] # 0
    BY <1>2
  <2> QED  BY <2>1, <2>2, <2>3
<1>8. p \in Nat /\ p + off'[c] = Len(wire')
  <2>1. p \in Nat
    BY DEF WireInv, TypeOK
  <2>2. Passed(c)'
    BY DEF WireInv
  <2>3. off'[c] > 0 /\ pc'[c] = "writev"
    BY <1>2, <1>3, <1>4
  <2> QED  BY <2>1, <2>2, <2>3 DEF Passed
<1>9. Whole(c)' \/ Writing(c)'
  BY <1>2, <1>3, <1>4 DEF Writing
<1>10. ASSUME NEW f
       PROVE  f \in OnStream' <=> f \in OnStream \/ (Whole(c)' /\ f = g)
  <2>1. \A d \in Callers : d # c =>
           (/\ pc'[d] # "idle" /\ Whole(d)' /\ f = [msg |-> msg'[d], at |-> at'[d]]
            <=> pc[d] # "idle" /\ Whole(d) /\ f = [msg |-> msg[d], at |-> at[d]])
    BY <1>3, <1>4, <1>6
  <2>2. ~Whole(c)
    BY <1>2 DEF Whole
  <2>3. f \in OnStream' <=>
             \/ \E k \in 1 .. Len(accepted) : f = accepted[k]
             \/ \E d \in Callers : /\ pc'[d] # "idle" /\ Whole(d)'
                                   /\ f = [msg |-> msg'[d], at |-> at'[d]]
    BY <1>3, StreamMemberNext
  <2>4. f \in OnStream <=>
             \/ \E k \in 1 .. Len(accepted) : f = accepted[k]
             \/ \E d \in Callers : pc[d] # "idle" /\ Whole(d) /\ f = [msg |-> msg[d], at |-> at[d]]
    BY StreamMember
  <2>5. g = [msg |-> msg'[c], at |-> at'[c]] /\ pc'[c] # "idle"
    BY <1>3
  <2> HIDE DEF g
  <2> QED  BY <2>1, <2>2, <2>3, <2>4, <2>5
<1>11. srd <= p
  <2>1. off[c] > 0 => srd <= at[c]
    BY <1>7 DEF Framed
  <2>2. srd \in Nat /\ srd <= Len(wire)
    BY <1>2 DEF WireInv, TypeOK
  <2> QED  BY <1>2, <1>7, <2>1, <2>2
<1>12. \A f \in OnStream : f.at + TotalLen(f.msg) <= p
  BY <1>2, <1>7, StreamFacts DEF Framed, OnWire
<1> HIDE DEF g, p
<1>13. ASSUME NEW q, Boundary(q)  PROVE (\E f \in OnStream : f.at = q) \/ q = p
  BY <1>2, <1>6, <1>7, <1>13 DEF Boundary, Writing
<1>14. ASSUME NEW q, Boundary(q)  PROVE Boundary(q)'
  <2>1. CASE \E f \in OnStream : f.at = q
    BY <1>10, <2>1 DEF Boundary
  <2>2. CASE q = p
    <3>1. g.at = p /\ at'[c] = p
      BY DEF g, p
    <3>2. Whole(c)' => g \in OnStream'
      BY <1>10
    <3>3. CASE Whole(c)'
      BY <2>2, <3>1, <3>2, <3>3 DEF Boundary
    <3>4. CASE Writing(c)'
      BY <2>2, <3>1, <3>4 DEF Boundary
    <3> QED  BY <1>9, <3>3, <3>4
  <2> QED  BY <1>13, <1>14, <2>1, <2>2
<1>15. Boundary(srd)'
  BY <1>3, <1>14 DEF Framed
<1>16. ASSUME NEW f \in OnStream'  PROVE Boundary(f.at + TotalLen(f.msg))'
  <2>1. CASE f \in OnStream
    BY <1>14, <2>1 DEF Framed
  <2>2. CASE Whole(c)' /\ f = g
    <3>1. f.at + TotalLen(f.msg) = Len(wire')
      BY <1>3, <1>8, <2>2 DEF Whole, g
    <3>2. ~Writing(c)'
      BY <2>2 DEF Writing
    <3> QED  BY <1>6, <3>1, <3>2 DEF Boundary
  <2> QED  BY <1>10, <2>1, <2>2
<1>17. ASSUME NEW f \in OnStream', NEW h \in OnStream'  PROVE Apart(f, h)
  <2>1. g.at = p
    BY DEF g
  <2> QED  BY <1>10, <1>12, <2>1 DEF Framed, Apart
<1>18. ASSUME NEW d \in Callers, Writing(d)'
       PROVE  srd' <= at'[d] /\ \A f \in OnStream' : f.at + TotalLen(f.msg) <= at'[d]
  <2>1. d = c /\ ~Whole(c)'
    BY <1>6, <1>18 DEF Writing
  <2> QED  BY <1>3, <1>10, <1>11, <1>12, <2>1 DEF p
<1>19. \A k \in 1 .. Len(got') : \E f \in OnStream' : Is(got'[k], f)
  BY <1>3, <1>10 DEF Framed
<1>20. ASSUME NEW f \in OnStream', f.at < srd'  PROVE \E k \in 1 .. Len(got') : Is(got'[k], f)
  <2>1. f # g
    BY <1>3, <1>8, <1>11, <1>20 DEF g, p, WireInv, TypeOK
  <2> QED  BY <1>3, <1>10, <1>20, <2>1 DEF Framed
<1> QED
  BY <1>15, <1>16, <1>17, <1>18, <1>19, <1>20 DEF Framed, Apart, Is

\* No step disturbs the order of the stream, unless it cuts it.
LEMMA FramedStep ==
    ASSUME WireInv, WireInv', [Next]_vars, ~Cut', Framed
    PROVE  Framed'
<1>1. ASSUME NEW c \in Callers, Overflow(c)  PROVE Framed'
  BY <1>1 DEF Overflow, Cut
<1>2. CASE Break \/ Lose \/ UNCHANGED vars
  <2>1. UNCHANGED <<pc, msg, off, at, wire, accepted, got, srd>>
    BY <1>2, Zenon DEF Break, Lose, vars, caller, remote
  <2>2. OnStream' = OnStream /\ \A c \in Callers : Writing(c)' <=> Writing(c)
    BY <2>1 DEF OnStream, Writing, Whole
  <2> QED  BY <2>1, <2>2, FramedSame
<1> QED
  BY <1>1, <1>2, PutFramed, PassFramed, ReturnFramed, SuccessFramed, FailFramed, TakesFramed
     DEF Next, Return

LEMMA StepInv == IInv /\ [Next]_vars => IInv'
BY WireStep, CutStays, FramedStep DEF IInv

LEMMA InitInv == Init => IInv
<1> SUFFICES ASSUME Init  PROVE IInv
  OBVIOUS
<1>1. /\ puts = 0 /\ pc = [c \in Callers |-> "idle"]
      /\ off = [c \in Callers |-> 0] /\ at = [c \in Callers |-> 0]
      /\ result = [c \in Callers |-> "OK"]
      /\ wire = <<>> /\ conn = "up" /\ accepted = <<>> /\ overflow = FALSE
      /\ got = <<>> /\ srd = 0 /\ lost = FALSE
  BY DEF Init
<1>2. msg \in [Callers -> Msgs]
  <2>1. (CHOOSE m \in Msgs : TRUE) \in Msgs
    BY SendAssumption
  <2> QED  BY <2>1 DEF Init
<1>3. \A c \in Callers : off[c] <= TotalLen(msg[c])
  BY <1>1, <1>2, LenFacts
<1>4. TypeOK
  <2>1. MaxPuts \in Nat /\ puts \in 0 .. MaxPuts
    BY <1>1, SendAssumption
  <2>2. wire \in Seq(Byte) /\ srd \in 0 .. Len(wire)
    BY <1>1
  <2>3. accepted \in Seq([msg : Msgs, at : Nat]) /\ got \in Seq([at : Nat, bytes : Seq(Byte)])
    BY <1>1
  <2>4. off \in [Callers -> Nat] /\ at \in [Callers -> Nat]
    BY <1>1
  <2>5. pc \in [Callers -> {"idle", "writev", "done"}] /\ result \in [Callers -> Codes \cup {"OK"}]
    BY <1>1
  <2> QED  BY <1>1, <1>2, <1>3, <2>1, <2>2, <2>3, <2>4, <2>5 DEF TypeOK
<1>5. WireInv
  <2>1. Interrupted /\ \A c \in Callers : Passed(c)
    BY <1>1 DEF Interrupted, Passed, Callers
  <2>2. Len(accepted) = 0
    BY <1>1
  <2>3. AcceptedOnWire
    BY <2>2 DEF AcceptedOnWire
  <2> QED  BY <1>4, <2>1, <2>3 DEF WireInv
<1>6. OnStream = {} /\ \A c \in Callers : ~Writing(c)
  BY <1>1 DEF OnStream, Writing
<1>7. Framed
  BY <1>1, <1>6 DEF Framed, Boundary
<1> QED
  BY <1>5, <1>7 DEF IInv

--------------------------------------------------------------------------------
(* The theorems *)

\* The inductive invariant holds of every reachable state: capi2_put_message and
\* the signal handler's call never disturb it, whatever writev() takes.
THEOREM Invariance == Spec => []IInv
<1> QED
  BY InitInv, StepInv, PTL DEF Spec

\* The variables keep their types: the state that RcapiSend speaks of is all that
\* capi2_put_message and its two callers reach.
THEOREM TypeCorrect == Spec => []TypeOK
<1>1. IInv => TypeOK
  BY DEF IInv, WireInv
<1> QED
  BY <1>1, Invariance, PTL

\* The frame of every put that returned 0 is on the stream in one piece, whenever
\* the signal came and however often writev() took only a part.
THEOREM FramesInOnePiece == Spec => []InOnePiece
<1>1. IInv => InOnePiece
  <2> SUFFICES ASSUME IInv  PROVE InOnePiece
    OBVIOUS
  <2>1. TypeOK /\ AcceptedOnWire
    BY DEF IInv, WireInv
  <2>2. ASSUME NEW k \in 1 .. Len(accepted)
        PROVE  LET a == accepted[k]
               IN  /\ a.at + TotalLen(a.msg) <= Len(wire)
                   /\ SubSeq(wire, a.at + 1, a.at + TotalLen(a.msg)) = Frame(a.msg)
    <3> DEFINE a == accepted[k]
               size == TotalLen(a.msg)
    <3>1. a \in [msg : Msgs, at : Nat]
      BY <2>1, Element DEF TypeOK
    <3>2. a.msg \in Msgs /\ a.at \in Nat /\ size \in Nat /\ wire \in Seq(Byte)
      BY <2>1, <3>1, LenFacts DEF TypeOK
    <3>3. a.at + size <= Len(wire) /\ \A i \in 1 .. size : wire[a.at + i] = Frame(a.msg)[i]
      BY <2>1 DEF AcceptedOnWire, OnWire
    <3>4. Frame(a.msg) \in Seq(Byte) /\ Len(Frame(a.msg)) = size
      BY <3>2, FrameFacts
    <3> HIDE DEF a, size
    <3>5. a.at \in 0 .. Len(wire) /\ a.at + size \in a.at .. Len(wire)
      BY <3>2, <3>3
    <3>6. (a.at + size) - a.at = size
      BY <3>2
    <3>7. /\ SubSeq(wire, a.at + 1, a.at + size) \in Seq(Byte)
          /\ Len(SubSeq(wire, a.at + 1, a.at + size)) = size
          /\ \A i \in 1 .. size : SubSeq(wire, a.at + 1, a.at + size)[i] = wire[a.at + i]
      BY <3>2, <3>5, <3>6, PartFacts, ZenonT(30)
    <3>8. SubSeq(wire, a.at + 1, a.at + size) = Frame(a.msg)
      BY <3>3, <3>4, <3>7, SameElements
    <3> QED  BY <3>3, <3>8 DEF a, size
  <2> QED  BY <2>1, <2>2 DEF InOnePiece
<1> QED
  BY <1>1, Invariance, PTL

\* As long as no put has reported MSG_QUEUE_OVERFLOW the server takes what was put
\* and nothing else, and leaves no message out: the other errors of
\* capi2_put_message leave the stream in order.
THEOREM ServerStaysInStep == Spec => []ServerInStep
<1>1. IInv => ServerInStep
  BY DEF IInv, Framed, ServerInStep
<1> QED
  BY <1>1, Invariance, PTL

\* A call that has got bytes on the stream completes the frame or reports
\* MSG_QUEUE_OVERFLOW: the switch over errno and the repeated writev() are
\* reached only by a call that has done nothing.
THEOREM SentOnce == Spec => NeverSentTwice
<1> DEFINE Kept(c) ==
              pc[c] # "idle" /\ off[c] > 0 =>
                  /\ off'[c] >= off[c] /\ at'[c] = at[c]
                  /\ pc'[c] = "idle" => result'[c] = IF Whole(c) THEN "OK" ELSE "MSG_QUEUE_OVERFLOW"
<1>1. ASSUME TypeOK, [Next]_vars, NEW c \in Callers, pc[c] # "idle", off[c] > 0
      PROVE  /\ off'[c] >= off[c] /\ at'[c] = at[c]
             /\ pc'[c] = "idle" => result'[c] = IF Whole(c) THEN "OK" ELSE "MSG_QUEUE_OVERFLOW"
  <2>1. off[c] \in Nat /\ off[c] # 0
    BY <1>1 DEF TypeOK
  <2>2. CASE UNCHANGED <<pc, off, at>>
    BY <1>1, <2>1, <2>2
  <2>3. ASSUME NEW d \in Callers, NEW m \in Msgs, Put(d, m)
        PROVE  off'[c] = off[c] /\ at'[c] = at[c] /\ pc'[c] # "idle"
    BY <1>1, <2>3 DEF TypeOK, Put
  <2>4. ASSUME NEW d \in Callers, Pass(d)
        PROVE  off'[c] >= off[c] /\ at'[c] = at[c] /\ pc'[c] # "idle"
    <3>1. PICK n \in 1 .. TotalLen(msg[d]) - off[d] : off' = [off EXCEPT ![d] = @ + n]
      BY <2>4 DEF Pass
    <3>2. n \in Nat /\ off[d] \in Nat
      BY <1>1, <3>1, Piece
    <3>3. off'[c] >= off[c]
      BY <1>1, <2>1, <3>1, <3>2 DEF TypeOK
    <3> QED  BY <1>1, <2>1, <2>4, <3>3 DEF TypeOK, Pass
  <2>5. ASSUME NEW d \in Callers, WritevReturns(d)
        PROVE  off'[c] = off[c] /\ at'[c] = at[c] /\ pc'[c] # "idle"
    BY <1>1, <2>5 DEF TypeOK, WritevReturns
  <2>6. ASSUME NEW d \in Callers, Return(d)
        PROVE  /\ off'[c] = off[c] /\ at'[c] = at[c]
               /\ pc'[c] = "idle" => result'[c] = IF Whole(c) THEN "OK" ELSE "MSG_QUEUE_OVERFLOW"
    <3>1. CASE d = c
      BY <1>1, <2>1, <2>6, <3>1 DEF TypeOK, Return, Success, Overflow, Fail
    <3>2. CASE d # c
      BY <1>1, <2>6, <3>2 DEF TypeOK, Return, Success, Overflow, Fail
    <3> QED  BY <3>1, <3>2
  <2>7. CASE ServerTakes \/ Break \/ Lose \/ UNCHANGED vars
    <3>1. UNCHANGED <<pc, off, at>>
      BY <2>7, Zenon DEF ServerTakes, Break, Lose, vars, caller
    <3> QED  BY <2>2, <3>1
  <2> QED  BY <1>1, <2>1, <2>3, <2>4, <2>5, <2>6, <2>7 DEF Next
<1>2. TypeOK /\ [Next]_vars => [\A c \in Callers : Kept(c)]_vars
  BY <1>1
<1> QED
  BY <1>2, TypeCorrect, PTL DEF Spec, NeverSentTwice
================================================================================
