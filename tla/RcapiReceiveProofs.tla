-------------------------- MODULE RcapiReceiveProofs ---------------------------
(****************************************************************************)
(* Proofs about RcapiReceive, for every Base, every set of messages and     *)
(* every number of frames: the inductive invariant IInv, from it TypeOK,    *)
(* InOrder, FrameSync, WithinFrame and BuffersFit, and that                 *)
(* capi2_get_message refines CapiQueue.                                     *)
(****************************************************************************)
EXTENDS RcapiReceive, TLAPS

--------------------------------------------------------------------------------
(* Bytes of a stream, and pieces of it *)

\* An element of a sequence, and sequences with the same elements.
LEMMA Element ==
    ASSUME NEW S, NEW s \in Seq(S), NEW i \in 1 .. Len(s)
    PROVE  s[i] \in S
OBVIOUS

LEMMA SameElements ==
    ASSUME NEW S, NEW s \in Seq(S), NEW t \in Seq(S), Len(s) = Len(t),
           \A i \in 1 .. Len(s) : s[i] = t[i]
    PROVE  s = t
OBVIOUS

\* A read continues the bytes of the reads before it.
LEMMA Continue ==
    ASSUME NEW S, NEW s \in Seq(S), NEW a \in 0 .. Len(s), NEW b \in a .. Len(s),
           NEW c \in b .. Len(s)
    PROVE  SubSeq(s, a + 1, b) \o SubSeq(s, b + 1, c) = SubSeq(s, a + 1, c)
OBVIOUS

\* Bytes already read stay what they are when the stream changes behind them.
LEMMA SamePart ==
    ASSUME NEW S, NEW s \in Seq(S), NEW t \in Seq(S), NEW a \in Nat, NEW b \in Nat,
           b <= Len(s), b <= Len(t), \A i \in 1 .. b : t[i] = s[i]
    PROVE  SubSeq(t, a + 1, b) = SubSeq(s, a + 1, b)
OBVIOUS

\* Two bytes hold a number below b * b.
LEMMA TwoDigits ==
    ASSUME NEW b \in Nat, b >= 2, NEW x \in Nat, x < b * b
    PROVE  /\ ((x \div b) % b) * b + (x % b) = x
           /\ (x \div b) % b \in 0 .. b - 1 /\ x % b \in 0 .. b - 1
BY SMTT(30)

--------------------------------------------------------------------------------
(* Bytes of the stream, and the frame of a message *)

\* What is put behind the stream, and a piece of it.
LEMMA ConcatFacts ==
    ASSUME NEW s \in Seq(Byte), NEW t \in Seq(Byte)
    PROVE  /\ s \o t \in Seq(Byte)
           /\ Len(s \o t) = Len(s) + Len(t)
           /\ \A i \in 1 .. Len(s) : (s \o t)[i] = s[i]
           /\ \A i \in 1 .. Len(t) : (s \o t)[Len(s) + i] = t[i]
OBVIOUS

LEMMA PartFacts ==
    ASSUME NEW s \in Seq(Byte), NEW a \in 0 .. Len(s), NEW c \in a .. Len(s)
    PROVE  /\ SubSeq(s, a + 1, c) \in Seq(Byte)
           /\ Len(SubSeq(s, a + 1, c)) = c - a
           /\ \A i \in 1 .. c - a : SubSeq(s, a + 1, c)[i] = s[a + i]
OBVIOUS

\* The lengths of a message of the protocol.
LEMMA LenFacts ==
    ASSUME NEW m \in Msgs
    PROVE  /\ m \in MsgType
           /\ ProtLen(m) \in Nat /\ DataLen(m) \in Nat /\ TotalLen(m) \in Nat
           /\ ProtLen(m) >= 3
           /\ TotalLen(m) = 2 + ProtLen(m) + DataLen(m)
           /\ TotalLen(m) < Base * Base /\ ProtLen(m) < Base * Base
           /\ m.prim # DATAB3 => m.data = <<>>
<1>1. m \in MsgType /\ TotalLen(m) < Base * Base /\ (m.prim # DATAB3 => m.data = <<>>)
  BY FrameAssumption
<1>2. ProtLen(m) \in Nat /\ ProtLen(m) >= 3 /\ DataLen(m) \in Nat
  BY <1>1 DEF MsgType, ProtLen, DataLen
<1>3. TotalLen(m) = 2 + ProtLen(m) + DataLen(m)
  BY DEF TotalLen
<1> QED  BY <1>1, <1>2, <1>3, FrameAssumption

\* The frame, byte by byte.
LEMMA FrameFacts ==
    ASSUME NEW m \in Msgs
    PROVE  /\ Frame(m) \in Seq(Byte)
           /\ Len(Frame(m)) = TotalLen(m)
           /\ Frame(m)[1] * Base + Frame(m)[2] = TotalLen(m)
           /\ Frame(m)[4] * Base + Frame(m)[3] = ProtLen(m)
           /\ Frame(m)[5] = m.prim
           /\ \A i \in 1 .. ProtLen(m) - 3 : Frame(m)[5 + i] = m.par[i]
           /\ \A i \in 1 .. DataLen(m) : Frame(m)[2 + ProtLen(m) + i] = m.data[i]
<1> DEFINE h == <<High(TotalLen(m)), Low(TotalLen(m)),
                  Low(ProtLen(m)), High(ProtLen(m)), m.prim>>
           hp == h \o m.par
<1>1. m.prim \in Byte /\ m.par \in Seq(Byte) /\ m.data \in Seq(Byte)
  BY LenFacts DEF MsgType
<1>2. /\ High(TotalLen(m)) * Base + Low(TotalLen(m)) = TotalLen(m)
      /\ High(ProtLen(m)) * Base + Low(ProtLen(m)) = ProtLen(m)
      /\ High(TotalLen(m)) \in Byte /\ Low(TotalLen(m)) \in Byte
      /\ High(ProtLen(m)) \in Byte /\ Low(ProtLen(m)) \in Byte
  BY FrameAssumption, TwoDigits, LenFacts DEF High, Low, Byte
<1>3. h \in Seq(Byte) /\ Len(h) = 5
  BY <1>1, <1>2
<1>4. Len(m.par) = ProtLen(m) - 3 /\ Len(m.data) = DataLen(m)
  BY <1>1 DEF ProtLen, DataLen
<1>5. /\ hp \in Seq(Byte) /\ Len(hp) = 2 + ProtLen(m)
      /\ \A i \in 1 .. 5 : hp[i] = h[i]
      /\ \A i \in 1 .. ProtLen(m) - 3 : hp[5 + i] = m.par[i]
  <2> HIDE DEF h
  <2>1. hp \in Seq(Byte) /\ Len(hp) = Len(h) + Len(m.par)
    BY <1>1, <1>3, ConcatFacts
  <2>2. \A i \in 1 .. Len(h) : hp[i] = h[i]
    BY <1>1, <1>3, ConcatFacts
  <2>3. \A i \in 1 .. Len(m.par) : hp[Len(h) + i] = m.par[i]
    BY <1>1, <1>3, ConcatFacts
  <2> HIDE DEF hp
  <2>4. Len(hp) = 2 + ProtLen(m)
    BY <1>3, <1>4, <2>1, LenFacts
  <2> QED  BY <1>3, <1>4, <2>1, <2>2, <2>3, <2>4
<1>6. /\ Frame(m) = hp \o m.data
      /\ Frame(m) \in Seq(Byte) /\ Len(Frame(m)) = TotalLen(m)
      /\ \A i \in 1 .. 2 + ProtLen(m) : Frame(m)[i] = hp[i]
      /\ \A i \in 1 .. DataLen(m) : Frame(m)[2 + ProtLen(m) + i] = m.data[i]
  <2>1. Frame(m) = hp \o m.data
    BY DEF Frame
  <2> HIDE DEF hp
  <2>2. hp \o m.data \in Seq(Byte) /\ Len(hp \o m.data) = Len(hp) + Len(m.data)
    BY <1>1, <1>5, ConcatFacts
  <2>3. \A i \in 1 .. Len(hp) : (hp \o m.data)[i] = hp[i]
    BY <1>1, <1>5, ConcatFacts
  <2>4. \A i \in 1 .. Len(m.data) : (hp \o m.data)[Len(hp) + i] = m.data[i]
    BY <1>1, <1>5, ConcatFacts
  <2>5. Len(hp) = 2 + ProtLen(m) /\ TotalLen(m) = Len(hp) + DataLen(m)
    BY <1>5, LenFacts
  <2> QED  BY <1>4, <2>1, <2>2, <2>3, <2>4, <2>5
<1>7. /\ Frame(m)[1] = High(TotalLen(m)) /\ Frame(m)[2] = Low(TotalLen(m))
      /\ Frame(m)[3] = Low(ProtLen(m)) /\ Frame(m)[4] = High(ProtLen(m))
      /\ Frame(m)[5] = m.prim
  <2>1. \A i \in 1 .. 5 : Frame(m)[i] = h[i]
    <3> HIDE DEF h, hp
    <3> QED  BY <1>5, <1>6, LenFacts
  <2> QED  BY <2>1
<1>8. \A i \in 1 .. ProtLen(m) - 3 : Frame(m)[5 + i] = m.par[i]
  <2> HIDE DEF h, hp
  <2> QED  BY <1>5, <1>6, LenFacts
<1> QED  BY <1>2, <1>6, <1>7, <1>8

--------------------------------------------------------------------------------
(* The messages *)

\* The message the application gets is the message whose frame was read.
LEMMA ReceivedFacts ==
    ASSUME NEW m \in Msgs, NEW c \in Seq(Byte), NEW d \in Seq(Byte),
           Len(c) = ProtLen(m), \A i \in 1 .. ProtLen(m) : c[i] = Frame(m)[2 + i],
           Len(d) = DataLen(m),
           \A i \in 1 .. DataLen(m) : d[i] = Frame(m)[2 + ProtLen(m) + i]
    PROVE  Received(c, d) = m
<1>1. /\ m \in MsgType /\ ProtLen(m) \in Nat /\ ProtLen(m) >= 3
      /\ m.par \in Seq(Byte) /\ m.data \in Seq(Byte)
  BY LenFacts DEF MsgType
<1>2. Len(m.par) = ProtLen(m) - 3 /\ Len(m.data) = DataLen(m)
  BY <1>1 DEF ProtLen, DataLen
<1>3. c[3] = m.prim
  <2>1. Frame(m)[5] = m.prim
    BY FrameFacts
  <2> QED  BY <1>1, <2>1
<1>4. SubSeq(c, 4, Len(c)) = m.par
  <2>1. \A i \in 1 .. ProtLen(m) - 3 : c[3 + i] = m.par[i]
    <3>1. \A i \in 1 .. ProtLen(m) - 3 : Frame(m)[5 + i] = m.par[i]
      BY FrameFacts
    <3>2. \A i \in 1 .. ProtLen(m) - 3 : c[3 + i] = Frame(m)[2 + (3 + i)]
      BY <1>1
    <3> QED  BY <1>1, <3>1, <3>2
  <2> DEFINE p == m.par
  <2>2. p \in Seq(Byte) /\ Len(p) = Len(c) - 3 /\ \A i \in 1 .. Len(c) - 3 : c[3 + i] = p[i]
    BY <1>1, <1>2, <2>1
  <2> HIDE DEF p
  <2>3. /\ SubSeq(c, 3 + 1, Len(c)) \in Seq(Byte)
        /\ Len(SubSeq(c, 3 + 1, Len(c))) = Len(c) - 3
        /\ \A i \in 1 .. Len(c) - 3 : SubSeq(c, 3 + 1, Len(c))[i] = c[3 + i]
    <3>1. 3 \in 0 .. Len(c) /\ Len(c) \in 3 .. Len(c)
      BY <1>1
    <3> QED  BY <3>1, PartFacts
  <2>4. SubSeq(c, 3 + 1, Len(c)) = p
    BY <2>2, <2>3, SameElements
  <2> QED  BY <2>4 DEF p
<1>5. d = m.data
  <2>1. \A i \in 1 .. DataLen(m) : d[i] = m.data[i]
    BY FrameFacts
  <2> DEFINE e == m.data
  <2>2. e \in Seq(Byte) /\ Len(e) = Len(d) /\ \A i \in 1 .. Len(d) : d[i] = e[i]
    BY <1>1, <1>2, <2>1
  <2> HIDE DEF e
  <2>3. d = e
    BY <2>2
  <2> QED  BY <2>3 DEF e
<1> QED
  BY <1>1, <1>3, <1>4, <1>5 DEF Received, MsgType

--------------------------------------------------------------------------------
(* The stream *)

\* Frames lie one behind the other.
LEMMA EndFacts ==
    ASSUME TypeOK, StreamInv
    PROVE  /\ FrameEnd(0) = 0
           /\ \A k \in 1 .. Len(sent) :
                 /\ sent[k].msg \in Msgs
                 /\ sent[k].at \in Nat
                 /\ sent[k].at = FrameEnd(k - 1)
                 /\ FrameEnd(k) = FrameEnd(k - 1) + TotalLen(sent[k].msg)
           /\ \A k \in 0 .. Len(sent) : FrameEnd(k) \in Nat
<1>1. FrameEnd(0) = 0
  BY DEF FrameEnd
<1>2. ASSUME NEW k \in 1 .. Len(sent)
      PROVE  /\ sent[k].msg \in Msgs /\ sent[k].at \in Nat
             /\ sent[k].at = FrameEnd(k - 1)
             /\ FrameEnd(k) = sent[k].at + TotalLen(sent[k].msg)
  <2>1. sent[k] \in [at : Nat, msg : Msgs]
    <3>1. sent \in Seq([at : Nat, msg : Msgs])
      BY DEF TypeOK
    <3> QED  BY <3>1, Element
  <2>2. sent[k].at = FrameEnd(k - 1)
    BY DEF StreamInv
  <2>3. FrameEnd(k) = sent[k].at + TotalLen(sent[k].msg)
    BY DEF FrameEnd
  <2> QED  BY <2>1, <2>2, <2>3
<1>3. \A k \in 0 .. Len(sent) : FrameEnd(k) \in Nat
  <2>1. ASSUME NEW k \in 1 .. Len(sent) PROVE FrameEnd(k) \in Nat
    <3>1. sent[k].at \in Nat /\ TotalLen(sent[k].msg) \in Nat
      BY <1>2, LenFacts
    <3>2. FrameEnd(k) = sent[k].at + TotalLen(sent[k].msg)
      BY <1>2
    <3> QED  BY <3>1, <3>2
  <2>2. Len(sent) \in Nat
    BY DEF TypeOK
  <2> QED  BY <1>1, <2>1, <2>2
<1> QED
  BY <1>1, <1>2, <1>3

\* While a message is outstanding, what is on the stream behind the client's
\* frames is the frame of that message.
LEMMA CurrentFacts ==
    ASSUME TypeOK, StreamInv, InOrder, Len(delivered) < Len(sent)
    PROVE  /\ Current \in Msgs /\ Begin \in Nat
           /\ FrameEnd(Len(delivered) + 1) = Begin + TotalLen(Current)
           /\ \A i \in 1 .. TotalLen(Current) :
                 Begin + i <= Len(wire) => wire[Begin + i] = Frame(Current)[i]
<1> DEFINE n == Len(delivered)
<1>1. n \in Nat /\ n + 1 \in 1 .. Len(sent) /\ n \in 0 .. Len(sent) /\ (n + 1) - 1 = n
  BY DEF TypeOK
<1>2. Current \in Msgs /\ sent[n + 1].at = Begin /\ Begin \in Nat
      /\ FrameEnd(n + 1) = Begin + TotalLen(Current)
  <2> HIDE DEF n
  <2>1. /\ sent[n + 1].msg \in Msgs /\ sent[n + 1].at = FrameEnd(n)
        /\ FrameEnd(n + 1) = FrameEnd(n) + TotalLen(sent[n + 1].msg)
        /\ FrameEnd(n) \in Nat
    BY <1>1, EndFacts
  <2> QED  BY <2>1 DEF Current, Begin, n
<1>3. \A i \in 1 .. TotalLen(sent[n + 1].msg) :
         sent[n + 1].at + i <= Len(wire) =>
             wire[sent[n + 1].at + i] = Frame(sent[n + 1].msg)[i]
  <2> HIDE DEF n
  <2> QED  BY <1>1 DEF StreamInv
<1> QED
  BY <1>2, <1>3 DEF Current

\* If there is a byte to read between two calls, a message is outstanding.
LEMMA Outstanding ==
    ASSUME TypeOK, StreamInv, InOrder, FrameSync, pc = "idle", rd < arrived
    PROVE  Len(delivered) < Len(sent)
<1>1. rd = FrameEnd(Len(delivered)) /\ rd < Len(wire) /\ Len(wire) <= FrameEnd(Len(sent))
  <2>1. rd = FrameEnd(Len(delivered)) /\ Len(wire) <= FrameEnd(Len(sent))
    BY DEF FrameSync, StreamInv
  <2>2. rd \in Int /\ arrived \in Int /\ Len(wire) \in Nat /\ rd < Len(wire)
    BY DEF TypeOK
  <2> QED  BY <2>1, <2>2
<1>2. CASE Len(delivered) = Len(sent)
  <2>1. FrameEnd(Len(sent)) \in Nat /\ Len(wire) \in Nat
    BY EndFacts DEF TypeOK
  <2> QED  BY <1>1, <1>2, <2>1
<1> QED
  BY <1>2 DEF InOrder, TypeOK

--------------------------------------------------------------------------------
(* The inductive step *)

\* What only the server changes.
LEMMA ServerSame ==
    ASSUME StreamInv, UNCHANGED server
    PROVE  StreamInv' /\ \A k : FrameEnd(k)' = FrameEnd(k)
BY DEF StreamInv, server, FrameEnd

\* A read() that continues what has been stored from place a of the stream on.
LEMMA ReadFacts ==
    ASSUME TypeOK, UNCHANGED <<server, arrived>>, NEW n \in Chunks(rSize), ReadBytes(n),
           NEW a \in Nat, rd = a + Len(buf), buf = SubSeq(wire, a + 1, rd)
    PROVE  /\ rd' = a + Len(buf') /\ buf' = SubSeq(wire', a + 1, rd')
           /\ Len(buf') + rSize' = Len(buf) + rSize
           /\ rd' \in 0 .. arrived' /\ rSize' \in Nat /\ buf' \in Seq(Byte)
<1>1. /\ n \in Nat /\ n <= rSize /\ rd + n <= arrived /\ rSize \in Nat
      /\ rd' = rd + n /\ rSize' = rSize - n
      /\ buf' = buf \o SubSeq(wire, rd + 1, rd + n)
      /\ wire' = wire /\ arrived' = arrived
      /\ wire \in Seq(Byte) /\ rd \in Nat /\ arrived \in Nat
      /\ arrived <= Len(wire) /\ Len(wire) \in Nat
      /\ buf \in Seq(Byte) /\ Len(buf) \in Nat
  BY SMTT(30) DEF Chunks, ReadBytes, TypeOK, server
<1>2. a \in 0 .. Len(wire) /\ rd \in a .. Len(wire) /\ rd + n \in rd .. Len(wire)
      /\ rd + n \in a .. Len(wire)
  BY <1>1
<1>3. buf' = SubSeq(wire, a + 1, rd + n)
  BY <1>1, <1>2, Continue
<1>4. buf' \in Seq(Byte) /\ Len(buf') = (rd + n) - a
  BY <1>1, <1>2, <1>3, PartFacts
<1>5. Len(buf') + rSize' = Len(buf) + rSize /\ rd' = a + Len(buf')
  <2> DEFINE old == Len(buf)  new == Len(buf')
  <2>1. old \in Nat /\ rd = a + old /\ new = (rd + n) - a
    BY <1>1, <1>4
  <2> HIDE DEF old, new
  <2>2. new + rSize' = old + rSize /\ rd' = a + new
    BY <1>1, <2>1, SMTT(30)
  <2> QED  BY <2>2 DEF old, new
<1>6. rd' \in 0 .. arrived' /\ rSize' \in Nat
  BY <1>1
<1> QED
  BY <1>1, <1>3, <1>4, <1>5, <1>6

LEMMA StepReadMore ==
    ASSUME IInv, ReadMore  PROVE  IInv'
<1>0. /\ TypeOK /\ StreamInv /\ InOrder /\ FrameSync
      /\ Len(delivered) < Len(sent) /\ ParserInv
  BY DEF IInv, ReadMore
<1>1. PICK n \in Chunks(rSize) : ReadBytes(n)
  BY DEF ReadMore
<1>2. /\ pc = "read" /\ pc' = "read" /\ state' = state /\ msglen' = msglen /\ cmsg' = cmsg
      /\ result' = result /\ delivered' = delivered
      /\ UNCHANGED <<server, arrived>> /\ wire' = wire /\ sent' = sent
  BY DEF ReadMore, server
<1>3. /\ StreamInv' /\ Begin' = Begin /\ Current' = Current
      /\ BodyBegin' = BodyBegin /\ DataBegin' = DataBegin
  BY <1>0, <1>2, ServerSame DEF Begin, Current, BodyBegin, DataBegin
<1>4. Begin \in Nat /\ BodyBegin \in Nat /\ DataBegin \in Nat
  BY <1>0, CurrentFacts, LenFacts, SMTT(30) DEF BodyBegin, DataBegin
<1>5. ASSUME NEW a \in Nat, Stored(a)
      PROVE  /\ rd' = a + Len(buf') /\ buf' = SubSeq(wire', a + 1, rd')
             /\ Len(buf') + rSize' = Len(buf) + rSize
             /\ rd' \in 0 .. arrived' /\ rSize' \in Nat /\ buf' \in Seq(Byte)
  BY <1>0, <1>1, <1>2, <1>5, ReadFacts DEF Stored
<1>6. rd' \in 0 .. arrived' /\ rSize' \in Nat /\ buf' \in Seq(Byte) /\ ParserInv'
  <2>1. CASE state = 0
    <3>1. Stored(Begin) /\ Len(buf) + rSize = 2
      BY <1>0, <2>1 DEF ParserInv
    <3>2. /\ rd' = Begin + Len(buf') /\ buf' = SubSeq(wire', Begin + 1, rd')
          /\ Len(buf') + rSize' = Len(buf) + rSize
          /\ rd' \in 0 .. arrived' /\ rSize' \in Nat /\ buf' \in Seq(Byte)
      BY <1>4, <1>5, <3>1
    <3>3. Stored(Begin)' /\ Len(buf') + rSize' = 2 /\ state' = 0
      BY <1>2, <1>3, <2>1, <3>1, <3>2 DEF Stored
    <3>4. ParserInv'
      BY <3>3 DEF ParserInv
    <3> QED  BY <3>2, <3>4
  <2>2. CASE state \in {1, 2}
    <3>1. Stored(BodyBegin)
      BY <1>0, <2>2 DEF ParserInv
    <3>2. /\ rd' = BodyBegin + Len(buf') /\ buf' = SubSeq(wire', BodyBegin + 1, rd')
          /\ Len(buf') + rSize' = Len(buf) + rSize
          /\ rd' \in 0 .. arrived' /\ rSize' \in Nat /\ buf' \in Seq(Byte)
      BY <1>4, <1>5, <3>1
    <3>3. Stored(BodyBegin)' /\ state' = state
      BY <1>2, <1>3, <3>2 DEF Stored
    <3>4. state = 1 => Len(buf') + rSize' = 2 /\ msglen' = TotalLen(Current') - 2
      BY <1>0, <1>2, <1>3, <3>2 DEF ParserInv
    <3>5. state = 2 => Len(buf') + rSize' = ProtLen(Current') /\ msglen' = DataLen(Current')
      BY <1>0, <1>2, <1>3, <3>2 DEF ParserInv
    <3>6. ParserInv'
      BY <2>2, <3>3, <3>4, <3>5 DEF ParserInv
    <3> QED  BY <3>2, <3>6
  <2>3. CASE state = 3
    <3>1. Stored(DataBegin)
      BY <1>0, <2>3 DEF ParserInv
    <3>2. /\ rd' = DataBegin + Len(buf') /\ buf' = SubSeq(wire', DataBegin + 1, rd')
          /\ Len(buf') + rSize' = Len(buf) + rSize
          /\ rd' \in 0 .. arrived' /\ rSize' \in Nat /\ buf' \in Seq(Byte)
      BY <1>4, <1>5, <3>1
    <3>3. Stored(DataBegin)' /\ state' = 3
      BY <1>2, <1>3, <2>3, <3>2 DEF Stored
    <3>4. /\ Len(buf') + rSize' = DataLen(Current')
          /\ cmsg' = SubSeq(wire', BodyBegin' + 1, DataBegin')
          /\ Current'.prim = DATAB3
      BY <1>0, <1>2, <1>3, <2>3, <3>2 DEF ParserInv
    <3>5. ParserInv'
      BY <3>3, <3>4 DEF ParserInv
    <3> QED  BY <3>2, <3>5
  <2> QED  BY <1>0, <2>1, <2>2, <2>3 DEF TypeOK
<1>7. TypeOK'
  BY <1>0, <1>2, <1>6 DEF TypeOK, server
<1>8. InOrder' /\ FrameSync' /\ Len(delivered') < Len(sent')
  BY <1>0, <1>2 DEF InOrder, FrameSync
<1> QED
  BY <1>3, <1>6, <1>7, <1>8 DEF IInv

LEMMA StepCall ==
    ASSUME IInv, Call  PROVE  IInv'
<1>0. TypeOK /\ StreamInv /\ InOrder /\ FrameSync
  BY DEF IInv
<1>1. PICK n \in Chunks(2) : /\ rd' = rd + n /\ rSize' = 2 - n
                             /\ buf' = SubSeq(wire, rd + 1, rd + n)
  BY DEF Call
<1>2. /\ pc = "idle" /\ pc' = "read" /\ state' = 0 /\ msglen' = 0 /\ cmsg' = <<>>
      /\ result' = result /\ delivered' = delivered
      /\ UNCHANGED server /\ arrived' = arrived /\ wire' = wire /\ sent' = sent
  BY DEF Call, server
<1>3. StreamInv' /\ Begin' = Begin
  BY <1>0, <1>2, ServerSame DEF Begin
<1>4. /\ n \in 1 .. 2 /\ rd + n <= arrived /\ rd \in Nat /\ arrived \in Nat
      /\ arrived <= Len(wire) /\ wire \in Seq(Byte)
  BY <1>0 DEF Chunks, TypeOK
<1>5. Len(delivered) < Len(sent) /\ rd = Begin
  BY <1>0, <1>2, <1>4, Outstanding DEF FrameSync, Begin
<1>6. buf' \in Seq(Byte) /\ Len(buf') = n
  <2>1. rd \in 0 .. Len(wire) /\ rd + n \in rd .. Len(wire)
    BY <1>4
  <2>2. buf' \in Seq(Byte) /\ Len(buf') = (rd + n) - rd
    BY <1>1, <1>4, <2>1, PartFacts
  <2> QED  BY <1>4, <2>2
<1>7. rd' \in 0 .. arrived' /\ rSize' \in Nat /\ ParserInv'
  BY <1>1, <1>2, <1>3, <1>4, <1>5, <1>6 DEF ParserInv, Stored
<1>8. TypeOK'
  BY <1>0, <1>2, <1>6, <1>7 DEF TypeOK, server
<1>9. InOrder' /\ FrameSync' /\ Len(delivered') < Len(sent')
  BY <1>0, <1>2, <1>5 DEF InOrder, FrameSync
<1> QED
  BY <1>3, <1>7, <1>8, <1>9 DEF IInv

\* What has been read of the current frame is that part of the frame.
LEMMA FramePart ==
    ASSUME TypeOK, StreamInv, InOrder, Len(delivered) < Len(sent),
           NEW from \in Nat, NEW to \in from .. TotalLen(Current), Begin + to <= Len(wire),
           NEW s, s = SubSeq(wire, (Begin + from) + 1, Begin + to)
    PROVE  /\ s \in Seq(Byte) /\ Len(s) = to - from
           /\ \A i \in 1 .. to - from : s[i] = Frame(Current)[from + i]
<1>1. /\ Begin \in Nat /\ Current \in Msgs
      /\ \A i \in 1 .. TotalLen(Current) :
            Begin + i <= Len(wire) => wire[Begin + i] = Frame(Current)[i]
  BY CurrentFacts
<1>2. TotalLen(Current) \in Nat /\ wire \in Seq(Byte) /\ Len(wire) \in Nat
  BY <1>1, LenFacts DEF TypeOK
<1>3. Begin + from \in 0 .. Len(wire) /\ Begin + to \in (Begin + from) .. Len(wire)
  BY <1>1, <1>2
<1>4. /\ s \in Seq(Byte) /\ Len(s) = (Begin + to) - (Begin + from)
      /\ \A i \in 1 .. (Begin + to) - (Begin + from) : s[i] = wire[(Begin + from) + i]
  BY <1>2, <1>3, PartFacts
<1>5. ASSUME NEW i \in 1 .. to - from
      PROVE  s[i] = Frame(Current)[from + i]
  <2>1. /\ i \in 1 .. (Begin + to) - (Begin + from)
        /\ from + i \in 1 .. TotalLen(Current) /\ Begin + (from + i) <= Len(wire)
        /\ Begin + (from + i) = (Begin + from) + i
    BY <1>1, <1>2
  <2>2. wire[Begin + (from + i)] = Frame(Current)[from + i]
    BY <1>1, <2>1
  <2> QED  BY <1>4, <2>1, <2>2
<1>6. Len(s) = to - from
  BY <1>1, <1>2, <1>4
<1> QED
  BY <1>4, <1>5, <1>6

\* The parts of IInv that the parser's own steps leave alone.
LEMMA ParserStep ==
    ASSUME IInv, pc = "read", pc' = "read",
           UNCHANGED <<server, arrived, rd, result, delivered>>
    PROVE  /\ TypeOK /\ StreamInv /\ InOrder /\ Len(delivered) < Len(sent) /\ ParserInv
           /\ wire' = wire /\ StreamInv' /\ InOrder' /\ FrameSync'
           /\ Len(delivered') < Len(sent')
           /\ Begin' = Begin /\ Current' = Current
           /\ BodyBegin' = BodyBegin /\ DataBegin' = DataBegin
           /\ Begin \in Nat /\ Current \in Msgs
           /\ (/\ state' \in 0 .. 3 /\ rSize' \in Nat /\ msglen' \in Nat
               /\ buf' \in Seq(Byte) /\ cmsg' \in Seq(Byte)) => TypeOK'
<1>1. TypeOK /\ StreamInv /\ InOrder /\ Len(delivered) < Len(sent) /\ ParserInv
  BY DEF IInv
<1>2. StreamInv' /\ Begin' = Begin /\ Current' = Current
  BY <1>1, ServerSame DEF server, Begin, Current
<1>3. Begin \in Nat /\ Current \in Msgs
  BY <1>1, CurrentFacts
<1>4. wire' = wire /\ InOrder' /\ FrameSync' /\ Len(delivered') < Len(sent')
  BY <1>1 DEF InOrder, FrameSync, server
<1>5. BodyBegin' = BodyBegin /\ DataBegin' = DataBegin
  BY <1>2 DEF BodyBegin, DataBegin
<1>6. (/\ state' \in 0 .. 3 /\ rSize' \in Nat /\ msglen' \in Nat
       /\ buf' \in Seq(Byte) /\ cmsg' \in Seq(Byte)) => TypeOK'
  BY <1>1 DEF TypeOK, server
<1> QED
  BY <1>1, <1>2, <1>3, <1>4, <1>5, <1>6

LEMMA StepTotalLength ==
    ASSUME IInv, TotalLength  PROVE  IInv'
<1>1. /\ pc = "read" /\ pc' = "read" /\ state = 0 /\ rSize = 0
      /\ UNCHANGED <<server, arrived, rd, result, delivered>> /\ cmsg' = cmsg
      /\ msglen' = (buf[1] * Base + buf[2]) - 2
      /\ buf' = <<>> /\ state' = 1 /\ rSize' = 2
  BY DEF TotalLength
<1>2. /\ TypeOK /\ StreamInv /\ InOrder /\ Len(delivered) < Len(sent) /\ ParserInv
      /\ StreamInv' /\ InOrder' /\ FrameSync' /\ Len(delivered') < Len(sent')
      /\ Begin' = Begin /\ Current' = Current /\ BodyBegin' = BodyBegin /\ wire' = wire
      /\ Begin \in Nat /\ Current \in Msgs
  BY <1>1, ParserStep
<1>3. Len(buf) = 2 /\ rd = Begin + 2 /\ buf = SubSeq(wire, Begin + 1, rd)
  <2>1. Stored(Begin) /\ Len(buf) + rSize = 2 /\ Len(buf) \in Nat
    BY <1>1, <1>2 DEF ParserInv, TypeOK
  <2>2. Len(buf) = 2
    BY <1>1, <2>1
  <2> QED  BY <2>1, <2>2 DEF Stored
<1>4. /\ rd \in Nat /\ rd <= Len(wire) /\ Len(wire) \in Nat
      /\ TotalLen(Current) \in Nat /\ TotalLen(Current) >= 5
  <2>1. rd \in Nat /\ rd <= Len(wire) /\ Len(wire) \in Nat
    BY <1>2 DEF TypeOK
  <2>2. TotalLen(Current) \in Nat /\ TotalLen(Current) >= 5
    BY <1>2, LenFacts
  <2> QED  BY <2>1, <2>2
<1>5. buf[1] = Frame(Current)[1] /\ buf[2] = Frame(Current)[2]
  <2>1. Begin + 2 <= Len(wire) /\ 2 \in 0 .. TotalLen(Current) /\ TotalLen(Current) \in Nat
    BY <1>2, <1>3, <1>4
  <2>2. buf = SubSeq(wire, (Begin + 0) + 1, Begin + 2)
    BY <1>2, <1>3
  <2>3. \A i \in 1 .. 2 - 0 : buf[i] = Frame(Current)[0 + i]
    BY <1>2, <2>1, <2>2, FramePart
  <2> QED  BY <2>3
<1>6. msglen' = TotalLen(Current) - 2
  BY <1>1, <1>2, <1>5, FrameFacts
<1>7. Stored(BodyBegin)'
  <2>1. BodyBegin \in Nat /\ rd = BodyBegin /\ rd' = rd /\ Len(buf') = 0
    BY <1>1, <1>2, <1>3 DEF BodyBegin
  <2>2. SubSeq(wire', BodyBegin' + 1, rd') = <<>>
    BY <1>2, <2>1
  <2> QED  BY <1>1, <1>2, <2>1, <2>2 DEF Stored
<1>8. ParserInv'
  BY <1>1, <1>2, <1>6, <1>7 DEF ParserInv
<1>9. TypeOK'
  <2>1. msglen' \in Nat /\ buf' \in Seq(Byte) /\ cmsg' \in Seq(Byte)
    BY <1>1, <1>2, <1>4, <1>6, SMTT(30) DEF TypeOK
  <2> QED  BY <1>1, <2>1, ParserStep
<1> QED
  BY <1>1, <1>2, <1>8, <1>9 DEF IInv

LEMMA StepMessageLength ==
    ASSUME IInv, MessageLength  PROVE  IInv'
<1>1. /\ pc = "read" /\ pc' = "read" /\ state = 1 /\ rSize = 0
      /\ UNCHANGED <<server, arrived, rd, result, delivered>> /\ cmsg' = cmsg
      /\ msglen' = msglen - (buf[2] * Base + buf[1])
      /\ rSize' = (buf[2] * Base + buf[1]) - 2
      /\ buf' = buf /\ state' = 2
  BY DEF MessageLength
<1>2. /\ TypeOK /\ StreamInv /\ InOrder /\ Len(delivered) < Len(sent) /\ ParserInv
      /\ StreamInv' /\ InOrder' /\ FrameSync' /\ Len(delivered') < Len(sent')
      /\ Begin' = Begin /\ Current' = Current /\ BodyBegin' = BodyBegin /\ wire' = wire
      /\ Begin \in Nat /\ Current \in Msgs
  BY <1>1, ParserStep
<1>3. /\ Len(buf) = 2 /\ rd = BodyBegin + 2 /\ buf = SubSeq(wire, BodyBegin + 1, rd)
      /\ msglen = TotalLen(Current) - 2 /\ Stored(BodyBegin)
  <2>1. Stored(BodyBegin) /\ Len(buf) + rSize = 2 /\ Len(buf) \in Nat
        /\ msglen = TotalLen(Current) - 2
    BY <1>1, <1>2 DEF ParserInv, TypeOK
  <2>2. Len(buf) = 2
    BY <1>1, <2>1
  <2> QED  BY <2>1, <2>2 DEF Stored
<1>4. /\ rd \in Nat /\ rd <= Len(wire) /\ Len(wire) \in Nat
      /\ TotalLen(Current) \in Nat /\ ProtLen(Current) \in Nat /\ DataLen(Current) \in Nat
      /\ TotalLen(Current) = 2 + ProtLen(Current) + DataLen(Current)
      /\ ProtLen(Current) >= 3
  <2>1. rd \in Nat /\ rd <= Len(wire) /\ Len(wire) \in Nat
    BY <1>2 DEF TypeOK
  <2>2. /\ TotalLen(Current) \in Nat /\ ProtLen(Current) \in Nat /\ DataLen(Current) \in Nat
        /\ TotalLen(Current) = 2 + ProtLen(Current) + DataLen(Current)
        /\ ProtLen(Current) >= 3
    BY <1>2, LenFacts
  <2> QED  BY <2>1, <2>2
<1>5. buf[1] = Frame(Current)[3] /\ buf[2] = Frame(Current)[4]
  <2>1. Begin + 4 <= Len(wire) /\ 4 \in 2 .. TotalLen(Current)
    BY <1>2, <1>3, <1>4, SMTT(30) DEF BodyBegin
  <2>2. buf = SubSeq(wire, (Begin + 2) + 1, Begin + 4)
    BY <1>2, <1>3 DEF BodyBegin
  <2>3. \A i \in 1 .. 4 - 2 : buf[i] = Frame(Current)[2 + i]
    BY <1>2, <2>1, <2>2, FramePart
  <2> QED  BY <2>3
<1>6. rSize' = ProtLen(Current) - 2 /\ msglen' = DataLen(Current)
  <2>1. buf[2] * Base + buf[1] = ProtLen(Current)
    BY <1>2, <1>5, FrameFacts
  <2>2. rSize' = ProtLen(Current) - 2 /\ msglen' = msglen - ProtLen(Current)
    BY <1>1, <2>1
  <2>3. msglen = ProtLen(Current) + DataLen(Current)
    BY <1>3, <1>4
  <2> QED  BY <1>4, <2>2, <2>3
<1>7. Stored(BodyBegin)' /\ Len(buf') + rSize' = ProtLen(Current)
  <2>1. Stored(BodyBegin)'
    BY <1>1, <1>2, <1>3 DEF Stored
  <2>2. Len(buf') = 2
    BY <1>1, <1>3
  <2> QED  BY <1>4, <1>6, <2>1, <2>2
<1>8. ParserInv'
  BY <1>1, <1>2, <1>6, <1>7 DEF ParserInv
<1>9. TypeOK'
  <2>1. msglen' \in Nat /\ rSize' \in Nat
    BY <1>4, <1>6
  <2>2. buf' \in Seq(Byte) /\ cmsg' \in Seq(Byte)
    BY <1>1, <1>2 DEF TypeOK
  <2> QED  BY <1>1, <2>1, <2>2, ParserStep
<1> QED
  BY <1>1, <1>2, <1>8, <1>9 DEF IInv

\* In state 2 with nothing left to read, buf is the CAPI message.
LEMMA BodyFacts ==
    ASSUME TypeOK, StreamInv, InOrder, Len(delivered) < Len(sent), ParserInv,
           state = 2, rSize = 0
    PROVE  /\ Begin \in Nat /\ Current \in Msgs
           /\ rd = DataBegin /\ buf = SubSeq(wire, BodyBegin + 1, DataBegin)
           /\ buf \in Seq(Byte) /\ Len(buf) = ProtLen(Current)
           /\ \A i \in 1 .. ProtLen(Current) : buf[i] = Frame(Current)[2 + i]
           /\ buf[3] = Current.prim
           /\ msglen = DataLen(Current)
<1>1. Begin \in Nat /\ Current \in Msgs
  BY CurrentFacts
<1>2. /\ ProtLen(Current) \in Nat /\ ProtLen(Current) >= 3 /\ DataLen(Current) \in Nat
      /\ TotalLen(Current) = 2 + ProtLen(Current) + DataLen(Current)
  BY <1>1, LenFacts
<1>3. Len(buf) = ProtLen(Current) /\ Stored(BodyBegin) /\ msglen = DataLen(Current)
  <2>1. Len(buf) + rSize = ProtLen(Current) /\ Stored(BodyBegin) /\ msglen = DataLen(Current)
        /\ Len(buf) \in Nat
    BY DEF ParserInv, TypeOK
  <2> QED  BY <2>1
<1>4. rd = DataBegin /\ buf = SubSeq(wire, BodyBegin + 1, DataBegin)
  BY <1>3 DEF Stored, DataBegin
<1>5. buf \in Seq(Byte) /\ \A i \in 1 .. ProtLen(Current) : buf[i] = Frame(Current)[2 + i]
  <2> DEFINE to == 2 + ProtLen(Current)
  <2>1. to \in 2 .. TotalLen(Current) /\ Begin + to = DataBegin /\ Begin + 2 = BodyBegin
        /\ to - 2 = ProtLen(Current)
    BY <1>1, <1>2 DEF BodyBegin, DataBegin
  <2>2. Begin + to <= Len(wire)
    BY <1>4, <2>1 DEF TypeOK
  <2> HIDE DEF to
  <2>3. buf = SubSeq(wire, (Begin + 2) + 1, Begin + to)
    BY <1>4, <2>1
  <2>4. buf \in Seq(Byte) /\ \A i \in 1 .. to - 2 : buf[i] = Frame(Current)[2 + i]
    BY <2>1, <2>2, <2>3, FramePart, ZenonT(30)
  <2> QED  BY <2>1, <2>4
<1>6. buf[3] = Current.prim
  <2>1. Frame(Current)[5] = Current.prim
    BY <1>1, FrameFacts
  <2> QED  BY <1>2, <1>5, <2>1
<1> QED
  BY <1>1, <1>3, <1>4, <1>5, <1>6

LEMMA StepBodyBeforeData ==
    ASSUME IInv, BodyBeforeData  PROVE  IInv'
<1>1. /\ pc = "read" /\ pc' = "read" /\ state = 2 /\ rSize = 0 /\ buf[3] = DATAB3
      /\ UNCHANGED <<server, arrived, rd, result, delivered>> /\ rd' = rd
      /\ cmsg' = buf /\ buf' = <<>> /\ rSize' = msglen /\ msglen' = msglen /\ state' = 3
  BY DEF BodyBeforeData
<1>2. /\ TypeOK /\ StreamInv /\ InOrder /\ Len(delivered) < Len(sent) /\ ParserInv
      /\ StreamInv' /\ InOrder' /\ FrameSync' /\ Len(delivered') < Len(sent')
      /\ Current' = Current /\ BodyBegin' = BodyBegin /\ DataBegin' = DataBegin /\ wire' = wire
  BY <1>1, ParserStep
<1>3. /\ rd = DataBegin /\ buf = SubSeq(wire, BodyBegin + 1, DataBegin)
      /\ buf \in Seq(Byte) /\ buf[3] = Current.prim /\ msglen = DataLen(Current)
      /\ Current \in Msgs
  BY <1>1, <1>2, BodyFacts
<1>4. DataBegin \in Nat /\ DataLen(Current) \in Nat
  BY <1>2, <1>3, LenFacts DEF TypeOK
<1>5. Stored(DataBegin)'
  <2>1. rd' = DataBegin + Len(buf') /\ SubSeq(wire', DataBegin + 1, rd') = <<>>
    BY <1>1, <1>3, <1>4
  <2> QED  BY <1>1, <1>2, <2>1 DEF Stored
<1>6. Len(buf') + rSize' = DataLen(Current)
  BY <1>1, <1>3, <1>4
<1>7. ParserInv'
  <2>1. /\ cmsg' = SubSeq(wire', BodyBegin' + 1, DataBegin')
        /\ Current'.prim = DATAB3 /\ Len(buf') + rSize' = DataLen(Current')
    BY <1>1, <1>2, <1>3, <1>6
  <2> QED  BY <1>1, <1>5, <2>1 DEF ParserInv
<1>8. TypeOK'
  <2>1. msglen' \in Nat /\ rSize' \in Nat /\ buf' \in Seq(Byte) /\ cmsg' \in Seq(Byte)
    BY <1>1, <1>3, <1>4
  <2> QED  BY <1>1, <2>1, ParserStep
<1> QED
  BY <1>1, <1>2, <1>7, <1>8 DEF IInv

\* A call that hands over the current message behind its last byte.
LEMMA HandOverStep ==
    ASSUME IInv, pc = "read", HandOver(Current),
           UNCHANGED <<server, arrived, rd, parser>>, rd = Begin + TotalLen(Current)
    PROVE  IInv'
<1>1. TypeOK /\ StreamInv /\ InOrder /\ Len(delivered) < Len(sent)
  BY DEF IInv
<1>2. /\ pc' = "idle" /\ delivered' = Append(delivered, Current) /\ result' = "OK"
      /\ UNCHANGED server /\ sent' = sent /\ wire' = wire /\ peer' = peer
      /\ arrived' = arrived /\ rd' = rd
      /\ state' = state /\ rSize' = rSize /\ msglen' = msglen /\ buf' = buf /\ cmsg' = cmsg
  BY DEF HandOver, server, parser
<1>3. StreamInv' /\ \A k : FrameEnd(k)' = FrameEnd(k)
  BY <1>1, <1>2, ServerSame
<1>4. /\ Current \in Msgs /\ Current \in MsgType
      /\ FrameEnd(Len(delivered) + 1) = Begin + TotalLen(Current)
  BY <1>1, CurrentFacts, LenFacts
<1>5. /\ delivered' \in Seq(MsgType) /\ Len(delivered') = Len(delivered) + 1
      /\ \A k \in 1 .. Len(delivered) : delivered'[k] = delivered[k]
      /\ delivered'[Len(delivered) + 1] = Current
      /\ Len(delivered) \in Nat /\ Len(sent) \in Nat
  BY <1>1, <1>2, <1>4 DEF TypeOK
<1>6. TypeOK'
  BY <1>1, <1>2, <1>5 DEF TypeOK
<1>7. InOrder'
  BY <1>1, <1>2, <1>5 DEF InOrder, Current
<1>8. FrameSync'
  <2>1. FrameEnd(Len(delivered))' = FrameEnd(Len(delivered) + 1)
    BY <1>2, <1>5 DEF FrameEnd
  <2>2. rd' = FrameEnd(Len(delivered))'
    BY <1>2, <1>4, <2>1
  <2> QED  BY <2>2 DEF FrameSync
<1> QED
  BY <1>2, <1>3, <1>6, <1>7, <1>8 DEF IInv

\* The message that BodyOnly hands over is the current one, and it ends at rd.
LEMMA BodyIsCurrent ==
    ASSUME IInv, BodyOnly
    PROVE  /\ pc = "read" /\ HandOver(Current) /\ UNCHANGED <<server, arrived, rd, parser>>
           /\ Len(delivered) < Len(sent) /\ rd = Begin + TotalLen(Current)
<1>1. /\ pc = "read" /\ state = 2 /\ rSize = 0 /\ buf[3] # DATAB3
      /\ HandOver(Received(buf, <<>>)) /\ UNCHANGED <<server, arrived, rd, parser>>
  BY DEF BodyOnly
<1>2. TypeOK /\ StreamInv /\ InOrder /\ Len(delivered) < Len(sent) /\ ParserInv
  BY <1>1 DEF IInv
<1>3. /\ Begin \in Nat /\ Current \in Msgs /\ rd = DataBegin
      /\ buf \in Seq(Byte) /\ Len(buf) = ProtLen(Current)
      /\ \A i \in 1 .. ProtLen(Current) : buf[i] = Frame(Current)[2 + i]
      /\ buf[3] = Current.prim
  BY <1>1, <1>2, BodyFacts
<1>4. DataLen(Current) = 0 /\ ProtLen(Current) \in Nat
      /\ TotalLen(Current) = 2 + ProtLen(Current) + DataLen(Current)
  <2>1. Current.data = <<>> /\ ProtLen(Current) \in Nat
        /\ TotalLen(Current) = 2 + ProtLen(Current) + DataLen(Current)
    BY <1>1, <1>3, LenFacts
  <2>2. DataLen(Current) = 0
    BY <2>1 DEF DataLen
  <2> QED  BY <2>1, <2>2
<1>5. Received(buf, <<>>) = Current
  <2> DEFINE none == <<>>
  <2>1. none \in Seq(Byte) /\ Len(none) = DataLen(Current)
        /\ \A i \in 1 .. DataLen(Current) : none[i] = Frame(Current)[2 + ProtLen(Current) + i]
    BY <1>4
  <2> HIDE DEF none
  <2>2. Received(buf, none) = Current
    BY <1>3, <2>1, ReceivedFacts
  <2> QED  BY <2>2 DEF none
<1>6. rd = Begin + TotalLen(Current)
  BY <1>3, <1>4 DEF DataBegin, BodyBegin
<1> QED
  BY <1>1, <1>2, <1>5, <1>6

LEMMA StepBodyOnly ==
    ASSUME IInv, BodyOnly  PROVE  IInv'
BY BodyIsCurrent, HandOverStep

\* The message that DataComplete hands over is the current one, and it ends at rd.
LEMMA DataIsCurrent ==
    ASSUME IInv, DataComplete
    PROVE  /\ pc = "read" /\ HandOver(Current) /\ UNCHANGED <<server, arrived, rd, parser>>
           /\ Len(delivered) < Len(sent) /\ rd = Begin + TotalLen(Current)
<1>1. /\ pc = "read" /\ state = 3 /\ rSize = 0
      /\ HandOver(Received(cmsg, buf)) /\ UNCHANGED <<server, arrived, rd, parser>>
  BY DEF DataComplete
<1>2. TypeOK /\ StreamInv /\ InOrder /\ Len(delivered) < Len(sent) /\ ParserInv
  BY <1>1 DEF IInv
<1>3. Begin \in Nat /\ Current \in Msgs
  BY <1>2, CurrentFacts
<1>4. /\ ProtLen(Current) \in Nat /\ DataLen(Current) \in Nat /\ TotalLen(Current) \in Nat
      /\ TotalLen(Current) = 2 + ProtLen(Current) + DataLen(Current)
  BY <1>3, LenFacts
<1>5. /\ Len(buf) = DataLen(Current) /\ rd = DataBegin + Len(buf)
      /\ buf = SubSeq(wire, DataBegin + 1, rd)
      /\ cmsg = SubSeq(wire, BodyBegin + 1, DataBegin)
  <2>1. /\ Len(buf) + rSize = DataLen(Current) /\ Stored(DataBegin)
        /\ cmsg = SubSeq(wire, BodyBegin + 1, DataBegin) /\ Len(buf) \in Nat
    BY <1>1, <1>2 DEF ParserInv, TypeOK
  <2>2. Len(buf) = DataLen(Current)
    BY <1>1, <2>1
  <2> QED  BY <2>1, <2>2 DEF Stored
<1> DEFINE mid == 2 + ProtLen(Current)
           end == TotalLen(Current)
<1>6. /\ mid \in 2 .. end /\ end \in mid .. end /\ mid \in Nat /\ end \in Nat
      /\ Begin + 2 = BodyBegin /\ Begin + mid = DataBegin /\ Begin + end = rd
      /\ mid - 2 = ProtLen(Current) /\ end - mid = DataLen(Current)
  <2>1. BodyBegin = Begin + 2 /\ DataBegin = BodyBegin + ProtLen(Current)
    BY DEF BodyBegin, DataBegin
  <2>2. rd = DataBegin + DataLen(Current)
    BY <1>5
  <2> QED  BY <1>3, <1>4, <2>1, <2>2
<1>7. rd <= Len(wire) /\ Begin + mid <= Len(wire)
  <2>1. rd <= Len(wire) /\ rd \in Nat /\ Len(wire) \in Nat
    BY <1>2 DEF TypeOK
  <2> HIDE DEF mid, end
  <2>2. Begin + mid <= Begin + end
    BY <1>3, <1>6
  <2> QED  BY <1>3, <1>6, <2>1, <2>2
<1>8. /\ cmsg \in Seq(Byte) /\ Len(cmsg) = ProtLen(Current)
      /\ \A i \in 1 .. ProtLen(Current) : cmsg[i] = Frame(Current)[2 + i]
  <2> HIDE DEF mid
  <2>1. mid \in 2 .. TotalLen(Current) /\ cmsg = SubSeq(wire, (Begin + 2) + 1, Begin + mid)
    BY <1>5, <1>6
  <2>2. /\ cmsg \in Seq(Byte) /\ Len(cmsg) = mid - 2
        /\ \A i \in 1 .. mid - 2 : cmsg[i] = Frame(Current)[2 + i]
    BY <1>2, <1>7, <2>1, FramePart
  <2> QED  BY <1>6, <2>2
<1>9. /\ buf \in Seq(Byte)
      /\ \A i \in 1 .. DataLen(Current) : buf[i] = Frame(Current)[2 + ProtLen(Current) + i]
  <2>1. end \in mid .. TotalLen(Current) /\ Begin + end <= Len(wire)
        /\ buf = SubSeq(wire, (Begin + mid) + 1, Begin + end)
    BY <1>5, <1>6, <1>7
  <2> HIDE DEF mid, end
  <2>2. /\ buf \in Seq(Byte)
        /\ \A i \in 1 .. end - mid : buf[i] = Frame(Current)[mid + i]
    BY <1>2, <1>6, <2>1, FramePart, ZenonT(30)
  <2>3. \A i \in 1 .. DataLen(Current) : buf[i] = Frame(Current)[mid + i]
    BY <1>6, <2>2
  <2> QED  BY <2>2, <2>3 DEF mid
<1>10. Received(cmsg, buf) = Current
  BY <1>3, <1>5, <1>8, <1>9, ReceivedFacts
<1>11. rd = Begin + TotalLen(Current)
  BY <1>6
<1> QED
  BY <1>1, <1>2, <1>10, <1>11

LEMMA StepDataComplete ==
    ASSUME IInv, DataComplete  PROVE  IInv'
BY DataIsCurrent, HandOverStep

\* The parser does not notice what happens on the stream behind its bytes.
LEMMA WireStep ==
    ASSUME TypeOK, ParserInv, UNCHANGED <<rd, parser, delivered>>,
           Begin \in Nat, Current \in Msgs, Begin' = Begin, Current' = Current,
           wire' \in Seq(Byte), rd <= Len(wire'), \A i \in 1 .. rd : wire'[i] = wire[i]
    PROVE  ParserInv'
<1>1. /\ BodyBegin' = BodyBegin /\ DataBegin' = DataBegin
      /\ BodyBegin \in Nat /\ DataBegin \in Nat
  BY LenFacts DEF BodyBegin, DataBegin
<1>2. rd' = rd /\ state' = state /\ rSize' = rSize /\ msglen' = msglen
      /\ buf' = buf /\ cmsg' = cmsg /\ wire \in Seq(Byte) /\ rd \in Nat /\ rd <= Len(wire)
      /\ state \in 0 .. 3
  BY DEF parser, TypeOK
<1>3. ASSUME NEW a \in Nat, Stored(a)
      PROVE  rd' = a + Len(buf') /\ buf' = SubSeq(wire', a + 1, rd')
  <2>1. SubSeq(wire', a + 1, rd) = SubSeq(wire, a + 1, rd)
    BY <1>2, SamePart
  <2> QED  BY <1>2, <1>3, <2>1 DEF Stored
<1>4. CASE state = 0
  <2>1. Stored(Begin) /\ Len(buf) + rSize = 2
    BY <1>4 DEF ParserInv
  <2>2. Stored(Begin)'
    BY <1>3, <2>1 DEF Stored
  <2> QED  BY <1>2, <1>4, <2>1, <2>2 DEF ParserInv
<1>5. CASE state \in {1, 2}
  <2>1. Stored(BodyBegin)
    BY <1>5 DEF ParserInv
  <2>2. Stored(BodyBegin)'
    BY <1>1, <1>3, <2>1 DEF Stored
  <2> QED  BY <1>2, <1>5, <2>2 DEF ParserInv
<1>6. CASE state = 3
  <2>1. Stored(DataBegin) /\ cmsg = SubSeq(wire, BodyBegin + 1, DataBegin)
        /\ Len(buf) + rSize = DataLen(Current) /\ Current.prim = DATAB3
    BY <1>6 DEF ParserInv
  <2>2. Stored(DataBegin)'
    BY <1>1, <1>3, <2>1 DEF Stored
  <2>3. DataBegin <= rd
    <3>1. Len(buf) \in Nat
      BY DEF TypeOK
    <3>2. rd = DataBegin + Len(buf)
      BY <2>1 DEF Stored
    <3> QED  BY <1>1, <3>1, <3>2
  <2>4. cmsg' = SubSeq(wire', BodyBegin' + 1, DataBegin')
    <3>1. DataBegin <= Len(wire) /\ DataBegin <= Len(wire')
          /\ \A i \in 1 .. DataBegin : wire'[i] = wire[i]
      BY <1>1, <1>2, <2>3
    <3>2. SubSeq(wire', BodyBegin + 1, DataBegin) = SubSeq(wire, BodyBegin + 1, DataBegin)
      BY <1>1, <1>2, <3>1, SamePart
    <3> QED  BY <1>1, <1>2, <2>1, <3>2
  <2>5. Len(buf') + rSize' = DataLen(Current') /\ Current'.prim = DATAB3 /\ state' = 3
    BY <1>2, <1>6, <2>1
  <2> QED  BY <2>2, <2>4, <2>5 DEF ParserInv
<1> QED
  BY <1>2, <1>4, <1>5, <1>6

\* A step of the environment that leaves alone the bytes already read and the
\* messages already sent.
LEMMA EnvironmentStep ==
    ASSUME IInv, TypeOK', StreamInv', UNCHANGED <<rd, pc, parser, result, delivered>>,
           Len(sent) <= Len(sent'), \A k \in 1 .. Len(sent) : sent'[k] = sent[k],
           \A i \in 1 .. rd : wire'[i] = wire[i]
    PROVE  IInv'
<1>1. /\ TypeOK /\ StreamInv /\ InOrder /\ FrameSync
      /\ pc = "read" => Len(delivered) < Len(sent) /\ ParserInv
  BY DEF IInv
<1>2. /\ Len(sent) \in Nat /\ Len(sent') \in Nat /\ Len(delivered) \in Nat
      /\ Len(delivered) <= Len(sent) /\ delivered' = delivered /\ rd' = rd /\ pc' = pc
  BY <1>1 DEF TypeOK, InOrder
<1>3. \A k \in 0 .. Len(sent) : FrameEnd(k)' = FrameEnd(k)
  BY <1>2 DEF FrameEnd
<1>4. FrameEnd(Len(delivered))' = FrameEnd(Len(delivered))
  <2>1. CASE Len(delivered) = 0
    BY <1>2, <2>1 DEF FrameEnd
  <2>2. CASE Len(delivered) # 0
    <3>1. sent'[Len(delivered)] = sent[Len(delivered)]
      BY <1>2, <2>2
    <3> QED  BY <1>2, <2>2, <3>1 DEF FrameEnd
  <2> QED  BY <2>1, <2>2
<1>5. InOrder'
  BY <1>1, <1>2 DEF InOrder
<1>6. FrameSync'
  BY <1>1, <1>2, <1>4 DEF FrameSync
<1>7. ASSUME pc = "read"  PROVE  Len(delivered') < Len(sent') /\ ParserInv'
  <2>1. Len(delivered) < Len(sent) /\ ParserInv
    BY <1>1, <1>7
  <2>2. Begin \in Nat /\ Current \in Msgs
    BY <1>1, <2>1, CurrentFacts
  <2>3. Begin' = Begin
    BY <1>4 DEF Begin
  <2>4. Current' = Current
    BY <1>2, <2>1 DEF Current
  <2>5. wire' \in Seq(Byte) /\ rd <= Len(wire')
    <3>1. wire' \in Seq(Byte) /\ arrived' \in 0 .. Len(wire') /\ rd' \in 0 .. arrived'
      BY DEF TypeOK
    <3>2. Len(wire') \in Nat
      BY <3>1
    <3> QED  BY <1>2, <3>1, <3>2
  <2>6. ParserInv'
    BY <1>1, <2>1, <2>2, <2>3, <2>4, <2>5, WireStep
  <2> QED  BY <1>2, <2>1, <2>6
<1> QED
  BY <1>2, <1>5, <1>6, <1>7 DEF IInv

LEMMA StepArrive ==
    ASSUME IInv, Arrive  PROVE  IInv'
<1>1. /\ arrived' \in (arrived + 1) .. Len(wire) /\ UNCHANGED server
      /\ UNCHANGED <<rd, pc, parser, result, delivered>> /\ sent' = sent /\ wire' = wire
      /\ peer' = peer
  BY DEF Arrive, server
<1>2. TypeOK /\ StreamInv
  BY DEF IInv
<1>3. TypeOK'
  BY <1>1, <1>2 DEF TypeOK, parser
<1>4. StreamInv'
  BY <1>1, <1>2, ServerSame
<1> QED
  BY <1>1, <1>2, <1>3, <1>4, EnvironmentStep DEF TypeOK

LEMMA StepServerClose ==
    ASSUME IInv, ServerClose  PROVE  IInv'
<1>1. /\ sent' = sent /\ wire' = wire /\ arrived' = arrived /\ peer' = "closed"
      /\ UNCHANGED <<rd, pc, parser, result, delivered>>
  BY DEF ServerClose
<1>2. TypeOK /\ StreamInv
  BY DEF IInv
<1>3. TypeOK'
  BY <1>1, <1>2 DEF TypeOK, parser
<1>4. StreamInv'
  BY <1>1, <1>2 DEF StreamInv, FrameEnd
<1> QED
  BY <1>1, <1>2, <1>3, <1>4, EnvironmentStep DEF TypeOK

LEMMA StepPeerDies ==
    ASSUME IInv, PeerDies  PROVE  IInv'
<1>1. /\ sent' = sent /\ arrived' = arrived /\ peer' = "closed"
      /\ UNCHANGED <<rd, pc, parser, result, delivered>>
  BY DEF PeerDies
<1>2. TypeOK /\ StreamInv
  BY DEF IInv
<1>3. PICK cut \in arrived .. Len(wire) : wire' = SubSeq(wire, 1, cut)
  BY DEF PeerDies
<1>4. /\ wire' \in Seq(Byte) /\ Len(wire') = cut /\ cut \in Nat /\ cut <= Len(wire)
      /\ \A i \in 1 .. cut : wire'[i] = wire[i]
      /\ arrived \in Nat /\ arrived <= cut /\ rd \in Nat /\ rd <= arrived
  BY <1>2, <1>3 DEF TypeOK
<1>5. TypeOK'
  BY <1>1, <1>2, <1>4 DEF TypeOK, parser
<1>6. StreamInv'
  <2>1. \A k : FrameEnd(k)' = FrameEnd(k)
    BY <1>1 DEF FrameEnd
  <2>2. \A k \in 1 .. Len(sent) : sent[k].at \in Nat /\ sent[k].msg \in Msgs
    BY <1>2, EndFacts
  <2>3. FrameEnd(Len(sent)) \in Nat /\ Len(wire) <= FrameEnd(Len(sent)) /\ Len(wire) \in Nat
    BY <1>2, EndFacts DEF StreamInv, TypeOK
  <2>4. Len(wire') <= FrameEnd(Len(sent))'
    BY <1>1, <1>4, <2>1, <2>3
  <2>5. ASSUME NEW k \in 1 .. Len(sent), NEW i \in 1 .. TotalLen(sent[k].msg),
               sent[k].at + i <= cut
        PROVE  wire'[sent[k].at + i] = Frame(sent[k].msg)[i]
    <3>1. TotalLen(sent[k].msg) \in Nat /\ sent[k].at \in Nat /\ i \in Nat /\ i >= 1
      BY <2>2, LenFacts
    <3>2. sent[k].at + i \in 1 .. cut /\ sent[k].at + i <= Len(wire)
      BY <1>4, <2>3, <2>5, <3>1
    <3>3. wire[sent[k].at + i] = Frame(sent[k].msg)[i]
      BY <1>2, <3>2 DEF StreamInv
    <3> QED  BY <1>4, <3>2, <3>3
  <2>6. \A k \in 1 .. Len(sent) : sent[k].at = FrameEnd(k - 1)
    BY <1>2 DEF StreamInv
  <2> QED  BY <1>1, <1>4, <2>1, <2>4, <2>5, <2>6 DEF StreamInv
<1>7. \A i \in 1 .. rd : wire'[i] = wire[i]
  BY <1>4
<1> QED
  BY <1>1, <1>2, <1>5, <1>6, <1>7, EnvironmentStep DEF TypeOK

LEMMA StepServerSend ==
    ASSUME IInv, NEW m \in Msgs, ServerSend(m)  PROVE  IInv'
<1>n. PICK n \in Nat : n = Len(sent)
  BY DEF IInv, TypeOK
<1>a. PICK at \in Nat : at = Len(wire)
  BY DEF IInv, TypeOK
<1> USE <1>n, <1>a
<1>1. /\ peer = "open" /\ sent' = Append(sent, [at |-> at, msg |-> m])
      /\ wire' = wire \o Frame(m) /\ peer' = peer /\ arrived' = arrived
      /\ UNCHANGED <<rd, pc, parser, result, delivered>>
  BY DEF ServerSend
<1>2. TypeOK /\ StreamInv
  BY DEF IInv
<1>3. /\ n \in Nat /\ at \in Nat /\ wire \in Seq(Byte) /\ at = FrameEnd(n)
      /\ \A k \in 1 .. n : FrameEnd(k) <= at
  BY <1>1, <1>2 DEF TypeOK, StreamInv
<1>4. /\ sent' \in Seq([at : Nat, msg : Msgs]) /\ Len(sent') = n + 1
      /\ \A k \in 1 .. n : sent'[k] = sent[k]
      /\ sent'[n + 1] = [at |-> at, msg |-> m]
  BY <1>1, <1>2, <1>3 DEF TypeOK
<1>5. /\ Frame(m) \in Seq(Byte) /\ Len(Frame(m)) = TotalLen(m) /\ TotalLen(m) \in Nat
      /\ TotalLen(m) >= 5
  BY FrameFacts, LenFacts
<1>6. /\ wire' \in Seq(Byte) /\ Len(wire') = at + TotalLen(m)
      /\ \A i \in 1 .. at : wire'[i] = wire[i]
      /\ \A i \in 1 .. TotalLen(m) : wire'[at + i] = Frame(m)[i]
  <2>1. wire \o Frame(m) \in Seq(Byte) /\ Len(wire \o Frame(m)) = Len(wire) + Len(Frame(m))
    BY <1>3, <1>5, ConcatFacts
  <2>2. \A i \in 1 .. Len(wire) : (wire \o Frame(m))[i] = wire[i]
    BY <1>3, <1>5, ConcatFacts
  <2>3. \A i \in 1 .. Len(Frame(m)) : (wire \o Frame(m))[Len(wire) + i] = Frame(m)[i]
    BY <1>3, <1>5, ConcatFacts
  <2> QED  BY <1>1, <1>5, <2>1, <2>2, <2>3
<1>7. /\ \A k \in 0 .. n : FrameEnd(k)' = FrameEnd(k)
      /\ FrameEnd(n + 1)' = at + TotalLen(m)
  BY <1>3, <1>4 DEF FrameEnd
<1>8. TypeOK'
  <2>1. rd' \in 0 .. arrived' /\ arrived' \in 0 .. Len(wire')
    <3>1. rd \in 0 .. arrived /\ arrived \in 0 .. at
      BY <1>2 DEF TypeOK
    <3> QED  BY <1>1, <1>3, <1>5, <1>6, <3>1
  <2> QED  BY <1>1, <1>2, <1>4, <1>6, <2>1 DEF TypeOK, parser
<1>9. StreamInv'
  <2>1. \A k \in 1 .. n + 1 : sent'[k].at = FrameEnd(k - 1)'
    <3>1. ASSUME NEW k \in 1 .. n  PROVE  sent'[k].at = FrameEnd(k - 1)'
      <4>1. sent[k].at = FrameEnd(k - 1)
        BY <1>2 DEF StreamInv
      <4>2. k - 1 \in 0 .. n
        BY <1>3
      <4>3. FrameEnd(k - 1)' = FrameEnd(k - 1)
        BY <1>7, <4>2
      <4> QED  BY <1>4, <4>1, <4>3
    <3>2. FrameEnd(n)' = at
      BY <1>3, <1>7
    <3> QED  BY <1>3, <1>4, <3>1, <3>2, SMTT(30)
  <2>2. Len(wire') = FrameEnd(n + 1)'
    BY <1>6, <1>7
  <2>3. \A k \in 1 .. n + 1 : FrameEnd(k)' <= Len(wire')
    <3>1. ASSUME NEW k \in 1 .. n  PROVE  FrameEnd(k)' <= Len(wire')
      <4>1. FrameEnd(k)' = FrameEnd(k) /\ FrameEnd(k) \in Nat /\ FrameEnd(k) <= at
        BY <1>2, <1>3, <1>7, EndFacts
      <4> QED  BY <1>3, <1>5, <1>6, <4>1
    <3> QED  BY <1>3, <1>5, <1>6, <1>7, <3>1
  <2>4. ASSUME NEW k \in 1 .. n + 1, NEW i \in 1 .. TotalLen(sent'[k].msg)
        PROVE  wire'[sent'[k].at + i] = Frame(sent'[k].msg)[i]
    <3>1. CASE k \in 1 .. n
      <4>1. /\ sent[k].at \in Nat /\ sent[k].msg \in Msgs
            /\ FrameEnd(k) = sent[k].at + TotalLen(sent[k].msg) /\ FrameEnd(k) <= at
        BY <1>2, <1>3, <3>1, EndFacts
      <4>2. TotalLen(sent[k].msg) \in Nat /\ sent'[k] = sent[k]
        BY <1>4, <3>1, <4>1, LenFacts
      <4>3. sent[k].at + i \in 1 .. at /\ i \in 1 .. TotalLen(sent[k].msg)
        BY <1>3, <4>1, <4>2, SMTT(30)
      <4>4. wire[sent[k].at + i] = Frame(sent[k].msg)[i]
        BY <1>2, <3>1, <4>3 DEF StreamInv
      <4>5. wire'[sent[k].at + i] = wire[sent[k].at + i]
        BY <1>6, <4>3
      <4>6. sent'[k].at = sent[k].at /\ sent'[k].msg = sent[k].msg
        BY <4>2
      <4> QED  BY <4>4, <4>5, <4>6, Zenon
    <3>2. CASE k = n + 1
      <4>1. sent'[k].at = at /\ sent'[k].msg = m
        BY <1>4, <3>2
      <4>2. i \in 1 .. TotalLen(m)
        BY <4>1
      <4>3. wire'[at + i] = Frame(m)[i]
        BY <1>6, <4>2
      <4> QED  BY <4>1, <4>3, Zenon
    <3> QED  BY <1>3, <3>1, <3>2
  <2> QED  BY <1>3, <1>4, <1>6, <2>1, <2>2, <2>3, <2>4 DEF StreamInv
<1>10. \A i \in 1 .. rd : wire'[i] = wire[i]
  <2>1. rd \in Nat /\ rd <= at
    BY <1>2, <1>3 DEF TypeOK
  <2> QED  BY <1>3, <1>6, <2>1
<1>11. Len(sent) <= Len(sent') /\ \A k \in 1 .. Len(sent) : sent'[k] = sent[k]
  BY <1>3, <1>4
<1> QED
  BY <1>1, <1>2, <1>8, <1>9, <1>10, <1>11, EnvironmentStep

\* A call that hands over no message, and a pass of the loop that reads nothing.
LEMMA StepEmpty ==
    ASSUME IInv, EmptyCall \/ ReadAgain \/ UNCHANGED vars  PROVE  IInv'
<1>1. /\ UNCHANGED <<server, arrived, rd, pc, parser, delivered>>
      /\ sent' = sent /\ wire' = wire /\ peer' = peer
      /\ result' \in Codes \cup {"OK"}
  BY DEF IInv, TypeOK, EmptyCall, ReadAgain, SelectNothing, SelectError, ReadNothing,
         ReadError, Return, Codes, vars, server
<1>2. /\ TypeOK /\ StreamInv /\ InOrder /\ FrameSync
      /\ pc = "read" => Len(delivered) < Len(sent) /\ ParserInv
  BY DEF IInv
<1>3. TypeOK'
  BY <1>1, <1>2 DEF TypeOK, parser
<1>4. StreamInv' /\ InOrder' /\ FrameSync'
  BY <1>1, <1>2, ServerSame DEF InOrder, FrameSync, FrameEnd
<1>5. pc' = "read" => Len(delivered') < Len(sent') /\ ParserInv'
  BY <1>1, <1>2 DEF ParserInv, Stored, Begin, BodyBegin, DataBegin, Current, FrameEnd, parser
<1> QED
  BY <1>3, <1>4, <1>5 DEF IInv

--------------------------------------------------------------------------------
(* Theorems *)

LEMMA InitInv == Init => IInv
<1> SUFFICES ASSUME Init  PROVE IInv
  OBVIOUS
<1>1. TypeOK
  BY DEF Init, TypeOK, Codes
<1>2. StreamInv
  BY DEF Init, StreamInv, FrameEnd
<1> QED
  BY <1>1, <1>2 DEF Init, IInv, InOrder, FrameSync, FrameEnd

LEMMA StepInv == IInv /\ [Next]_vars => IInv'
<1> SUFFICES ASSUME IInv, [Next]_vars  PROVE IInv'
  OBVIOUS
<1>1. ASSUME NEW m \in Msgs, ServerSend(m)  PROVE IInv'
  BY <1>1, StepServerSend
<1>2. CASE ServerClose    BY <1>2, StepServerClose
<1>3. CASE PeerDies       BY <1>3, StepPeerDies
<1>4. CASE Arrive         BY <1>4, StepArrive
<1>5. CASE EmptyCall \/ ReadAgain \/ UNCHANGED vars
  BY <1>5, StepEmpty
<1>6. CASE Call           BY <1>6, StepCall
<1>7. CASE ReadMore       BY <1>7, StepReadMore
<1>8. CASE TotalLength    BY <1>8, StepTotalLength
<1>9. CASE MessageLength  BY <1>9, StepMessageLength
<1>10. CASE BodyBeforeData  BY <1>10, StepBodyBeforeData
<1>11. CASE BodyOnly      BY <1>11, StepBodyOnly
<1>12. CASE DataComplete  BY <1>12, StepDataComplete
<1> QED
  BY <1>1, <1>2, <1>3, <1>4, <1>5, <1>6, <1>7, <1>8, <1>9, <1>10, <1>11, <1>12
     DEF Next, Environment, Progress

\* What the parser's variables mean in each of its states holds in every state of
\* the connection, however the stream is cut and wherever it breaks.
THEOREM Invariance == Spec => []IInv
<1> QED
  BY InitInv, StepInv, PTL DEF Spec

\* Every variable keeps its type; in particular the lengths the parser computes
\* never fall below zero (msglen - ... in the cases of capi2_get_message).
THEOREM TypeCorrect == Spec => []TypeOK
<1>1. IInv => TypeOK
  BY DEF IInv
<1> QED
  BY <1>1, Invariance, PTL

\* capi2_get_message hands over the messages the server sent, each once, in order
\* and byte for byte.
THEOREM DeliversInOrder == Spec => []InOrder
<1>1. IInv => InOrder
  BY DEF IInv
<1> QED
  BY <1>1, Invariance, PTL

\* Every call of capi2_get_message begins on the first byte of a frame.
THEOREM StartsOnFrame == Spec => []FrameSync
<1>1. IInv => FrameSync
  BY DEF IInv
<1> QED
  BY <1>1, Invariance, PTL

\* A call never reads a byte of the frame behind the one it hands over.
THEOREM StaysWithinFrame == Spec => []WithinFrame
<1>1. IInv => WithinFrame
  <2> SUFFICES ASSUME IInv, pc = "read"
               PROVE  /\ Len(delivered) < Len(sent)
                      /\ rd + rSize <= FrameEnd(Len(delivered) + 1)
    BY DEF WithinFrame
  <2>1. TypeOK /\ StreamInv /\ InOrder /\ Len(delivered) < Len(sent) /\ ParserInv
    BY DEF IInv
  <2>2. /\ Begin \in Nat /\ Current \in Msgs
        /\ FrameEnd(Len(delivered) + 1) = Begin + TotalLen(Current)
    BY <2>1, CurrentFacts
  <2>3. /\ ProtLen(Current) \in Nat /\ DataLen(Current) \in Nat /\ ProtLen(Current) >= 3
        /\ TotalLen(Current) = 2 + ProtLen(Current) + DataLen(Current)
    BY <2>2, LenFacts
  <2>4. PICK l \in Nat : l = Len(buf)
    BY <2>1 DEF TypeOK
  <2>5. rSize \in Nat /\ state \in 0 .. 3
    BY <2>1 DEF TypeOK
  <2>6. BodyBegin = Begin + 2 /\ DataBegin = Begin + 2 + ProtLen(Current)
    BY <2>2, <2>3 DEF BodyBegin, DataBegin
  <2>7. CASE state = 0
    <3>1. rd = Begin + l /\ l + rSize = 2
      BY <2>1, <2>4, <2>7 DEF ParserInv, Stored
    <3>2. rd + rSize = Begin + 2
      BY <2>2, <2>4, <2>5, <3>1
    <3> QED  BY <2>1, <2>2, <2>3, <3>2
  <2>8. CASE state = 1
    <3>1. rd = BodyBegin + l /\ l + rSize = 2
      BY <2>1, <2>4, <2>8 DEF ParserInv, Stored
    <3> QED  BY <2>1, <2>2, <2>3, <2>5, <2>6, <3>1
  <2>9. CASE state = 2
    <3>1. rd = BodyBegin + l /\ l + rSize = ProtLen(Current)
      BY <2>1, <2>4, <2>9 DEF ParserInv, Stored
    <3> QED  BY <2>1, <2>2, <2>3, <2>5, <2>6, <3>1, SMTT(30)
  <2>10. CASE state = 3
    <3>1. rd = DataBegin + l /\ l + rSize = DataLen(Current)
      BY <2>1, <2>4, <2>10 DEF ParserInv, Stored
    <3>2. DataBegin \in Nat
      BY <2>2, <2>3, <2>6
    <3>3. rd + rSize = DataBegin + DataLen(Current)
      BY <2>3, <2>4, <2>5, <3>1, <3>2
    <3>4. DataBegin + DataLen(Current) = Begin + TotalLen(Current)
      BY <2>2, <2>3, <2>6
    <3> QED  BY <2>1, <2>2, <2>3, <3>2, <3>3, <3>4
  <2> QED  BY <2>5, <2>7, <2>8, <2>9, <2>10
<1> QED
  BY <1>1, Invariance, PTL

\* The stores of capi2_get_message into cmsg and dbuf stay within the longest
\* message and the longest data block of the protocol, though neither buffer's
\* size is checked.
THEOREM StaysWithinBuffers == Spec => []BuffersFit
<1>1. IInv => BuffersFit
  <2> SUFFICES ASSUME IInv, pc = "read"  PROVE BuffersFit
    BY DEF BuffersFit
  <2>1. TypeOK /\ StreamInv /\ InOrder /\ Len(delivered) < Len(sent) /\ ParserInv
    BY DEF IInv
  <2>2. Current \in Msgs /\ ProtLen(Current) \in Nat /\ DataLen(Current) \in Nat
        /\ ProtLen(Current) >= 3
    BY <2>1, CurrentFacts, LenFacts
  <2>3. ASSUME state = 1  PROVE Len(buf) + rSize <= ProtLen(Current)
    <3>1. Len(buf) + rSize = 2
      BY <2>1, <2>3 DEF ParserInv
    <3> QED  BY <2>2, <3>1
  <2>4. ASSUME state = 2  PROVE Len(buf) + rSize <= ProtLen(Current)
    <3>1. Len(buf) + rSize = ProtLen(Current)
      BY <2>1, <2>4 DEF ParserInv
    <3> QED  BY <2>2, <3>1
  <2>5. ASSUME state = 3  PROVE Len(buf) + rSize <= DataLen(Current)
    <3>1. Len(buf) + rSize = DataLen(Current)
      BY <2>1, <2>5 DEF ParserInv
    <3> QED  BY <2>2, <3>1
  <2> QED  BY <2>2, <2>3, <2>4, <2>5 DEF BuffersFit
<1> QED
  BY <1>1, Invariance, PTL

--------------------------------------------------------------------------------
(* The refinement *)

\* The queue of the controller as CapiQueue sees it.
Messages == [k \in 1 .. Len(sent) |-> sent[k].msg]

LEMMA MessagesFacts ==
    ASSUME TypeOK
    PROVE  /\ Messages \in Seq(Msgs) /\ Len(Messages) = Len(sent)
           /\ \A k \in 1 .. Len(sent) : Messages[k] = sent[k].msg
<1>1. Len(sent) \in Nat /\ \A k \in 1 .. Len(sent) : sent[k].msg \in Msgs
  <2>1. sent \in Seq([at : Nat, msg : Msgs])
    BY DEF TypeOK
  <2>2. \A k \in 1 .. Len(sent) : sent[k] \in [at : Nat, msg : Msgs]
    BY <2>1, Element
  <2> QED  BY <2>1, <2>2
<1>2. Messages \in [1 .. Len(sent) -> Msgs]
  BY <1>1 DEF Messages
<1>3. Messages \in Seq(Msgs)
  BY <1>1, <1>2
<1> QED
  BY <1>1, <1>2, <1>3 DEF Messages

\* Sending a message appends it to the queue.
LEMMA SendQueues ==
    ASSUME TypeOK, NEW m \in Msgs, ServerSend(m)
    PROVE  Messages' = Append(Messages, m)
<1>1. PICK n \in Nat : n = Len(sent)
  BY DEF TypeOK
<1>2. /\ Len(sent') = n + 1 /\ sent'[n + 1].msg = m
      /\ \A k \in 1 .. n : sent'[k] = sent[k]
  BY <1>1 DEF ServerSend, TypeOK
<1>3. /\ Messages \in Seq(Msgs) /\ Len(Messages) = n
      /\ \A k \in 1 .. n : Messages[k] = sent[k].msg
  BY <1>1, MessagesFacts
<1>4. Messages' = [k \in 1 .. n + 1 |-> sent'[k].msg]
  BY <1>2 DEF Messages
<1>5. /\ Append(Messages, m) \in Seq(Msgs) /\ Len(Append(Messages, m)) = n + 1
      /\ Append(Messages, m)[n + 1] = m
      /\ \A k \in 1 .. n : Append(Messages, m)[k] = Messages[k]
  BY <1>3
<1>6. Append(Messages, m) = [k \in 1 .. n + 1 |-> Append(Messages, m)[k]]
  <2> DEFINE a == Append(Messages, m)
  <2>1. a \in Seq(Msgs) /\ Len(a) = n + 1
    BY <1>5
  <2> HIDE DEF a
  <2>2. a = [k \in 1 .. n + 1 |-> a[k]]
    BY <2>1
  <2> QED  BY <2>2 DEF a
<1>7. \A k \in 1 .. n + 1 : Append(Messages, m)[k] = sent'[k].msg
  <2>1. ASSUME NEW k \in 1 .. n  PROVE Append(Messages, m)[k] = sent'[k].msg
    BY <1>2, <1>3, <1>5
  <2> QED  BY <1>2, <1>5, <2>1
<1> QED
  BY <1>4, <1>6, <1>7

\* Handing over the current message takes the oldest one from the queue.
LEMMA HandOverTakes ==
    ASSUME TypeOK, HandOver(Current), UNCHANGED server, Len(delivered) < Len(sent)
    PROVE  Queue!Take
<1>1. Messages' = Messages /\ Len(Messages) = Len(sent)
      /\ Messages[Len(delivered) + 1] = Current
  <2>1. Len(delivered) + 1 \in 1 .. Len(sent)
    BY DEF TypeOK
  <2> QED  BY <2>1, MessagesFacts DEF server, Messages, Current
<1>2. delivered' = Append(delivered, Current) /\ result' = "OK"
  BY DEF HandOver
<1> QED
  BY <1>1, <1>2 DEF Queue!Take, Messages

\* Every step of the client and of its environment is a step of the queue, or
\* leaves it alone.
LEMMA StepQueue == IInv /\ [Next]_vars => [Queue!Next]_(Queue!qvars)
<1> SUFFICES ASSUME IInv, [Next]_vars  PROVE [Queue!Next]_(Queue!qvars)
  OBVIOUS
<1>0. TypeOK
  BY DEF IInv
<1>1. ASSUME NEW m \in Msgs, ServerSend(m)  PROVE Queue!Next
  <2>1. Messages' = Append(Messages, m) /\ UNCHANGED <<delivered, result>>
    BY <1>0, <1>1, SendQueues DEF ServerSend
  <2> QED  BY <2>1 DEF Queue!Next, Queue!Queue, Messages
<1>2. CASE ServerClose \/ PeerDies \/ Arrive \/ ReadAgain \/ UNCHANGED vars
  BY <1>2 DEF ServerClose, PeerDies, Arrive, ReadAgain, vars, server, Queue!qvars
<1>3. CASE EmptyCall
  <2>1. PICK code \in Codes : Return(code)
    BY <1>3 DEF EmptyCall, SelectNothing, SelectError, ReadNothing, ReadError, Codes
  <2>2. Queue!Refuse(code)
    BY <2>1 DEF Return, server, Queue!Refuse
  <2> QED  BY <2>2 DEF Queue!Next
<1>4. CASE Call \/ ReadMore \/ TotalLength \/ MessageLength \/ BodyBeforeData
  BY <1>4 DEF Call, ReadMore, TotalLength, MessageLength, BodyBeforeData, server, Queue!qvars
<1>5. CASE BodyOnly
  BY <1>0, <1>5, BodyIsCurrent, HandOverTakes DEF Queue!Next
<1>6. CASE DataComplete
  BY <1>0, <1>6, DataIsCurrent, HandOverTakes DEF Queue!Next
<1> QED
  BY <1>1, <1>2, <1>3, <1>4, <1>5, <1>6 DEF Next, Environment, Progress

\* capi2_get_message over a TCP stream implements a message queue.
THEOREM ImplementsQueue == Spec => QueueSpec
<1>1. Init => Queue!Init
  BY DEF Init, Queue!Init
<1> QED
  BY <1>1, StepQueue, Invariance, PTL DEF Spec, QueueSpec, Queue!Spec
================================================================================
