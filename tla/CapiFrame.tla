------------------------------- MODULE CapiFrame -------------------------------
(****************************************************************************)
(* The wire format of a remote CAPI 2.0 connection (rcapi2.c).  Every CAPI  *)
(* message travels over TCP as one frame:                                   *)
(*                                                                          *)
(*    total length, 2 bytes, big endian  (counts itself)                    *)
(*    CAPI message: its length, 2 bytes, little endian (counts itself),     *)
(*                  the primitive, the parameters                           *)
(*    data, only behind a DATAB3 message                                    *)
(*                                                                          *)
(* A message is a record: its primitive is a byte (the header of the code   *)
(* also has the application and the message number, which the transport     *)
(* never looks at), its parameters and its data are sequences of bytes.     *)
(****************************************************************************)
EXTENDS Integers, Sequences

CONSTANTS Base,     \* number of values of a byte (256 in the code)
          DATAB3,   \* the primitive of the direction that carries data
          Msgs      \* the messages that are sent

Byte == 0 .. Base - 1

\* GET_LEN(msg): the length of the CAPI message, without the data.
ProtLen(m) == 3 + Len(m.par)

\* datalen of capi2_put_message: the length of the data behind the message.
DataLen(m) == Len(m.data)

\* msglen of capi2_put_message: the length of the whole frame.
TotalLen(m) == 2 + ProtLen(m) + DataLen(m)

\* The two bytes that the code stores with (x >> 8) & 0xff and x & 0xff.
High(x) == (x \div Base) % Base
Low(x)  == x % Base

\* What writev() puts on the stream: arr, then the message, then the data.
Frame(m) == <<High(TotalLen(m)), Low(TotalLen(m)),
              Low(ProtLen(m)), High(ProtLen(m)), m.prim>>
            \o m.par \o m.data

\* Messages of the protocol: only DATAB3 carries data, and the total length
\* fits the two bytes that announce it.
MsgType == [prim : Byte, par : Seq(Byte), data : Seq(Byte)]

ASSUME FrameAssumption ==
    /\ Base \in Nat /\ Base >= 2
    /\ DATAB3 \in Byte
    /\ Msgs \subseteq MsgType
    /\ \A m \in Msgs : /\ m.prim # DATAB3 => m.data = <<>>
                       /\ TotalLen(m) < Base * Base
================================================================================
