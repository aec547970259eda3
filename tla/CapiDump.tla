------------------------------ MODULE CapiDump ------------------------------
(***************************************************************************)
(* The message dumper src/capidump.c, in its long form: which bytes of a   *)
(* message it prints as the contents of which structure, and of what it    *)
(* complains.  Names of codes and columns are left out.                    *)
(*                                                                         *)
(* A position is an index of "body", the bytes of the message from its     *)
(* first structure on; the position of a structure is that of its length   *)
(* byte, and Null is the NULL of get_struct and skip_struct.               *)
(***************************************************************************)
EXTENDS CapiMessage

Rest == 65536       \* no upper limit; also "all the bytes there are"
Null == 0

-----------------------------------------------------------------------------
(* What the dumper knows of a structure: the lengths it accepts, how many  *)
(* bytes it prints itself ("lead"), the structures it then looks for       *)
(* inside if the length leaves room for them, where these have to end      *)
(* (with the structure or with the message), and by how many bytes the     *)
(* structure itself may run over the end of the message: check_struct adds *)
(* the length to the address of the length byte and not to that of the     *)
(* first byte.                                                             *)
Struct(min, max, lead, subs) ==
  [min |-> min, max |-> max, lead |-> lead, subs |-> subs, room |-> 0,
   ends |-> "own", slack |-> 1]

UserData(min, max) == Struct(min, max, Rest, <<>>)

TelNo1 == UserData(2, 21)

TelNo2 == UserData(3, 22)

NcpiX25 == UserData(3, Rest)

AddInfo(channel) ==
  Struct(2, Rest, 0,
         << Struct(2, Rest, W, IF channel = "identified" THEN <<UserData(1, Rest)>> ELSE <<>>),
            UserData(3, 34), UserData(4, Rest), UserData(6, Rest) >>)

(* dump_c2b_protocol: it starts from an end one byte before that of the    *)
(* message, which makes up for the byte check_struct allows too much.      *)
BProtocol(b3) ==
  [Struct(9, Rest, 3 * W,
          << Struct(8, 12, 4 * W, <<>>),
             Struct(2, Rest, 4 * B, <<UserData(1, Rest)>>),
             IF b3 = "T30" THEN Struct(6, Rest, 2 * W, <<UserData(1, Rest), UserData(1, Rest)>>)
                           ELSE Struct(16, 16, 8 * W, <<>>) >>)
   EXCEPT !.slack = 0]

(* The parameters of layer 2 of CAPI 1.1; an empty XID is not printed.     *)
Dlpd(v110) ==
  LET lead == IF v110 THEN 7 ELSE 6
  IN  [Struct(lead, Rest, lead, <<UserData(1, Rest)>>)
       EXCEPT !.room = lead + 2, !.ends = "message"]

NcpdX25 == Struct(13, 14, 13, <<>>)

NcpdT30 == [Struct(7, Rest, 4, <<UserData(1, Rest), UserData(1, 32)>>) EXCEPT !.ends = "message"]

(* CAPI 1.1 has no mark for it: the tag "fax" stands for first bytes that  *)
(* are small enough to be those of a fax.                                  *)
NcpiFax == Struct(1, Rest, 4, <<UserData(1, Rest), UserData(1, Rest)>>)

-----------------------------------------------------------------------------
(* A row of dump_capimsg: the lengths check_len accepts and the structures *)
(* of the message.  tag is the field of the message that decides.          *)
Row(min, max, structs) == [min |-> min, max |-> max, structs |-> structs]

Exactly(n) == Row(n, n, <<>>)

DumpsCalls11(tag) ==
  [ CAPI_CONNECT_REQ        |-> Row(18, Rest, IF tag = "destination" THEN <<TelNo1, TelNo1>>
                                                                    ELSE <<TelNo1>>),
    CAPI_CONNECT_CONF       |-> Exactly(12),
    CAPI_CONNECT_IND        |-> Row(15, Rest, <<TelNo1>>),
    CAPI_CONNECT_RESP       |-> Exactly(11),
    CAPI_CONNECTINFO_REQ    |-> Row(11, Rest, <<TelNo1>>),
    CAPI_CONNECTINFO_CONF   |-> Exactly(12),
    CAPI_CONNECTACTIVE_IND  |-> Row(11, Rest, <<TelNo1>>),
    CAPI_CONNECTACTIVE_RESP |-> Exactly(10),
    CAPI_DISCONNECT_REQ     |-> Exactly(11),
    CAPI_DISCONNECT_CONF    |-> Exactly(12),
    CAPI_DISCONNECT_IND     |-> Exactly(12),
    CAPI_DISCONNECT_RESP    |-> Exactly(10),
    CAPI_LISTEN_REQ         |-> Exactly(17),
    CAPI_LISTEN_CONF        |-> Exactly(11) ]

DumpsInfo11 ==
  [ CAPI_GETPARAMS_REQ  |-> Exactly(10),
    CAPI_GETPARAMS_CONF |-> Row(19, Rest, <<TelNo1>>),
    CAPI_INFO_REQ       |-> Exactly(14),
    CAPI_INFO_CONF      |-> Exactly(12),
    CAPI_INFO_IND       |-> Row(13, Rest, <<UserData(1, Rest)>>),
    CAPI_INFO_RESP      |-> Exactly(10),
    CAPI_DATA_REQ       |-> Row(11, Rest, <<UserData(1, Rest)>>),
    CAPI_DATA_CONF      |-> Exactly(12),
    CAPI_DATA_IND       |-> Row(11, Rest, <<UserData(1, Rest)>>),
    CAPI_DATA_RESP      |-> Exactly(10) ]

DumpsProtocols11(tag) ==
  [ CAPI_SELECTB2_REQ  |-> Row(12, Rest, <<Dlpd(tag = "V110")>>),
    CAPI_SELECTB2_CONF |-> Exactly(12),
    CAPI_SELECTB3_REQ  |-> Row(12, Rest, CASE tag = "X25" -> <<NcpdX25>>
                                          [] tag = "T30" -> <<NcpdT30>>
                                          [] OTHER       -> <<UserData(1, Rest)>>),
    CAPI_SELECTB3_CONF |-> Exactly(12) ]

DumpsLinks11(tag) ==
  [ CAPI_LISTENB3_REQ         |-> Exactly(10),
    CAPI_LISTENB3_CONF        |-> Exactly(12),
    CAPI_CONNECTB3_REQ        |-> Row(11, Rest, <<UserData(1, Rest)>>),
    CAPI_CONNECTB3_CONF       |-> Exactly(14),
    CAPI_CONNECTB3_IND        |-> Row(13, Rest, <<UserData(1, Rest)>>),
    CAPI_CONNECTB3_RESP       |-> Row(12, Rest, <<UserData(1, Rest)>>),
    CAPI_CONNECTB3ACTIVE_IND  |-> Row(11, Rest, <<UserData(1, Rest)>>),
    CAPI_CONNECTB3ACTIVE_RESP |-> Exactly(10),
    CAPI_DISCONNECTB3_REQ     |-> Row(11, Rest, <<UserData(1, Rest)>>),
    CAPI_DISCONNECTB3_CONF    |-> Exactly(12),
    CAPI_DISCONNECTB3_IND     |-> Row(13, Rest, IF tag = "fax" THEN <<NcpiFax>>
                                                              ELSE <<UserData(1, Rest)>>),
    CAPI_DISCONNECTB3_RESP    |-> Exactly(10) ]

DumpsData11 ==
  [ CAPI_GETB3PARAMS_REQ  |-> Exactly(10),
    CAPI_GETB3PARAMS_CONF |-> Exactly(14),
    CAPI_DATAB3_REQ       |-> Exactly(19),
    CAPI_DATAB3_CONF      |-> Exactly(13),
    CAPI_DATAB3_IND       |-> Exactly(19),
    CAPI_DATAB3_RESP      |-> Exactly(11),
    CAPI_RESETB3_REQ      |-> Exactly(10),
    CAPI_RESETB3_CONF     |-> Exactly(12),
    CAPI_RESETB3_IND      |-> Exactly(10),
    CAPI_RESETB3_RESP     |-> Exactly(10),
    CAPI_HANDSET_IND      |-> Exactly(12),
    CAPI_HANDSET_RESP     |-> Exactly(10),
    CAPI_DTMF_REQ         |-> Row(15, Rest, <<UserData(1, Rest)>>),
    CAPI_DTMF_CONF        |-> Exactly(12),
    CAPI_DTMF_IND         |-> Row(11, Rest, <<UserData(1, Rest)>>),
    CAPI_DTMF_RESP        |-> Exactly(10) ]

DumpsRemote ==
  [ CAPI_REGISTER_REQ     |-> Exactly(21),
    CAPI_REGISTER_CONF    |-> Exactly(10),
    CAPI_GETMANUFACT_REQ  |-> Exactly(8),
    CAPI_GETMANUFACT_CONF |-> Row(9, Rest, <<UserData(1, Rest)>>),
    CAPI_GETSERIAL_REQ    |-> Exactly(8),
    CAPI_GETSERIAL_CONF   |-> Row(9, Rest, <<UserData(1, Rest)>>),
    CAPI_GETVERSION_REQ   |-> Exactly(8),
    CAPI_GETVERSION_CONF  |-> Row(13, Rest, <<UserData(1, Rest)>>),
    CAPI_GETPROFILE_REQ   |-> Exactly(10),
    CAPI_GETPROFILE_CONF  |-> Exactly(74) ]

DumpsControl ==
  [ CAPI_CONTROL_REQ  |-> Row(13, Rest, <<UserData(1, Rest)>>),
    CAPI_CONTROL_CONF |-> Exactly(14),
    CAPI_CONTROL_IND  |-> Row(13, Rest, <<UserData(1, Rest)>>),
    CAPI_CONTROL_RESP |-> Row(13, Rest, <<UserData(1, Rest)>>) ]

DumpsCalls20(tag) ==
  LET bc  == UserData(2, 11)
      llc == UserData(2, 14)
      hlc == UserData(2, 3)
      add == AddInfo(tag)
  IN [ CAPI2_ALERT_REQ          |-> Row(13, Rest, <<add>>),
       CAPI2_ALERT_CONF         |-> Exactly(14),
       CAPI2_CONNECT_REQ        |-> Row(23, Rest, <<TelNo1, TelNo2, TelNo1, TelNo1,
                                                   BProtocol(tag), bc, llc, hlc, add>>),
       CAPI2_CONNECT_CONF       |-> Exactly(14),
       CAPI2_CONNECT_IND        |-> Row(22, Rest, <<TelNo1, TelNo2, TelNo1, TelNo1,
                                                   bc, llc, hlc, add>>),
       CAPI2_CONNECT_RESP       |-> Row(19, Rest, <<BProtocol(tag), TelNo2, TelNo1, llc, add>>),
       CAPI2_CONNECTACTIVE_IND  |-> Row(15, Rest, <<TelNo2, TelNo1, llc>>),
       CAPI2_CONNECTACTIVE_RESP |-> Exactly(12) ]

DumpsLinks20 ==
  [ CAPI2_CONNECTB3ACTIVE_IND     |-> Row(13, Rest, <<NcpiX25>>),
    CAPI2_CONNECTB3ACTIVE_RESP    |-> Exactly(12),
    CAPI2_CONNECTB3_REQ           |-> Row(13, Rest, <<NcpiX25>>),
    CAPI2_CONNECTB3_CONF          |-> Exactly(14),
    CAPI2_CONNECTB3_IND           |-> Row(13, Rest, <<NcpiX25>>),
    CAPI2_CONNECTB3_RESP          |-> Row(15, Rest, <<NcpiX25>>),
    CAPI2_CONNECTB3T90ACTIVE_IND  |-> Row(13, Rest, <<NcpiX25>>),
    CAPI2_CONNECTB3T90ACTIVE_RESP |-> Exactly(12),
    CAPI2_DATAB3_REQ              |-> Exactly(22),
    CAPI2_DATAB3_CONF             |-> Exactly(16),
    CAPI2_DATAB3_IND              |-> Exactly(22),
    CAPI2_DATAB3_RESP             |-> Exactly(14) ]

DumpsEnds20(tag) ==
  [ CAPI2_DISCONNECTB3_REQ  |-> Row(13, Rest, <<NcpiX25>>),
    CAPI2_DISCONNECTB3_CONF |-> Exactly(14),
    CAPI2_DISCONNECTB3_IND  |-> Row(15, Rest, <<NcpiX25>>),
    CAPI2_DISCONNECTB3_RESP |-> Exactly(12),
    CAPI2_DISCONNECT_REQ    |-> Row(13, Rest, <<AddInfo(tag)>>),
    CAPI2_DISCONNECT_CONF   |-> Exactly(14),
    CAPI2_DISCONNECT_IND    |-> Exactly(14),
    CAPI2_DISCONNECT_RESP   |-> Exactly(12),
    CAPI2_FACILITY_REQ      |-> Row(15, Rest, <<UserData(1, Rest)>>),
    CAPI2_FACILITY_CONF     |-> Row(17, Rest, <<UserData(1, Rest)>>),
    CAPI2_FACILITY_IND      |-> Row(15, Rest, <<UserData(1, Rest)>>),
    CAPI2_FACILITY_RESP     |-> Row(15, Rest, <<UserData(1, Rest)>>) ]

DumpsInfo20(tag) ==
  [ CAPI2_INFO_REQ    |-> Row(14, Rest, <<TelNo1, AddInfo(tag)>>),
    CAPI2_INFO_CONF   |-> Exactly(14),
    CAPI2_INFO_IND    |-> Row(15, Rest, <<UserData(1, Rest)>>),
    CAPI2_INFO_RESP   |-> Exactly(12),
    CAPI2_LISTEN_REQ  |-> Row(26, Rest, <<TelNo2, TelNo1>>),
    CAPI2_LISTEN_CONF |-> Exactly(14) ]

DumpsResets20(tag) ==
  [ CAPI2_MANUFACT_REQ  |-> Row(17, Rest, <<UserData(1, Rest)>>),
    CAPI2_MANUFACT_CONF |-> Row(17, Rest, <<UserData(1, Rest)>>),
    CAPI2_MANUFACT_IND  |-> Row(17, Rest, <<UserData(1, Rest)>>),
    CAPI2_MANUFACT_RESP |-> Row(17, Rest, <<UserData(1, Rest)>>),
    CAPI2_RESETB3_REQ   |-> Row(13, Rest, <<NcpiX25>>),
    CAPI2_RESETB3_CONF  |-> Exactly(14),
    CAPI2_RESETB3_IND   |-> Row(13, Rest, <<NcpiX25>>),
    CAPI2_RESETB3_RESP  |-> Exactly(12),
    CAPI2_SELECTB_REQ   |-> Row(13, Rest, <<BProtocol(tag)>>),
    CAPI2_SELECTB_CONF  |-> Exactly(14) ]

Dumps(tag) ==
  << DumpsCalls11(tag), DumpsInfo11, DumpsProtocols11(tag), DumpsLinks11(tag), DumpsData11,
     DumpsRemote, DumpsControl, DumpsCalls20(tag), DumpsLinks20, DumpsEnds20(tag),
     DumpsInfo20(tag), DumpsResets20(tag) >>

RowOf(m) ==
  LET tables == Dumps(m.tag)
      table  == CHOOSE n \in DOMAIN tables : m.type \in DOMAIN tables[n]
  IN  tables[table][m.type]

-----------------------------------------------------------------------------
(* A piece of output: the bytes printed, structure by structure, and the   *)
(* complaints in between.  The word "(empty)" is left out.                 *)
Nothing == [shown |-> <<>>, complaints |-> {}]

Shows(bytes) == [Nothing EXCEPT !.shown = IF bytes = <<>> THEN <<>> ELSE <<bytes>>]

Complains(text) == [Nothing EXCEPT !.complaints = {text}]

Then(o1, o2) == [shown |-> o1.shown \o o2.shown, complaints |-> o1.complaints \cup o2.complaints]

(* n bytes from position p on, those behind the message included           *)
Bytes(b, p, n) == [i \in 1..n |-> IF p + i - 1 \in DOMAIN b THEN b[p + i - 1] ELSE Rest]

(* get_struct and skip_struct, which complain at the end of the message;   *)
(* the latter does not look whether it is given NULL.                      *)
GetStruct(b, p) == IF p > Len(b) THEN Null ELSE p


SkipStruct(b, p) == IF p = Null THEN Null ELSE GetStruct(b, p + 1 + b[p])

Finding(b, from, p) ==
  IF p # Null THEN Nothing
  ELSE Complains(IF from = Null THEN "segmentation fault" ELSE "struct exceeds message")

(* check_struct and what the caller then prints; "end" is the last byte    *)
(* the structure may reach.                                                *)
RECURSIVE DumpStruct(_, _, _, _)
RECURSIVE DumpStructs(_, _, _, _)
DumpStruct(b, p, s, end) ==
  LET length == b[p]
  IN CASE p = Null -> Nothing
       [] length = 0 -> Nothing
       [] length < s.min -> Complains("struct length too small")
       [] length > s.max -> Complains("struct length too big")
       [] p + length > end + s.slack -> Complains("struct length exceeds")
       [] OTHER ->
            LET lead  == IF s.lead = Rest THEN length ELSE s.lead
                first == GetStruct(b, p + 1 + lead)
            IN  Then(Shows(Bytes(b, p + 1, lead)),
                     IF s.subs = <<>> \/ length < s.room THEN Nothing
                     ELSE Then(Finding(b, p, first),
                               DumpStructs(b, first,
                                           [i \in DOMAIN s.subs |-> [s.subs[i] EXCEPT
                                              !.slack = IF s.ends = "own" THEN 0 ELSE 1]],
                                           IF s.ends = "own" THEN p + length ELSE Len(b))))

DumpStructs(b, p, structs, end) ==
  IF structs = <<>> THEN Nothing
  ELSE LET next == SkipStruct(b, p)
       IN  Then(DumpStruct(b, p, Head(structs), end),
                IF Len(structs) = 1 THEN Nothing
                ELSE Then(Finding(b, p, next), DumpStructs(b, next, Tail(structs), end)))

(* Before the second number of a CONNECT_REQ the dumper compares lengths:  *)
(* there has to be more than the first one.                                *)
Present(m, structs) ==
  IF m.type = "CAPI_CONNECT_REQ" /\ ~(m.len > 18 + m.body[1])
  THEN SubSeq(structs, 1, 1) ELSE structs

(* dump_capimsg, without the sequence count                                *)
DumpCapimsg(m) ==
  LET row == RowOf(m)
  IN CASE m.len < 8 -> Complains("invalid message length")
       [] m.len > 180 /\ m.type \in DOMAIN Layouts11 -> Complains("invalid message length")
       [] m.len < row.min -> Complains("message length too small")
       [] m.len > row.max -> Complains("message length too big")
       [] row.structs = <<>> -> Nothing
       [] OTHER -> DumpStructs(m.body, GetStruct(m.body, 1), Present(m, row.structs), Len(m.body))

(* The name capi_msgOut prints; the manufacturer's messages have none.     *)
NameOf(m) ==
  IF m.type \in {"CAPI2_MANUFACT_REQ", "CAPI2_MANUFACT_CONF", "CAPI2_MANUFACT_IND",
                 "CAPI2_MANUFACT_RESP"} THEN "UNKNOWN CAPI MESSAGE!" ELSE m.type

=============================================================================
