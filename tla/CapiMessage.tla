---------------------------- MODULE CapiMessage -----------------------------
(***************************************************************************)
(* How the library puts a message together: src/libcapi.c for CAPI 1.1,    *)
(* src/libcapi2.c for CAPI 2.0 and the control messages of the BRICK.      *)
(*                                                                         *)
(* A structure is what an application hands over: some bytes of its own    *)
(* ("lead") and the structures inside it ("subs").  On the line it is its  *)
(* length and its bytes; the pointer NULL is None.                         *)
(*                                                                         *)
(* Of a message only what its readers tell apart is kept: the primitive,   *)
(* the length it claims ("len"), the bytes from the first structure on     *)
(* ("body"), and the one field the meaning of a structure hangs on         *)
(* ("tag": the protocol, or the bit CAPI_IDESTINATION of the info mask).   *)
(***************************************************************************)
EXTENDS CapiLayout

None == [lead |-> <<>>, subs |-> <<>>]

(* The bytes of a structure without its own length byte.                   *)
RECURSIVE Image(_)
Image(s) ==
  s.lead \o FlattenSeq([i \in DOMAIN s.subs |->
                          <<Len(Image(s.subs[i]))>> \o Image(s.subs[i])])

Lp(s) == <<Len(Image(s))>> \o Image(s)

-----------------------------------------------------------------------------
(* A constructor copies its structures in one of these ways, and numbers   *)
(* the message itself (get_messid), takes the number of the indication it  *)
(* answers, or leaves the number zero.                                     *)
By(copy, number) == [copy |-> copy, number |-> number]

Body(copy, s) ==
  CASE copy = "nothing"  -> <<>>
    [] copy = "walk"     -> FlattenSeq([i \in DOMAIN s |-> Lp(s[i])])
    \* capi_connect_req: the second number only when there is one
    [] copy = "numbers"  -> Lp(s[1]) \o (IF Image(s[2]) = <<>> THEN <<>> ELSE Lp(s[2]))
    \* capi_dtmf_req counts the length byte twice: one byte of the stack follows
    [] copy = "dtmf"     -> Lp(s[1]) \o (IF s[1] = None THEN <<>> ELSE <<0>>)
    \* capi_control_req copies one byte too few
    [] copy = "all but one" -> <<Len(Image(s[1]))>> \o
                               (IF s[1] = None THEN <<>> ELSE Append(Front(Image(s[1])), 0))

(* capi_listen_req .. capi_connect_resp                                    *)
MakesCalls11 ==
  [ CAPI_LISTEN_REQ      |-> By("nothing", "fresh"),
    CAPI_CONNECT_REQ     |-> By("numbers", "fresh"),
    CAPI_GETPARAMS_REQ   |-> By("nothing", "fresh"),
    CAPI_CONNECTINFO_REQ |-> By("walk", "fresh") ]

(* capi_connect_resp .. capi_info_req                                      *)
MakesProtocols11 ==
  [ CAPI_CONNECT_RESP       |-> By("nothing", "given"),
    CAPI_SELECTB2_REQ       |-> By("walk", "fresh"),
    CAPI_SELECTB3_REQ       |-> By("walk", "fresh"),
    CAPI_CONNECTACTIVE_RESP |-> By("nothing", "given"),
    CAPI_INFO_REQ           |-> By("nothing", "fresh") ]

(* capi_info_resp .. capi_listenb3_req                                     *)
MakesInfo11 ==
  [ CAPI_INFO_RESP       |-> By("nothing", "given"),
    CAPI_DISCONNECT_REQ  |-> By("nothing", "fresh"),
    CAPI_DISCONNECT_RESP |-> By("nothing", "given"),
    CAPI_DATA_REQ        |-> By("walk", "fresh"),
    CAPI_DATA_RESP       |-> By("nothing", "given"),
    CAPI_LISTENB3_REQ    |-> By("nothing", "fresh") ]

(* capi_connectb3_req .. capi_resetb3_req                                  *)
MakesLinks11 ==
  [ CAPI_CONNECTB3_REQ        |-> By("walk", "fresh"),
    CAPI_CONNECTB3_RESP       |-> By("walk", "given"),
    CAPI_CONNECTB3ACTIVE_RESP |-> By("nothing", "given"),
    CAPI_DISCONNECTB3_REQ     |-> By("walk", "fresh"),
    CAPI_RESETB3_REQ          |-> By("nothing", "fresh") ]

(* capi_resetb3_resp .. capi_dtmf_resp                                     *)
MakesData11 ==
  [ CAPI_RESETB3_RESP      |-> By("nothing", "given"),
    CAPI_DISCONNECTB3_RESP |-> By("nothing", "given"),
    CAPI_DATAB3_REQ        |-> By("nothing", "fresh"),
    CAPI_DATAB3_RESP       |-> By("nothing", "given"),
    CAPI_HANDSET_RESP      |-> By("nothing", "given"),
    CAPI_DTMF_REQ          |-> By("dtmf", "fresh"),
    CAPI_DTMF_RESP         |-> By("nothing", "given") ]

(* capi2_listen_req, capi2_alert_req                                       *)
MakesListen20 ==
  [ CAPI2_LISTEN_REQ |-> By("walk", "fresh"),
    CAPI2_ALERT_REQ  |-> By("walk", "fresh") ]

(* capi2_connect_req, capi2_connect_resp; the latter has a parameter for   *)
(* the number of the indication and takes a fresh one all the same         *)
MakesConnect20 ==
  [ CAPI2_CONNECT_REQ  |-> By("walk", "fresh"),
    CAPI2_CONNECT_RESP |-> By("walk", "fresh") ]

(* capi2_connectactive_resp .. capi2_disconnect_resp                       *)
MakesInfo20 ==
  [ CAPI2_CONNECTACTIVE_RESP |-> By("nothing", "given"),
    CAPI2_INFO_REQ           |-> By("walk", "fresh"),
    CAPI2_INFO_RESP          |-> By("nothing", "given"),
    CAPI2_DISCONNECT_REQ     |-> By("walk", "fresh"),
    CAPI2_DISCONNECT_RESP    |-> By("nothing", "given") ]

(* capi2_selectb_req .. capi2_connectb3_req                                *)
MakesFacility20 ==
  [ CAPI2_SELECTB_REQ   |-> By("walk", "fresh"),
    CAPI2_FACILITY_REQ  |-> By("walk", "fresh"),
    CAPI2_FACILITY_RESP |-> By("walk", "given"),
    CAPI2_CONNECTB3_REQ |-> By("walk", "fresh") ]

(* capi2_connectb3_resp .. capi2_disconnectb3_resp                         *)
MakesLinks20 ==
  [ CAPI2_CONNECTB3_RESP          |-> By("walk", "given"),
    CAPI2_CONNECTB3ACTIVE_RESP    |-> By("nothing", "given"),
    CAPI2_CONNECTB3T90ACTIVE_RESP |-> By("nothing", "given"),
    CAPI2_DISCONNECTB3_REQ        |-> By("walk", "fresh"),
    CAPI2_DISCONNECTB3_RESP       |-> By("nothing", "given") ]

(* capi2_resetb3_req .. capi2_datab3_resp                                  *)
MakesData20 ==
  [ CAPI2_RESETB3_REQ  |-> By("walk", "fresh"),
    CAPI2_RESETB3_RESP |-> By("nothing", "given"),
    CAPI2_DATAB3_REQ   |-> By("nothing", "fresh"),
    CAPI2_DATAB3_RESP  |-> By("nothing", "given") ]

(* capi_control_req, capi_control_resp                                     *)
MakesControl ==
  [ CAPI_CONTROL_REQ  |-> By("all but one", "zero"),
    CAPI_CONTROL_RESP |-> By("all but one", "given") ]

Makes11 == MakesCalls11 @@ MakesProtocols11 @@ MakesInfo11 @@ MakesLinks11 @@ MakesData11

Makes20 == MakesListen20 @@ MakesConnect20 @@ MakesInfo20 @@ MakesFacility20
             @@ MakesLinks20 @@ MakesData20

Makes == Makes11 @@ Makes20 @@ MakesControl

-----------------------------------------------------------------------------
Message(t, tag, body) ==
  [type |-> t, tag |-> tag, body |-> body, len |-> Layouts[t].fixed + Len(body)]

(* What the constructor of primitive t makes of the structures s.          *)
Made(t, tag, s) ==
  Message(t,
          IF t = "CAPI_CONNECT_REQ" /\ Image(s[2]) # <<>> THEN "destination" ELSE tag,
          Body(Makes[t].copy, s))

(* A message of the BRICK, laid out as capidef.h says.                     *)
Given(t, tag, s) == Message(t, tag, FlattenSeq([i \in DOMAIN s |-> Lp(s[i])]))

=============================================================================
