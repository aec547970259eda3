----------------------------- MODULE CapiLayout -----------------------------
(***************************************************************************)
(* The layout of the CAPI messages, as src/capidef.h declares it.          *)
(*                                                                         *)
(* Every message starts with a header of four words: its length, the       *)
(* application, the primitive and the message number.  Then come its own   *)
(* fields, packed without gaps, and last its structures, each of them a    *)
(* length byte and so many bytes.  A C structure can hold only the length  *)
(* byte of the first one; the others are named by the comment "following". *)
(*                                                                         *)
(* A layout is what the rest of the library needs to know of it: where     *)
(* the first structure starts ("fixed", the number of bytes before it) and *)
(* how many there are ("structs").  The messages go by their C names.      *)
(***************************************************************************)
EXTENDS Integers, Sequences, FiniteSetsExt, SequencesExt, TLC

B == 1      \* cBYTE
W == 2      \* cWORD
D == 4      \* cDWORD, and a data pointer that is not far

Header == 4 * W

Layout(fields, structs) == [fixed |-> Header + FoldSeq(+, 0, fields), structs |-> structs]

-----------------------------------------------------------------------------
(* CAPI 1.1: the calls of the D channel.                                   *)
Calls11 ==
  [ CAPI_CONNECT_REQ        |-> Layout(<<B, B, D, B, B, B>>, 1),
    CAPI_CONNECT_CONF       |-> Layout(<<W, W>>, 0),
    CAPI_CONNECT_IND        |-> Layout(<<W, B, B, B, B>>, 1),
    CAPI_CONNECT_RESP       |-> Layout(<<W, B>>, 0),
    CAPI_CONNECTINFO_REQ    |-> Layout(<<W>>, 1),
    CAPI_CONNECTINFO_CONF   |-> Layout(<<W, W>>, 0),
    CAPI_CONNECTACTIVE_IND  |-> Layout(<<W>>, 1),
    CAPI_CONNECTACTIVE_RESP |-> Layout(<<W>>, 0),
    CAPI_DISCONNECT_REQ     |-> Layout(<<W, B>>, 0),
    CAPI_DISCONNECT_CONF    |-> Layout(<<W, W>>, 0),
    CAPI_DISCONNECT_IND     |-> Layout(<<W, W>>, 0),
    CAPI_DISCONNECT_RESP    |-> Layout(<<W>>, 0) ]

(* CAPI 1.1: listening, parameters, information and user data.             *)
Info11 ==
  [ CAPI_LISTEN_REQ     |-> Layout(<<B, D, W, W>>, 0),
    CAPI_LISTEN_CONF    |-> Layout(<<B, W>>, 0),
    CAPI_GETPARAMS_REQ  |-> Layout(<<W>>, 0),
    CAPI_GETPARAMS_CONF |-> Layout(<<W, B, B, W, B, B, B, B>>, 1),
    CAPI_INFO_REQ       |-> Layout(<<W, D>>, 0),
    CAPI_INFO_CONF      |-> Layout(<<W, W>>, 0),
    CAPI_INFO_IND       |-> Layout(<<W, W>>, 1),
    CAPI_INFO_RESP      |-> Layout(<<W>>, 0),
    CAPI_DATA_REQ       |-> Layout(<<W>>, 1),
    CAPI_DATA_CONF      |-> Layout(<<W, W>>, 0),
    CAPI_DATA_IND       |-> Layout(<<W>>, 1),
    CAPI_DATA_RESP      |-> Layout(<<W>>, 0) ]

(* CAPI 1.1: the choice of the protocols and the links of the B channel.   *)
Links11 ==
  [ CAPI_SELECTB2_REQ         |-> Layout(<<W, B>>, 1),
    CAPI_SELECTB2_CONF        |-> Layout(<<W, W>>, 0),
    CAPI_SELECTB3_REQ         |-> Layout(<<W, B>>, 1),
    CAPI_SELECTB3_CONF        |-> Layout(<<W, W>>, 0),
    CAPI_LISTENB3_REQ         |-> Layout(<<W>>, 0),
    CAPI_LISTENB3_CONF        |-> Layout(<<W, W>>, 0),
    CAPI_CONNECTB3_REQ        |-> Layout(<<W>>, 1),
    CAPI_CONNECTB3_CONF       |-> Layout(<<W, W, W>>, 0),
    CAPI_CONNECTB3_IND        |-> Layout(<<W, W>>, 1),
    CAPI_CONNECTB3_RESP       |-> Layout(<<W, B>>, 1),
    CAPI_CONNECTB3ACTIVE_IND  |-> Layout(<<W>>, 1),
    CAPI_CONNECTB3ACTIVE_RESP |-> Layout(<<W>>, 0) ]

(* CAPI 1.1: the end of a link, its data blocks and its resets.            *)
Data11 ==
  [ CAPI_DISCONNECTB3_REQ  |-> Layout(<<W>>, 1),
    CAPI_DISCONNECTB3_CONF |-> Layout(<<W, W>>, 0),
    CAPI_DISCONNECTB3_IND  |-> Layout(<<W, W>>, 1),
    CAPI_DISCONNECTB3_RESP |-> Layout(<<W>>, 0),
    CAPI_GETB3PARAMS_REQ   |-> Layout(<<W>>, 0),
    CAPI_GETB3PARAMS_CONF  |-> Layout(<<W, W, W>>, 0),
    CAPI_DATAB3_REQ        |-> Layout(<<W, W, D, B, W>>, 0),
    CAPI_DATAB3_CONF       |-> Layout(<<W, B, W>>, 0),
    CAPI_DATAB3_IND        |-> Layout(<<W, W, D, B, W>>, 0),
    CAPI_DATAB3_RESP       |-> Layout(<<W, B>>, 0),
    CAPI_RESETB3_REQ       |-> Layout(<<W>>, 0),
    CAPI_RESETB3_CONF      |-> Layout(<<W, W>>, 0),
    CAPI_RESETB3_IND       |-> Layout(<<W>>, 0),
    CAPI_RESETB3_RESP      |-> Layout(<<W>>, 0) ]

(* CAPI 1.1: the handset and the DTMF tones.                               *)
Handset11 ==
  [ CAPI_HANDSET_IND  |-> Layout(<<W, B, B>>, 0),
    CAPI_HANDSET_RESP |-> Layout(<<W>>, 0),
    CAPI_DTMF_REQ     |-> Layout(<<W, W, W>>, 1),
    CAPI_DTMF_CONF    |-> Layout(<<W, W>>, 0),
    CAPI_DTMF_IND     |-> Layout(<<W>>, 1),
    CAPI_DTMF_RESP    |-> Layout(<<W>>, 0) ]

(* The control messages of the BRICK, which are counted to CAPI 1.1.       *)
Control ==
  [ CAPI_CONTROL_REQ  |-> Layout(<<W, W>>, 1),
    CAPI_CONTROL_CONF |-> Layout(<<W, W, W>>, 0),
    CAPI_CONTROL_IND  |-> Layout(<<W, W>>, 1),
    CAPI_CONTROL_RESP |-> Layout(<<W, W>>, 1) ]

-----------------------------------------------------------------------------
(* The messages of the remote CAPI itself.                                 *)
Remote ==
  [ CAPI_REGISTER_REQ    |-> Layout(<<D, W, W, W, W, B>>, 0),
    CAPI_REGISTER_CONF   |-> Layout(<<W>>, 0),
    CAPI_GETMANUFACT_REQ |-> Layout(<<>>, 0),
    CAPI_GETMANUFACT_CONF|-> Layout(<<>>, 1),
    CAPI_GETVERSION_REQ  |-> Layout(<<>>, 0),
    CAPI_GETVERSION_CONF |-> Layout(<<W, W>>, 1),
    CAPI_GETSERIAL_REQ   |-> Layout(<<>>, 0),
    CAPI_GETSERIAL_CONF  |-> Layout(<<>>, 1),
    CAPI_GETPROFILE_REQ  |-> Layout(<<W>>, 0),
    CAPI_GETPROFILE_CONF |-> Layout(<<W, W, W, D, D, D, D, 24 * B, 20 * B>>, 0) ]

-----------------------------------------------------------------------------
(* CAPI 2.0: the calls of the D channel.                                   *)
Calls20 ==
  [ CAPI2_ALERT_REQ            |-> Layout(<<D>>, 1),
    CAPI2_ALERT_CONF           |-> Layout(<<D, W>>, 0),
    CAPI2_CONNECT_REQ          |-> Layout(<<D, W>>, 9),
    CAPI2_CONNECT_CONF         |-> Layout(<<D, W>>, 0),
    CAPI2_CONNECT_IND          |-> Layout(<<D, W>>, 8),
    CAPI2_CONNECT_RESP         |-> Layout(<<D, W>>, 5),
    CAPI2_CONNECTACTIVE_IND    |-> Layout(<<D>>, 3),
    CAPI2_CONNECTACTIVE_RESP   |-> Layout(<<D>>, 0),
    CAPI2_CONNECTB3ACTIVE_IND  |-> Layout(<<D>>, 1),
    CAPI2_CONNECTB3ACTIVE_RESP |-> Layout(<<D>>, 0) ]

(* CAPI 2.0: the links of the B channel and their data blocks.             *)
Links20 ==
  [ CAPI2_CONNECTB3_REQ           |-> Layout(<<D>>, 1),
    CAPI2_CONNECTB3_CONF          |-> Layout(<<D, W>>, 0),
    CAPI2_CONNECTB3_IND           |-> Layout(<<D>>, 1),
    CAPI2_CONNECTB3_RESP          |-> Layout(<<D, W>>, 1),
    CAPI2_CONNECTB3T90ACTIVE_IND  |-> Layout(<<D>>, 1),
    CAPI2_CONNECTB3T90ACTIVE_RESP |-> Layout(<<D>>, 0),
    CAPI2_DATAB3_REQ              |-> Layout(<<D, D, W, W, W>>, 0),
    CAPI2_DATAB3_CONF             |-> Layout(<<D, W, W>>, 0),
    CAPI2_DATAB3_IND              |-> Layout(<<D, D, W, W, W>>, 0),
    CAPI2_DATAB3_RESP             |-> Layout(<<D, W>>, 0) ]

(* CAPI 2.0: the end of links and calls, and the facilities.               *)
Ends20 ==
  [ CAPI2_DISCONNECTB3_REQ  |-> Layout(<<D>>, 1),
    CAPI2_DISCONNECTB3_CONF |-> Layout(<<D, W>>, 0),
    CAPI2_DISCONNECTB3_IND  |-> Layout(<<D, W>>, 1),
    CAPI2_DISCONNECTB3_RESP |-> Layout(<<D>>, 0),
    CAPI2_DISCONNECT_REQ    |-> Layout(<<D>>, 1),
    CAPI2_DISCONNECT_CONF   |-> Layout(<<D, W>>, 0),
    CAPI2_DISCONNECT_IND    |-> Layout(<<D, W>>, 0),
    CAPI2_DISCONNECT_RESP   |-> Layout(<<D>>, 0),
    CAPI2_FACILITY_REQ      |-> Layout(<<D, W>>, 1),
    CAPI2_FACILITY_CONF     |-> Layout(<<D, W, W>>, 1),
    CAPI2_FACILITY_IND      |-> Layout(<<D, W>>, 1) ]

(* CAPI 2.0: information, listening and the manufacturer's own messages.   *)
Info20 ==
  [ CAPI2_FACILITY_RESP |-> Layout(<<D, W>>, 1),
    CAPI2_INFO_REQ      |-> Layout(<<D>>, 2),
    CAPI2_INFO_CONF     |-> Layout(<<D, W>>, 0),
    CAPI2_INFO_IND      |-> Layout(<<D, W>>, 1),
    CAPI2_INFO_RESP     |-> Layout(<<D>>, 0),
    CAPI2_LISTEN_REQ    |-> Layout(<<D, D, D, D>>, 2),
    CAPI2_LISTEN_CONF   |-> Layout(<<D, W>>, 0),
    CAPI2_MANUFACT_REQ  |-> Layout(<<D, D>>, 1),
    CAPI2_MANUFACT_CONF |-> Layout(<<D, D>>, 1),
    CAPI2_MANUFACT_IND  |-> Layout(<<D, D>>, 1),
    CAPI2_MANUFACT_RESP |-> Layout(<<D, D>>, 1) ]

(* CAPI 2.0: resets and the choice of the protocols.                       *)
Resets20 ==
  [ CAPI2_RESETB3_REQ  |-> Layout(<<D>>, 1),
    CAPI2_RESETB3_CONF |-> Layout(<<D, W>>, 0),
    CAPI2_RESETB3_IND  |-> Layout(<<D>>, 1),
    CAPI2_RESETB3_RESP |-> Layout(<<D>>, 0),
    CAPI2_SELECTB_REQ  |-> Layout(<<D>>, 1),
    CAPI2_SELECTB_CONF |-> Layout(<<D, W>>, 0) ]

-----------------------------------------------------------------------------
Layouts11 == Calls11 @@ Info11 @@ Links11 @@ Data11 @@ Handset11 @@ Control

Layouts20 == Calls20 @@ Links20 @@ Ends20 @@ Info20 @@ Resets20

Layouts == Layouts11 @@ Layouts20 @@ Remote

Types == DOMAIN Layouts

(* sizeof of the C structure: the length byte of the first structure is    *)
(* part of it.                                                             *)
SizeOf(t) == Layouts[t].fixed + (IF Layouts[t].structs > 0 THEN B ELSE 0)

=============================================================================
