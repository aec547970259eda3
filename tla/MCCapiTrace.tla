---------------------------- MODULE MCCapiTrace -----------------------------
(* One sample of every structure the messages carry.  Each message is put  *)
(* with all of its structures, with none, and with each one alone.         *)
EXTENDS CapiTrace

Leaf(bytes) == [lead |-> bytes, subs |-> <<>>]

MCTel1 == Leaf(<<128, 50, 51>>)
MCTel2 == Leaf(<<129, 160, 49, 48>>)
MCData == Leaf(<<7, 8, 9>>)
MCNcpi == Leaf(<<0, 3, 1, 16>>)
MCBc   == Leaf(<<4, 3>>)
MCHlc  == Leaf(<<145, 129>>)
MCXid  == Leaf(<<130>>)

MCB1     == Leaf([i \in 1..8 |-> 30 + i])
MCB1Modem == Leaf([i \in 1..12 |-> 30 + i])      \* b1config_modem
MCB2     == [lead |-> <<3, 1, 8, 7>>, subs |-> <<MCXid>>]
MCB3     == Leaf([i \in 1..16 |-> 60 + i])
MCB3Fax  == [lead |-> <<0, 0, 1, 0>>, subs |-> <<MCData, Leaf(<<72, 105>>)>>]
MCB(b3)  == [lead |-> <<1, 0, 1, 0, 4, 0>>, subs |-> <<MCB1, MCB2, b3>>]
MCBModem == [lead |-> <<7, 0, 7, 0, 7, 0>>, subs |-> <<MCB1Modem, MCB2, MCB3>>]
MCBPlain == [lead |-> <<0, 0, 0, 0, 0, 0>>, subs |-> <<None, None, None>>]

MCChannel(c) == [lead |-> <<4, 0>>, subs |-> c]
MCAdd(c) == [lead |-> <<>>, subs |-> <<MCChannel(c), Leaf(<<1, 2, 3>>), Leaf(<<4, 5, 6, 7>>),
                                       Leaf([i \in 1..6 |-> 80 + i])>>]

(* All the structures, none of them, and each one alone                    *)
Some(structs) ==
  {structs, [i \in DOMAIN structs |-> None]}
    \cup {[i \in DOMAIN structs |-> IF i = only THEN structs[i] ELSE None]
            : only \in DOMAIN structs}

Of(t, tag, structs) == {[type |-> t, tag |-> tag, structs |-> s] : s \in Some(structs)}

Plain(t) == Of(t, "", [i \in 1..Layouts[t].structs |-> MCData])

Each(types) == UNION {Plain(t) : t \in types}

MCNumbers11 ==
  {[type |-> "CAPI_CONNECT_REQ", tag |-> "", structs |-> s]
     : s \in {<<MCTel1, None>>, <<MCTel1, MCTel1>>, <<None, None>>}}
  \cup Of("CAPI_CONNECTINFO_REQ", "", <<MCTel1>>)
  \cup Of("CAPI_CONNECT_IND", "", <<MCTel1>>)
  \cup Of("CAPI_CONNECTACTIVE_IND", "", <<MCTel1>>)
  \cup Of("CAPI_GETPARAMS_CONF", "", <<MCTel1>>)

MCProtocols11 ==
  Of("CAPI_SELECTB2_REQ", "", <<[lead |-> <<0, 8, 3, 1, 8, 7>>, subs |-> <<MCXid>>]>>)
  \cup Of("CAPI_SELECTB2_REQ", "V110", <<[lead |-> <<0, 8, 3, 1, 8, 7, 5>>, subs |-> <<MCXid>>]>>)
  \cup Of("CAPI_SELECTB3_REQ", "X25", <<Leaf([i \in 1..13 |-> i])>>)
  \cup Of("CAPI_SELECTB3_REQ", "X25", <<Leaf([i \in 1..14 |-> i])>>)
  \cup Of("CAPI_SELECTB3_REQ", "T30", <<[lead |-> <<0, 1, 2, 3>>, subs |-> <<MCData, MCXid>>]>>)
  \cup Of("CAPI_SELECTB3_REQ", "", <<MCData>>)
  \cup Of("CAPI_DISCONNECTB3_IND", "fax", <<[lead |-> <<0, 5, 0, 9>>, subs |-> <<MCData, MCXid>>]>>)
  \cup Of("CAPI_DISCONNECTB3_IND", "", <<MCData>>)

MCCalls20 ==
  Of("CAPI2_CONNECT_REQ", "T30", <<MCTel1, MCTel2, MCTel1, MCTel1, MCB(MCB3Fax),
                                   MCBc, MCBc, MCHlc, MCAdd(<<>>)>>)
  \cup Of("CAPI2_CONNECT_REQ", "identified", <<MCTel1, MCTel2, MCTel1, MCTel1, MCB(MCB3),
                                               MCBc, MCBc, MCHlc, MCAdd(<<MCXid>>)>>)
  \cup Of("CAPI2_CONNECT_IND", "", <<MCTel1, MCTel2, MCTel1, MCTel1,
                                     MCBc, MCBc, MCHlc, MCAdd(<<>>)>>)
  \cup Of("CAPI2_CONNECT_RESP", "", <<MCB(MCB3), MCTel2, MCTel1, MCBc, MCAdd(<<>>)>>)
  \cup Of("CAPI2_CONNECT_RESP", "", <<MCBPlain, MCTel2, MCTel1, MCBc, MCAdd(<<>>)>>)
  \cup Of("CAPI2_CONNECTACTIVE_IND", "", <<MCTel2, MCTel1, MCBc>>)
  \cup Of("CAPI2_SELECTB_REQ", "T30", <<MCB(MCB3Fax)>>)
  \cup {[type |-> "CAPI2_SELECTB_REQ", tag |-> "", structs |-> <<MCBModem>>],
        [type |-> "CAPI2_CONNECT_RESP", tag |-> "",
         structs |-> <<MCBModem, MCTel2, MCTel1, MCBc, MCAdd(<<>>)>>]}
  \cup Of("CAPI2_ALERT_REQ", "", <<MCAdd(<<>>)>>)
  \cup Of("CAPI2_DISCONNECT_REQ", "identified", <<MCAdd(<<MCXid>>)>>)
  \cup Of("CAPI2_INFO_REQ", "", <<MCTel1, MCAdd(<<>>)>>)
  \cup Of("CAPI2_LISTEN_REQ", "", <<MCTel2, MCTel1>>)

MCNcpis20 ==
  UNION {Of(t, "", <<MCNcpi>>) :
           t \in {"CAPI2_CONNECTB3_REQ", "CAPI2_CONNECTB3_IND", "CAPI2_CONNECTB3_RESP",
                  "CAPI2_CONNECTB3ACTIVE_IND", "CAPI2_CONNECTB3T90ACTIVE_IND",
                  "CAPI2_DISCONNECTB3_REQ", "CAPI2_DISCONNECTB3_IND",
                  "CAPI2_RESETB3_REQ", "CAPI2_RESETB3_IND"}}

MCShaped == MCNumbers11 \cup MCProtocols11 \cup MCCalls20 \cup MCNcpis20

(* The messages the pair of library and dumper is known not to agree on:   *)
(* the control messages of the library lose their last byte, DTMF_REQ gets *)
(* one too many, the manufacturer's messages have no name, and a trace     *)
(* that is only a header is not printed.                                   *)
MCHeadersOnly == {"CAPI_GETMANUFACT_REQ", "CAPI_GETVERSION_REQ", "CAPI_GETSERIAL_REQ"}

MCDivergent ==
  {"CAPI_CONTROL_REQ", "CAPI_CONTROL_RESP", "CAPI_DTMF_REQ", "CAPI2_MANUFACT_REQ",
   "CAPI2_MANUFACT_CONF", "CAPI2_MANUFACT_IND", "CAPI2_MANUFACT_RESP"}
  \cup MCHeadersOnly

MCAll == MCShaped \cup Each(Types \ (MCDivergent \cup {x.type : x \in MCShaped}))

MCRequests    == {x \in MCAll : x.type \in DOMAIN Makes}
MCIndications == {x \in MCAll : x.type \notin DOMAIN Makes}

=============================================================================
