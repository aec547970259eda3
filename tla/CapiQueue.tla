------------------------------- MODULE CapiQueue -------------------------------
(****************************************************************************)
(* What the CAPI promises an application about its incoming messages        *)
(* (capidef.h, rcapi2.c: CAPI_GET_MESSAGE): a queue per application.  A     *)
(* call takes the oldest message or returns a code and leaves the queue     *)
(* alone.  RcapiReceive implements this queue over a TCP stream.            *)
(****************************************************************************)
EXTENDS Naturals, Sequences

CONSTANTS Msgs,     \* the messages of the controller
          Codes     \* the codes of a call that delivers nothing

VARIABLES sent,       \* all messages the controller has queued, oldest first
          delivered,  \* those the application has taken, in the order it took them
          result      \* the code of the application's last call

qvars == <<sent, delivered, result>>

Init == /\ sent = <<>>
        /\ delivered = <<>>
        /\ result = "OK"

\* The controller queues a message.
Queue(m) == /\ sent' = Append(sent, m)
            /\ UNCHANGED <<delivered, result>>

\* The application takes the oldest message.
Take == /\ Len(delivered) < Len(sent)
        /\ delivered' = Append(delivered, sent[Len(delivered) + 1])
        /\ result' = "OK"
        /\ UNCHANGED sent

\* A call comes back with a code instead of a message.
Refuse(code) == /\ result' = code
                /\ UNCHANGED <<sent, delivered>>

Next == \/ \E m \in Msgs : Queue(m)
        \/ Take
        \/ \E code \in Codes : Refuse(code)

Spec == Init /\ [][Next]_qvars
================================================================================
