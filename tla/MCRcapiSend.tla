------------------------------ MODULE MCRcapiSend ------------------------------
(* Three calls: the program's, the handler's within it, and the program's next. *)
(* The byte has four values, so that a frame of the second message, out of step, *)
(* announces lengths of its own.                                                 *)
EXTENDS RcapiSend

MCMsgs == {[prim |-> 0, par |-> <<>>, data |-> <<>>],
           [prim |-> 1, par |-> <<>>, data |-> <<3, 1>>]}
================================================================================
