---------------------------- MODULE MCRcapiReceive -----------------------------
(* A byte of four values makes both bytes of a length count: a message with    *)
(* a parameter has a length of Base, a frame with data one of 2 * Base.        *)
EXTENDS RcapiReceive

MCMsgs == {[prim |-> 0, par |-> <<>>,  data |-> <<>>],
           [prim |-> 0, par |-> <<1>>, data |-> <<>>],
           [prim |-> 1, par |-> <<>>,  data |-> <<>>],
           [prim |-> 1, par |-> <<0>>, data |-> <<3, 1>>]}
================================================================================
