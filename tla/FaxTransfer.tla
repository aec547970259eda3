------------------------------ MODULE FaxTransfer ------------------------------
(****************************************************************************)
(* What sending a fax promises: the blocks of the file go out in their order,*)
(* each once, and only a fax whose blocks have all gone out is ended as      *)
(* complete.  FaxSend (capifax) implements this.                             *)
(****************************************************************************)
EXTENDS Naturals, Sequences

CONSTANT MaxBlocks     \* bound: how many blocks a file has

VARIABLES size,        \* how many blocks the file has
          got,         \* the blocks that have gone out
          end          \* "open", "complete" or "aborted"

tvars == <<size, got, end>>

Init == size \in 0 .. MaxBlocks /\ got = <<>> /\ end = "open"

\* The next block goes out.
Take == /\ end = "open" /\ Len(got) < size
        /\ got' = Append(got, Len(got) + 1)
        /\ UNCHANGED <<size, end>>

\* The sender ends the fax.
Complete == /\ end = "open" /\ Len(got) = size
            /\ end' = "complete"
            /\ UNCHANGED <<size, got>>

\* The other side ends it, or nobody is there any more.
Abort == /\ end = "open"
         /\ end' = "aborted"
         /\ UNCHANGED <<size, got>>

Next == Take \/ Complete \/ Abort

Spec == Init /\ [][Next]_tvars
================================================================================
