---------------------------- MODULE MCCapiRegister -----------------------------
(* Two descriptors and three calls: one descriptor can be lost, or become an    *)
(* application, while a later call uses the other; then there is none.          *)
EXTENDS CapiRegister

MCFds == {3, 4}
================================================================================
