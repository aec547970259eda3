------------------------------ MODULE MCFaxRecv -------------------------------
EXTENDS FaxRecv
================================================================================
