------------------------------- MODULE MCFaxSend -------------------------------
EXTENDS FaxSend
================================================================================
