SPECIFICATION Spec
CONSTANTS
  Requests <- MCRequests
  Indications <- MCIndications
  MaxNumber = 1
  MaxTraces = 5
INVARIANTS  LossTold ErrorClear
CHECK_DEADLOCK FALSE
