CONSTANTS
  UINT_MAX = 255
  ULONG_MAX = 255
  USHRT_MAX = 255
  MaxCuts = 1
  MsgCuts = 2
  H2Headers <- H2Few
  H2Methods = {"GET"}
  H2Whole <- H2Dynamic
  H2Bodies = {1}
  H2MaxHeaders = 4
  H2Cuts = 0
  Cases = {}
  MsgCases = {}
  ApmEnv = {}
INIT HttpInit
NEXT HttpNext
INVARIANT H2RequestIsRead
CHECK_DEADLOCK FALSE
