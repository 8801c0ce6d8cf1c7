CONSTANTS
  UINT_MAX = 255
  ULONG_MAX = 255
  USHRT_MAX = 255
  MaxCuts = 1
  MsgCuts = 2
  H2Headers <- H2All
  H2Methods <- H2AllMethods
  H2Whole <- H2Static
  H2Bodies = {1, 2}
  H2MaxHeaders = 5
  H2Cuts = 1
  Cases <- ValueCases
  MsgCases <- MsgCasesMC
  ApmEnv <- MCApmEnv
INIT HttpInit
NEXT HttpNext
CONSTRAINT H2Plain
INVARIANTS ValuesRead MessageRight H2RequestIsRead MonitorRight
CHECK_DEADLOCK FALSE
