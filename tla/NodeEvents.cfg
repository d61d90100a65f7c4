SPECIFICATION FairSpec
CONSTANTS
  Listeners = {a, b, c}
  MaxCalls = 2
INVARIANTS TransactionsStayWhole GapFree DoneIsExact ReturnedIsSettled
PROPERTIES CallsReturn
CHECK_DEADLOCK FALSE
