SPECIFICATION Spec
CONSTANTS
  Order <- MCOrder
  Values <- MCValues
  Supported <- MCSupported
  Unsendable <- MCUnsendable
  Initial = "a"
  MaxCalls = 3
  MaxLines = 1
INVARIANTS
  SettingsArrive
  SuccessIsReal
  OrderlyRejectionIsReal
  AnswerOnItsWay
CHECK_DEADLOCK FALSE
