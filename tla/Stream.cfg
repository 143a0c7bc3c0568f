SPECIFICATION FairSpec
CONSTANTS
  user = user
  telnet = telnet
  Threads = {user, telnet}
  Bytes <- MCBytes
  Writes <- MCWrites
  Codes <- MCCodes
  Values <- MCValues
  MaxMessages = 3
  MaxWire = 3
INVARIANTS
  BackToNormal
PROPERTIES
  ImplementsChannel
CHECK_DEADLOCK FALSE
