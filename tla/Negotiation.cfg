SPECIFICATION FairSpec
CONSTANTS
  Links <- OptionLinks
  CodeOf <- CodeOfLink
  Order <- MCOrder
  ClientInit <- ClientTable
  ServerProfiles <- MCProfiles
  WeBinary <- MCWeBinary
  WeRfc2217 <- MCWeRfc2217
  CallbackLinks <- ServerCallbacks
  Togglable <- MCTogglable
  MaxToggles = 2
  NoLink = NoLink
INVARIANTS
  TypeOK
  NeverOneSided
  QuietAgreement
  OpenedMeansAgreed
PROPERTIES
  NegotiationEnds
CHECK_DEADLOCK FALSE
