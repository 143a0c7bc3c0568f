SPECIFICATION FairSpec
CONSTANTS
  None = None
  Native = {tty1, tty2}
  Url = {url}
  Platforms = {"posix", "win32"}
INVARIANTS
  OnlyCurrentOpen
PROPERTIES
  PortUndisturbed
  ExitEnds
CHECK_DEADLOCK FALSE
