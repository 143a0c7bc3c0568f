SPECIFICATION PublisherFairSpec
CONSTANTS
  NoClient = NoClient
  N = 2
  c1 = c1
  c2 = c2
  Clients <- MCClients
  Worlds <- MCWorlds
  Burst = 1
  Full = 1
  Upsets = 1
PROPERTIES
  StartsAnew
  PluggedIsServed
  LostClientsAreTold
CHECK_DEADLOCK FALSE
