SPECIFICATION Spec
CONSTANTS
  k1 = k1
  k2 = k2
  u1 = u1
  u2 = u2
  Updates <- MCUpdates
  Clients <- MCClients
  Address <- MCAddress
  PendingCap = 2
  AddressCap = 2
  ClientsCap = 1
  MaxRestarts = 1
  MayFail = TRUE
  None = None
INVARIANTS
  TypeOK
  NoLostSignal
  SlotsConserved
  ShownIsDurable
PROPERTIES
  EventuallyFresh
  StoreRefined
