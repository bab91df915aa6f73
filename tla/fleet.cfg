SPECIFICATION Spec
CONSTANTS
  m1 = m1
  m2 = m2
  t1 = t1
  t2 = t2
  Machines <- MCMachines
  Own = m1
  Tokens <- MCTokens
  Releases <- MCReleases
  Starts <- MCStarts
  Batch = 5
  MaxNodes = 2
  None = None
INVARIANTS
  TypeOK
  TokenOnce
  CanaryFirst
PROPERTIES
  RevokedLeaves
