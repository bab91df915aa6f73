SPECIFICATION FairSpec
CONSTANTS
  n1 = n1
  d1 = d1
  h1 = h1
  Nodes = {n1}
  Domains = {d1}
  Certs = {}
  NoNode = NoNode
  NoDomain = NoDomain
  NoCert = NoCert
  MaxJobs = 3
  MaxAttempts = 2
  Handlers = {h1}
  MaxIssueAttempts = 1
  MaxResults = 1
  Ops <- QueueOps
INVARIANTS
  AttemptsBounded
  InOrder
  DeletingHasDeleteJob
  RevokedIdle
PROPERTIES
  JobsRefined
  EveryJobEnds
  DeletionEnds
