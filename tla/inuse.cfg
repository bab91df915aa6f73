SPECIFICATION Spec
CONSTANTS
  n1 = n1
  d1 = d1
  c1 = c1
  h1 = h1
  Nodes = {n1}
  Domains = {d1}
  Certs = {c1}
  NoNode = NoNode
  NoDomain = NoDomain
  NoCert = NoCert
  MaxJobs = 4
  MaxAttempts = 2
  Handlers = {h1}
  MaxIssueAttempts = 3
  MaxResults = 1
  Ops <- InUseOps
INVARIANTS
  RemovedNotInUse
