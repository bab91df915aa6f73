SPECIFICATION Spec
CONSTANTS
  n1 = n1
  d1 = d1
  c1 = c1
  h1 = h1
  h2 = h2
  Nodes = {n1}
  Domains = {d1}
  Certs = {c1}
  NoNode = NoNode
  NoDomain = NoDomain
  NoCert = NoCert
  MaxJobs = 3
  MaxAttempts = 1
  Handlers = {h1, h2}
  MaxIssueAttempts = 1
  MaxResults = 1
  Ops <- DispatchOps
INVARIANTS
  OneRunningJob
  PointerValid
SYMMETRY Symmetry
