SPECIFICATION Spec
CONSTANTS
  n1 = n1
  n2 = n2
  d1 = d1
  c1 = c1
  h1 = h1
  Nodes = {n1, n2}
  Domains = {d1}
  Certs = {c1}
  NoNode = NoNode
  NoDomain = NoDomain
  NoCert = NoCert
  MaxJobs = 3
  MaxAttempts = 1
  Handlers = {h1}
  MaxIssueAttempts = 1
  MaxResults = 1
  Ops <- DistributeOps
INVARIANTS
  RetriedOnce
  CertificatesInUseExist
SYMMETRY Symmetry
