SPECIFICATION Spec
CONSTANTS
  d1 = d1
  d2 = d2
  c1 = c1
  c2 = c2
  Domains <- MCDomains
  Original <- MCDomains
  Certificates <- MCCertificates
  Shared = c1
  Plain <- MCPlain
  TLS <- MCTLS
  Refused = {"broken"}
  None = None
  Requests <- LocalRequests
  MaxJobs = 4
  MaxFaults = 0
  MaxCrashes = 0
CHECK_DEADLOCK FALSE
INVARIANT LocalEnsured
