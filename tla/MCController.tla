---------------------------- MODULE MCController ----------------------------
(***************************************************************************)
(* Controller on small instances.  The sets named here are the requests,   *)
(* the options of requests and the faults of the runs; each .cfg chooses   *)
(* one of them for Ops.                                                    *)
(***************************************************************************)
EXTENDS Controller, TLC

\* Nodes and handlers are interchangeable: every CHOOSE is over job identifiers.
Symmetry == Permutations(Nodes) \cup Permutations(Handlers)

\* One node, every way a job ends.
QueueOps == {"create", "none", "edit", "delete", "retry", "loss", "crash",
             "unregister"}

\* Overlapping polls while what the jobs being sent depend on vanishes.
DispatchOps == {"upload", "targets", "deletecert", "update", "system", "timeout", "clear"}

\* Certificates the worker issues for a domain or nodes return, while the domain
\* is edited and the certificate deleted.
IssueOps == {"create", "acme", "adopt", "import", "config", "edit", "restart",
             "revoke", "deletecert"}

\* Certificates of their own, distributed to nodes.
DistributeOps == {"upload", "sync", "targets", "recovery", "retry", "revoke", "deletecert"}

\* Certificates and the domains that use them share the schedule of renewals.
RenewOps == {"upload", "issue", "create", "renew", "renewnow", "autorenew",
             "automation", "aging", "revoke"}

StuckOps  == {"create", "none", "delete", "edit", "retry", "clear"}
OrphanOps == {"create", "none", "delete", "revoke", "clear"}
InUseOps  == {"upload", "create", "acme", "none", "edit", "deletecert"}
=============================================================================
