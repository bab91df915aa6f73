---------------------------- MODULE ExecutorProofs ----------------------------
(***************************************************************************)
(* Proofs about the agent's jobs, for any domains, certificates, contents  *)
(* and requests, and any number of faults and crashes: no rule of the      *)
(* operator's file is lost, and a job that fails puts its files back.      *)
(***************************************************************************)
EXTENDS Executor, TLAPS

\* Where the job is, by its operation.
StepInv ==
  /\ step \in {"remove", "restore", "dropBackup"} => job.op = "delete"
  /\ step \in {"disable", "firstRemoval", "removal", "undoSite"} => job.op \in {"apply", "delete"}
  /\ step \in {"site", "undoSource", "undoBackup"} => job.op = "apply"
  /\ step \in {"undoChain", "undoKey"} =>
       job.op = "sync" \/ (job.op = "apply" /\ job.config \in TLS)
  /\ step \in {"chain", "key"} => InstallsCertificate(job) /\ job.op \in {"sync", "apply"}
  /\ job \in Requests

\* The backup is the original file, and the file is whole whenever there is none.  An apply
\* job has changed the file only while there is a backup to undo it from.
BackupInv ==
  /\ source \subseteq Original /\ backup \in {{}, Original}
  /\ backup = {} => source = Original
  /\ step = "firstRemoval" => source = Original
  /\ step \in {"firstRemoval", "removal", "undoSource"} => backup = Original
  /\ step \in {"dropBackup", "undoBackup"} => source = Original
  /\ job.op = "apply" /\ changed /\ step \in {"site", "test", "reload", "undoSite", "undoChain", "undoKey"}
       => backup = Original
  /\ job.op = "apply" /\ step \in {"chain", "key", "disable", "firstRemoval", "removal"} => ~changed

\* The certificate is not the job's.
Foreign == job.op \in {"delete", "reload"} \/ (job.op = "apply" /\ job.config \notin TLS)

\* The steps at which a failed job has put back the site, the chain and the key.
Restored(s) ==
  outcome = "failed" /\ step \in {"idle", "undoSource", "undoBackup", "undoReload"} \cup s

\* A file is as captured until the job writes it, and from when a failed job put it back.
FilesInv ==
  /\ \/ job.op \in {"sync", "reload"} \/ step \in {"chain", "key", "remove", "site"}
     \/ job.op = "apply" /\ step \in {"disable", "firstRemoval", "removal"}
     \/ Restored({"undoChain", "undoKey"})
     => site[dom] = saved.site
  /\ Foreign \/ step = "chain" \/ Restored({"undoKey"}) => chain[dom] = saved.chain
  /\ Foreign \/ step \in {"chain", "key"} \/ Restored({}) => key[dom] = saved.key

\* A job that puts files back has failed.
FailedInv ==
  /\ step \in {"undoSite", "undoChain", "undoKey", "undoSource", "undoBackup", "undoReload"}
       => outcome \in {"failed", "damaged"}
  /\ job.op = "delete" /\ step \in {"disable", "firstRemoval", "removal"} => outcome = "failed"

\* What the steps of a job so far have achieved.
PairInstalled ==
  /\ job.op = "sync" => chain[dom] = job.cert /\ key[dom] = job.cert
  /\ job.op = "apply" /\ job.config \in TLS =>
       chain[dom] = key[dom] /\ (job.cert \in Certificates => chain[dom] = job.cert)

RuleReturned == job.op = "delete" /\ job.take /\ dom \in Original => dom \in source

RuleRemoved == job.op = "apply" /\ job.take => dom \notin source

SiteWritten == job.op = "apply" => site[dom] = job.config

SiteRemoved == job.op = "delete" => site[dom] = None

WorkInv ==
  /\ step = "key" => chain[dom] = Installed
  /\ step \in {"site", "test", "reload"} => PairInstalled
  /\ job.op = "apply" /\ step \in {"disable", "firstRemoval", "removal"} => PairInstalled
  /\ step \in {"site", "test", "reload"} => RuleRemoved
  /\ step \in {"test", "reload"} => SiteWritten /\ RuleReturned
  /\ step \in {"restore", "dropBackup", "test", "reload"} => SiteRemoved

\* What the job found at its start is there: the rules of all other domains at any time; that
\* of its own in a managed site before the job, in the operator's file, or in the backup of it.
CapturedInv ==
  /\ dom \in saved.ruled => saved.site # None \/ dom \in Original
  /\ \A d \in saved.ruled : d # dom => site[d] # None \/ d \in source
  /\ job.op \in {"sync", "reload"} => saved.ruled \subseteq Ruled
  /\ job.op = "apply" /\ dom \in saved.ruled /\ saved.site = None /\ ~changed => dom \in source
  /\ clean => outcome \notin {"damaged", "interrupted"}
  /\ clean /\ step = "undoBackup" => site[dom] = saved.site
  /\ job.op = "apply" /\ step = "undoReload" /\ outcome = "failed" /\ dom \in saved.ruled =>
       site[dom] # None \/ dom \in source
  /\ RuleKept

ValidAt(d) ==
  site[d] \notin Refused /\ (site[d] \in TLS => chain[d] = key[d] /\ chain[d] # None)

\* Without interruptions, what nginx -t would refuse and what Nginx did not load yet are files
\* of the job's own domain, and what the job found there can be put back.
CleanInv ==
  clean =>
    /\ \A d \in Domains : d # dom \/ step \in {"idle", "reload"} => ValidAt(d)
    /\ \A d \in Domains : d # dom \/ step = "idle" => loaded.site[d] = site[d]
    /\ step # "idle" => loaded.site[dom] = saved.site
    /\ saved.site \notin Refused
    /\ saved.site \in TLS => saved.chain = saved.key /\ saved.chain # None
    /\ step = "key" /\ Copies => saved.chain = None

ExecutorInv == TypeOK /\ StepInv /\ BackupInv /\ FilesInv /\ FailedInv /\ WorkInv
               /\ SuccessInstalls /\ CapturedInv /\ CleanInv

-------------------------------------------------------------------------------
\* The type invariant without its Boolean variables, and they.
DataTypes ==
  /\ site \in [Domains -> Contents \cup {None}]
  /\ chain \in [Domains -> Certificates \cup {None}] /\ key \in [Domains -> Certificates \cup {None}]
  /\ source \in SUBSET Domains /\ backup \in SUBSET Domains
  /\ loaded \in Loaded /\ adopted \in SUBSET Domains
  /\ job \in Request /\ step \in Steps /\ saved \in Saved
  /\ outcome \in {"none", "ok", "failed", "unavailable", "damaged", "interrupted"}
  /\ sent \in 0..MaxJobs /\ faults \in 0..MaxFaults /\ crashes \in 0..MaxCrashes

Flags == changed \in BOOLEAN /\ again \in BOOLEAN /\ clean \in BOOLEAN

LEMMA TypeParts == TypeOK <=> DataTypes /\ Flags
  BY DEF TypeOK, DataTypes, Flags

LEMMA DataStep ==
  ASSUME DataTypes, StepInv, [Next]_vars
  PROVE  DataTypes'
<1>a. ASSUME DataTypes
      PROVE  /\ dom \in Domains /\ job.config \in Contents
             /\ saved.site \in Contents \cup {None}
             /\ saved.chain \in Certificates \cup {None} /\ saved.key \in Certificates \cup {None}
  BY DEF DataTypes, Request, Saved, dom
<1>b. ASSUME DataTypes
      PROVE  OnDisk \in Loaded
  BY DEF DataTypes, OnDisk, Loaded
<1>c. ASSUME DataTypes, StepInv, step \in {"chain", "key"}
      PROVE  Installed \in Certificates
  <2>1. job.cert \in Certificates \cup {"shared", "own"}
    BY DEF DataTypes, Request
  <2>3. job \in Requests /\ job.op \in {"sync", "apply"} /\ InstallsCertificate(job)
    BY <1>c DEF StepInv, InstallsCertificate
  <2>4. job.op = "sync" => job.cert \in Certificates
    BY <2>3, ExecutorAssumption
  <2>2. Shared \in Certificates
    BY ExecutorAssumption
  <2> QED BY <2>1, <2>2, <2>3, <2>4 DEF InstallsCertificate, Installed, Copies
<1>d. ASSUME NEW j \in Requests, DataTypes
      PROVE  j \in Request /\ j.domain \in Domains /\ Capture(j.domain) \in Saved
  <2>1. j \in Request /\ j.domain \in Domains
    BY ExecutorAssumption DEF Request
  <2>2. Ruled \in SUBSET Domains
    BY DEF Ruled, DataTypes
  <2> QED BY <2>1, <2>2 DEF DataTypes, Capture, Saved
<1> USE <1>a, <1>b, <1>c, ExecutorAssumption
        DEF DataTypes, Steps, managed, takeover, local, bounds, Fault, NoFault, Goto, GiveUp, Abort, FirstUndo
<1>1. ASSUME NEW j \in Requests, Execute(j)
      PROVE  DataTypes'
  BY <1>1, <1>d DEF Execute, Adoption, Unusable, FirstStep, AfterCertificate, InstallsCertificate
<1>2. CASE InstallChain
  BY <1>2 DEF InstallChain, CertificateFails
<1>3. CASE InstallKey
  BY <1>3 DEF InstallKey, CertificateFails, KeyInstalled, Writable, AfterCertificate
<1>4. CASE Disable
  BY <1>4 DEF Disable, Disabled, NotDisabled
<1>5. CASE FirstRemoval
  BY <1>5 DEF FirstRemoval, RemoveRule, Disabled, NotDisabled
<1>6. CASE Removal
  BY <1>6 DEF Removal, RemoveRule, Disabled, NotDisabled
<1>7. CASE WriteSite
  BY <1>7 DEF WriteSite
<1>8. CASE RemoveSite
  BY <1>8 DEF RemoveSite
<1>9. CASE RestoreRule
  BY <1>9 DEF RestoreRule
<1>10. CASE DropBackup
  BY <1>10 DEF DropBackup
<1>11. CASE Test
  BY <1>11 DEF Test, Rejected
<1>12. CASE Reload
  BY <1>12 DEF Reload, Rejected
<1>13. CASE UndoSite
  BY <1>13 DEF UndoSite, AfterUndoSite, AfterFiles, Undone, UndoFails
<1>14. CASE UndoChain
  BY <1>14 DEF UndoChain, Undone, UndoFails
<1>15. CASE UndoKey
  BY <1>15 DEF UndoKey, AfterFiles, Undone, UndoFails
<1>16. CASE UndoSource
  BY <1>16 DEF UndoSource, AfterTakeover, Undone, UndoFails
<1>17. CASE UndoBackup
  BY <1>17 DEF UndoBackup, AfterTakeover, Undone, UndoFails
<1>18. CASE UndoReload
  BY <1>18 DEF UndoReload
<1>19. CASE Crash
  BY <1>19 DEF Crash
<1>20. CASE UNCHANGED vars
  BY <1>20 DEF vars
<1> QED
  BY <1>1, <1>2, <1>3, <1>4, <1>5, <1>6, <1>7, <1>8, <1>9, <1>10,
     <1>11, <1>12, <1>13, <1>14, <1>15, <1>16, <1>17, <1>18, <1>19, <1>20 DEF Next, Forward, Backward

LEMMA FlagsStep ==
  ASSUME Flags, [Next]_vars
  PROVE  Flags'
<1> USE DEF Flags, managed, takeover, local, bounds, Goto, GiveUp, Abort
<1>1. ASSUME NEW j \in Requests, Execute(j)
      PROVE  Flags'
  BY <1>1 DEF Execute, Adoption, Unusable, FirstStep, AfterCertificate, InstallsCertificate
<1>2. CASE InstallChain
  BY <1>2 DEF InstallChain, CertificateFails, Writable
<1>3. CASE InstallKey
  BY <1>3 DEF InstallKey, CertificateFails, KeyInstalled, Writable, AfterCertificate
<1>4. CASE Disable
  BY <1>4 DEF Disable, Disabled, NotDisabled
<1>5. CASE FirstRemoval
  BY <1>5 DEF FirstRemoval, RemoveRule, Disabled, NotDisabled
<1>6. CASE Removal
  BY <1>6 DEF Removal, RemoveRule, Disabled, NotDisabled
<1>7. CASE WriteSite
  BY <1>7 DEF WriteSite
<1>8. CASE RemoveSite
  BY <1>8 DEF RemoveSite
<1>9. CASE RestoreRule
  BY <1>9 DEF RestoreRule
<1>10. CASE DropBackup
  BY <1>10 DEF DropBackup
<1>11. CASE Test
  BY <1>11 DEF Test, Rejected
<1>12. CASE Reload
  <2>1. CASE UNCHANGED again
    BY <1>12, <2>1 DEF Reload
  <2>2. CASE Rejected(job.op \in {"sync", "apply"})
    <3> DEFINE reloads == job.op \in {"sync", "apply"}
    <3>1. again' = again \/ again' = FALSE \/ again' = reloads
      BY <2>2, Zenon DEF Rejected
    <3>3. reloads \in BOOLEAN
      OBVIOUS
    <3>2. UNCHANGED <<changed, clean>>
      BY <1>12 DEF Reload
    <3> HIDE DEF reloads
    <3> QED BY <3>1, <3>2, <3>3
  <2> QED BY <1>12, <2>1, <2>2 DEF Reload
<1>13. CASE UndoSite
  BY <1>13 DEF UndoSite, AfterUndoSite, AfterFiles, Undone, UndoFails
<1>14. CASE UndoChain
  BY <1>14 DEF UndoChain, Undone, UndoFails
<1>15. CASE UndoKey
  BY <1>15 DEF UndoKey, AfterFiles, Undone, UndoFails
<1>16. CASE UndoSource
  BY <1>16 DEF UndoSource, AfterTakeover, Undone, UndoFails
<1>17. CASE UndoBackup
  BY <1>17 DEF UndoBackup, AfterTakeover, Undone, UndoFails
<1>18. CASE UndoReload
  BY <1>18 DEF UndoReload
<1>19. CASE Crash
  BY <1>19 DEF Crash
<1>20. CASE UNCHANGED vars
  BY <1>20 DEF vars
<1> QED
  BY <1>1, <1>2, <1>3, <1>4, <1>5, <1>6, <1>7, <1>8, <1>9, <1>10,
     <1>11, <1>12, <1>13, <1>14, <1>15, <1>16, <1>17, <1>18, <1>19, <1>20 DEF Next, Forward, Backward

LEMMA TypeStep ==
  ASSUME TypeOK, StepInv, [Next]_vars
  PROVE  TypeOK'
<1>1. DataTypes' /\ Flags'
  BY TypeParts, DataStep, FlagsStep
<1> QED BY <1>1 DEF TypeOK, DataTypes, Flags

LEMMA ProgressStep ==
  ASSUME TypeOK, StepInv, [Next]_vars
  PROVE  StepInv'
<1> USE ExecutorAssumption DEF TypeOK, StepInv, Request, Steps, managed, takeover, local, bounds, dom, Fault, NoFault, Goto, GiveUp, Abort, FirstUndo
<1>1. ASSUME NEW j \in Requests, Execute(j)
      PROVE  StepInv'
  BY <1>1 DEF Execute, Adoption, Unusable, FirstStep, AfterCertificate, InstallsCertificate, Capture, Ruled
<1>2. CASE InstallChain
  BY <1>2 DEF InstallChain, CertificateFails, InstallsCertificate, Copies, Installed, Writable
<1>3. CASE InstallKey
  BY <1>3 DEF InstallKey, CertificateFails, InstallsCertificate, KeyInstalled, Copies, Installed, Writable, AfterCertificate
<1>4. CASE Disable
  BY <1>4 DEF Disable, Disabled, NotDisabled
<1>5. CASE FirstRemoval
  BY <1>5 DEF FirstRemoval, RemoveRule, Disabled, NotDisabled
<1>6. CASE Removal
  BY <1>6 DEF Removal, RemoveRule, Disabled, NotDisabled
<1>7. CASE WriteSite
  BY <1>7 DEF WriteSite
<1>8. CASE RemoveSite
  BY <1>8 DEF RemoveSite
<1>9. CASE RestoreRule
  BY <1>9 DEF RestoreRule
<1>10. CASE DropBackup
  BY <1>10 DEF DropBackup
<1>11. CASE Test
  BY <1>11 DEF Test, Rejected
<1>12. CASE Reload
  BY <1>12 DEF Reload, Rejected, OnDisk
<1>13. CASE UndoSite
  BY <1>13 DEF UndoSite, AfterUndoSite, AfterFiles, Undone, UndoFails
<1>14. CASE UndoChain
  BY <1>14 DEF UndoChain, Undone, UndoFails
<1>15. CASE UndoKey
  BY <1>15 DEF UndoKey, AfterFiles, Undone, UndoFails
<1>16. CASE UndoSource
  BY <1>16 DEF UndoSource, AfterTakeover, Undone, UndoFails
<1>17. CASE UndoBackup
  BY <1>17 DEF UndoBackup, AfterTakeover, Undone, UndoFails
<1>18. CASE UndoReload
  BY <1>18 DEF UndoReload, OnDisk
<1>19. CASE Crash
  BY <1>19 DEF Crash
<1>20. CASE UNCHANGED vars
  BY <1>20 DEF vars
<1> QED
  BY <1>1, <1>2, <1>3, <1>4, <1>5, <1>6, <1>7, <1>8, <1>9, <1>10,
     <1>11, <1>12, <1>13, <1>14, <1>15, <1>16, <1>17, <1>18, <1>19, <1>20 DEF Next, Forward, Backward

LEMMA BackupStep ==
  ASSUME TypeOK, StepInv, BackupInv, [Next]_vars
  PROVE  BackupInv'
<1> USE ExecutorAssumption DEF TypeOK, StepInv, BackupInv, Request, Steps, managed, takeover, local, bounds, dom, Fault, NoFault, Goto, GiveUp, Abort, FirstUndo
<1>1. ASSUME NEW j \in Requests, Execute(j)
      PROVE  BackupInv'
  BY <1>1 DEF Execute, Adoption, Unusable, FirstStep, AfterCertificate, InstallsCertificate, Capture, Ruled
<1>2. CASE InstallChain
  BY <1>2 DEF InstallChain, CertificateFails, InstallsCertificate, Copies, Installed, Writable
<1>3. CASE InstallKey
  BY <1>3 DEF InstallKey, CertificateFails, InstallsCertificate, KeyInstalled, Copies, Installed, Writable, AfterCertificate
<1>4. CASE Disable
  BY <1>4 DEF Disable, Disabled, NotDisabled
<1>5. CASE FirstRemoval
  BY <1>5 DEF FirstRemoval, RemoveRule, Disabled, NotDisabled
<1>6. CASE Removal
  BY <1>6 DEF Removal, RemoveRule, Disabled, NotDisabled
<1>7. CASE WriteSite
  BY <1>7 DEF WriteSite
<1>8. CASE RemoveSite
  BY <1>8 DEF RemoveSite
<1>9. CASE RestoreRule
  BY <1>9 DEF RestoreRule
<1>10. CASE DropBackup
  BY <1>10 DEF DropBackup
<1>11. CASE Test
  BY <1>11 DEF Test, Rejected
<1>12. CASE Reload
  BY <1>12 DEF Reload, Rejected, OnDisk
<1>13. CASE UndoSite
  BY <1>13 DEF UndoSite, AfterUndoSite, AfterFiles, Undone, UndoFails
<1>14. CASE UndoChain
  BY <1>14 DEF UndoChain, Undone, UndoFails
<1>15. CASE UndoKey
  BY <1>15 DEF UndoKey, AfterFiles, Undone, UndoFails
<1>16. CASE UndoSource
  BY <1>16 DEF UndoSource, AfterTakeover, Undone, UndoFails
<1>17. CASE UndoBackup
  BY <1>17 DEF UndoBackup, AfterTakeover, Undone, UndoFails
<1>18. CASE UndoReload
  BY <1>18 DEF UndoReload, OnDisk
<1>19. CASE Crash
  BY <1>19 DEF Crash
<1>20. CASE UNCHANGED vars
  BY <1>20 DEF vars
<1> QED
  BY <1>1, <1>2, <1>3, <1>4, <1>5, <1>6, <1>7, <1>8, <1>9, <1>10,
     <1>11, <1>12, <1>13, <1>14, <1>15, <1>16, <1>17, <1>18, <1>19, <1>20 DEF Next, Forward, Backward

LEMMA FilesStep ==
  ASSUME TypeOK, StepInv, FilesInv, [Next]_vars
  PROVE  FilesInv'
<1> USE ExecutorAssumption DEF TypeOK, StepInv, FilesInv, Foreign, Restored, Request, Steps, managed, takeover, local, bounds, dom, Fault, NoFault, Goto, GiveUp, Abort, FirstUndo
<1>1. ASSUME NEW j \in Requests, Execute(j)
      PROVE  FilesInv'
  BY <1>1 DEF Execute, Adoption, Unusable, FirstStep, AfterCertificate, InstallsCertificate, Capture, Ruled
<1>2. CASE InstallChain
  BY <1>2 DEF InstallChain, CertificateFails, InstallsCertificate, Copies, Installed, Writable
<1>3. CASE InstallKey
  BY <1>3 DEF InstallKey, CertificateFails, InstallsCertificate, KeyInstalled, Copies, Installed, Writable, AfterCertificate
<1>4. CASE Disable
  BY <1>4 DEF Disable, Disabled, NotDisabled
<1>5. CASE FirstRemoval
  BY <1>5 DEF FirstRemoval, RemoveRule, Disabled, NotDisabled
<1>6. CASE Removal
  BY <1>6 DEF Removal, RemoveRule, Disabled, NotDisabled
<1>7. CASE WriteSite
  BY <1>7 DEF WriteSite
<1>8. CASE RemoveSite
  BY <1>8 DEF RemoveSite
<1>9. CASE RestoreRule
  BY <1>9 DEF RestoreRule
<1>10. CASE DropBackup
  BY <1>10 DEF DropBackup
<1>11. CASE Test
  BY <1>11 DEF Test, Rejected
<1>12. CASE Reload
  BY <1>12 DEF Reload, Rejected, OnDisk
<1>13. CASE UndoSite
  BY <1>13 DEF UndoSite, AfterUndoSite, AfterFiles, Undone, UndoFails
<1>14. CASE UndoChain
  BY <1>14 DEF UndoChain, Undone, UndoFails
<1>15. CASE UndoKey
  BY <1>15 DEF UndoKey, AfterFiles, Undone, UndoFails
<1>16. CASE UndoSource
  BY <1>16 DEF UndoSource, AfterTakeover, Undone, UndoFails
<1>17. CASE UndoBackup
  BY <1>17 DEF UndoBackup, AfterTakeover, Undone, UndoFails
<1>18. CASE UndoReload
  BY <1>18 DEF UndoReload, OnDisk
<1>19. CASE Crash
  BY <1>19 DEF Crash
<1>20. CASE UNCHANGED vars
  BY <1>20 DEF vars
<1> QED
  BY <1>1, <1>2, <1>3, <1>4, <1>5, <1>6, <1>7, <1>8, <1>9, <1>10,
     <1>11, <1>12, <1>13, <1>14, <1>15, <1>16, <1>17, <1>18, <1>19, <1>20 DEF Next, Forward, Backward

LEMMA FailedStep ==
  ASSUME TypeOK, StepInv, FailedInv, [Next]_vars
  PROVE  FailedInv'
<1> USE ExecutorAssumption
        DEF StepInv, FailedInv,
            managed, takeover, local, bounds, Fault, NoFault, Goto, GiveUp, Abort, FirstUndo
<1>1. ASSUME NEW j \in Requests, Execute(j)
      PROVE  FailedInv'
  BY <1>1 DEF Execute, Adoption, Unusable, FirstStep, AfterCertificate, InstallsCertificate
<1>2. CASE InstallChain
  BY <1>2 DEF InstallChain, CertificateFails, InstallsCertificate, Copies, Installed
<1>3. CASE InstallKey
  BY <1>3 DEF InstallKey, CertificateFails, InstallsCertificate, KeyInstalled, Copies, Installed, AfterCertificate
<1>4. CASE Disable
  BY <1>4 DEF Disable, Disabled, NotDisabled
<1>5. CASE FirstRemoval
  BY <1>5 DEF FirstRemoval, RemoveRule, Disabled, NotDisabled
<1>6. CASE Removal
  BY <1>6 DEF Removal, RemoveRule, Disabled, NotDisabled
<1>7. CASE WriteSite
  BY <1>7 DEF WriteSite
<1>8. CASE RemoveSite
  BY <1>8 DEF RemoveSite
<1>9. CASE RestoreRule
  BY <1>9 DEF RestoreRule
<1>10. CASE DropBackup
  BY <1>10 DEF DropBackup
<1>11. CASE Test
  BY <1>11 DEF Test, Rejected
<1>12. CASE Reload
  BY <1>12 DEF Reload, Rejected, OnDisk
<1>13. CASE UndoSite
  BY <1>13 DEF UndoSite, AfterUndoSite, AfterFiles, Undone, UndoFails
<1>14. CASE UndoChain
  BY <1>14 DEF UndoChain, Undone, UndoFails
<1>15. CASE UndoKey
  BY <1>15 DEF UndoKey, AfterFiles, Undone, UndoFails
<1>16. CASE UndoSource
  BY <1>16 DEF UndoSource, AfterTakeover, Undone, UndoFails
<1>17. CASE UndoBackup
  BY <1>17 DEF UndoBackup, AfterTakeover, Undone, UndoFails
<1>18. CASE UndoReload
  BY <1>18 DEF UndoReload, OnDisk
<1>19. CASE Crash
  BY <1>19 DEF Crash
<1>20. CASE UNCHANGED vars
  BY <1>20 DEF vars
<1> QED
  BY <1>1, <1>2, <1>3, <1>4, <1>5, <1>6, <1>7, <1>8, <1>9, <1>10,
     <1>11, <1>12, <1>13, <1>14, <1>15, <1>16, <1>17, <1>18, <1>19, <1>20 DEF Next, Forward, Backward

LEMMA WorkStep ==
  ASSUME TypeOK, StepInv, BackupInv, FailedInv, WorkInv, [Next]_vars
  PROVE  WorkInv'
<1> USE ExecutorAssumption
        DEF TypeOK, StepInv, BackupInv, FailedInv, WorkInv, PairInstalled, RuleReturned,
            RuleRemoved, SiteWritten, SiteRemoved, Request, dom, Installed, Copies,
            managed, takeover, local, bounds, Fault, NoFault, Goto, GiveUp, Abort, FirstUndo
<1>1. ASSUME NEW j \in Requests, Execute(j)
      PROVE  WorkInv'
  BY <1>1 DEF Execute, Adoption, Unusable, FirstStep, AfterCertificate, InstallsCertificate
<1>2. CASE InstallChain
  BY <1>2 DEF InstallChain, CertificateFails, InstallsCertificate, Copies, Installed
<1>3. CASE InstallKey
  BY <1>3 DEF InstallKey, CertificateFails, InstallsCertificate, KeyInstalled, Copies, Installed, AfterCertificate
<1>4. CASE Disable
  BY <1>4 DEF Disable, Disabled, NotDisabled
<1>5. CASE FirstRemoval
  BY <1>5 DEF FirstRemoval, RemoveRule, Disabled, NotDisabled
<1>6. CASE Removal
  BY <1>6 DEF Removal, RemoveRule, Disabled, NotDisabled
<1>7. CASE WriteSite
  BY <1>7 DEF WriteSite
<1>8. CASE RemoveSite
  BY <1>8 DEF RemoveSite
<1>9. CASE RestoreRule
  BY <1>9 DEF RestoreRule
<1>10. CASE DropBackup
  BY <1>10 DEF DropBackup
<1>11. CASE Test
  BY <1>11 DEF Test, Rejected
<1>12. CASE Reload
  BY <1>12 DEF Reload, Rejected, OnDisk
<1>13. CASE UndoSite
  BY <1>13 DEF UndoSite, AfterUndoSite, AfterFiles, Undone, UndoFails
<1>14. CASE UndoChain
  BY <1>14 DEF UndoChain, Undone, UndoFails
<1>15. CASE UndoKey
  BY <1>15 DEF UndoKey, AfterFiles, Undone, UndoFails
<1>16. CASE UndoSource
  BY <1>16 DEF UndoSource, AfterTakeover, Undone, UndoFails
<1>17. CASE UndoBackup
  BY <1>17 DEF UndoBackup, AfterTakeover, Undone, UndoFails
<1>18. CASE UndoReload
  BY <1>18 DEF UndoReload, OnDisk
<1>19. CASE Crash
  BY <1>19 DEF Crash
<1>20. CASE UNCHANGED vars
  BY <1>20 DEF vars
<1> QED
  BY <1>1, <1>2, <1>3, <1>4, <1>5, <1>6, <1>7, <1>8, <1>9, <1>10,
     <1>11, <1>12, <1>13, <1>14, <1>15, <1>16, <1>17, <1>18, <1>19, <1>20 DEF Next, Forward, Backward

LEMMA SuccessStep ==
  ASSUME TypeOK, StepInv, FailedInv, WorkInv, SuccessInstalls, [Next]_vars
  PROVE  SuccessInstalls'
<1> USE ExecutorAssumption
        DEF TypeOK, StepInv, FailedInv, WorkInv, SuccessInstalls, PairInstalled, RuleReturned,
            RuleRemoved, SiteWritten, SiteRemoved, Request, dom, OnDisk, Installed, Copies,
            managed, takeover, local, bounds, Fault, NoFault, Goto, GiveUp, Abort, FirstUndo
<1>1. ASSUME NEW j \in Requests, Execute(j)
      PROVE  SuccessInstalls'
  BY <1>1 DEF Execute, Adoption, Unusable, FirstStep, AfterCertificate, InstallsCertificate
<1>2. CASE InstallChain
  BY <1>2 DEF InstallChain, CertificateFails, InstallsCertificate, Copies, Installed
<1>3. CASE InstallKey
  BY <1>3 DEF InstallKey, CertificateFails, InstallsCertificate, KeyInstalled, Copies, Installed, AfterCertificate
<1>4. CASE Disable
  BY <1>4 DEF Disable, Disabled, NotDisabled
<1>5. CASE FirstRemoval
  BY <1>5 DEF FirstRemoval, RemoveRule, Disabled, NotDisabled
<1>6. CASE Removal
  BY <1>6 DEF Removal, RemoveRule, Disabled, NotDisabled
<1>7. CASE WriteSite
  BY <1>7 DEF WriteSite
<1>8. CASE RemoveSite
  BY <1>8 DEF RemoveSite
<1>9. CASE RestoreRule
  BY <1>9 DEF RestoreRule
<1>10. CASE DropBackup
  BY <1>10 DEF DropBackup
<1>11. CASE Test
  BY <1>11 DEF Test, Rejected
<1>12. CASE Reload
  BY <1>12 DEF Reload, Rejected, OnDisk
<1>13. CASE UndoSite
  BY <1>13 DEF UndoSite, AfterUndoSite, AfterFiles, Undone, UndoFails
<1>14. CASE UndoChain
  BY <1>14 DEF UndoChain, Undone, UndoFails
<1>15. CASE UndoKey
  BY <1>15 DEF UndoKey, AfterFiles, Undone, UndoFails
<1>16. CASE UndoSource
  BY <1>16 DEF UndoSource, AfterTakeover, Undone, UndoFails
<1>17. CASE UndoBackup
  BY <1>17 DEF UndoBackup, AfterTakeover, Undone, UndoFails
<1>18. CASE UndoReload
  BY <1>18 DEF UndoReload, OnDisk
<1>19. CASE Crash
  BY <1>19 DEF Crash
<1>20. CASE UNCHANGED vars
  BY <1>20 DEF vars
<1> QED
  BY <1>1, <1>2, <1>3, <1>4, <1>5, <1>6, <1>7, <1>8, <1>9, <1>10,
     <1>11, <1>12, <1>13, <1>14, <1>15, <1>16, <1>17, <1>18, <1>19, <1>20 DEF Next, Forward, Backward

LEMMA CapturedStep ==
  ASSUME TypeOK, StepInv, BackupInv, FilesInv, FailedInv, WorkInv, CapturedInv, [Next]_vars
  PROVE  CapturedInv'
<1>t. /\ site \in [Domains -> Contents \cup {None}] /\ dom \in Domains
      /\ saved.ruled \subseteq Domains /\ source \subseteq Domains /\ job.config # None
  BY ExecutorAssumption DEF TypeOK, Saved, Request, dom
<1>o. job.op \in {"apply", "delete", "sync", "reload"}
  BY DEF TypeOK, Request
<1>e. \A x : /\ [site EXCEPT ![dom] = x][dom] = x
             /\ \A d \in Domains \ {dom} : [site EXCEPT ![dom] = x][d] = site[d]
  BY <1>t
<1> USE <1>t, <1>o
        DEF StepInv, BackupInv, FilesInv, Foreign, Restored, FailedInv, WorkInv, CapturedInv,
            RuleKept, Ruled, SiteWritten, dom,
            managed, takeover, local, bounds, Fault, NoFault, Goto, GiveUp, Abort, FirstUndo
<1>1. ASSUME NEW j \in Requests, Execute(j)
      PROVE  CapturedInv'
  BY <1>1, ExecutorAssumption DEF Execute, Adoption, Unusable, FirstStep, AfterCertificate, InstallsCertificate, Capture, TypeOK
<1>2. CASE InstallChain
  BY <1>2 DEF InstallChain, CertificateFails, InstallsCertificate
<1>3. CASE InstallKey
  BY <1>3 DEF InstallKey, CertificateFails, InstallsCertificate, KeyInstalled, AfterCertificate
<1>4. CASE Disable
  BY <1>4 DEF Disable, Disabled, NotDisabled
<1>5. CASE FirstRemoval
  BY <1>5 DEF FirstRemoval, RemoveRule, Disabled, NotDisabled
<1>6. CASE Removal
  BY <1>6 DEF Removal, RemoveRule, Disabled, NotDisabled
<1>7. CASE WriteSite
  BY <1>7, <1>e DEF WriteSite
<1>8. CASE RemoveSite
  BY <1>8, <1>e DEF RemoveSite
<1>9. CASE RestoreRule
  BY <1>9 DEF RestoreRule
<1>10. CASE DropBackup
  BY <1>10 DEF DropBackup
<1>11. CASE Test
  BY <1>11 DEF Test, Rejected
<1>12. CASE Reload
  BY <1>12 DEF Reload, Rejected
<1>13. CASE UndoSite
  BY <1>13, <1>e DEF UndoSite, AfterUndoSite, AfterFiles, Undone, UndoFails
<1>14. CASE UndoChain
  BY <1>14 DEF UndoChain, Undone, UndoFails
<1>15. CASE UndoKey
  BY <1>15 DEF UndoKey, AfterFiles, Undone, UndoFails
<1>16. CASE UndoSource
  BY <1>16 DEF UndoSource, AfterTakeover, Undone, UndoFails
<1>17. CASE UndoBackup
  BY <1>17 DEF UndoBackup, AfterTakeover, Undone, UndoFails
<1>18. CASE UndoReload
  BY <1>18 DEF UndoReload
<1>19. CASE Crash
  BY <1>19 DEF Crash
<1>20. CASE UNCHANGED vars
  BY <1>20 DEF vars
<1> QED
  BY <1>1, <1>2, <1>3, <1>4, <1>5, <1>6, <1>7, <1>8, <1>9, <1>10,
     <1>11, <1>12, <1>13, <1>14, <1>15, <1>16, <1>17, <1>18, <1>19, <1>20 DEF Next, Forward, Backward

LEMMA CleanStep ==
  ASSUME TypeOK, StepInv, BackupInv, FilesInv, FailedInv, WorkInv, CapturedInv, CleanInv, [Next]_vars
  PROVE  CleanInv'
<1>t. /\ site \in [Domains -> Contents \cup {None}] /\ dom \in Domains
      /\ chain \in [Domains -> Certificates \cup {None}]
      /\ key \in [Domains -> Certificates \cup {None}]
      /\ None \notin Certificates /\ None \notin TLS
  BY ExecutorAssumption DEF TypeOK, Request, Contents, dom
<1>o. job.op \in {"apply", "delete", "sync", "reload"}
  BY DEF TypeOK, Request
<1>c. job.op = "sync" => Installed # None
  BY ExecutorAssumption DEF StepInv, Installed, Copies
<1>e. \A f \in {site, chain, key} : \A x :
        /\ [f EXCEPT ![dom] = x][dom] = x
        /\ \A d \in Domains \ {dom} : [f EXCEPT ![dom] = x][d] = f[d]
  BY <1>t
<1> USE <1>t, <1>o
        DEF StepInv, BackupInv, FilesInv, Foreign, Restored, FailedInv, WorkInv, CapturedInv, CleanInv, ValidAt,
            Copies, PairInstalled, dom,
            managed, takeover, local, bounds, Fault, NoFault, Goto, GiveUp, Abort, FirstUndo
<1>1. ASSUME NEW j \in Requests, Execute(j)
      PROVE  CleanInv'
  <2>1. j.domain \in Domains
    BY ExecutorAssumption DEF Request
  <2>2. /\ step = "idle" /\ step' \notin {"key", "reload"} /\ dom' = j.domain
        /\ saved' = Capture(j.domain) /\ UNCHANGED <<site, chain, key, loaded, clean>>
    BY <1>1 DEF Execute, FirstStep, AfterCertificate
  <2>3. clean => \A d \in Domains : ValidAt(d) /\ loaded.site[d] = site[d]
    BY <2>2
  <2>4. clean' => \A d \in Domains : ValidAt(d)' /\ (loaded.site[d] = site[d])'
    BY <2>2, <2>3
  <2> QED BY <2>1, <2>2, <2>3, <2>4 DEF Capture
<1>2. CASE InstallChain
  BY <1>2, <1>e DEF InstallChain, CertificateFails, InstallsCertificate, Writable, Installed
<1>3. CASE InstallKey
  <2>1. /\ step = "key" /\ step' \notin {"key", "reload"}
        /\ UNCHANGED <<site, chain, loaded, saved, job, clean>>
    BY <1>3 DEF InstallKey, CertificateFails, KeyInstalled, AfterCertificate
  <2>2. key' = [key EXCEPT ![dom] = Installed] \/ UNCHANGED key
    BY <1>3 DEF InstallKey
  <2>3. clean => \A d \in Domains : d # dom => ValidAt(d)' /\ (loaded.site[d] = site[d])'
    BY <2>1, <2>2, <1>e
  <2>4. ASSUME clean, step' = "idle"
        PROVE  ValidAt(dom)' /\ loaded.site[dom] = site[dom]
    <3>1. site[dom] = saved.site /\ loaded.site[dom] = saved.site /\ chain[dom] = Installed
      BY <2>1, <2>4
    <3>2. CASE job.op = "sync" /\ key' = [key EXCEPT ![dom] = Installed]
      <4>1. chain'[dom] = key'[dom]
        BY <2>1, <3>1, <3>2, <1>e
      <4>2. Installed # None
        BY <3>2, <1>c
      <4> QED BY <2>1, <2>4, <3>1, <4>1, <4>2
    <3>3. CASE Copies
      BY <2>1, <2>4, <3>1, <3>3
    <3>4. (job.op = "sync" /\ key' = [key EXCEPT ![dom] = Installed]) \/ Copies
      BY <1>3, <2>4 DEF InstallKey, CertificateFails, KeyInstalled, AfterCertificate, Writable,
                       InstallsCertificate
    <3> QED BY <3>2, <3>3, <3>4
  <2> QED BY <2>1, <2>3, <2>4
<1>4. CASE Disable
  BY <1>4 DEF Disable, Disabled, NotDisabled
<1>5. CASE FirstRemoval
  BY <1>5 DEF FirstRemoval, RemoveRule, Disabled, NotDisabled
<1>6. CASE Removal
  BY <1>6 DEF Removal, RemoveRule, Disabled, NotDisabled
<1>7. CASE WriteSite
  BY <1>7, <1>e DEF WriteSite
<1>8. CASE RemoveSite
  BY <1>8, <1>e DEF RemoveSite
<1>9. CASE RestoreRule
  BY <1>9 DEF RestoreRule
<1>10. CASE DropBackup
  BY <1>10 DEF DropBackup
<1>11. CASE Test
  BY <1>11, <1>e DEF Test, Rejected, Valid
<1>12. CASE Reload
  BY <1>12, <1>e DEF Reload, Rejected, OnDisk
<1>13. CASE UndoSite
  <2>1. CASE ~clean'
    BY <2>1
  <2>2. ASSUME clean'
        PROVE  CleanInv'
    <3>1. /\ clean /\ outcome = "failed" /\ step = "undoSite"
          /\ site' = [site EXCEPT ![dom] = saved.site]
          /\ UNCHANGED <<chain, key, loaded, saved, job>> /\ step' \notin {"key", "reload"}
      BY <1>13, <2>2 DEF UndoSite, AfterUndoSite, AfterFiles, Undone, UndoFails
    <3>2. \A d \in Domains : d # dom => ValidAt(d)' /\ (loaded.site[d] = site[d])'
      BY <3>1, <1>e
    <3>3. step' = "idle" => ValidAt(dom)' /\ (loaded.site[dom] = site[dom])'
      BY <1>13, <3>1, <1>e DEF UndoSite, AfterFiles, AfterUndoSite
    <3> QED BY <3>1, <3>2, <3>3
  <2> QED BY <2>1, <2>2
<1>14. CASE UndoChain
  <2>1. CASE ~clean'
    BY <2>1
  <2>2. ASSUME clean'
        PROVE  CleanInv'
    <3>1. /\ clean /\ outcome = "failed" /\ step = "undoChain"
          /\ chain' = [chain EXCEPT ![dom] = saved.chain]
          /\ UNCHANGED <<site, key, loaded, saved, job>> /\ step' \notin {"key", "reload"}
      BY <1>14, <2>2 DEF UndoChain, Undone, UndoFails
    <3>2. \A d \in Domains : d # dom => ValidAt(d)' /\ (loaded.site[d] = site[d])'
      BY <3>1, <1>e
    <3>3. step' = "idle" => ValidAt(dom)' /\ (loaded.site[dom] = site[dom])'
      BY <1>14, <3>1, <1>e DEF UndoChain, AfterFiles, AfterUndoSite
    <3> QED BY <3>1, <3>2, <3>3
  <2> QED BY <2>1, <2>2
<1>15. CASE UndoKey
  <2>1. CASE ~clean'
    BY <2>1
  <2>2. ASSUME clean'
        PROVE  CleanInv'
    <3>1. /\ clean /\ outcome = "failed" /\ step = "undoKey"
          /\ key' = [key EXCEPT ![dom] = saved.key]
          /\ UNCHANGED <<site, chain, loaded, saved, job>> /\ step' \notin {"key", "reload"}
      BY <1>15, <2>2 DEF UndoKey, AfterFiles, Undone, UndoFails
    <3>2. \A d \in Domains : d # dom => ValidAt(d)' /\ (loaded.site[d] = site[d])'
      BY <3>1, <1>e
    <3>3. step' = "idle" => ValidAt(dom)' /\ (loaded.site[dom] = site[dom])'
      BY <1>15, <3>1, <1>e DEF UndoKey, AfterFiles, AfterUndoSite
    <3> QED BY <3>1, <3>2, <3>3
  <2> QED BY <2>1, <2>2
<1>16. CASE UndoSource
  BY <1>16 DEF UndoSource, AfterTakeover, Undone, UndoFails
<1>17. CASE UndoBackup
  BY <1>17 DEF UndoBackup, AfterTakeover, Undone, UndoFails
<1>18. CASE UndoReload
  BY <1>18, <1>e DEF UndoReload, OnDisk
<1>19. CASE Crash
  BY <1>19 DEF Crash
<1>20. CASE UNCHANGED vars
  BY <1>20 DEF vars
<1> QED
  BY <1>1, <1>2, <1>3, <1>4, <1>5, <1>6, <1>7, <1>8, <1>9, <1>10,
     <1>11, <1>12, <1>13, <1>14, <1>15, <1>16, <1>17, <1>18, <1>19, <1>20 DEF Next, Forward, Backward

LEMMA Initially == Init => ExecutorInv
<1> SUFFICES ASSUME Init PROVE ExecutorInv
  OBVIOUS
<1>1. job \in Requests /\ job \in Request
  BY ExecutorAssumption DEF Init
<1> QED
  <2>1. StepInv /\ BackupInv /\ FilesInv
    BY <1>1, ExecutorAssumption DEF Init, StepInv, BackupInv, FilesInv, Foreign, Restored, Capture, dom
  <2>5. FailedInv /\ WorkInv /\ SuccessInstalls
    BY DEF Init, FailedInv, WorkInv, SuccessInstalls
  <2>6. CapturedInv
    BY <1>1, ExecutorAssumption DEF Init, CapturedInv, RuleKept, Capture, Ruled, Request, dom
  <2>2. loaded \in Loaded /\ saved \in Saved
    BY <1>1, ExecutorAssumption DEF Init, Loaded, Saved, OnDisk, Capture, Ruled, Request
  <2>3. DataTypes
    BY <1>1, <2>2, ExecutorAssumption DEF Init, DataTypes, Steps
  <2>4. Flags
    BY DEF Init, Flags
  <2>7. CleanInv
    BY <1>1, ExecutorAssumption
       DEF Init, CleanInv, ValidAt, Capture, Ruled, Request, Contents, OnDisk, dom
  <2> QED BY <2>1, <2>3, <2>4, <2>5, <2>6, <2>7, TypeParts DEF ExecutorInv

LEMMA Preserved == ExecutorInv /\ [Next]_vars => ExecutorInv'
  BY TypeStep, ProgressStep, BackupStep, FilesStep, FailedStep, WorkStep, SuccessStep,
     CapturedStep, CleanStep DEF ExecutorInv

LEMMA AlwaysExecutorInv == Spec => []ExecutorInv
  BY Initially, Preserved, PTL DEF Spec

-------------------------------------------------------------------------------
\* The state of the machine and of the job always has the values the code can store.
THEOREM TypeCorrect == Spec => []TypeOK
  BY AlwaysExecutorInv, PTL DEF ExecutorInv

LEMMA OriginalOfInv == ExecutorInv => OriginalRecoverable
  BY DEF ExecutorInv, BackupInv, OriginalRecoverable

\* No rule of the operator's file is ever lost, with any number of takeovers, faults and
\* crashes: backup and removal in disableTakeoverConfig, restoreTakeoverConfig and the undoing
\* of either never leave a moment at which neither file has it.
THEOREM OriginalKept == Spec => []OriginalRecoverable
  BY AlwaysExecutorInv, OriginalOfInv, PTL

LEMMA RestoresOfInv == ExecutorInv => FailureRestores
  BY DEF ExecutorInv, FilesInv, Restored, FailureRestores

\* A job that reports a failure leaves site, chain and key of its domain as captureFiles found
\* them: every error path of applyDomain, deleteDomain and syncCertificate undoes what was
\* written before it, unless undoing failed, too.
THEOREM FailureUndone == Spec => []FailureRestores
  BY AlwaysExecutorInv, RestoresOfInv, PTL

\* A job that reports success has installed what it was sent, or has removed the site and
\* returned the operator's rule, whatever interrupted jobs left behind.
THEOREM SuccessIsReal == Spec => []SuccessInstalls
  BY AlwaysExecutorInv, PTL DEF ExecutorInv

LEMMA KeptOfInv == ExecutorInv => RuleKept
  BY DEF ExecutorInv, CapturedInv

\* Unless a job was interrupted or could not undo its writes, it takes no domain from Nginx but
\* a delete job its own, with any number of domains in the operator's file: the other domains
\* taken over from it keep their sites when the file is restored or disabled for one of them.
THEOREM NothingTaken == Spec => []RuleKept
  BY AlwaysExecutorInv, KeptOfInv, PTL

LEMMA RestartableOfInv == ExecutorInv => Restartable
<1> SUFFICES ASSUME ExecutorInv, step = "idle", clean PROVE Valid /\ loaded.site = site
  BY DEF Restartable
<1>1. \A d \in Domains : ValidAt(d) /\ loaded.site[d] = site[d]
  BY DEF ExecutorInv, CleanInv
<1>2. loaded.site \in [Domains -> Contents \cup {None}] /\ site \in [Domains -> Contents \cup {None}]
  BY DEF ExecutorInv, TypeOK, Loaded
<1> QED BY <1>1, <1>2 DEF Valid, ValidAt

\* Unless a job was interrupted or could not undo its writes, the files on disk after it are
\* those Nginx serves, and Nginx can be started with them: no job, also none of another domain,
\* leaves a site without its pair or one that nginx -t refuses.
THEOREM AlwaysRestartable == Spec => []Restartable
  BY AlwaysExecutorInv, RestartableOfInv, PTL
===============================================================================
