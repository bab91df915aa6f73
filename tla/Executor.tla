------------------------------- MODULE Executor -------------------------------
(***************************************************************************)
(* The jobs an agent executes on the files of its machine: the managed     *)
(* sites and their certificates, the operator's configuration file they    *)
(* are taken over from, and Nginx, which reads all of them at a reload.    *)
(* A job is a sequence of writes, any of which may fail, and the agent may *)
(* stop between any two.                                                   *)
(***************************************************************************)
EXTENDS Integers

CONSTANTS
  Domains,        \* the domains of the machine
  Original,       \* those with a rule in the operator's file
  Certificates,   \* pairs of chain and key, by version
  Shared,         \* the pair in the directory of a wildcard certificate
  Plain, TLS,     \* contents of a managed site, without and with a certificate
  Refused,        \* contents that nginx -t refuses
  None,           \* no such file
  Requests,       \* the jobs the controller may send
  MaxJobs, MaxFaults, MaxCrashes     \* bounds

Contents == Plain \cup TLS

\* Payloads of apply, delete, sync and reload jobs.  The certificate is the one sent, or
\* the local one, of the shared directory or of the domain's own.
Request ==
  [ op     : {"apply", "delete", "sync", "reload"},
    domain : Domains,
    config : Contents,
    cert   : Certificates \cup {"shared", "own"},
    take   : BOOLEAN,      \* ReplaceConfigPath or RestoreConfigPath is set
    reload : BOOLEAN ]     \* ReloadNginx

ASSUME ExecutorAssumption ==
  /\ Original \subseteq Domains /\ Original # {}
  /\ Shared \in Certificates
  /\ Refused \subseteq Contents /\ Plain \cap TLS = {}
  /\ None \notin Contents \cup Certificates
  /\ {"shared", "own"} \cap Certificates = {}
  /\ Requests \subseteq Request /\ Requests # {}
  /\ \A j \in Requests : j.op = "sync" => j.cert \in Certificates     \* a bundle is sent
  /\ MaxJobs \in Nat /\ MaxFaults \in Nat /\ MaxCrashes \in Nat

VARIABLES
  site, chain, key,     \* atlas-<domain>.conf, fullchain.pem, privkey.pem of each domain
  source,               \* the domains with a rule in the operator's file; {}: no such file
  backup,               \* those in its backup; {}: no such file
  loaded,               \* the managed files as Nginx last read them
  job, step,            \* the job and what the agent does next for it
  saved,                \* captureFiles, and the domains that had a rule
  adopted,              \* the controller's domains that are TakenOver
  changed,              \* takeoverChanged, restoredTakeover
  again,                \* the restored files are reloaded
  outcome,              \* how the last job ended
  clean,                \* no job was interrupted so far, none failed to undo its writes
  sent, faults, crashes \* counted against the bounds

managed  == <<site, chain, key>>
takeover == <<source, backup>>
local    == <<job, saved>>
bounds   == <<adopted, sent, crashes>>
vars == <<managed, takeover, loaded, local, step, changed, again, outcome, clean, bounds, faults>>

Steps == {"idle", "chain", "key", "disable", "firstRemoval", "removal", "site", "test",
          "reload", "remove", "restore", "dropBackup",
          "undoSite", "undoChain", "undoKey", "undoSource", "undoBackup", "undoReload"}

Saved == [ site  : Contents \cup {None},
           chain : Certificates \cup {None},
           key   : Certificates \cup {None},
           ruled : SUBSET Domains ]

Loaded == [ site  : [Domains -> Contents \cup {None}],
            chain : [Domains -> Certificates \cup {None}],
            key   : [Domains -> Certificates \cup {None}] ]

\* The state has the values the code can store, and the agent is at one of the steps.
TypeOK ==
  /\ site \in [Domains -> Contents \cup {None}]
  /\ chain \in [Domains -> Certificates \cup {None}]
  /\ key \in [Domains -> Certificates \cup {None}]
  /\ source \in SUBSET Domains /\ backup \in SUBSET Domains
  /\ loaded \in Loaded
  /\ adopted \in SUBSET Domains
  /\ job \in Request /\ step \in Steps /\ saved \in Saved
  /\ changed \in BOOLEAN /\ again \in BOOLEAN /\ clean \in BOOLEAN
  /\ outcome \in {"none", "ok", "failed", "unavailable", "damaged", "interrupted"}
  /\ sent \in 0..MaxJobs /\ faults \in 0..MaxFaults /\ crashes \in 0..MaxCrashes

-------------------------------------------------------------------------------
dom == job.domain

\* The domains Nginx answers for, by a managed site or by the operator's rule.
Ruled == {d \in Domains : site[d] # None} \cup source

OnDisk == [site |-> site, chain |-> chain, key |-> key]

\* What nginx -t accepts.
Valid ==
  \A d \in Domains :
    /\ site[d] \notin Refused
    /\ site[d] \in TLS => chain[d] = key[d] /\ chain[d] # None

\* Mutant: the site is not captured.
CaptureCertificate(d) ==
  [site |-> None, chain |-> chain[d], key |-> key[d], ruled |-> Ruled]

Capture(d) ==
  [site |-> site[d], chain |-> chain[d], key |-> key[d], ruled |-> Ruled]

\* A write, a removal or a command fails.
Fault == faults < MaxFaults /\ faults' = faults + 1

NoFault == UNCHANGED faults

\* Mutant: a failed sync keeps what it wrote.
UndoNothing == IF job.op = "sync" THEN "idle" ELSE "undoSite"

\* The first of the files a failing job puts back.
FirstUndo == IF job.op = "sync" THEN "undoChain" ELSE "undoSite"

Abort(reloads) ==
  /\ step' = FirstUndo
  /\ outcome' = "failed" /\ again' = reloads

\* A job that returns an error without putting anything back.
GiveUp(o) == step' = "idle" /\ outcome' = o /\ UNCHANGED again

Goto(s) == step' = s /\ UNCHANGED <<outcome, again>>

\* Mutant: a step that does not exist.
AfterCertificateMisspelt(j) == IF j.take THEN "takeover" ELSE "site"

\* After the certificate of a domain is in place.
AfterCertificate(j) == IF j.take THEN "disable" ELSE "site"

InstallsCertificate(j) == j.op = "sync" \/ (j.config \in TLS /\ j.cert # "own")

\* An apply job that uses the domain's own files only looks at them.
Unusable(j) ==
  j.op = "apply" /\ j.config \in TLS /\ j.cert = "own"
    /\ (chain[j.domain] # key[j.domain] \/ chain[j.domain] = None)

FirstStep(j) ==
  CASE j.op = "delete" -> "remove"
    [] j.op = "reload" -> "test"
    [] OTHER           -> IF InstallsCertificate(j) THEN "chain" ELSE AfterCertificate(j)

\* A domain is adopted with a takeover job, and deleted with the path to restore from then on.
Adoption(j) ==
  /\ j.op = "delete" => j.take = (j.domain \in adopted)
  /\ adopted' = IF j.op = "apply" /\ j.take THEN adopted \cup {j.domain} ELSE adopted

\* The agent starts a job it was sent, or sent again.
Execute(j) ==
  /\ step = "idle" /\ sent < MaxJobs
  /\ Adoption(j)
  /\ job' = j /\ saved' = Capture(j.domain)
  /\ changed' = FALSE /\ again' = FALSE
  /\ IF Unusable(j) THEN step' = "idle" /\ outcome' = "unavailable"
                    ELSE step' = FirstStep(j) /\ outcome' = "none"
  /\ sent' = sent + 1
  /\ UNCHANGED <<managed, takeover, loaded, clean, crashes, faults>>

-------------------------------------------------------------------------------
(* Certificates: installCertificate and ensureLocalCertificate *)

Copies == job.op = "apply" /\ job.cert = "shared"

Installed == IF Copies THEN Shared ELSE job.cert

\* A copy is made only where there is no file (O_EXCL); a bundle replaces what is there.
Writable(file) == Copies => file[dom] = None

CertificateFails ==
  IF Copies THEN GiveUp("unavailable") ELSE Abort(FALSE)

InstallChain ==
  /\ step = "chain"
  /\ \/ /\ Writable(chain)
        /\ chain' = [chain EXCEPT ![dom] = Installed]
        /\ Goto("key") /\ NoFault
     \/ ~Writable(chain) /\ GiveUp("unavailable") /\ NoFault /\ UNCHANGED chain
     \/ Fault /\ CertificateFails /\ UNCHANGED chain
  /\ UNCHANGED <<site, key, takeover, loaded, local, changed, clean, bounds>>

\* Without a reload the job ends here, and Nginx reads the pair another time.
KeyInstalled ==
  IF job.op = "apply" THEN Goto(AfterCertificate(job))
  ELSE IF job.reload THEN Goto("test")
  ELSE step' = "idle" /\ outcome' = "ok" /\ UNCHANGED again

InstallKey ==
  /\ step = "key"
  /\ \/ /\ Writable(key)
        /\ key' = [key EXCEPT ![dom] = Installed]
        /\ KeyInstalled /\ NoFault
     \/ ~Writable(key) /\ GiveUp("unavailable") /\ NoFault /\ UNCHANGED key
     \/ Fault /\ CertificateFails /\ UNCHANGED key
  /\ UNCHANGED <<site, chain, takeover, loaded, local, changed, clean, bounds>>

-------------------------------------------------------------------------------
(* The operator's file: disableTakeoverConfig, reapplyTakeoverRemoval.  An apply job goes on
   with the site; a delete job that failed disables the rule again and ignores errors. *)

Disabled == IF job.op = "apply" THEN Goto("site") ELSE Goto("undoSite")

NotDisabled == IF job.op = "apply" THEN Abort(FALSE) ELSE Goto("undoSite")

Disable ==
  /\ step = "disable"
  /\ \/ /\ source = {}                         \* the whole file was taken over before
        /\ IF backup # {} THEN Disabled ELSE NotDisabled
        /\ NoFault /\ UNCHANGED backup
     \/ /\ source # {} /\ backup # {}
        /\ IF dom \in source THEN Goto("removal") ELSE Disabled
        /\ NoFault /\ UNCHANGED backup
     \/ /\ source # {} /\ backup = {}
        /\ backup' = source
        /\ Goto("firstRemoval") /\ NoFault
     \/ Fault /\ NotDisabled /\ UNCHANGED backup
  /\ UNCHANGED <<managed, source, loaded, local, changed, clean, bounds>>

\* The file is rewritten without the rule, or removed with its last one.
RemoveRule ==
  /\ source' = source \ {dom}
  /\ changed' = TRUE
  /\ Disabled /\ NoFault
  /\ UNCHANGED backup

FirstRemoval ==
  /\ step = "firstRemoval"
  /\ \/ dom \in source /\ RemoveRule
     \/ /\ IF dom \in source THEN Fault ELSE NoFault
        /\ backup' = {}
        /\ NotDisabled /\ UNCHANGED <<source, changed>>
  /\ UNCHANGED <<managed, loaded, local, clean, bounds>>

\* Mutant: a backup of what is left of the file replaces that of the original.
RemovalWithBackup ==
  /\ step = "removal"
  /\ backup' = source /\ source' = source \ {dom}
  /\ changed' = TRUE
  /\ Disabled /\ NoFault
  /\ UNCHANGED <<managed, loaded, local, clean, bounds>>

Removal ==
  /\ step = "removal"
  /\ \/ RemoveRule
     \/ Fault /\ NotDisabled /\ UNCHANGED <<takeover, changed>>
  /\ UNCHANGED <<managed, loaded, local, clean, bounds>>

-------------------------------------------------------------------------------
(* The managed site, its validation and the reload *)

WriteSite ==
  /\ step = "site"
  /\ \/ site' = [site EXCEPT ![dom] = job.config] /\ Goto("test") /\ NoFault
     \/ Fault /\ Abort(FALSE) /\ UNCHANGED site
  /\ UNCHANGED <<chain, key, takeover, loaded, local, changed, clean, bounds>>

\* deleteDomain: the site goes, then the operator's rule comes back.
RemoveSite ==
  /\ step = "remove"
  /\ \/ /\ site' = [site EXCEPT ![dom] = None]
        /\ Goto(IF job.take THEN "restore" ELSE "test") /\ NoFault
     \/ Fault /\ GiveUp("failed") /\ UNCHANGED site
  /\ UNCHANGED <<chain, key, takeover, loaded, local, changed, clean, bounds>>

\* Mutant: a file that is there needs no restoring.
RestoreMissing ==
  /\ step = "restore"
  /\ IF source = {} THEN source' = backup /\ Goto("dropBackup") ELSE Goto("test") /\ UNCHANGED source
  /\ NoFault
  /\ UNCHANGED <<managed, backup, loaded, local, changed, clean, bounds>>

\* restoreTakeoverConfig: always the pristine backup, whoever was taken over from it.
RestoreRule ==
  /\ step = "restore"
  /\ \/ backup = {} /\ Goto("test") /\ NoFault /\ UNCHANGED source
     \/ /\ backup # {}
        /\ source' = backup /\ Goto("dropBackup") /\ NoFault
     \/ Fault /\ Abort(FALSE) /\ UNCHANGED source
  /\ UNCHANGED <<managed, backup, loaded, local, changed, clean, bounds>>

DropBackup ==
  /\ step = "dropBackup"
  /\ \/ backup' = {} /\ changed' = TRUE /\ Goto("test") /\ NoFault
     \/ Fault /\ Abort(FALSE) /\ UNCHANGED <<backup, changed>>
  /\ UNCHANGED <<managed, source, loaded, local, clean, bounds>>

\* A reload job has nothing to put back, and a delete job first disables the rule again.
Rejected(reloads) ==
  IF job.op = "reload" THEN GiveUp("failed")
  ELSE IF job.op = "delete" /\ changed
       THEN step' = "disable" /\ outcome' = "failed" /\ again' = FALSE
  ELSE Abort(reloads)

\* nginx -t looks at all files, not only at those of the job.
Test ==
  /\ step = "test"
  /\ \/ Valid /\ Goto("reload") /\ NoFault
     \/ ~Valid /\ Rejected(job.op = "sync") /\ NoFault
     \/ Fault /\ Rejected(job.op = "sync")
  /\ UNCHANGED <<managed, takeover, loaded, local, changed, clean, bounds>>

Reload ==
  /\ step = "reload"
  /\ \/ /\ loaded' = OnDisk
        /\ step' = "idle" /\ outcome' = "ok"
        /\ adopted' = IF job.op = "delete" THEN adopted \ {dom} ELSE adopted
        /\ NoFault /\ UNCHANGED again
     \/ /\ Fault
        /\ Rejected(job.op \in {"sync", "apply"})
        /\ UNCHANGED <<loaded, adopted>>
  /\ UNCHANGED <<managed, takeover, local, changed, clean, sent, crashes>>

-------------------------------------------------------------------------------
(* restoreFiles, and what follows it.  It goes on after an error. *)

UndoFails == Fault /\ outcome' = "damaged" /\ clean' = FALSE /\ UNCHANGED again

Undone == NoFault /\ UNCHANGED <<outcome, again, clean>>

\* Mutant: the operator's rule is not put back.
AfterFilesOnly == IF again THEN "undoReload" ELSE "idle"

AfterFiles == IF job.op = "apply" /\ changed THEN "undoSource"
              ELSE IF again THEN "undoReload" ELSE "idle"

\* captureFiles and restoreFiles of an apply job cover the certificate only with TLS.
AfterUndoSite == IF job.op = "apply" /\ job.config \in TLS THEN "undoChain" ELSE AfterFiles

UndoSite ==
  /\ step = "undoSite"
  /\ step' = AfterUndoSite
  /\ \/ site' = [site EXCEPT ![dom] = saved.site] /\ Undone
     \/ UndoFails /\ UNCHANGED site
  /\ UNCHANGED <<chain, key, takeover, loaded, local, changed, bounds>>

UndoChain ==
  /\ step = "undoChain"
  /\ step' = "undoKey"
  /\ \/ chain' = [chain EXCEPT ![dom] = saved.chain] /\ Undone
     \/ UndoFails /\ UNCHANGED chain
  /\ UNCHANGED <<site, key, takeover, loaded, local, changed, bounds>>

UndoKey ==
  /\ step = "undoKey"
  /\ step' = AfterFiles
  /\ \/ key' = [key EXCEPT ![dom] = saved.key] /\ Undone
     \/ UndoFails /\ UNCHANGED key
  /\ UNCHANGED <<site, chain, takeover, loaded, local, changed, bounds>>

AfterTakeover == IF again THEN "undoReload" ELSE "idle"

UndoSource ==
  /\ step = "undoSource"
  /\ \/ source' = backup /\ step' = "undoBackup" /\ Undone
     \/ step' = AfterTakeover /\ UndoFails /\ UNCHANGED source
  /\ UNCHANGED <<managed, backup, loaded, local, changed, bounds>>

UndoBackup ==
  /\ step = "undoBackup"
  /\ step' = AfterTakeover
  /\ \/ backup' = {} /\ Undone
     \/ UndoFails /\ UNCHANGED backup
  /\ UNCHANGED <<managed, source, loaded, local, changed, bounds>>

\* Its failure is only reported.
UndoReload ==
  /\ step = "undoReload"
  /\ step' = "idle"
  /\ \/ Valid /\ loaded' = OnDisk /\ NoFault
     \/ ~Valid /\ NoFault /\ UNCHANGED loaded
     \/ Fault /\ UNCHANGED loaded
  /\ UNCHANGED <<managed, takeover, local, changed, again, outcome, clean, bounds>>

-------------------------------------------------------------------------------
\* The agent stops; the controller sends the job again, or another one.
Crash ==
  /\ step # "idle" /\ crashes < MaxCrashes
  /\ step' = "idle" /\ outcome' = "interrupted" /\ clean' = FALSE
  /\ crashes' = crashes + 1
  /\ UNCHANGED <<managed, takeover, loaded, local, changed, again, adopted, sent, faults>>

Init ==
  /\ site = [d \in Domains |-> None]
  /\ chain = [d \in Domains |-> None] /\ key = [d \in Domains |-> None]
  /\ source = Original /\ backup = {}
  /\ loaded = OnDisk
  /\ job = (CHOOSE j \in Requests : TRUE) /\ step = "idle" /\ saved = Capture(job.domain)
  /\ adopted = {} /\ changed = FALSE /\ again = FALSE /\ outcome = "none" /\ clean = TRUE
  /\ sent = 0 /\ faults = 0 /\ crashes = 0

Forward == InstallChain \/ InstallKey \/ Disable \/ FirstRemoval \/ Removal \/ WriteSite
           \/ RemoveSite \/ RestoreRule \/ DropBackup \/ Test \/ Reload

Backward == UndoSite \/ UndoChain \/ UndoKey \/ UndoSource \/ UndoBackup \/ UndoReload

Next == (\E j \in Requests : Execute(j)) \/ Forward \/ Backward \/ Crash

Spec == Init /\ [][Next]_vars

-------------------------------------------------------------------------------
\* No rule of the operator's file is ever lost: at every moment, whatever fails and wherever
\* the agent stops, it is in the file or in its backup.
OriginalRecoverable == Original \subseteq source \cup backup

\* When a job fails, the files Atlas manages for its domain are what they were before it,
\* also after an earlier job was interrupted.
FailureRestores ==
  step = "idle" /\ outcome = "failed" =>
    /\ site[dom] = saved.site /\ chain[dom] = saved.chain /\ key[dom] = saved.key

\* No job takes a domain from Nginx but a delete job, and that only its own: all others that
\* had a managed site or a rule of the operator before still have one, unless an
\* interruption left the files half done.
RuleKept ==
  step = "idle" /\ clean =>
    saved.ruled \subseteq Ruled \cup (IF job.op = "delete" THEN {dom} ELSE {})

\* README: "a failed validation or reload restores the original rule": a job that fails
\* leaves every domain answered for that was.
RuleRestored == step = "idle" /\ clean /\ outcome = "failed" => saved.ruled \subseteq Ruled

\* A job that succeeds did what it says, whatever was left behind by interrupted ones: the
\* site is in place with a matching pair and alone, or it is gone and the rule it was taken
\* over from is back; and Nginx runs it.
SuccessInstalls ==
  step = "idle" /\ outcome = "ok" =>
    /\ job.op = "apply" =>
         /\ site[dom] = job.config /\ loaded = OnDisk
         /\ job.take => dom \notin source
         /\ job.config \in TLS =>
              chain[dom] = key[dom] /\ (job.cert \in Certificates => chain[dom] = job.cert)
    /\ job.op = "sync" => chain[dom] = job.cert /\ key[dom] = job.cert
    /\ job.op = "delete" =>
         site[dom] = None /\ loaded = OnDisk /\ (job.take /\ dom \in Original => dom \in source)

\* Between jobs Nginx can be started again with the files on disk, and serves the sites that
\* are there, unless a job was interrupted or could not undo its writes.
Restartable ==
  step = "idle" /\ clean => Valid /\ loaded.site = site

\* ensureLocalCertificate "makes sure" that a domain has a usable pair when a shared
\* directory holds one: a job never finds it unavailable unless a write failed.
LocalEnsured == outcome = "unavailable" /\ job.cert = "shared" => faults > 0
===============================================================================
