------------------------------ MODULE StateStore ------------------------------
(***************************************************************************)
(* The controller's state: a copy in memory, the file behind it, and the   *)
(* subscribers that are told of changes.  Every handler changes it through *)
(* Update, which holds a lock while it changes a copy and replaces the     *)
(* file, and notifies the subscribers after it released the lock.          *)
(***************************************************************************)
EXTENDS Integers

CONSTANTS
  Updates,     \* calls of Update; the state is the set of those that took effect
  Clients,     \* subscribers
  MaxRestarts  \* bound

ASSUME StoreAssumption == MaxRestarts \in Nat

VARIABLES
  memory,      \* Store.state
  file,        \* the state file
  temporary,   \* the copy an update changed, then its temporary file
  phase,       \* how far a call of Update is
  notify,      \* the subscribers it still has to notify
  subscribed,  \* Store.subscribers
  channel,     \* a subscriber's channel, of capacity one, is full
  restarts

stateVars == <<memory, file, temporary>>
callVars  == <<phase, notify>>
storeVars == <<stateVars, callVars, subscribed, channel, restarts>>

\* The phases in which an update holds the lock, and those in which it has returned.
Locked == {"writing", "replaced"}

Final == {"ok", "unchanged", "unknown"}

StoreTypeOK ==
  /\ memory \in SUBSET Updates /\ file \in SUBSET Updates
  /\ temporary \in [Updates -> SUBSET Updates]
  /\ phase \in [Updates -> {"waiting", "notifying"} \cup Locked \cup Final]
  /\ notify \in [Updates -> SUBSET Clients]
  /\ subscribed \in SUBSET Clients
  /\ channel \in [Clients -> BOOLEAN]
  /\ restarts \in 0..MaxRestarts

StoreInit ==
  /\ memory = {} /\ file = {}
  /\ temporary = [u \in Updates |-> {}]
  /\ phase = [u \in Updates |-> "waiting"]
  /\ notify = [u \in Updates |-> {}]
  /\ subscribed = {} /\ channel = [c \in Clients |-> FALSE]
  /\ restarts = 0

Enters(u, p) == phase' = [phase EXCEPT ![u] = p]

Free == \A u \in Updates : phase[u] \notin Locked

\* The lock is taken, the state copied and the copy changed by the caller's function; an error
\* of the function, or no change, ends the call.
Change(u) ==
  /\ phase[u] = "waiting" /\ Free
  /\ \/ Enters(u, "writing") /\ temporary' = [temporary EXCEPT ![u] = memory \cup {u}]
     \/ Enters(u, "unchanged") /\ UNCHANGED temporary
  /\ UNCHANGED <<memory, file, notify, subscribed, channel, restarts>>

\* Mutant: the state is changed before the file is.
ReplaceLate(u) ==
  /\ phase[u] = "writing"
  /\ memory' = temporary[u]
  /\ \/ file' = temporary[u] /\ Enters(u, "replaced") /\ UNCHANGED temporary
     \/ Enters(u, "unchanged") /\ temporary' = [temporary EXCEPT ![u] = {}] /\ UNCHANGED file
  /\ UNCHANGED <<notify, subscribed, channel, restarts>>

\* persist: the temporary file replaces the state file, or some step before that fails.
Replace(u) ==
  /\ phase[u] = "writing"
  /\ \/ file' = temporary[u] /\ Enters(u, "replaced") /\ UNCHANGED temporary
     \/ Enters(u, "unchanged") /\ temporary' = [temporary EXCEPT ![u] = {}] /\ UNCHANGED file
  /\ UNCHANGED <<memory, notify, subscribed, channel, restarts>>

\* The state in memory follows, the subscribers are collected, the lock is released.
Publish(u) ==
  /\ phase[u] = "replaced"
  /\ memory' = temporary[u] /\ temporary' = [temporary EXCEPT ![u] = {}]
  /\ notify' = [notify EXCEPT ![u] = subscribed]
  /\ Enters(u, "notifying")
  /\ UNCHANGED <<file, subscribed, channel, restarts>>

\* One subscriber; a channel that is full stays so.
Notify(u, c) ==
  /\ phase[u] = "notifying" /\ c \in notify[u]
  /\ notify' = [notify EXCEPT ![u] = @ \ {c}]
  /\ channel' = [channel EXCEPT ![c] = TRUE]
  /\ UNCHANGED <<stateVars, phase, subscribed, restarts>>

Return(u) ==
  /\ phase[u] = "notifying" /\ notify[u] = {}
  /\ Enters(u, "ok")
  /\ UNCHANGED <<stateVars, notify, subscribed, channel, restarts>>

Update(u) ==
  Change(u) \/ Replace(u) \/ Publish(u) \/ Return(u)
    \/ \E c \in Clients : Notify(u, c)

\* Subscribe takes the lock; its channel is new.
Subscribe(c) ==
  /\ c \notin subscribed /\ Free
  /\ subscribed' = subscribed \cup {c}
  /\ channel' = [channel EXCEPT ![c] = FALSE]
  /\ UNCHANGED <<stateVars, callVars, restarts>>

\* Its cancel function.  A signal on its way goes to a channel nobody reads any more.
Unsubscribe(c) ==
  /\ Free
  /\ subscribed' = subscribed \ {c}
  /\ channel' = [channel EXCEPT ![c] = FALSE]
  /\ notify' = [u \in Updates |-> notify[u] \ {c}]
  /\ UNCHANGED <<stateVars, phase, restarts>>

\* The process stops and Open reads the file again.
Restart ==
  /\ restarts < MaxRestarts /\ restarts' = restarts + 1
  /\ memory' = file
  /\ phase' = [u \in Updates |->
                 IF phase[u] \in Final \cup {"waiting"} THEN phase[u] ELSE "unknown"]
  /\ notify' = [u \in Updates |-> {}]
  /\ subscribed' = {} /\ channel' = [c \in Clients |-> FALSE]
  /\ temporary' = [u \in Updates |-> {}]
  /\ UNCHANGED file

-------------------------------------------------------------------------------
\* What readers see is what a restart would find: whenever the lock is free, memory and file
\* agree, so an update that failed left no trace in either.
MemoryIsFile == Free => memory = file
===============================================================================
