------------------------------ MODULE EventProofs ------------------------------
(***************************************************************************)
(* Proofs about the store and the event stream: the store implements an    *)
(* atomic, durable register for any updates, readers and subscribers, and  *)
(* no handler of the event stream misses a change or keeps a slot.         *)
(***************************************************************************)
EXTENDS EventStream, FiniteSetTheorems, TLAPS

\* One update at a time holds the lock; what it changed is one element more than the file,
\* and the file runs ahead of the memory only between its replacement and the publication.
LockInv ==
  /\ \A u, v \in Updates : phase[u] \in Locked /\ phase[v] \in Locked => u = v
  /\ \A u \in Updates : phase[u] = "writing" => temporary[u] = file \cup {u} /\ memory = file
  /\ \A u \in Updates : phase[u] = "replaced" => temporary[u] = file
  /\ memory \subseteq file
  /\ MemoryIsFile

\* What a caller is told, or will be, is true.
ToldInv ==
  \A u \in Updates :
    /\ phase[u] \in {"waiting", "writing", "unchanged"} => u \notin file
    /\ phase[u] \in {"replaced", "notifying", "ok"} => u \in file

StoreInv == StoreTypeOK /\ LockInv /\ ToldInv

\* Nothing of the store but these steps, and some of them with its subscribers.
StoreStep ==
  \/ \E u \in Updates : Update(u)
  \/ \E c \in Clients : Subscribe(c) \/ Unsubscribe(c)
  \/ \E c \in Clients : /\ channel' = [channel EXCEPT ![c] = FALSE]
                        /\ UNCHANGED <<stateVars, callVars, subscribed, restarts>>
  \/ Restart
  \/ UNCHANGED storeVars

LEMMA StepIsStoreStep ==
  ASSUME [Next]_vars
  PROVE  StoreStep
<1>1. CASE UNCHANGED vars
  BY <1>1 DEF vars, StoreStep
<1>2. CASE \E u \in Updates : Update(u) /\ UNCHANGED <<handlerVars, broken, pageVars>>
  BY <1>2 DEF StoreStep
<1>3. ASSUME NEW c \in Clients, Handle(c) \/ Break(c)
      PROVE  StoreStep
  <2>1. CASE Join(c) \/ Leave(c)
    BY <2>1 DEF Join, Leave, StoreStep
  <2>2. CASE Take(c)
    BY <2>2 DEF Take, StoreStep
  <2>3. CASE Write(c) \/ Break(c)
    BY <2>3 DEF Write, Break, StoreStep
  <2>4. CASE UNCHANGED <<storeVars, pageVars>>
    BY <2>4 DEF StoreStep
  <2> QED BY <1>3, <2>1, <2>2, <2>3, <2>4 DEF Handle
<1>4. CASE PageStep
  BY <1>4 DEF PageStep, StoreStep
<1>5. CASE Crash
  BY <1>5 DEF Crash, StoreStep
<1> QED BY <1>1, <1>2, <1>3, <1>4, <1>5 DEF Next

-------------------------------------------------------------------------------
\* The store

LEMMA StoreInitial == StoreInit => StoreInv
  BY StoreAssumption DEF StoreInit, StoreInv, StoreTypeOK, LockInv, ToldInv, MemoryIsFile, Free, Locked

LEMMA StoreTypes ==
  ASSUME StoreTypeOK, StoreStep
  PROVE  StoreTypeOK'
<1> USE StoreAssumption DEF StoreTypeOK, stateVars, callVars, Locked, Final
<1>1. ASSUME NEW u \in Updates, Change(u)
      PROVE  StoreTypeOK'
  BY <1>1 DEF Change, Enters
<1>2. ASSUME NEW u \in Updates, Replace(u)
      PROVE  StoreTypeOK'
  BY <1>2 DEF Replace, Enters
<1>3. ASSUME NEW u \in Updates, Publish(u)
      PROVE  StoreTypeOK'
  BY <1>3 DEF Publish, Enters
<1>4. ASSUME NEW u \in Updates, NEW c \in Clients, Notify(u, c)
      PROVE  StoreTypeOK'
  BY <1>4 DEF Notify
<1>5. ASSUME NEW u \in Updates, Return(u)
      PROVE  StoreTypeOK'
  BY <1>5 DEF Return, Enters
<1>6. ASSUME NEW c \in Clients, Subscribe(c) \/ Unsubscribe(c)
      PROVE  StoreTypeOK'
  <2>1. CASE Subscribe(c)
    BY <2>1 DEF Subscribe
  <2>2. CASE Unsubscribe(c)
    BY <2>2 DEF Unsubscribe
  <2> QED BY <1>6, <2>1, <2>2
<1>7. ASSUME NEW c \in Clients, channel' = [channel EXCEPT ![c] = FALSE],
             UNCHANGED <<stateVars, callVars, subscribed, restarts>>
      PROVE  StoreTypeOK'
  BY <1>7
<1>8. CASE Restart
  BY <1>8 DEF Restart
<1>9. CASE UNCHANGED storeVars
  BY <1>9 DEF storeVars
<1> QED
  BY <1>1, <1>2, <1>3, <1>4, <1>5, <1>6, <1>7, <1>8, <1>9 DEF StoreStep, Update

LEMMA StoreInvariant ==
  ASSUME StoreInv, StoreStep
  PROVE  StoreInv'
<1> USE DEF StoreInv, LockInv, ToldInv, MemoryIsFile, Free, Locked, StoreTypeOK, stateVars,
            callVars, Final
<1>0. StoreTypeOK'
  BY StoreTypes
<1>1. ASSUME NEW u \in Updates, Change(u)
      PROVE  (LockInv /\ ToldInv)'
  BY <1>1 DEF Change, Enters
<1>2. ASSUME NEW u \in Updates, Replace(u)
      PROVE  (LockInv /\ ToldInv)'
  BY <1>2 DEF Replace, Enters
<1>3. ASSUME NEW u \in Updates, Publish(u)
      PROVE  (LockInv /\ ToldInv)'
  BY <1>3 DEF Publish, Enters
<1>4. ASSUME NEW u \in Updates, NEW c \in Clients, Notify(u, c)
      PROVE  (LockInv /\ ToldInv)'
  BY <1>4 DEF Notify
<1>5. ASSUME NEW u \in Updates, Return(u)
      PROVE  (LockInv /\ ToldInv)'
  BY <1>5 DEF Return, Enters
<1>6. ASSUME NEW c \in Clients, Subscribe(c) \/ Unsubscribe(c)
      PROVE  (LockInv /\ ToldInv)'
  BY <1>6 DEF Subscribe, Unsubscribe
<1>7. ASSUME NEW c \in Clients, UNCHANGED <<stateVars, callVars, subscribed, restarts>>
      PROVE  (LockInv /\ ToldInv)'
  BY <1>7
<1>8. ASSUME Restart
      PROVE  (LockInv /\ ToldInv)'
  <2>1. \A u \in Updates :
          phase'[u] = IF phase[u] \in Final \cup {"waiting"} THEN phase[u] ELSE "unknown"
    BY <1>8 DEF Restart
  <2>2. memory' = file /\ file' = file
    BY <1>8 DEF Restart
  <2> QED BY <1>0, <2>1, <2>2
<1>9. ASSUME UNCHANGED storeVars
      PROVE  (LockInv /\ ToldInv)'
  BY <1>9 DEF storeVars
<1> QED
  BY <1>0, <1>1, <1>2, <1>3, <1>4, <1>5, <1>6, <1>7, <1>8, <1>9 DEF StoreStep, Update

-------------------------------------------------------------------------------
\* The register

LEMMA RestartOfRegister ==
  ASSUME StoreTypeOK, Restart
  PROVE  Register!Next
<1> DEFINE lost == {u \in Updates : Told(u) = "none" /\ phase[u] # "waiting"}
<1>1. \A u \in Updates : Told(u)' = IF u \in lost THEN "unknown" ELSE Told(u)
  <2>1. \A u \in Updates :
          phase'[u] = IF phase[u] \in Final \cup {"waiting"} THEN phase[u] ELSE "unknown"
    BY DEF Restart
  <2> QED BY <2>1 DEF Told, Final, StoreTypeOK, Locked
<1>2. file' = file
  BY DEF Restart
<1>3. Register!Restart(lost)
  <2>1. \A u \in lost : [v \in Updates |-> Told(v)][u] = "none"
    OBVIOUS
  <2>2. [v \in Updates |-> Told(v)]'
          = [v \in Updates |-> IF v \in lost THEN "unknown" ELSE [w \in Updates |-> Told(w)][v]]
    BY <1>1
  <2> QED BY <1>2, <2>1, <2>2 DEF Register!Restart
<1>4. lost \in SUBSET Updates
  OBVIOUS
<1> QED BY <1>3, <1>4 DEF Register!Next

LEMMA RegisterStep ==
  ASSUME StoreInv, StoreStep
  PROVE  [Register!Next]_Register!vars
<1> USE DEF StoreInv, ToldInv, StoreTypeOK, stateVars, callVars, Final, Locked,
            Register!Next, Register!vars, Told
<1>1. ASSUME NEW u \in Updates, Change(u)
      PROVE  [Register!Next]_Register!vars
  <2>1. CASE phase' = [phase EXCEPT ![u] = "unchanged"]
    <3>1. Register!Answer(u, "unchanged")
      BY <1>1, <2>1 DEF Change, Register!Answer
    <3> QED BY <3>1
  <2>2. CASE phase' = [phase EXCEPT ![u] = "writing"]
    BY <1>1, <2>2 DEF Change
  <2> QED BY <1>1, <2>1, <2>2 DEF Change, Enters
<1>2. ASSUME NEW u \in Updates, Replace(u)
      PROVE  [Register!Next]_Register!vars
  <2>1. CASE phase' = [phase EXCEPT ![u] = "unchanged"] /\ UNCHANGED file
    <3>1. Register!Answer(u, "unchanged")
      BY <1>2, <2>1 DEF Replace, Register!Answer
    <3> QED BY <3>1
  <2>2. CASE phase' = [phase EXCEPT ![u] = "replaced"] /\ file' = temporary[u]
    <3>1. Register!Apply(u)
      BY <1>2, <2>2 DEF Replace, Register!Apply, LockInv
    <3> QED BY <3>1
  <2> QED BY <1>2, <2>1, <2>2 DEF Replace, Enters
<1>3. ASSUME NEW u \in Updates, Publish(u)
      PROVE  [Register!Next]_Register!vars
  BY <1>3 DEF Publish, Enters
<1>4. ASSUME NEW u \in Updates, NEW c \in Clients, Notify(u, c)
      PROVE  [Register!Next]_Register!vars
  BY <1>4 DEF Notify
<1>5. ASSUME NEW u \in Updates, Return(u)
      PROVE  [Register!Next]_Register!vars
  <2>1. Register!Answer(u, "ok")
    BY <1>5 DEF Return, Enters, Register!Answer
  <2> QED BY <2>1
<1>6. ASSUME NEW c \in Clients, Subscribe(c) \/ Unsubscribe(c)
      PROVE  [Register!Next]_Register!vars
  BY <1>6 DEF Subscribe, Unsubscribe
<1>7. ASSUME NEW c \in Clients, UNCHANGED <<stateVars, callVars, subscribed, restarts>>
      PROVE  [Register!Next]_Register!vars
  BY <1>7
<1>8. ASSUME Restart
      PROVE  [Register!Next]_Register!vars
  BY <1>8, RestartOfRegister
<1>9. ASSUME UNCHANGED storeVars
      PROVE  [Register!Next]_Register!vars
  BY <1>9 DEF storeVars
<1> QED
  BY <1>1, <1>2, <1>3, <1>4, <1>5, <1>6, <1>7, <1>8, <1>9 DEF StoreStep, Update

LEMMA InvariantHolds == Spec => []StoreInv
<1>1. Init => StoreInv
  BY StoreInitial DEF Init
<1>2. StoreInv /\ [Next]_vars => StoreInv'
  BY StepIsStoreStep, StoreInvariant
<1> QED BY <1>1, <1>2, PTL DEF Spec

\* The store keeps its types, whatever its readers and subscribers do.
THEOREM StoreTypesHold == Spec => []StoreTypeOK
<1>1. StoreInv => StoreTypeOK
  BY DEF StoreInv
<1> QED BY <1>1, InvariantHolds, PTL

\* Whenever the lock is free, what readers see is what a restart would find.
THEOREM MemoryFollowsFile == Spec => []MemoryIsFile
<1>1. StoreInv => MemoryIsFile
  BY DEF StoreInv, LockInv
<1> QED BY <1>1, InvariantHolds, PTL

\* store.Update, seen by its callers, is an atomic and durable update of a register.
THEOREM StoreIsRegister == Spec => StoreRefined
<1>1. Init => Register!Init
  BY DEF Init, StoreInit, Register!Init, Told, Final
<1>2. StoreInv /\ [Next]_vars => [Register!Next]_Register!vars
  BY StepIsStoreStep, RegisterStep
<1> QED BY <1>1, <1>2, InvariantHolds, PTL DEF Spec, StoreRefined, Register!Spec

-------------------------------------------------------------------------------
\* Signals

\* Handlers that wait are subscribed, and know of what is not signalled to them.
SignalInv ==
  /\ handler \in [Clients -> {"off", "pending"} \cup Slotted]
  /\ seen \in [Clients -> SUBSET Updates]
  /\ \A c \in Clients : handler[c] \in Serving => c \in subscribed
  /\ NoLostSignal

LEMMA SignalInitial == Init => SignalInv
  BY DEF Init, StoreInit, SignalInv, NoLostSignal, Slotted, Serving

LEMMA SignalStep ==
  ASSUME StoreTypeOK, SignalInv, [Next]_vars
  PROVE  SignalInv'
<1> USE DEF SignalInv, NoLostSignal, Slotted, Serving, StoreTypeOK, stateVars, callVars,
            handlerVars, storeVars, pageVars
<1>1. ASSUME NEW u \in Updates, Change(u) \/ Replace(u) \/ Return(u),
             UNCHANGED <<handlerVars, broken, pageVars>>
      PROVE  SignalInv'
  BY <1>1 DEF Change, Replace, Return
<1>2. ASSUME NEW u \in Updates, Publish(u), UNCHANGED <<handlerVars, broken, pageVars>>
      PROVE  SignalInv'
  <2>1. notify'[u] = subscribed
    BY <1>2 DEF Publish
  <2> QED BY <1>2, <2>1 DEF Publish
<1>3. ASSUME NEW u \in Updates, NEW c \in Clients, Notify(u, c),
             UNCHANGED <<handlerVars, broken, pageVars>>
      PROVE  SignalInv'
  <2>1. channel'[c] /\ \A k \in Clients \ {c} : channel'[k] = channel[k]
    BY <1>3 DEF Notify
  <2>2. \A k \in Clients \ {c}, w \in Updates : k \in notify[w] => k \in notify'[w]
    BY <1>3 DEF Notify
  <2> QED BY <1>3, <2>1, <2>2 DEF Notify
<1>4. ASSUME NEW c \in Clients, Handle(c) \/ Break(c)
      PROVE  SignalInv'
  <2>1. ASSUME Reserve(c) \/ Authenticate(c), UNCHANGED <<storeVars, pageVars>>
        PROVE  SignalInv'
    <3>1. /\ UNCHANGED <<seen, memory, notify, channel, subscribed>>
          /\ \E p \in {"off", "pending", "accepted"} : handler' = [handler EXCEPT ![c] = p]
      BY <2>1 DEF Reserve, Authenticate, Becomes
    <3> QED BY <3>1
  <2>2. CASE Join(c)
    BY <2>2 DEF Join, Subscribe, Becomes
  <2>3. CASE Write(c)
    BY <2>3 DEF Write, Becomes
  <2>4. CASE Take(c)
    BY <2>4 DEF Take, Becomes
  <2>5. CASE Leave(c)
    <3>1. \A k \in Clients \ {c}, w \in Updates : k \in notify[w] => k \in notify'[w]
      BY <2>5 DEF Leave, Unsubscribe
    <3>2. /\ handler' = [handler EXCEPT ![c] = "off"] /\ seen' = [seen EXCEPT ![c] = {}]
          /\ channel' = [channel EXCEPT ![c] = FALSE] /\ subscribed' = subscribed \ {c}
          /\ UNCHANGED memory
      BY <2>5 DEF Leave, Unsubscribe, Becomes
    <3> QED BY <3>1, <3>2
  <2>6. CASE Break(c)
    BY <2>6 DEF Break
  <2> QED BY <1>4, <2>1, <2>2, <2>3, <2>4, <2>5, <2>6 DEF Handle
<1>5. CASE PageStep
  BY <1>5 DEF PageStep
<1>6. CASE Crash
  BY <1>6 DEF Crash
<1>7. CASE UNCHANGED vars
  BY <1>7 DEF vars
<1> QED
  BY <1>1, <1>2, <1>3, <1>4, <1>5, <1>6, <1>7 DEF Next, Update

\* No handler that waits misses a change, for any number of updates and connections.
THEOREM ChangesAreSignalled == Spec => []NoLostSignal
<1>1. SignalInv => NoLostSignal
  BY DEF SignalInv
<1> QED BY <1>1, SignalInitial, SignalStep, StoreTypesHold, PTL DEF Spec

-------------------------------------------------------------------------------
\* The page

LEMMA FileGrows ==
  ASSUME StoreInv, StoreStep
  PROVE  file \subseteq file'
<1>1. ASSUME NEW u \in Updates, Replace(u)
      PROVE  file \subseteq file'
  BY <1>1 DEF Replace, StoreInv, LockInv
<1>2. ASSUME StoreStep, \A u \in Updates : ~Replace(u)
      PROVE  file' = file
  BY <1>2 DEF StoreStep, Update, Change, Publish, Notify, Return, Subscribe, Unsubscribe, Restart,
              stateVars, storeVars
<1> QED BY <1>1, <1>2

PageInv == answer \subseteq file /\ shown \subseteq file

LEMMA PageStays ==
  ASSUME StoreInv, PageInv, [Next]_vars
  PROVE  PageInv'
<1>1. file \subseteq file'
  BY StepIsStoreStep, FileGrows
<1>2. CASE PageStep
  <2>1. memory \subseteq file
    BY DEF StoreInv, LockInv
  <2> QED
    BY <1>1, <1>2, <2>1
       DEF PageInv, PageStep, Open, Closed, TimerFires, Poll, Serve, Finish, Fail, Ask
<1>3. CASE ~PageStep
  <2>1. UNCHANGED <<answer, shown>>
    BY <1>3 DEF Next, Handle, Join, Write, Take, Leave, Break, Crash, vars, pageVars
  <2> QED BY <1>1, <2>1 DEF PageInv
<1> QED BY <1>2, <1>3

\* What the page shows survives a restart of the controller at any moment.
THEOREM PageShowsDurable == Spec => []ShownIsDurable
<1>1. Init => PageInv
  BY DEF Init, PageInv
<1>2. PageInv => ShownIsDurable
  BY DEF PageInv, ShownIsDurable
<1> QED BY <1>1, <1>2, PageStays, InvariantHolds, PTL DEF Spec

-------------------------------------------------------------------------------
\* The slots

Pending == {c \in Clients : handler[c] = "pending"}
PendingAt(a) == {c \in Clients : handler[c] = "pending" /\ Address[c] = a}
Established == {c \in Clients : handler[c] \in Slotted}
Served == {c \in Clients : handler[c] \in Serving}

SlotInv ==
  /\ eventPending = Cardinality(Pending)
  /\ \A a \in Addresses : eventPendingIP[a] = Cardinality(PendingAt(a))
  /\ eventClients = Cardinality(Established)
  /\ subscribed = Served

LEMMA SlotsMean == SlotInv <=> SlotsConserved
<1> DEFINE At(P) == {c \in Clients : handler[c] \in P}
<1>1. Pending = At({"pending"}) /\ Established = At(Slotted) /\ Served = At(Serving)
  BY DEF Pending, Established, Served
<1>2. \A a : PendingAt(a) = {c \in At({"pending"}) : Address[c] = a}
  BY DEF PendingAt
<1>3. SlotsConserved <=>
        /\ eventPending = Cardinality(At({"pending"}))
        /\ \A a \in Addresses :
             eventPendingIP[a] = Cardinality({c \in At({"pending"}) : Address[c] = a})
        /\ eventClients = Cardinality(At(Slotted))
        /\ subscribed = At(Serving)
  BY DEF SlotsConserved
<1> HIDE DEF At
<1> QED BY <1>1, <1>2, <1>3 DEF SlotInv

LEMMA Counts ==
  ASSUME NEW S \in SUBSET Clients, NEW c \in Clients
  PROVE  /\ Cardinality(S) \in Nat
         /\ c \notin S => Cardinality(S \cup {c}) = Cardinality(S) + 1
         /\ c \in S => Cardinality(S \ {c}) = Cardinality(S) - 1 /\ Cardinality(S) >= 1
<1>1. IsFiniteSet(S)
  BY FS_Subset, CapsAssumption
<1>2. Cardinality(S) \in Nat /\ IsFiniteSet(S \ {c}) /\ Cardinality(S \ {c}) \in Nat
  BY <1>1, FS_CardinalityType, FS_RemoveElement
<1>3. c \notin S => Cardinality(S \cup {c}) = Cardinality(S) + 1
  BY <1>1, FS_AddElement
<1>4. c \in S => Cardinality(S \ {c}) = Cardinality(S) - 1
  BY <1>1, FS_RemoveElement
<1> QED BY <1>2, <1>3, <1>4

\* The types of the handlers' variables, which need that no slot is given back twice.
SlotTypes ==
  /\ handler \in [Clients -> {"off", "pending"} \cup Slotted]
  /\ eventPending \in 0..PendingCap /\ eventClients \in 0..ClientsCap
  /\ eventPendingIP \in [Addresses -> 0..AddressCap]

LEMMA SetsInClients ==
  /\ Pending \subseteq Clients /\ Established \subseteq Clients /\ Served \subseteq Clients
  /\ \A a : PendingAt(a) \subseteq Clients
  BY DEF Pending, PendingAt, Established, Served

LEMMA ReserveSlots ==
  ASSUME SlotTypes, SlotInv, NEW c \in Clients, Reserve(c), UNCHANGED subscribed
  PROVE  (SlotTypes /\ SlotInv)'
<1>1. Address[c] \in Addresses
  BY DEF Addresses
<1>2. handler' = [handler EXCEPT ![c] = "pending"] /\ handler[c] = "off"
  BY DEF Reserve, Becomes
<1>3. /\ Pending' = Pending \cup {c} /\ c \notin Pending
      /\ Established' = Established /\ Served' = Served
      /\ \A a : IF a = Address[c] THEN PendingAt(a)' = PendingAt(a) \cup {c} /\ c \notin PendingAt(a)
                                  ELSE PendingAt(a)' = PendingAt(a)
  BY <1>2 DEF SlotTypes, Slotted, Serving, Pending, PendingAt, Established, Served
<1>4. /\ Cardinality(Pending \cup {c}) = Cardinality(Pending) + 1
      /\ \A a : c \notin PendingAt(a) =>
              Cardinality(PendingAt(a) \cup {c}) = Cardinality(PendingAt(a)) + 1
  BY <1>3, Counts, SetsInClients
<1>5. SlotInv'
  BY <1>1, <1>3, <1>4 DEF SlotInv, SlotTypes, Reserve
<1>6. SlotTypes'
  BY <1>1, <1>2, CapsAssumption DEF SlotTypes, Slotted, Serving, Reserve
<1> QED BY <1>5, <1>6

LEMMA AuthenticateSlots ==
  ASSUME SlotTypes, SlotInv, NEW c \in Clients, Authenticate(c), UNCHANGED subscribed
  PROVE  (SlotTypes /\ SlotInv)'
<1>1. Address[c] \in Addresses
  BY DEF Addresses
<1>2. /\ handler[c] = "pending"
      /\ eventPending' = eventPending - 1
      /\ eventPendingIP' = [eventPendingIP EXCEPT ![Address[c]] = @ - 1]
      /\ \/ /\ handler' = [handler EXCEPT ![c] = "accepted"]
            /\ eventClients < ClientsCap /\ eventClients' = eventClients + 1
         \/ handler' = [handler EXCEPT ![c] = "off"] /\ eventClients' = eventClients
  BY DEF Authenticate, ReleasePending, Becomes
<1>3. /\ Pending' = Pending \ {c} /\ c \in Pending /\ c \notin Established /\ Served' = Served
      /\ \A a : IF a = Address[c] THEN PendingAt(a)' = PendingAt(a) \ {c} /\ c \in PendingAt(a)
                                  ELSE PendingAt(a)' = PendingAt(a)
  BY <1>2 DEF SlotTypes, Slotted, Serving, Pending, PendingAt, Established, Served
<1>4. \/ Established' = Established \cup {c} /\ eventClients' = eventClients + 1
      \/ Established' = Established /\ eventClients' = eventClients
  BY <1>2 DEF SlotTypes, Slotted, Serving, Established
<1>5. /\ Cardinality(Pending \ {c}) = Cardinality(Pending) - 1 /\ Cardinality(Pending) >= 1
      /\ Cardinality(Established \cup {c}) = Cardinality(Established) + 1
      /\ \A a : c \in PendingAt(a) =>
              /\ Cardinality(PendingAt(a) \ {c}) = Cardinality(PendingAt(a)) - 1
              /\ Cardinality(PendingAt(a)) >= 1
  BY <1>3, Counts, SetsInClients
<1>6. SlotInv'
  <2>1. \A a \in Addresses : eventPendingIP'[a] = IF a = Address[c] THEN eventPendingIP[a] - 1
                                                                   ELSE eventPendingIP[a]
    BY <1>1, <1>2 DEF SlotTypes
  <2>2. \A a \in Addresses : eventPendingIP'[a] = Cardinality(PendingAt(a)')
    BY <1>3, <1>5, <2>1 DEF SlotInv
  <2>3. eventPending' = Cardinality(Pending')
    BY <1>2, <1>3, <1>5 DEF SlotInv
  <2>4. eventClients' = Cardinality(Established')
    BY <1>4, <1>5 DEF SlotInv
  <2> QED BY <1>3, <2>2, <2>3, <2>4 DEF SlotInv
<1>7. eventPending >= 1 /\ eventPendingIP[Address[c]] >= 1
  BY <1>1, <1>3, <1>5 DEF SlotInv
<1>8. SlotTypes'
  BY <1>1, <1>2, <1>7, CapsAssumption DEF SlotTypes, Slotted, Serving
<1> QED BY <1>6, <1>8

LEMMA LeaveSlots ==
  ASSUME SlotTypes, SlotInv, NEW c \in Clients, Leave(c)
  PROVE  (SlotTypes /\ SlotInv)'
<1>1. /\ handler[c] \in Serving /\ handler' = [handler EXCEPT ![c] = "off"]
      /\ eventClients' = eventClients - 1 /\ subscribed' = subscribed \ {c}
      /\ UNCHANGED <<eventPending, eventPendingIP>>
  BY DEF Leave, Unsubscribe, Becomes
<1>2. /\ Pending' = Pending /\ \A a : PendingAt(a)' = PendingAt(a)
      /\ Established' = Established \ {c} /\ c \in Established /\ Served' = Served \ {c}
  BY <1>1 DEF SlotTypes, Slotted, Serving, Pending, PendingAt, Established, Served
<1>3. Cardinality(Established \ {c}) = Cardinality(Established) - 1 /\ Cardinality(Established) >= 1
  BY <1>2, Counts, SetsInClients
<1>4. SlotInv'
  BY <1>1, <1>2, <1>3 DEF SlotInv
<1>5. SlotTypes'
  BY <1>1, <1>3, CapsAssumption DEF SlotTypes, SlotInv, Slotted, Serving
<1> QED BY <1>4, <1>5

LEMMA ServingSlots ==
  ASSUME SlotTypes, SlotInv, NEW c \in Clients, Join(c) \/ Write(c) \/ Take(c)
  PROVE  (SlotTypes /\ SlotInv)'
<1>1. /\ UNCHANGED <<eventPending, eventPendingIP, eventClients>>
      /\ handler[c] \in Slotted
      /\ \E p \in Serving : handler' = [handler EXCEPT ![c] = p]
      /\ \/ handler[c] = "accepted" /\ subscribed' = subscribed \cup {c}
         \/ handler[c] \in Serving /\ subscribed' = subscribed
  BY DEF Join, Write, Take, Subscribe, Becomes, Slotted, Serving, storeVars
<1>2. /\ Pending' = Pending /\ \A a : PendingAt(a)' = PendingAt(a)
      /\ Established' = Established /\ Served' = Served \cup {c}
  BY <1>1 DEF SlotTypes, Slotted, Serving, Pending, PendingAt, Established, Served
<1>3. handler[c] \in Serving => c \in Served
  BY DEF Served
<1>4. SlotInv'
  BY <1>1, <1>2, <1>3 DEF SlotInv
<1>5. SlotTypes'
  BY <1>1 DEF SlotTypes, Slotted, Serving
<1> QED BY <1>4, <1>5

LEMMA CrashSlots ==
  ASSUME Crash
  PROVE  (SlotTypes /\ SlotInv)'
<1>1. /\ handler' = [c \in Clients |-> "off"] /\ eventPending' = 0 /\ eventClients' = 0
      /\ eventPendingIP' = [a \in Addresses |-> 0] /\ subscribed' = {}
  BY DEF Crash, Restart
<1>2. /\ Pending' = {} /\ (\A a : PendingAt(a)' = {}) /\ Established' = {} /\ Served' = {}
  BY <1>1 DEF Pending, PendingAt, Established, Served, Slotted, Serving
<1>3. SlotInv'
  BY <1>1, <1>2, FS_EmptySet DEF SlotInv
<1> QED BY <1>1, <1>3, CapsAssumption DEF SlotTypes

LEMMA SlotsStep ==
  ASSUME SlotTypes, SlotInv, [Next]_vars
  PROVE  (SlotTypes /\ SlotInv)'
<1>1. ASSUME UNCHANGED <<handlerVars, subscribed>>
      PROVE  (SlotTypes /\ SlotInv)'
  <2>1. UNCHANGED <<handler, eventPending, eventPendingIP, eventClients, subscribed>>
    BY <1>1 DEF handlerVars
  <2> QED BY <2>1 DEF SlotTypes, SlotInv, Pending, PendingAt, Established, Served
<1>2. ASSUME NEW u \in Updates, Update(u), UNCHANGED <<handlerVars, broken, pageVars>>
      PROVE  (SlotTypes /\ SlotInv)'
  BY <1>1, <1>2 DEF Update, Change, Replace, Publish, Notify, Return
<1>3. ASSUME NEW c \in Clients, Handle(c) \/ Break(c)
      PROVE  (SlotTypes /\ SlotInv)'
  <2>1. CASE Break(c)
    BY <1>1, <2>1 DEF Break, storeVars
  <2>2. CASE Handle(c)
    BY <2>2, ReserveSlots, AuthenticateSlots, LeaveSlots, ServingSlots DEF Handle, storeVars
  <2> QED BY <1>3, <2>1, <2>2
<1>4. CASE PageStep
  BY <1>1, <1>4 DEF PageStep, storeVars
<1>5. CASE UNCHANGED vars
  BY <1>1, <1>5 DEF vars, storeVars
<1> QED BY <1>2, <1>3, <1>4, <1>5, CrashSlots DEF Next

LEMMA SlotsInitial == Init => SlotTypes /\ SlotInv
<1> SUFFICES ASSUME Init PROVE SlotTypes /\ SlotInv
  OBVIOUS
<1>1. Pending = {} /\ (\A a : PendingAt(a) = {}) /\ Established = {} /\ Served = {}
  BY DEF Init, Pending, PendingAt, Established, Served, Slotted, Serving
<1> QED BY <1>1, FS_EmptySet, CapsAssumption DEF Init, StoreInit, SlotTypes, SlotInv

LEMMA SlotsAlways == Spec => [](SlotTypes /\ SlotInv)
  BY SlotsInitial, SlotsStep, PTL DEF Spec

\* However many handshakes begin, fail, are refused and break, each slot that handleEvents
\* counts belongs to one handler, and a handler is subscribed exactly while it serves.
THEOREM NoSlotLeaks == Spec => []SlotsConserved
  BY SlotsAlways, SlotsMean, PTL

OtherTypes ==
  /\ seen \in [Clients -> SUBSET Updates] /\ broken \in SUBSET Clients
  /\ socket \in Clients \cup {None} /\ timer \in BOOLEAN
  /\ fetch \in {"none", "asked", "served"}
  /\ answer \in SUBSET Updates /\ shown \in SUBSET Updates

LEMMA OtherStep ==
  ASSUME StoreTypeOK, OtherTypes, [Next]_vars
  PROVE  OtherTypes'
<1> USE DEF OtherTypes, StoreTypeOK, handlerVars, pageVars, storeVars
<1>1. ASSUME NEW c \in Clients, Handle(c)
      PROVE  OtherTypes'
  BY <1>1 DEF Handle, Reserve, Authenticate, Join, Write, Take, Leave
<1>2. CASE \E c \in Clients : Break(c)
  BY <1>2 DEF Break
<1>3. CASE PageStep
  BY <1>3 DEF PageStep, Open, Closed, TimerFires, Poll, Serve, Finish, Fail, Ask
<1>4. CASE Crash
  BY <1>4 DEF Crash
<1>5. CASE UNCHANGED vars
  BY <1>5 DEF vars
<1> QED BY <1>1, <1>2, <1>3, <1>4, <1>5 DEF Next

\* Store, handlers and page keep the types of their variables, and no limit is exceeded.
THEOREM TypesHold == Spec => []TypeOK
<1>1. Init => OtherTypes
  BY DEF Init, OtherTypes
<1>2. StoreTypeOK /\ SlotTypes /\ OtherTypes => TypeOK
  BY DEF TypeOK, SlotTypes, OtherTypes
<1> QED BY <1>1, <1>2, OtherStep, StoreTypesHold, SlotsAlways, PTL DEF Spec
===============================================================================
