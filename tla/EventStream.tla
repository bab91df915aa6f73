------------------------------ MODULE EventStream ------------------------------
(***************************************************************************)
(* The live updates of the web interface: the handlers of the controller's *)
(* event stream, which subscribe to the store, and one page of a browser,  *)
(* which fetches the state again when it is told of a change, and now and  *)
(* then without being told.                                                *)
(***************************************************************************)
EXTENDS StateStore, FiniteSets

CONSTANTS
  Address,     \* the address a connection comes from
  PendingCap,  \* handshakes at a time: 16 in the code
  AddressCap,  \* ... and from one address: 2
  ClientsCap,  \* established connections: 128
  MayFail,     \* a fetch of the page may fail
  None

ASSUME CapsAssumption ==
  /\ PendingCap \in Nat /\ AddressCap \in Nat /\ ClientsCap \in Nat
  /\ None \notin Clients /\ IsFiniteSet(Clients)

Addresses == {Address[c] : c \in Clients}

VARIABLES
  handler,         \* how far the handler of a connection is
  eventPending,    \* slots in use: handshakes,
  eventPendingIP,  \* handshakes from an address,
  eventClients,    \* established connections
  seen,            \* ghost: the state at the last signal a handler took
  broken,          \* connections that no longer carry anything
  socket,          \* the page's connection
  timer,           \* a message is on its way to it, or has made it fetch the state soon
  fetch,           \* the fetch in flight: none, asked, served
  answer,          \* the state it was served
  shown            \* the state it shows

handlerVars == <<handler, eventPending, eventPendingIP, eventClients, seen>>
pageVars    == <<socket, timer, fetch, answer, shown>>
vars        == <<storeVars, handlerVars, broken, pageVars>>

Serving == {"writing", "waiting"}   \* the handlers that are subscribed
Slotted == {"accepted"} \cup Serving

TypeOK ==
  /\ StoreTypeOK
  /\ handler \in [Clients -> {"off", "pending"} \cup Slotted]
  /\ eventPending \in 0..PendingCap /\ eventClients \in 0..ClientsCap
  /\ eventPendingIP \in [Addresses -> 0..AddressCap]
  /\ seen \in [Clients -> SUBSET Updates]
  /\ broken \in SUBSET Clients
  /\ socket \in Clients \cup {None}
  /\ timer \in BOOLEAN
  /\ fetch \in {"none", "asked", "served"}
  /\ answer \in SUBSET Updates /\ shown \in SUBSET Updates

Init ==
  /\ StoreInit
  /\ handler = [c \in Clients |-> "off"]
  /\ eventPending = 0 /\ eventClients = 0
  /\ eventPendingIP = [a \in Addresses |-> 0]
  /\ seen = [c \in Clients |-> {}]
  /\ broken = {}
  /\ socket = None /\ timer = FALSE
  /\ fetch = "asked" /\ answer = {} /\ shown = {}

Becomes(c, p) == handler' = [handler EXCEPT ![c] = p]

-------------------------------------------------------------------------------
\* reservePendingEvent: a slot of all and one of the address, or none.
Reserve(c) ==
  /\ handler[c] = "off" /\ c # socket   \* a connection of its own
  /\ eventPending < PendingCap /\ eventPendingIP[Address[c]] < AddressCap
  /\ Becomes(c, "pending")
  /\ eventPending' = eventPending + 1
  /\ eventPendingIP' = [eventPendingIP EXCEPT ![Address[c]] = @ + 1]
  /\ UNCHANGED <<eventClients, seen, broken>>

\* releasePendingEvent
ReleasePending(a) ==
  /\ eventPending' = eventPending - 1
  /\ eventPendingIP' = [eventPendingIP EXCEPT ![a] = @ - 1]

\* Mutant: a handshake that fails keeps its slots.
AuthenticateKeep(c) ==
  /\ handler[c] = "pending"
  /\ \/ /\ eventClients < ClientsCap /\ ReleasePending(Address[c])
        /\ Becomes(c, "accepted") /\ eventClients' = eventClients + 1
     \/ Becomes(c, "off") /\ UNCHANGED <<eventPending, eventPendingIP, eventClients>>
  /\ UNCHANGED <<seen, broken>>

\* The ticket is read and used up; it may not come in time, be unknown, used or too old, or
\* there may be too many connections.  The slots of the handshake are given back anyway.
Authenticate(c) ==
  /\ handler[c] = "pending" /\ ReleasePending(Address[c])
  /\ \/ /\ eventClients < ClientsCap
        /\ Becomes(c, "accepted") /\ eventClients' = eventClients + 1
     \/ Becomes(c, "off") /\ UNCHANGED eventClients
  /\ UNCHANGED <<seen, broken>>

\* The subscriber is told of the present revision first.
Join(c) ==
  /\ handler[c] = "accepted" /\ Subscribe(c)
  /\ Becomes(c, "writing")
  /\ seen' = [seen EXCEPT ![c] = memory]
  /\ UNCHANGED <<eventPending, eventPendingIP, eventClients, broken, pageVars>>

\* Mutant: signals that came while the last one was written are thrown away.
WriteDrain(c) ==
  /\ handler[c] = "writing"
  /\ Becomes(c, "waiting")
  /\ timer' = (timer \/ (c = socket /\ c \notin broken))
  /\ channel' = [channel EXCEPT ![c] = FALSE]
  /\ UNCHANGED <<stateVars, callVars, subscribed, restarts, eventPending, eventPendingIP,
                 eventClients, seen, broken, socket, fetch, answer, shown>>

\* writeStateEvent: what is written to a broken connection is lost; the page of another one
\* schedules a refresh when it receives the message.
Write(c) ==
  /\ handler[c] = "writing"
  /\ Becomes(c, "waiting")
  /\ timer' = (timer \/ (c = socket /\ c \notin broken))
  /\ UNCHANGED <<storeVars, eventPending, eventPendingIP, eventClients, seen, broken, socket,
                 fetch, answer, shown>>

Take(c) ==
  /\ handler[c] = "waiting" /\ channel[c]
  /\ Becomes(c, "writing")
  /\ channel' = [channel EXCEPT ![c] = FALSE]
  /\ seen' = [seen EXCEPT ![c] = memory]
  /\ UNCHANGED <<stateVars, callVars, subscribed, restarts, eventPending, eventPendingIP,
                 eventClients, broken, pageVars>>

\* Mutant: the slots of the handshake, given back already, are given back again.
LeaveAgain(c) ==
  /\ handler[c] \in Serving /\ c \in broken
  /\ Unsubscribe(c) /\ Becomes(c, "off") /\ eventClients' = eventClients - 1
  /\ seen' = [seen EXCEPT ![c] = {}] /\ broken' = broken \ {c}
  /\ ReleasePending(Address[c]) /\ UNCHANGED pageVars

\* A write or a ping fails, or the connection is closed by its peer: the handler
\* unsubscribes and gives its slot back.
Leave(c) ==
  /\ handler[c] \in Serving /\ c \in broken
  /\ Unsubscribe(c) /\ Becomes(c, "off") /\ eventClients' = eventClients - 1
  /\ seen' = [seen EXCEPT ![c] = {}] /\ broken' = broken \ {c}
  /\ UNCHANGED <<eventPending, eventPendingIP, pageVars>>

Handle(c) ==
  \/ (Reserve(c) \/ Authenticate(c)) /\ UNCHANGED <<storeVars, pageVars>>
  \/ Join(c) \/ Write(c) \/ Take(c) \/ Leave(c)

\* A connection breaks, or the page is closed; neither end knows yet.
Break(c) ==
  /\ handler[c] \in Serving /\ c \notin broken
  /\ broken' = broken \cup {c}
  /\ UNCHANGED <<storeVars, handlerVars, pageVars>>

-------------------------------------------------------------------------------
\* The page.

\* A connection in its handshake becomes the page's, or belongs to somebody else.
Open(c) ==
  /\ socket = None /\ handler[c] = "pending"
  /\ socket' = c
  /\ UNCHANGED <<timer, fetch, answer, shown>>

Closed ==
  /\ socket # None /\ (handler[socket] = "off" \/ socket \in broken)
  /\ socket' = None
  /\ UNCHANGED <<timer, fetch, answer, shown>>

\* refresh does nothing while another one runs, whoever asked for it.
Ask == fetch' = IF fetch = "none" THEN "asked" ELSE fetch

TimerFires ==
  /\ timer /\ timer' = FALSE /\ Ask
  /\ UNCHANGED <<socket, answer, shown>>

\* Mutant: a connected page relies on its messages.
PollOffline ==
  /\ socket = None /\ fetch = "none" /\ Ask
  /\ UNCHANGED <<socket, timer, answer, shown>>

Poll ==
  /\ fetch = "none" /\ Ask
  /\ UNCHANGED <<socket, timer, answer, shown>>

\* The controller takes the snapshot under its lock.
Serve ==
  /\ fetch = "asked" /\ Free
  /\ fetch' = "served" /\ answer' = memory
  /\ UNCHANGED <<socket, timer, shown>>

Finish ==
  /\ fetch = "served"
  /\ fetch' = "none" /\ shown' = answer /\ answer' = {}
  /\ UNCHANGED <<socket, timer>>

Fail ==
  /\ MayFail /\ fetch # "none"
  /\ fetch' = "none" /\ answer' = {}
  /\ UNCHANGED <<socket, timer, shown>>

PageStep ==
  /\ (\E c \in Clients : Open(c)) \/ Closed \/ TimerFires \/ Poll \/ Serve \/ Finish \/ Fail
  /\ UNCHANGED <<storeVars, handlerVars, broken>>

\* The controller stops: its connections break and its counters start again.
Crash ==
  /\ Restart
  /\ handler' = [c \in Clients |-> "off"]
  /\ eventPending' = 0 /\ eventClients' = 0
  /\ eventPendingIP' = [a \in Addresses |-> 0]
  /\ seen' = [c \in Clients |-> {}] /\ broken' = {}
  /\ UNCHANGED pageVars

Next ==
  \/ \E u \in Updates : Update(u) /\ UNCHANGED <<handlerVars, broken, pageVars>>
  \/ \E c \in Clients : Handle(c) \/ Break(c)
  \/ PageStep
  \/ Crash

\* Calls and handlers that have begun go on, the page's interval comes round, and of the
\* fetches that are repeated without end not all fail.
Fairness ==
  /\ \A u \in Updates : WF_vars(phase[u] # "waiting" /\ Update(u)
                                   /\ UNCHANGED <<handlerVars, broken, pageVars>>)
  /\ WF_vars(Poll /\ UNCHANGED <<storeVars, handlerVars, broken>>)
  /\ SF_vars(Serve /\ UNCHANGED <<storeVars, handlerVars, broken>>)
  /\ SF_vars(Finish /\ UNCHANGED <<storeVars, handlerVars, broken>>)

Spec == Init /\ [][Next]_vars /\ Fairness

-------------------------------------------------------------------------------
\* No change is missed by a handler that waits: if the state has moved on since the signal it
\* last took, another signal is in its channel or is about to be put there.
NoLostSignal ==
  \A c \in Clients :
    handler[c] \in Serving /\ seen[c] # memory =>
      channel[c] \/ \E u \in Updates : c \in notify[u]

\* Every slot belongs to one handler: the counters can neither run out for good nor admit more
\* connections than the limits say.
SlotsConserved ==
  LET At(P) == {c \in Clients : handler[c] \in P} IN
  /\ eventPending = Cardinality(At({"pending"}))
  /\ \A a \in Addresses :
       eventPendingIP[a] = Cardinality({c \in At({"pending"}) : Address[c] = a})
  /\ eventClients = Cardinality(At(Slotted))
  /\ subscribed = At(Serving)

\* What an operator was shown is never taken back by a restart.
ShownIsDurable == shown \subseteq file

\* The store keeps its promise whatever its readers and subscribers do.
Told(u) == IF phase[u] \in Final THEN phase[u] ELSE "none"

Register == INSTANCE DurableRegister WITH value <- file, answer <- [u \in Updates |-> Told(u)]

StoreRefined == Register!Spec

\* The page catches up with the controller again and again, whatever becomes of its
\* connection, of the messages and of single fetches.
EventuallyFresh == []<>(shown = memory)

\* What the comment of Subscribe asks of its callers: a connected page at rest,
\* with no signal or message on its way to it, has fetched the state the last message was about.
FreshAfterSignal ==
  (/\ socket # None /\ socket \notin broken
   /\ handler[socket] = "waiting" /\ ~channel[socket]
   /\ \A u \in Updates : socket \notin notify[u]
   /\ Free /\ ~timer /\ fetch = "none")
  => shown = memory
===============================================================================
