------------------------------- MODULE MCEvents -------------------------------
(* Instances of EventStream: two connections from one address. *)
EXTENDS EventStream

CONSTANTS k1, k2, u1, u2

MCClients == {k1, k2}
MCUpdates == {u1, u2}
MCAddress == [c \in MCClients |-> "here"]
===============================================================================
