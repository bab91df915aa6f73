---------------------------- MODULE DurableRegister ----------------------------
(***************************************************************************)
(* What the controller's store promises the code that updates it: an       *)
(* update takes effect at one instant or not at all, nothing that took     *)
(* effect is lost by a restart, and what the caller is told is true.       *)
(***************************************************************************)
CONSTANT Updates

VARIABLES
  value,      \* the updates that took effect
  answer      \* what the caller of an update was told

vars == <<value, answer>>

Init == value = {} /\ answer = [u \in Updates |-> "none"]

Apply(u) ==
  /\ answer[u] = "none"
  /\ value' = value \cup {u}
  /\ UNCHANGED answer

\* An update that fails, or finds nothing to change, leaves the state as it is.
Answer(u, a) ==
  /\ answer[u] = "none"
  /\ a = "ok" => u \in value
  /\ a = "unchanged" => u \notin value
  /\ answer' = [answer EXCEPT ![u] = a]
  /\ UNCHANGED value

\* A restart of the process leaves callers without an answer, whether or not the update
\* took effect.
Restart(lost) ==
  /\ \A u \in lost : answer[u] = "none"
  /\ answer' = [u \in Updates |-> IF u \in lost THEN "unknown" ELSE answer[u]]
  /\ UNCHANGED value

Next ==
  \/ \E u \in Updates : Apply(u) \/ \E a \in {"ok", "unchanged"} : Answer(u, a)
  \/ \E lost \in SUBSET Updates : Restart(lost)

Spec == Init /\ [][Next]_vars
===============================================================================
