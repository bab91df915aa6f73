-------------------------------- MODULE MCFleet --------------------------------
(* Instances of Fleet: a fleet that begins, and one that is to be updated. *)
EXTENDS Fleet

CONSTANTS m1, m2, t1, t2

MCMachines == {m1, m2}
MCTokens == {t1, t2}
MCReleases == {1, 2}

Begins == [joined |-> <<>>, tokens |-> MCTokens, releases |-> {}, faults |-> 1]

Updates ==
  [joined |-> <<[machine |-> m1, token |-> t1], [machine |-> m2, token |-> t2]>>,
   tokens |-> {}, releases |-> MCReleases, faults |-> 0]

MCStarts == {Begins, Updates}
===============================================================================
