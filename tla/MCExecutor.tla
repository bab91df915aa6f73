------------------------------ MODULE MCExecutor ------------------------------
(* Instances of Executor: two domains with rules in one file of the operator. *)
EXTENDS Executor

CONSTANTS d1, d2, c1, c2

MCDomains == {d1, d2}
MCCertificates == {c1, c2}
MCPlain == {"http", "broken"}
MCTLS == {"tls"}

Of(op, d, config, cert, take) ==
  [op |-> op, domain |-> d, config |-> config, cert |-> cert, take |-> take, reload |-> TRUE]

\* Takeovers use local certificates; sites that are configured later are sent theirs.
MCRequests ==
  {Of("apply", d, "http", "own", TRUE) : d \in MCDomains}
  \cup {Of("apply", d1, "tls", "shared", TRUE), Of("apply", d1, "broken", "own", FALSE),
        Of("apply", d1, "tls", "own", FALSE)}
  \cup {Of("apply", d1, "tls", c, FALSE) : c \in MCCertificates}
  \cup {Of("delete", d, "http", "own", TRUE) : d \in MCDomains}
  \cup {Of("delete", d1, "http", "own", FALSE)}
  \cup {Of("sync", d1, "tls", c, TRUE) : c \in {c2}}
  \cup {[Of("sync", d1, "tls", c2, TRUE) EXCEPT !.reload = FALSE]}
  \cup {Of("reload", d1, "http", "own", FALSE)}

LocalRequests == {Of("apply", d1, "tls", "shared", TRUE)}
===============================================================================
