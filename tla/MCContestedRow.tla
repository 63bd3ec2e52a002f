---------------------------- MODULE MCContestedRow ----------------------------
(***************************************************************************)
(* The small instance of ContestedRow: three writers, two processes, two   *)
(* requests and two tenants, two attempts, two calls, and the funders of   *)
(* MCProspects.                                                            *)
(***************************************************************************)
EXTENDS ContestedRow, MCProspects

CONSTANTS w1, w2, w3, a1, a2, i1, i2, r1, r2, t1, t2, c1, c2

MCWriters == {w1, w2, w3}
MCInstances == {i1, i2}
MCRequests == {r1, r2}
MCTenants == {t1, t2}
MCAttempts == {a1, a2}

MCCalls == {c1, c2}
MCAddresses ==
    {[scheme |-> s, credentials |-> FALSE, port |-> 443, host |-> h] :
        s \in {"https", "http"}, h \in {"public", "local"}}
MCResolved == {{}, {<<93, 184>>}, {<<93, 184>>, <<172, 16>>}}
MCTimeouts == [k \in {"list", "search", "profile", "page"} |-> IF k = "list" THEN 2 ELSE 1]
===============================================================================
