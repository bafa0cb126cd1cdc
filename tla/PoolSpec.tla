------------------------------ MODULE PoolSpec ------------------------------
(***************************************************************************)
(* What the connection pool of RedisCacheService promises its callers,     *)
(* stated without connections: a caller that obtains a usable connection   *)
(* holds it exclusively until it gives it back, and with a positive        *)
(* MaxActive no more than MaxActive callers hold one at a time (the pool   *)
(* is built with Wait = TRUE, so a caller over the limit blocks instead of *)
(* failing).  MaxActive = 0 means no limit, as in redigo.                  *)
(***************************************************************************)
EXTENDS Naturals, FiniteSets

CONSTANTS Clients, MaxActive

VARIABLE holders   \* the callers that currently hold a usable connection

Limited == MaxActive > 0

TypeOK == holders \in SUBSET Clients

Init == holders = {}

Acquire(p) ==
    /\ p \notin holders
    /\ Limited => Cardinality(holders) < MaxActive
    /\ holders' = holders \cup {p}

Release(p) ==
    /\ p \in holders
    /\ holders' = holders \ {p}

Next == \E p \in Clients : Acquire(p) \/ Release(p)

Spec == Init /\ [][Next]_holders

=============================================================================
