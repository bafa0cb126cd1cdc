------------------------------ MODULE ConnPool ------------------------------
(***************************************************************************)
(* The connection pool built by RedisCacheService.Initialize               *)
(* (src/db/redis/service.go 29-61): a redigo Pool with Wait = true,        *)
(* MaxActive, MaxIdle and IdleTimeout from RedisOptions, and a Dial        *)
(* function that connects and, when a password is configured, sends AUTH. *)
(* Pool.Get and activeConn.Close are redigo code, not code of this         *)
(* repository; they are modelled from its documented behaviour: a          *)
(* semaphore of MaxActive slots taken by Get and given back by Close or by *)
(* a failed dial, an idle list from which Get takes a connection after     *)
(* closing the stale ones, and a Close that discards a connection whose    *)
(* transport failed and keeps at most MaxIdle idle connections.  The      *)
(* order of the idle list is abstracted to a set.                          *)
(***************************************************************************)
EXTENDS Naturals, FiniteSets

CONSTANTS
    Clients,      \* goroutines calling the service
    MaxActive,    \* RedisOptions.MaxActive (0: no limit)
    MaxIdle,      \* RedisOptions.MaxIdle
    IdleTimeout,  \* RedisOptions.IdleTimeout in seconds (0: never stale)
    Password,     \* TRUE when RedisOptions.Password is not empty
    DialFaults,   \* TRUE when dial and AUTH may fail
    NoConn,       \* a caller holds no connection
    ErrConn       \* the errorConn Get returns when the dial failed

ASSUME /\ MaxActive \in Nat /\ MaxIdle \in Nat /\ IdleTimeout \in Nat
       /\ Password \in BOOLEAN /\ DialFaults \in BOOLEAN

VARIABLES
    conn,     \* conn[p]: the connection Get handed to p
    connSt,   \* connSt[c] \in {"closed", "idle", "busy"}
    broken,   \* broken[c]: c.Err() # nil, its transport has failed
    tokens,   \* free slots of the pool's semaphore channel p.ch
    active    \* redigo's p.active counter

poolVars == <<conn, connSt, broken, tokens, active>>

\* With Wait = true and MaxActive > 0, Get waits on a slot of p.ch.
Limited == MaxActive > 0

\* Enough identities for every connection the pool can have open at once:
\* one per caller and MaxIdle idle ones.
ConnIds == 1..(Cardinality(Clients) + MaxIdle)

IdleConns == {c \in ConnIds : connSt[c] = "idle"}
LiveConns == {c \in ConnIds : connSt[c] # "closed"}

\* Fault: Get does not take a slot of p.ch.
SlotNotTaken == 0

\* The slots of p.ch a Get takes and a Close gives back.
Slot == IF Limited THEN 1 ELSE 0

TypeOK ==
    /\ conn \in [Clients -> ConnIds \cup {NoConn, ErrConn}]
    /\ connSt \in [ConnIds -> {"closed", "idle", "busy"}]
    /\ broken \in [ConnIds -> BOOLEAN]
    /\ tokens \in 0..MaxActive
    /\ active \in Nat

PoolInit ==
    /\ conn = [p \in Clients |-> NoConn]
    /\ connSt = [c \in ConnIds |-> "closed"]
    /\ broken = [c \in ConnIds |-> FALSE]
    /\ tokens = MaxActive
    /\ active = 0

\* The Dial function of Initialize: redis.Dial fails, or succeeds and the
\* AUTH sent when a password is set fails (the socket is closed), or the
\* connection is usable.
DialOutcomes ==
    {"ok"} \cup (IF DialFaults
                 THEN {"dialFail"} \cup (IF Password THEN {"authFail"} ELSE {})
                 ELSE {})

\* Idle connections Get may find past IdleTimeout and close first.
StaleChoices == IF IdleTimeout > 0 THEN SUBSET IdleConns ELSE {{}}

\* Pool.Get first waits for a slot and closes the idle connections found
\* past IdleTimeout; `pruned` is connSt after that.
GetSlot(p) ==
    /\ conn[p] = NoConn
    /\ Limited => tokens > 0

Pruned(stale) == [c \in ConnIds |-> IF c \in stale THEN "closed" ELSE connSt[c]]

\* Pool.Get hands out an idle connection that is not stale.
PoolReuse(p) ==
    /\ GetSlot(p)
    /\ \E stale \in StaleChoices, c \in IdleConns :
         /\ c \notin stale
         /\ connSt' = [Pruned(stale) EXCEPT ![c] = "busy"]
         /\ conn' = [conn EXCEPT ![p] = c]
         /\ tokens' = tokens - Slot
         /\ active' = active - Cardinality(stale)
    /\ UNCHANGED broken

\* Fault: a failed dial gives its slot back a second time.
DialFailedReleasesTwice(p, stale) ==
    /\ connSt' = Pruned(stale)
    /\ conn' = [conn EXCEPT ![p] = ErrConn]
    /\ tokens' = tokens + Slot
    /\ active' = active - Cardinality(stale)

\* Fault: a failed dial leaves p.active counted.
DialFailedLeaksCount(p, stale) ==
    /\ connSt' = Pruned(stale)
    /\ conn' = [conn EXCEPT ![p] = ErrConn]
    /\ UNCHANGED tokens
    /\ active' = active - Cardinality(stale) + 1

\* The dial or its AUTH failed: p.active and the slot are given back and
\* Get returns errorConn.
DialFailed(p, stale) ==
    /\ connSt' = Pruned(stale)
    /\ conn' = [conn EXCEPT ![p] = ErrConn]
    /\ UNCHANGED tokens
    /\ active' = active - Cardinality(stale)

\* Pool.Get finds no idle connection left and dials.
PoolDial(p) ==
    /\ GetSlot(p)
    /\ \E stale \in StaleChoices :
         /\ IdleConns \subseteq stale
         /\ \E o \in DialOutcomes :
              IF o = "ok"
              THEN \E c \in {d \in ConnIds : Pruned(stale)[d] = "closed"} :
                     /\ connSt' = [Pruned(stale) EXCEPT ![c] = "busy"]
                     /\ conn' = [conn EXCEPT ![p] = c]
                     /\ tokens' = tokens - Slot
                     /\ active' = active - Cardinality(stale) + 1
              ELSE DialFailed(p, stale)
    /\ UNCHANGED broken

PoolGet(p) == PoolReuse(p) \/ PoolDial(p)

\* errorConn.Close does nothing: the failed dial gave its slot back.
CloseErrConn == UNCHANGED <<connSt, broken, tokens, active>>

\* Fault: Close does not give the slot back.
CloseConnKeepsSlot(c) ==
    /\ UNCHANGED tokens
    /\ IF Cardinality(IdleConns) + 1 > MaxIdle
       THEN \E old \in (IF IdleConns = {} THEN {c} ELSE IdleConns) :
              /\ connSt' = [connSt EXCEPT ![c] = "idle", ![old] = "closed"]
              /\ active' = active - 1
       ELSE /\ connSt' = [connSt EXCEPT ![c] = "idle"]
            /\ UNCHANGED active
    /\ UNCHANGED broken

\* Fault: a connection is put back idle without looking at c.Err().
CloseConnIgnoresErr(c) ==
    /\ tokens' = tokens + Slot
    /\ UNCHANGED broken
    /\ IF Cardinality(IdleConns) + 1 > MaxIdle
       THEN \E old \in (IF IdleConns = {} THEN {c} ELSE IdleConns) :
              /\ connSt' = [connSt EXCEPT ![c] = "idle", ![old] = "closed"]
              /\ active' = active - 1
       ELSE /\ connSt' = [connSt EXCEPT ![c] = "idle"]
            /\ UNCHANGED active

\* activeConn.Close for a real connection c: one whose transport failed is
\* closed; otherwise it goes to the front of the idle list and the oldest
\* idle one is closed when more than MaxIdle are idle; the slot is given
\* back.
CloseConn(c) ==
    /\ tokens' = tokens + Slot
    /\ IF broken[c]
       THEN /\ connSt' = [connSt EXCEPT ![c] = "closed"]
            /\ broken' = [broken EXCEPT ![c] = FALSE]
            /\ active' = active - 1
       ELSE /\ UNCHANGED broken
            /\ IF Cardinality(IdleConns) + 1 > MaxIdle
               THEN \E old \in (IF IdleConns = {} THEN {c} ELSE IdleConns) :
                      /\ connSt' = [connSt EXCEPT ![c] = "idle", ![old] = "closed"]
                      /\ active' = active - 1
               ELSE /\ connSt' = [connSt EXCEPT ![c] = "idle"]
                    /\ UNCHANGED active

\* The deferred conn.Close() of every operation.
PoolPut(p) ==
    /\ conn[p] # NoConn
    /\ conn' = [conn EXCEPT ![p] = NoConn]
    /\ IF conn[p] = ErrConn THEN CloseErrConn ELSE CloseConn(conn[p])

\* A round trip on p's connection fails at the transport: c.Err() is set.
ConnFails(p) ==
    /\ conn[p] \in ConnIds
    /\ broken' = [broken EXCEPT ![conn[p]] = TRUE]
    /\ UNCHANGED <<conn, connSt, tokens, active>>

-----------------------------------------------------------------------------
(* The pool on its own, used by callers that get, use and close.           *)

PoolNext == \E p \in Clients : PoolGet(p) \/ ConnFails(p) \/ PoolPut(p)

PoolStandalone == PoolInit /\ [][PoolNext]_poolVars

\* The callers holding a usable connection, seen by the abstract pool.
Holders == {p \in Clients : conn[p] \in ConnIds}

Abstract == INSTANCE PoolSpec WITH holders <- Holders

\* Refinement: the pool never lets more than MaxActive callers hold a
\* usable connection at once, however dials fail and idle ones go stale.
PoolRefinesSpec == Abstract!Spec

\* The pool's books balance after any sequence of Gets and Closes:
\*  - redigo's active counter is the number of open connections (idle or
\*    in use): failed dials and AUTHs, stale pruning, discarding broken
\*    connections and MaxIdle eviction keep it in step;
\*  - every busy connection has exactly one holder;
\*  - with a limit, the free slots of p.ch and the callers holding a real
\*    connection add up to MaxActive: no Get, failed dial or Close leaks a
\*    slot or gives one back twice (errorConn's Close gives back nothing);
\*  - no connection whose transport failed is kept idle for the next Get.
PoolAccounting ==
    /\ active = Cardinality(LiveConns)
    /\ \A c \in ConnIds :
         connSt[c] = "busy" <=> Cardinality({p \in Clients : conn[p] = c}) = 1
    /\ Limited => tokens + Cardinality(Holders) = MaxActive
    /\ \A c \in IdleConns : ~broken[c]

=============================================================================
