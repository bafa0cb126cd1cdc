-------------------------- MODULE RedisCacheService --------------------------
(***************************************************************************)
(* RedisCacheService (src/db/redis/service.go): goroutines calling the     *)
(* service's operations concurrently.  Each call takes a connection from   *)
(* the pool (pool.Get), may return early after checking its arguments,     *)
(* sends its command, for a write with a positive TTL sends EXPIRE on the *)
(* same connection, and gives the connection back in the deferred         *)
(* conn.Close().  Every conn.Do is one atomic step of the store; between   *)
(* two of them other callers and the store's expirations may act.  A      *)
(* round trip may fail at the transport before or after the store applied *)
(* it, which breaks the connection.  Logging is left out.                  *)
(***************************************************************************)
EXTENDS ConnPool, RedisServer

CONSTANTS
    Ops,             \* the operations the callers invoke
    TTLs,            \* the ttl arguments callers pass
    TransportFaults, \* TRUE when a round trip may fail
    MaxListLen       \* callers push onto a list shorter than this

ASSUME TransportFaults \in BOOLEAN /\ TTLs \subseteq Int /\ MaxListLen \in Nat

VARIABLES
    store,  \* the keyspace of the remote store
    pc,     \* pc[p]: where p is in its current call
    call,   \* call[p]: the operation and arguments of p's current call
    res,    \* res[p]: what the call returns
    sent,   \* sent[p]: the round trips of the current call (history)
    idx     \* idx[p]: the position of Mset's expire loop

vars == <<poolVars, store, pc, call, res, sent, idx>>

-----------------------------------------------------------------------------
(* Calls *)

TTLWrites == {"Set", "Mset", "SAdd", "ZAdd", "HSet", "HMSet"}

AnyVal == CHOOSE v \in Vals : TRUE

CallRec(op, keys, ttl, val, mems, even) ==
    [op |-> op, keys |-> keys, ttl |-> ttl, val |-> val, mems |-> mems, even |-> even,
     lo |-> 0, hi |-> 0]

OneKey == {<<k>> : k \in Keys}
\* Batches of Mset, Mget and Dels: empty, one key, or two distinct keys.
Batches == {<<>>} \cup OneKey \cup {s \in Keys \X Keys : s[1] # s[2]}

\* ZRange/ZRevRange start and stop: all, the last member, an empty range.
Ranges == {<<0, -1>>, <<-1, -1>>, <<1, 0>>}
\* ZRangeByScore/ZRemRangeByScore min and max, as positions in ScoreOrder.
ScoreBounds == {<<i, j>> : i, j \in 1..Cardinality(Members)}

RangeCalls(op, bounds) ==
    {[CallRec(op, ks, 0, AnyVal, {}, TRUE) EXCEPT !.lo = b[1], !.hi = b[2]] :
        ks \in OneKey, b \in bounds}

OpCalls(op) ==
    CASE op = "Set" -> {CallRec(op, ks, t, v, {}, TRUE) : ks \in OneKey, t \in TTLs, v \in Vals}
      [] op = "Mset" -> {CallRec(op, ks, t, v, {}, TRUE) : ks \in Batches, t \in TTLs, v \in Vals}
      [] op \in {"Get", "Exists", "Del"} -> {CallRec(op, ks, 0, AnyVal, {}, TRUE) : ks \in OneKey}
      [] op \in {"Mget", "Dels", "Keys"} -> {CallRec(op, ks, 0, AnyVal, {}, TRUE) : ks \in Batches}
      [] op \in {"SCard", "SMembers", "ZCard", "HKeys", "HVals", "HGetAll", "HLen",
                 "LRpop", "LLpop", "LIndex"} ->
            {CallRec(op, ks, 0, AnyVal, {}, TRUE) : ks \in OneKey}
      [] op \in {"SRem", "ZRem", "HDel", "HMGet"} ->
            {CallRec(op, ks, 0, AnyVal, ms, TRUE) : ks \in OneKey, ms \in SUBSET Members}
      [] op \in {"LRpush", "LLpush"} -> {CallRec(op, ks, 0, v, {}, TRUE) : ks \in OneKey, v \in Vals}
      [] op \in {"ZRange", "ZRevRange"} -> RangeCalls(op, Ranges)
      [] op \in {"ZRangeByScore", "ZRemRangeByScore"} -> RangeCalls(op, ScoreBounds)
      [] op \in {"SIsMember", "ZRank", "ZRevRank", "HGet", "HExists"} ->
            {CallRec(op, ks, 0, AnyVal, {m}, TRUE) : ks \in OneKey, m \in Members}
      [] op = "SAdd" -> {CallRec(op, ks, t, AnyVal, ms, TRUE) : ks \in OneKey, t \in TTLs, ms \in SUBSET Members}
      [] op = "HSet" -> {CallRec(op, ks, t, AnyVal, {m}, TRUE) : ks \in OneKey, t \in TTLs, m \in Members}
      \* ZAdd and HMSet take a score/member (field/value) list: an odd one
      \* is refused; an even one names the members (none when empty).
      [] op \in {"ZAdd", "HMSet"} ->
            {CallRec(op, ks, t, AnyVal, ms, TRUE) : ks \in OneKey, t \in TTLs, ms \in SUBSET Members}
            \cup {CallRec(op, ks, t, AnyVal, {}, FALSE) : ks \in OneKey, t \in TTLs}

Calls == UNION {OpCalls(op) : op \in Ops}

\* The call record of an idle caller.
NoCall == CallRec("None", <<>>, 0, AnyVal, {}, TRUE)

Result(err, data, n) == [err |-> err, data |-> data, n |-> n]
Ok == Result(FALSE, <<>>, 0)
Fail == Result(TRUE, <<>>, 0)

\* A round trip as the history keeps it: whether the store served it, its
\* reply, whether one of the call's keys existed when it ran, and the list
\* held by the call's key after it.
Sent(name, keys, served, reply, found, items) ==
    [cmd |-> name, keys |-> keys, ok |-> reply.kind # "error", served |-> served,
     reply |-> reply, found |-> found, items |-> items]

-----------------------------------------------------------------------------
(* One conn.Do *)

\* A round trip reaches the store and is answered ("ok"), is lost before the
\* store sees it, or is applied and its answer lost; either loss breaks the
\* connection.  On errorConn or a broken connection it fails at once.
Outcomes(p) ==
    IF conn[p] = ErrConn \/ broken[conn[p]] THEN {"fail"}
    ELSE IF TransportFaults THEN {"ok", "lostReq", "lostReply"} ELSE {"ok"}

ReplyOf(c, o) == IF o = "ok" THEN Exec(store, c).reply ELSE ErrorReply

Failed(c, o) == ReplyOf(c, o).kind = "error"

\* conn.Do(c) with outcome o: the store, the connection and the history.
Do(p, c, o) ==
    /\ store' = IF o \in {"ok", "lostReply"} THEN Exec(store, c).st ELSE store
    /\ broken' = IF o \in {"lostReq", "lostReply"}
                 THEN [broken EXCEPT ![conn[p]] = TRUE] ELSE broken
    /\ LET k == call[p].keys IN
       sent' = [sent EXCEPT ![p] = Append(@,
                 Sent(c.name, c.keys, o = "ok", ReplyOf(c, o),
                      \E i \in DOMAIN k : store[k[i]].type # "none",
                      IF k = <<>> THEN <<>> ELSE store'[k[1]].items))]
    /\ UNCHANGED <<conn, connSt, tokens, active, call>>

Goto(p, where) == pc' = [pc EXCEPT ![p] = where]

Finish(p, r) == Goto(p, "Return") /\ res' = [res EXCEPT ![p] = r]

\* Fault: the `if ttl > 0` of the TTL writes becomes `ttl >= 0`.
AsksAtZero(p) == call[p].ttl >= 0

Asks(p) == call[p].ttl > 0

\* A read sends one command; on error the call returns onErr, otherwise
\* what Coerce makes of the reply (the type coercion of each operation).
Read(p, name, Coerce(_), onErr) ==
    /\ pc[p] = "Cmd"
    /\ LET c == [Cmd(name, call[p].keys, call[p].val, call[p].mems, FALSE)
                 EXCEPT !.lo = call[p].lo, !.hi = call[p].hi] IN
       \E o \in Outcomes(p) :
         /\ Do(p, c, o)
         /\ Finish(p, IF Failed(c, o) THEN onErr ELSE Coerce(ReplyOf(c, o)))
    /\ UNCHANGED idx

Count(n) == Result(FALSE, <<>>, n)
Entries(r) == Result(FALSE, r.data, 0)
\* A bulk reply as bytes, nil as the empty value; on error the empty value.
Bytes(r) == IF r.kind = "nil" THEN Result(FALSE, <<{}>>, 0) ELSE Result(FALSE, r.data, 0)
NoBytes == Result(TRUE, <<{}>>, 0)

-----------------------------------------------------------------------------
(* Arguments refused right after pool.Get *)

MsetEmpty(c) == c.op = "Mset" /\ c.keys = <<>>
MgetEmpty(c) == c.op = "Mget" /\ c.keys = <<>>
DelsEmpty(c) == c.op = "Dels" /\ c.keys = <<>>
ZAddOdd(c)   == c.op = "ZAdd" /\ ~c.even
HMSetOdd(c)  == c.op = "HMSet" /\ ~c.even

Refused(c) == ZAddOdd(c) \/ HMSetOdd(c)
EarlyReturn(c) == MsetEmpty(c) \/ MgetEmpty(c) \/ DelsEmpty(c) \/ Refused(c)

-----------------------------------------------------------------------------
(* Steps of a call *)

Call(p) ==
    /\ pc[p] = "Idle"
    /\ \E c \in Calls :
         /\ c.op \in {"LRpush", "LLpush"} => Len(store[c.keys[1]].items) < MaxListLen
         /\ call' = [call EXCEPT ![p] = c]
    /\ Goto(p, "Acquire")
    /\ res' = [res EXCEPT ![p] = Ok]
    /\ sent' = [sent EXCEPT ![p] = <<>>]
    /\ idx' = [idx EXCEPT ![p] = 1]
    /\ UNCHANGED <<poolVars, store>>

\* conn := service.pool.Get(), then the argument checks before any Do.
Acquire(p) ==
    /\ pc[p] = "Acquire"
    /\ \/ PoolReuse(p) /\ UNCHANGED sent
       \/ PoolDial(p) /\ sent' = [sent EXCEPT ![p] =
                                   <<Sent("dial", <<>>, FALSE,
                                          IF conn'[p] # ErrConn THEN NilReply ELSE ErrorReply,
                                          FALSE, <<>>)>>]
    /\ IF EarlyReturn(call[p])
       THEN Finish(p, IF Refused(call[p]) THEN Fail ELSE Ok)
       ELSE Goto(p, "Cmd") /\ UNCHANGED res
    /\ UNCHANGED <<store, call, idx>>

\* The deferred conn.Close() runs when the call returns; what the call
\* did is forgotten.
Return(p) ==
    /\ pc[p] = "Return"
    /\ PoolPut(p)
    /\ Goto(p, "Idle")
    /\ call' = [call EXCEPT ![p] = NoCall]
    /\ res' = [res EXCEPT ![p] = Ok]
    /\ sent' = [sent EXCEPT ![p] = <<>>]
    /\ idx' = [idx EXCEPT ![p] = 1]
    /\ UNCHANGED store

\* Set: SET; on error return it; with ttl > 0 then EXPIRE.
SetCmd(p) ==
    /\ pc[p] = "Cmd" /\ call[p].op = "Set"
    /\ LET c == Cmd("set", call[p].keys, call[p].val, {}, Asks(p)) IN
       \E o \in Outcomes(p) :
         /\ Do(p, c, o)
         /\ IF Failed(c, o) THEN Finish(p, Fail)
            ELSE IF Asks(p) THEN Goto(p, "Expire") /\ UNCHANGED res
            ELSE Finish(p, Ok)
    /\ UNCHANGED idx

\* Fault: the EXPIRE is retried until it succeeds.
SetExpireRetries(p) ==
    /\ pc[p] = "Expire" /\ call[p].op = "Set"
    /\ LET c == Cmd("expire", call[p].keys, AnyVal, {}, TRUE) IN
       \E o \in Outcomes(p) :
         IF Failed(c, o)
         THEN /\ store' = IF o = "lostReply" THEN Exec(store, c).st ELSE store
              /\ broken' = IF o \in {"lostReq", "lostReply"}
                           THEN [broken EXCEPT ![conn[p]] = TRUE] ELSE broken
              /\ UNCHANGED <<conn, connSt, tokens, active, call, pc, res, sent>>
         ELSE Do(p, c, o) /\ Finish(p, Ok)
    /\ UNCHANGED idx

SetExpire(p) ==
    /\ pc[p] = "Expire" /\ call[p].op = "Set"
    /\ LET c == Cmd("expire", call[p].keys, AnyVal, {}, TRUE) IN
       \E o \in Outcomes(p) :
         /\ Do(p, c, o)
         /\ Finish(p, IF Failed(c, o) THEN Fail ELSE Ok)
    /\ UNCHANGED idx

\* Mset: MSET of all pairs; with ttl > 0 an EXPIRE per key, in order,
\* stopping at the first error.
MsetCmd(p) ==
    /\ pc[p] = "Cmd" /\ call[p].op = "Mset"
    /\ LET c == Cmd("mset", call[p].keys, call[p].val, {}, Asks(p)) IN
       \E o \in Outcomes(p) :
         /\ Do(p, c, o)
         /\ IF Failed(c, o) THEN Finish(p, Fail)
            ELSE IF Asks(p) THEN Goto(p, "Expire") /\ UNCHANGED res
            ELSE Finish(p, Ok)
    /\ UNCHANGED idx

\* Fault: the expire loop stops one key short.
MsetExpireStopsEarly(p) ==
    /\ pc[p] = "Expire" /\ call[p].op = "Mset"
    /\ LET c == Cmd("expire", <<call[p].keys[idx[p]]>>, AnyVal, {}, TRUE) IN
       \E o \in Outcomes(p) :
         /\ Do(p, c, o)
         /\ IF Failed(c, o) THEN Finish(p, Fail) /\ UNCHANGED idx
            ELSE IF idx[p] + 1 >= Len(call[p].keys) THEN Finish(p, Ok) /\ UNCHANGED idx
            ELSE idx' = [idx EXCEPT ![p] = @ + 1] /\ UNCHANGED <<pc, res>>

\* Fault: the loop index is advanced past the last key.
MsetExpireOvershoots(p) ==
    /\ pc[p] = "Expire" /\ call[p].op = "Mset"
    /\ LET c == Cmd("expire", <<call[p].keys[idx[p]]>>, AnyVal, {}, TRUE) IN
       \E o \in Outcomes(p) :
         /\ Do(p, c, o)
         /\ IF Failed(c, o) THEN Finish(p, Fail) /\ UNCHANGED idx
            ELSE IF idx[p] = Len(call[p].keys) THEN Finish(p, Ok) /\ idx' = [idx EXCEPT ![p] = @ + 1]
            ELSE idx' = [idx EXCEPT ![p] = @ + 1] /\ UNCHANGED <<pc, res>>

MsetExpire(p) ==
    /\ pc[p] = "Expire" /\ call[p].op = "Mset"
    /\ LET c == Cmd("expire", <<call[p].keys[idx[p]]>>, AnyVal, {}, TRUE) IN
       \E o \in Outcomes(p) :
         /\ Do(p, c, o)
         /\ IF Failed(c, o) THEN Finish(p, Fail) /\ UNCHANGED idx
            ELSE IF idx[p] = Len(call[p].keys) THEN Finish(p, Ok) /\ UNCHANGED idx
            ELSE idx' = [idx EXCEPT ![p] = @ + 1] /\ UNCHANGED <<pc, res>>

\* Fault: a nil reply is reported as an error.
GetCmdNilIsError(p) ==
    /\ call[p].op = "Get"
    /\ Read(p, "get", LAMBDA r : IF r.kind = "nil" THEN Result(TRUE, <<{}>>, 0)
                                 ELSE Result(FALSE, r.data, 0),
            Result(TRUE, <<{}>>, 0))

\* Get: a nil reply is the empty value with no error.
GetCmd(p) == call[p].op = "Get" /\ Read(p, "get", Bytes, NoBytes)

\* Mget: one entry per key, a missing key a nil entry at its position.
MgetCmd(p) == call[p].op = "Mget" /\ Read(p, "mget", Entries, Fail)

\* Exists: TRUE (n = 1) only for the integer reply 1.
ExistsCmd(p) ==
    call[p].op = "Exists" /\ Read(p, "exists", LAMBDA r : Count(IF r.n = 1 THEN 1 ELSE 0), Fail)

\* Keys: the matching keys; an error returns none.
KeysCmd(p) == call[p].op = "Keys" /\ Read(p, "keys", Entries, Fail)

\* Fault: Del logs the error of DEL and returns nil.
DelCmdIgnoresError(p) ==
    /\ pc[p] = "Cmd" /\ call[p].op = "Del"
    /\ LET c == Cmd("del", call[p].keys, AnyVal, {}, FALSE) IN
       \E o \in Outcomes(p) :
         /\ Do(p, c, o)
         /\ Finish(p, Ok)
    /\ UNCHANGED idx

DelCmd(p) ==
    /\ pc[p] = "Cmd" /\ call[p].op = "Del"
    /\ LET c == Cmd("del", call[p].keys, AnyVal, {}, FALSE) IN
       \E o \in Outcomes(p) :
         /\ Do(p, c, o)
         /\ Finish(p, IF Failed(c, o) THEN Fail ELSE Ok)
    /\ UNCHANGED idx

\* Dels: the error of DEL is logged, and nil is returned whatever happened.
DelsCmd(p) ==
    /\ pc[p] = "Cmd" /\ call[p].op = "Dels"
    /\ LET c == Cmd("del", call[p].keys, AnyVal, {}, FALSE) IN
       \E o \in Outcomes(p) :
         /\ Do(p, c, o)
         /\ Finish(p, Ok)
    /\ UNCHANGED idx

\* Fault: the add command's error is dropped.
AddCmdIgnoresError(p, name) ==
    /\ pc[p] = "Cmd"
    /\ LET c == Cmd(name, call[p].keys, AnyVal, call[p].mems, Asks(p)) IN
       \E o \in Outcomes(p) :
         /\ Do(p, c, o)
         /\ res' = [res EXCEPT ![p] = Ok]
         /\ Goto(p, IF Asks(p) THEN "Expire" ELSE "Return")
    /\ UNCHANGED idx

\* Fault: the ttl argument is ignored.
AddCmdSkipsTTL(p, name) ==
    /\ pc[p] = "Cmd"
    /\ LET c == Cmd(name, call[p].keys, AnyVal, call[p].mems, Asks(p)) IN
       \E o \in Outcomes(p) :
         /\ Do(p, c, o)
         /\ res' = [res EXCEPT ![p] = IF Failed(c, o) THEN Fail ELSE Ok]
         /\ Goto(p, "Return")
    /\ UNCHANGED idx

\* Fault: a successful EXPIRE hides the add command's error.
AddExpireDropsAddError(p) ==
    /\ pc[p] = "Expire"
    /\ LET c == Cmd("expire", call[p].keys, AnyVal, {}, TRUE) IN
       \E o \in Outcomes(p) :
         /\ Do(p, c, o)
         /\ Finish(p, IF Failed(c, o) THEN Fail ELSE Ok)
    /\ UNCHANGED idx

\* SAdd, ZAdd, HSet, HMSet: the error of the add command is only logged;
\* with ttl > 0 EXPIRE is sent whatever the add did, and an EXPIRE error
\* replaces the add's error as the result.
AddCmd(p, name) ==
    /\ pc[p] = "Cmd"
    /\ LET c == Cmd(name, call[p].keys, AnyVal, call[p].mems, Asks(p)) IN
       \E o \in Outcomes(p) :
         /\ Do(p, c, o)
         /\ res' = [res EXCEPT ![p] = IF Failed(c, o) THEN Fail ELSE Ok]
         /\ Goto(p, IF Asks(p) THEN "Expire" ELSE "Return")
    /\ UNCHANGED idx

AddExpire(p) ==
    /\ pc[p] = "Expire"
    /\ LET c == Cmd("expire", call[p].keys, AnyVal, {}, TRUE) IN
       \E o \in Outcomes(p) :
         /\ Do(p, c, o)
         /\ Finish(p, IF Failed(c, o) THEN Fail ELSE res[p])
    /\ UNCHANGED idx

SAddCmd(p)     == call[p].op = "SAdd" /\ AddCmd(p, "sadd")
SAddExpire(p)  == call[p].op = "SAdd" /\ AddExpire(p)
ZAddCmd(p)     == call[p].op = "ZAdd" /\ AddCmd(p, "zadd")
ZAddExpire(p)  == call[p].op = "ZAdd" /\ AddExpire(p)
HSetCmd(p)     == call[p].op = "HSet" /\ AddCmd(p, "hset")
HSetExpire(p)  == call[p].op = "HSet" /\ AddExpire(p)
HMSetCmd(p)    == call[p].op = "HMSet" /\ AddCmd(p, "hmset")
HMSetExpire(p) == call[p].op = "HMSet" /\ AddExpire(p)

\* The reads of the set and sorted-set groups: an integer reply is
\* returned as is, an error as 0 (-1 for the ranks), a nil rank as -1.
SRemCmd(p)      == call[p].op = "SRem" /\ Read(p, "srem", LAMBDA r : Count(r.n), Fail)
SCardCmd(p)     == call[p].op = "SCard" /\ Read(p, "scard", LAMBDA r : Count(r.n), Fail)
SIsMemberCmd(p) ==
    call[p].op = "SIsMember" /\ Read(p, "sismember", LAMBDA r : Count(IF r.n > 0 THEN 1 ELSE 0), Fail)
SMembersCmd(p)  == call[p].op = "SMembers" /\ Read(p, "smembers", Entries, Fail)
ZRemCmd(p)      == call[p].op = "ZRem" /\ Read(p, "zrem", LAMBDA r : Count(r.n), Fail)
ZCardCmd(p)     == call[p].op = "ZCard" /\ Read(p, "zcard", LAMBDA r : Count(r.n), Fail)

\* Fault: a nil rank is returned as 0.
RankOfNilAsZero(r) == Count(IF r.kind = "nil" THEN 0 ELSE r.n)

RankOf(r) == Count(IF r.kind = "nil" THEN -1 ELSE r.n)

ZRankCmd(p)    == call[p].op = "ZRank" /\ Read(p, "zrank", RankOf, Result(TRUE, <<>>, -1))
ZRevRankCmd(p) == call[p].op = "ZRevRank" /\ Read(p, "zrevrank", RankOf, Result(TRUE, <<>>, -1))

\* ZRange, ZRangeByScore, ZRevRange: the members of the reply, a nil one as
\* the empty value (scores are left out); on error none.
\* Fault: the coercion loop skips the first element.
ZRangeCmdSkipsFirst(p) ==
    call[p].op = "ZRange" /\ Read(p, "zrange", LAMBDA r : Result(FALSE, SubSeq(r.data, 2, Len(r.data)), 0), Fail)

\* Fault: ZRevRange sends ZRANGE.
ZRevRangeCmdSendsZrange(p) == call[p].op = "ZRevRange" /\ Read(p, "zrange", Entries, Fail)

\* Fault: the error of ZREMRANGEBYSCORE is dropped (0, nil).
ZRemRangeByScoreCmdIgnoresError(p) ==
    call[p].op = "ZRemRangeByScore" /\ Read(p, "zremrangebyscore", LAMBDA r : Count(r.n), Count(0))

ZRangeCmd(p)         == call[p].op = "ZRange" /\ Read(p, "zrange", Entries, Fail)
ZRangeByScoreCmd(p)  == call[p].op = "ZRangeByScore" /\ Read(p, "zrangebyscore", Entries, Fail)
ZRevRangeCmd(p)      == call[p].op = "ZRevRange" /\ Read(p, "zrevrange", Entries, Fail)
ZRemRangeByScoreCmd(p) ==
    call[p].op = "ZRemRangeByScore" /\ Read(p, "zremrangebyscore", LAMBDA r : Count(r.n), Fail)

\* The hash reads: HGet like Get, HMGet one entry per field, HExists from
\* an integer, the others as SCard and SMembers.
\* Fault: a nil HGET reply is reported as an error.
HGetCmdNilIsError(p) ==
    call[p].op = "HGet" /\ Read(p, "hget", LAMBDA r : IF r.kind = "nil" THEN NoBytes ELSE Bytes(r), NoBytes)

\* Fault: nil entries are left out, as Keys does.
HMGetCmdSkipsNil(p) ==
    call[p].op = "HMGet" /\ Read(p, "hmget", LAMBDA r : Result(FALSE, SelectSeq(r.data, LAMBDA x : x # {}), 0), Fail)

\* Fault: the error of HDEL is dropped (0, nil).
HDelCmdIgnoresError(p) == call[p].op = "HDel" /\ Read(p, "hdel", LAMBDA r : Count(r.n), Count(0))

HGetCmd(p)    == call[p].op = "HGet" /\ Read(p, "hget", Bytes, NoBytes)
HMGetCmd(p)   == call[p].op = "HMGet" /\ Read(p, "hmget", Entries, Fail)
HDelCmd(p)    == call[p].op = "HDel" /\ Read(p, "hdel", LAMBDA r : Count(r.n), Fail)
HExistsCmd(p) ==
    call[p].op = "HExists" /\ Read(p, "hexists", LAMBDA r : Count(IF r.n > 0 THEN 1 ELSE 0), Fail)
HKeysCmd(p)   == call[p].op = "HKeys" /\ Read(p, "hkeys", Entries, Fail)
HValsCmd(p)   == call[p].op = "HVals" /\ Read(p, "hvals", Entries, Fail)
HGetAllCmd(p) == call[p].op = "HGetAll" /\ Read(p, "hgetall", Entries, Fail)
HLenCmd(p)    == call[p].op = "HLen" /\ Read(p, "hlen", LAMBDA r : Count(r.n), Fail)

\* LRpush sends LPUSH and LLpush sends RPUSH; both return the new length.
\* Fault: the error of the push is dropped (0, nil).
LLpushCmdIgnoresError(p) == call[p].op = "LLpush" /\ Read(p, "rpush", LAMBDA r : Count(r.n), Count(0))

\* Fault: a nil RPOP reply is reported as an error.
LRpopCmdNilIsError(p) ==
    call[p].op = "LRpop" /\ Read(p, "rpop", LAMBDA r : IF r.kind = "nil" THEN NoBytes ELSE Bytes(r), NoBytes)

LRpushCmd(p) == call[p].op = "LRpush" /\ Read(p, "lpush", LAMBDA r : Count(r.n), Fail)
LLpushCmd(p) == call[p].op = "LLpush" /\ Read(p, "rpush", LAMBDA r : Count(r.n), Fail)
\* LRpop sends RPOP and LLpop LPOP; a nil reply is the empty value.
LRpopCmd(p)  == call[p].op = "LRpop" /\ Read(p, "rpop", Bytes, NoBytes)
LLpopCmd(p)  == call[p].op = "LLpop" /\ Read(p, "lpop", Bytes, NoBytes)

\* LIndex passes its argument slice as one argument: redigo formats it as
\* a single string, so the store receives LINDEX with one argument.
LIndexCmd(p) ==
    /\ pc[p] = "Cmd" /\ call[p].op = "LIndex"
    /\ LET c == Cmd("lindex", <<>>, AnyVal, {}, FALSE) IN
       \E o \in Outcomes(p) :
         /\ Do(p, c, o)
         /\ Finish(p, IF Failed(c, o) THEN NoBytes ELSE Bytes(ReplyOf(c, o)))
    /\ UNCHANGED idx

\* The store drops a key whose TTL has run out, at any moment.
Expiry(k) ==
    /\ store[k].ttl
    /\ store' = Expired(store, k)
    /\ UNCHANGED <<poolVars, pc, call, res, sent, idx>>

-----------------------------------------------------------------------------

Init ==
    /\ PoolInit
    /\ store = [k \in Keys |-> Absent]
    /\ pc = [p \in Clients |-> "Idle"]
    /\ call = [p \in Clients |-> NoCall]
    /\ res = [p \in Clients |-> Ok]
    /\ sent = [p \in Clients |-> <<>>]
    /\ idx = [p \in Clients |-> 1]

\* The steps of p's call after it has been made.
Steps(p) ==
    \/ Acquire(p) \/ Return(p)
    \/ SetCmd(p) \/ SetExpire(p) \/ GetCmd(p) \/ MsetCmd(p) \/ MsetExpire(p)
    \/ MgetCmd(p) \/ ExistsCmd(p) \/ DelCmd(p) \/ DelsCmd(p) \/ KeysCmd(p)
    \/ SAddCmd(p) \/ SAddExpire(p) \/ ZAddCmd(p) \/ ZAddExpire(p)
    \/ HSetCmd(p) \/ HSetExpire(p) \/ HMSetCmd(p) \/ HMSetExpire(p)
    \/ SRemCmd(p) \/ SCardCmd(p) \/ SIsMemberCmd(p) \/ SMembersCmd(p)
    \/ ZRemCmd(p) \/ ZCardCmd(p) \/ ZRankCmd(p) \/ ZRevRankCmd(p)
    \/ ZRangeCmd(p) \/ ZRangeByScoreCmd(p) \/ ZRevRangeCmd(p) \/ ZRemRangeByScoreCmd(p)
    \/ HGetCmd(p) \/ HMGetCmd(p) \/ HDelCmd(p) \/ HExistsCmd(p)
    \/ HKeysCmd(p) \/ HValsCmd(p) \/ HGetAllCmd(p) \/ HLenCmd(p)
    \/ LRpushCmd(p) \/ LLpushCmd(p) \/ LRpopCmd(p) \/ LLpopCmd(p) \/ LIndexCmd(p)

Next ==
    \/ \E p \in Clients : Call(p) \/ Steps(p)
    \/ \E k \in Keys : Expiry(k)

\* A call in progress is never abandoned (weak fairness of its steps);
\* pool.Get waits on a Go channel whose blocked receivers are served in
\* order, so a caller waiting for a slot that is freed again and again
\* gets one (strong fairness).  Making calls and expirations are not fair.
Fairness ==
    \A p \in Clients : /\ SF_vars(Acquire(p))
                       /\ WF_vars(Steps(p))

Spec == Init /\ [][Next]_vars /\ Fairness

-----------------------------------------------------------------------------
(* Properties *)

ServiceTypeOK ==
    /\ TypeOK
    /\ store \in [Keys -> Entry]
    /\ pc \in [Clients -> {"Idle", "Acquire", "Cmd", "Expire", "Return"}]
    /\ call \in [Clients -> Calls \cup {NoCall}]
    /\ \A p \in Clients : idx[p] \in 1..Len(call[p].keys) \cup {1}

Returning(p) == pc[p] = "Return"

Commands(p) == {i \in DOMAIN sent[p] : sent[p][i].cmd # "dial"}

\* Spec 4.2 and 7: a transport or protocol failure is never swallowed.  A
\* call that returns no error had every command it sent succeed.
ErrorsSurface ==
    \A p \in Clients : Returning(p) /\ ~res[p].err =>
        \A i \in Commands(p) : sent[p][i].ok

\* Spec 3 and 4.4: the TTL of a write is applied exactly as asked.  With
\* ttl > 0, a TTL-bearing write that returns no error has had a successful
\* EXPIRE for every key it wrote (Set's and the add commands' trailing
\* EXPIRE, Mset's loop over the batch); with ttl <= 0 it sends no EXPIRE
\* at all (the `if ttl > 0` boundary of every TTL write).
TTLAppliedOnSuccess ==
    \A p \in Clients :
        /\ Returning(p) /\ ~res[p].err
           /\ call[p].op \in TTLWrites /\ call[p].ttl > 0 /\ ~EarlyReturn(call[p])
           => \A k \in KeySet(call[p].keys) :
                \E i \in DOMAIN sent[p] : /\ sent[p][i].cmd = "expire"
                                          /\ sent[p][i].keys = <<k>>
                                          /\ sent[p][i].ok
        /\ Returning(p) /\ call[p].op \in TTLWrites /\ call[p].ttl <= 0
           => \A i \in DOMAIN sent[p] : sent[p][i].cmd # "expire"

\* Spec 4.3: a read returns an error exactly when its command failed, and
\* otherwise what the store answered, coerced: Get/HGet/LRpop/LLpop the
\* empty value for nil; Mget/HMGet one entry per key or field in the order
\* asked, a missing one in its place; the array reads every element;
\* Exists 1 only for the integer 1; ZRank/ZRevRank -1 exactly for nil.
ReadOps == {"Get", "Mget", "Exists", "Keys", "SRem", "SCard", "SIsMember",
            "SMembers", "ZRem", "ZCard", "ZRank", "ZRevRank", "ZRange",
            "ZRangeByScore", "ZRevRange", "ZRemRangeByScore", "HGet", "HMGet",
            "HDel", "HExists", "HKeys", "HVals", "HGetAll", "HLen",
            "LRpush", "LLpush", "LRpop", "LLpop", "LIndex"}

BytesOps == {"Get", "HGet", "LRpop", "LLpop", "LIndex"}
ArrayOps == {"Mget", "HMGet", "ZRange", "ZRangeByScore", "ZRevRange",
             "SMembers", "HKeys", "HVals", "HGetAll", "Keys"}

LastSent(p) == sent[p][Len(sent[p])]

ReadsDistinguishAbsent ==
    \A p \in Clients :
        Returning(p) /\ call[p].op \in ReadOps /\ Commands(p) # {} =>
          LET r == LastSent(p)
              op == call[p].op
          IN
          /\ res[p].err = ~r.ok
          /\ r.ok /\ op \in BytesOps =>
                res[p].data = <<IF r.reply.kind = "nil" THEN {} ELSE r.reply.data[1]>>
          /\ r.ok /\ op \in ArrayOps => res[p].data = r.reply.data
          /\ r.ok /\ op = "Mget" => Len(res[p].data) = Len(call[p].keys)
          /\ r.ok /\ op = "HMGet" => Len(res[p].data) = Cardinality(call[p].mems)
          /\ r.ok /\ op = "Exists" => (res[p].n = 1 <=> r.reply.n = 1)
          /\ r.ok /\ op \in {"ZRank", "ZRevRank"} =>
                (res[p].n = -1 <=> r.reply.kind = "nil")

\* Spec 3 and 4.3 (Get, HGet, LPop, LIndex, ZRank on an absent key): a read
\* of keys none of which exists, answered by the store, is not an error.
\* The reads that take no member list, whose empty form the store refuses.
AbsentReads == ReadOps \ {"SRem", "ZRem", "HDel", "HMGet", "LRpush", "LLpush",
                           "ZRemRangeByScore"}

AbsentIsNotError ==
    \A p \in Clients :
        Returning(p) /\ call[p].op \in AbsentReads /\ Commands(p) # {} =>
          LET r == LastSent(p) IN r.served /\ ~r.found => ~res[p].err

\* The position of a member in score order.
ScorePos(m) == CHOOSE i \in DOMAIN ScoreOrder : ScoreOrder[i] = m

\* Spec 8 (ZRange returns members in ascending score order): ZRange and
\* ZRangeByScore return members in ascending, ZRevRange in descending score
\* order.
RangeOrder ==
    \A p \in Clients :
        Returning(p) /\ ~res[p].err /\ call[p].op \in {"ZRange", "ZRangeByScore", "ZRevRange"} =>
          LET d == res[p].data
              up == call[p].op # "ZRevRange"
          IN \A i, j \in DOMAIN d :
               i < j => \E x \in d[i], y \in d[j] :
                          IF up THEN ScorePos(x) < ScorePos(y) ELSE ScorePos(x) > ScorePos(y)

\* LRpush pushes onto the right end of the list, the end LRpop pops from,
\* and LLpush onto the left end, LLpop's: after a successful push the
\* pushed value is at the end its name gives.
PushAtNamedEnd ==
    \A p \in Clients :
        Returning(p) /\ call[p].op \in {"LRpush", "LLpush"} /\ Commands(p) # {} /\ LastSent(p).ok =>
          LET l == LastSent(p).items IN
          IF call[p].op = "LRpush" THEN l[Len(l)] = call[p].val ELSE l[1] = call[p].val

\* Spec 3 (TTL <= 0 means no expiration set) and 8: a key carries an
\* expiration only if some write of its current value asked for one.
NoUnrequestedExpiry == \A k \in Keys : store[k].ttl => store[k].asked

\* Every call returns: the pool's slots always come back, whatever
\* fails, so no caller waits in pool.Get forever.
CallsReturn == \A p \in Clients : pc[p] = "Acquire" ~> pc[p] = "Idle"

=============================================================================
