----------------------------- MODULE RedisServer -----------------------------
(***************************************************************************)
(* The remote store RedisCacheService talks to, as seen through the        *)
(* commands the service sends: the effect of each command on the keyspace *)
(* and the reply it returns.  This is the environment of the model, not    *)
(* code of the repository.  A value is abstracted to the set of elements   *)
(* it holds: a string holds one value of Vals, a set, sorted set or hash   *)
(* the members (or fields) of Members it contains; scores and hash values  *)
(* are left out; a list holds the sequence `items` of its values.  Each   *)
(* entry also carries `asked`, a history field: TRUE when some write of   *)
(* the key's current value asked for an expiration.                       *)
(***************************************************************************)
EXTENDS Integers, FiniteSets, Sequences

LOCAL INSTANCE SequencesExt

CONSTANTS Keys, Vals, Members

Types == {"none", "string", "set", "zset", "hash", "list"}

Entry == [type : Types, val : SUBSET (Vals \cup Members), items : Seq(Vals),
          ttl : BOOLEAN, asked : BOOLEAN]

Absent == [type |-> "none", val |-> {}, items |-> <<>>, ttl |-> FALSE, asked |-> FALSE]

\* Replies: a status, nil, an integer, or an array of bulk strings (a bulk
\* string is the one-element set {v}; a nil element is {}), or an error.
Reply(kind, data, n) == [kind |-> kind, data |-> data, n |-> n]
StatusReply == Reply("status", <<>>, 0)
NilReply    == Reply("nil", <<>>, 0)
IntReply(n) == Reply("int", <<>>, n)
BulkReply(v) == Reply("bulk", <<v>>, 0)
ArrayReply(s) == Reply("array", s, 0)
ErrorReply  == Reply("error", <<>>, 0)

\* A command: its name, its keys, and its value or members argument; ask
\* records whether the call it belongs to asked for a TTL (history only).
\* lo and hi are the bounds of the range commands.
Cmd(name, keys, val, mems, ask) ==
    [name |-> name, keys |-> keys, val |-> val, mems |-> mems, ask |-> ask, lo |-> 0, hi |-> 0]

KeySet(ks) == {ks[i] : i \in DOMAIN ks}

StringEntry(v, ask) == [Absent EXCEPT !.type = "string", !.val = {v}, !.asked = ask]

\* SET and MSET overwrite any value and clear its expiration.
DoSet(st, c) ==
    [k \in Keys |-> IF k \in KeySet(c.keys) THEN StringEntry(c.val, c.ask) ELSE st[k]]

\* SADD, ZADD, HSET, HMSET: add members to a value of the command's type,
\* created when absent; an existing expiration is kept.  No member is a
\* wrong number of arguments; a value of another type is WRONGTYPE.
AddType(name) == CASE name = "sadd" -> "set"
                   [] name = "zadd" -> "zset"
                   [] OTHER -> "hash"

AddFails(st, c) ==
    c.mems = {} \/ st[c.keys[1]].type \notin {"none", AddType(c.name)}

DoAdd(st, c) ==
    LET k == c.keys[1] IN
    [st EXCEPT ![k] = [@ EXCEPT !.type = AddType(c.name), !.val = @ \cup c.mems,
                                !.asked = @ \/ c.ask]]

DoDel(st, c) == [k \in Keys |-> IF k \in KeySet(c.keys) THEN Absent ELSE st[k]]

\* EXPIRE sets a TTL on an existing key of any type; on an absent key it
\* replies 0 and changes nothing.
DoExpire(st, c) ==
    LET k == c.keys[1] IN
    IF st[k].type = "none" THEN st ELSE [st EXCEPT ![k].ttl = TRUE]

StringOf(e) == IF e.type = "string" THEN e.val ELSE {}

\* SREM, ZREM, HDEL: remove members (fields); a collection left empty is
\* deleted.
RemType(name) == CASE name = "srem" -> "set" [] name = "zrem" -> "zset" [] OTHER -> "hash"

DoRem(st, c) ==
    LET k == c.keys[1]
        left == st[k].val \ c.mems
    IN [st EXCEPT ![k] = IF left = {} THEN Absent ELSE [@ EXCEPT !.val = left]]

\* The elements of a set as an array reply.
AsArray(S) == LET s == SetToSeq(S) IN [i \in DOMAIN s |-> {s[i]}]

\* A sorted set orders its members by a fixed order standing for scores.
ScoreOrder == SetToSeq(Members)
Before(x, y) == \E i, j \in DOMAIN ScoreOrder : i < j /\ ScoreOrder[i] = x /\ ScoreOrder[j] = y

\* ZRANK / ZREVRANK of m: the number of members before (after) it.
Rank(name, val, m) ==
    IF name = "zrank" THEN Cardinality({x \in val : Before(x, m)})
    ELSE Cardinality({x \in val : Before(m, x)})

\* The members of a sorted set in ascending score order.
Sorted(val) == SelectSeq(ScoreOrder, LAMBDA m : m \in val)

\* ZRANGE start stop of the sequence s: negative indexes count from the
\* end, then start is raised to 0 and stop lowered to Len(s) - 1; empty
\* when start > stop.
IndexRange(s, start, stop) ==
    LET n == Len(s)
        lo == IF start < 0 THEN Max({start + n, 0}) ELSE start
        hi == IF stop < 0 THEN stop + n ELSE Min({stop, n - 1})
    IN IF lo > hi THEN <<>> ELSE SubSeq(s, lo + 1, hi + 1)

\* ZRANGEBYSCORE min max, scores standing for positions in ScoreOrder.
ByScore(val, min, max) ==
    SelectSeq(Sorted(val), LAMBDA m : \E i \in min..max : ScoreOrder[i] = m)

\* A sequence of elements as an array reply.
AsReplies(s) == [i \in DOMAIN s |-> {s[i]}]

\* LPUSH / RPUSH of one value; LPOP / RPOP; a list left empty is deleted.
Pushed(name, items, v) == IF name = "lpush" THEN <<v>> \o items ELSE Append(items, v)
Popped(name, items) == IF name = "lpop" THEN Tail(items) ELSE SubSeq(items, 1, Len(items) - 1)
PopEnd(name, items) == IF name = "lpop" THEN Head(items) ELSE items[Len(items)]

\* Reply of a read of a collection of type t: WRONGTYPE for another type,
\* `none` for an absent key, `some` otherwise.
ReadOf(e, t, none, some) ==
    CASE e.type = "none" -> none
      [] e.type = t -> some
      [] OTHER -> ErrorReply

\* The store after the command and the reply it sends back.
Exec(st, c) ==
    CASE c.name \in {"set", "mset"} ->
            [st |-> DoSet(st, c), reply |-> StatusReply]
      [] c.name = "get" ->
            LET e == st[c.keys[1]] IN
            [st |-> st,
             reply |-> CASE e.type = "none" -> NilReply
                         [] e.type = "string" -> BulkReply(e.val)
                         [] OTHER -> ErrorReply]
      [] c.name = "mget" ->
            [st |-> st,
             reply |-> ArrayReply([i \in DOMAIN c.keys |-> StringOf(st[c.keys[i]])])]
      [] c.name = "exists" ->
            [st |-> st, reply |-> IntReply(IF st[c.keys[1]].type # "none" THEN 1 ELSE 0)]
      [] c.name = "del" ->
            [st |-> DoDel(st, c),
             reply |-> IntReply(Cardinality({k \in KeySet(c.keys) : st[k].type # "none"}))]
      [] c.name = "expire" ->
            [st |-> DoExpire(st, c),
             reply |-> IntReply(IF st[c.keys[1]].type # "none" THEN 1 ELSE 0)]
      [] c.name \in {"sadd", "zadd", "hset", "hmset"} ->
            IF AddFails(st, c)
            THEN [st |-> st, reply |-> ErrorReply]
            ELSE [st |-> DoAdd(st, c), reply |-> StatusReply]
      [] c.name \in {"srem", "zrem", "hdel"} ->
            LET e == st[c.keys[1]] IN
            IF c.mems = {} \/ e.type \notin {"none", RemType(c.name)}
            THEN [st |-> st, reply |-> ErrorReply]
            ELSE [st |-> DoRem(st, c), reply |-> IntReply(Cardinality(e.val \cap c.mems))]
      [] c.name \in {"scard", "zcard", "hlen"} ->
            LET e == st[c.keys[1]] IN
            [st |-> st, reply |-> ReadOf(e, CASE c.name = "scard" -> "set"
                                              [] c.name = "zcard" -> "zset"
                                              [] OTHER -> "hash",
                                        IntReply(0), IntReply(Cardinality(e.val)))]
      [] c.name \in {"sismember", "hexists"} ->
            LET e == st[c.keys[1]] IN
            [st |-> st, reply |-> ReadOf(e, IF c.name = "sismember" THEN "set" ELSE "hash",
                                        IntReply(0),
                                        IntReply(IF c.mems \subseteq e.val THEN 1 ELSE 0))]
      [] c.name = "hget" ->
            LET e == st[c.keys[1]]
                f == CHOOSE x \in c.mems : TRUE
            IN [st |-> st, reply |-> ReadOf(e, "hash", NilReply,
                                           IF f \in e.val THEN BulkReply({f}) ELSE NilReply)]
      \* HMGET: one entry per field asked, nil for a missing one.
      [] c.name = "hmget" ->
            LET e == st[c.keys[1]]
                fs == SetToSeq(c.mems)
                got == [i \in DOMAIN fs |-> IF fs[i] \in e.val THEN {fs[i]} ELSE {}]
            IN [st |-> st,
                reply |-> IF c.mems = {} THEN ErrorReply
                          ELSE ReadOf(e, "hash", ArrayReply([i \in DOMAIN fs |-> {}]), ArrayReply(got))]
      \* HKEYS, HVALS, HGETALL (field, value pairs); hash values are left out.
      [] c.name \in {"hkeys", "hvals", "hgetall"} ->
            LET e == st[c.keys[1]]
                fs == AsArray(e.val)
            IN [st |-> st,
                reply |-> ReadOf(e, "hash", ArrayReply(<<>>),
                                 ArrayReply(IF c.name = "hgetall" THEN fs \o fs ELSE fs))]
      [] c.name \in {"zrange", "zrevrange"} ->
            LET e == st[c.keys[1]]
                s == IF c.name = "zrange" THEN Sorted(e.val) ELSE Reverse(Sorted(e.val))
            IN [st |-> st,
                reply |-> ReadOf(e, "zset", ArrayReply(<<>>),
                                 ArrayReply(AsReplies(IndexRange(s, c.lo, c.hi))))]
      [] c.name = "zrangebyscore" ->
            LET e == st[c.keys[1]] IN
            [st |-> st, reply |-> ReadOf(e, "zset", ArrayReply(<<>>),
                                        ArrayReply(AsReplies(ByScore(e.val, c.lo, c.hi))))]
      [] c.name = "zremrangebyscore" ->
            LET e == st[c.keys[1]]
                gone == Range(ByScore(e.val, c.lo, c.hi))
            IN IF e.type \notin {"none", "zset"} THEN [st |-> st, reply |-> ErrorReply]
               ELSE [st |-> DoRem(st, [c EXCEPT !.mems = gone]),
                     reply |-> IntReply(Cardinality(gone))]
      [] c.name \in {"lpush", "rpush"} ->
            LET k == c.keys[1]
                e == st[k]
                items == Pushed(c.name, e.items, c.val)
            IN IF e.type \notin {"none", "list"} THEN [st |-> st, reply |-> ErrorReply]
               ELSE [st |-> [st EXCEPT ![k] = [@ EXCEPT !.type = "list", !.items = items]],
                     reply |-> IntReply(Len(items))]
      [] c.name \in {"lpop", "rpop"} ->
            LET k == c.keys[1]
                e == st[k]
                left == Popped(c.name, e.items)
            IN CASE e.type = "none" -> [st |-> st, reply |-> NilReply]
                 [] e.type = "list" ->
                      [st |-> [st EXCEPT ![k] = IF left = <<>> THEN Absent
                                                ELSE [@ EXCEPT !.items = left]],
                       reply |-> BulkReply({PopEnd(c.name, e.items)})]
                 [] OTHER -> [st |-> st, reply |-> ErrorReply]
      \* LINDEX takes a key and an index; with one argument it is refused
      \* (wrong number of arguments) before any key is looked up.
      [] c.name = "lindex" /\ c.keys = <<>> ->
            [st |-> st, reply |-> ErrorReply]
      [] c.name = "smembers" ->
            LET e == st[c.keys[1]] IN
            [st |-> st, reply |-> ReadOf(e, "set", ArrayReply(<<>>), ArrayReply(AsArray(e.val)))]
      [] c.name \in {"zrank", "zrevrank"} ->
            LET e == st[c.keys[1]]
                m == CHOOSE x \in c.mems : TRUE
            IN [st |-> st, reply |-> ReadOf(e, "zset", NilReply,
                                           IF m \in e.val THEN IntReply(Rank(c.name, e.val, m))
                                           ELSE NilReply)]
      \* KEYS pattern: the existing keys among those the pattern matches.
      [] c.name = "keys" ->
            [st |-> st,
             reply |-> ArrayReply(AsArray({k \in KeySet(c.keys) : st[k].type # "none"}))]

\* The store drops a key whose expiration has passed.
Expired(st, k) == [st EXCEPT ![k] = Absent]

=============================================================================
