# TLA+ models of go-toolkit's Redis cache service and logger registry

This directory holds TLA+ models of `src/db/redis`: the connection pool that
`RedisCacheService.Initialize` builds, and the service's operations called
concurrently by goroutines against a remote Redis that may lose round trips.
It also models the named-logger registry of `src/log/logruslogger`.
All files sit directly here. `PROJECT.json` lists the components, runs,
mutants, the definition-to-source map, findings and hazards.

## The system

| Part | Source | State | Operations |
|---|---|---|---|
| Pool | `service.go` 29-61 (Initialize), redigo `Pool` | semaphore `p.ch` of MaxActive slots, `p.active`, idle list, per-connection error | `pool.Get` (wait, prune stale, reuse or dial, AUTH), `conn.Close` (discard broken, push idle, evict beyond MaxIdle) |
| String group | `service.go` 75-241 | the keyspace | Set, Get, Mset, Mget, Exists, Del, Dels, Keys |
| Set group | 244-330 | | SAdd, SRem, SCard, SIsMember, SMembers |
| Sorted-set group | 333-531 | | ZAdd, ZRem, ZCard, ZRank, ZRevRank, ZRange, ZRangeByScore, ZRevRange, ZRemRangeByScore |
| Hash group | 534-731 | | HSet, HGet, HMSet, HMGet, HDel, HExists, HKeys, HVals, HGetAll, HLen |
| List group | 734-827 | | LRpush, LLpush, LRpop, LLpop, LIndex |
| Logger registry | `log/logruslogger/logger.go` 19-175 | mutex-guarded map of named loggers | GetLoggerWithOptions |
| Config, localcache, mysql, mysqldao, log wrappers | | none of their own | I/O and library delegation |

Every operation follows one shape:
1. `conn := service.pool.Get()`, with `defer conn.Close()`.
2. Argument checks with early returns. These come after the Get.
3. One `conn.Do` of the command, then a coercion of the reply.
4. For the TTL writes (Set, Mset, SAdd, ZAdd, HSet, HMSet) with `ttl > 0`, an `EXPIRE` on the same connection.

What makes this hard:
- Calls interleave at the store between their round trips.
- A round trip can be lost before or after the store applied it. Either loss
  breaks the connection.
- Dial and AUTH can fail.
- Idle connections go stale.
- The pool's slots must always come back, or callers block in `Get` for ever
  (`Wait: true`).

## Modules

- **PoolSpec**: the abstract pool. At most MaxActive callers hold a connection;
  callers acquire and release.
- **ConnPool**: the pool.
  - State:
    - `conn[p]`: the connection p holds, or `NoConn`, or `ErrConn`, redigo's errorConn.
    - `connSt[c]`: closed, idle or busy.
    - `broken[c]`: `c.Err() != nil`.
    - `tokens`: free slots of `p.ch`.
    - `active`: `p.active`.
  - Actions:
    - `PoolReuse` and `PoolDial` are the two branches of `Get`. `DialOutcomes`
      and `DialFailed` translate Initialize's Dial closure.
    - `PoolPut` is the deferred Close, with `CloseConn` and `CloseErrConn`.
    - `ConnFails` is a transport failure.
  - The redigo parts are modelled from redigo's documented behaviour and are
    marked `spec_modelled` in the map.
  - `Holders` maps the state onto PoolSpec. `PoolRefinesSpec` checks the refinement.
- **RedisServer**: the environment. It gives the effect and reply of each
  command on a keyspace of typed entries with a TTL flag:
  - SET clears a TTL; the add commands keep it.
  - WRONGTYPE and arity errors are replies.
  - EXPIRE on a missing key is a no-op.
  - A collection emptied by a removal is deleted.
  - `asked` is a history field recording whether a write of the current value
    asked for a TTL.
- **RedisCacheService**: extends both.
  - Each client p has a program counter running Idle → Acquire → Cmd → (Expire) → Return → Idle.
    - `Call` picks an operation and its arguments.
    - `Acquire` is `pool.Get` plus the early returns.
    - One action per operation step: `SetCmd`, `SetExpire`, `MsetExpire`
      (a loop over `idx`), `AddCmd`/`AddExpire`, `GetCmd`, the reads via `Read`, and so on.
    - `Return` is the deferred Close.
  - Each `conn.Do` is one atomic step (`Do`) with outcome ok, lostReq,
    lostReply or fail. `fail` happens on errorConn or a broken connection.
  - `sent[p]` records the round trips of the current call, for the properties.
  - `Expiry(k)` lets the store drop a key with a TTL at any moment.
  - The reads all go through `Read(p, name, coerce, onErr)`: one round trip,
    then the reply coercion (`Bytes` turns nil into the empty value,
    `Entries` keeps one entry per element, `Count` and `RankOf` take the
    integer). On error they return `onErr`, the zero value the code returns.
  - Each operation sends the command the code really sends: `LRpushCmd`
    sends `lpush`, `LLpushCmd` sends `rpush`. `LIndexCmd` sends `lindex` with
    no key, because `conn.Do("lindex", vs)` passes the slice as a single
    argument.
  - Index ranges are a few (start, stop) pairs (whole, last, inverted);
    score bounds are pairs of member positions.
- **LoggerRegistry**: `GetLoggerWithOptions`.
  - State: `logMap`, the mutex `owner`, and for each goroutine its program
    counter `pc`, its request, the logger it got, and whether it panicked.
  - Actions:
    - `Call`;
    - `Lock` (line 62);
    - `Lookup` (69-76);
    - `Build` (78-173): it panics when `Panics(options)`, otherwise it
      registers `Made(name, caller, options)`;
    - `Unlock`, the deferred Unlock, which also runs while a panic unwinds.
  - A logger is identified by:
    - the goroutine that built it;
    - its effective options;
    - the MaxAge and RotationTime handed to rotatelogs.
  - `CallOptions` holds nil, console-only, Test_Log's options, a denied path,
    and MaxAge together with RotationCount for 1 and 30 days. Between them
    they give every outcome of the build.
  - `MaxAge` and `RotationTime` are `time.Duration` values, int64
    nanoseconds. `ForRotatelogs(d)` is line 117's `time.Duration(d)*time.Hour`,
    computed as an int64 word. `Panics` uses the sign of that word, as
    rotatelogs' `MaxAge > 0 && RotationCount > 0` check does.
  - `Registry` maps `logMap` and `got` onto NamedRegistry.
    `RegistryRefinesSpec` checks the refinement.
- **NamedRegistry**: what the registry promises (spec.md's create-or-fetch).
  Each call atomically does one of three things:
  - `Fetch`: returns the logger registered under a name;
  - `Create`: creates and registers one for a free name;
  - `Fail`: fails and changes nothing.
- **GoInt64**: Go's wrapping int64 multiplication, for values beyond TLC's
  32-bit integers.
  - A word is 8 base-256 digits, least significant first.
  - `Mul` is schoolbook multiplication with carries, truncated to 8 digits.
    That is the two's-complement product.
  - `Negative` is the sign bit.
- **MC_ConnPool**, **MC_RedisCacheService**, **MC_LoggerRegistry**: the
  model-checking modules. MC_RedisCacheService defines the operation mix
  each run uses.

Each mutant operator sits just before the definition it mutates and has a
comment starting "Fault:" (for example `DelCmdIgnoresError`). No mutant is
part of `Next`.

## Properties and runs

| Run | Cfg | Bounds | Checks | Result |
|---|---|---|---|---|
| pool | MC_ConnPool.cfg | 3 clients, MaxActive 2, MaxIdle 1, dial and AUTH faults | TypeOK, PoolAccounting, PoolRefinesSpec | pass (636 states) |
| string_ops | MC_string.cfg | 2 clients, 2 keys, 1 slot, TTLs {0,30}, transport and dial faults | ServiceTypeOK, ErrorsSurface, TTLAppliedOnSuccess, ReadsDistinguishAbsent | pass (1.35M states, symmetry) |
| collections | MC_collections.cfg | 2 clients, 1 key, 2 members, the set and sorted-set groups whole, TTLs {0,30}, transport faults | ErrorsSurface, TTLAppliedOnSuccess, ReadsDistinguishAbsent, RangeOrder | pass (1.69M states, symmetry) |
| hash_lists | MC_hash_lists.cfg | 2 clients, 1 key, 2 fields, the hash and list groups whole, lists of at most 2, TTLs {0,30}, transport faults | ErrorsSurface, TTLAppliedOnSuccess, ReadsDistinguishAbsent | pass (777k states, symmetry) |
| logger | MC_LoggerRegistry.cfg | 2 goroutines, 1 name, 6 option values | RegistryRefinesSpec, CallsReturn | pass (6,093 states) |
| liveness | MC_liveness.cfg | 2 clients, 1 slot, faults, Set/Get/Mset/ZAdd/Dels | CallsReturn | pass (346k states) |
| ttl_failed_add | MC_ttl_failed_add.cfg | 1 client, no faults | NoUnrequestedExpiry | violation |
| ttl_race | MC_ttl_race.cfg | 2 clients, 2 slots, Set only | NoUnrequestedExpiry | violation |
| dels_swallow | MC_dels_swallow.cfg | 1 client, transport faults | ErrorsSurface | violation |
| lindex_absent | MC_lindex_absent.cfg | 1 client, LIndex only, no faults | AbsentIsNotError | violation |
| push_ends | MC_push_ends.cfg | 1 client, LRpush/LLpush, 2 values | PushAtNamedEnd | violation |
| logger_durations | MC_logger_durations.cfg | as logger | DurationsPassedThrough | violation |

The properties:

- **PoolAccounting**: the pool's books balance. It has four parts:
  - `p.active` equals the number of open connections;
  - every busy connection has exactly one holder;
  - the free slots of `p.ch` plus the callers holding a real connection make
    MaxActive, so no slot is leaked or given back twice;
  - no broken connection sits idle for the next Get.
  This must survive failed dials and AUTHs, stale pruning, discarding broken
  connections and MaxIdle eviction. It is checked on the pool alone: the
  service reaches the pool only through Get, Close and the broken flag.
- **PoolRefinesSpec**: the pool implements PoolSpec. No more than MaxActive
  callers ever hold a usable connection.
- **ErrorsSurface**: a call returning no error had every command it sent succeed.
- **TTLAppliedOnSuccess**: the TTL is applied exactly as asked, on both
  sides of the `ttl > 0` boundary:
  - a TTL write with `ttl > 0` that returns no error has a successful EXPIRE
    for every key it wrote;
  - a TTL write with `ttl <= 0` sends no EXPIRE at all.
- **ReadsDistinguishAbsent**: a read returns an error exactly when its command
  failed. Otherwise it returns the store's answer:
  - a missing key is the empty value, not an error;
  - Mget keeps length and order;
  - ZRank and ZRevRank return -1 exactly for nil.
  - HMGet has one entry per field; the array reads return the reply whole.
- **AbsentIsNotError**: a read whose command was served and found none of its
  keys returns no error (spec: an absent key reads as the empty value). Only
  lindex_absent checks it. In the passing runs it follows from
  ReadsDistinguishAbsent, because RedisServer never answers a read of a
  missing key with an error.
- **RangeOrder**: ZRange and ZRangeByScore return members in ascending score
  order, ZRevRange in descending order.
- **PushAtNamedEnd**: after a successful LRpush the value is the list's last
  item; after LLpush it is the first.
- **RegistryRefinesSpec**: every step of the registry is a NamedRegistry step.
  This includes three cases:
  - a registered logger is never replaced;
  - a fetch returns the registered logger;
  - a panicking call hands back nothing and registers nothing.
- **DurationsPassedThrough**: a file logger's rotatelogs MaxAge and
  RotationTime are the Durations its options asked for.
- **CallsReturn** (logger): every call of GetLoggerWithOptions returns, also
  when building the logger panicked while getLogMutex was held.
- **NoUnrequestedExpiry**: a key has a TTL only if some write of its current
  value asked for one.
- **CallsReturn** (service): every call that reaches `pool.Get` eventually returns.

What the violations show (the details are in `findings`):
- **ttl_failed_add**: the add commands send EXPIRE after the add failed with
  WRONGTYPE, which puts a TTL on the existing string.
- **ttl_race**: SET and EXPIRE are not atomic, so a concurrent `ttl = 0` Set
  inherits the other call's TTL.
- **dels_swallow**: Dels returns nil on error (line 220).
- **logger_durations**: line 117 multiplies a Duration by `time.Hour`
  again. This only matters for a logger with Write set; the default
  options have Write false and never reach rotatelogs. The trace is a file
  logger asking for a MaxAge of 30 days with RotationCount 1. The product
  wraps to a negative age, which rotatelogs reads as "no limit", and the
  combination gets past rotatelogs' refusal of MaxAge together with
  RotationCount. A MaxAge of 24h would become about 109 years, and
  Test_Log's 2 s RotationTime (line 119) about 183 years.
- **lindex_absent**: LIndex of a missing key fails with an arity error. It
  sends LINDEX with its argument slice as one argument (line 816), so it can
  never succeed.
- **push_ends**: LRpush sends LPUSH (line 743) and LLpush sends RPUSH (763).
  Two LRpush calls leave the list in reverse order, while the pops use the
  end their names say.

Every property of every passing run has a mutant in `PROJECT.json`: a
plausible bug in the mapped definition that TLC shows the property catches.

### Bounds

- Two clients are enough for every interleaving of two calls between their
  round trips.
- One pool slot makes the second client wait, which exercises Wait and the
  slot hand-back.
- Two keys let Mset, Mget, Dels and Keys see batches of one and two distinct
  keys. Two members let removals leave a collection non-empty, and ranks differ.
- TTLs {0, 30} cover both sides of the `ttl > 0` boundary.
- `ConnIds` is the number of clients plus MaxIdle, the most connections the
  pool can have open at once.
- Values are a single model value: no passing run compares two values.
  push_ends uses two values, to show the order of pushes.
- Lists are capped at MaxListLen = 2 by a guard on the pushes.
- The group runs (collections, hash_lists) have transport faults but no
  dial or AUTH faults. Those are the pool's and are checked in pool,
  string_ops and liveness; leaving them out keeps the group runs small.
- The range reads use two members, with ranges (0,-1), (-1,-1) and (1,0):
  a whole, a negative and an inverted range.
- Every run with TTL writes uses TTLs {0, 30}, so each add is checked both
  with its EXPIRE step and without it.
- Symmetry: string_ops, collections and hash_lists declare the clients
  interchangeable (`ClientSymmetry`). No definition singles out a client,
  and these runs check only invariants. The runs with a temporal property
  (liveness, logger) do without symmetry, which is unsound for liveness.
  Symmetry roughly halves the three runs.
- The group runs and string_ops give the pool one slot, so the two clients'
  calls take turns on the connection while their round trips still
  interleave with expiry. Two slots were tried:
  - string_ops grows to 15.6M states and 7.5 minutes;
  - hash_lists with an unlimited pool grows to 33.6M states and 13 minutes.
  Both exceed a run's time. ttl_race runs the string group with two slots
  and shows the one store-level race the code has, between SET and EXPIRE.
  The per-call properties relate a call's own replies to its result, and the
  coercion code is the same whichever replies another call causes.
- MaxActive = 0, redigo's "no limit", is part of ConnPool (`Limited`), but
  no run uses it. The hazard is listed without a property.
- hash_lists does not check AbsentIsNotError: LIndex is one of its reads and
  violates it (the lindex_absent finding).
- The logger run has two goroutines and one name. This covers two calls
  racing for the name, a fetch, and a panicking call before or after a
  successful one. Names are independent map keys under one mutex, so a
  second name adds no new interleaving. It took 460k states and nearly
  5 minutes with the liveness check. Three goroutines add no new case.
- The ages cover every case of the multiplication:
  - zero, which is what Test_Log leaves MaxAge at;
  - products that wrap to a positive value: 2 s, 1 day and 7 days;
  - a product that wraps to a negative value: 30 days.

### Fairness

- Weak fairness on every step of a call in progress: a goroutine in an
  operation is not descheduled for ever, and every step is enabled until taken.
  The exception is `Acquire`, which waits on `p.ch`.
- Strong fairness on `Acquire`: Go's channel receive queues blocked receivers
  in order, so a goroutine waiting for a slot that is released again and again
  gets one.
- Making new calls and key expiration are not fair.
- Logger: strong fairness on `Lock`. `sync.Mutex` switches to starvation
  mode for a waiter blocked over 1 ms, and then hands the mutex to it
  directly. Weak fairness on `Lookup`, `Build` and `Unlock`: they run
  without waiting.

## Retired run

`zadd_validation` showed that ZAdd and HMSet call `pool.Get` (line 334)
before checking their arguments. It was replaced by `logger_durations`,
which shows a bug with worse consequences. The hazard stays listed. CallsReturn in the liveness run, whose operations
include ZAdd, still shows that such a call gives its slot back.

## Not modelled, and the plan

- Out of scope:
  - ZRangeByScore's `interface{}` bounds `-inf`, `+inf` and exclusive bounds.
    Scores are abstracted to the members' positions in one order. Under that
    abstraction each such bound selects the same members as some pair of
    inclusive positions, and `ScoreBounds` already enumerates those pairs.
  - Config loading, localcache, mysql, mysqldao and the logrus wrappers. They
    are I/O or thin library delegation. mysqldao does not compile: `url` is
    declared only in inner scopes.
  - The `LLlen` method, which the `Service` interface declares and
    `service.go` never implements.
  - Logging and the wording of errors.
  - Byte contents of values.
  - The logger's formatter, level, hooks and output targets, which do not
    change the registry.
  - The caller hook (`caller.go`). Its one piece of state is `hook.depth`,
    which a negative Depth resets to 8 with an unguarded write. Concurrent
    log calls race on that write, but every racing write stores 8. Which
    depth names the call site depends on logrus's internal call stack,
    which is not code of this repository. Both edges are listed as hazards.
  - The logrus wrappers (`log.go`). They call `FormatLog`, and
    `GetLogLevel` (logger.go 85), which nothing in the repository defines:
    `util.go` is missing, and `util_test.go` tests a `FormatLog` that does not
    exist. So the package does not compile as it stands. The wrappers hold
    no state.
  - Config loading, localcache and the MySQL wrapper are, in spec.md's
    words, external collaborators with their own lifecycle. Their code builds
    a value and hands it to a library (`gocache.New`, `sql.Open`), with at
    most one panic or nil return on a failed cast or open. Nothing of theirs
    interleaves or keeps state a property could be about.
  - The order of the idle list: it is abstracted to a set, and eviction picks
    any idle connection.
