------------------------ MODULE MC_RedisCacheService ------------------------
(* RedisCacheService instantiated for TLC: the operation sets the runs use. *)
EXTENDS RedisCacheService, TLC

\* The goroutines are interchangeable: no definition singles one out.  Used
\* by the safety-only runs; the runs with a temporal property do without.
ClientSymmetry == Permutations(Clients)

\* The string group: single-key and batch writes and reads.
StringOps == {"Set", "Get", "Mset", "Mget", "Exists", "Del", "Keys"}

\* The TTL-bearing adds of the set, sorted-set and hash groups, with Set and
\* Get to put a value of another type under their key.
AddOps == {"Set", "Get", "SAdd", "ZAdd", "HSet", "HMSet"}

\* The reads and removals of the set and sorted-set groups, with the adds
\* that fill them and Set to put a string under their key.
CollectionOps == {"Set", "SAdd", "ZAdd", "SRem", "SCard", "SIsMember",
                  "SMembers", "ZRem", "ZCard", "ZRank", "ZRevRank"}

\* Set alone: writes of one key racing each other.
SetOnly == {"Set"}

\* Dels, whose DEL may fail.
DelsOps == {"Set", "Dels"}

\* The hash reads and removals, with the adds that fill a hash and Set to
\* put a string under its key.
HashOps == {"Set", "HSet", "HMSet", "HGet", "HMGet", "HDel", "HExists",
            "HKeys", "HVals", "HGetAll", "HLen"}

\* The sorted-set ranges, with ZAdd to fill the set and Set to put a
\* string under its key.
RangeOps == {"Set", "ZAdd", "ZRange", "ZRangeByScore", "ZRevRange", "ZRemRangeByScore"}

\* The list group, with Set to put a string under the list's key.
ListOps == {"Set", "LRpush", "LLpush", "LRpop", "LLpop", "LIndex"}

\* The pushes, to see at which end each puts its value.
PushOps == {"LRpush", "LLpush"}

\* LIndex alone, of a key that is never written.
LIndexOnly == {"LIndex"}

\* The set and sorted-set groups whole.
SetZSetOps == CollectionOps \cup RangeOps

\* The hash and list groups whole.
HashListOps == HashOps \cup ListOps

\* A mix of one-step, two-step and refused calls for the liveness run.
LiveOps == {"Set", "Get", "Mset", "ZAdd", "Dels"}
=============================================================================
