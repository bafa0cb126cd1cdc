---------------------------- MODULE LoggerRegistry ----------------------------
(***************************************************************************)
(* The process-wide named-logger registry of logruslogger                  *)
(* (src/log/logruslogger/logger.go): GetLoggerWithOptions takes            *)
(* getLogMutex, returns the logger registered under the name, or builds    *)
(* one from the options and registers it.  Building one may panic (the     *)
(* log directory cannot be created, or rotatelogs refuses MaxAge together  *)
(* with RotationCount); the deferred Unlock runs while the panic unwinds,  *)
(* and a caller may recover and call again (as Test_ErrorPath does).       *)
(* Formatter, level, console and hook settings do not change the registry *)
(* and are left out; a logger is identified by the caller that built it,   *)
(* its options, and the age and rotation period it handed rotatelogs,      *)
(* computed in int64 as the code does (module GoInt64).                    *)
(***************************************************************************)
EXTENDS Naturals, FiniteSets

CONSTANTS
    Callers,    \* goroutines calling GetLoggerWithOptions
    Names,      \* logger names
    NoOwner,    \* getLogMutex is not held
    NoLogger,   \* no logger registered, or the call panicked
    NilOptions  \* the options argument is nil

VARIABLES
    logMap,  \* logMap[n]: the logger registered under n
    owner,   \* the goroutine holding getLogMutex
    pc,      \* pc[c]: where c is in GetLoggerWithOptions
    req,     \* req[c]: the name and options of c's current call
    got,     \* got[c]: the logger c's last call returned
    panicked \* panicked[c]: c's current call panicked

vars == <<logMap, owner, pc, req, got, panicked>>

Int64 == INSTANCE GoInt64 WITH Base <- 256, Limbs <- 8

\* time.Second and time.Hour, and the durations callers pass: none, the two
\* seconds Test_Log rotates at, and the day, week and month of
\* defaultOptions and of typical MaxAge settings.
Second == Int64!FromNat(1000000000)
Hour   == Int64!Mul(Int64!FromNat(3600), Second)
Dur(seconds) == Int64!Mul(Int64!FromNat(seconds), Second)
Durations == {Int64!Zero} \cup {Dur(s) : s \in {2, 86400, 604800, 2592000}}

\* The Options fields that decide how a logger is built.  Path "denied" is
\* a directory MkdirAll cannot create.
Options == [write : BOOLEAN, path : {"", "tmp", "denied"}, maxAge : Durations,
            rotationCount : {0, 1}, rotationTime : Durations]

\* defaultOptions(): console only, MaxAge of a day, rotation every week.
DefaultOptions ==
    [write |-> FALSE, path |-> "tmp", maxAge |-> Dur(86400), rotationCount |-> 0,
     rotationTime |-> Dur(604800)]

\* The options a call passes: nil, console only, Test_Log's (files rotated
\* every two seconds), a directory MkdirAll cannot create, and MaxAge of a
\* day or of thirty days together with RotationCount.
CallOptions ==
    {NilOptions,
     [write |-> FALSE, path |-> "", maxAge |-> Int64!Zero, rotationCount |-> 0, rotationTime |-> Int64!Zero],
     [write |-> TRUE, path |-> "tmp", maxAge |-> Int64!Zero, rotationCount |-> 0, rotationTime |-> Dur(2)],
     [write |-> TRUE, path |-> "denied", maxAge |-> Int64!Zero, rotationCount |-> 0, rotationTime |-> Int64!Zero],
     [write |-> TRUE, path |-> "", maxAge |-> Dur(86400), rotationCount |-> 1, rotationTime |-> Int64!Zero],
     [write |-> TRUE, path |-> "", maxAge |-> Dur(2592000), rotationCount |-> 1, rotationTime |-> Int64!Zero]}

\* A nil options argument is replaced by the defaults.
Effective(o) == IF o = NilOptions THEN DefaultOptions ELSE o

\* time.Duration(d)*time.Hour, the age and period handed to rotatelogs: an
\* int64 product that wraps.
ForRotatelogs(d) == Int64!Mul(d, Hour)

\* With Write set: MkdirAll of a directory that cannot be created panics,
\* and so does rotatelogs.New when the MaxAge it gets is positive and
\* RotationCount is set (rotatelogs refuses both).
Panics(o) ==
    LET e == Effective(o) IN
    /\ e.write
    /\ \/ e.path = "denied"
       \/ Int64!Positive(ForRotatelogs(e.maxAge)) /\ e.rotationCount > 0

\* The logger c builds for name n: with Write, its files are rotated with
\* the age and period rotatelogs got.
Made(n, c, o) ==
    LET e == Effective(o) IN
    [name |-> n, by |-> c, opts |-> e,
     maxAge |-> IF e.write THEN ForRotatelogs(e.maxAge) ELSE Int64!Zero,
     rotationTime |-> IF e.write THEN ForRotatelogs(e.rotationTime) ELSE Int64!Zero]

\* Every logger a call can build.
Loggers == {Made(n, c, o) : n \in Names, c \in Callers, o \in CallOptions}

Init ==
    /\ logMap = [n \in Names |-> NoLogger]
    /\ owner = NoOwner
    /\ pc = [c \in Callers |-> "Idle"]
    /\ req = [c \in Callers |-> [name |-> CHOOSE n \in Names : TRUE, opts |-> NilOptions]]
    /\ got = [c \in Callers |-> NoLogger]
    /\ panicked = [c \in Callers |-> FALSE]

\* A goroutine calls GetLoggerWithOptions(name, options).
Call(c) ==
    /\ pc[c] = "Idle"
    /\ \E n \in Names, o \in CallOptions :
         req' = [req EXCEPT ![c] = [name |-> n, opts |-> o]]
    /\ pc' = [pc EXCEPT ![c] = "Lock"]
    /\ panicked' = [panicked EXCEPT ![c] = FALSE]
    /\ UNCHANGED <<logMap, owner, got>>

\* Fault: the mutex does not exclude (a mutex per call).
LockNotExclusive(c) ==
    /\ pc[c] = "Lock"
    /\ owner' = c
    /\ pc' = [pc EXCEPT ![c] = "Lookup"]
    /\ UNCHANGED <<logMap, req, got, panicked>>

\* getLogMutex.Lock(): wait until the mutex is free.
Lock(c) ==
    /\ pc[c] = "Lock"
    /\ owner = NoOwner
    /\ owner' = c
    /\ pc' = [pc EXCEPT ![c] = "Lookup"]
    /\ UNCHANGED <<logMap, req, got, panicked>>

\* logMap[logName]: return the logger registered under the name.
Lookup(c) ==
    LET n == req[c].name IN
    /\ pc[c] = "Lookup"
    /\ IF logMap[n] # NoLogger
       THEN /\ got' = [got EXCEPT ![c] = logMap[n]]
            /\ pc' = [pc EXCEPT ![c] = "Unlock"]
       ELSE /\ pc' = [pc EXCEPT ![c] = "Build"]
            /\ UNCHANGED got
    /\ UNCHANGED <<logMap, owner, req, panicked>>

\* Build a logger from the options, which may panic before it is
\* registered, and register it under the name.
Build(c) ==
    LET n == req[c].name IN
    /\ pc[c] = "Build"
    /\ IF Panics(req[c].opts)
       THEN /\ panicked' = [panicked EXCEPT ![c] = TRUE]
            /\ got' = [got EXCEPT ![c] = NoLogger]
            /\ UNCHANGED logMap
       ELSE /\ logMap' = [logMap EXCEPT ![n] = Made(n, c, req[c].opts)]
            /\ got' = [got EXCEPT ![c] = Made(n, c, req[c].opts)]
            /\ UNCHANGED panicked
    /\ pc' = [pc EXCEPT ![c] = "Unlock"]
    /\ UNCHANGED <<owner, req>>

\* Fault: Unlock is called at the end of the body instead of deferred, so a
\* panic leaves the mutex held.
UnlockNotDeferred(c) ==
    /\ pc[c] = "Unlock"
    /\ owner' = IF panicked[c] THEN owner ELSE NoOwner
    /\ pc' = [pc EXCEPT ![c] = "Idle"]
    /\ UNCHANGED <<logMap, req, got, panicked>>

\* The deferred getLogMutex.Unlock(), on return and while a panic unwinds;
\* a panic is then recovered by the caller.
Unlock(c) ==
    /\ pc[c] = "Unlock"
    /\ owner' = NoOwner
    /\ pc' = [pc EXCEPT ![c] = "Idle"]
    /\ UNCHANGED <<logMap, req, got, panicked>>

Next == \E c \in Callers : Call(c) \/ Lock(c) \/ Lookup(c) \/ Build(c) \/ Unlock(c)

\* A goroutine holding the mutex runs to its deferred Unlock.  sync.Mutex hands
\* the lock to a waiter that has waited over 1ms (starvation mode), so a
\* waiter whose mutex is freed again and again gets it: strong fairness.
Spec == /\ Init /\ [][Next]_vars
        /\ \A c \in Callers : SF_vars(Lock(c)) /\ WF_vars(Lookup(c))
                               /\ WF_vars(Build(c)) /\ WF_vars(Unlock(c))

-----------------------------------------------------------------------------
(* Properties *)

Registry == INSTANCE NamedRegistry WITH registry <- logMap, handed <- got

\* Refinement: GetLoggerWithOptions is an atomic create-or-fetch.  Each
\* call fetches the registered logger, or creates and registers one when
\* the name is free, or panics having registered nothing; a registered
\* logger is never replaced, however the calls interleave.
RegistryRefinesSpec == Registry!Spec

\* Options.MaxAge and RotationTime are time.Durations (defaultOptions sets
\* 24 * time.Hour, Test_Log 2 * time.Second): a logger writing files has
\* the age and rotation period its options ask for.
DurationsPassedThrough ==
    \A n \in Names :
        logMap[n] # NoLogger /\ logMap[n].opts.write =>
            /\ logMap[n].maxAge = logMap[n].opts.maxAge
            /\ logMap[n].rotationTime = logMap[n].opts.rotationTime

\* Every call returns, also one that panicked while building its logger:
\* the deferred Unlock frees getLogMutex so no other caller waits forever.
CallsReturn == \A c \in Callers : pc[c] = "Lock" ~> pc[c] = "Idle"

=============================================================================
