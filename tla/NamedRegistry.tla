---------------------------- MODULE NamedRegistry ----------------------------
(***************************************************************************)
(* What the named-logger registry promises (spec.md: a process-wide       *)
(* mapping from name to logger, create-or-fetch(name, options)): each      *)
(* call atomically either fetches the logger registered under a name, or,  *)
(* when there is none, creates one and registers it, or fails and changes  *)
(* nothing.  A registered logger is never replaced.                        *)
(***************************************************************************)
CONSTANTS
    Callers,   \* the goroutines calling create-or-fetch
    Names,     \* logger names
    Loggers,   \* the loggers a call can create: records with a name field
    NoLogger   \* no logger

VARIABLES
    registry,  \* registry[n]: the logger registered under n, or NoLogger
    handed     \* handed[c]: the logger c's last call returned, or NoLogger

vars == <<registry, handed>>

Init ==
    /\ registry = [n \in Names |-> NoLogger]
    /\ handed = [c \in Callers |-> NoLogger]

\* The name is taken: the call returns its logger.
Fetch(c) ==
    \E n \in Names :
        /\ registry[n] # NoLogger
        /\ handed' = [handed EXCEPT ![c] = registry[n]]
        /\ UNCHANGED registry

\* The name is free: the call creates a logger, registers and returns it.
Create(c) ==
    \E l \in Loggers :
        /\ registry[l.name] = NoLogger
        /\ registry' = [registry EXCEPT ![l.name] = l]
        /\ handed' = [handed EXCEPT ![c] = l]

\* The call fails and registers nothing.
Fail(c) ==
    /\ handed' = [handed EXCEPT ![c] = NoLogger]
    /\ UNCHANGED registry

Next == \E c \in Callers : Fetch(c) \/ Create(c) \/ Fail(c)

Spec == Init /\ [][Next]_vars

=============================================================================
