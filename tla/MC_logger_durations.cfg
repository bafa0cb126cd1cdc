CONSTANTS
    Callers = {c1, c2}
    Names = {n1}
    NoOwner = NoOwner
    NoLogger = NoLogger
    NilOptions = NilOptions
SPECIFICATION Spec




INVARIANT DurationsPassedThrough
