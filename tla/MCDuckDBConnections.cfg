\* Two threads of one process and one of another; any of them reads or
\* bootstraps.
CONSTANTS
    Threads = {1, 2, 3}
    Processes = {"api", "worker"}
    ProcessOf <- TwoAndOne
    MaxAttempts = 2
    None = None
SPECIFICATION Spec
INVARIANTS
    TypeOK
    WriterAlone
PROPERTIES
    KeepsPromise
    LockGivenBack
