\* One call at a time, and no process dies.
CONSTANTS
    w1 = w1
    d1 = d1
    r1 = r1
    r2 = r2
    Runners = {w1}
    Datasets = {d1}
    Runs = {r1, r2}
    Counts = {0, 1}
    Overlap = FALSE
    MayDie = FALSE
    None = None
SPECIFICATION Spec
INVARIANTS
    SilverEphemeral
