\* Two processes work on one dataset, in any overlap; a run id may come back
\* with other data.
CONSTANTS
    w1 = w1
    w2 = w2
    d1 = d1
    r1 = r1
    r2 = r2
    Runners = {w1, w2}
    Datasets = {d1}
    Runs = {r1, r2}
    Counts = {0, 1}
    Overlap = TRUE
    MayDie = TRUE
    None = None
SPECIFICATION Spec
SYMMETRY Symmetric
INVARIANTS
    TypeOK
    CuratedNeverPartial
    OwnFileVerified
    LastOkHolds
    FilesAccounted
