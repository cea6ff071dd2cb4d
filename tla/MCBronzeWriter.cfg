\* Two processes ingest one archive under two dataset names, in any overlap.
CONSTANTS
    w1 = w1
    w2 = w2
    a1 = a1
    d1 = d1
    d2 = d2
    r1 = r1
    r2 = r2
    Writers = {w1, w2}
    Archives = {a1}
    Datasets = {d1, d2}
    Runs = {r1, r2}
    Overlap = TRUE
    None = None
SYMMETRY Symmetric
SPECIFICATION Spec
INVARIANTS
    TypeOK
    WrittenHasFile
    FinalNeverPartial
    ResultHolds
    TmpOwned
PROPERTIES
    NoRewrite
    ImplementsIngestOnce
