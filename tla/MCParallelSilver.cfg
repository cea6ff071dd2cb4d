\* Three partitions and frames of zero to four rows: fewer rows than workers,
\* as many, and one more; every fault in every partition.
CONSTANTS
    NWorkers = 3
    MaxRows = 4
SPECIFICATION Spec
INVARIANTS
    TypeOK
    Conserved
    FaultsIsolated
    OutputOrdered
    NoWorkerLeft
PROPERTIES
    Terminates
\* The run is one call, and ends.
CHECK_DEADLOCK FALSE
