\* Two objects with names of their own; archives that are new and on
\* record.
CONSTANTS
    Keys = {1, 2}
    Names = {1, 2}
    NameOf <- NamesApart
    new = new
    old = old
    Contents = {new, old}
    Recorded = {old}
    MaxTries = 2
    None = None
SPECIFICATION Spec
INVARIANTS
    TypeOK
    DiscoveredIntact
    Accounted
    BronzeGetsOneArchive
PROPERTIES
    RunEnds
\* With an empty bucket the sensor waits.
CHECK_DEADLOCK FALSE
