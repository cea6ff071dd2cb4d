\* One partition is enough for a worker that hangs.
CONSTANTS
    NWorkers = 1
    MaxRows = 1
SPECIFICATION Spec
PROPERTIES
    TimeoutReleases
CHECK_DEADLOCK FALSE
