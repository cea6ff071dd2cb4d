\* One run on one frame that shows all three departures from the documentation.
CONSTANTS
    CANDIDATE_RESOLUTIONS <- Resolutions
    MIN_OCCUPANCY_PERCENT = 70
    MIN_FEATURES_PER_HEX = 2
    JENKS_CLASSES = 2
    Empty = Empty
    NaN = NaN
    Text = Text
    Frames <- OneNull
    MaxRuns = 1
    None = None
SPECIFICATION Spec
INVARIANTS
    FrameAsDocumented
CHECK_DEADLOCK FALSE
