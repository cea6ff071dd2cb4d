\* Two runs, frames of up to three features, two classes.
CONSTANTS
    CANDIDATE_RESOLUTIONS <- Resolutions
    MIN_OCCUPANCY_PERCENT = 70
    MIN_FEATURES_PER_HEX = 2
    JENKS_CLASSES = 2
    Empty = Empty
    NaN = NaN
    Text = Text
    Frames <- UpToThree
    MaxRuns = 2
    None = None
SPECIFICATION Spec
INVARIANTS
    TypeOK
    FeaturesConserved
    ClassesFollowMeans
    GatesTruthful
    ReportHoldsUntilNextTiles
    SavedReportNeverFails
    ZeroMeansDone
\* Nobody has to start another run.
CHECK_DEADLOCK FALSE
