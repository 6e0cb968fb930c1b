SPECIFICATION FairSpec
CONSTANTS
    Files = {readme, weights}
    InSub = {weights}
    Blobs <- MCBlobs
    MaxWorkers = 2
    MaxCommits = 2
    MaxRuns = 2
    None = None
    readme = readme
    weights = weights
INVARIANT
    TargetsAreComplete
PROPERTY
    RunsEnd
CHECK_DEADLOCK FALSE
