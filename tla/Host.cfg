SPECIFICATION Spec
CONSTANTS
    Tags = {stable, dev}
    Providers <- MCProviders
    Versions <- MCVersions
    MaxWrites = 2
    Volumes <- MCVolumes
    DefaultVolume = "outo-models-data"
    Absent = Absent
    Torn = Torn
    NoBox = NoBox
    stable = stable
    dev = dev
INVARIANTS
    StartedRunsTheTag
    RefusalsKeepTheServer
    
CHECK_DEADLOCK FALSE
