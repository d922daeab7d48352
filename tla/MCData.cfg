\* Half-millisecond tracks of up to five points, with steps of less than a leg
\* to more than a lap; two calls among the drifting source's advances; a
\* day and a half of emissions; logs of three lines.
SPECIFICATION FairSpec
CONSTANTS
    None = None
    Mode = {"track", "delta", "link", "log"}
    Circle = 8
    Tracks <- MCTracks
    Ms = 2
    TrackSteps = {1, 2, 5}
    TrackSeeks <- MCSeeks
    MinSpeed = 1
    SeedTime = 0
    SeedAltitude = 0
    SeedCourse = 0
    SeedPlace = 0
    MaxSailed = 20
    MaxElapsed = 24
    DeltaConfigs <- MCConfigs
    DeltaSteps = {1}
    Pinnable = {"HeadingTrue", "SpeedThroughWater", "Depth", "RudderAngle"}
    Values <- MCValues
    Nudges <- MCNudges
    Engines = {1}
    Waypoints = {0, 1}
    MaxEngines = 1
    MaxCommands = 2
    DayLength = 2
    Meridian = 2
    MaxLatitude = 90
    MaxLongitude = 180
    MaxEngineCount = 100
    MaxPayload = 60
    Unsendable = {"* *"}
    BareWidth <- MCBareWidth
    MaxWidth = 80
    Reduced <- MCReduced
    BeforeUnixEpoch = 1000
    MaxBody = 76
    Snapshots <- MCSnapshots
    Strangers <- MCStrangers
    EnabledSets <- MCEnabledSets
    Typed <- MCTyped
    Losses <- MCLosses
    Steps <- MCSteps
    MaxTime = 88000000
    LargestSeconds = 300000
    Starts = {86399900, 130000000}
    LogSteps <- MCLogSteps
    Backwards = FALSE
    Intervals <- MCIntervals
    MaxLines = 3
INVARIANTS
    KeepsItsPace
    OnTheTrack
    HearsWhatIsSent
    ClockFollows
    ReplaysAtTheToldPace
PROPERTIES
    HoldsWhatIsPinned
    BackInBand
CHECK_DEADLOCK FALSE
