\* The steering mode of the window and that of the source it drives.
SPECIFICATION ProgramsSpec
CONSTANTS
    None = None
    Part = {"window"}
    LargestInt = 5000000
    LargestSeed = 8000000
    NineDigits = 1000000
    DefaultSetting <- MCDefaultSetting
    UpperCase <- MCUpperCase
    Bodies = {"ok"}
    WorkingDirectory = 100
    Directories = {3, 5}
    Revisions <- MCRevisions
    HandEdits <- MCHandEdits
    MaxRevisions = 1
    MaxHandEdits = 1
    Commands <- MCCommands
    Broadcasts = {"10.0.0.255"}
    ProfileDirectory = 50
    PollPeriod = 2
    MaxCliTime = 3
    DialogProfiles <- MCDialogProfiles
    DialogTabs = {"simulation", "vessel", "sentences", "outputs"}
    BoxEdits <- MCBoxEdits
    EngineRows <- MCEngineRows
    CustomRows <- MCCustomRows
    OutputEdits <- MCOutputEdits
    AddedTypes = {"websocket-server", "tcp-client"}
    DefaultTalker <- MCDefaultTalker
    MaxEdits = 4
    MinZoom = 1
    MaxZoom = 3
    TileSize = 2
    HalfWidth = 2
    MaxTrackPoints = 3
    TrackMinPixelDistance = 1
    MaxParentLevels = 1
    StartProfile <- MCStartProfile
    StoredProfiles <- MCStoredProfiles
    Chosen <- MCChosen
    NewFiles = {"c", "locked"}
    Unwritable = {"locked"}
    Logs = {"d", "locked"}
    Places <- MCPlaces
    Points <- MCPoints
    StoredZooms = {9}
    MaxEvents = 5
INVARIANTS
    SteeringAgrees
CHECK_DEADLOCK FALSE
