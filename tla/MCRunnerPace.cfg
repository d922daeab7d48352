\* The clock and the recording: half-millisecond wall clock, MaxStep of 2 ms.
SPECIFICATION Spec
CONSTANTS
    wifi = wifi
    usb = usb
    data = data
    rec1 = rec1
    rec2 = rec2
    NoProfile = NoProfile
    NoPath = NoPath
    Channels <- NoChannels
    Kind <- PaceKind
    Carries <- PaceCarries
    Period <- PacePeriod
    Profiles <- PaceProfiles
    Paths = {rec1, rec2}
    Positions = {0, 1, 9}
    TickMs = 1
    MaxStep = 2
    Sub = 2
    MaxBatch = 1
    MaxLines = 2
    LastRequest = 4
    MaxElapsed = 4
INVARIANTS
    RecordingComplete
    ObserversAgree
PROPERTIES
    KeepsPace
