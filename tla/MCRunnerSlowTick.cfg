\* A tick interval longer than MaxStep, as tick_ms 2000 is: time is lost on time.
SPECIFICATION Spec
CONSTANTS
    wifi = wifi
    usb = usb
    data = data
    rec1 = rec1
    rec2 = rec2
    NoProfile = NoProfile
    NoPath = NoPath
    Channels <- NoChannels
    Kind <- PaceKind
    Carries <- PaceCarries
    Period <- PacePeriod
    Profiles <- PaceProfiles
    Paths = {rec1, rec2}
    Positions = {0, 1, 9}
    TickMs = 2
    MaxStep = 1
    Sub = 2
    MaxBatch = 1
    MaxLines = 2
    LastRequest = 4
    MaxElapsed = 4
PROPERTIES
    OnTimeTickKeepsPace
