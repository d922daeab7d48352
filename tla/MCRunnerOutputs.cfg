\* The outputs, the state messages and the end of the finite sources, under the
\* fairness of the event loop; whole milliseconds.
SPECIFICATION FairSpec
CONSTANTS
    wifi = wifi
    usb = usb
    data = data
    rec1 = rec1
    rec2 = rec2
    NoProfile = NoProfile
    NoPath = NoPath
    Channels = {wifi, usb, data}
    Kind <- OutputsKind
    Carries <- OutputsCarries
    Period <- OutputsPeriod
    Profiles <- OutputsProfiles
    Paths = {rec1}
    Positions = {0, 1}
    TickMs = 1
    MaxStep = 3
    Sub = 1
    MaxBatch = 0
    MaxLines = 0
    LastRequest = 3
    MaxElapsed = 7
INVARIANTS
    QuietWhenStopped
PROPERTIES
    MessagesOnTime
    FiniteRunEnds
