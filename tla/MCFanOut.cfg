\* One client and one greeting server; two lines a run, two peers.
SPECIFICATION FairSpec
CONSTANTS
    p1 = p1
    p2 = p2
    Interval = 2
    Peers = {p1, p2}
    Greets = TRUE
    MaxLines = 2
INVARIANTS
    RetryOnTime
    StateTellsTheTruth
    ClientsAreAttached
    EveryLineArrives
PROPERTIES
    OutputsAreTransports
    Reconnects
