\* Three tiles, two servers and two downloads at a time, under the fairness of
\* the network: every download ends.
SPECIFICATION FairSpec
CONSTANTS
    t1 = t1
    t2 = t2
    t3 = t3
    osm = osm
    own = own
    Tiles = {t1, t2, t3}
    Servers = {osm, own}
    MemoryTiles = 1
    MaxConcurrentDownloads = 2
    RetryDelay = 1
    MaxRetryDelay = 2
    MaxFails = 3
INVARIANTS
    RequestsInHand
    NoUnwantedRequests
PROPERTIES
    BacksOff
    EveryTileAnswered
