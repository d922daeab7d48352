SPECIFICATION Spec
CONSTANTS
    Registry <- MCRegistry
    Ids <- MCIds
    DefaultPeriod <- MCDefaultPeriod
    DefaultEnabled <- MCDefaultEnabled
    Group <- MCGroup
    Groups <- MCGroups
    Periods = {0, 2}
    CustomLists <- MCCustomLists
    AutoId <- MCAutoId
    NoId <- MCNoId
    Steps = {1, 2, 5}
    MaxElapsed = 9
INVARIANTS
    TypeOK
    UniqueIds
    BoundedWait
    ExactCadence
PROPERTIES
    NoBurst
