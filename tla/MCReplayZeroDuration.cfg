SPECIFICATION Spec
CONSTANTS
    Fields <- MCFields
    Logs <- MCLogs
    Steps = {1, 2, 3, 7}
    Positions <- MCPositions
    MaxAdvance = 12
PROPERTIES
    SentOncePerTick
