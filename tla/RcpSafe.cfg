CONSTANTS
    MaxRate = 2
    HaltWorks = FALSE
    Retries = 0
    Settings <- SafeSettings
SPECIFICATION Spec
INVARIANTS TypeOK OneAnswer DoneInTime FlushDrains NoTear ListsIntact
PROPERTIES FrameKept
