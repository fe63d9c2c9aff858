CONSTANTS
    MaxRate = 1
    HaltWorks = FALSE
    Retries = 1
    Settings <- LiveSettings
SPECIFICATION LiveSpec
PROPERTIES TasksAnswered GraphRecovers AudioRecovers
