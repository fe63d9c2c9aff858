CONSTANTS
    MaxRate = 1
    HaltWorks = TRUE
    Retries = 0
    Settings <- LateAudio
SPECIFICATION Spec
INVARIANTS DoneMeansDone
