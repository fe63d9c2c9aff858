SPECIFICATION Spec
CONSTANTS
    tIdle = tIdle
    tA = tA
    tB = tB
    tC = tC
    Idle = tIdle
    Threads = {tIdle, tA, tB, tC}
    WaitQueues = {"mt", "full"}
    Priorities = {1, 2}
    Mesgs = {m1}
    msgCount = 1
    Calls <- Crowd
    Controls = {"event", "stop", "destroy", "setpri", "yield"}
INVARIANTS OnOneList HighestRuns
