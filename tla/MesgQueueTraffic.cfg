SPECIFICATION FairSpec
CONSTANTS
    tIdle = tIdle
    tA = tA
    tB = tB
    tC = tC
    Idle = tIdle
    Threads = {tIdle, tA, tB, tC}
    WaitQueues = {"mt", "full"}
    Priorities = {1, 2}
    Mesgs = {m1, m2}
    msgCount = 2
    Calls <- Traffic
    Controls = {"event", "yield"}
INVARIANT NoLostWakeup
PROPERTIES ImplementsFifo MesgsFlow
