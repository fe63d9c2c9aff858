CONSTANTS
    graph = graph
    audio = audio
    sleeper = sleeper
    Timers = {graph, audio, sleeper}
    Countdowns = {1, 5}
    Width = 8
    Least = 2
    Gap = 1
SPECIFICATION Spec
INVARIANTS NeverEarly AlwaysArmed
PROPERTIES OthersStay
