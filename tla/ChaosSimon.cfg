SPECIFICATION Spec
CONSTANTS
    Codes = {"none", "timer_up", "low_gravity", "change_health", "simon_says"}
    NONE = "none"
    TIMER_UP = "timer_up"
    LOW_GRAVITY = "low_gravity"
    ENTRANCE_RANDO = "low_gravity"
    SIMON_SAYS = "simon_says"
    CHANGE_HEALTH = "change_health"
    Performed = {"simon_says"}
    Dropped = {}
    Spawners = {}
    Situations = {"cutscene"}
    Def <- Defs
    Clash <- Clashes
    SparedInDeath = {"change_health"}
    MAX_ACTIVE_CODES = 3
    MIN_CHAOS_TIMER = 1
    MAX_CHAOS_TIMER = 2
    START_CHAOS_TIMER = 1
    MAX_SECONDS = 3
    Second = 1
    MaxFrame = 2
    ATTEMPTS = 3
    MaxRepeats = 1
INVARIANT SimonDeathStands
