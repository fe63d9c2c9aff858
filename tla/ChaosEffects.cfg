SPECIFICATION LiveSpec
CONSTANTS
    Codes = {"none", "timer_up", "low_gravity", "change_health", "invincible", "fierce_deity", "simon_says", "wallmaster"}
    NONE = "none"
    TIMER_UP = "timer_up"
    LOW_GRAVITY = "low_gravity"
    ENTRANCE_RANDO = "low_gravity"
    SIMON_SAYS = "simon_says"
    CHANGE_HEALTH = "change_health"
    Performed = {"simon_says"}
    Dropped = {"fierce_deity"}
    Spawners = {"wallmaster"}
    Situations = {"cutscene"}
    Def <- Defs
    Clash <- Clashes
    SparedInDeath = {"change_health", "invincible"}
    MAX_ACTIVE_CODES = 2
    MIN_CHAOS_TIMER = 1
    MAX_CHAOS_TIMER = 2
    START_CHAOS_TIMER = 1
    MAX_SECONDS = 3
    Second = 2
    MaxFrame = 3
    ATTEMPTS = 3
    MaxRepeats = 1
INVARIANTS ListIntact NoClash
PROPERTIES ImplementsEffects EffectsEnd
