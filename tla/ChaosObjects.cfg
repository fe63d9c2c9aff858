CONSTANTS
    Objects <- AllObjects
    Sizeless <- Empty
    Persistent <- Always
    MAX_OBJECT_REQUESTS = 2
    MaxSlots = 4
    Codes <- CodeNames
    CodeObject <- ObjectOf
    Chicken = "chicken"
    NoCode = "none"
    Actors <- NoActors
    MAX_SPAWNED_ACTORS = 0
    RoomList <- LargeRooms
    MaxMoves = 1
SPECIFICATION LiveSpec
INVARIANTS RequestsInOrder LoadedIsThere
PROPERTIES ObjectComes
