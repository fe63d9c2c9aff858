CONSTANTS
    Objects <- AllObjects
    Sizeless <- Empty
    Persistent <- Always
    MAX_OBJECT_REQUESTS = 1
    MaxSlots = 3
    Codes <- CodeNames
    CodeObject <- ObjectOf
    Chicken = "chicken"
    NoCode = "none"
    Actors = {1, 2}
    MAX_SPAWNED_ACTORS = 2
    RoomList <- SmallRooms
    MaxMoves = 1
SPECIFICATION Spec
INVARIANTS NoDangling KeepsItsObject DrawnFromItsObject
