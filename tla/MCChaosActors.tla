--------------------------- MODULE MCChaosActors ---------------------------
(***************************************************************************)
(* An instance of ChaosActors for TLC: the likelike's object is            *)
(* persistent, chickens and wallmasters need theirs, and the second room   *)
(* has a wallmaster of its own.                                            *)
(***************************************************************************)
EXTENDS ChaosActors

OBJECT_RR == 1
OBJECT_NIW == 2
OBJECT_WALLMASTER == 3
OBJECT_DOOR == 4
OBJECT_NONE == 5

AllObjects == 1 .. 5
Empty == {OBJECT_NONE}
Always == <<OBJECT_RR>>
ObjectOf == [chicken |-> OBJECT_NIW, wallmaster |-> OBJECT_WALLMASTER]
CodeNames == DOMAIN ObjectOf
NoActors == {}

\* A room without objects of its own and one with an object that a chaos effect wants too,
\* and rooms that keep the loads busy.
SmallRooms == [r \in {0, 1} |-> IF r = 0 THEN <<>> ELSE <<OBJECT_WALLMASTER>>]
LargeRooms == [r \in {0, 1} |-> IF r = 0 THEN <<OBJECT_NONE>> ELSE <<OBJECT_WALLMASTER, OBJECT_DOOR>>]

=============================================================================
