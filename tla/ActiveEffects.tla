--------------------------- MODULE ActiveEffects ---------------------------
(***************************************************************************)
(* What the active code list of chaos_fuckery.c promises the game: every   *)
(* effect is active at most once, with the seconds it has left; time       *)
(* passes for all of them alike, and those that are out of it end at once  *)
(* unless something holds them.                                            *)
(***************************************************************************)
EXTENDS Integers, FiniteSets

CONSTANTS
    Codes,              \* the effects
    MAX_ACTIVE_CODES,   \* how many may be active together
    MAX_SECONDS,        \* the longest an effect lasts
    Clash               \* the pairs <<c, d>> such that c never starts while d is active

VARIABLE left   \* the seconds each effect has left, or Off

Off == -1

Active == {c \in Codes : left[c] # Off}

Init == left = [c \in Codes |-> Off]

Activate(c, seconds) ==
    /\ c \notin Active
    /\ Cardinality(Active) < MAX_ACTIVE_CODES
    /\ \A d \in Active : <<c, d>> \notin Clash
    /\ left' = [left EXCEPT ![c] = seconds]

Deactivate(c) ==
    /\ c \in Active
    /\ left' = [left EXCEPT ![c] = Off]

\* What "elapsed" seconds make of "timer".
After(elapsed, timer, held) ==
    IF elapsed < timer THEN timer - elapsed ELSE IF held THEN 0 ELSE Off

Tick(elapsed, held) ==
    left' = [c \in Codes |->
                IF c \in Active THEN After(elapsed, left[c], c \in held) ELSE Off]

Next ==
    \/ \E c \in Codes : Deactivate(c) \/ \E seconds \in 0..MAX_SECONDS : Activate(c, seconds)
    \/ \E elapsed \in 0..MAX_SECONDS, held \in SUBSET Active : Tick(elapsed, held)

Spec == Init /\ [][Next]_left

=============================================================================
