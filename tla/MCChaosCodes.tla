---------------------------- MODULE MCChaosCodes ----------------------------
(***************************************************************************)
(* Instances of ChaosCodes for TLC: some of the codes of gChaosCodeDefs    *)
(* with the flags they have there for cutscenes, and short durations.      *)
(***************************************************************************)
EXTENDS ChaosCodes

\* toggle and affect say whether a cutscene forbids and whether it suspends the code.
MCDef(toggle, affect, min, max) ==
    [toggle   |-> IF toggle THEN {"cutscene"} ELSE {},
     affect   |-> IF affect THEN {"cutscene"} ELSE {},
     min_time |-> min, max_time |-> max]

Defs ==
    [c \in Codes |->
        CASE c = "none"          -> MCDef(TRUE, TRUE, 0, 0)
          [] c = "timer_up"      -> MCDef(FALSE, FALSE, 2, 3)
          [] c = "low_gravity"   -> MCDef(FALSE, FALSE, 1, 2)
          [] c = "change_health" -> MCDef(FALSE, FALSE, 1, 3)
          [] c = "invincible"    -> MCDef(FALSE, FALSE, 2, 3)
          [] c = "ice_trap"      -> MCDef(TRUE, TRUE, 0, 0)
          [] c = "fierce_deity"  -> MCDef(TRUE, FALSE, 1, 3)
          [] c = "wallmaster"    -> MCDef(FALSE, FALSE, 0, 0)
          [] c = "simon_says"    -> MCDef(FALSE, FALSE, 0, 0)
          [] OTHER               -> MCDef(FALSE, FALSE, 1, 2)]

Clashes ==
    (Codes \X Codes) \cap
        { <<"change_health", "invincible">>, <<"invincible", "change_health">>,
          <<"simon_says", "change_health">> }

=============================================================================
