---------------------------- MODULE MCSaveFiles -----------------------------
(* Instances of SaveFiles. *)
EXTENDS SaveFiles

Setting(n, errors, cuts, copies, crashesEarly) ==
  [saves |-> n, errors |-> errors, cuts |-> cuts, copies |-> copies,
   crashesEarly |-> crashesEarly]

\* A device that errs, a console that is switched off at a bad moment, and
\* a player who copies files or whose game crashes early.
AllSettings ==
  {Setting(4, 0, 0, "cycle", FALSE), Setting(3, 3, 0, "cycle", FALSE),
   Setting(3, 0, 1, "none", FALSE), Setting(4, 0, 1, "cycle", FALSE),
   Setting(3, 0, 0, "owl", TRUE)}
=============================================================================
