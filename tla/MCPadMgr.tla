------------------------------ MODULE MCPadMgr ------------------------------
(* An instance of PadMgr. *)
EXTENDS PadMgr

AllClients == {"main", "pad"}
Order == <<"pad", "main">>
OnlyPad == {"pad"}
Sizes == [c \in AllClients |-> 2]

Setting(late, fails, pulls) == [late |-> late, fails |-> fails, pulls |-> pulls]

\* Clients that join when a reset may have begun; and a game that rumbles.
AllSettings == {Setting(TRUE, 0, 1), Setting(FALSE, 1, 0)}
=============================================================================
