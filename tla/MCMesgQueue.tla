---------------------------- MODULE MCMesgQueue ----------------------------
(***************************************************************************)
(* Instances of MesgQueue for TLC: which thread plays which part.          *)
(***************************************************************************)
EXTENDS MesgQueue, TLC

CONSTANTS tIdle, tA, tB, tC


\* Two senders, one of which also jams, and a receiver that polls as well.
Traffic ==
    (tIdle :> {}) @@ (tA :> {<<"send", TRUE>>, <<"jam", FALSE>>})
    @@ (tB :> {<<"send", FALSE>>, <<"jam", TRUE>>})
    @@ (tC :> {<<"recv", TRUE>>, <<"recv", FALSE>>, <<"peek", FALSE>>})

\* Two receivers and a sender.
Crowd ==
    (tIdle :> {}) @@ (tA :> {<<"recv", TRUE>>}) @@ (tB :> {<<"recv", TRUE>>, <<"peek", FALSE>>})
    @@ (tC :> {<<"send", TRUE>>})

=============================================================================
