---------------------------- MODULE MCRcpSystem ----------------------------
(***************************************************************************)
(* Settings of RcpSystem for TLC.                                          *)
(***************************************************************************)
EXTENDS RcpSystem

Setting(work, rates, timers, hangs) ==
    [work |-> work, rates |-> rates, timers |-> timers, hangs |-> hangs]

\* All tasks; frames of both kinds; timeouts of the graph thread, and of the audio thread
\* beside each kind of task.
SafeSettings ==
    {Setting({"gfx", "jpeg", "null", "aud"}, {1}, {}, FALSE),
     Setting({"gfx", "unshown"}, {1, 2}, {}, FALSE),
     Setting({"gfx", "jpeg", "null"}, {1}, {"gfx"}, FALSE),
     Setting({"unshown", "aud"}, {1}, {"aud"}, FALSE),
     Setting({"jpeg", "null", "aud"}, {1}, {"aud"}, FALSE)}

\* Graphics with audio, and each of them with processors that may stop.
LiveSettings ==
    {Setting({"gfx", "aud"}, {1}, {}, FALSE), Setting({"gfx"}, {1}, {"gfx"}, TRUE),
     Setting({"aud"}, {1}, {"aud"}, TRUE)}

\* An audio task that times out beside a jpeg task.
LateAudio == {Setting({"jpeg", "aud"}, {1}, {"aud"}, FALSE)}

=============================================================================
