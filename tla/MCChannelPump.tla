----------------------------- MODULE MCChannelPump -----------------------------
(***************************************************************************)
(* Instances of ChannelPump for TLC: every kind of event under every       *)
(* adapter, in a few mixes that fit one inbox.                             *)
(***************************************************************************)
EXTENDS ChannelPump

\* With a process adapter there is no artifact update: its outcome cannot be sent.
MCSettings ==
    [kind : {<<"work", "work", "work">>}, adapter : {"push", "process"}]
    \cup [kind : {<<"info", "reduced", "approval">>}, adapter : {"webhook", "process"}]
    \cup [kind : {<<"silent", "decision", "artifact">>}, adapter : {"push"}]
    \cup [kind : {<<"work", "decision", "silent">>}, adapter : {"process", "poll"}]

=============================================================================
