--------------------------- MODULE MCTaskDecisions ---------------------------
(***************************************************************************)
(* One piece of work that two tool calls meet on, two authorizations asked  *)
(* for it and one held message.  What differs between two pieces of work is *)
(* ChannelPump's subject.                                                   *)
(***************************************************************************)
EXTENDS TaskDecisions, TLC

CONSTANTS e1, c1, c2, a1, a2, h1
=============================================================================
