--------------------------- MODULE MCHarnessTurns ---------------------------
(***************************************************************************)
(* Two events of one channel, whose turns can overlap, and one of another. *)
(***************************************************************************)
EXTENDS HarnessTurns, TLC

CONSTANTS c1, c2, e1, e2, e3

MCInbox == (c1 :> <<e1, e2>>) @@ (c2 :> <<e3>>)
=============================================================================
