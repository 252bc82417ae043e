-------------------------- MODULE MCCollaboration --------------------------
(***************************************************************************)
(* A manager and two workers, one with a harness, in a team context and a  *)
(* request-response context.                                               *)
(***************************************************************************)
EXTENDS Collaboration, TLC

CONSTANTS boss, ann, bot, team, line, t1, t2
=============================================================================
