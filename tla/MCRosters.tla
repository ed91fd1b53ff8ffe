------------------------------- MODULE MCRosters -------------------------------
(* A small instance of Rosters: model values for the requests and the people. *)
EXTENDS Rosters, TLC

CONSTANTS r1, r2, r3

MCRequests == {r1, r2, r3}
MCCounts == {1, 3}

=============================================================================
