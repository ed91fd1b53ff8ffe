--------------------------- MODULE MCHubSpotQueue ---------------------------
(* Instances of HubSpotQueue for TLC.                                      *)
EXTENDS HubSpotQueue, TLC

ProcessSymmetry == Permutations(Workers) \cup Permutations(Changers)
=============================================================================
