--------------------------- MODULE MCFeePayments ---------------------------
(* Two requests of one booking that charge the same two participants.       *)
EXTENDS FeePayments, TLC

CONSTANTS k1, k2, p, q

MCRequests == {k1, k2}
MCParticipants == {p, q}
MCCovers == (k1 :> {p, q}) @@ (k2 :> {q})

=============================================================================
