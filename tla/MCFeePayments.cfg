\* Two requests for one booking; k1 covers both participants, k2 one of them.
SPECIFICATION Spec
CONSTANTS
    k1 = k1
    k2 = k2
    p = p
    q = q
    NoIntent = NoIntent
    Draft = Draft
    Requests <- MCRequests
    Participants <- MCParticipants
    Covers <- MCCovers
    MaxIncidents = 3
INVARIANTS
    NoDoubleCharge
    IInv
PROPERTIES
    CapturedSettles
    ImplementsAccount
\* once every payment is settled or returned nothing is left to do
CHECK_DEADLOCK FALSE
