\* Smallest instance in which a settled payment is sent back.
SPECIFICATION Spec
CONSTANTS
    k1 = k1
    k2 = k2
    p = p
    q = q
    NoIntent = NoIntent
    Draft = Draft
    Requests <- MCRequests
    Participants <- MCParticipants
    Covers <- MCCovers
    MaxIncidents = 1
PROPERTIES
    SettledPaymentKept
\* once every payment is settled or returned nothing is left to do
CHECK_DEADLOCK FALSE
