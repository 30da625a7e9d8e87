SPECIFICATION FairSpec
CONSTANTS
    MaxEvents = 2
CHECK_DEADLOCK FALSE
INVARIANTS
    TypeOK
    RestInAgreement
    CandidatesArrive
PROPERTIES
    HostOfferStands
    NegotiationEnds
