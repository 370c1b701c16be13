CONSTANTS
    t1 = t1
    Tracks = {t1}
    NoCall = NoCall
    NoOffer = NoOffer
    MaxOffers = 0
SPECIFICATION FairSpec
INVARIANTS NoTrackMissed OneOfferAtATime
PROPERTY OffersCatchUp
CHECK_DEADLOCK FALSE
