\* Two offers and a channel of one place.
CONSTANTS
    Offers = {o1, o2}
    Capacity = 1
SPECIFICATION FairSpec
INVARIANTS TypeOK
PROPERTIES FailureEndsSession OffersAreAnswered
CHECK_DEADLOCK FALSE
