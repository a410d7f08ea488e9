\* Two chains and two pictures: an assignment over a running chain, abandonment
\* and cleanup at every step.
CONSTANTS
    MaxChains = 2
    MaxPictures = 2
    Rectangles <- MCRectangles
SPECIFICATION FairSpec
INVARIANTS TypeOK LifetimesNest
PROPERTIES PicturesInOrder CallbacksReturn AbandonedChainsReturn NewestPictureSent
CHECK_DEADLOCK FALSE
