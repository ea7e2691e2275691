\* Three limits in the order of the defaults 15 < 60 < 120 (config.py:20-22).
CONSTANTS
    Params = {p, q}
    NoParams = NoParams
    NoNavState = NoNavState
    RotateSeconds = 1
    PauseSeconds = 2
    IdleResetSeconds = 3
SPECIFICATION Spec
INVARIANTS TypeOK ScreenLag StackIsADrillDown LatchIsCurrent
PROPERTIES
    TickRespectsTheUser
    EveryEpisodeSeizesTheNav
    ImplementsCarousel
    ScreenCatchesUp
    CarouselResumes
