\* A claim of the repository that the code does not keep.
CONSTANTS
    Params = {p}
    NoParams = NoParams
    NoNavState = NoNavState
    RotateSeconds = 1
    PauseSeconds = 2
    IdleResetSeconds = 3
SPECIFICATION Spec
PROPERTY TakeoverHaltsTheCarousel
