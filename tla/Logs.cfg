CONSTANTS
    Containers = {c1, c2}
    Threads = {t1, t2, t3}
    RingSize = 3
    NoPage = NoPage
SPECIFICATION Spec
INVARIANTS TypeOK OwnLinesAreShown
PROPERTIES HeardFetchesLoad
