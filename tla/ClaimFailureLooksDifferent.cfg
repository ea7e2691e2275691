\* A claim of the repository that the code does not keep.
CONSTANTS
    Namespaces = {n1}
    Threads = {t1}
    NoPage = NoPage
SPECIFICATION Spec
INVARIANT FailureLooksDifferent
