CONSTANTS
    Namespaces = {n1, n2}
    Threads = {t1, t2, t3}
    NoPage = NoPage
SPECIFICATION Spec
INVARIANTS TypeOK ListIsOfThisNamespace PageHearsItsFetch
PROPERTIES EveryPageLoads
