SPECIFICATION Spec
CONSTANTS
    Threads = {t1, t2, t3}
    TryUsers = {t3}
    Nobody = Nobody
    Loops = 2
    PublicApi = TRUE
INVARIANTS TrylockSucceededMeansLocked
