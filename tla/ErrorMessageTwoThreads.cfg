\* Two threads calling asString() on one shared Error.
CONSTANTS
    t1 = t1
    t2 = t2
    Thread = {t1, t2}
    BufSize = 3
    DescLen = {1, 4}
    SsoCapacity = 1
    None = None
SPECIFICATION Spec
INVARIANT NoDataRace
