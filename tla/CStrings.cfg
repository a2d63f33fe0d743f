\* One thread calling c_strs() on an object holding up to three strings,
\* again and again, keeping and releasing the returned pointer.
CONSTANTS
    s1 = s1
    s2 = s2
    t1 = t1
    t2 = t2
    NullPtr = NullPtr
    None = None
    Str = {s1, s2}
    MaxN = 3
    Thread = {t1}
SPECIFICATION Spec
INVARIANT ReturnedArrayValid
PROPERTY AtomicRefinement
