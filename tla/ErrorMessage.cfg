\* Two threads calling asString() repeatedly on one Error, keeping and releasing
\* the pointers, with a 3-byte buffer, descriptions shorter than, as long as and
\* longer than it, and a 1-character small-string buffer, so that the first
\* assignment copies in place for a 1-character text and allocates for a
\* longer one.
CONSTANTS
    t1 = t1
    t2 = t2
    Thread = {t1, t2}
    BufSize = 3
    DescLen = {1, 2, 3, 4}
    SsoCapacity = 1
    None = None
SPECIFICATION Spec
PROPERTY MessageTruncatedWhenSerialized
