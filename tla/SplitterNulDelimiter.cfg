\* split_into_string_views on every string of up to five characters over
\* {a, d} and the null pointer, with delimiter d or NUL.
CONSTANTS
    a = a
    d = d
    Nul = Nul
    Null = Null
    Char = {a, d}
    Delim = {d, Nul}
    MaxLen = 5
SPECIFICATION Spec
CHECK_DEADLOCK FALSE
INVARIANT NoInvalidRead
