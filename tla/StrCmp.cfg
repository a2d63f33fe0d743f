\* Every triple of keys among the strings of up to two bytes over {1, 2}
\* and the null pointer.
CONSTANTS
    Byte = {1, 2}
    MaxLen = 2
    Null = Null
SPECIFICATION Spec
INVARIANT ComparatorsConsistent
