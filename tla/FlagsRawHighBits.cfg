CONSTANTS
    Width = 4
    Nb = 3
    A = A
    B = B
    C = C
    D = D
    AB = AB
    None = None
    Enum = {A, B, C}
    Value <- TestFlagValue
    Raw <- MCRawAll
    Obj = {o1}
SPECIFICATION Spec
INVARIANT ComplementInvolution
