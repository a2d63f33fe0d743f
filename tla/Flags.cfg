CONSTANTS
    Width = 5
    Nb = 4
    A = A
    B = B
    C = C
    D = D
    AB = AB
    None = None
    Enum = {A, B, C, D, AB}
    Value <- MCValue
    Raw <- MCRawWithinNb
    Obj = {o1, o2}
SPECIFICATION Spec
INVARIANT NoBitsBeyondNb
PROPERTY SetResetEffect
