\* run-genrandom when the library may fail or be canceled: does main print
\* only values the library generated?
CONSTANTS
    Word <- MCWord
    Lead <- MCLead
    Numeral <- MCNumeral
    UIntMax = 9
    MaxArgs = 2
    ErrCode = {58, 99}
SPECIFICATION Spec
CHECK_DEADLOCK FALSE
INVARIANT OutputFromResult
