\* run-genrandom on every command line of up to three arguments drawn from
\* its options, an unknown option, numerals, a too-large number and a word.
CONSTANTS
    Word <- MCWord
    Lead <- MCLead
    Numeral <- MCNumeral
    UIntMax = 9
    MaxArgs = 3
    ErrCode = {58, 99}
SPECIFICATION Spec
CHECK_DEADLOCK FALSE
INVARIANT ArgumentsAsDocumented
PROPERTY Terminates
