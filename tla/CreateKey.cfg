\* parseCommandLine on every command line of up to three arguments drawn
\* from the accepted options, --help, --, an unknown option and two words.
CONSTANTS
    Token <- MCToken
    MaxArgs = 3
SPECIFICATION Spec
CHECK_DEADLOCK FALSE
INVARIANT ParseAsDocumented
