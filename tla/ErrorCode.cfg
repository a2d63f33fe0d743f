CONSTANTS
    SystemError = 8
    SourceSpan = 4
    SourceUnit = 32
    Canceled = 1
    FullyCanceled = 2
    MissingErrno = 6
    UnknownErrno = 7
    ErrnoOf <- MCErrnoOf
    CodeOf <- MCCodeOf
    Errno = {0, 1, 2, 5}
    Src = {0, 1, 3, 4}
    CodeIn <- MCCodeIn
SPECIFICATION Spec
INVARIANT TypeOK
INVARIANT FromCodeContract
INVARIANT ErrnoRoundTrip
