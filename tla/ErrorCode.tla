----------------------------- MODULE ErrorCode -----------------------------
(***************************************************************************)
(* GpgME::Error of src/src/error.cpp with the libgpg-error helpers it      *)
(* calls (gpgme_err_make, gpgme_err_code, gpgme_err_source, the errno      *)
(* conversions).  An encoded error packs a source, in units of SourceUnit  *)
(* (1 << GPG_ERR_SOURCE_SHIFT), above a code below CodeSpan; the           *)
(* system-error codes are SystemError + i for the indices i of the errno   *)
(* table.  A mask (x & (2^k - 1)) is x % 2^k and a shift by k a product or *)
(* quotient by 2^k.  The state is the thread's errno slot and the Error    *)
(* value the caller holds; the static members of Error are the actions.   *)
(* A history variable records the call that made the held Error.          *)
(***************************************************************************)
EXTENDS Naturals

CONSTANTS
    SystemError,    \* GPG_ERR_SYSTEM_ERROR, the top bit of the code field (1 << 15)
    SourceSpan,     \* GPG_ERR_SOURCE_MASK + 1 (1 << 7)
    SourceUnit,     \* 1 << GPG_ERR_SOURCE_SHIFT (1 << 24)
    Canceled,       \* GPG_ERR_CANCELED
    FullyCanceled,  \* GPG_ERR_FULLY_CANCELED
    MissingErrno,   \* GPG_ERR_MISSING_ERRNO
    UnknownErrno,   \* GPG_ERR_UNKNOWN_ERRNO
    ErrnoOf,        \* err_code_to_errno: index i of code SystemError + i to
                    \* its errno, 0 where the platform has none
    CodeOf,         \* errno_to_idx and err_code_from_index: each errno the
                    \* library knows to the index of its code
    Errno,          \* the values errno takes
    Src,            \* the source ids callers pass (unsigned int src)
    CodeIn          \* the codes callers pass to fromCode and setSystemError

\* GPG_ERR_CODE_MASK + 1: the code field is SystemError's bit and those below.
CodeSpan == 2 * SystemError

\* x is 2^k for some k.
IsPowerOfTwo(x) == \E k \in 0 .. x : 2 ^ k = x

\* The fields are masks of whole bits, and the source field starts above the
\* code field (GPG_ERR_SOURCE_SHIFT >= 16).
ASSUME FieldAssumption ==
    /\ SystemError \in Nat \ {0} /\ IsPowerOfTwo(SystemError)
    /\ SourceSpan \in Nat \ {0} /\ IsPowerOfTwo(SourceSpan)
    /\ SourceUnit \in Nat \ {0} /\ IsPowerOfTwo(SourceUnit)
    /\ SourceUnit % CodeSpan = 0
ASSUME ReservedAssumption ==
    /\ {Canceled, FullyCanceled, MissingErrno, UnknownErrno} \subseteq 1 .. SystemError - 1
    /\ Canceled # FullyCanceled
    /\ MissingErrno \notin {Canceled, FullyCanceled}
    /\ UnknownErrno \notin {Canceled, FullyCanceled}
ASSUME TableAssumption ==
    /\ DOMAIN ErrnoOf \subseteq 0 .. SystemError - 1
    /\ ErrnoOf \in [DOMAIN ErrnoOf -> Nat]
    /\ DOMAIN CodeOf \subseteq Nat \ {0}
    /\ CodeOf \in [DOMAIN CodeOf -> DOMAIN ErrnoOf]
    /\ \A n \in DOMAIN CodeOf : ErrnoOf[CodeOf[n]] = n
ASSUME InputAssumption ==
    /\ Errno \subseteq Nat /\ 0 \in Errno
    /\ Src \subseteq Nat /\ CodeIn \subseteq Nat

VARIABLES
    errno,    \* the thread's errno
    err,      \* mErr of the Error the caller holds
    made      \* history: the call that made err

vars == <<errno, err, made>>

\* gpgme_err_make(source, code): zero for GPG_ERR_NO_ERROR, else the masked
\* source shifted above the masked code.
ErrMake(src, code) ==
    IF code = 0 THEN 0
    ELSE (src % SourceSpan) * SourceUnit + (code % CodeSpan)

\* gpgme_err_code, gpgme_err_source.
ErrCode(e) == e % CodeSpan
ErrSource(e) == (e \div SourceUnit) % SourceSpan

\* gpgme_err_code_to_errno: 0 unless the GPG_ERR_SYSTEM_ERROR bit is set,
\* else the table entry of the code with that bit cleared, 0 past the table.
CodeToErrno(c) ==
    IF (c \div SystemError) % 2 = 0 THEN 0
    ELSE IF c - SystemError \in DOMAIN ErrnoOf THEN ErrnoOf[c - SystemError]
    ELSE 0

\* The system-error code of an errno the library knows, UNKNOWN_ERRNO else.
KnownErrnoCode(n) ==
    IF n \in DOMAIN CodeOf THEN SystemError + CodeOf[n] ELSE UnknownErrno

\* gpgme_err_code_from_errno: no error for 0.
CodeFromErrno(n) == IF n = 0 THEN 0 ELSE KnownErrnoCode(n)

\* gpgme_err_code_from_syserror: reads errno; MISSING_ERRNO for 0.
CodeFromSyserror(n) == IF n = 0 THEN MissingErrno ELSE KnownErrnoCode(n)

\* Error::code(), Error::sourceID().
Code(e) == ErrCode(e)
SourceID(e) == ErrSource(e)

\* Error::isSuccess(), isCanceled(), isError().
IsSuccess(e) == Code(e) = 0
IsCanceled(e) == Code(e) = Canceled \/ Code(e) = FullyCanceled
IsError(e) == ~IsSuccess(e) /\ ~IsCanceled(e)

\* Error::toErrno().
ToErrnoOfEncoded(e) == CodeToErrno(e)
ToErrno(e) == CodeToErrno(Code(e))

\* Error::hasSystemError().
HasSystemError == CodeFromSyserror(errno) # MissingErrno

\* A record of the call that made the held Error.
Made(kind, arg, src) == [kind |-> kind, arg |-> arg, src |-> src]

Init ==
    /\ errno = 0
    /\ err = 0
    /\ made = [kind |-> "none", arg |-> 0, src |-> 0]

\* Error::setErrno(err): gpgme_err_set_errno(err).  Any other library or
\* system call of the thread may write errno in the same way.
SetErrno(n) ==
    /\ errno' = n
    /\ UNCHANGED <<err, made>>

\* Error::setSystemError(err): setErrno(gpgme_err_code_to_errno(err)).
SetSystemError(c) ==
    /\ errno' = CodeToErrno(c)
    /\ UNCHANGED <<err, made>>

\* Error::fromSystemError(src):
\*   Error(gpgme_err_make(src, gpgme_err_code_from_syserror())).
FromSystemError(s) ==
    /\ err' = ErrMake(s, CodeFromSyserror(errno))
    /\ made' = Made("syserror", errno, s)
    /\ UNCHANGED errno

\* Error::fromErrno(err, src):
\*   Error(gpgme_err_make(src, gpgme_err_code_from_errno(err))).
FromErrno(n, s) ==
    /\ err' = ErrMake(s, CodeFromErrno(n))
    /\ made' = Made("errno", n, s)
    /\ UNCHANGED errno

\* Error::fromCode(err, src): Error(gpgme_err_make(src, err)).
FromCodeShifted(c, s) ==
    /\ err' = s * SourceUnit + c
    /\ made' = Made("code", c, s)
    /\ UNCHANGED errno
FromCodeSwapped(c, s) ==
    /\ err' = ErrMake(c, s)
    /\ made' = Made("code", c, s)
    /\ UNCHANGED errno
FromCode(c, s) ==
    /\ err' = ErrMake(s, c)
    /\ made' = Made("code", c, s)
    /\ UNCHANGED errno

Next ==
    \/ \E n \in Errno : SetErrno(n)
    \/ \E c \in CodeIn : SetSystemError(c)
    \/ \E s \in Src : FromSystemError(s)
    \/ \E n \in Errno, s \in Src : FromErrno(n, s)
    \/ \E c \in CodeIn, s \in Src : FromCode(c, s)

Spec == Init /\ [][Next]_vars

-----------------------------------------------------------------------------
(* Properties *)

\* The types of the state.
TypeOK ==
    /\ errno \in Errno \cup {ErrnoOf[i] : i \in DOMAIN ErrnoOf} \cup {0}
    /\ err \in 0 .. SourceSpan * SourceUnit - 1
    /\ made.kind \in {"none", "syserror", "errno", "code"}

\* A code and a source the fields can hold.
Representable(c, s) == c < CodeSpan /\ s < SourceSpan

\* fromCode(code, src) for a representable pair: a non-zero code comes back
\* from code() and the source from sourceID(); code 0 gives the all-zero
\* success value, whatever the source.
FromCodeContract ==
    made.kind = "code" /\ Representable(made.arg, made.src) =>
        IF made.arg = 0 THEN err = 0
        ELSE Code(err) = made.arg /\ SourceID(err) = made.src

\* An Error made from an errno, by fromErrno(n) or by fromSystemError() with
\* errno = n, converts back to n with toErrno() when the library knows n and
\* to 0 otherwise, and it is a success exactly when it came from fromErrno(0):
\* fromSystemError() with errno 0 is MISSING_ERRNO, an error.
ErrnoRoundTrip ==
    made.kind \in {"errno", "syserror"} =>
        /\ ToErrno(err) = IF made.arg \in DOMAIN CodeOf THEN made.arg ELSE 0
        /\ IsSuccess(err) = (made.kind = "errno" /\ made.arg = 0)

=============================================================================
