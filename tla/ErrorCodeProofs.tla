--------------------------- MODULE ErrorCodeProofs ---------------------------
(***************************************************************************)
(* Proofs about GpgME::Error's encoding (ErrorCode), for every width of    *)
(* the fields and every errno table that satisfy the module's assumptions. *)
(* The arithmetic of gpgme_err_make and the field accessors rests on one   *)
(* fact: SourceUnit is a multiple of CodeSpan, so a source shifted into    *)
(* place leaves the code field alone.                                      *)
(***************************************************************************)
EXTENDS ErrorCode, TLAPS

-----------------------------------------------------------------------------
(* Arithmetic of the fields *)

\* The spans are positive and the code field fits below one source unit.
LEMMA SpanFacts ==
    /\ SystemError \in Nat \ {0}
    /\ CodeSpan \in Nat \ {0}
    /\ SourceSpan \in Nat \ {0}
    /\ SourceUnit \in Nat \ {0}
    /\ CodeSpan <= SourceUnit
  BY FieldAssumption DEF CodeSpan

\* A remainder below d survives adding a multiple of d.
LEMMA ModOfMultiple ==
    ASSUME NEW k \in Nat, NEW d \in Nat \ {0}, NEW c \in 0 .. d - 1
    PROVE  (k * d + c) % d = c
  OBVIOUS

\* Adding a multiple of SourceUnit leaves the code field as it is.
LEMMA CodeBelowSource ==
    ASSUME NEW m \in Nat, NEW c \in 0 .. CodeSpan - 1
    PROVE  (m * SourceUnit + c) % CodeSpan = c
  <1>1. SourceUnit = (SourceUnit \div CodeSpan) * CodeSpan
    BY SpanFacts, FieldAssumption
  <1>2. m * (SourceUnit \div CodeSpan) \in Nat
    BY SpanFacts
  <1>3. m * SourceUnit + c = (m * (SourceUnit \div CodeSpan)) * CodeSpan + c
    BY <1>1, SpanFacts
  <1>4. ((m * (SourceUnit \div CodeSpan)) * CodeSpan + c) % CodeSpan = c
    BY <1>2, SpanFacts, ModOfMultiple
  <1> QED
    BY <1>3, <1>4

\* gpgme_err_make stays inside the two fields.
LEMMA MakeRange ==
    ASSUME NEW s \in Nat, NEW c \in Nat
    PROVE  ErrMake(s, c) \in 0 .. SourceSpan * SourceUnit - 1
  <1>1. s % SourceSpan \in 0 .. SourceSpan - 1 /\ c % CodeSpan \in 0 .. CodeSpan - 1
    BY SpanFacts
  <1>2. (s % SourceSpan) * SourceUnit <= (SourceSpan - 1) * SourceUnit
    BY <1>1, SpanFacts
  <1> QED
    BY <1>1, <1>2, SpanFacts DEF ErrMake

\* gpgme_err_code and gpgme_err_source of gpgme_err_make(s, c) for a code
\* the field holds: the code, and the source cut to its field.
LEMMA MakeFields ==
    ASSUME NEW s \in Nat, NEW c \in 0 .. CodeSpan - 1
    PROVE  /\ ErrCode(ErrMake(s, c)) = c
           /\ c # 0 => ErrSource(ErrMake(s, c)) = s % SourceSpan
  <1>1. CASE c = 0
    BY <1>1, SpanFacts DEF ErrMake, ErrCode
  <1>2. CASE c # 0
    <2>1. ErrMake(s, c) = (s % SourceSpan) * SourceUnit + c
      BY <1>2, SpanFacts DEF ErrMake
    <2>2. s % SourceSpan \in Nat
      BY SpanFacts
    <2>3. ErrCode(ErrMake(s, c)) = c
      BY <2>1, <2>2, CodeBelowSource DEF ErrCode
    <2>4. ((s % SourceSpan) * SourceUnit + c) \div SourceUnit = s % SourceSpan
      BY <2>2, SpanFacts
    <2>5. (s % SourceSpan) % SourceSpan = s % SourceSpan
      BY SpanFacts
    <2> QED
      BY <2>1, <2>3, <2>4, <2>5 DEF ErrSource
  <1> QED
    BY <1>1, <1>2

-----------------------------------------------------------------------------
(* The errno conversions *)

\* A code below GPG_ERR_SYSTEM_ERROR converts to no errno.
LEMMA LowCodeNoErrno ==
    ASSUME NEW c \in 0 .. SystemError - 1
    PROVE  CodeToErrno(c) = 0
  BY SpanFacts DEF CodeToErrno

\* The code of an errno the library knows has the system-error bit set,
\* fits the field, and converts back to that errno.
LEMMA KnownErrnoRoundTrip ==
    ASSUME NEW n \in DOMAIN CodeOf
    PROVE  /\ KnownErrnoCode(n) \in SystemError .. CodeSpan - 1
           /\ CodeToErrno(KnownErrnoCode(n)) = n
  <1>1. CodeOf[n] \in 0 .. SystemError - 1
    BY TableAssumption
  <1>2. KnownErrnoCode(n) = SystemError + CodeOf[n]
    BY DEF KnownErrnoCode
  <1>3. (KnownErrnoCode(n) \div SystemError) % 2 = 1
    BY <1>1, <1>2, SpanFacts
  <1>4. KnownErrnoCode(n) - SystemError = CodeOf[n]
    BY <1>1, <1>2, SpanFacts
  <1>5. CodeToErrno(KnownErrnoCode(n)) = ErrnoOf[CodeOf[n]]
    BY <1>1, <1>3, <1>4, TableAssumption DEF CodeToErrno
  <1> QED
    BY <1>1, <1>2, <1>5, TableAssumption, SpanFacts DEF CodeSpan

\* What gpgme_err_code_from_errno and gpgme_err_code_from_syserror return
\* for an errno n: a code of the field, which converts back to n when the
\* library knows n and to 0 otherwise, and is 0 only for fromErrno(0).
LEMMA ErrnoCodes ==
    ASSUME NEW n \in Nat
    PROVE  /\ CodeFromErrno(n) \in 0 .. CodeSpan - 1
           /\ CodeFromSyserror(n) \in 1 .. CodeSpan - 1
           /\ CodeToErrno(CodeFromErrno(n)) = IF n \in DOMAIN CodeOf THEN n ELSE 0
           /\ CodeToErrno(CodeFromSyserror(n)) = IF n \in DOMAIN CodeOf THEN n ELSE 0
           /\ CodeFromErrno(n) = 0 <=> n = 0
  <1>1. CASE n \in DOMAIN CodeOf
    <2>1. n # 0
      BY <1>1, TableAssumption
    <2>2. CodeFromErrno(n) = KnownErrnoCode(n) /\ CodeFromSyserror(n) = KnownErrnoCode(n)
      BY <2>1 DEF CodeFromErrno, CodeFromSyserror
    <2>3. KnownErrnoCode(n) \in SystemError .. CodeSpan - 1
          /\ CodeToErrno(KnownErrnoCode(n)) = n
      BY <1>1, KnownErrnoRoundTrip
    <2> QED
      BY <1>1, <2>1, <2>2, <2>3, SpanFacts
  <1>2. CASE n \notin DOMAIN CodeOf
    <2>1. KnownErrnoCode(n) = UnknownErrno
      BY <1>2 DEF KnownErrnoCode
    <2>2. CodeToErrno(UnknownErrno) = 0 /\ CodeToErrno(MissingErrno) = 0
        /\ CodeToErrno(0) = 0
      BY ReservedAssumption, SpanFacts, LowCodeNoErrno
    <2>3. UnknownErrno \in 1 .. CodeSpan - 1 /\ MissingErrno \in 1 .. CodeSpan - 1
      BY ReservedAssumption, SpanFacts DEF CodeSpan
    <2>4. CASE n = 0
      <3>1. CodeFromErrno(n) = 0 /\ CodeFromSyserror(n) = MissingErrno
        BY <2>4 DEF CodeFromErrno, CodeFromSyserror
      <3> QED
        BY <1>2, <2>2, <2>3, <2>4, <3>1, SpanFacts
    <2>5. CASE n # 0
      <3>1. CodeFromErrno(n) = UnknownErrno /\ CodeFromSyserror(n) = UnknownErrno
        BY <2>1, <2>5 DEF CodeFromErrno, CodeFromSyserror
      <3> QED
        BY <1>2, <2>2, <2>3, <2>5, <3>1
    <2> QED
      BY <2>4, <2>5
  <1> QED
    BY <1>1, <1>2

\* gpgme_err_code_to_errno returns 0 or an entry of the errno table.
LEMMA CodeToErrnoRange ==
    ASSUME NEW c \in Nat
    PROVE  CodeToErrno(c) \in {ErrnoOf[i] : i \in DOMAIN ErrnoOf} \cup {0}
  BY DEF CodeToErrno

-----------------------------------------------------------------------------
(* The invariants *)

\* An Error made from the code k of an errno n, where k converts back to
\* what toErrno() must give for n: toErrno() gives it, and the Error is a
\* success exactly when k is 0.
LEMMA MadeFromErrnoCode ==
    ASSUME NEW n \in Nat, NEW s \in Nat, NEW k \in 0 .. CodeSpan - 1,
           CodeToErrno(k) = IF n \in DOMAIN CodeOf THEN n ELSE 0
    PROVE  /\ ToErrno(ErrMake(s, k)) = IF n \in DOMAIN CodeOf THEN n ELSE 0
           /\ IsSuccess(ErrMake(s, k)) = (k = 0)
  <1>1. Code(ErrMake(s, k)) = k
    BY MakeFields DEF Code
  <1> QED
    BY <1>1 DEF ToErrno, IsSuccess


\* Every step of a caller (setErrno, setSystemError, the three factories)
\* keeps errno a value the thread or the errno table gives, and the held
\* Error inside the source and code fields.
THEOREM TypeCorrect == Spec => []TypeOK
  <1>1. Init => TypeOK
    BY SpanFacts, InputAssumption DEF Init, TypeOK
  <1>2. TypeOK /\ [Next]_vars => TypeOK'
    <2> SUFFICES ASSUME TypeOK, [Next]_vars PROVE TypeOK'
      OBVIOUS
    <2>1. errno \in Nat
      BY InputAssumption, TableAssumption DEF TypeOK
    <2>2. ASSUME NEW n \in Errno, SetErrno(n) PROVE TypeOK'
      BY <2>2 DEF SetErrno, TypeOK
    <2>3. ASSUME NEW c \in CodeIn, SetSystemError(c) PROVE TypeOK'
      BY <2>3, InputAssumption, CodeToErrnoRange DEF SetSystemError, TypeOK
    <2>4. ASSUME NEW s \in Src, FromSystemError(s) PROVE TypeOK'
      <3>1. CodeFromSyserror(errno) \in Nat
        BY <2>1, ErrnoCodes
      <3> QED
        BY <2>4, <3>1, InputAssumption, MakeRange DEF FromSystemError, Made, TypeOK
    <2>5. ASSUME NEW n \in Errno, NEW s \in Src, FromErrno(n, s) PROVE TypeOK'
      <3>1. CodeFromErrno(n) \in Nat
        BY InputAssumption, ErrnoCodes
      <3> QED
        BY <2>5, <3>1, InputAssumption, MakeRange DEF FromErrno, Made, TypeOK
    <2>6. ASSUME NEW c \in CodeIn, NEW s \in Src, FromCode(c, s) PROVE TypeOK'
      BY <2>6, InputAssumption, MakeRange DEF FromCode, Made, TypeOK
    <2>7. CASE UNCHANGED vars
      BY <2>7 DEF vars, TypeOK
    <2> QED
      BY <2>2, <2>3, <2>4, <2>5, <2>6, <2>7 DEF Next
  <1> QED
    BY <1>1, <1>2, PTL DEF Spec

\* Error::fromCode keeps a representable code and source apart: whatever
\* errno calls and other factories run later, the held Error made by
\* fromCode(code, src) answers code() and sourceID() with them.  It is
\* inductive as it stands, since made and err change together.
THEOREM FromCodeContractTheorem == Spec => []FromCodeContract
  <1>1. Init => FromCodeContract
    BY DEF Init, FromCodeContract
  <1>2. FromCodeContract /\ [Next]_vars => FromCodeContract'
    <2> SUFFICES ASSUME FromCodeContract, [Next]_vars PROVE FromCodeContract'
      OBVIOUS
    <2>1. ASSUME NEW n \in Errno, SetErrno(n) PROVE FromCodeContract'
      BY <2>1 DEF SetErrno, FromCodeContract
    <2>2. ASSUME NEW c \in CodeIn, SetSystemError(c) PROVE FromCodeContract'
      BY <2>2 DEF SetSystemError, FromCodeContract
    <2>3. ASSUME NEW s \in Src, FromSystemError(s) PROVE FromCodeContract'
      BY <2>3 DEF FromSystemError, Made, FromCodeContract
    <2>4. ASSUME NEW n \in Errno, NEW s \in Src, FromErrno(n, s) PROVE FromCodeContract'
      BY <2>4 DEF FromErrno, Made, FromCodeContract
    <2>5. ASSUME NEW c \in CodeIn, NEW s \in Src, FromCode(c, s) PROVE FromCodeContract'
      <3> SUFFICES ASSUME Representable(c, s) PROVE FromCodeContract'
        BY <2>5 DEF FromCode, Made, FromCodeContract
      <3>1. c \in 0 .. CodeSpan - 1 /\ s \in 0 .. SourceSpan - 1
        BY InputAssumption, SpanFacts DEF Representable
      <3>2. CASE c = 0
        BY <2>5, <3>2 DEF FromCode, Made, ErrMake, FromCodeContract
      <3>3. CASE c # 0
        <4>1. ErrCode(ErrMake(s, c)) = c /\ ErrSource(ErrMake(s, c)) = s % SourceSpan
          BY <3>1, <3>3, MakeFields
        <4>2. s % SourceSpan = s
          BY <3>1, SpanFacts
        <4>3. ErrCode(err') = c /\ ErrSource(err') = s
          BY <2>5, <4>1, <4>2 DEF FromCode
        <4> QED
          BY <2>5, <3>3, <4>3 DEF FromCode, Made, FromCodeContract, Code, SourceID
      <3> QED
        BY <3>2, <3>3
    <2>6. CASE UNCHANGED vars
      BY <2>6 DEF vars, FromCodeContract
    <2> QED
      BY <2>1, <2>2, <2>3, <2>4, <2>5, <2>6 DEF Next
  <1> QED
    BY <1>1, <1>2, PTL DEF Spec

\* Error::fromErrno(n) and, with errno = n, Error::fromSystemError()
\* convert back to n with toErrno() when the library knows n and to 0
\* otherwise; only fromErrno(0) is a success.  It needs TypeOK, for errno
\* is a number when fromSystemError reads it.
THEOREM ErrnoRoundTripTheorem == Spec => []ErrnoRoundTrip
  <1>1. Init => ErrnoRoundTrip
    BY DEF Init, ErrnoRoundTrip
  <1>2. TypeOK /\ ErrnoRoundTrip /\ [Next]_vars => ErrnoRoundTrip'
    <2> SUFFICES ASSUME TypeOK, ErrnoRoundTrip, [Next]_vars PROVE ErrnoRoundTrip'
      OBVIOUS
    <2>2. ASSUME NEW n \in Errno, SetErrno(n) PROVE ErrnoRoundTrip'
      BY <2>2 DEF SetErrno, ErrnoRoundTrip
    <2>3. ASSUME NEW c \in CodeIn, SetSystemError(c) PROVE ErrnoRoundTrip'
      BY <2>3 DEF SetSystemError, ErrnoRoundTrip
    <2>4. ASSUME NEW s \in Src, FromSystemError(s) PROVE ErrnoRoundTrip'
      <3>1. errno \in Nat
        BY InputAssumption, TableAssumption DEF TypeOK
      <3>2. /\ CodeFromSyserror(errno) \in 1 .. CodeSpan - 1
            /\ CodeToErrno(CodeFromSyserror(errno)) = IF errno \in DOMAIN CodeOf THEN errno ELSE 0
        BY <3>1, ErrnoCodes
      <3>3. /\ ToErrno(ErrMake(s, CodeFromSyserror(errno))) = IF errno \in DOMAIN CodeOf THEN errno ELSE 0
            /\ IsSuccess(ErrMake(s, CodeFromSyserror(errno))) = (CodeFromSyserror(errno) = 0)
        BY <3>1, <3>2, InputAssumption, MadeFromErrnoCode
      <3>4. made' = [kind |-> "syserror", arg |-> errno, src |-> s]
        BY <2>4 DEF FromSystemError, Made
      <3> QED
        BY <2>4, <3>2, <3>3, <3>4 DEF FromSystemError, ErrnoRoundTrip
    <2>5. ASSUME NEW n \in Errno, NEW s \in Src, FromErrno(n, s) PROVE ErrnoRoundTrip'
      <3>1. n \in Nat /\ s \in Nat
        BY InputAssumption
      <3>2. /\ CodeFromErrno(n) \in 0 .. CodeSpan - 1
            /\ CodeToErrno(CodeFromErrno(n)) = IF n \in DOMAIN CodeOf THEN n ELSE 0
            /\ CodeFromErrno(n) = 0 <=> n = 0
        BY <3>1, ErrnoCodes
      <3>3. /\ ToErrno(ErrMake(s, CodeFromErrno(n))) = IF n \in DOMAIN CodeOf THEN n ELSE 0
            /\ IsSuccess(ErrMake(s, CodeFromErrno(n))) = (CodeFromErrno(n) = 0)
        BY <3>1, <3>2, MadeFromErrnoCode
      <3>4. made' = [kind |-> "errno", arg |-> n, src |-> s]
        BY <2>5 DEF FromErrno, Made
      <3> QED
        BY <2>5, <3>2, <3>3, <3>4 DEF FromErrno, ErrnoRoundTrip
    <2>6. ASSUME NEW c \in CodeIn, NEW s \in Src, FromCode(c, s) PROVE ErrnoRoundTrip'
      BY <2>6 DEF FromCode, Made, ErrnoRoundTrip
    <2>7. CASE UNCHANGED vars
      BY <2>7 DEF vars, ErrnoRoundTrip
    <2> QED
      BY <2>2, <2>3, <2>4, <2>5, <2>6, <2>7 DEF Next
  <1> QED
    BY <1>1, <1>2, TypeCorrect, PTL DEF Spec

=============================================================================
