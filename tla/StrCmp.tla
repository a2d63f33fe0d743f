------------------------------- MODULE StrCmp -------------------------------
(***************************************************************************)
(* The null-tolerant string comparison of src/src/global.h: the function  *)
(* _gpgmepp_strcmp and the comparator templates _GPGMEPP_MAKE_STRCMP      *)
(* builds on it.  A C string is a sequence of non-zero bytes, or Null.  A  *)
(* comparator Name<Op> maps every pair of operands (const char*,          *)
(* std::string, or an object T whose key is lhs expr) to their keys and    *)
(* returns Op<int>()(_gpgmepp_strcmp(lhs, rhs), 0).  The state is three    *)
(* keys x, y, z fixed by Init, so that an invariant speaks of every triple *)
(* of keys.                                                                *)
(***************************************************************************)
EXTENDS Integers, Sequences, SequencesExt

CONSTANTS
    Byte,    \* the byte values a string holds (non-zero)
    MaxLen,  \* the longest string
    Null     \* the null pointer

ASSUME StrCmpAssumption == Byte \subseteq Nat \ {0} /\ MaxLen \in Nat

\* The keys: C strings and the null pointer.  A std::string operand is
\* compared through c_str(), which is never null.
Key == SeqOf(Byte, MaxLen) \cup {Null}

\* std::strcmp: the difference of the first differing bytes as unsigned
\* char, the terminating NUL (0) included; 0 when there is none.
StdStrcmp(s1, s2) ==
    LET At(t, k) == IF k <= Len(t) THEN t[k] ELSE 0
        D == {k \in 1 .. MaxLen + 1 : At(s1, k) # At(s2, k)}
    IN  IF D = {} THEN 0 ELSE At(s1, Min(D)) - At(s2, Min(D))

(***************************************************************************)
(* Mutant: the test of s2 dropped in the s1 == nullptr branch.             *)
(***************************************************************************)
GpgmeppStrcmpNoNullPair(s1, s2) ==
    IF s1 # Null THEN IF s2 # Null THEN StdStrcmp(s1, s2) ELSE 1
    ELSE -1

\* _gpgmepp_strcmp: s1 ? s2 ? std::strcmp(s1, s2) : 1 : s2 ? -1 : 0.
GpgmeppStrcmp(s1, s2) ==
    IF s1 # Null THEN IF s2 # Null THEN StdStrcmp(s1, s2) ELSE 1
    ELSE IF s2 # Null THEN -1 ELSE 0

\* Name<Op>::operator()(lhs, rhs), every overload: the operands' keys
\* compared by GPGMEPP_MAKE_STRCMP's _gpgmepp_strcmp, then Op<int>()(cmp, 0).
Compare(op, lhs, rhs) ==
    LET c == GpgmeppStrcmp(lhs, rhs) IN
    CASE op = "less"          -> c < 0
      [] op = "greater"       -> c > 0
      [] op = "equal_to"      -> c = 0
      [] op = "not_equal_to"  -> c # 0
      [] op = "less_equal"    -> c <= 0
      [] op = "greater_equal" -> c >= 0

VARIABLES x, y, z

Init == x \in Key /\ y \in Key /\ z \in Key

Next == UNCHANGED <<x, y, z>>

Spec == Init /\ [][Next]_<<x, y, z>>

-----------------------------------------------------------------------------
(* Properties *)

Less(a, b) == Compare("less", a, b)
Equiv(a, b) == ~Less(a, b) /\ ~Less(b, a)

\* The comparators are fit for std::sort, std::lower_bound and std::map,
\* null keys included: Name<std::less> is a strict weak ordering (irreflexive,
\* transitive, with transitive incomparability), Name<std::equal_to> is its
\* incomparability, and each other Op agrees with it.
ComparatorsConsistent ==
    /\ ~Less(x, x)
    /\ Less(x, y) /\ Less(y, z) => Less(x, z)
    /\ Equiv(x, y) /\ Equiv(y, z) => Equiv(x, z)
    /\ Compare("equal_to", x, y) = Equiv(x, y)
    /\ Compare("not_equal_to", x, y) = ~Equiv(x, y)
    /\ Compare("greater", x, y) = Less(y, x)
    /\ Compare("less_equal", x, y) = ~Less(y, x)
    /\ Compare("greater_equal", x, y) = ~Less(x, y)

=============================================================================
