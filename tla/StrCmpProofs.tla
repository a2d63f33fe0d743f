----------------------------- MODULE StrCmpProofs -----------------------------
(***************************************************************************)
(* Proof that the comparators of src/src/global.h are consistent for every *)
(* string length and every byte set: _gpgmepp_strcmp is antisymmetric, is *)
(* 0 exactly on equal keys, and orders keys by their first differing byte  *)
(* with the null pointer first, so Name<std::less> is a strict weak        *)
(* ordering and the other Name<Op> agree with it.                          *)
(***************************************************************************)
EXTENDS StrCmp, WellFoundedInduction, TLAPS

\* The byte std::strcmp reads at position k of a string (0 for its NUL and
\* past it), and the positions among the first MaxLen + 1 where two strings
\* differ: the names StdStrcmp's LET gives them.
AtP(t, k) == IF k <= Len(t) THEN t[k] ELSE 0
Diff(s1, s2) == {k \in 1 .. MaxLen + 1 : AtP(s1, k) # AtP(s2, k)}

\* s1 is before s2 in the order of their first differing byte.
LexLess(s1, s2) ==
    \E p \in 1 .. MaxLen + 1 :
        /\ \A k \in 1 .. p - 1 : AtP(s1, k) = AtP(s2, k)
        /\ AtP(s1, p) < AtP(s2, p)

-----------------------------------------------------------------------------
(* Lemmas on keys and on Min *)

\* A key other than the null pointer is a string of at most MaxLen bytes.
LEMMA KeyIsString ==
    ASSUME NEW a \in Key, a # Null
    PROVE  a \in Seq(Byte) /\ Len(a) \in 0 .. MaxLen
  BY StrCmpAssumption DEF Key, SeqOf

\* The bytes std::strcmp reads: a non-zero byte within the string, 0 after.
LEMMA AtRange ==
    ASSUME NEW a \in Key, a # Null, NEW k \in 1 .. MaxLen + 1
    PROVE  /\ AtP(a, k) \in Nat
           /\ AtP(a, k) = 0 <=> k > Len(a)
  <1>1. a \in Seq(Byte) /\ Len(a) \in 0 .. MaxLen
    BY KeyIsString
  <1>2. CASE k <= Len(a)
    <2>1. a[k] \in Byte
      BY <1>1, <1>2
    <2>2. AtP(a, k) = a[k]
      BY <1>2 DEF AtP
    <2>3. a[k] \in Nat \ {0}
      BY <2>1, StrCmpAssumption, Zenon
    <2>4. ~(k > Len(a))
      BY <1>1, <1>2
    <2> QED
      BY <2>2, <2>3, <2>4
  <1>3. CASE ~(k <= Len(a))
    BY <1>1, <1>3 DEF AtP
  <1> QED
    BY <1>2, <1>3

\* A non-empty set of naturals has a least element, which Min picks.
LEMMA MinOfNat ==
    ASSUME NEW T \in SUBSET Nat, T # {}
    PROVE  Min(T) \in T /\ \A n \in T : Min(T) <= n
  <1>1. \E m \in T : \A n \in T : ~(<<n, m>> \in OpToRel(<, Nat))
    BY NatLessThanWellFounded, WFMin
  <1>2. ASSUME NEW m \in T, NEW n \in T, ~(<<n, m>> \in OpToRel(<, Nat))
        PROVE  m <= n
    <2>1. <<n, m>> \in Nat \X Nat
      OBVIOUS
    <2>2. ~(n < m)
      BY <1>2, <2>1 DEF OpToRel
    <2>3. m \in Nat /\ n \in Nat
      OBVIOUS
    <2> QED
      BY <2>2, <2>3
  <1>3. \E m \in T : \A n \in T : m <= n
    BY <1>1, <1>2
  <1> QED
    BY <1>3 DEF Min

\* The element of a set of naturals below all others is its Min.
LEMMA MinIsLeast ==
    ASSUME NEW T \in SUBSET Nat, NEW p \in T, \A k \in T : p <= k
    PROVE  Min(T) = p
  <1>1. Min(T) \in T /\ Min(T) <= p
    BY MinOfNat
  <1>2. p <= Min(T) /\ p \in Nat /\ Min(T) \in Nat
    BY <1>1
  <1> QED
    BY <1>1, <1>2

\* StdStrcmp in the names above.
LEMMA StrcmpByDiff ==
    ASSUME NEW s1, NEW s2
    PROVE  StdStrcmp(s1, s2) =
               IF Diff(s1, s2) = {} THEN 0
               ELSE AtP(s1, Min(Diff(s1, s2))) - AtP(s2, Min(Diff(s1, s2)))
  BY DEF StdStrcmp, Diff, AtP

-----------------------------------------------------------------------------
(* std::strcmp on two strings *)

\* The first position where two strings differ, when they do: it is one of
\* the positions std::strcmp reads, the bytes there differ, and they agree
\* on every position before it.
LEMMA FirstDiff ==
    ASSUME NEW a \in Key, NEW b \in Key, Diff(a, b) # {}
    PROVE  LET p == Min(Diff(a, b)) IN
           /\ p \in 1 .. MaxLen + 1
           /\ AtP(a, p) # AtP(b, p)
           /\ \A k \in 1 .. p - 1 : AtP(a, k) = AtP(b, k)
  <1>1. Diff(a, b) \in SUBSET Nat
    BY DEF Diff
  <1> DEFINE p == Min(Diff(a, b))
  <1>2. p \in Diff(a, b) /\ \A n \in Diff(a, b) : p <= n
    BY <1>1, MinOfNat
  <1>3. p \in 1 .. MaxLen + 1 /\ AtP(a, p) # AtP(b, p)
    BY <1>2 DEF Diff
  <1>4. ASSUME NEW k \in 1 .. p - 1 PROVE AtP(a, k) = AtP(b, k)
    <2>1. k \in 1 .. MaxLen + 1 /\ ~(p <= k)
      BY <1>3, StrCmpAssumption
    <2>2. k \notin Diff(a, b)
      BY <1>2, <2>1
    <2> QED
      BY <2>1, <2>2 DEF Diff
  <1> QED
    BY <1>3, <1>4

\* std::strcmp is antisymmetric.
LEMMA StrcmpAntisym ==
    ASSUME NEW a \in Key, NEW b \in Key, a # Null, b # Null
    PROVE  StdStrcmp(b, a) = -StdStrcmp(a, b) /\ StdStrcmp(a, b) \in Int
  <1>1. Diff(b, a) = Diff(a, b)
    BY DEF Diff
  <1>2. CASE Diff(a, b) = {}
    BY <1>1, <1>2, StrcmpByDiff
  <1>3. CASE Diff(a, b) # {}
    <2> DEFINE p == Min(Diff(a, b))
    <2>1. p \in 1 .. MaxLen + 1
      BY <1>3, FirstDiff
    <2>2. AtP(a, p) \in Nat /\ AtP(b, p) \in Nat
      BY <2>1, AtRange
    <2>3. StdStrcmp(a, b) = AtP(a, p) - AtP(b, p)
      BY <1>3, StrcmpByDiff
    <2>4. StdStrcmp(b, a) = AtP(b, p) - AtP(a, p)
      BY <1>1, <1>3, StrcmpByDiff
    <2> QED
      BY <2>2, <2>3, <2>4
  <1> QED
    BY <1>2, <1>3

\* Two strings std::strcmp reads the same bytes of are equal: a shorter one
\* ends with a NUL where the longer one has a non-zero byte.
LEMMA NoDiffEqual ==
    ASSUME NEW a \in Key, NEW b \in Key, a # Null, b # Null, Diff(a, b) = {}
    PROVE  a = b
  <1>1. a \in Seq(Byte) /\ Len(a) \in 0 .. MaxLen /\ b \in Seq(Byte) /\ Len(b) \in 0 .. MaxLen
    BY KeyIsString
  <1>2. \A k \in 1 .. MaxLen + 1 : AtP(a, k) = AtP(b, k)
    BY DEF Diff
  <1>3. Len(a) = Len(b)
    <2>1. ASSUME NEW u \in Key, NEW v \in Key, u # Null, v # Null,
                 \A k \in 1 .. MaxLen + 1 : AtP(u, k) = AtP(v, k)
          PROVE  ~(Len(u) < Len(v))
      <3> SUFFICES ASSUME Len(u) < Len(v) PROVE FALSE
        OBVIOUS
      <3>1. Len(u) \in 0 .. MaxLen /\ Len(v) \in 0 .. MaxLen
        BY <2>1, KeyIsString
      <3>2. Len(u) + 1 \in 1 .. MaxLen + 1
        BY <3>1, StrCmpAssumption
      <3>3. AtP(u, Len(u) + 1) = 0 /\ AtP(v, Len(u) + 1) # 0
        BY <2>1, <3>1, <3>2, AtRange
      <3> QED
        BY <2>1, <3>2, <3>3
    <2>2. \A k \in 1 .. MaxLen + 1 : AtP(b, k) = AtP(a, k)
      BY <1>2
    <2> QED
      BY <1>1, <1>2, <2>1, <2>2
  <1>4. \A k \in 1 .. Len(a) : a[k] = b[k]
    <2> TAKE k \in 1 .. Len(a)
    <2>1. k \in 1 .. MaxLen + 1 /\ k <= Len(a) /\ k <= Len(b)
      BY <1>1, <1>3, StrCmpAssumption
    <2> QED
      BY <1>2, <2>1 DEF AtP
  <1> QED
    BY <1>1, <1>3, <1>4

\* std::strcmp is 0 exactly on equal strings.
LEMMA StrcmpZero ==
    ASSUME NEW a \in Key, NEW b \in Key, a # Null, b # Null
    PROVE  StdStrcmp(a, b) = 0 <=> a = b
  <1>1. CASE Diff(a, b) = {}
    BY <1>1, StrcmpByDiff, NoDiffEqual
  <1>2. CASE Diff(a, b) # {}
    <2> DEFINE p == Min(Diff(a, b))
    <2>1. p \in 1 .. MaxLen + 1 /\ AtP(a, p) # AtP(b, p)
      BY <1>2, FirstDiff
    <2>2. AtP(a, p) \in Nat /\ AtP(b, p) \in Nat
      BY <2>1, AtRange
    <2>3. StdStrcmp(a, b) = AtP(a, p) - AtP(b, p)
      BY <1>2, StrcmpByDiff
    <2>4. a # b
      BY <2>1
    <2> QED
      BY <2>1, <2>2, <2>3, <2>4
  <1> QED
    BY <1>1, <1>2

\* std::strcmp is negative exactly when the first differing byte of the
\* first string is the smaller.
LEMMA StrcmpNegative ==
    ASSUME NEW a \in Key, NEW b \in Key, a # Null, b # Null
    PROVE  StdStrcmp(a, b) < 0 <=> LexLess(a, b)
  <1>1. ASSUME StdStrcmp(a, b) < 0 PROVE LexLess(a, b)
    <2>1. Diff(a, b) # {}
      BY <1>1, StrcmpByDiff
    <2> DEFINE p == Min(Diff(a, b))
    <2>2. /\ p \in 1 .. MaxLen + 1
          /\ \A k \in 1 .. p - 1 : AtP(a, k) = AtP(b, k)
      BY <2>1, FirstDiff
    <2>3. AtP(a, p) \in Nat /\ AtP(b, p) \in Nat
      BY <2>2, AtRange
    <2>4. AtP(a, p) < AtP(b, p)
      BY <1>1, <2>1, <2>3, StrcmpByDiff
    <2> QED
      BY <2>2, <2>4 DEF LexLess
  <1>2. ASSUME LexLess(a, b) PROVE StdStrcmp(a, b) < 0
    <2>1. PICK p \in 1 .. MaxLen + 1 :
              /\ \A k \in 1 .. p - 1 : AtP(a, k) = AtP(b, k)
              /\ AtP(a, p) < AtP(b, p)
      BY <1>2 DEF LexLess
    <2>5. AtP(a, p) \in Nat /\ AtP(b, p) \in Nat
      BY <2>1, AtRange
    <2>2. p \in Diff(a, b)
      BY <2>1, <2>5 DEF Diff
    <2>3. \A k \in Diff(a, b) : p <= k
      BY <2>1 DEF Diff
    <2>4. Min(Diff(a, b)) = p
      BY <2>2, <2>3, MinIsLeast DEF Diff
    <2> QED
      BY <2>1, <2>2, <2>4, <2>5, StrcmpByDiff
  <1> QED
    BY <1>1, <1>2

\* The order of the first differing byte is transitive.
LEMMA LexTransitive ==
    ASSUME NEW a \in Key, NEW b \in Key, NEW c \in Key,
           a # Null, b # Null, c # Null, LexLess(a, b), LexLess(b, c)
    PROVE  LexLess(a, c)
  <1>1. PICK p1 \in 1 .. MaxLen + 1 :
            /\ \A k \in 1 .. p1 - 1 : AtP(a, k) = AtP(b, k)
            /\ AtP(a, p1) < AtP(b, p1)
    BY DEF LexLess
  <1>2. PICK p2 \in 1 .. MaxLen + 1 :
            /\ \A k \in 1 .. p2 - 1 : AtP(b, k) = AtP(c, k)
            /\ AtP(b, p2) < AtP(c, p2)
    BY DEF LexLess
  <1>3. \A k \in 1 .. MaxLen + 1 : AtP(a, k) \in Nat /\ AtP(b, k) \in Nat /\ AtP(c, k) \in Nat
    BY AtRange
  <1>4. CASE p1 <= p2
    <2>1. \A k \in 1 .. p1 - 1 : AtP(a, k) = AtP(c, k)
      BY <1>1, <1>2, <1>4
    <2>2. AtP(b, p1) <= AtP(c, p1)
      BY <1>2, <1>3, <1>4
    <2>3. AtP(a, p1) < AtP(c, p1)
      BY <1>1, <1>3, <2>2
    <2> QED
      BY <1>1, <2>1, <2>3 DEF LexLess
  <1>5. CASE p2 < p1
    <2>1. \A k \in 1 .. p2 - 1 : AtP(a, k) = AtP(c, k)
      BY <1>1, <1>2, <1>5
    <2>2. AtP(a, p2) = AtP(b, p2)
      BY <1>1, <1>5
    <2>3. AtP(a, p2) < AtP(c, p2)
      BY <1>2, <1>3, <2>2
    <2> QED
      BY <1>2, <2>1, <2>3 DEF LexLess
  <1> QED
    BY <1>4, <1>5

-----------------------------------------------------------------------------
(* _gpgmepp_strcmp and the comparators *)

\* _gpgmepp_strcmp is an antisymmetric integer, 0 exactly on equal keys.
LEMMA CmpFacts ==
    ASSUME NEW a \in Key, NEW b \in Key
    PROVE  /\ GpgmeppStrcmp(a, b) \in Int
           /\ GpgmeppStrcmp(b, a) = -GpgmeppStrcmp(a, b)
           /\ GpgmeppStrcmp(a, b) = 0 <=> a = b
  <1>1. CASE a # Null /\ b # Null
    <2>1. GpgmeppStrcmp(a, b) = StdStrcmp(a, b) /\ GpgmeppStrcmp(b, a) = StdStrcmp(b, a)
      BY <1>1 DEF GpgmeppStrcmp
    <2> QED
      BY <1>1, <2>1, StrcmpAntisym, StrcmpZero
  <1>2. CASE a = Null \/ b = Null
    BY <1>2 DEF GpgmeppStrcmp
  <1> QED
    BY <1>1, <1>2

\* Name<std::less>: the null pointer before every string, strings in the
\* order of their first differing byte.
LEMMA LessIff ==
    ASSUME NEW a \in Key, NEW b \in Key
    PROVE  Less(a, b) <=> \/ a = Null /\ b # Null
                          \/ a # Null /\ b # Null /\ LexLess(a, b)
  <1>1. Less(a, b) <=> GpgmeppStrcmp(a, b) < 0
    BY DEF Less, Compare
  <1>2. CASE a # Null /\ b # Null
    BY <1>1, <1>2, StrcmpNegative DEF GpgmeppStrcmp
  <1>3. CASE a = Null \/ b = Null
    BY <1>1, <1>3 DEF GpgmeppStrcmp
  <1> QED
    BY <1>2, <1>3

\* Name<std::less> is transitive.
LEMMA LessTransitive ==
    ASSUME NEW a \in Key, NEW b \in Key, NEW c \in Key, Less(a, b), Less(b, c)
    PROVE  Less(a, c)
  <1>1. b # Null /\ c # Null
    BY LessIff
  <1>2. CASE a = Null
    BY <1>1, <1>2, LessIff
  <1>3. CASE a # Null
    <2>1. LexLess(a, b) /\ LexLess(b, c)
      BY <1>1, <1>3, LessIff
    <2> QED
      BY <1>1, <1>3, <2>1, LexTransitive, LessIff
  <1> QED
    BY <1>2, <1>3

\* Two keys are equivalent under Name<std::less> exactly when they are equal.
LEMMA EquivIsEqual ==
    ASSUME NEW a \in Key, NEW b \in Key
    PROVE  Equiv(a, b) <=> a = b
  <1>1. Equiv(a, b) <=> ~(GpgmeppStrcmp(a, b) < 0) /\ ~(GpgmeppStrcmp(b, a) < 0)
    BY DEF Equiv, Less, Compare
  <1> QED
    BY <1>1, CmpFacts

\* For every triple of keys: the comparators are consistent.
LEMMA KeysConsistent ==
    ASSUME x \in Key, y \in Key, z \in Key
    PROVE  ComparatorsConsistent
  <1> DEFINE c == GpgmeppStrcmp(x, y)
  <1>1. c \in Int /\ GpgmeppStrcmp(y, x) = -c /\ (c = 0 <=> x = y)
    BY CmpFacts
  <1>2. ~Less(x, x)
    BY CmpFacts DEF Less, Compare
  <1>3. Less(x, y) /\ Less(y, z) => Less(x, z)
    BY LessTransitive
  <1>4. Equiv(x, y) /\ Equiv(y, z) => Equiv(x, z)
    BY EquivIsEqual
  <1>5. Equiv(x, y) <=> c = 0
    BY <1>1, EquivIsEqual
  <1>6. /\ Compare("equal_to", x, y) = Equiv(x, y)
        /\ Compare("not_equal_to", x, y) = ~Equiv(x, y)
    <2>1. Compare("equal_to", x, y) = (c = 0) /\ Compare("not_equal_to", x, y) = (c # 0)
      BY DEF Compare
    <2>2. Equiv(x, y) \in BOOLEAN
      BY DEF Equiv
    <2> QED
      BY <1>5, <2>1, <2>2
  <1>7. /\ Compare("greater", x, y) = Less(y, x)
        /\ Compare("less_equal", x, y) = ~Less(y, x)
        /\ Compare("greater_equal", x, y) = ~Less(x, y)
    BY <1>1 DEF Compare, Less
  <1> QED
    BY <1>2, <1>3, <1>4, <1>6, <1>7 DEF ComparatorsConsistent

\* The property the strcmp run checks, for every MaxLen and byte set: the
\* comparators of GPGMEPP_MAKE_STRCMP are fit for std::sort, std::map and
\* std::lower_bound, null keys included.
THEOREM ComparatorsConsistentTheorem == Spec => []ComparatorsConsistent
  <1> DEFINE Keys == x \in Key /\ y \in Key /\ z \in Key
  <1>1. Init => Keys
    BY DEF Init
  <1>2. Keys /\ [Next]_<<x, y, z>> => Keys'
    BY DEF Next
  <1>3. Keys => ComparatorsConsistent
    BY KeysConsistent
  <1> QED
    BY <1>1, <1>2, <1>3, PTL DEF Spec

=============================================================================
