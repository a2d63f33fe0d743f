------------------------------- MODULE Flags -------------------------------
(***************************************************************************)
(* GpgME::Flags<Enum, _Nb> of src/src/flags.h: a bit set keyed by the      *)
(* enumerators of a scoped enum.  A value of the underlying integer type   *)
(* UnderlyingT (Width bits wide) is represented by the set of positions of *)
(* its one bits, so that the bitwise operators |, & and ^ of the code are  *)
(* union, intersection and symmetric difference and ~ is the complement   *)
(* with respect to the Width bits.  The state is the mFlags member of    *)
(* each Flags object a client holds; every constructor, mutator and       *)
(* operator that yields a Flags value is one action.                       *)
(***************************************************************************)
EXTENDS Naturals

CONSTANTS
    Width,  \* bit width of std::underlying_type_t<Enum>
    Nb,     \* the template argument _Nb (number_of_bits)
    Enum,   \* the enumerators of Enum
    Value,  \* Value[e]: the one bits of static_cast<UnderlyingT>(e)
    Raw,    \* the integers a client passes to fromUnderlyingType
    Obj     \* the Flags objects the client holds

\* The bit positions of UnderlyingT and its values.
Bit == 0 .. Width - 1
Int == SUBSET Bit

ASSUME WidthAssumption == Width \in Nat \ {0}
ASSUME NbAssumption == Nb \in Nat \ {0}
ASSUME ValueAssumption == Value \in [Enum -> Int]
ASSUME RawAssumption == Raw \subseteq Int

VARIABLES
    flags,  \* flags[o]: the member mFlags of object o
    called  \* history: {[obj, flag, value]} for the set(flag, value) or
            \* reset(flag) call of the last step, {} for any other step

vars == <<flags, called>>

\* toUnderlying(flag): static_cast<UnderlyingT>(flag).
toUnderlying(e) == Value[e]

\* test(flag): (mFlags & toUnderlying(flag)) == toUnderlying(flag).
Test(x, e) == (x \cap toUnderlying(e)) = toUnderlying(e)

\* operator bool: mFlags != 0.
NonEmpty(x) == x # {}

\* The symmetric difference, the integer operator ^.
XorBits(x, y) == (x \ y) \cup (y \ x)

\* (~std::bitset<_Nb>()).to_ulong(): the low _Nb bits; ANDed with ~mFlags
\* and stored back into UnderlyingT, which keeps only the Width bits.
NbMask == 0 .. Nb - 1

(***************************************************************************)
(* Mutants: plausible mistakes in operator~ and set(), used to show that   *)
(* the properties below can tell them apart from the code.                 *)
(***************************************************************************)
ComplementUnmasked(x) == Bit \ x

\* operator~: Flags(~mFlags & (~std::bitset<_Nb>()).to_ulong()).
Complement(x) == (Bit \ x) \cap NbMask

\* The values of the Flags operands a binary operator may be given: another
\* Flags object, or an enumerator (the Flags(Enum) forms and the enum-enum
\* forms that GPGMEPP_DEFINE_ENUM_FLAG_OPERATORS adds, FlagsType{lhs} op rhs).
Operand == {flags[p] : p \in Obj} \cup {toUnderlying(e) : e \in Enum}

Init ==
    /\ flags = [o \in Obj |-> {}]
    /\ called = {}

(***************************************************************************)
(* Constructors: Flags() is zero, Flags(Enum) the enumerator, and the      *)
(* initializer_list constructor ORs its enumerators into zero; the object  *)
(* o is (re)assigned the new value.                                        *)
(***************************************************************************)
Construct(o) ==
    \/ flags' = [flags EXCEPT ![o] = {}]
    \/ \E e \in Enum : flags' = [flags EXCEPT ![o] = toUnderlying(e)]
    \/ \E L \in SUBSET Enum :
          flags' = [flags EXCEPT ![o] = UNION {toUnderlying(e) : e \in L}]

\* fromUnderlyingType(flags): Flags{flags}, stored without masking.
FromUnderlyingType(o) ==
    \E r \in Raw : flags' = [flags EXCEPT ![o] = r]

SetFlagToggle(o, e, v) ==
    flags' = [flags EXCEPT ![o] = IF v THEN @ \cup toUnderlying(e)
                                       ELSE XorBits(@, toUnderlying(e))]

\* set(flag, value): value ? (*this |= flag) : (*this &= ~Flags(flag)).
SetFlag(o, e, v) ==
    flags' = [flags EXCEPT ![o] = IF v THEN @ \cup toUnderlying(e)
                                       ELSE @ \cap Complement(toUnderlying(e))]

\* reset(flag): *this &= ~Flags(flag).
ResetFlag(o, e) ==
    flags' = [flags EXCEPT ![o] = @ \cap Complement(toUnderlying(e))]

\* reset(): mFlags = 0.
ResetAll(o) == flags' = [flags EXCEPT ![o] = {}]

\* operator|, operator&, operator^ in the Flags/Enum forms, o = lhs op rhs.
Or(o) == \E x, y \in Operand : flags' = [flags EXCEPT ![o] = x \cup y]
And(o) == \E x, y \in Operand : flags' = [flags EXCEPT ![o] = x \cap y]
Xor(o) == \E x, y \in Operand : flags' = [flags EXCEPT ![o] = XorBits(x, y)]

\* operator|=, operator&=, operator^= with a Flags or an Enum operand.
OrAssign(o) == \E y \in Operand : flags' = [flags EXCEPT ![o] = @ \cup y]
AndAssign(o) == \E y \in Operand : flags' = [flags EXCEPT ![o] = @ \cap y]
XorAssign(o) ==
    \E y \in Operand : flags' = [flags EXCEPT ![o] = XorBits(@, y)]

\* o = ~p.
Negate(o) == \E p \in Obj : flags' = [flags EXCEPT ![o] = Complement(flags[p])]

\* The history variable records the set(flag, value) and reset(flag) calls.
Record(o, e, v) == called' = {[obj |-> o, flag |-> e, value |-> v]}

Next ==
    \E o \in Obj :
        \/ /\ \/ Construct(o)
              \/ FromUnderlyingType(o)
              \/ ResetAll(o)
              \/ Or(o) \/ And(o) \/ Xor(o)
              \/ OrAssign(o) \/ AndAssign(o) \/ XorAssign(o)
              \/ Negate(o)
           /\ called' = {}
        \/ \E e \in Enum, v \in BOOLEAN : SetFlag(o, e, v) /\ Record(o, e, v)
        \/ \E e \in Enum : ResetFlag(o, e) /\ Record(o, e, FALSE)

Spec == Init /\ [][Next]_vars

-----------------------------------------------------------------------------
(* Properties *)

\* Every mFlags is a value of UnderlyingT.
TypeOK ==
    /\ flags \in [Obj -> Int]
    /\ called \subseteq [obj : Obj, flag : Enum, value : BOOLEAN]

\* The inputs stay within the low _Nb bits: every enumerator and every
\* integer handed to fromUnderlyingType.
InputsWithinNb ==
    /\ \A e \in Enum : toUnderlying(e) \subseteq NbMask
    /\ \A r \in Raw : r \subseteq NbMask

\* The data-model invariant of Flags: when the enumerators and the raw
\* integers a program uses lie in the low _Nb bits, no sequence of
\* constructors, set/reset calls and operators (operator~ in particular,
\* which complements the whole UnderlyingT) leaves a bit at position _Nb or
\* above set in any object.
NoBitsBeyondNb == \A o \in Obj : flags[o] \subseteq NbMask

\* The enumerators whose bits are disjoint from e's, and a step of object o
\* that leaves test(f) of all of them as it was.
Unrelated(e) == {f \in Enum : toUnderlying(f) \cap toUnderlying(e) = {}}
KeepsUnrelated(o, e) ==
    \A f \in Unrelated(e) : Test(flags'[o], f) = Test(flags[o], f)

\* The contract of set()/reset()/test(): after set(e, v) test(e) is v and
\* after reset(e) test(e) is false, and neither call changes test(f) for an
\* enumerator f whose bits are disjoint from e's (reset goes through
\* operator~, so this depends on the mask of the complement).
SetResetContract ==
    \A c \in called' : /\ Test(flags'[c.obj], c.flag) = c.value
                      /\ KeepsUnrelated(c.obj, c.flag)

\* Every set(e, v) and reset(e) call of every behaviour keeps that contract.
SetResetEffect == [][SetResetContract]_vars

\* Section 8 of the spec: complementing twice gives back the value, ~~a == a.
ComplementInvolution == \A o \in Obj : Complement(Complement(flags[o])) = flags[o]

=============================================================================
