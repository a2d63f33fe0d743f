---------------------------- MODULE FlagsProofs ----------------------------
(***************************************************************************)
(* Proofs about the Flags model for every width, every _Nb, every enum and *)
(* every number of objects: type correctness, the data-model invariant     *)
(* NoBitsBeyondNb, and the set/reset/test contract SetResetEffect.         *)
(***************************************************************************)
EXTENDS Flags, TLAPS

\* The complement lies in the low _Nb bits of UnderlyingT.
LEMMA ComplementBits ==
    ASSUME NEW x
    PROVE  Complement(x) \subseteq Bit \cap NbMask
BY DEF Complement

\* Every operand of a binary operator is a value of UnderlyingT.
LEMMA OperandType ==
    ASSUME TypeOK
    PROVE  Operand \subseteq Int
BY ValueAssumption DEF Operand, TypeOK, Int, toUnderlying

\* Every operand lies in the low _Nb bits when the inputs and the objects do.
LEMMA OperandWithinNb ==
    ASSUME TypeOK, InputsWithinNb, NoBitsBeyondNb
    PROVE  \A y \in Operand : y \subseteq NbMask
BY DEF Operand, InputsWithinNb, NoBitsBeyondNb

-----------------------------------------------------------------------------

\* Every step keeps each object a value of UnderlyingT.
LEMMA TypeStep == TypeOK /\ [Next]_vars => TypeOK'
  <1> SUFFICES ASSUME TypeOK, [Next]_vars PROVE TypeOK'
    OBVIOUS
  <1>1. Operand \subseteq Int
    BY OperandType
  <1>2. ASSUME NEW o \in Obj,
               \/ Construct(o) \/ FromUnderlyingType(o) \/ ResetAll(o)
               \/ Or(o) \/ And(o) \/ Xor(o)
               \/ OrAssign(o) \/ AndAssign(o) \/ XorAssign(o) \/ Negate(o),
               called' = {}
        PROVE  TypeOK'
    <2>1. flags'[o] \in Int /\ flags' = [flags EXCEPT ![o] = flags'[o]]
      BY <1>1, <1>2, RawAssumption, ValueAssumption, ComplementBits
      DEF Construct, FromUnderlyingType, ResetAll, Or, And, Xor, OrAssign,
          AndAssign, XorAssign, Negate, XorBits, TypeOK, Int, toUnderlying
    <2>2. QED
      BY <2>1, <1>2 DEF TypeOK
  <1>3. ASSUME NEW o \in Obj, NEW e \in Enum, NEW v \in BOOLEAN,
               SetFlag(o, e, v) \/ ResetFlag(o, e),
               called' = {[obj |-> o, flag |-> e, value |-> v]}
        PROVE  TypeOK'
    <2>1. flags'[o] \in Int /\ flags' = [flags EXCEPT ![o] = flags'[o]]
      BY <1>3, ComplementBits, ValueAssumption
      DEF SetFlag, ResetFlag, TypeOK, Int, toUnderlying
    <2>2. called' \subseteq [obj : Obj, flag : Enum, value : BOOLEAN]
      BY <1>3
    <2>3. QED
      BY <2>1, <2>2 DEF TypeOK
  <1>4. CASE UNCHANGED vars
    BY <1>4 DEF vars, TypeOK
  <1>5. QED
    BY <1>2, <1>3, <1>4 DEF Next, Record

\* Every reachable state gives each object a value of UnderlyingT: the
\* typing fact the proofs below rest on.
LEMMA TypeCorrect == Spec => []TypeOK
<1>1. Init => TypeOK
  BY DEF Init, TypeOK, Int
<1>2. QED
  BY <1>1, TypeStep, PTL DEF Spec

\* When every enumerator and every raw integer lies in the low _Nb bits, no
\* object ever holds a bit at position _Nb or above (operator~ masks).
THEOREM NoBitsBeyondNbTheorem ==
    ASSUME InputsWithinNb
    PROVE  Spec => []NoBitsBeyondNb
<1> DEFINE Inv == TypeOK /\ NoBitsBeyondNb
<1>1. Init => Inv
  BY DEF Init, TypeOK, Int, NoBitsBeyondNb
<1>2. Inv /\ [Next]_vars => NoBitsBeyondNb'
  <2> SUFFICES ASSUME TypeOK, NoBitsBeyondNb, [Next]_vars
               PROVE  NoBitsBeyondNb'
    OBVIOUS
  <2>1. \A y \in Operand : y \subseteq NbMask
    BY OperandWithinNb
  <2>2. ASSUME NEW o \in Obj,
               \/ Construct(o) \/ FromUnderlyingType(o) \/ ResetAll(o)
               \/ Or(o) \/ And(o) \/ Xor(o)
               \/ OrAssign(o) \/ AndAssign(o) \/ XorAssign(o) \/ Negate(o)
        PROVE  NoBitsBeyondNb'
    <3>1. flags'[o] \subseteq NbMask /\ flags' = [flags EXCEPT ![o] = flags'[o]]
      BY <2>1, <2>2, ComplementBits
      DEF Construct, FromUnderlyingType, ResetAll, Or, And, Xor, OrAssign,
          AndAssign, XorAssign, Negate, XorBits, InputsWithinNb, NoBitsBeyondNb,
          TypeOK
    <3>2. QED
      BY <3>1 DEF NoBitsBeyondNb, TypeOK
  <2>3. ASSUME NEW o \in Obj, NEW e \in Enum, NEW v \in BOOLEAN,
               SetFlag(o, e, v) \/ ResetFlag(o, e)
        PROVE  NoBitsBeyondNb'
    BY <2>3 DEF SetFlag, ResetFlag, InputsWithinNb, NoBitsBeyondNb, TypeOK
  <2>4. CASE UNCHANGED vars
    BY <2>4 DEF vars, NoBitsBeyondNb
  <2>5. QED
    BY <2>2, <2>3, <2>4 DEF Next
<1>3. Inv /\ [Next]_vars => Inv'
  BY <1>2, TypeStep DEF Inv
<1>4. QED
  BY <1>1, <1>3, PTL DEF Spec, Inv

\* The enumerators are non-zero.
NonZeroEnumerators == \A e \in Enum : toUnderlying(e) # {}

\* The effect of the complement-and-mask of reset on an in-range value.
LEMMA ResetBits ==
    ASSUME NEW X, NEW V, X \subseteq Bit \cap NbMask
    PROVE  X \cap Complement(V) = X \ V
BY DEF Complement

\* For non-zero enumerators within the low _Nb bits, every set(e, v) and
\* reset(e) call makes test(e) equal to v (false for reset) and leaves test(f)
\* of every enumerator f disjoint from e unchanged.
THEOREM SetResetEffectTheorem ==
    ASSUME InputsWithinNb, NonZeroEnumerators
    PROVE  Spec => SetResetEffect
<1> DEFINE Safe == TypeOK /\ NoBitsBeyondNb
<1>1. Spec => []Safe
  BY TypeCorrect, NoBitsBeyondNbTheorem
<1>2. Safe /\ [Next]_vars => [SetResetContract]_vars
  <2> SUFFICES ASSUME TypeOK, NoBitsBeyondNb, [Next]_vars
               PROVE  [SetResetContract]_vars
    OBVIOUS
  <2>1. ASSUME NEW o \in Obj,
               \/ Construct(o) \/ FromUnderlyingType(o) \/ ResetAll(o)
               \/ Or(o) \/ And(o) \/ Xor(o)
               \/ OrAssign(o) \/ AndAssign(o) \/ XorAssign(o) \/ Negate(o),
               called' = {}
        PROVE  SetResetContract
    BY <2>1 DEF SetResetContract
  <2>2. ASSUME NEW o \in Obj, NEW e \in Enum, NEW v \in BOOLEAN,
               \/ v = TRUE /\ flags' = [flags EXCEPT ![o] = @ \cup toUnderlying(e)]
               \/ v = FALSE /\ flags' = [flags EXCEPT ![o] = @ \ toUnderlying(e)],
               called' = {[obj |-> o, flag |-> e, value |-> v]}
        PROVE  SetResetContract
    <3>1. toUnderlying(e) # {}
      BY DEF NonZeroEnumerators
    <3>2. Test(flags'[o], e) = v
      BY <2>2, <3>1 DEF Test, TypeOK
    <3>3. KeepsUnrelated(o, e)
      BY <2>2 DEF KeepsUnrelated, Unrelated, Test, TypeOK
    <3>4. QED
      BY <2>2, <3>2, <3>3 DEF SetResetContract
  <2>3. ASSUME NEW o \in Obj, NEW e \in Enum
        PROVE  flags[o] \cap Complement(toUnderlying(e)) = flags[o] \ toUnderlying(e)
    BY ResetBits DEF TypeOK, Int, NoBitsBeyondNb
  <2>4. CASE UNCHANGED vars
    BY <2>4
  <2>5. QED
    BY <2>1, <2>2, <2>3, <2>4 DEF Next, Record, SetFlag, ResetFlag
<1>3. QED
  BY <1>1, <1>2, PTL DEF SetResetEffect, Spec

=============================================================================
