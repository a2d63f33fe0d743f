------------------------------ MODULE MC_Flags ------------------------------
(***************************************************************************)
(* Instances of Flags for TLC.  The enumerators are model values; MCValue  *)
(* gives each its bits.  The underlying type is narrowed from 32 to 5 bits *)
(* (or 4), keeping _Nb below the width as in TestFlags = Flags<TestFlag,3>  *)
(* of src/tests/t-flags.cpp, so that operator~ has bits to mask.           *)
(***************************************************************************)
EXTENDS Flags, TLC

CONSTANTS A, B, C, D, AB, None

\* A 4-flag enum with a combination enumerator AB = A | B (like Locate =
\* Local|Extern of KeyListMode in global.h), Width 5 and _Nb 4.
MCValue == (A :> {0}) @@ (B :> {1}) @@ (C :> {2}) @@ (D :> {3}) @@ (AB :> {0, 1})
MCRawWithinNb == SUBSET (0 .. Nb - 1)

\* TestFlag of t-flags.cpp (A, B, C in _Nb = 3 bits) with an UnderlyingT of
\* 4 bits, and fromUnderlyingType given every value of UnderlyingT.
TestFlagValue == (A :> {0}) @@ (B :> {1}) @@ (C :> {2})
MCRawAll == SUBSET (0 .. Width - 1)

=============================================================================
