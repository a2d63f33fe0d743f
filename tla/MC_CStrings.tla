----------------------------- MODULE MC_CStrings -----------------------------
(* Model-checking instance of CStrings: two distinct strings and two      *)
(* threads as model values.                                                *)
EXTENDS CStrings, TLC

CONSTANTS s1, s2, t1, t2

=============================================================================
