----------------------------- MODULE MC_GenRandom -----------------------------
(* Model-checking instance of GenRandom: the words a user types, with the  *)
(* value of their leading digits; unsigned int is scaled down to 0 .. 9.   *)
EXTENDS GenRandom, TLC

\* "5" and "0" are numerals, "10" one past UIntMax, "x" no number.
MCWord == {"5", "0", "10", "x"}
MCLead == ("5" :> 5) @@ ("0" :> 0) @@ ("10" :> 10) @@ ("x" :> -1)
MCNumeral == {"5", "0", "10"}

=============================================================================
