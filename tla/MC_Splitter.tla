----------------------------- MODULE MC_Splitter -----------------------------
(* Model-checking instance of Splitter: two letters, one of them the       *)
(* delimiter, strings of up to five characters.                            *)
EXTENDS Splitter, TLC

CONSTANTS a, d

=============================================================================
