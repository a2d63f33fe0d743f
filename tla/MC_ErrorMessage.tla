--------------------------- MODULE MC_ErrorMessage ---------------------------
(* Model-checking instance of ErrorMessage: threads as model values.       *)
EXTENDS ErrorMessage, TLC

CONSTANTS t1, t2

=============================================================================
