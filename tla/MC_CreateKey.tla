----------------------------- MODULE MC_CreateKey -----------------------------
(* Model-checking instance of CreateKey: the arguments a user types.       *)
EXTENDS CreateKey, TLC

\* The option spellings the loop accepts, "--help", "--", an unknown option
\* and two plain words (one starting with a single dash).
MCToken == {"--", "--help", "--addkey", "--certify", "--sign", "--group",
            "--other", "alice", "-v"}

=============================================================================
