---------------------------- MODULE MC_ErrorCode ----------------------------
(***************************************************************************)
(* Instances of ErrorCode for TLC.  The fields are narrowed from 16 code   *)
(* bits, 7 source bits and a shift of 24 to 4, 2 and 5 (SystemError 8,    *)
(* SourceSpan 4, SourceUnit 32), keeping a gap between the fields.        *)
(* The errno table has the shape of libgpg-error's on Linux: errno 1 for  *)
(* index 0, errno 2 for indices 1 and 2 (EAGAIN and EWOULDBLOCK are one    *)
(* errno there) and no errno for index 3; errno 2 maps back to index 1 and *)
(* errno 5 is one the library does not know.                               *)
(***************************************************************************)
EXTENDS ErrorCode, TLC

MCErrnoOf == (0 :> 1) @@ (1 :> 2) @@ (2 :> 2) @@ (3 :> 0)
MCCodeOf == (1 :> 0) @@ (2 :> 1)

\* Codes passed by callers: no error, both cancel codes, an ordinary error,
\* each system-error code, and one code too wide for the field.
MCCodeIn == {0, Canceled, FullyCanceled, 5} \cup {SystemError + i : i \in 0 .. 3}
                \cup {CodeSpan}
=============================================================================
