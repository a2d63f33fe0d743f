---------------------------- MODULE CStringsAtomic ----------------------------
(***************************************************************************)
(* What StringsToCStrings::c_strs() of src/src/util.cpp promises, with     *)
(* each call one atomic step: the first call builds the nullptr-terminated *)
(* array of the c_str() pointers of m_strings, every call hands out a      *)
(* pointer to that array, and a caller may keep it until it drops it.  The *)
(* array, once built, never changes.  CStrings implements this spec when   *)
(* one thread calls c_strs().                                              *)
(***************************************************************************)
EXTENDS Sequences, SequencesExt

CONSTANTS
    Str,       \* the strings (their c_str() pointers) of the vector
    NullPtr,   \* nullptr
    MaxN,      \* the longest vector a caller passes
    Thread     \* the callers of c_strs()

VARIABLES
    strings,   \* m_strings
    array,     \* the array c_strs() hands out, <<>> before the first call
    holding    \* holding[t]: t keeps the pointer its last call returned

avars == <<strings, array, holding>>

Init ==
    /\ strings \in SeqOf(Str, MaxN)
    /\ array = <<>>
    /\ holding = [t \in Thread |-> FALSE]

\* The first call: the array of the strings' pointers and a nullptr.
Build ==
    /\ array = <<>>
    /\ array' = Append(strings, NullPtr)
    /\ UNCHANGED <<strings, holding>>

\* A call once the array exists: it returns the pointer to it.
Get(t) ==
    /\ array # <<>>
    /\ holding' = [holding EXCEPT ![t] = TRUE]
    /\ UNCHANGED <<strings, array>>

\* The caller stops using the pointer.
Drop(t) ==
    /\ holding[t]
    /\ holding' = [holding EXCEPT ![t] = FALSE]
    /\ UNCHANGED <<strings, array>>

Next == Build \/ \E t \in Thread : Get(t) \/ Drop(t)

Spec == Init /\ [][Next]_avars

=============================================================================
