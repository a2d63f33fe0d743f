------------------------------ MODULE CStrings ------------------------------
(***************************************************************************)
(* StringsToCStrings of src/src/util.cpp: it keeps a copy m_strings of a   *)
(* vector of strings and, on the first call of the const method c_strs(),  *)
(* builds the array m_cstrings of their c_str() pointers followed by a     *)
(* nullptr, which it returns on every later call.  The threads of Thread   *)
(* call c_strs() on one shared object; each statement of c_strs() that     *)
(* touches m_cstrings is one step.  A vector's storage is an allocation:   *)
(* alloc counts them, and a pointer returned by data() is valid while its  *)
(* allocation is the current one.                                          *)
(***************************************************************************)
EXTENDS Naturals, Sequences, SequencesExt

CONSTANTS
    Str,       \* the strings (their c_str() pointers) of the vector
    NullPtr,   \* nullptr
    None,      \* no pointer held
    MaxN,      \* the longest vector a caller passes
    Thread     \* the threads that call c_strs()

ASSUME CStringsAssumption ==
    /\ NullPtr \notin Str /\ None \notin Nat
    /\ MaxN \in Nat /\ Thread # {}

VARIABLES
    strings,   \* m_strings
    cstrings,  \* m_cstrings
    capacity,  \* m_cstrings.capacity()
    alloc,     \* the allocation that holds m_cstrings' elements
    pc,        \* pc[t]: where thread t is in c_strs()
    i,         \* i[t]: the next element std::transform copies for t
    held       \* held[t]: the allocation of the pointer t's last call returned

vars == <<strings, cstrings, capacity, alloc, pc, i, held>>

\* StringsToCStrings(v): m_strings{v}, and m_cstrings empty.
Init ==
    /\ strings \in SeqOf(Str, MaxN)
    /\ cstrings = <<>>
    /\ capacity = 0
    /\ alloc = 0
    /\ pc = [t \in Thread |-> "idle"]
    /\ i = [t \in Thread |-> 1]
    /\ held = [t \in Thread |-> None]

\* The vector after a push_back(x): a push beyond the capacity moves the
\* elements to a new allocation of any larger size (the growth factor is
\* the library's choice).
PushBack(x) ==
    /\ cstrings' = Append(cstrings, x)
    /\ IF Len(cstrings) < capacity
       THEN UNCHANGED <<capacity, alloc>>
       ELSE /\ capacity' \in Len(cstrings) + 1 .. 2 * Len(cstrings) + 1
            /\ alloc' = alloc + 1

\* A thread calls c_strs(), or a caller stops using the pointer it holds.
Call(t) ==
    /\ pc[t] = "idle"
    /\ pc' = [pc EXCEPT ![t] = "check"]
    /\ UNCHANGED <<strings, cstrings, capacity, alloc, i, held>>
Release(t) ==
    /\ pc[t] = "idle" /\ held[t] # None
    /\ held' = [held EXCEPT ![t] = None]
    /\ UNCHANGED <<strings, cstrings, capacity, alloc, pc, i>>

(***************************************************************************)
(* Mutant: the emptiness check dropped, so every call builds the array.    *)
(***************************************************************************)
CheckAlwaysFill(t) ==
    /\ pc[t] = "check"
    /\ pc' = [pc EXCEPT ![t] = "reserve"]
    /\ UNCHANGED <<strings, cstrings, capacity, alloc, i, held>>

\* if (m_cstrings.empty()) {
Check(t) ==
    /\ pc[t] = "check"
    /\ pc' = [pc EXCEPT ![t] = IF cstrings = <<>> THEN "reserve" ELSE "ret"]
    /\ UNCHANGED <<strings, cstrings, capacity, alloc, i, held>>

\* m_cstrings.reserve(m_strings.size() + 1);
Reserve(t) ==
    /\ pc[t] = "reserve"
    /\ IF Len(strings) + 1 > capacity
       THEN capacity' = Len(strings) + 1 /\ alloc' = alloc + 1
       ELSE UNCHANGED <<capacity, alloc>>
    /\ pc' = [pc EXCEPT ![t] = "fill"]
    /\ i' = [i EXCEPT ![t] = 1]
    /\ UNCHANGED <<strings, cstrings, held>>

\* std::transform(begin, end, std::back_inserter(m_cstrings), c_str): one
\* push_back per element of m_strings.
Fill(t) ==
    /\ pc[t] = "fill"
    /\ IF i[t] <= Len(strings)
       THEN /\ PushBack(strings[i[t]])
            /\ i' = [i EXCEPT ![t] = @ + 1]
            /\ UNCHANGED pc
       ELSE /\ pc' = [pc EXCEPT ![t] = "term"]
            /\ UNCHANGED <<cstrings, capacity, alloc, i>>
    /\ UNCHANGED <<strings, held>>

\* m_cstrings.push_back(nullptr); }
Terminate(t) ==
    /\ pc[t] = "term"
    /\ PushBack(NullPtr)
    /\ pc' = [pc EXCEPT ![t] = "ret"]
    /\ UNCHANGED <<strings, i, held>>

\* return m_cstrings.data();
Return(t) ==
    /\ pc[t] = "ret"
    /\ held' = [held EXCEPT ![t] = alloc]
    /\ pc' = [pc EXCEPT ![t] = "idle"]
    /\ UNCHANGED <<strings, cstrings, capacity, alloc, i>>

Next ==
    \E t \in Thread :
        \/ Call(t) \/ Release(t)
        \/ Check(t) \/ Reserve(t) \/ Fill(t) \/ Terminate(t) \/ Return(t)

Spec == Init /\ [][Next]_vars

-----------------------------------------------------------------------------
(* Properties *)

\* The array holds a nullptr, and the elements a C caller reads through it:
\* those before the first nullptr.
Terminated == \E k \in DOMAIN cstrings : cstrings[k] = NullPtr
ReadUpToNull ==
    SubSeq(cstrings, 1, Min({k \in DOMAIN cstrings : cstrings[k] = NullPtr}) - 1)

\* Every pointer c_strs() returned and a caller still holds points into the
\* vector's current storage, which is a nullptr-terminated array of exactly
\* the c_str() pointers of m_strings, in order.
ReturnedArrayValid ==
    \A t \in Thread :
        held[t] # None => /\ held[t] = alloc
                          /\ Terminated
                          /\ ReadUpToNull = strings

\* The refinement mapping to CStringsAtomic: the array a caller can be given
\* is m_cstrings, except while a call is building it, when there is none
\* yet; a caller holds a pointer when held is set.
ArrayView == IF \E t \in Thread : pc[t] \in {"reserve", "fill", "term"}
             THEN <<>> ELSE cstrings
HoldingView == [t \in Thread |-> held[t] # None]

Atomic == INSTANCE CStringsAtomic WITH array <- ArrayView, holding <- HoldingView

\* c_strs() behaves as the atomic build-once-then-return of CStringsAtomic:
\* m_cstrings is built once, by the step that pushes the nullptr, and each
\* return hands out that array.
AtomicRefinement == Atomic!Spec

=============================================================================
