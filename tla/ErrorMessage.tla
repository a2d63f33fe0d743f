---------------------------- MODULE ErrorMessage ----------------------------
(***************************************************************************)
(* Error::asString() of src/src/error.cpp and the format_error it calls:  *)
(* the const method fills the mutable cache mMessage on its first call,   *)
(* rendering the error's description into a fixed buffer with             *)
(* gpgme_strerror_r, and returns mMessage.c_str().  The threads of Thread  *)
(* call asString() on one shared Error.  A text is abstracted to its       *)
(* length; the description of the held error is fixed.  The assignment   *)
(* str = buffer is two steps, as std::string::assign is: AssignBegin reads *)
(* the string's capacity, AssignEnd copies the characters, into the       *)
(* storage when it had room and otherwise into a new allocation that      *)
(* replaces (and frees) the storage current at that moment.  A            *)
(* std::string's character storage is an allocation: alloc counts them.   *)
(***************************************************************************)
EXTENDS Naturals

CONSTANTS
    Thread,    \* the threads that call asString()
    BufSize,   \* sizeof buffer (1024 in the code)
    DescLen,   \* the lengths the description of an error may have
    SsoCapacity, \* the characters a std::string holds without allocating
    None       \* no pointer held

ASSUME ErrorMessageAssumption ==
    /\ BufSize \in Nat \ {0, 1}
    /\ DescLen \subseteq Nat \ {0}
    /\ SsoCapacity \in Nat
    /\ None \notin Nat

VARIABLES
    desc,      \* the length of gpgme_strerror's text for mErr
    message,   \* mMessage.size(): 0 while the cache is empty
    buffer,    \* buffer[t]: t's char buffer, as [len, term]
    alloc,     \* the allocation that holds mMessage's characters
    room,      \* room[t]: mMessage had storage when t's assignment began
    pc,        \* pc[t]: where thread t is in asString()
    held       \* held[t]: the allocation of the pointer t's last call returned

vars == <<desc, message, buffer, alloc, room, pc, held>>

\* The contents of a buffer: len characters, then a NUL when term.
Buffer == [len : 0 .. BufSize, term : BOOLEAN]

\* gpgme_strerror_r(err, buffer, size): the description when it fits with
\* its NUL; otherwise a truncated copy, terminated or not (libgpg-error's
\* choice, reported as ERANGE).
StrErrorR(d) ==
    IF d < BufSize THEN {[len |-> d, term |-> TRUE]}
    ELSE {[len |-> BufSize - 1, term |-> TRUE], [len |-> BufSize, term |-> FALSE]}

Init ==
    /\ desc \in DescLen
    /\ message = 0
    /\ buffer = [t \in Thread |-> [len |-> 0, term |-> TRUE]]
    /\ alloc = 0
    /\ room = [t \in Thread |-> FALSE]
    /\ pc = [t \in Thread |-> "idle"]
    /\ held = [t \in Thread |-> None]

\* A thread calls asString(), or its caller stops using the pointer.
Call(t) ==
    /\ pc[t] = "idle"
    /\ pc' = [pc EXCEPT ![t] = "check"]
    /\ UNCHANGED <<desc, message, buffer, alloc, room, held>>
Release(t) ==
    /\ pc[t] = "idle" /\ held[t] # None
    /\ held' = [held EXCEPT ![t] = None]
    /\ UNCHANGED <<desc, message, buffer, alloc, room, pc>>

(***************************************************************************)
(* Mutant: the terminating NUL not forced into the buffer.                 *)
(***************************************************************************)
TerminateNone(b) == b

\* if (mMessage.empty()) format_error(...);
Check(t) ==
    /\ pc[t] = "check"
    /\ pc' = [pc EXCEPT ![t] = IF message = 0 THEN "format" ELSE "ret"]
    /\ UNCHANGED <<desc, message, buffer, alloc, room, held>>

\* buffer[sizeof buffer - 1] = '\0';
Terminate(b) == IF b.len = BufSize THEN [len |-> BufSize - 1, term |-> TRUE] ELSE b

\* format_error: gpgme_strerror_r into the local buffer, then its last byte
\* set to NUL.
FormatError(t) ==
    /\ pc[t] = "format"
    /\ \E b \in StrErrorR(desc) : buffer' = [buffer EXCEPT ![t] = Terminate(b)]
    /\ pc' = [pc EXCEPT ![t] = "assign"]
    /\ UNCHANGED <<desc, message, alloc, room, held>>

\* str = buffer: std::string::assign of strlen(buffer) characters.  It first
\* compares the length with the capacity: an empty mMessage has its small-
\* string buffer, a filled one at least the text it holds, which has the
\* same length.
AssignBegin(t) ==
    /\ pc[t] = "assign"
    /\ room' = [room EXCEPT ![t] = message # 0 \/ buffer[t].len <= SsoCapacity]
    /\ pc' = [pc EXCEPT ![t] = "copy"]
    /\ UNCHANGED <<desc, message, buffer, alloc, held>>

\* The copy: in place when there was room; otherwise into a new allocation
\* that becomes mMessage's storage, the storage current now being freed.
AssignEnd(t) ==
    /\ pc[t] = "copy"
    /\ message' = buffer[t].len
    /\ alloc' = IF room[t] THEN alloc ELSE alloc + 1
    /\ pc' = [pc EXCEPT ![t] = "ret"]
    /\ UNCHANGED <<desc, buffer, room, held>>

\* return mMessage.c_str();
Return(t) ==
    /\ pc[t] = "ret"
    /\ held' = [held EXCEPT ![t] = alloc]
    /\ pc' = [pc EXCEPT ![t] = "idle"]
    /\ UNCHANGED <<desc, message, buffer, alloc, room>>

Next ==
    \E t \in Thread :
        \/ Call(t) \/ Release(t)
        \/ Check(t) \/ FormatError(t) \/ AssignBegin(t) \/ AssignEnd(t)
        \/ Return(t)

Spec == Init /\ [][Next]_vars

-----------------------------------------------------------------------------
(* Properties *)

\* The length of the description cut to the buffer, NUL included.
Truncated == IF desc < BufSize THEN desc ELSE BufSize - 1

\* Section 6 of the spec: the rendered message is the description truncated
\* to the 1024-byte buffer, never read past it: str = buffer copies from a
\* NUL-terminated buffer, and every pointer asString() returned and a caller
\* still holds is the current storage of mMessage, holding that text.
MessageTruncated ==
    /\ \A t \in Thread : pc[t] \in {"assign", "copy"} =>
                            buffer[t] = [len |-> Truncated, term |-> TRUE]
    /\ \A t \in Thread : held[t] # None => held[t] = alloc /\ message = Truncated

\* A thread is inside asString().
InCall(t) == pc[t] \in {"check", "format", "assign", "copy", "ret"}

\* No two threads are inside asString() on the shared Error at once: the
\* callers serialize their calls, by a lock or by handing the Error over.
CallsSerialized == \A t, u \in Thread : t # u => ~(InCall(t) /\ InCall(u))

\* As long as the calls on a shared Error do not overlap, MessageTruncated
\* holds: a second thread's call finds the cache filled and returns the same
\* storage, so no str = buffer frees the storage a caller still holds.
\* (Overlapping first calls break it: both assignments begin on the empty
\* string, and the second frees the storage the first one returned.)
MessageTruncatedWhenSerialized == []CallsSerialized => []MessageTruncated

\* Section 5 of the spec: the only shared mutable state is the errno slot,
\* so a const call on a shared Error never writes while another thread reads
\* it: no thread is inside str = buffer while another thread tests mMessage,
\* copies into it, reads its c_str() or holds that pointer.
NoDataRace ==
    \A t, u \in Thread :
        t # u /\ pc[t] \in {"assign", "copy"} =>
            pc[u] \notin {"check", "assign", "copy", "ret"} /\ held[u] = None

=============================================================================
