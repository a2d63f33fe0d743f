------------------------- MODULE ErrorMessageProofs -------------------------
(***************************************************************************)
(* Proof that asString() renders the truncated description and keeps every *)
(* returned pointer valid, for every set of threads whose calls on the     *)
(* shared Error do not overlap, every buffer size of at least two bytes,   *)
(* every small-string capacity and every description length.             *)
(***************************************************************************)
EXTENDS ErrorMessage, TLAPS

\* The variables' types.
TypeOK ==
    /\ desc \in DescLen
    /\ message \in Nat
    /\ buffer \in [Thread -> Buffer]
    /\ alloc \in Nat
    /\ room \in [Thread -> BOOLEAN]
    /\ pc \in [Thread -> {"idle", "check", "format", "assign", "copy", "ret"}]
    /\ held \in [Thread -> Nat \cup {None}]

\* MessageTruncated strengthened: the cache, once filled, holds the
\* truncated text, a thread about to return finds it filled, and a thread
\* whose assignment found no room finds the cache still empty.  The last
\* conjunct is what makes AssignEnd safe: it allocates fresh storage only
\* while the cache is empty, when no caller holds a pointer.  It holds
\* because no other thread's call runs between AssignBegin and AssignEnd.
IInv ==
    /\ TypeOK
    /\ MessageTruncated
    /\ message # 0 => message = Truncated
    /\ \A t \in Thread : pc[t] = "ret" => message = Truncated
    /\ \A t \in Thread : pc[t] = "copy" /\ ~room[t] => message = 0

\* The truncated text is never empty: the buffer has room for a character.
LEMMA TruncatedPositive ==
    ASSUME desc \in DescLen
    PROVE  Truncated \in Nat \ {0} /\ Truncated < BufSize
BY ErrorMessageAssumption DEF Truncated

\* format_error leaves the buffer holding the truncated text, terminated.
LEMMA FormatErrorResult ==
    ASSUME desc \in DescLen, NEW b \in StrErrorR(desc)
    PROVE  Terminate(b) = [len |-> Truncated, term |-> TRUE]
<1>1. desc \in Nat /\ BufSize \in Nat
  BY ErrorMessageAssumption
<1>2. CASE desc < BufSize
  <2>1. b = [len |-> desc, term |-> TRUE]
    BY <1>2 DEF StrErrorR
  <2>2. QED
    BY <1>1, <1>2, <2>1 DEF Terminate, Truncated
<1>3. CASE ~(desc < BufSize)
  <2>1. b = [len |-> BufSize - 1, term |-> TRUE] \/ b = [len |-> BufSize, term |-> FALSE]
    BY <1>3 DEF StrErrorR
  <2>2. Truncated = BufSize - 1
    BY <1>3 DEF Truncated
  <2>3. CASE b = [len |-> BufSize - 1, term |-> TRUE]
    BY <1>1, <2>2, <2>3 DEF Terminate
  <2>4. CASE b = [len |-> BufSize, term |-> FALSE]
    BY <2>2, <2>4 DEF Terminate
  <2>5. QED
    BY <2>1, <2>3, <2>4
<1>4. QED
  BY <1>2, <1>3

LEMMA InitIInv == Init => IInv
<1> SUFFICES ASSUME Init PROVE IInv
  OBVIOUS
<1>1. room \in [Thread -> BOOLEAN]
  BY Zenon DEF Init
<1> QED
  BY <1>1, ErrorMessageAssumption, TruncatedPositive
  DEF Init, IInv, TypeOK, Buffer, MessageTruncated

\* Every step between two states without overlapping calls keeps IInv.
LEMMA NextIInv == IInv /\ [Next]_vars /\ CallsSerialized' => IInv'
<1> SUFFICES ASSUME IInv, [Next]_vars, CallsSerialized' PROVE IInv'
  OBVIOUS
<1> USE DEF IInv
<1>0. Truncated \in Nat \ {0} /\ Truncated < BufSize
  BY TruncatedPositive DEF TypeOK
<1>9. desc' = desc => Truncated' = Truncated
  BY DEF Truncated
\* Steps that leave room alone keep its type.
<1>10. room' = room => room' \in [Thread -> BOOLEAN]
  BY Zenon DEF TypeOK
<1>1. ASSUME NEW t \in Thread, Call(t) PROVE IInv'
  <2>1. \A u \in Thread : u # t => pc[u] \notin {"check", "format", "assign", "copy", "ret"}
    BY <1>1 DEF Call, CallsSerialized, InCall, TypeOK
  <2> QED
    BY <1>0, <1>9, <1>10, <1>1, <2>1 DEF Call, TypeOK, MessageTruncated
<1>2. ASSUME NEW t \in Thread, Release(t) PROVE IInv'
  BY <1>0, <1>9, <1>10, <1>2 DEF Release, TypeOK, MessageTruncated
<1>3. ASSUME NEW t \in Thread, Check(t) PROVE IInv'
  BY <1>0, <1>9, <1>10, <1>3 DEF Check, TypeOK, MessageTruncated
<1>4. ASSUME NEW t \in Thread, FormatError(t) PROVE IInv'
  <2>1. PICK b \in StrErrorR(desc) : buffer' = [buffer EXCEPT ![t] = Terminate(b)]
    BY <1>4 DEF FormatError
  <2>2. Terminate(b) = [len |-> Truncated, term |-> TRUE]
    BY FormatErrorResult DEF TypeOK
  <2>3. Terminate(b) \in Buffer
    BY <1>0, <2>2, ErrorMessageAssumption DEF Buffer
  <2>4. QED
    BY <1>0, <1>9, <1>10, <1>4, <2>1, <2>2, <2>3 DEF FormatError, TypeOK, MessageTruncated
<1>5. ASSUME NEW t \in Thread, AssignBegin(t) PROVE IInv'
  <2>1. room' = [room EXCEPT ![t] = message # 0 \/ buffer[t].len <= SsoCapacity]
        /\ pc' = [pc EXCEPT ![t] = "copy"]
        /\ UNCHANGED <<desc, message, buffer, alloc, held>>
    BY <1>5 DEF AssignBegin
  <2>2. room' \in [Thread -> BOOLEAN]
    BY <2>1, Zenon DEF TypeOK
  <2>3. ~room'[t] => message = 0
    BY <2>1, Zenon DEF TypeOK
  <2>4. \A u \in Thread : u # t => room'[u] = room[u] /\ pc'[u] = pc[u]
    BY <2>1 DEF TypeOK
  <2>5. pc[t] = "assign" /\ pc'[t] = "copy"
    BY <1>5, <2>1 DEF AssignBegin, TypeOK
  <2>6. TypeOK'
    BY <2>1, <2>2 DEF TypeOK
  <2>7. MessageTruncated'
    BY <1>9, <2>1, <2>4, <2>5 DEF TypeOK, MessageTruncated
  <2>8. \A u \in Thread : pc'[u] = "ret" => message' = Truncated'
    BY <1>9, <2>1, <2>4, <2>5
  <2>9. \A u \in Thread : pc'[u] = "copy" /\ ~room'[u] => message' = 0
    BY <2>1, <2>3, <2>4
  <2> QED
    BY <1>9, <2>1, <2>6, <2>7, <2>8, <2>9
<1>6. ASSUME NEW t \in Thread, AssignEnd(t) PROVE IInv'
  <2>1. buffer[t] = [len |-> Truncated, term |-> TRUE]
    BY <1>6 DEF AssignEnd, MessageTruncated
  <2>2. message' = Truncated
    BY <1>6, <2>1 DEF AssignEnd
  \* Fresh storage only while the cache is empty, when nobody holds a pointer.
  <2>3. \A u \in Thread : held[u] # None => alloc' = alloc
    <3>1. CASE room[t]
      BY <1>6, <3>1 DEF AssignEnd
    <3>2. CASE ~room[t]
      <4>1. message = 0
        BY <1>6, <3>2 DEF AssignEnd
      <4> QED
        BY <1>0, <4>1 DEF MessageTruncated
    <3> QED
      BY <3>1, <3>2
  <2>4. \A u \in Thread : u # t => pc[u] # "copy"
    BY <1>6 DEF AssignEnd, CallsSerialized, InCall, TypeOK
  <2> QED
    BY <1>0, <1>9, <1>10, <1>6, <2>2, <2>3, <2>4 DEF AssignEnd, TypeOK, MessageTruncated
<1>7. ASSUME NEW t \in Thread, Return(t) PROVE IInv'
  BY <1>0, <1>9, <1>10, <1>7 DEF Return, TypeOK, MessageTruncated
<1>8. CASE UNCHANGED vars
  BY <1>0, <1>9, <1>10, <1>8 DEF vars, TypeOK, MessageTruncated
<1>11. QED
  BY <1>1, <1>2, <1>3, <1>4, <1>5, <1>6, <1>7, <1>8 DEF Next

\* MessageTruncatedWhenSerialized for every set of threads, buffer size,
\* small-string capacity and description: as long as no two calls of
\* asString() on the shared Error overlap, the buffer copied into mMessage
\* is NUL-terminated and holds the description cut to the buffer, and each
\* pointer a caller holds is mMessage's current storage with that text.
THEOREM MessageTruncatedTheorem == Spec => MessageTruncatedWhenSerialized
<1>1. IInv => MessageTruncated
  BY DEF IInv
<1>2. Init => CallsSerialized
  BY DEF Init, CallsSerialized, InCall
<1>3. Spec /\ []CallsSerialized => []IInv
  BY InitIInv, NextIInv, PTL DEF Spec
<1>4. QED
  BY <1>1, <1>3, PTL DEF MessageTruncatedWhenSerialized

=============================================================================
