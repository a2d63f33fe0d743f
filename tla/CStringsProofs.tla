---------------------------- MODULE CStringsProofs ----------------------------
(***************************************************************************)
(* Proof that StringsToCStrings::c_strs() of src/src/util.cpp, called by   *)
(* one thread, only ever hands out a pointer to the current storage of a  *)
(* nullptr-terminated copy of m_strings: for every vector and every MaxN.  *)
(* With two threads the property fails (the hazard listed for c_strs()):   *)
(* the proof needs that no other thread pushes into m_cstrings while a     *)
(* pointer is held, which one thread gives.                                *)
(***************************************************************************)
EXTENDS CStrings, TLAPS

\* The array c_strs() builds: the c_str() pointers of m_strings, then nullptr.
Full == Append(strings, NullPtr)

\* The types of the state.
TypeOK ==
    /\ strings \in Seq(Str)
    /\ cstrings \in Seq(Str \cup {NullPtr})
    /\ capacity \in Nat /\ alloc \in Nat
    /\ pc \in [Thread -> {"idle", "check", "reserve", "fill", "term", "ret"}]
    /\ i \in [Thread -> Nat \ {0}]
    /\ held \in [Thread -> Nat \cup {None}]

\* Where a thread is in c_strs() fixes how much of the array is built, and a
\* pointer is held only while the array is complete and was not moved.
ThreadInv(t) ==
    /\ pc[t] \in {"idle", "check"} => cstrings \in {<<>>, Full}
    /\ pc[t] = "reserve" => cstrings = <<>>
    /\ pc[t] = "fill" => /\ i[t] \in 1 .. Len(strings) + 1
                         /\ cstrings = SubSeq(strings, 1, i[t] - 1)
    /\ pc[t] = "term" => cstrings = strings
    /\ pc[t] = "ret" => cstrings = Full
    /\ held[t] # None => /\ held[t] = alloc /\ cstrings = Full
                         /\ pc[t] \in {"idle", "check", "ret"}
IInv == TypeOK /\ \A t \in Thread : ThreadInv(t)

-----------------------------------------------------------------------------
(* Lemmas *)

\* Init's vector is a finite sequence of strings.
LEMMA SeqOfIsSeq ==
    ASSUME NEW S, NEW n \in Nat, NEW v \in SeqOf(S, n)
    PROVE  v \in Seq(S)
  BY DEF SeqOf

\* A complete array is terminated, and a C caller reading it up to the first
\* nullptr reads exactly m_strings: no string is a nullptr.
LEMMA FullReadsStrings ==
    ASSUME strings \in Seq(Str), cstrings = Full
    PROVE  Terminated /\ ReadUpToNull = strings
  <1> DEFINE n == Len(strings)
  <1>1. n \in Nat /\ Len(cstrings) = n + 1 /\ cstrings[n + 1] = NullPtr
    BY DEF Full
  <1>2. \A k \in 1 .. n : cstrings[k] = strings[k] /\ cstrings[k] # NullPtr
    BY CStringsAssumption DEF Full
  <1>3. {k \in DOMAIN cstrings : cstrings[k] = NullPtr} = {n + 1}
    BY <1>1, <1>2
  <1>4. Min({n + 1}) = n + 1
    BY DEF Min
  <1>5. SubSeq(cstrings, 1, n) = strings
    BY <1>1, <1>2
  <1>6. Terminated
    <2>1. n + 1 \in DOMAIN cstrings
      BY <1>1
    <2> QED
      BY <1>1, <2>1 DEF Terminated
  <1>7. ReadUpToNull = SubSeq(cstrings, 1, n)
    <2>0. Min({k \in DOMAIN cstrings : cstrings[k] = NullPtr}) = n + 1
      BY <1>3, <1>4, Zenon
    <2>1. Min({k \in DOMAIN cstrings : cstrings[k] = NullPtr}) - 1 = n
      BY <2>0, <1>1
    <2> QED
      BY <2>1 DEF ReadUpToNull
  <1> QED
    BY <1>5, <1>6, <1>7

\* One more element of m_strings appended by std::transform's push_back.
LEMMA FillStep ==
    ASSUME strings \in Seq(Str), NEW k \in 1 .. Len(strings)
    PROVE  Append(SubSeq(strings, 1, k - 1), strings[k]) = SubSeq(strings, 1, k)
  OBVIOUS

\* The only way PushBack moves the array: it appends its element.
LEMMA PushBackAppends ==
    ASSUME NEW x, capacity \in Nat, alloc \in Nat, PushBack(x)
    PROVE  cstrings' = Append(cstrings, x) /\ capacity' \in Nat /\ alloc' \in Nat
  BY DEF PushBack

-----------------------------------------------------------------------------
(* The inductive invariant, for one thread *)

LEMMA InitIInv == Init => IInv
  <1> SUFFICES ASSUME Init PROVE IInv
    OBVIOUS
  <1>1. strings \in Seq(Str)
    BY SeqOfIsSeq, CStringsAssumption DEF Init
  <1> QED
    BY <1>1 DEF Init, IInv, TypeOK, ThreadInv

\* Every step of any thread keeps the types.
LEMMA TypeStep ==
    ASSUME TypeOK, [Next]_vars
    PROVE  TypeOK'
  <1>0. strings \in Seq(Str) /\ capacity \in Nat /\ alloc \in Nat
    BY DEF TypeOK
  <1>1. ASSUME NEW t \in Thread,
               \/ Call(t) \/ Release(t) \/ Check(t) \/ Reserve(t) \/ Return(t)
        PROVE  TypeOK'
    <2>1. CASE Call(t)
      BY <2>1 DEF Call, TypeOK
    <2>2. CASE Release(t)
      BY <2>2 DEF Release, TypeOK
    <2>3. CASE Check(t)
      BY <2>3 DEF Check, TypeOK
    <2>4. CASE Reserve(t)
      BY <1>0, <2>4 DEF Reserve, TypeOK
    <2>5. CASE Return(t)
      BY <1>0, <2>5 DEF Return, TypeOK
    <2> QED
      BY <1>1, <2>1, <2>2, <2>3, <2>4, <2>5
  <1>2. ASSUME NEW t \in Thread, Fill(t) PROVE TypeOK'
    <2>1. CASE i[t] <= Len(strings)
      <3>1. cstrings' = Append(cstrings, strings[i[t]]) /\ capacity' \in Nat /\ alloc' \in Nat
        BY <1>0, <1>2, <2>1, PushBackAppends DEF Fill
      <3>2. strings[i[t]] \in Str
        <4>1. i[t] \in 1 .. Len(strings)
          BY <1>2, <2>1 DEF Fill, TypeOK
        <4> QED
          BY <1>0, <4>1
      <3>3. i' = [i EXCEPT ![t] = @ + 1] /\ UNCHANGED <<pc, strings, held>>
        BY <1>2, <2>1 DEF Fill
      <3> QED
        BY <1>0, <3>1, <3>2, <3>3 DEF TypeOK
    <2>2. CASE ~(i[t] <= Len(strings))
      BY <1>2, <2>2 DEF Fill, TypeOK
    <2> QED
      BY <2>1, <2>2
  <1>3. ASSUME NEW t \in Thread, Terminate(t) PROVE TypeOK'
    <2>1. cstrings' = Append(cstrings, NullPtr) /\ capacity' \in Nat /\ alloc' \in Nat
      BY <1>0, <1>3, PushBackAppends DEF Terminate
    <2> QED
      BY <1>3, <2>1 DEF Terminate, TypeOK
  <1>4. CASE UNCHANGED vars
    BY <1>4 DEF vars, TypeOK
  <1> QED
    BY <1>1, <1>2, <1>3, <1>4 DEF Next

\* Each step of the one thread t0 keeps its ThreadInv: one case per
\* statement of c_strs(), and a stutter.
LEMMA ThreadStep ==
    ASSUME NEW t0, Thread = {t0}, TypeOK, ThreadInv(t0), [Next]_vars
    PROVE  ThreadInv(t0)'
  <1>0. strings \in Seq(Str) /\ capacity \in Nat /\ alloc \in Nat
        /\ pc \in [Thread -> {"idle", "check", "reserve", "fill", "term", "ret"}]
    BY DEF TypeOK
  <1>9. Full' = Full
    <2>1. CASE strings' = strings
      BY <2>1 DEF Full
    <2> QED
      BY <2>1 DEF Next, vars, Call, Release, Check, Reserve, Fill, Terminate, Return
  <1>1. ASSUME Call(t0) PROVE ThreadInv(t0)'
    BY <1>0, <1>1, <1>9 DEF Call, ThreadInv
  <1>2. ASSUME Release(t0) PROVE ThreadInv(t0)'
    BY <1>0, <1>2, <1>9 DEF Release, ThreadInv
  <1>3. ASSUME Check(t0) PROVE ThreadInv(t0)'
    <2>1. Len(Full) = Len(strings) + 1
      BY <1>0 DEF Full
    <2>2. pc[t0] = "check" /\ cstrings \in {<<>>, Full}
      BY <1>3 DEF Check, ThreadInv
    <2>3. CASE cstrings = <<>>
      <3>1. held[t0] = None
        BY <1>0, <2>1, <2>3 DEF ThreadInv
      <3> QED
        BY <1>0, <1>3, <1>9, <2>3, <3>1 DEF Check, ThreadInv
    <2>4. CASE cstrings # <<>>
      BY <1>0, <1>3, <1>9, <2>2, <2>4 DEF Check, ThreadInv
    <2> QED
      BY <2>3, <2>4
  <1>4. ASSUME Reserve(t0) PROVE ThreadInv(t0)'
    <2>1. SubSeq(strings, 1, 0) = <<>>
      BY <1>0
    <2>2. pc[t0] = "reserve" /\ cstrings = <<>> /\ held[t0] = None
      BY <1>0, <1>4 DEF Reserve, ThreadInv
    <2>3. pc'[t0] = "fill" /\ i'[t0] = 1 /\ UNCHANGED <<strings, cstrings, held>>
      BY <1>0, <1>4 DEF Reserve, TypeOK
    <2> QED
      BY <1>0, <2>1, <2>2, <2>3 DEF ThreadInv
  <1>5. ASSUME Fill(t0) PROVE ThreadInv(t0)'
    <2>1. /\ pc[t0] = "fill" /\ i[t0] \in 1 .. Len(strings) + 1
          /\ cstrings = SubSeq(strings, 1, i[t0] - 1) /\ held[t0] = None
      BY <1>0, <1>5 DEF Fill, ThreadInv
    <2>2. CASE i[t0] <= Len(strings)
      <3>1. PushBack(strings[i[t0]]) /\ i' = [i EXCEPT ![t0] = @ + 1]
            /\ UNCHANGED <<pc, strings, held>>
        BY <1>5, <2>2 DEF Fill
      <3>2. cstrings' = Append(cstrings, strings[i[t0]])
        BY <1>0, <3>1, PushBackAppends
      <3>3. cstrings' = SubSeq(strings, 1, i[t0])
        BY <1>0, <2>1, <2>2, <3>2, FillStep
      <3>4. i'[t0] = i[t0] + 1
        BY <3>1 DEF TypeOK
      <3> QED
        BY <2>1, <2>2, <3>1, <3>3, <3>4 DEF ThreadInv
    <2>3. CASE ~(i[t0] <= Len(strings))
      <3>1. SubSeq(strings, 1, Len(strings)) = strings
        BY <1>0
      <3>2. i[t0] = Len(strings) + 1
        BY <2>1, <2>3, <1>0
      <3> QED
        BY <1>0, <1>5, <2>1, <2>3, <3>1, <3>2 DEF Fill, ThreadInv
    <2> QED
      BY <2>2, <2>3
  <1>6. ASSUME Terminate(t0) PROVE ThreadInv(t0)'
    <2>1. pc[t0] = "term" /\ cstrings = strings /\ held[t0] = None
      BY <1>0, <1>6 DEF Terminate, ThreadInv
    <2>2. cstrings' = Full
      BY <1>0, <1>6, <2>1, PushBackAppends DEF Terminate, Full
    <2> QED
      BY <1>0, <1>6, <1>9, <2>1, <2>2 DEF Terminate, ThreadInv
  <1>7. ASSUME Return(t0) PROVE ThreadInv(t0)'
    BY <1>0, <1>7, <1>9 DEF Return, ThreadInv
  <1>8. CASE UNCHANGED vars
    BY <1>8, <1>9 DEF vars, ThreadInv
  <1> QED
    BY <1>1, <1>2, <1>3, <1>4, <1>5, <1>6, <1>7, <1>8 DEF Next

LEMMA NextIInv ==
    ASSUME NEW t0, Thread = {t0}, IInv, [Next]_vars
    PROVE  IInv'
  BY TypeStep, ThreadStep DEF IInv

\* With one thread calling c_strs(), every pointer it returned and a caller
\* still holds points into m_cstrings' current storage, a nullptr-terminated
\* array of exactly the c_str() pointers of m_strings.
THEOREM ReturnedArrayValidTheorem ==
    ASSUME NEW t0, Thread = {t0}
    PROVE  Spec => []ReturnedArrayValid
  <1>1. IInv => ReturnedArrayValid
    <2> SUFFICES ASSUME IInv, NEW t \in Thread, held[t] # None
                 PROVE  held[t] = alloc /\ Terminated /\ ReadUpToNull = strings
      BY DEF ReturnedArrayValid
    <2>1. held[t] = alloc /\ cstrings = Full /\ strings \in Seq(Str)
      BY DEF IInv, TypeOK, ThreadInv
    <2> QED
      BY <2>1, FullReadsStrings
  <1> QED
    BY <1>1, InitIInv, NextIInv, PTL DEF Spec

-----------------------------------------------------------------------------
(* Refinement of the atomic c_strs() *)

\* The states where the one thread is building the array.
Building == {"reserve", "fill", "term"}

\* The refinement mapping with one thread.
LEMMA ViewsOfOne ==
    ASSUME NEW t0, Thread = {t0}
    PROVE  /\ ArrayView = IF pc[t0] \in Building THEN <<>> ELSE cstrings
           /\ ArrayView' = IF pc'[t0] \in Building THEN <<>> ELSE cstrings'
           /\ HoldingView = [t \in Thread |-> held[t] # None]
           /\ HoldingView' = [t \in Thread |-> held'[t] # None]
  BY DEF ArrayView, HoldingView, Building

\* Each step of the one thread is a step of CStringsAtomic or leaves the
\* mapped state alone: pushing the nullptr builds the array, returning
\* hands it out, releasing drops it, and the other statements stutter.
LEMMA StepRefines ==
    ASSUME NEW t0, Thread = {t0}, IInv, [Next]_vars
    PROVE  [Atomic!Next]_Atomic!avars
  <1> DEFINE Stutter == UNCHANGED Atomic!avars
  <1>0. /\ TypeOK /\ ThreadInv(t0)
        /\ pc \in [Thread -> {"idle", "check", "reserve", "fill", "term", "ret"}]
        /\ held \in [Thread -> Nat \cup {None}] /\ alloc \in Nat /\ capacity \in Nat
    BY DEF IInv, TypeOK
  <1>v. /\ ArrayView = IF pc[t0] \in Building THEN <<>> ELSE cstrings
        /\ ArrayView' = IF pc'[t0] \in Building THEN <<>> ELSE cstrings'
        /\ HoldingView = [t \in Thread |-> held[t] # None]
        /\ HoldingView' = [t \in Thread |-> held'[t] # None]
    BY ViewsOfOne
  <1>1. ASSUME Call(t0) PROVE Stutter
    BY <1>0, <1>1, <1>v DEF Call, Building, Atomic!avars
  <1>2. ASSUME Release(t0) PROVE Atomic!Drop(t0)
    <2>1. held[t0] # None /\ held' = [held EXCEPT ![t0] = None]
      BY <1>2 DEF Release
    <2>2. HoldingView' = [HoldingView EXCEPT ![t0] = FALSE]
      BY <1>0, <1>v, <2>1
    <2> QED
      BY <1>0, <1>2, <1>v, <2>1, <2>2 DEF Release, Building, Atomic!Drop
  <1>3. ASSUME Check(t0) PROVE Stutter
    <2>1. CASE cstrings = <<>>
      BY <1>0, <1>3, <1>v, <2>1 DEF Check, Building, Atomic!avars
    <2>2. CASE cstrings # <<>>
      BY <1>0, <1>3, <1>v, <2>2 DEF Check, Building, Atomic!avars
    <2> QED
      BY <2>1, <2>2
  <1>4. ASSUME Reserve(t0) PROVE Stutter
    BY <1>0, <1>4, <1>v DEF Reserve, Building, Atomic!avars
  <1>5. ASSUME Fill(t0) PROVE Stutter
    <2>1. pc'[t0] \in Building /\ pc[t0] \in Building
          /\ UNCHANGED <<strings, held>>
      BY <1>0, <1>5 DEF Fill, Building
    <2> QED
      BY <1>v, <2>1 DEF Atomic!avars
  <1>6. ASSUME Terminate(t0) PROVE Atomic!Build
    <2>1. pc[t0] = "term" /\ cstrings = strings
      BY <1>0, <1>6 DEF Terminate, ThreadInv
    <2>2. cstrings' = Append(strings, NullPtr)
      BY <1>0, <1>6, <2>1, PushBackAppends DEF Terminate
    <2>3. pc'[t0] = "ret" /\ UNCHANGED <<strings, held>>
      BY <1>0, <1>6 DEF Terminate
    <2> QED
      BY <1>v, <2>1, <2>2, <2>3 DEF Building, Atomic!Build
  <1>7. ASSUME Return(t0) PROVE Atomic!Get(t0)
    <2>1. pc[t0] = "ret" /\ cstrings = Full
      BY <1>0, <1>7 DEF Return, ThreadInv
    <2>2. Full # <<>>
      BY <1>0 DEF Full, TypeOK
    <2>3. held' = [held EXCEPT ![t0] = alloc] /\ alloc # None
      BY <1>0, <1>7, CStringsAssumption DEF Return
    <2>4. HoldingView' = [HoldingView EXCEPT ![t0] = TRUE]
      BY <1>0, <1>v, <2>3
    <2>5. pc'[t0] = "idle" /\ UNCHANGED <<strings, cstrings>>
      BY <1>0, <1>7 DEF Return
    <2> QED
      BY <1>v, <2>1, <2>2, <2>4, <2>5 DEF Building, Atomic!Get
  <1>8. CASE UNCHANGED vars
    BY <1>8, <1>v DEF vars, Atomic!avars
  <1> QED
    BY <1>1, <1>2, <1>3, <1>4, <1>5, <1>6, <1>7, <1>8
       DEF Next, Atomic!Next, Atomic!avars

\* With one thread calling c_strs(), the multi-step c_strs() of util.cpp
\* implements the atomic one of CStringsAtomic.
THEOREM AtomicRefinementTheorem ==
    ASSUME NEW t0, Thread = {t0}
    PROVE  Spec => AtomicRefinement
  <1>1. Init => Atomic!Init
    <2> SUFFICES ASSUME Init PROVE Atomic!Init
      OBVIOUS
    <2>1. pc[t0] = "idle" /\ held[t0] = None /\ cstrings = <<>>
      BY DEF Init
    <2>2. ArrayView = <<>>
      BY <2>1, ViewsOfOne DEF Building
    <2>3. HoldingView = [t \in Thread |-> FALSE]
      BY <2>1, ViewsOfOne
    <2>4. strings \in SeqOf(Str, MaxN)
      BY DEF Init
    <2> QED
      BY <2>2, <2>3, <2>4 DEF Atomic!Init, SeqOf, Atomic!SeqOf
  <1> QED
    BY <1>1, StepRefines, InitIInv, NextIInv, PTL
       DEF Spec, AtomicRefinement, Atomic!Spec

=============================================================================
