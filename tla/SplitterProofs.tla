--------------------------- MODULE SplitterProofs ---------------------------
(***************************************************************************)
(* Proof that split_into_string_views never reads outside its argument    *)
(* when the delimiter is not NUL, for every alphabet, every delimiter set  *)
(* and every string length.                                                *)
(***************************************************************************)
EXTENDS Splitter, WellFoundedInduction, TLAPS

\* A non-empty set of naturals has a least element, which Min picks.
LEMMA MinOfNat ==
    ASSUME NEW T \in SUBSET Nat, T # {}
    PROVE  Min(T) \in T /\ \A y \in T : Min(T) <= y
<1>1. \E x \in T : \A y \in T : ~(<<y, x>> \in OpToRel(<, Nat))
  BY NatLessThanWellFounded, WFMin
<1>2. ASSUME NEW x \in T, NEW y \in T, ~(<<y, x>> \in OpToRel(<, Nat))
      PROVE  x <= y
  <2>1. <<y, x>> \in Nat \X Nat
    OBVIOUS
  <2>2. ~(y < x)
    BY <1>2, <2>1 DEF OpToRel
  <2>3. QED
    BY <2>2
<1>3. \E x \in T : \A y \in T : x <= y
  BY <1>1, <1>2
<1>4. QED
  BY <1>3 DEF Min

\* A string callers pass is a finite sequence of characters.
LEMMA TextIsSeq ==
    ASSUME NEW t \in Text, t # Null
    PROVE  t \in Seq(Char)
BY DEF Text, SeqOf

\* The buffer of a string ends with its NUL.
LEMMA BufEndsInNul ==
    ASSUME text \in Text, text # Null
    PROVE  /\ Buf \in Seq(Char \cup {Nul})
           /\ Len(Buf) = Len(text) + 1
           /\ Buf[Len(Buf)] = Nul
<1>1. text \in Seq(Char)
  BY TextIsSeq
<1>2. QED
  BY <1>1 DEF Buf

\* strchr for a character other than NUL finds it before the NUL, or not at
\* all.
LEMMA StrChrBeforeNul ==
    ASSUME text \in Text, text # Null, NEW c, c # Nul, NEW p \in Nat \ {0}
    PROVE  StrChr(p, c) = 0 \/ StrChr(p, c) \in p .. Len(Buf) - 1
<1> DEFINE K == {k \in p .. Len(Buf) : Buf[k] = c}
<1>1. CASE K = {}
  BY <1>1 DEF StrChr
<1>2. CASE K # {}
  <2>0. K \in SUBSET Nat
    OBVIOUS
  <2>1. Min(K) \in K
    BY <1>2, <2>0, MinOfNat
  <2>2. Buf[Len(Buf)] = Nul /\ Len(Buf) \in Nat
    BY BufEndsInNul
  <2>3. Min(K) \in p .. Len(Buf) - 1
    BY <2>1, <2>2
  <2>4. QED
    BY <1>2, <2>3 DEF StrChr
<1>3. QED
  BY <1>1, <1>2

\* NoInvalidRead with the facts it rests on: the state's types, the pointer
\* at the start of a non-null argument before the loop.
IInv ==
    /\ text \in Text /\ delim \in Delim /\ s \in Nat \ {0}
    /\ pc \in {"start", "loop", "tail", "done"}
    /\ pc = "start" => s = 1
    /\ pc \in {"loop", "tail"} => text # Null /\ s <= Len(Buf)

LEMMA InitIInv == Init => IInv
BY DEF Init, IInv

LEMMA NextIInv ==
    ASSUME Nul \notin Delim
    PROVE  IInv /\ [Next]_vars => IInv'
<1> SUFFICES ASSUME IInv, [Next]_vars PROVE IInv'
  OBVIOUS
<1>1. CASE Start
  <2>1. CASE text # Null
    <3>1. Len(Buf) >= 1
      BY <2>1, BufEndsInNul DEF IInv
    <3>2. QED
      BY <1>1, <2>1, <3>1 DEF Start, IInv, Buf
  <2>2. CASE text = Null
    BY <1>1, <2>2 DEF Start, IInv
  <2>3. QED
    BY <2>1, <2>2
<1>2. CASE Loop
  <2> DEFINE e == StrChr(s, delim)
  <2>1. delim # Nul /\ text # Null
    BY <1>2 DEF IInv, Loop
  <2>2. e = 0 \/ e \in s .. Len(Buf) - 1
    BY <2>1, StrChrBeforeNul DEF IInv
  <2>3. Len(Buf) \in Nat
    BY <2>1, BufEndsInNul DEF IInv
  <2>4. Buf' = Buf
    BY <1>2 DEF Loop, Buf
  <2>5. CASE e # 0
    <3>1. s' = e + 1 /\ pc' = pc
      BY <1>2, <2>5 DEF Loop, Advance
    <3>2. QED
      BY <1>2, <2>2, <2>3, <2>4, <2>5, <3>1 DEF Loop, IInv
  <2>6. CASE e = 0
    BY <1>2, <2>4, <2>6 DEF Loop, IInv
  <2>7. QED
    BY <2>5, <2>6
<1>3. CASE LastSegment
  BY <1>3 DEF LastSegment, IInv
<1>4. CASE UNCHANGED vars
  BY <1>4 DEF vars, IInv, Buf
<1>5. QED
  BY <1>1, <1>2, <1>3, <1>4 DEF Next

\* When no caller passes NUL as the delimiter, the scan stays inside the
\* buffer in every state of every call: strchr never starts past the
\* terminating NUL, and the null pointer is never dereferenced.
THEOREM NoInvalidReadTheorem ==
    ASSUME Nul \notin Delim
    PROVE  Spec => []NoInvalidRead
<1>1. IInv => NoInvalidRead
  BY DEF IInv, NoInvalidRead
<1>2. QED
  BY InitIInv, NextIInv, <1>1, PTL DEF Spec

-----------------------------------------------------------------------------
(* The views, for every delimiter *)

\* The bytes of a non-null buffer: the string's characters, none of them a
\* NUL, then the NUL.
LEMMA BufChars ==
    ASSUME text \in Text, text # Null
    PROVE  /\ \A k \in 1 .. Len(text) : Buf[k] = text[k] /\ Buf[k] # Nul
           /\ Len(text) \in Nat
  <1>1. text \in Seq(Char)
    BY TextIsSeq
  <1> QED
    BY <1>1, SplitterAssumption DEF Buf

\* What strchr(p, c) returns when it finds c: a position from p on that
\* holds c, with no c between p and it.
LEMMA StrChrFound ==
    ASSUME NEW c, NEW p \in Nat \ {0}, StrChr(p, c) # 0
    PROVE  /\ StrChr(p, c) \in p .. Len(Buf)
           /\ Buf[StrChr(p, c)] = c
           /\ \A k \in p .. StrChr(p, c) - 1 : Buf[k] # c
  <1> DEFINE K == {k \in p .. Len(Buf) : Buf[k] = c}
  <1>1. K # {} /\ StrChr(p, c) = Min(K)
    BY DEF StrChr
  <1>2. Min(K) \in K /\ \A y \in K : Min(K) <= y
    <2>1. K \in SUBSET Nat
      OBVIOUS
    <2> QED
      BY <1>1, <2>1, MinOfNat
  <1>3. ASSUME NEW k \in p .. Min(K) - 1 PROVE Buf[k] # c
    <2>1. k \in p .. Len(Buf) /\ ~(Min(K) <= k)
      BY <1>2
    <2> QED
      BY <1>2, <2>1
  <1> QED
    BY <1>1, <1>2, <1>3

\* strchr(p, c) returns the null pointer only when no c follows p.
LEMMA StrChrNone ==
    ASSUME NEW c, NEW p \in Nat \ {0}, StrChr(p, c) = 0
    PROVE  \A k \in p .. Len(Buf) : Buf[k] # c
  <1> DEFINE K == {k \in p .. Len(Buf) : Buf[k] = c}
  <1>1. CASE K = {}
    BY <1>1
  <1>2. CASE K # {}
    <2>0. K \in SUBSET Nat
      OBVIOUS
    <2>1. Min(K) \in K
      BY <1>2, <2>0, MinOfNat
    <2>2. Min(K) # 0
      BY <2>1
    <2> QED
      BY <1>2, <2>2 DEF StrChr
  <1> QED
    BY <1>1, <1>2

\* strlen(p) from a position inside a non-null buffer: the characters up to
\* the terminating NUL.
LEMMA StrLenToEnd ==
    ASSUME text \in Text, text # Null, NEW p \in 1 .. Len(Buf)
    PROVE  StrLen(p) = Len(Buf) - p
  <1> DEFINE K == {k \in p .. Len(Buf) : Buf[k] = Nul}
  <1>1. Len(Buf) = Len(text) + 1 /\ Buf[Len(Buf)] = Nul /\ Len(text) \in Nat
    BY BufEndsInNul, BufChars
  <1>2. Len(Buf) \in K /\ K \in SUBSET Nat
    BY <1>1
  <1>3. \A k \in K : Len(Buf) <= k
    BY <1>1, BufChars
  <1>4. Min(K) = Len(Buf)
    <2>1. Min(K) \in K /\ Min(K) <= Len(Buf)
      BY <1>2, MinOfNat
    <2> QED
      BY <1>3, <2>1
  <1> QED
    BY <1>4 DEF StrLen

\* ViewsInText for a sequence r of views, and its last conjunct.
ViewsOK(r) ==
    /\ r # <<>> => text # Null
    /\ \A j \in 1 .. Len(r) :
          /\ r[j].len >= 1
          /\ r[j].from + r[j].len - 1 <= Len(text)
          /\ \A k \in r[j].from .. r[j].from + r[j].len - 1 : text[k] # delim
    /\ \A j \in 1 .. Len(r) - 1 : r[j].from + r[j].len < r[j + 1].from
EndBefore(r, p) == \A j \in 1 .. Len(r) : r[j].from + r[j].len < p

View == [from : Nat \ {0}, len : Nat]

\* emplace_back of a non-empty run of non-delimiter characters that starts
\* after every earlier view keeps the views in the text and in order.
LEMMA AppendView ==
    ASSUME NEW r \in Seq(View), ViewsOK(r), text # Null,
           NEW f \in Nat \ {0}, NEW l \in Nat \ {0},
           f + l - 1 <= Len(text), \A k \in f .. f + l - 1 : text[k] # delim,
           EndBefore(r, f)
    PROVE  LET r2 == Append(r, [from |-> f, len |-> l]) IN
           /\ r2 \in Seq(View)
           /\ ViewsOK(r2)
           /\ EndBefore(r2, f + l + 1)
  <1> DEFINE r2 == Append(r, [from |-> f, len |-> l])
  <1>1. r2 \in Seq(View) /\ Len(r2) = Len(r) + 1 /\ r2[Len(r) + 1] = [from |-> f, len |-> l]
        /\ \A j \in 1 .. Len(r) : r2[j] = r[j]
    BY DEF View
  <1>2. \A j \in 1 .. Len(r2) :
          /\ r2[j].len >= 1
          /\ r2[j].from + r2[j].len - 1 <= Len(text)
          /\ \A k \in r2[j].from .. r2[j].from + r2[j].len - 1 : text[k] # delim
    BY <1>1 DEF ViewsOK
  <1>3. \A j \in 1 .. Len(r2) - 1 : r2[j].from + r2[j].len < r2[j + 1].from
    <2> TAKE j \in 1 .. Len(r2) - 1
    <2>1. CASE j < Len(r)
      BY <1>1, <2>1 DEF ViewsOK
    <2>2. CASE j = Len(r)
      BY <1>1, <2>2 DEF EndBefore
    <2> QED
      BY <1>1, <2>1, <2>2
  <1>4. EndBefore(r2, f + l + 1)
    <2>1. \A j \in 1 .. Len(r) : r[j].from + r[j].len < f + l + 1
      <3> TAKE j \in 1 .. Len(r)
      <3>0. r[j] \in View
        OBVIOUS
      <3>1. r[j].from \in Nat /\ r[j].len \in Nat
        BY <3>0, Zenon DEF View
      <3>2. r[j].from + r[j].len < f
        BY DEF EndBefore
      <3> QED
        BY <3>1, <3>2
    <2> QED
      BY <1>1, <2>1 DEF EndBefore
  <1> QED
    BY <1>1, <1>2, <1>3, <1>4 DEF ViewsOK

\* The views with the facts their proof rests on: the state's types, no
\* view before the loop starts, and no delimiter left when strchr gave up.
VInv ==
    /\ TypeOK
    /\ pc = "start" => result = <<>>
    /\ pc = "tail" => \A k \in s .. Len(Buf) : Buf[k] # delim
    /\ ViewsOK(result)
    /\ pc \in {"loop", "tail"} => EndBefore(result, s)

LEMMA VInvViews == VInv => TypeOK /\ ViewsInText
  BY DEF VInv, ViewsOK, EndBefore, ViewsInText

LEMMA InitVInv == Init => VInv
  BY DEF Init, VInv, TypeOK, ViewsOK, EndBefore

\* A bound on where the views end stays a bound when it grows.
LEMMA EndBeforeMono ==
    ASSUME NEW r \in Seq(View), NEW p \in Nat, NEW q \in Nat, p <= q,
           EndBefore(r, p)
    PROVE  EndBefore(r, q)
  <1> SUFFICES ASSUME NEW j \in 1 .. Len(r)
               PROVE  r[j].from + r[j].len < q
    BY DEF EndBefore
  <1>1. r[j] \in View
    OBVIOUS
  <1>2. r[j].from \in Nat /\ r[j].len \in Nat
    BY <1>1, Zenon DEF View
  <1>3. r[j].from + r[j].len < p
    BY DEF EndBefore
  <1> QED
    BY <1>2, <1>3

LEMMA NextVInv == VInv /\ [Next]_vars => VInv'
<1> SUFFICES ASSUME VInv, [Next]_vars PROVE VInv'
  OBVIOUS
<1>0. /\ text \in Text /\ delim \in Delim /\ s \in Nat \ {0}
      /\ result \in Seq(View) /\ ViewsOK(result)
  BY DEF VInv, TypeOK, View
<1>1. CASE Start
  <2>1. result = <<>> /\ result' = <<>> /\ UNCHANGED <<text, delim, s>>
        /\ pc' \in {"loop", "done"}
    BY <1>1 DEF Start, VInv
  <2> QED
    BY <1>0, <2>1 DEF VInv, TypeOK, ViewsOK, EndBefore
<1>2. CASE Loop
  <2> DEFINE e == StrChr(s, delim)
  <2>0. text' = text /\ delim' = delim /\ pc = "loop" /\ s <= Len(Buf)
    BY <1>2 DEF Loop
  <2>1. text # Null /\ text' = text /\ delim' = delim /\ pc = "loop"
        /\ s <= Len(Buf)
    BY <1>0, <2>0 DEF Buf
  <2>2. Buf' = Buf
    BY <2>1 DEF Buf
  <2>3. /\ Len(Buf) = Len(text) + 1 /\ Len(text) \in Nat
        /\ \A k \in 1 .. Len(text) : Buf[k] = text[k]
    BY <1>0, <2>1, BufEndsInNul, BufChars
  <2>4. EndBefore(result, s)
    BY <2>1 DEF VInv
  <2>5. CASE e # 0
    <3>1. e \in s .. Len(Buf) /\ \A k \in s .. e - 1 : Buf[k] # delim
      BY <1>0, <2>5, StrChrFound
    <3>2. s' = e + 1 /\ pc' = "loop" /\ result' = Emplace(s, e - s)
      BY <1>2, <2>5 DEF Loop, Advance, SegmentSize
    <3>3. CASE e - s # 0
      <4>1. result' = Append(result, [from |-> s, len |-> e - s])
        BY <3>2, <3>3 DEF Emplace
      <4>2. e - s \in Nat \ {0} /\ s + (e - s) - 1 <= Len(text)
        BY <1>0, <2>3, <3>1, <3>3
      <4>3. \A k \in s .. s + (e - s) - 1 : text[k] # delim
        <5> TAKE k \in s .. s + (e - s) - 1
        <5>1. k \in 1 .. Len(text) /\ k \in s .. e - 1
          BY <1>0, <2>3, <3>1
        <5> QED
          BY <2>3, <3>1, <5>1
      <4>4. /\ result' \in Seq(View) /\ ViewsOK(result')
            /\ EndBefore(result', s + (e - s) + 1)
        BY <1>0, <2>1, <2>4, <4>1, <4>2, <4>3, AppendView
      <4>5. s + (e - s) + 1 = s'
        BY <1>0, <2>3, <3>1, <3>2
      <4> QED
        BY <2>1, <1>0, <3>1, <3>2, <4>4, <4>5, <2>3
        DEF VInv, TypeOK, View, ViewsOK, EndBefore
    <3>4. CASE e - s = 0
      <4>1. result' = result
        BY <3>2, <3>4 DEF Emplace
      <4>2. EndBefore(result, s')
        BY <1>0, <2>4, <3>1, <3>2, <2>3, EndBeforeMono
      <4>3. s' \in Nat \ {0}
        BY <1>0, <2>3, <3>1, <3>2
      <4> QED
        BY <2>1, <1>0, <3>2, <4>1, <4>2, <4>3
        DEF VInv, TypeOK, View, ViewsOK, EndBefore
    <3> QED
      BY <3>3, <3>4
  <2>6. CASE e = 0
    <3>1. \A k \in s .. Len(Buf) : Buf[k] # delim
      BY <1>0, <2>6, StrChrNone
    <3>2. pc' = "tail" /\ s' = s /\ result' = result
      BY <1>2, <2>6 DEF Loop
    <3> QED
      BY <2>1, <2>2, <2>4, <1>0, <3>1, <3>2
      DEF VInv, TypeOK, View, ViewsOK, EndBefore
  <2> QED
    BY <2>5, <2>6
<1>3. CASE LastSegment
  <2>0. pc = "tail" /\ s <= Len(Buf) /\ pc' = "done"
        /\ UNCHANGED <<text, delim, s>> /\ result' = Emplace(s, StrLen(s))
    BY <1>3 DEF LastSegment
  <2>1. pc = "tail" /\ s <= Len(Buf) /\ text # Null /\ pc' = "done"
        /\ UNCHANGED <<text, delim, s>> /\ result' = Emplace(s, StrLen(s))
    BY <1>0, <2>0 DEF Buf
  <2>2. /\ Len(Buf) = Len(text) + 1 /\ Len(text) \in Nat
        /\ \A k \in 1 .. Len(text) : Buf[k] = text[k]
    BY <1>0, <2>1, BufEndsInNul, BufChars
  <2>3. StrLen(s) = Len(Buf) - s
    BY <1>0, <2>1, StrLenToEnd
  <2>4. result' \in Seq(View) /\ ViewsOK(result')
    <3>1. CASE StrLen(s) # 0
      <4>1. result' = Append(result, [from |-> s, len |-> StrLen(s)])
        BY <2>1, <3>1 DEF Emplace
      <4>2. StrLen(s) \in Nat \ {0} /\ s + StrLen(s) - 1 <= Len(text)
        BY <1>0, <2>1, <2>2, <2>3, <3>1
      <4>3. \A k \in s .. s + StrLen(s) - 1 : text[k] # delim
        <5> TAKE k \in s .. s + StrLen(s) - 1
        <5>1. k \in 1 .. Len(text) /\ k \in s .. Len(Buf)
          BY <1>0, <2>2, <2>3
        <5>2. Buf[k] # delim
          BY <2>1, <5>1 DEF VInv
        <5> QED
          BY <2>2, <5>1, <5>2
      <4>4. EndBefore(result, s)
        BY <2>1 DEF VInv
      <4> QED
        BY <1>0, <2>1, <4>1, <4>2, <4>3, <4>4, AppendView
    <3>2. CASE StrLen(s) = 0
      BY <1>0, <2>1, <3>2 DEF Emplace
    <3> QED
      BY <3>1, <3>2
  <2> QED
    BY <1>0, <2>1, <2>4 DEF VInv, TypeOK, View, ViewsOK
<1>4. CASE UNCHANGED vars
  BY <1>4 DEF vars, VInv, TypeOK, ViewsOK, EndBefore, Buf
<1> QED
  BY <1>1, <1>2, <1>3, <1>4 DEF Next

\* Every state of every call has the right types, and every view emplaced
\* so far is a non-empty run of the string's non-delimiter characters, in
\* text order, ending before the loop's pointer: for every alphabet, every
\* delimiter (NUL included) and every string length.
THEOREM ViewsInTextTheorem == Spec => []ViewsInText
  BY InitVInv, NextVInv, VInvViews, PTL DEF Spec

\* split_into_string_views keeps its locals and its result well typed.
THEOREM TypeCorrect == Spec => []TypeOK
  BY InitVInv, NextVInv, VInvViews, PTL DEF Spec

=============================================================================
