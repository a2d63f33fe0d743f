------------------------------ MODULE Splitter ------------------------------
(***************************************************************************)
(* _gpgmepp::split_into_string_views(s, delimiter) of src/src/util.cpp.    *)
(* The argument is a C string: a sequence of characters followed by the    *)
(* terminating NUL, or the null pointer.  The loop is a machine whose      *)
(* steps are the iterations of the while loop (one std::strchr call and    *)
(* its body each) and the final std::strlen; the result is the sequence   *)
(* of views [from, len] into the buffer.  A step that would read outside  *)
(* the buffer (past its NUL or through the null pointer) is undefined      *)
(* behaviour and is not taken: the machine stops there.                    *)
(***************************************************************************)
EXTENDS Naturals, Sequences, SequencesExt

CONSTANTS
    Char,    \* the characters a string may hold, NUL excluded
    Nul,     \* the terminating '\0'
    Null,    \* the null pointer
    Delim,   \* the delimiters callers pass
    MaxLen   \* the longest string a caller passes

ASSUME SplitterAssumption ==
    /\ Nul \notin Char
    /\ Delim \subseteq Char \cup {Nul}
    /\ MaxLen \in Nat

\* The C strings callers pass, and the null pointer.
Text == SeqOf(Char, MaxLen) \cup {Null}

VARIABLES
    text,    \* the argument s as the caller passed it
    delim,   \* the argument delimiter
    s,       \* the local pointer s, as an index into the buffer
    result,  \* the vector of string views built so far
    pc       \* "start", "loop", "tail" or "done"

vars == <<text, delim, s, result, pc>>

\* The bytes of the buffer: the characters and the terminating NUL; the null
\* pointer has none.
Buf == IF text = Null THEN <<>> ELSE text \o <<Nul>>

\* std::strchr(p, c): the first position at or after p holding c, looking at
\* the terminating NUL too, and 0 (the null pointer) when c does not occur.
StrChr(p, c) ==
    LET K == {k \in p .. Len(Buf) : Buf[k] = c}
    IN  IF K = {} THEN 0 ELSE Min(K)

\* std::strlen(p): the distance from p to the first NUL.
StrLen(p) == Min({k \in p .. Len(Buf) : Buf[k] = Nul}) - p

\* The views of the maximal non-empty runs of non-delimiter characters, in
\* the order of the text: the reference the loop is checked against.
Tokens(t, d) ==
    IF t = Null THEN <<>>
    ELSE LET Runs == {r \in [from : 1 .. Len(t), len : 1 .. Len(t)] :
                         /\ r.from + r.len - 1 <= Len(t)
                         /\ \A k \in r.from .. r.from + r.len - 1 : t[k] # d
                         /\ r.from = 1 \/ t[r.from - 1] = d
                         /\ r.from + r.len - 1 = Len(t) \/ t[r.from + r.len] = d}
         IN  SetToSortSeq(Runs, LAMBDA x, y : x.from < y.from)

Init ==
    /\ text \in Text
    /\ delim \in Delim
    /\ s = 1
    /\ result = <<>>
    /\ pc = "start"

(***************************************************************************)
(* Mutant of the entry check, used to show that NoInvalidRead tells it     *)
(* apart from the code.                                                    *)
(***************************************************************************)
StartNoNullCheck ==
    /\ pc = "start"
    /\ pc' = "loop"
    /\ UNCHANGED <<text, delim, s, result>>

\* if (!s) return result;
Start ==
    /\ pc = "start"
    /\ pc' = IF text = Null THEN "done" ELSE "loop"
    /\ UNCHANGED <<text, delim, s, result>>

(***************************************************************************)
(* Mutants of the loop body: the pointer difference reversed or counting   *)
(* the delimiter, the empty-segment check dropped, and the pointer left on *)
(* the delimiter.                                                          *)
(***************************************************************************)
SegmentSizeSwapped(e) == s - e
SegmentSizeWithDelim(e) == e - s + 1
EmplaceAlways(from, len) == Append(result, [from |-> from, len |-> len])
AdvanceNone(e) == e

\* segment_end - s
SegmentSize(e) == e - s

\* if (const auto segment_size = ...) result.emplace_back(s, segment_size);
Emplace(from, len) ==
    IF len # 0 THEN Append(result, [from |-> from, len |-> len]) ELSE result

\* s = segment_end + 1;
Advance(e) == e + 1

\* while (const char *segment_end = std::strchr(s, delimiter)) { ... }
Loop ==
    /\ pc = "loop" /\ s <= Len(Buf)
    /\ LET e == StrChr(s, delim) IN
       IF e # 0
       THEN /\ result' = Emplace(s, SegmentSize(e))
            /\ s' = Advance(e)
            /\ UNCHANGED pc
       ELSE pc' = "tail" /\ UNCHANGED <<s, result>>
    /\ UNCHANGED <<text, delim>>

\* if (segment_size = strlen(s)) result.emplace_back(s, segment_size);
\* return result;
LastSegment ==
    /\ pc = "tail" /\ s <= Len(Buf)
    /\ result' = Emplace(s, StrLen(s))
    /\ pc' = "done"
    /\ UNCHANGED <<text, delim, s>>

Next == Start \/ Loop \/ LastSegment

\* The function runs to its return when it is called; nothing else runs.
Spec == Init /\ [][Next]_vars /\ WF_vars(Next)

-----------------------------------------------------------------------------
(* Properties *)

TypeOK ==
    /\ text \in Text
    /\ delim \in Delim
    /\ s \in Nat \ {0}
    /\ result \in Seq([from : Nat \ {0}, len : Nat])
    /\ pc \in {"start", "loop", "tail", "done"}

\* Section 4.3 of the spec: the returned views are exactly the non-empty
\* segments between delimiters, left to right; a leading, trailing or
\* doubled delimiter yields no empty view, and the null pointer yields none.
SplitCorrect == pc = "done" => result = Tokens(text, delim)

\* Every view emplaced so far, at every step of the call, is a non-empty
\* run of non-delimiter characters of the string; the views follow the
\* order of the text with a delimiter between neighbours, and while the
\* loop runs they all end before the pointer s.
ViewsInText ==
    /\ result # <<>> => text # Null
    /\ \A j \in 1 .. Len(result) :
          /\ result[j].len >= 1
          /\ result[j].from + result[j].len - 1 <= Len(text)
          /\ \A k \in result[j].from .. result[j].from + result[j].len - 1 :
                text[k] # delim
    /\ \A j \in 1 .. Len(result) - 1 :
          result[j].from + result[j].len < result[j + 1].from
    /\ pc \in {"loop", "tail"} =>
          \A j \in 1 .. Len(result) : result[j].from + result[j].len < s

\* The scan never reads outside the buffer: neither through the null pointer
\* nor past the terminating NUL.
NoInvalidRead == pc \in {"loop", "tail"} => s <= Len(Buf)

\* Every call returns: the loop's pointer moves forward on each iteration
\* until strchr finds no delimiter.
Terminates == <>(pc = "done")

=============================================================================
