------------------------------ MODULE GenRandom ------------------------------
(***************************************************************************)
(* main() of src/tests/run-genrandom.cpp with the RandomValueResult and    *)
(* RandomBytesResult of src/src/randomresults.h it receives.  The         *)
(* argument loop is a machine with one step per iteration; the checks, the *)
(* number parsing and the generation call are the steps after it.  The     *)
(* library calls (Context::create and the generateRandom functions) are    *)
(* the environment: they may fail, and they return a result built by one  *)
(* of the constructors.                                                    *)
(* The program ends in "help" (show_usage(0)), "usage" (show_usage(1)),   *)
(* "nocontext" (return -1) or "done" (return 0).                           *)
(***************************************************************************)
EXTENDS Integers, Sequences, SequencesExt

CONSTANTS
    Word,      \* the non-option arguments a user types
    Lead,      \* Lead[w]: the value of w's leading decimal digits, -1 if none
    Numeral,   \* the words that are decimal numerals and nothing else
    UIntMax,   \* the largest unsigned int
    MaxArgs,   \* the longest command line
    ErrCode    \* the non-zero error codes the library may return

\* The arguments the loop knows, and one it does not.
Option == {"--", "--help", "--number", "--bytes", "--zbase32", "--other"}
Token == Option \cup Word

ASSUME GenRandomAssumption ==
    /\ Word \cap Option = {}
    /\ Lead \in [Word -> Int] /\ Numeral \subseteq Word
    /\ \A w \in Numeral : Lead[w] \in Nat
    /\ UIntMax \in Nat /\ MaxArgs \in Nat
    /\ ErrCode \subseteq Nat \ {0} /\ ErrCode # {}

\* The libgpg-error codes the program tells apart.
GPG_ERR_NO_VALUE == 26
GPG_ERR_CANCELED == 99
GPG_ERR_FULLY_CANCELED == 198

\* The error of a default-constructed result.
NoValue == GPG_ERR_NO_VALUE

\* Error::isError(), what `if (result.error())` tests: neither success nor
\* a cancellation.
IsError(e) == e # 0 /\ e \notin {GPG_ERR_CANCELED, GPG_ERR_FULLY_CANCELED}

VARIABLES
    args,         \* argv after the program name, as given
    pos,          \* the index of *argv in args
    last_argc,    \* last_argc
    command,      \* command
    needsNumber,  \* needsNumber
    number,       \* number
    generated,    \* history: the value the library generated, -1 if none
    out,          \* the value main printed to std::cout, -1 if none
    pc            \* "loop", "check", "run", or where main ended

vars == <<args, pos, last_argc, command, needsNumber, number, generated, out, pc>>

\* argc after the program name is skipped.
Argc == Len(args) - pos + 1

\* parseNumberArgument<unsigned int>(s): std::from_chars succeeds when s
\* starts with a digit and the leading digits fit; the rest of s is ignored.
FromChars(w) == IF w \in Word /\ Lead[w] \in 0 .. UIntMax THEN Lead[w] ELSE -1

\* The results, as the error and the value (a number, or the size of the
\* byte vector).  The default constructors are Result{GPG_ERR_NO_VALUE}
\* with the value 0 (mValue = 0, an empty vector); the (value) constructors
\* carry no error; the (err) ones carry err and the default value.
ValueDefault == [err |-> NoValue, value |-> 0]
ValueOf(v) == [err |-> 0, value |-> v]
ValueError(e) == [err |-> e, value |-> 0]
BytesDefault == [err |-> NoValue, value |-> 0]
BytesOf(v) == [err |-> 0, value |-> v]
BytesError(e) == [err |-> e, value |-> 0]

Init ==
    /\ args \in SeqOf(Token, MaxArgs)
    /\ pos = 1
    /\ last_argc = -1
    /\ command = "None"
    /\ needsNumber = FALSE
    /\ number = 0
    /\ generated = -1
    /\ out = -1
    /\ pc = "loop"

\* show_usage(0) and show_usage(1): exit(ex).
Usage(end) ==
    /\ pc' = end
    /\ UNCHANGED <<args, pos, command, needsNumber, number, generated, out>>

\* A recognised command: remember it and shift it off.
Shift(cmd, needs) ==
    /\ command' = cmd /\ needsNumber' = needs /\ pos' = pos + 1
    /\ UNCHANGED <<args, number, generated, out, pc>>

(***************************************************************************)
(* Mutant: the loop without its last_argc guard.                           *)
(***************************************************************************)
LoopExitNoGuard ==
    /\ pc = "loop" /\ Argc = 0
    /\ pc' = "check"
    /\ UNCHANGED <<args, pos, last_argc, command, needsNumber, number, generated, out>>

\* while (argc && last_argc != argc) { last_argc = argc; ... }
Loop ==
    /\ pc = "loop" /\ Argc # 0 /\ last_argc # Argc
    /\ last_argc' = Argc
    /\ LET a == args[pos] IN
       \/ a = "--" /\ pos' = pos + 1 /\ pc' = "check"
          /\ UNCHANGED <<args, command, needsNumber, number, generated, out>>
       \/ a = "--help" /\ Usage("help")
       \/ a = "--number" /\ Shift("Number", TRUE)
       \/ a = "--bytes" /\ Shift("Bytes", TRUE)
       \/ a = "--zbase32" /\ Shift("ZBase32", FALSE)
       \/ a = "--other" /\ Usage("usage")
       \/ a \notin Option
          /\ UNCHANGED <<args, pos, command, needsNumber, number, generated, out, pc>>

LoopExit ==
    /\ pc = "loop" /\ (Argc = 0 \/ last_argc = Argc)
    /\ pc' = "check"
    /\ UNCHANGED <<args, pos, last_argc, command, needsNumber, number, generated, out>>

(***************************************************************************)
(* Mutant: the argument count check of the commands without a number       *)
(* dropped.                                                                *)
(***************************************************************************)
CheckNoExtraArgs ==
    /\ pc = "check"
    /\ IF command = "None" \/ (needsNumber /\ Argc # 1)
          \/ (needsNumber /\ FromChars(args[pos]) < 0)
       THEN Usage("usage")
       ELSE /\ number' = IF needsNumber THEN FromChars(args[pos]) ELSE 0
            /\ pc' = "run"
            /\ UNCHANGED <<args, pos, command, needsNumber, generated, out>>
    /\ UNCHANGED last_argc

\* No command, a wrong number of arguments left, or an invalid number:
\* show_usage(1); else number = parsedNumber.value().
Check ==
    /\ pc = "check"
    /\ IF \/ command = "None"
          \/ needsNumber /\ Argc # 1
          \/ ~needsNumber /\ Argc # 0
          \/ needsNumber /\ FromChars(args[pos]) < 0
       THEN Usage("usage")
       ELSE /\ number' = IF needsNumber THEN FromChars(args[pos]) ELSE 0
            /\ pc' = "run"
            /\ UNCHANGED <<args, pos, command, needsNumber, generated, out>>
    /\ UNCHANGED last_argc

\* Context::create(OpenPGP) fails: return -1.
NoContext ==
    /\ pc = "run"
    /\ pc' = "nocontext"
    /\ UNCHANGED <<args, pos, last_argc, command, needsNumber, number, generated, out>>

\* The generation call of the command returns result r; main prints its
\* value when r.error() is false, that is when r's error is no error or a
\* cancellation, and returns 0.  A value is a number below
\* the limit, COUNT bytes, or a zbase32 string.
Generate ==
    /\ pc = "run"
    /\ LET Values == CASE command = "Number"  -> 0 .. number - 1
                       [] command = "Bytes"   -> {number}
                       [] command = "ZBase32" -> {30}
           Default == IF command = "Bytes" THEN BytesDefault ELSE ValueDefault
           Of(v) == IF command = "Bytes" THEN BytesOf(v) ELSE ValueOf(v)
           Failed(e) == IF command = "Bytes" THEN BytesError(e) ELSE ValueError(e)
           Outcome == {[r |-> Default, gen |-> -1]}
                      \cup {[r |-> Of(v), gen |-> v] : v \in Values}
                      \cup {[r |-> Failed(e), gen |-> -1] : e \in ErrCode}
       IN  \E o \in Outcome :
              /\ generated' = o.gen
              /\ out' = IF IsError(o.r.err) THEN -1 ELSE o.r.value
    /\ pc' = "done"
    /\ UNCHANGED <<args, pos, last_argc, command, needsNumber, number>>

Next == Loop \/ LoopExit \/ Check \/ NoContext \/ Generate

\* A single-threaded program: it keeps running until it exits.
Spec == Init /\ [][Next]_vars /\ WF_vars(Next)

-----------------------------------------------------------------------------
(* Properties *)

Commands == {"--number", "--bytes", "--zbase32"}
Needs(c) == c \in {"--number", "--bytes"}
CommandOf(c) == CASE c = "--number" -> "Number" [] c = "--bytes" -> "Bytes"
                  [] c = "--zbase32" -> "ZBase32"

\* The length of the run of commands a command line starts with.
LeadingCommands(a) == Max({k \in 0 .. Len(a) : \A j \in 1 .. k : a[j] \in Commands})

\* The command lines the usage text describes: one or more commands, the
\* last of which decides; an optional "--"; then a decimal numeral below
\* 2^32 when that command takes one, and nothing else.
Documented(a) ==
    LET k == LeadingCommands(a)
        rest == SubSeq(a, k + 1, Len(a))
        tail == IF rest # <<>> /\ rest[1] = "--" THEN Tail(rest) ELSE rest
    IN  /\ k > 0
        /\ IF Needs(a[k])
           THEN \E w \in Numeral : tail = <<w>> /\ Lead[w] <= UIntMax
           ELSE tail = <<>>

\* run-genrandom generates exactly for the documented command lines (when
\* it gets a context), with the command and the number they give; on every
\* other command line it shows the usage.
ArgumentsAsDocumented ==
    pc \in {"help", "usage", "done"} =>
        /\ (pc = "done") = Documented(args)
        /\ pc = "done" =>
              LET c == args[LeadingCommands(args)] IN
              /\ command = CommandOf(c)
              /\ Needs(c) => number = Lead[args[Len(args)]]

\* The usage text: main prints the value the library generated, and an
\* error message otherwise; it never prints the default value of a result
\* that carries no generated value (a failed or canceled generation).
OutputFromResult == out # -1 => out = generated

\* The program always ends: the argument loop stops on an argument it does
\* not consume, through the last_argc guard.
Terminates == <>(pc \in {"help", "usage", "nocontext", "done"})

=============================================================================
