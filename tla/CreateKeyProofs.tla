-------------------------- MODULE CreateKeyProofs --------------------------
(***************************************************************************)
(* Proof that parseCommandLine of run-createkey accepts exactly the        *)
(* command lines of its usage text, with the flags, the command and the    *)
(* name they give, for every set of arguments and every length, when the   *)
(* user types none of the spellings "--cert", "--encr" and "--auth" that   *)
(* the usage text lists and the loop rejects.                              *)
(***************************************************************************)
EXTENDS CreateKey, TLAPS

\* The spellings of the usage text that the loop does not accept.
Unaccepted == {"--cert", "--encr", "--auth"}

\* The options the loop consumes.
Accepted == DOMAIN FlagOf \cup {"--addkey"}

\* How many options the loop has consumed: all arguments before pos, but
\* the "--" that ended the loop.
Opts == IF pos > 1 /\ args[pos - 1] = "--" THEN pos - 2 ELSE pos - 1

\* The flags and the subkey command the first n arguments ask for.
FlagsUpTo(a, n) == {FlagOf[a[j]] : j \in {j \in 1 .. n : a[j] \in DOMAIN FlagOf}}
AddkeyUpTo(a, n) == "--addkey" \in {a[j] : j \in 1 .. n}

\* ParseAsDocumented with what the loop has built: the consumed arguments
\* are accepted options and options holds what they ask for; the loop stops
\* on an argument that is no option, and the check sees the arguments after
\* the options and an optional "--".
PTypes ==
    /\ args \in Seq(Token) /\ pos \in 1 .. Len(args) + 1 /\ last_argc \in Int
    /\ pc \in {"loop", "check", "help", "usage", "done"}
Built ==
    pc \in {"loop", "check"} =>
        /\ Opts \in 0 .. Len(args)
        /\ \A j \in 1 .. Opts : args[j] \in Accepted
        /\ flags = FlagsUpTo(args, Opts)
        /\ (command = "CreateSubkey") = AddkeyUpTo(args, Opts)
AtLoop ==
    pc = "loop" =>
        /\ Opts = pos - 1
        /\ last_argc = Argc => pos <= Len(args) /\ args[pos] \notin DashDash
AtCheck == pc = "check" => Opts = pos - 2 \/ pos > Len(args) \/ args[pos] \notin DashDash
PInv == PTypes /\ Built /\ AtLoop /\ AtCheck /\ ParseAsDocumented

-----------------------------------------------------------------------------
(* Lemmas *)

\* The options that OR in a creation flag.
LEMMA FlagOfDomain ==
    DOMAIN FlagOf = {"--certify", "--sign", "--encrypt", "--authenticate",
                     "--group", "--unprotected", "--force"}
  BY DEF FlagOf

\* The sets of options, as the proofs need them.
LEMMA OptionSets ==
    /\ Accepted \subseteq Advertised
    /\ Advertised \subseteq DashDash
    /\ Matched = Accepted \cup {"--", "--help"}
    /\ DashDash \ Matched = Unaccepted \cup {"--other"}
    /\ "--" \notin Advertised /\ "--other" \notin Advertised
    /\ "--" \notin Accepted /\ "--help" \notin Accepted
    /\ "--addkey" \notin DOMAIN FlagOf
    /\ \A o \in Accepted : Spelled(o) = o
  BY FlagOfDomain DEF Accepted, Advertised, DashDash, Matched, Unaccepted, Spelled

\* A command line that starts with k accepted options followed by no
\* advertised one has k leading options.
LEMMA LeadingIs ==
    ASSUME NEW a \in Seq(Token), NEW k \in 0 .. Len(a),
           \A j \in 1 .. k : a[j] \in Accepted,
           k = Len(a) \/ a[k + 1] \notin Advertised
    PROVE  LeadingOptions(a) = k
  <1> DEFINE S == {m \in 0 .. Len(a) : \A j \in 1 .. m : a[j] \in Advertised}
  <1>1. k \in S
    BY OptionSets
  <1>2. \A m \in S : m <= k
    <2> SUFFICES ASSUME NEW m \in S, m > k PROVE FALSE
      OBVIOUS
    <2>1. k + 1 \in 1 .. m /\ k # Len(a)
      OBVIOUS
    <2> QED
      BY <2>1
  <1>3. \A x \in S : (\A y \in S : x >= y) <=> x = k
    BY <1>1, <1>2
  <1>4. Max(S) = k
    BY <1>1, <1>3 DEF Max
  <1> QED
    BY <1>4 DEF LeadingOptions

\* Documented and DocumentedFlags of such a command line: it is documented
\* when one argument that is no option follows, or "--" and one argument.
LEMMA DocumentedIs ==
    ASSUME Token \cap Unaccepted = {},
           NEW a \in Seq(Token), NEW k \in 0 .. Len(a),
           \A j \in 1 .. k : a[j] \in Accepted,
           k = Len(a) \/ a[k + 1] \notin Advertised
    PROVE  /\ LeadingOptions(a) = k
           /\ Documented(a) <=> \/ Len(a) - k = 2 /\ a[k + 1] = "--"
                                \/ Len(a) - k = 1 /\ a[k + 1] \notin DashDash
           /\ DocumentedFlags(a)
                 = {FlagOf[a[j]] : j \in {j \in 1 .. k : a[j] \in DOMAIN FlagOf}}
  <1>1. LeadingOptions(a) = k
    BY LeadingIs
  <1> DEFINE rest == SubSeq(a, k + 1, Len(a))
  <1>2. Len(rest) = Len(a) - k /\ (Len(rest) > 0 => rest[1] = a[k + 1])
    OBVIOUS
  <1>3. Documented(a) <=> \/ Len(rest) = 2 /\ rest[1] = "--"
                          \/ Len(rest) = 1 /\ rest[1] \notin DashDash
    BY <1>1 DEF Documented
  <1>4. \A j \in 1 .. k : Spelled(a[j]) = a[j]
    BY OptionSets
  <1>5. DocumentedFlags(a)
           = {FlagOf[a[j]] : j \in {j \in 1 .. k : a[j] \in DOMAIN FlagOf}}
    BY <1>1, <1>4 DEF DocumentedFlags
  <1>6. Documented(a) <=> \/ Len(a) - k = 2 /\ a[k + 1] = "--"
                          \/ Len(a) - k = 1 /\ a[k + 1] \notin DashDash
    <2>1. Len(a) \in Nat /\ k \in Nat
      OBVIOUS
    <2> QED
      BY <1>2, <1>3, <2>1
  <1> QED
    BY <1>1, <1>5, <1>6

\* One more consumed argument adds its flag, or the subkey command.
LEMMA UpToNext ==
    ASSUME NEW a, NEW n \in Nat
    PROVE  /\ FlagsUpTo(a, n + 1) = IF a[n + 1] \in DOMAIN FlagOf
                                    THEN FlagsUpTo(a, n) \cup {FlagOf[a[n + 1]]}
                                    ELSE FlagsUpTo(a, n)
           /\ AddkeyUpTo(a, n + 1) = (AddkeyUpTo(a, n) \/ a[n + 1] = "--addkey")
  <1>1. 1 .. n + 1 = (1 .. n) \cup {n + 1}
    OBVIOUS
  <1> QED
    BY <1>1 DEF FlagsUpTo, AddkeyUpTo

\* The command lines callers pass are finite sequences of arguments.
LEMMA InitArgs ==
    ASSUME CreateKeyAssumption, NEW v \in SeqOf(Token, MaxArgs)
    PROVE  v \in Seq(Token)
  BY DEF SeqOf, CreateKeyAssumption

\* What the check sees: the options the loop consumed are the leading
\* options of the command line, and it is documented exactly when one
\* argument is left.
LEMMA CheckSees ==
    ASSUME Token \cap Unaccepted = {}, PInv, pc = "check"
    PROVE  /\ LeadingOptions(args) = Opts
           /\ Documented(args) <=> Argc = 1
           /\ DocumentedFlags(args) = FlagsUpTo(args, Opts)
  <1>1. /\ args \in Seq(Token) /\ pos \in 1 .. Len(args) + 1
        /\ Opts \in 0 .. Len(args) /\ \A j \in 1 .. Opts : args[j] \in Accepted
        /\ Opts = pos - 2 \/ pos > Len(args) \/ args[pos] \notin DashDash
    BY DEF PInv, PTypes, Built, AtCheck
  <1>2. Opts = Len(args) \/ args[Opts + 1] \notin Advertised
    <2>1. CASE pos > 1 /\ args[pos - 1] = "--"
      <3>1. Opts = pos - 2
        BY <1>1, <2>1 DEF Opts
      <3> QED
        BY <1>1, <2>1, <3>1, OptionSets
    <2>2. CASE ~(pos > 1 /\ args[pos - 1] = "--")
      <3>1. Opts = pos - 1
        BY <2>2 DEF Opts
      <3> QED
        BY <1>1, <3>1, OptionSets
    <2> QED
      BY <2>1, <2>2
  <1>3. /\ LeadingOptions(args) = Opts
        /\ Documented(args) <=> \/ Len(args) - Opts = 2 /\ args[Opts + 1] = "--"
                                \/ Len(args) - Opts = 1 /\ args[Opts + 1] \notin DashDash
        /\ DocumentedFlags(args)
              = {FlagOf[args[j]] : j \in {j \in 1 .. Opts : args[j] \in DOMAIN FlagOf}}
    BY <1>1, <1>2, DocumentedIs
  <1>4. (\/ Len(args) - Opts = 2 /\ args[Opts + 1] = "--"
         \/ Len(args) - Opts = 1 /\ args[Opts + 1] \notin DashDash) <=> Argc = 1
    <2>1. "--" \in DashDash
      BY DEF DashDash
    <2>2. CASE pos > 1 /\ args[pos - 1] = "--"
      <3>1. Opts = pos - 2
        BY <1>1, <2>2 DEF Opts
      <3> QED
        BY <1>1, <2>1, <2>2, <3>1 DEF Argc
    <2>3. CASE ~(pos > 1 /\ args[pos - 1] = "--")
      <3>1. Opts = pos - 1
        BY <2>3 DEF Opts
      <3> QED
        BY <1>1, <2>1, <3>1 DEF Argc
    <2> QED
      BY <2>2, <2>3
  <1> QED
    BY <1>3, <1>4 DEF FlagsUpTo

-----------------------------------------------------------------------------
(* The invariant *)

\* Once the parse has ended the loop's and the check's conjuncts say
\* nothing, and before it ends ParseAsDocumented says nothing.
LEMMA EndedParts ==
    ASSUME pc' \in {"help", "usage", "done"} PROVE Built' /\ AtLoop' /\ AtCheck'
  BY DEF Built, AtLoop, AtCheck
LEMMA RunningParse ==
    ASSUME pc' \in {"loop", "check", "help"} PROVE ParseAsDocumented'
  BY DEF ParseAsDocumented

\* What the usage text says of a command line depends on it alone.
LEMMA SameArgsDoc ==
    ASSUME args' = args
    PROVE  /\ Documented(args)' = Documented(args)
           /\ DocumentedFlags(args)' = DocumentedFlags(args)
           /\ LeadingOptions(args)' = LeadingOptions(args)
  BY DEF Documented, DocumentedFlags, LeadingOptions

\* ParseAsDocumented after a step that ends the parse.
LEMMA UsageParse ==
    ASSUME pc' = "usage", ~Documented(args)' PROVE ParseAsDocumented'
  <1>1. Documented(args)' \in BOOLEAN
    BY DEF Documented
  <1> QED
    BY <1>1 DEF ParseAsDocumented
LEMMA DoneParse ==
    ASSUME pc' = "done", Documented(args)', flags' = DocumentedFlags(args)',
           (command' = "CreateSubkey")
              = ("--addkey" \in {args'[j] : j \in 1 .. LeadingOptions(args)'}),
           name' = args'[Len(args')]
    PROVE  ParseAsDocumented'
  BY DEF ParseAsDocumented

LEMMA InitPInv == Init => PInv
  <1> SUFFICES ASSUME Init PROVE PInv
    OBVIOUS
  <1>1. args \in Seq(Token) /\ Len(args) \in Nat
    BY InitArgs, CreateKeyAssumption DEF Init
  <1>2. PTypes
    BY <1>1 DEF Init, PTypes
  <1>3. Opts = 0
    BY DEF Init, Opts
  <1>4. Built
    BY <1>1, <1>3 DEF Init, Built, FlagsUpTo, AddkeyUpTo
  <1>5. AtLoop
    BY <1>1, <1>3 DEF Init, AtLoop, Argc
  <1> QED
    BY <1>2, <1>4, <1>5 DEF Init, PInv, AtCheck, ParseAsDocumented

\* A step of the argument loop.
LEMMA LoopStep ==
    ASSUME Token \cap Unaccepted = {}, PInv, Loop
    PROVE  PInv'
  <1> DEFINE a == args[pos]
  <1>1. /\ pc = "loop" /\ pos \in 1 .. Len(args) /\ args \in Seq(Token)
        /\ Opts = pos - 1 /\ \A j \in 1 .. pos - 1 : args[j] \in Accepted
        /\ flags = FlagsUpTo(args, pos - 1)
        /\ (command = "CreateSubkey") = AddkeyUpTo(args, pos - 1)
        /\ last_argc' = Argc /\ args' = args /\ name' = name
    BY DEF Loop, PInv, PTypes, Built, AtLoop, Argc
  <1>2. a \in Token /\ a \notin Unaccepted /\ Argc \in Int
    BY <1>1 DEF Argc
  \* Consuming an accepted option keeps the loop's conjuncts.
  <1>3. ASSUME a \in Accepted, pos' = pos + 1, pc' = "loop",
               flags' = FlagsUpTo(args, pos), (command' = "CreateSubkey") = AddkeyUpTo(args, pos)
        PROVE  PInv'
    <2>1. PTypes'
      BY <1>1, <1>2, <1>3 DEF PTypes
    <2>2. Opts' = pos
      BY <1>1, <1>3, OptionSets DEF Opts
    <2>3. Built'
      <3>2. \A j \in 1 .. pos : args[j] \in Accepted
        BY <1>1, <1>3
      <3> QED
        BY <1>1, <1>3, <2>2, <3>2 DEF Built
    <2>4. AtLoop'
      BY <1>1, <1>3, <2>2 DEF AtLoop, Argc
    <2>5. AtCheck' /\ ParseAsDocumented'
      BY <1>3, RunningParse DEF AtCheck
    <2> QED
      BY <2>1, <2>3, <2>4, <2>5 DEF PInv
  <1>4. CASE a = "--"
    <2>1. pos' = pos + 1 /\ pc' = "check" /\ UNCHANGED <<command, flags>>
      BY <1>1, <1>4, OptionSets, FlagOfDomain DEF Loop, Matched
    <2>2. Opts' = pos - 1
      BY <1>1, <1>4, <2>1 DEF Opts
    <2>3. PTypes'
      BY <1>1, <1>2, <2>1 DEF PTypes
    <2>4. Built'
      BY <1>1, <2>1, <2>2 DEF Built
    <2>5. AtLoop' /\ AtCheck' /\ ParseAsDocumented'
      BY <1>1, <2>1, <2>2, RunningParse DEF AtLoop, AtCheck
    <2> QED
      BY <2>3, <2>4, <2>5 DEF PInv
  <1>5. CASE a = "--help"
    <2>1. pc' = "help" /\ UNCHANGED <<pos, command, flags>>
      BY <1>1, <1>5, OptionSets, FlagOfDomain DEF Loop, Matched
    <2> QED
      BY <1>1, <1>2, <2>1, EndedParts, RunningParse DEF PInv, PTypes
  <1>6. CASE a = "--addkey"
    <2>1. command' = "CreateSubkey" /\ pos' = pos + 1 /\ UNCHANGED <<flags, pc>>
      BY <1>1, <1>6, OptionSets, FlagOfDomain DEF Loop, Matched
    <2>2. FlagsUpTo(args, pos) = FlagsUpTo(args, pos - 1) /\ AddkeyUpTo(args, pos)
      <3>1. pos - 1 \in Nat /\ (pos - 1) + 1 = pos
        BY <1>1
      <3>2. /\ FlagsUpTo(args, (pos - 1) + 1)
                = IF args[(pos - 1) + 1] \in DOMAIN FlagOf
                  THEN FlagsUpTo(args, pos - 1) \cup {FlagOf[args[(pos - 1) + 1]]}
                  ELSE FlagsUpTo(args, pos - 1)
            /\ AddkeyUpTo(args, (pos - 1) + 1)
                = (AddkeyUpTo(args, pos - 1) \/ args[(pos - 1) + 1] = "--addkey")
        BY <3>1, UpToNext
      <3> QED
        BY <1>1, <1>6, <3>1, <3>2, OptionSets
    <2> QED
      BY <1>1, <1>3, <1>6, <2>1, <2>2 DEF Accepted
  <1>7. CASE a \in DOMAIN FlagOf
    <2>1. flags' = flags \cup {FlagOf[a]} /\ pos' = pos + 1
          /\ UNCHANGED <<command, pc>>
      BY <1>1, <1>7, OptionSets, FlagOfDomain DEF Loop, OrFlag, Matched
    <2>2. FlagsUpTo(args, pos) = FlagsUpTo(args, pos - 1) \cup {FlagOf[a]}
          /\ AddkeyUpTo(args, pos) = AddkeyUpTo(args, pos - 1)
      <3>1. pos - 1 \in Nat /\ (pos - 1) + 1 = pos
        BY <1>1
      <3>2. /\ FlagsUpTo(args, (pos - 1) + 1)
                = IF args[(pos - 1) + 1] \in DOMAIN FlagOf
                  THEN FlagsUpTo(args, pos - 1) \cup {FlagOf[args[(pos - 1) + 1]]}
                  ELSE FlagsUpTo(args, pos - 1)
            /\ AddkeyUpTo(args, (pos - 1) + 1)
                = (AddkeyUpTo(args, pos - 1) \/ args[(pos - 1) + 1] = "--addkey")
        BY <3>1, UpToNext
      <3> QED
        BY <1>1, <1>7, <3>1, <3>2, OptionSets
    <2> QED
      BY <1>1, <1>3, <1>7, <2>1, <2>2 DEF Accepted
  <1>8. CASE a \in DashDash \ Matched
    <2>1. pc' = "usage" /\ UNCHANGED <<pos, command, flags>>
      BY <1>1, <1>8, OptionSets, FlagOfDomain DEF Loop, Matched
    <2>2. a = "--other" /\ a \notin Advertised
      BY <1>2, <1>8, OptionSets
    <2>6. pos - 1 \in 0 .. Len(args) /\ args[(pos - 1) + 1] \notin Advertised
      BY <1>1, <2>2
    <2>3. /\ LeadingOptions(args) = pos - 1
          /\ Documented(args) <=> \/ Len(args) - (pos - 1) = 2 /\ args[(pos - 1) + 1] = "--"
                                  \/ Len(args) - (pos - 1) = 1
                                     /\ args[(pos - 1) + 1] \notin DashDash
          /\ DocumentedFlags(args)
                = {FlagOf[args[j]] : j \in {j \in 1 .. pos - 1 : args[j] \in DOMAIN FlagOf}}
      BY <1>1, <2>6, DocumentedIs
    <2>4. ~Documented(args)
      <3>1. (pos - 1) + 1 = pos /\ "--other" \in DashDash
        BY <1>1 DEF DashDash
      <3> QED
        BY <2>2, <2>3, <3>1
    <2>5. ParseAsDocumented'
      <3>1. Documented(args)' = Documented(args)
        BY <1>1, SameArgsDoc
      <3> QED
        BY <2>1, <2>4, <3>1, UsageParse
    <2> QED
      BY <1>1, <1>2, <2>1, <2>5, EndedParts DEF PInv, PTypes
  <1>9. CASE a \notin Matched \cup DashDash
    <2>1. UNCHANGED <<pos, command, flags, pc>>
      BY <1>1, <1>9, OptionSets, FlagOfDomain DEF Loop, Matched
    <2>2. Opts' = Opts
      BY <1>1, <2>1 DEF Opts
    <2>3. PTypes'
      BY <1>1, <1>2, <2>1 DEF PTypes
    <2>4. Built'
      BY <1>1, <2>1, <2>2 DEF Built
    <2>5. AtLoop'
      BY <1>1, <1>9, <2>1, <2>2 DEF AtLoop, Argc
    <2>6. AtCheck' /\ ParseAsDocumented'
      BY <1>1, <2>1, RunningParse DEF AtCheck
    <2> QED
      BY <2>3, <2>4, <2>5, <2>6 DEF PInv
  <1> QED
    BY <1>4, <1>5, <1>6, <1>7, <1>8, <1>9 DEF Matched

\* The loop stops: the check sees the arguments after the options.
LEMMA LoopExitStep ==
    ASSUME PInv, LoopExit
    PROVE  PInv'
  <1>1. /\ pc = "loop" /\ pc' = "check" /\ Opts = pos - 1
        /\ UNCHANGED <<args, pos, last_argc, command, flags, name>>
        /\ (Argc = 0 \/ last_argc = Argc)
    BY DEF LoopExit, PInv, AtLoop
  <1>2. Opts' = Opts
    BY <1>1 DEF Opts
  <1>3. PTypes' /\ Built'
    BY <1>1, <1>2 DEF PInv, PTypes, Built
  <1>4. AtCheck'
    <2>1. pos \in 1 .. Len(args) + 1 /\ args \in Seq(Token)
      BY DEF PInv, PTypes
    <2>2. Argc = 0 => pos > Len(args)
      BY <2>1 DEF Argc
    <2>3. last_argc = Argc => pos <= Len(args) /\ args[pos] \notin DashDash
      BY <1>1 DEF PInv, AtLoop
    <2> QED
      BY <1>1, <2>2, <2>3 DEF AtCheck
  <1> QED
    BY <1>1, <1>3, <1>4, RunningParse DEF PInv, AtLoop

\* The check after the loop.
LEMMA CheckStep ==
    ASSUME Token \cap Unaccepted = {}, PInv, Check
    PROVE  PInv'
  <1>1. /\ pc = "check" /\ args \in Seq(Token) /\ pos \in 1 .. Len(args) + 1
        /\ last_argc \in Int
        /\ flags = FlagsUpTo(args, Opts) /\ (command = "CreateSubkey") = AddkeyUpTo(args, Opts)
        /\ UNCHANGED <<args, pos, last_argc, command, flags>>
    BY DEF Check, PInv, PTypes, Built
  <1>2. /\ LeadingOptions(args) = Opts
        /\ Documented(args) <=> Argc = 1
        /\ DocumentedFlags(args) = FlagsUpTo(args, Opts)
    BY <1>1, CheckSees
  <1>3. CASE Argc # 1
    <2>1. pc' = "usage"
      BY <1>1, <1>3 DEF Check
    <2>2. ParseAsDocumented'
      <3>1. Documented(args)' = Documented(args)
        BY <1>1, SameArgsDoc
      <3> QED
        BY <1>2, <1>3, <2>1, <3>1, UsageParse
    <2> QED
      BY <1>1, <2>1, <2>2, EndedParts DEF PInv, PTypes
  <1>4. CASE Argc = 1
    <2>1. pc' = "done" /\ name' = args[pos] /\ pos = Len(args)
      BY <1>1, <1>4 DEF Check, Argc
    <2>2. /\ Documented(args)' = Documented(args)
          /\ DocumentedFlags(args)' = DocumentedFlags(args)
          /\ LeadingOptions(args)' = LeadingOptions(args)
      BY <1>1, SameArgsDoc
    <2>3. /\ flags' = DocumentedFlags(args)'
          /\ (command' = "CreateSubkey")
                = ("--addkey" \in {args'[j] : j \in 1 .. LeadingOptions(args)'})
          /\ Documented(args)'
          /\ name' = args'[Len(args')]
      BY <1>1, <1>2, <1>4, <2>1, <2>2 DEF AddkeyUpTo
    <2>4. ParseAsDocumented'
      BY <2>1, <2>3, DoneParse
    <2> QED
      BY <1>1, <2>1, <2>4, EndedParts DEF PInv, PTypes
  <1> QED
    BY <1>3, <1>4

LEMMA NextPInv ==
    ASSUME Token \cap Unaccepted = {}
    PROVE  PInv /\ [Next]_vars => PInv'
  <1> SUFFICES ASSUME PInv, [Next]_vars PROVE PInv'
    OBVIOUS
  <1>1. CASE Loop
    BY <1>1, LoopStep
  <1>2. CASE LoopExit
    BY <1>2, LoopExitStep
  <1>3. CASE Check
    BY <1>3, CheckStep
  <1>4. CASE UNCHANGED vars
    BY <1>4 DEF vars, PInv, PTypes, Built, AtLoop, AtCheck, ParseAsDocumented,
                Opts, FlagsUpTo, AddkeyUpTo, Argc
  <1> QED
    BY <1>1, <1>2, <1>3, <1>4 DEF Next

\* When no argument is one of the spellings "--cert", "--encr" and "--auth"
\* (which the usage text lists and the loop rejects), parseCommandLine
\* accepts exactly the command lines of the usage text, for every set of
\* arguments and every length, and returns the flags, the command and the
\* user id or fingerprint they give.
THEOREM ParseAsDocumentedTheorem ==
    ASSUME Token \cap Unaccepted = {}
    PROVE  Spec => []ParseAsDocumented
  <1>1. PInv => ParseAsDocumented
    BY DEF PInv
  <1> QED
    BY <1>1, InitPInv, NextPInv, PTL DEF Spec

=============================================================================
