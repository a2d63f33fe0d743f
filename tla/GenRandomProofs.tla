-------------------------- MODULE GenRandomProofs --------------------------
(***************************************************************************)
(* Proof that run-genrandom accepts exactly the command lines its usage   *)
(* text documents, for every set of words, every limit and every length   *)
(* of command line.                                                       *)
(***************************************************************************)
EXTENDS GenRandom, SequenceTheorems, TLAPS

-----------------------------------------------------------------------------
(* The command line *)

\* No word the user types starts with digits unless it is a numeral: the
\* words on which std::from_chars and the usage text agree.
DigitsAreNumerals == \A w \in Word : Lead[w] \in Nat => w \in Numeral

\* How many commands the loop has consumed: all arguments before pos, but
\* the "--" that ended the loop.
OptsOf(a, p) == IF p > 1 /\ a[p - 1] = "--" THEN p - 2 ELSE p - 1
Opts == OptsOf(args, pos)

GTypes ==
    /\ args \in Seq(Token) /\ pos \in 1 .. Len(args) + 1 /\ last_argc \in Int
    /\ needsNumber \in BOOLEAN
    /\ pc \in {"loop", "check", "run", "help", "usage", "nocontext", "done"}
\* The consumed arguments are commands, and the last of them decides.
Built ==
    pc \in {"loop", "check"} =>
        /\ Opts \in 0 .. Len(args)
        /\ \A j \in 1 .. Opts : args[j] \in Commands
        /\ Opts = 0 => command = "None" /\ ~needsNumber
        /\ Opts > 0 => /\ command = CommandOf(args[Opts])
                       /\ needsNumber = Needs(args[Opts])
\* The loop stops on a word; the check sees the arguments after the
\* commands and an optional "--".
AtLoop ==
    pc = "loop" =>
        /\ Opts = pos - 1
        /\ last_argc = Argc => pos <= Len(args) /\ args[pos] \in Word
AtCheck == pc = "check" => Opts = pos - 2 \/ pos > Len(args) \/ args[pos] \in Word
\* A command line that passed the check is documented, with its command
\* and number; one that showed the usage is not.
Passed ==
    pc \in {"run", "nocontext", "done"} =>
        LET c == args[LeadingCommands(args)] IN
        /\ Documented(args)
        /\ command = CommandOf(c)
        /\ Needs(c) => number = Lead[args[Len(args)]]
Refused == pc \in {"help", "usage"} => ~Documented(args)
GInv == GTypes /\ Built /\ AtLoop /\ AtCheck /\ Passed /\ Refused

-----------------------------------------------------------------------------
(* Lemmas about the command line *)

\* The arguments after k leading commands and an optional "--".
RestAfter(a, k) ==
    IF k < Len(a) /\ a[k + 1] = "--" THEN SubSeq(a, k + 2, Len(a))
    ELSE SubSeq(a, k + 1, Len(a))

\* A command line that starts with k commands followed by no command has k
\* leading commands.
LEMMA LeadingIs ==
    ASSUME NEW a \in Seq(Token), NEW k \in 0 .. Len(a),
           \A j \in 1 .. k : a[j] \in Commands,
           k = Len(a) \/ a[k + 1] \notin Commands
    PROVE  LeadingCommands(a) = k
  <1> DEFINE S == {m \in 0 .. Len(a) : \A j \in 1 .. m : a[j] \in Commands}
  <1>1. k \in S
    OBVIOUS
  <1>2. \A m \in S : m <= k
    <2> SUFFICES ASSUME NEW m \in S, m > k PROVE FALSE
      OBVIOUS
    <2>1. k + 1 \in 1 .. m /\ k # Len(a)
      OBVIOUS
    <2> QED
      BY <2>1
  <1>3. \A x \in S : (\A y \in S : x >= y) <=> x = k
    BY <1>1, <1>2
  <1>4. Max(S) = k
    BY <1>1, <1>3 DEF Max
  <1> QED
    BY <1>4 DEF LeadingCommands

\* A sequence of positive length is not empty.
LEMMA NonEmpty ==
    ASSUME NEW S, NEW s \in Seq(S), Len(s) >= 1
    PROVE  s # <<>>
  OBVIOUS

\* The tail of Documented is RestAfter.
LEMMA TailIsRest ==
    ASSUME NEW a \in Seq(Token), NEW k \in 0 .. Len(a)
    PROVE  /\ LET rest == SubSeq(a, k + 1, Len(a))
              IN  (IF rest # <<>> /\ rest[1] = "--" THEN Tail(rest) ELSE rest)
                     = RestAfter(a, k)
           /\ RestAfter(a, k) \in Seq(Token)
  <1> DEFINE rest == SubSeq(a, k + 1, Len(a))
  <1>1. rest \in Seq(Token) /\ Len(rest) = Len(a) - k
        /\ \A i \in 1 .. Len(rest) : rest[i] = a[k + i]
    OBVIOUS
  <1>2. CASE k < Len(a) /\ a[k + 1] = "--"
    <2>1. rest # <<>> /\ rest[1] = "--"
      <3>1. Len(rest) >= 1 /\ 1 \in 1 .. Len(rest)
        BY <1>1, <1>2
      <3>2. rest[1] = a[k + 1]
        BY <1>1, <3>1
      <3>3. rest # <<>>
        BY <1>1, <3>1, NonEmpty
      <3> QED
        BY <1>2, <3>2, <3>3
    <2>2. Tail(rest) = SubSeq(a, k + 2, Len(a))
      <3>1. k + 1 \in 1 .. Len(a) /\ Len(a) \in (k + 1) .. Len(a)
        BY <1>2
      <3>2. Tail(SubSeq(a, k + 1, Len(a))) = SubSeq(a, (k + 1) + 1, Len(a))
        BY <3>1, HeadTailOfSubSeq
      <3> QED
        BY <3>2
    <2> QED
      BY <1>1, <1>2, <2>1, <2>2 DEF RestAfter
  <1>3. CASE ~(k < Len(a) /\ a[k + 1] = "--")
    <2>1. ~(rest # <<>> /\ rest[1] = "--")
      BY <1>1, <1>3
    <2> QED
      BY <1>1, <1>3, <2>1 DEF RestAfter
  <1> QED
    BY <1>2, <1>3

\* Documented for a command line that starts with k commands followed by no
\* command: a command, then one number that std::from_chars reads when the
\* last command takes one, and nothing else.
LEMMA DocumentedIs ==
    ASSUME DigitsAreNumerals,
           NEW a \in Seq(Token), NEW k \in 0 .. Len(a),
           \A j \in 1 .. k : a[j] \in Commands,
           k = Len(a) \/ a[k + 1] \notin Commands
    PROVE  /\ LeadingCommands(a) = k
           /\ Documented(a) <=>
                 /\ k > 0
                 /\ Needs(a[k]) => /\ Len(RestAfter(a, k)) = 1
                                   /\ FromChars(RestAfter(a, k)[1]) >= 0
                 /\ ~Needs(a[k]) => Len(RestAfter(a, k)) = 0
  <1> DEFINE T == RestAfter(a, k)
  <1>1. LeadingCommands(a) = k
    BY LeadingIs
  <1>2. T \in Seq(Token)
        /\ LET rest == SubSeq(a, k + 1, Len(a))
           IN  (IF rest # <<>> /\ rest[1] = "--" THEN Tail(rest) ELSE rest) = T
    BY TailIsRest
  <1>3. Documented(a) <=>
           /\ k > 0
           /\ IF Needs(a[k]) THEN \E w \in Numeral : T = <<w>> /\ Lead[w] <= UIntMax
              ELSE T = <<>>
    BY <1>1, <1>2 DEF Documented
  <1>4. (\E w \in Numeral : T = <<w>> /\ Lead[w] <= UIntMax)
           <=> Len(T) = 1 /\ FromChars(T[1]) >= 0
    <2>1. ASSUME NEW w \in Numeral, T = <<w>>, Lead[w] <= UIntMax
          PROVE  Len(T) = 1 /\ FromChars(T[1]) >= 0
      <3>1. w \in Word /\ Lead[w] \in Nat
        BY GenRandomAssumption
      <3> QED
        BY <2>1, <3>1, GenRandomAssumption DEF FromChars
    <2>2. ASSUME Len(T) = 1, FromChars(T[1]) >= 0
          PROVE  \E w \in Numeral : T = <<w>> /\ Lead[w] <= UIntMax
      <3>1. T[1] \in Word /\ Lead[T[1]] \in 0 .. UIntMax
        BY <2>2, GenRandomAssumption DEF FromChars
      <3>2. T[1] \in Numeral
        BY <3>1 DEF DigitsAreNumerals
      <3>3. T = <<T[1]>>
        BY <1>2, <2>2, SeqEqual
      <3> QED
        BY <3>1, <3>2, <3>3
    <2> QED
      BY <2>1, <2>2
  <1>5. T = <<>> <=> Len(T) = 0
    BY <1>2
  <1> QED
    BY <1>1, <1>3, <1>4, <1>5

\* The options the proofs tell apart.
LEMMA CommandFacts ==
    /\ \A c \in Commands : CommandOf(c) \in {"Number", "Bytes", "ZBase32"}
                           /\ Needs(c) \in BOOLEAN /\ c \in Option
    /\ \A x \in {"--", "--help", "--other"} : x \notin Commands /\ x \in Option
    /\ \A w \in Word : w \notin Commands /\ w # "--"
    /\ \A x \in Option : FromChars(x) = -1
  BY GenRandomAssumption DEF Commands, CommandOf, Needs, Option, FromChars

\* The parts that speak of the argument loop hold once it is over, and the
\* parts that speak of the end hold while it runs.
LEMMA EndedParts ==
    ASSUME pc' \notin {"loop", "check"} PROVE Built' /\ AtLoop' /\ AtCheck'
  BY DEF Built, AtLoop, AtCheck
LEMMA RunningParts ==
    ASSUME pc' \in {"loop", "check"} PROVE Passed' /\ Refused'
  BY DEF Passed, Refused

LEMMA SameArgsDoc ==
    ASSUME args' = args
    PROVE  /\ Documented(args)' = Documented(args)
           /\ LeadingCommands(args)' = LeadingCommands(args)
  BY DEF Documented, LeadingCommands

\* Refused after a step that shows the usage.
LEMMA RefusedParts ==
    ASSUME pc' \in {"help", "usage"}, args' = args, ~Documented(args)
    PROVE  Passed' /\ Refused'
  <1>1. Documented(args)' = Documented(args)
    BY SameArgsDoc
  <1> QED
    BY <1>1 DEF Passed, Refused

\* What the check sees: the commands the loop consumed are the leading
\* commands, and what follows them and an optional "--" is the rest of argv.
LEMMA CheckSees ==
    ASSUME GTypes, Built, AtCheck, pc = "check"
    PROVE  /\ Opts \in 0 .. Len(args)
           /\ \A j \in 1 .. Opts : args[j] \in Commands
           /\ Opts = Len(args) \/ args[Opts + 1] \notin Commands
           /\ RestAfter(args, Opts) = SubSeq(args, pos, Len(args))
  <1>1. Opts \in 0 .. Len(args) /\ \A j \in 1 .. Opts : args[j] \in Commands
    BY DEF Built
  <1>2. CASE pos > 1 /\ args[pos - 1] = "--"
    <2>1. Opts = pos - 2 /\ Opts + 1 = pos - 1 /\ Opts < Len(args)
      BY <1>2 DEF Opts, OptsOf, GTypes
    <2>2. args[Opts + 1] = "--" /\ Opts + 2 = pos
      BY <1>2, <2>1 DEF GTypes
    <2> QED
      BY <1>1, <2>1, <2>2, CommandFacts DEF RestAfter
  <1>3. CASE ~(pos > 1 /\ args[pos - 1] = "--")
    <2>1. Opts = pos - 1 /\ Opts + 1 = pos
      BY <1>3 DEF Opts, OptsOf, GTypes
    <2>2. pos > Len(args) \/ args[pos] \in Word
      BY <2>1 DEF AtCheck, GTypes
    <2>3. CASE pos > Len(args)
      <3>1. Opts = Len(args)
        BY <2>1, <2>3 DEF GTypes
      <3> QED
        BY <1>1, <2>1, <3>1 DEF RestAfter
    <2>4. CASE args[pos] \in Word
      <3>1. args[Opts + 1] \notin Commands /\ args[Opts + 1] # "--"
        BY <2>1, <2>4, CommandFacts
      <3> QED
        BY <1>1, <2>1, <3>1 DEF RestAfter
    <2> QED
      BY <2>2, <2>3, <2>4
  <1> QED
    BY <1>2, <1>3

\* At the check, Documented is what the check tests.
LEMMA CheckDoc ==
    ASSUME DigitsAreNumerals, GTypes, Built, AtCheck, pc = "check"
    PROVE  /\ LeadingCommands(args) = Opts
           /\ Documented(args) <=>
                 /\ Opts > 0
                 /\ Needs(args[Opts]) => Argc = 1 /\ FromChars(args[pos]) >= 0
                 /\ ~Needs(args[Opts]) => Argc = 0
  <1>1. /\ Opts \in 0 .. Len(args)
        /\ \A j \in 1 .. Opts : args[j] \in Commands
        /\ Opts = Len(args) \/ args[Opts + 1] \notin Commands
        /\ RestAfter(args, Opts) = SubSeq(args, pos, Len(args))
    BY CheckSees
  <1>2. /\ LeadingCommands(args) = Opts
        /\ Documented(args) <=>
              /\ Opts > 0
              /\ Needs(args[Opts]) => /\ Len(RestAfter(args, Opts)) = 1
                                      /\ FromChars(RestAfter(args, Opts)[1]) >= 0
              /\ ~Needs(args[Opts]) => Len(RestAfter(args, Opts)) = 0
    BY <1>1, DocumentedIs DEF GTypes
  <1>3. /\ Len(RestAfter(args, Opts)) = Argc
        /\ Argc >= 1 => RestAfter(args, Opts)[1] = args[pos]
    BY <1>1 DEF GTypes, Argc
  <1>4. Needs(args[Opts]) \in BOOLEAN
    BY DEF Needs
  <1> QED
    BY <1>2, <1>3, <1>4

LEMMA InitGInv == Init => GInv
  <1> SUFFICES ASSUME Init PROVE GInv
    OBVIOUS
  <1>1. args \in Seq(Token) /\ Len(args) \in Nat
    BY DEF Init, SeqOf
  <1>2. GTypes
    <2>0. pos = 1 /\ last_argc = -1 /\ needsNumber = FALSE
      BY DEF Init
    <2>1. pos \in 1 .. Len(args) + 1 /\ last_argc \in Int
      BY <1>1, <2>0
    <2>3. needsNumber \in BOOLEAN
      BY <2>0, Zenon
    <2>2. pc \in {"loop", "check", "run", "help", "usage", "nocontext", "done"}
      BY DEF Init
    <2> QED
      BY <1>1, <2>1, <2>2, <2>3 DEF GTypes
  <1>3. Opts = 0
    BY DEF Init, Opts, OptsOf
  <1>4. Built /\ AtLoop /\ AtCheck
    BY <1>1, <1>3 DEF Init, Built, AtLoop, AtCheck, Argc
  <1>5. Passed /\ Refused
    BY DEF Init, Passed, Refused
  <1> QED
    BY <1>2, <1>4, <1>5 DEF GInv

\* The loop on "--help" or an unknown option: the command line is not
\* documented, whatever came before.
LEMMA LoopRefuses ==
    ASSUME DigitsAreNumerals, GTypes, Built, pc = "loop", Opts = pos - 1,
           pos \in 1 .. Len(args), args[pos] \in {"--help", "--other"}
    PROVE  ~Documented(args)
  <1>1. /\ pos - 1 \in 0 .. Len(args)
        /\ \A j \in 1 .. pos - 1 : args[j] \in Commands
        /\ args[(pos - 1) + 1] \notin Commands /\ args[(pos - 1) + 1] # "--"
        /\ args \in Seq(Token)
    BY CommandFacts DEF Built, GTypes
  <1>2. /\ Documented(args) <=>
              /\ pos - 1 > 0
              /\ Needs(args[pos - 1]) => /\ Len(RestAfter(args, pos - 1)) = 1
                                         /\ FromChars(RestAfter(args, pos - 1)[1]) >= 0
              /\ ~Needs(args[pos - 1]) => Len(RestAfter(args, pos - 1)) = 0
    BY <1>1, DocumentedIs
  <1>3. RestAfter(args, pos - 1) = SubSeq(args, pos, Len(args))
    BY <1>1 DEF RestAfter
  <1>4. Len(RestAfter(args, pos - 1)) >= 1
        /\ FromChars(RestAfter(args, pos - 1)[1]) = -1
    BY <1>1, <1>3, CommandFacts
  <1>5. Needs(args[pos - 1]) \in BOOLEAN
    BY DEF Needs
  <1> QED
    BY <1>2, <1>4, <1>5

\* A step of the argument loop keeps GInv.
LEMMA LoopStep ==
    ASSUME DigitsAreNumerals, GInv, Loop
    PROVE  GInv'
  <1> DEFINE a == args[pos]
  <1>1. /\ pc = "loop" /\ pos \in 1 .. Len(args) /\ args \in Seq(Token)
        /\ Opts = pos - 1 /\ \A j \in 1 .. pos - 1 : args[j] \in Commands
        /\ last_argc' = Argc /\ args' = args /\ Argc \in Nat
        /\ GTypes /\ Built
    <2>0. args' = args
      BY DEF Loop, Usage, Shift
    <2>1. pc = "loop" /\ Argc # 0 /\ last_argc' = Argc /\ args' = args
          /\ GTypes /\ Built /\ AtLoop
      BY <2>0 DEF Loop, GInv
    <2>2. pos \in 1 .. Len(args) /\ args \in Seq(Token) /\ Argc \in Nat
      BY <2>1 DEF GTypes, Argc
    <2>3. Opts = pos - 1 /\ \A j \in 1 .. pos - 1 : args[j] \in Commands
      BY <2>1 DEF AtLoop, Built
    <2> QED
      BY <2>1, <2>2, <2>3
  <1>2. a \in Token
    BY <1>1
  \* Shifting a command keeps the loop's conjuncts.
  <1>3. ASSUME a \in Commands, pos' = pos + 1, pc' = "loop",
               command' = CommandOf(a), needsNumber' = Needs(a)
        PROVE  GInv'
    <2>1. needsNumber' \in BOOLEAN
      <3>1. Needs(a) \in BOOLEAN
        BY DEF Needs
      <3> QED
        BY <1>3, <3>1, Zenon
    <2>2. GTypes'
      BY <1>1, <1>3, <2>1 DEF GTypes
    <2>3. Opts' = pos
      BY <1>1, <1>3, CommandFacts DEF Opts, OptsOf
    <2>4. Built'
      <3>1. \A j \in 1 .. pos : args[j] \in Commands
        BY <1>1, <1>3
      <3> QED
        BY <1>1, <1>3, <2>3, <3>1 DEF Built
    <2>5. AtLoop'
      BY <1>1, <1>3, <2>3 DEF AtLoop, Argc
    <2>6. AtCheck' /\ Passed' /\ Refused'
      BY <1>3, RunningParts DEF AtCheck
    <2> QED
      BY <2>2, <2>4, <2>5, <2>6 DEF GInv
  \* Showing the usage ends the loop on an undocumented command line.
  <1>4. ASSUME a \in {"--help", "--other"}, pc' \in {"help", "usage"},
               UNCHANGED <<args, pos, command, needsNumber>>
        PROVE  GInv'
    <2>1. ~Documented(args)
      BY <1>1, <1>4, LoopRefuses
    <2>2. needsNumber' \in BOOLEAN
      BY <1>1, <1>4, Zenon DEF GTypes
    <2>3. GTypes'
      BY <1>1, <1>4, <2>2 DEF GTypes
    <2> QED
      BY <1>1, <1>4, <2>1, <2>3, EndedParts, RefusedParts DEF GInv
  <1>5. CASE a = "--"
    <2>1. pos' = pos + 1 /\ pc' = "check" /\ UNCHANGED <<command, needsNumber>>
      BY <1>5, CommandFacts DEF Loop, Usage, Shift
    <2>2. Opts' = pos - 1
      BY <1>1, <1>5, <2>1 DEF Opts, OptsOf
    <2>3. needsNumber' \in BOOLEAN
      BY <1>1, <2>1, Zenon DEF GTypes
    <2>4. GTypes'
      BY <1>1, <2>1, <2>3 DEF GTypes
    <2>5. Built'
      BY <1>1, <2>1, <2>2 DEF Built
    <2>6. AtLoop' /\ AtCheck' /\ Passed' /\ Refused'
      BY <1>1, <2>1, <2>2, RunningParts DEF AtLoop, AtCheck
    <2> QED
      BY <2>4, <2>5, <2>6 DEF GInv
  <1>6. CASE a = "--help"
    BY <1>4, <1>6, CommandFacts DEF Loop, Usage, Shift
  <1>7. CASE a = "--other"
    BY <1>4, <1>7, CommandFacts DEF Loop, Usage, Shift
  <1>8. CASE a \in Commands
    <2>1. pos' = pos + 1 /\ pc' = "loop"
          /\ command' = CommandOf(a) /\ needsNumber' = Needs(a)
      BY <1>8, CommandFacts DEF Loop, Usage, Shift, Commands, CommandOf, Needs
    <2> QED
      BY <1>3, <1>8, <2>1
  <1>9. CASE a \notin Option
    <2>1. UNCHANGED <<pos, command, needsNumber, pc>>
      BY <1>9 DEF Loop, Option
    <2>2. Opts' = Opts /\ a \in Word
      BY <1>1, <1>2, <1>9, <2>1 DEF Opts, OptsOf, Token
    <2>3. needsNumber' \in BOOLEAN
      BY <1>1, <2>1, Zenon DEF GTypes
    <2>4. GTypes'
      BY <1>1, <2>1, <2>3 DEF GTypes
    <2>5. Built'
      BY <1>1, <2>1, <2>2 DEF Built
    <2>6. AtLoop'
      BY <1>1, <2>1, <2>2 DEF AtLoop, Argc
    <2>7. AtCheck' /\ Passed' /\ Refused'
      BY <1>1, <2>1, RunningParts DEF AtCheck
    <2> QED
      BY <2>4, <2>5, <2>6, <2>7 DEF GInv
  <1> QED
    BY <1>5, <1>6, <1>7, <1>8, <1>9 DEF Option, Commands

\* The loop stops: the check sees a word, the end of argv, or the
\* arguments after "--".
LEMMA LoopExitStep ==
    ASSUME GInv, LoopExit
    PROVE  GInv'
  <1>1. /\ pc = "loop" /\ pc' = "check" /\ GTypes /\ Built /\ AtLoop
        /\ UNCHANGED <<args, pos, last_argc, command, needsNumber>>
    BY DEF LoopExit, GInv
  <1>2. Opts' = Opts
    BY <1>1 DEF Opts, OptsOf
  <1>3. needsNumber' \in BOOLEAN
    BY <1>1, Zenon DEF GTypes
  <1>4. GTypes'
    BY <1>1, <1>3 DEF GTypes
  <1>5. Built'
    BY <1>1, <1>2 DEF Built
  <1>6. AtCheck'
    <2>1. Argc = 0 \/ last_argc = Argc
      BY DEF LoopExit
    <2>2. pos > Len(args) \/ args[pos] \in Word
      BY <1>1, <2>1 DEF AtLoop, GTypes, Argc
    <2> QED
      BY <1>1, <2>2 DEF AtCheck
  <1>7. AtLoop' /\ Passed' /\ Refused'
    BY <1>1, RunningParts DEF AtLoop
  <1> QED
    BY <1>4, <1>5, <1>6, <1>7 DEF GInv

\* The check shows the usage exactly on the undocumented command lines, and
\* otherwise keeps the command and the number the command line gives.
LEMMA CheckStep ==
    ASSUME DigitsAreNumerals, GInv, Check
    PROVE  GInv'
  <1> DEFINE U == \/ command = "None"
                  \/ needsNumber /\ Argc # 1
                  \/ ~needsNumber /\ Argc # 0
                  \/ needsNumber /\ FromChars(args[pos]) < 0
             c == args[Opts]
  <1>1. /\ pc = "check" /\ GTypes /\ Built /\ AtCheck
        /\ UNCHANGED <<args, pos, last_argc, command, needsNumber>>
    BY DEF Check, GInv, Usage
  <1>2. /\ LeadingCommands(args) = Opts
        /\ Documented(args) <=> /\ Opts > 0
                                /\ Needs(c) => Argc = 1 /\ FromChars(args[pos]) >= 0
                                /\ ~Needs(c) => Argc = 0
    BY <1>1, CheckDoc
  <1>3. /\ Opts = 0 => command = "None"
        /\ Opts > 0 => command = CommandOf(c) /\ command # "None"
                       /\ needsNumber = Needs(c) /\ c \in Commands
    <2>1. Opts \in 0 .. Len(args) /\ \A j \in 1 .. Opts : args[j] \in Commands
      BY <1>1 DEF Built
    <2> QED
      BY <1>1, <2>1, CommandFacts DEF Built
  <1>4. FromChars(args[pos]) \in Int /\ Argc \in Int
    BY <1>1, GenRandomAssumption DEF FromChars, GTypes, Argc
  <1>5. needsNumber' \in BOOLEAN
    BY <1>1, Zenon DEF GTypes
  <1>6. CASE U
    <2>1. pc' = "usage"
      BY <1>6 DEF Check, Usage
    <2>2. ~Documented(args)
      <3>1. CASE Opts = 0
        BY <1>2, <3>1
      <3>2. CASE Opts > 0
        <4>1. Needs(c) \in BOOLEAN /\ needsNumber = Needs(c)
          BY <1>3, <3>2, CommandFacts
        <4> QED
          BY <1>2, <1>3, <1>4, <1>6, <3>2, <4>1
      <3> QED
        BY <1>1, <3>1, <3>2 DEF Built
    <2>3. GTypes'
      BY <1>1, <1>5, <2>1 DEF GTypes
    <2> QED
      BY <1>1, <2>1, <2>2, <2>3, EndedParts, RefusedParts DEF GInv
  <1>7. CASE ~U
    <2>1. pc' = "run" /\ number' = IF needsNumber THEN FromChars(args[pos]) ELSE 0
      BY <1>7 DEF Check
    <2>2. Opts > 0 /\ command = CommandOf(c) /\ needsNumber = Needs(c)
      <3>1. command # "None"
        BY <1>7 DEF U
      <3>2. Opts \in 0 .. Len(args)
        BY <1>1 DEF Built
      <3>3. Opts > 0
        BY <1>3, <3>1, <3>2
      <3> QED
        BY <1>3, <3>3
    <2>3. Documented(args)
      BY <1>2, <1>4, <1>7, <2>2
    <2>4. Needs(c) => number' = Lead[args[Len(args)]]
      <3> SUFFICES ASSUME Needs(c) PROVE number' = Lead[args[Len(args)]]
        OBVIOUS
      <3>0. needsNumber
        BY <2>2, Zenon
      <3>1. Argc = 1 /\ FromChars(args[pos]) >= 0
        BY <1>4, <1>7, <3>0 DEF U
      <3>2. pos = Len(args) /\ number' = FromChars(args[pos])
        <4>1. pos = Len(args)
          BY <1>1, <3>1 DEF Argc, GTypes
        <4>2. number' = FromChars(args[pos])
          BY <2>1, <3>0, Zenon
        <4> QED
          BY <4>1, <4>2
      <3> QED
        BY <3>1, <3>2 DEF FromChars
    <2>5. Passed'
      <3>1. Documented(args)' = Documented(args)
            /\ LeadingCommands(args)' = LeadingCommands(args)
        BY <1>1, SameArgsDoc
      <3> QED
        BY <1>1, <1>2, <2>1, <2>2, <2>3, <2>4, <3>1 DEF Passed
    <2>6. GTypes'
      BY <1>1, <1>5, <2>1 DEF GTypes
    <2> QED
      BY <2>1, <2>5, <2>6, EndedParts DEF GInv, Refused
  <1> QED
    BY <1>6, <1>7

\* NoContext and Generate end main without touching the command line.
LEMMA EndStep ==
    ASSUME GInv, NoContext \/ Generate
    PROVE  GInv'
  <1>1. /\ pc = "run" /\ pc' \in {"nocontext", "done"}
        /\ UNCHANGED <<args, pos, last_argc, command, needsNumber, number>>
    BY DEF NoContext, Generate
  <1>2. needsNumber' \in BOOLEAN
    BY <1>1, Zenon DEF GInv, GTypes
  <1>3. GTypes'
    BY <1>1, <1>2 DEF GInv, GTypes
  <1>4. Passed'
    <2>1. Passed
      BY DEF GInv
    <2>2. Documented(args)' = Documented(args)
          /\ LeadingCommands(args)' = LeadingCommands(args)
      BY <1>1, SameArgsDoc
    <2> QED
      BY <1>1, <2>1, <2>2 DEF Passed
  <1> QED
    BY <1>1, <1>3, <1>4, EndedParts DEF GInv, Refused

LEMMA UnchangedGInv ==
    ASSUME GInv, UNCHANGED vars
    PROVE  GInv'
  <1>1. Documented(args)' = Documented(args)
        /\ LeadingCommands(args)' = LeadingCommands(args)
    BY SameArgsDoc DEF vars
  <1>2. needsNumber' \in BOOLEAN
    BY Zenon DEF GInv, GTypes, vars
  <1> QED
    BY <1>1, <1>2
    DEF GInv, GTypes, Built, AtLoop, AtCheck, Passed, Refused, Opts, OptsOf, Argc, vars

LEMMA NextGInv ==
    ASSUME DigitsAreNumerals, GInv, [Next]_vars
    PROVE  GInv'
  BY LoopStep, LoopExitStep, CheckStep, EndStep, UnchangedGInv DEF Next

\* ArgumentsAsDocumented holds in every state, for every set of words,
\* every limit and every length of the command line, provided no word the
\* user types starts with digits unless it is a numeral
\* (run-genrandom.cpp:51 reads the number with std::from_chars, which stops
\* at the first non-digit): run-genrandom generates exactly for the command
\* lines its usage text documents, with their command and number, and shows
\* the usage on every other.
THEOREM ArgumentsAsDocumentedTheorem ==
    ASSUME DigitsAreNumerals
    PROVE  Spec => []ArgumentsAsDocumented
  <1>1. Init => GInv
    BY InitGInv
  <1>2. GInv /\ [Next]_vars => GInv'
    BY NextGInv
  <1>3. GInv => ArgumentsAsDocumented
    <2> SUFFICES ASSUME GInv PROVE ArgumentsAsDocumented
      OBVIOUS
    <2>1. Documented(args) \in BOOLEAN
      BY DEF Documented
    <2> QED
      BY <2>1 DEF GInv, Passed, Refused, ArgumentsAsDocumented
  <1> QED
    BY <1>1, <1>2, <1>3, PTL DEF Spec

=============================================================================
