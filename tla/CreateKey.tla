------------------------------ MODULE CreateKey ------------------------------
(***************************************************************************)
(* parseCommandLine() of src/tests/run-createkey.cpp: the argument loop as *)
(* a machine with one step per iteration, then the count check and the     *)
(* choice of user id or fingerprint.  The creation flags are the set of    *)
(* Context::Create* flags ORed into options.flags.  The parse ends in      *)
(* "help" (show_usage(0)), "usage" (show_usage(1)) or "done".             *)
(***************************************************************************)
EXTENDS Integers, Sequences, SequencesExt

CONSTANTS
    Token,    \* the arguments a user types
    MaxArgs   \* the longest command line

\* The options the loop accepts, with the creation flag each one ORs in.
FlagOf ==
    [o \in {"--certify", "--sign", "--encrypt", "--authenticate", "--group",
            "--unprotected", "--force"} |->
        CASE o = "--certify"      -> "CreateCertify"
          [] o = "--sign"         -> "CreateSign"
          [] o = "--encrypt"      -> "CreateEncrypt"
          [] o = "--authenticate" -> "CreateAuthenticate"
          [] o = "--group"        -> "CreateGroupKey"
          [] o = "--unprotected"  -> "CreateNoPassword"
          [] o = "--force"        -> "CreateForce"]

\* The options of the usage text, each spelling its brackets allow.
Advertised == DOMAIN FlagOf \cup {"--addkey", "--cert", "--encr", "--auth"}

\* The arguments that begin with "--" (strncmp(*argv, "--", 2) == 0).
DashDash == DOMAIN FlagOf \cup {"--", "--help", "--addkey", "--cert", "--encr",
                                "--auth", "--other"}

\* The arguments the tests of the if-else chain before the strncmp match.
Matched == {"--", "--help", "--addkey"} \cup DOMAIN FlagOf

ASSUME CreateKeyAssumption == MaxArgs \in Nat

VARIABLES
    args,       \* argv after the program name, as given
    pos,        \* the index of *argv in args
    last_argc,  \* last_argc
    command,    \* options.command
    flags,      \* options.flags
    name,       \* options.userid or options.fingerprint
    pc          \* "loop", "check", or where the parse ended

vars == <<args, pos, last_argc, command, flags, name, pc>>

Argc == Len(args) - pos + 1

Init ==
    /\ args \in SeqOf(Token, MaxArgs)
    /\ pos = 1
    /\ last_argc = -1
    /\ command = "CreateKey"
    /\ flags = {}
    /\ name = "none"
    /\ pc = "loop"

(***************************************************************************)
(* Mutant: options.flags = flag instead of options.flags |= flag.          *)
(***************************************************************************)
OrFlagAssigns(a) == {FlagOf[a]}

\* options.flags |= Context::Create...;
OrFlag(a) == flags \cup {FlagOf[a]}

\* while (argc && last_argc != argc) { last_argc = argc; if (!strcmp(...)) ... }
Loop ==
    /\ pc = "loop" /\ Argc # 0 /\ last_argc # Argc
    /\ last_argc' = Argc
    /\ LET a == args[pos] IN
       \/ a = "--" /\ pos' = pos + 1 /\ pc' = "check" /\ UNCHANGED <<command, flags>>
       \/ a = "--help" /\ pc' = "help" /\ UNCHANGED <<pos, command, flags>>
       \/ a = "--addkey" /\ command' = "CreateSubkey" /\ pos' = pos + 1
          /\ UNCHANGED <<flags, pc>>
       \/ a \in DOMAIN FlagOf /\ flags' = OrFlag(a) /\ pos' = pos + 1
          /\ UNCHANGED <<command, pc>>
       \/ a \in DashDash \ Matched /\ pc' = "usage" /\ UNCHANGED <<pos, command, flags>>
       \/ a \notin Matched \cup DashDash /\ UNCHANGED <<pos, command, flags, pc>>
    /\ UNCHANGED <<args, name>>

LoopExit ==
    /\ pc = "loop" /\ (Argc = 0 \/ last_argc = Argc)
    /\ pc' = "check"
    /\ UNCHANGED <<args, pos, last_argc, command, flags, name>>

\* if (argc != 1) show_usage(1); then userid or fingerprint = *argv.
Check ==
    /\ pc = "check"
    /\ IF Argc # 1 THEN pc' = "usage" /\ UNCHANGED name
       ELSE pc' = "done" /\ name' = args[pos]
    /\ UNCHANGED <<args, pos, last_argc, command, flags>>

Next == Loop \/ LoopExit \/ Check

Spec == Init /\ [][Next]_vars

-----------------------------------------------------------------------------
(* Properties *)

\* The length of the run of advertised options a command line starts with.
LeadingOptions(a) == Max({k \in 0 .. Len(a) : \A j \in 1 .. k : a[j] \in Advertised})

\* The command lines of the usage text: advertised options, an optional
\* "--", then one user id or fingerprint (which must not start with "--"
\* unless the "--" came first).
Documented(a) ==
    LET k == LeadingOptions(a)
        rest == SubSeq(a, k + 1, Len(a))
    IN  \/ Len(rest) = 2 /\ rest[1] = "--"
        \/ Len(rest) = 1 /\ rest[1] \notin DashDash

\* The option an advertised spelling stands for.
Spelled(o) == CASE o = "--cert" -> "--certify" [] o = "--encr" -> "--encrypt"
                [] o = "--auth" -> "--authenticate" [] OTHER -> o

\* The flags the options of the usage text ask for.
DocumentedFlags(a) ==
    {FlagOf[Spelled(a[j])] : j \in {j \in 1 .. LeadingOptions(a) :
                                      Spelled(a[j]) \in DOMAIN FlagOf}}

\* parseCommandLine accepts exactly the command lines its usage text
\* describes, with every option spelling it lists, and returns the flags
\* those options ask for, the subkey command when --addkey is among them,
\* and the last argument as the user id or fingerprint.
ParseAsDocumented ==
    pc \in {"usage", "done"} =>
        /\ (pc = "done") = Documented(args)
        /\ pc = "done" =>
              /\ flags = DocumentedFlags(args)
              /\ (command = "CreateSubkey")
                    = ("--addkey" \in {args[j] : j \in 1 .. LeadingOptions(args)})
              /\ name = args[Len(args)]

=============================================================================
