# TLA+ models of gpgmepp

This directory holds TLA+ models, TLC configurations and TLAPS proofs for the
parts of gpgmepp under `src/` whose behaviour can be checked:
- the `Flags` bit-set template (`src/src/flags.h`);
- `GpgME::Error` with its errno plumbing and its lazily rendered message
  (`src/src/error.cpp`);
- the string helpers of `src/src/util.cpp`;
- the null-tolerant comparators of `src/src/global.h`;
- the random-value results (`src/src/randomresults.h`), as received by
  `run-genrandom`;
- the command-line handling of the two `run-*` programs under `src/tests`.

## The system and its parts

| Part | Source | State | Operations |
|------|--------|-------|------------|
| Flags | `flags.h` | `mFlags` of each object | constructors, `fromUnderlyingType`, `set`, `reset(flag)`, `reset()`, `\| & ^` and the enum-enum forms, `\|= &= ^=`, `~`; queries: `test`, `operator bool` |
| Error | `error.cpp` | the thread's `errno`; `mErr` and the `mMessage` cache of an Error | `setErrno`, `setSystemError`, `fromSystemError`, `fromErrno`, `fromCode`, `asString`; queries: `code`, `sourceID`, `isSuccess`, `isCanceled`, `isError`, `toErrno`, `hasSystemError` |
| split | `util.cpp` | the scan pointer, the views found | `split_into_string_views` |
| StringsToCStrings | `util.cpp` | `m_strings`, the lazily built `m_cstrings` | constructor, `c_strs` |
| comparators | `global.h` | none | `_gpgmepp_strcmp`, every overload of `_GPGMEPP_MAKE_STRCMP` |
| random results | `randomresults.h` | an error and a value | the three constructors of each class, `value()` |
| run-genrandom | `tests/run-genrandom.cpp` | argc/argv, command, number | argument loop, checks, `parseNumberArgument`, generation, output |
| run-createkey | `tests/run-createkey.cpp` | argc/argv, `Options` | `parseCommandLine` |

The parts interact only through values. `Error` does not use `Flags`.
`run-genrandom` receives random results from gpgme, which is modelled as
an environment that may fail. Apart from that pair, which GenRandom models
together, composing the parts would add no behaviour.

## Modules

- **Flags.tla** models `Flags<Enum,_Nb>`. An integer of the underlying type
  (`Width` bits) is the set of its one-bit positions, so `|`, `&` and `^` are
  union, intersection and symmetric difference. `Complement` is `operator~`:
  it complements within `Width` bits and masks to the low `_Nb` bits.
  - `flags[o]` holds `mFlags` of object `o`.
  - Each constructor, mutator and value-producing operator is an action.
  - `called` is a history variable. It records the `set`/`reset(flag)` call
    of the last step, so that calls which change nothing can still be
    checked.
- **ErrorCode.tla** models `GpgME::Error` over the libgpg-error encoding.
  The fields are given by their spans, not their bit widths, so that the
  prover can do the arithmetic.
  - The code field holds `CodeSpan = 2 * SystemError` values
    (`GPG_ERR_SYSTEM_ERROR` is the field's top bit).
  - The source field holds `SourceSpan` values and starts at `SourceUnit`.
  - `FieldAssumption` requires both spans and the unit to be powers of two
    (checked by TLC), with `SourceUnit` a multiple of `CodeSpan`.
  - `ErrMake`, `ErrCode`, `ErrSource` and the errno conversions are
    libgpg-error functions outside `src/`. They are modelled from the spec.
  - `SetErrno` also stands for any other call of the thread that writes
    `errno`.
  - `made` is a history variable: the call that produced `err`.
- **ErrorMessage.tla** models `asString()` and `format_error`.
  - Texts are abstracted to their lengths.
  - `StrErrorR` is `gpgme_strerror_r`. When the description does not fit,
    it may or may not leave a NUL in the buffer.
  - `Terminate` is the forced `buffer[sizeof buffer - 1] = '\0'`.
  - `str = buffer` is two steps, as libstdc++'s `assign` does it.
    `AssignBegin` decides from the string's state at its start whether
    the text fits (`room`): the string already has storage, or the text
    fits the `SsoCapacity` characters held without allocating.
    `AssignEnd` writes the text, and allocates fresh storage (freeing the
    old) when there was no room.
  - `alloc` counts the string's allocations. A pointer a caller holds is
    valid while its allocation is the current one.
  - `CallsSerialized` says that no two threads are inside `asString()` on
    the shared Error at once.
- **Splitter.tla** models `split_into_string_views` as a loop machine, one
  `strchr` iteration per step.
  - The argument is a sequence of characters followed by `Nul`, or `Null`.
  - `StrChr` looks at the terminator too, as `std::strchr` does.
  - `Tokens` is a declarative reference split: the maximal non-empty runs.
- **CStrings.tla** models `StringsToCStrings`.
  - The threads of `Thread` call `c_strs()` on one shared object.
  - Each statement that touches `m_cstrings` is one step.
  - `PushBack` reallocates to a nondeterministic larger capacity when full.
  - `held[t]` is the allocation the pointer of `t`'s last call points into.
  - The refinement mapping to CStringsAtomic:
    - `ArrayView` is `m_cstrings`, hidden as `<<>>` while a thread is
      between `reserve` and the final `push_back(nullptr)`;
    - `HoldingView` says which callers hold a pointer.
- **CStringsAtomic.tla** is what `c_strs()` promises, each call one atomic
  step:
  - `Build` is the first call, which builds the nullptr-terminated array;
  - `Get(t)` is a later call, which returns a pointer to that array;
  - `Drop(t)` is a caller releasing the pointer.
  The array never changes once built.
- **StrCmp.tla** models `_gpgmepp_strcmp` and every comparator overload.
  - Keys are byte strings or `Null`.
  - `std::string` operands reach `_gpgmepp_strcmp` through `c_str()`, which
    is never null.
  - The state is three keys fixed by `Init`.
- **GenRandom.tla** models `main` of `run-genrandom`.
  - The argument loop is one step per iteration, with the `last_argc`
    guard.
  - `FromChars` is `std::from_chars`, which parses the leading digits.
  - `Generate` receives any result the three constructors of
    `RandomValueResult` / `RandomBytesResult` can build: the default
    (`GPG_ERR_NO_VALUE`), a value, or an error from `ErrCode`.
  - `if (result.error())` is `IsError`, Error's bool conversion
    (`isError()`, error.cpp:80). It is false for success and for the two
    cancellation codes.
  - `out` is what main prints, and `generated` (history) is what the library
    generated.
  - `unsigned int` is scaled to `UIntMax` = 9, with "10" as the
    out-of-range numeral.
  - `Loop` has one disjunct per branch of the if-else chain. The guards are
    disjoint, as the chain's order makes them.
  - "--other" stands for every argument that begins with "--" and is none
    of the options. The chain treats all of them alike (`show_usage(1)`),
    so one spelling covers them.
- **CreateKey.tla** models `parseCommandLine` of `run-createkey`.
  - The flags are the set of `Context::Create*` flags ORed in.
  - `FlagOf` maps each flag option to its flag.
  - `Matched` is the set of spellings the `strcmp` tests of the chain accept.
  - `Loop` has one disjunct per branch, the last two being the `strncmp`
    test and the fall-through.
  - As in GenRandom, "--other" stands for every unknown "--" option.
- **MC_*.tla** define model values and small tables for TLC.
- **FlagsProofs.tla, ErrorCodeProofs.tla, ErrorMessageProofs.tla,
  GenRandomProofs.tla, SplitterProofs.tla, CStringsProofs.tla,
  StrCmpProofs.tla and CreateKeyProofs.tla** hold the TLAPS proofs.

## Runs

| Run | Expect | Checks | Shows |
|-----|--------|--------|-------|
| flags | pass | NoBitsBeyondNb, SetResetEffect | no operation sequence sets a bit at `_Nb` or above; `set`/`reset` keep their contract |
| flags_raw_high_bits | violation | ComplementInvolution | `~~a != a` when `a` came from `fromUnderlyingType` with bits at or above `_Nb` |
| error_code | pass | TypeOK, FromCodeContract, ErrnoRoundTrip | over every interleaving of errno writes and factories, `fromCode` keeps representable codes and sources, errno-derived errors convert back, `fromSystemError` with errno 0 is an error |
| error_message | pass | MessageTruncatedWhenSerialized | two threads whose `asString()` calls do not overlap: the text is the description cut to the buffer, copied from a terminated buffer, and no returned pointer is invalidated |
| error_message_two_threads | violation | NoDataRace | one thread writes `mMessage` while another tests or reads it |
| splitter | pass | TypeOK, SplitCorrect, NoInvalidRead, ViewsInText, Terminates | every string of up to 5 characters (and null) splits into exactly the non-empty segments. At every step, each view is a non-empty, delimiter-free run inside the string, in text order. Reads stay in the buffer, and the call returns |
| splitter_nul_delimiter | violation | NoInvalidRead | with delimiter `'\0'`, `strchr` finds the terminator and the scan continues past it |
| cstrings | pass | ReturnedArrayValid, AtomicRefinement | repeated `c_strs()` calls by one thread return the same valid, nullptr-terminated array, and the calls implement CStringsAtomic |
| strcmp | pass | ComparatorsConsistent | the comparators are a strict weak order, null included, and the six Ops agree |
| genrandom | pass | ArgumentsAsDocumented, Terminates | the program generates exactly for the documented command lines and always exits |
| genrandom_canceled | violation | OutputFromResult | a canceled generation is not an error for `result.error()`, so main prints the default value of a result the library never filled |
| createkey | pass | ParseAsDocumented | every command line over the accepted spellings is accepted exactly when documented, with its flags, command and name |

Each property of a passing run has a mutant in `PROJECT.json`: a plausible
bug in the mapped code, which TLC finds under the run's own configuration.

Findings:
- `operator~` masks while `fromUnderlyingType` does not (flags.h:187).
- `split_into_string_views` with delimiter `'\0'` reads past the string
  (util.cpp:40).
- `asString()` writes the cache of a shared `Error` without
  synchronisation, though the spec names `errno` as the only shared mutable
  state (error.cpp:48).
- `run-genrandom` prints the default value of a canceled result as if it
  had been generated (run-genrandom.cpp:127).

Two known mismatches in the test drivers are recorded as hazards rather
than runs:
- `run-createkey` shows the usage and exits on `--cert`, which its usage
  lists (run-createkey.cpp:103).
- `run-genrandom` takes `5x` as 5 (run-genrandom.cpp:51).

The pass runs' inputs use the spellings and numerals the code accepts, so
that they check the rest of the parse.

Bounds:
- Flags uses two objects, `Width` = 5 and `_Nb` = 4. The complement has a
  bit to mask, and a two-bit enumerator overlaps two single-bit ones.
- ErrorCode uses a 4-bit code field (`SystemError` = 8) and a 2-bit source
  field starting at bit 5 (`SourceSpan` = 4, `SourceUnit` = 32). The inputs
  are too wide for each field, so every mask of `gpgme_err_make` is
  exercised.
- ErrorMessage uses two threads, a 3-byte buffer and descriptions of 1 to
  4 characters: shorter than, filling and overflowing it. `SsoCapacity` = 1
  makes a 1-character text fit without allocating and a 2-character text
  allocate, so both branches of the assignment occur.
- Splitter uses strings of up to 5 characters over a delimiter and another
  character. These reach leading, trailing, doubled and absent delimiters.
- CStrings uses vectors of up to 3 strings, and the empty vector. The
  first call's `reserve` reallocates, and later calls must keep that
  allocation.
- StrCmp uses every triple of strings of up to 2 bytes and null. Prefixes,
  equal strings and both null orders occur.
- GenRandom and CreateKey use every command line of up to 3 arguments. That
  covers "--" before and after an option, a repeated command, a missing and
  an extra argument, and an argument that stops the loop.

## Fairness

- Flags, ErrorCode, ErrorMessage, CStrings and StrCmp are libraries that act
  only when called. Their specifications have no fairness, and no property
  is about progress.
- Splitter and GenRandom assume `WF_vars(Next)`. Each models one
  single-threaded function, or a program, that keeps running once started;
  nothing in them waits.
- `Terminates` is checked under that assumption. For GenRandom it shows
  that the `last_argc` guard ends the loop on an argument it does not
  consume. A mutant without the guard loops forever.
- CreateKey has no liveness property.

## Proofs (all checked by tlapm)

- **FlagsProofs**
  - The lemma `TypeCorrect` (`Spec => []TypeOK`) is what the theorems
    below rest on.
  - `NoBitsBeyondNbTheorem`: under `InputsWithinNb`.
    - The invariant is inductive with `TypeOK`.
    - The lemma `OperandWithinNb` bounds every operand.
  - `SetResetEffectTheorem`: under `InputsWithinNb` and
    `NonZeroEnumerators`.
    - `x & ~e` is `x \ e` on in-range values.
    - A zero-valued enumerator would make `test` always true.
- **ErrorMessageProofs**: `MessageTruncatedTheorem`, which states
  `Spec => MessageTruncatedWhenSerialized`. It holds for every set of
  threads, every buffer of at least 2 bytes and every `SsoCapacity`.
  - The inductive invariant `IInv` adds these facts to `MessageTruncated`:
    - a filled cache holds the truncated text;
    - a thread about to return finds it filled;
    - a thread whose assignment found no room finds the cache still empty.
  - With these, the allocating `AssignEnd` happens only while the cache is
    empty, and then no caller holds a pointer.
  - `NextIInv` shows that `IInv` is kept by every step into a state where
    `CallsSerialized` holds. Then `PTL` gives `[]IInv` under
    `[]CallsSerialized`.
  - Without `CallsSerialized` the third fact fails. Two first calls can
    both begin their assignment on the empty string. The second
    `AssignEnd` then frees the storage the first call returned. TLC finds
    this when `MessageTruncated` is checked as a plain invariant with two
    threads.
  - `FormatErrorResult` shows that `Terminate` of every `gpgme_strerror_r`
    outcome is the truncated, terminated text.
  - The assumption `BufSize >= 2` is needed: with a 1-byte buffer the text
    is empty and the cache never fills.
- **GenRandomProofs**: `ArgumentsAsDocumentedTheorem`, for every word set,
  `UIntMax` and `MaxArgs`. "--other" stands for every unknown "--" option,
  so this covers every command line.
  - Hypothesis `DigitsAreNumerals`: a word with leading digits is a
    numeral. `std::from_chars` stops at the first non-digit
    (run-genrandom.cpp:51), so without the hypothesis "--number 5x"
    generates although the usage text does not document it. That is the
    hazard listed for that line.
  - `GenRandomAssumption` states that numerals have a non-negative value.
  - The property is not inductive. The inductive invariant `GInv` adds:
    - `Built`: during the loop and the check, the consumed arguments are
      commands, and `command` and `needsNumber` are those of the last one.
    - `AtLoop`: a loop stopped by the `last_argc` guard stands on a word.
    - `AtCheck`: the check stands after a "--", at the end, or on a word.
    - `Passed` and `Refused`: the state after the check agrees with
      `Documented`.
  - `LeadingIs` computes the `Max` in `LeadingCommands`.
  - `DocumentedIs` restates `Documented` in terms of `RestAfter`, which is
    the arguments after the commands and an optional "--". It uses
    `SubSeq`/`Tail` facts of SequenceTheorems.
  - `CheckDoc` shows that at the check `RestAfter` is the rest of argv.
    Therefore the check's usage condition is exactly `~Documented(args)`.
  - There is one step lemma per action (`LoopStep`, `LoopExitStep`,
    `CheckStep`, `EndStep`). `LoopRefuses` covers "--help" and unknown
    options.
  - TLC checked `GInv` with `MaxArgs` = 4 before the proof.
- **CreateKeyProofs**: `ParseAsDocumentedTheorem`, for every token set and
  `MaxArgs`, with "--other" standing for every unknown "--" option.
  - Hypothesis: no token is "--cert", "--encr" or "--auth". The usage text
    lists these spellings, but the `strcmp` chain matches none of them.
    The `strncmp` test at run-createkey.cpp:103 then shows the usage and
    exits. That is the hazard listed for that line.
  - The inductive invariant `PInv` has these parts:
    - `Built`: the consumed arguments are accepted options, and the flags
      and the command are the ones they give (`FlagsUpTo`, `AddkeyUpTo`).
    - `AtLoop` and `AtCheck`: what the loop and the check stand on.
  - `LeadingIs` and `DocumentedIs` compute `Documented`.
  - `CheckSees` relates what the check sees to `Documented`.
  - There is one step lemma per action.
  - TLC checked `PInv` with `MaxArgs` = 4 before the proof.
- **SplitterProofs**
  - `NoInvalidReadTheorem`, under `Nul \notin Delim`:
    - `MinOfNat` (from `WFMin` and `NatLessThanWellFounded`) shows that
      `StrChr` picks a position that holds the delimiter.
    - `BufEndsInNul` shows that this position lies before the terminator,
      so `s <= Len(Buf)` is kept.
    - The invariant is strengthened with the types and `s = 1` before the
      loop.
  - `ViewsInTextTheorem` and `TypeCorrect`, for every delimiter, NUL
    included:
    - The inductive invariant `VInv` adds to `ViewsInText` the types, an
      empty result before the loop, and no delimiter from `s` to the end
      once `strchr` returned null.
    - `LastSegment` needs that last fact: the `strlen` segment must hold no
      delimiter.
    - The lemmas `StrChrFound`, `StrChrNone`, `StrLenToEnd` and `BufChars`
      state what `strchr` and `strlen` return.
    - `AppendView` shows that an `emplace_back` of a delimiter-free run
      starting after every earlier view keeps the views valid.
- **ErrorCodeProofs**: `TypeCorrect`, `FromCodeContractTheorem` and
  `ErrnoRoundTripTheorem`, for every field layout allowed by
  `FieldAssumption`. The errno table and the inputs are any that satisfy
  `ReservedAssumption`, `TableAssumption` and `InputAssumption`. The table
  assumption asks that every known errno maps back to itself, as
  libgpg-error's tables do.
  - `CodeBelowSource` and `MakeFields` show that `ErrCode` and `ErrSource`
    give back the fields of `ErrMake`. They rest on `SourceUnit` being a
    multiple of `CodeSpan`. Powers of two are not needed there, and the
    prover cannot reason about `2^n` for a symbolic `n`.
  - `ErrnoCodes` and `MadeFromErrnoCode` follow an errno through
    `gpg_err_code_from_errno` and back.
  - `made` (history) is the induction's handle: each invariant is stated
    about the call that produced `err`.
- **CStringsProofs**: two theorems, each under the hypothesis
  `Thread = {t0}`.
  - `ReturnedArrayValidTheorem`:
    - `IInv` is `TypeOK` and, for each thread, how much of `m_cstrings` its
      program counter implies is built (`ThreadInv`).
    - A pointer is held only while the array is `Full` and its allocation
      is current.
  - `AtomicRefinementTheorem`: `Init` maps to `Atomic!Init`.
    - `Terminate` (the nullptr `push_back`) maps to `Build`.
    - `Return` maps to `Get`, and `Release` maps to `Drop`.
    - Every other step maps to a stutter.
  - The single-thread hypothesis is the code's own limit. With two threads,
    TLC finds `ReturnedArrayValid` violated (see the hazard at
    util.cpp:59).
- **StrCmpProofs**: `ComparatorsConsistentTheorem`, for every `MaxLen` and
  byte set.
  - `FirstDiff`, `StrcmpAntisym`, `StrcmpZero` and `StrcmpNegative` pin
    `_gpgmepp_strcmp` to the first differing byte.
  - `LexTransitive` and `LessTransitive` give the strict weak order.
  - `EquivIsEqual` shows that incomparable keys are equal.

Model-checked only:
- `SplitCorrect`: it compares against `SetToSortSeq`, a result about a
  recursive computation. Induction over data is out of the prover's reach.
- `ArgumentsAsDocumented` and `ParseAsDocumented` on the word sets their
  hypotheses exclude ("5x", "--cert"). There the properties are false,
  which is what the hazards record.
- The `Terminates` properties: liveness is out of the prover's reach.
- The violation runs, which are counterexamples by nature.
- The two-thread races of `StringsToCStrings::c_strs()`. With
  `Thread = {t1, t2}`, TLC finds `ReturnedArrayValid` violated: a thread
  returns the array another thread is still filling, or a second
  `push_back` past the reserved capacity moves the array. These are
  recorded as hazards (util.cpp:59 and :61). The cstrings run and the
  proofs cover one calling thread.

## Not modelled

- `Error::source`, `asStdString`, `operator<<`, and Flags' `operator<<`:
  they format text into fresh strings and change no state.
- The enumerations and declarations of `global.h`: they have no behaviour
  in this repository.
- `main` of `run-createkey` after `parseCommandLine`: it calls key
  generation in gpgme and prints, with no state of its own.
- `t-flags` and `t-utils`: they are unit tests. Their expectations are what
  the Flags and Splitter runs check.

## Plan

1. An abstract set-of-enumerators specification of Flags, and a refinement
   mapping from `Flags` when the inputs are within `_Nb`.
2. A refinement of the Splitter loop to a specification that emits one
   token per step.
