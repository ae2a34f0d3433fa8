---------------------------- MODULE ReductionTask ----------------------------
(***************************************************************************)
(* What a run of C-Reduce is given: the files to reduce, the passes, the   *)
(* interestingness test and the command-line options that steer            *)
(* delta_pass (creduce/creduce.in).  The modules that model the driver     *)
(* share these constants and the operators on a directory of files.        *)
(*                                                                         *)
(* A file's content is an abstract value with a size; a pass is a triple   *)
(* of functions new / transform / advance on contents and pass states,     *)
(* which is the interface every creduce/pass_*.pm implements.              *)
(***************************************************************************)
EXTENDS Naturals, Integers, Sequences, FiniteSets

CONSTANTS
    Files,              \* the files named on the command line (@toreduce)
    BaseName,           \* [Files -> names]: %fileonly, the name without directories
    Contents,           \* the contents a file may have
    Size(_),            \* -s: the size of a content
    Interesting(_),     \* the test's verdict on a temporary directory
    Passes,             \* "name :: arg" of every pass in the schedule
    States,             \* the states a pass may keep between two calls
    New(_),             \* <pass>::new(fn, arg): no pass looks at the file
    Transform(_, _, _), \* <pass>::transform(variant, arg, state)
    Advance(_, _),      \* <pass>::advance(variant, arg, state)
    NoEntry,            \* %cache has no value under a key
    UseCache,           \* not --no-cache
    GiveUpConstant,     \* $GIVEUP_CONSTANT, 0 under --no-give-up
    MaxWin,             \* --max-improvement; undefined is any value above all sizes
    SilentPassBugs,     \* --shaddap
    DieOnPassBug,       \* --die-on-pass-bug
    MaxCrashDirs,       \* $MAX_CRASH_DIRS
    Timeouts            \* a test may exceed $TIMEOUT_IN_SECONDS

\* What transform answers: a code, the variant it left in the temporary
\* directory and the state to keep if that variant is accepted.
TransformCodes == {"OK", "STOP", "ERROR"}
TransformResults == [res : TransformCodes, out : Contents, st : States]

ASSUME FilesAssumption == IsFiniteSet(Files) /\ Files # {}
ASSUME BaseNameAssumption == DOMAIN BaseName = Files
ASSUME SizeAssumption == \A c \in Contents : Size(c) \in Nat
ASSUME PassesAssumption == Passes # {}
ASSUME PassAssumption ==
    \A p \in Passes :
        /\ New(p) \in States
        /\ \A s \in States : Advance(p, s) \in States
        /\ \A c \in Contents, s \in States : Transform(p, c, s) \in TransformResults
ASSUME OptionsAssumption ==
    /\ UseCache \in BOOLEAN /\ Timeouts \in BOOLEAN
    /\ SilentPassBugs \in BOOLEAN /\ DieOnPassBug \in BOOLEAN
    /\ GiveUpConstant \in Nat /\ MaxWin \in Nat /\ MaxCrashDirs \in Nat
ASSUME NoEntryAssumption == NoEntry \notin Contents

Names == {BaseName[f] : f \in Files}
NumFiles == Cardinality(Files)

\* The orders @toreduce may be in: every file once.
Orders == {o \in [1..NumFiles -> Files] :
              /\ \A f \in Files : \E i \in 1..NumFiles : o[i] = f
              /\ \A i, j \in 1..NumFiles : o[i] = o[j] => i = j}

\* sort bysize: largest first, ties in any order.
SortedBySize(o, disk) ==
    \A i, j \in 1..NumFiles : i < j => Size(disk[o[i]]) >= Size(disk[o[j]])

\* copy_files_here: every file of `order` is copied to its base name, so the
\* last of the files that share a base name is the one that stays.
CopyFilesHere(order, disk) ==
    [n \in Names |->
        LET last == CHOOSE i \in 1..NumFiles :
                        /\ BaseName[order[i]] = n
                        /\ \A j \in (i + 1)..NumFiles : BaseName[order[j]] # n
        IN  disk[order[last]]]

\* $MAX_WIN is undefined, or the variant is not "too good" a step.
WithinMaxWin(old, new) == Size(old) - Size(new) < MaxWin

\* $since_success++, saturated one above the give-up limit: the code only
\* compares it with that limit, so no larger value can be told apart.
CountFailure(since) == IF since > GiveUpConstant THEN since ELSE since + 1

\* The pass has nothing to offer for content c in state s: it answers STOP or
\* ERROR, or it leaves the variant as the file was.
PassIsOver(p, c, tmp, s) ==
    LET t == Transform(p, tmp, s)
    IN  t.res # "OK" \/ t.out = c
=============================================================================
