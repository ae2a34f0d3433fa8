--------------------------- MODULE SequentialPass ---------------------------
(***************************************************************************)
(* What delta_pass promises, without processes: a greedy search that holds *)
(* one pass state, builds one variant at a time, tests it, and replaces    *)
(* the file at once when the test finds the variant interesting.           *)
(*                                                                         *)
(* DeltaPass.tla, which tests several speculative variants at the same     *)
(* time, is shown to implement this specification: speculation changes how *)
(* long a pass takes and never what it may produce.                        *)
(***************************************************************************)
EXTENDS ReductionTask

CONSTANT NoState    \* no pass is working on a file

VARIABLES
    disk,       \* the contents of the files being reduced
    cache,      \* the results of completed passes
    toreduce,   \* the files in the order the pass takes them
    nth,        \* the position in toreduce
    pass,       \* the pass that runs or ran last
    before,     \* the content of the current file when the pass began with it
    st,         \* the pass state, or NoState between files
    since,      \* variants rejected since the last one accepted
    skip,       \* the user asked to skip the rest of the pass
    phase       \* "idle", "file", "try" or "exit"

vars == <<disk, cache, toreduce, nth, pass, before, st, since, skip, phase>>

Fn == toreduce[nth]
Tmp == CopyFilesHere(toreduce, disk)
Try == Transform(pass, Tmp[BaseName[Fn]], st)
Over == PassIsOver(pass, disk[Fn], Tmp[BaseName[Fn]], st)
Candidate == [Tmp EXCEPT ![BaseName[Fn]] = Try.out]

Init ==
    /\ toreduce \in Orders
    /\ disk \in [Files -> Contents]
    /\ Interesting(CopyFilesHere(toreduce, disk))
    /\ cache = [p \in Passes |-> [c \in Contents |-> NoEntry]]
    /\ nth = 1
    /\ pass = CHOOSE p \in Passes : TRUE
    /\ before = CHOOSE c \in Contents : TRUE
    /\ st = NoState
    /\ since = 0
    /\ skip = FALSE
    /\ phase = "idle"

CallPass(p) ==
    /\ phase = "idle"
    /\ \E f \in Files : Size(disk[f]) # 0
    /\ pass' = p
    /\ \E o \in Orders : SortedBySize(o, disk) /\ toreduce' = o
    /\ nth' = 1
    /\ skip' = FALSE
    /\ phase' = "file"
    /\ UNCHANGED <<disk, cache, before, st, since>>

NextFile == nth' = nth + 1 /\ phase' = "file" /\ st' = NoState

SkipEmptyFile ==
    /\ phase = "file" /\ nth <= NumFiles /\ Size(disk[Fn]) = 0
    /\ NextFile
    /\ UNCHANGED <<disk, cache, toreduce, pass, before, since, skip>>

TakeCached ==
    /\ phase = "file" /\ nth <= NumFiles /\ UseCache
    /\ cache[pass][disk[Fn]] # NoEntry
    /\ disk' = [disk EXCEPT ![Fn] = cache[pass][disk[Fn]]]
    /\ NextFile
    /\ before' = disk[Fn]
    /\ UNCHANGED <<cache, toreduce, pass, since, skip>>

StartFile ==
    /\ phase = "file" /\ nth <= NumFiles /\ Size(disk[Fn]) # 0
    /\ UseCache => cache[pass][disk[Fn]] = NoEntry
    /\ before' = disk[Fn]
    /\ st' = New(pass)
    /\ since' = 0
    /\ phase' = "try"
    /\ UNCHANGED <<disk, cache, toreduce, nth, pass, skip>>

ReturnFromPass ==
    /\ phase = "file" /\ nth > NumFiles
    /\ phase' = "idle"
    /\ UNCHANGED <<disk, cache, toreduce, nth, pass, before, st, since, skip>>

\* The variant is interesting: it becomes the file.
Accept ==
    /\ phase = "try" /\ ~Over
    /\ Interesting(Candidate)
    /\ WithinMaxWin(disk[Fn], Try.out)
    /\ disk' = [disk EXCEPT ![Fn] = Try.out]
    /\ st' = Try.st
    /\ since' = 0
    /\ UNCHANGED <<cache, toreduce, nth, pass, before, skip, phase>>

\* The variant is uninteresting, or too good a step, or its test timed out.
Reject ==
    /\ phase = "try" /\ ~Over
    /\ \/ Timeouts
       \/ ~Interesting(Candidate)
       \/ ~WithinMaxWin(disk[Fn], Try.out)
    /\ st' = Advance(pass, Try.st)
    /\ since' = CountFailure(since)
    /\ UNCHANGED <<disk, cache, toreduce, nth, pass, before, skip, phase>>

PressSkip ==
    /\ phase = "try"
    /\ skip' = TRUE
    /\ UNCHANGED <<disk, cache, toreduce, nth, pass, before, st, since, phase>>

\* The pass has no more variants, or the user skipped it; only here is a
\* result remembered.
EndFile ==
    /\ phase = "try" /\ (skip \/ Over)
    /\ cache' = IF UseCache THEN [cache EXCEPT ![pass][before] = disk[Fn]] ELSE cache
    /\ NextFile
    /\ UNCHANGED <<disk, toreduce, pass, before, since, skip>>

GiveUp ==
    /\ phase = "try" /\ GiveUpConstant # 0 /\ since > GiveUpConstant
    /\ NextFile
    /\ UNCHANGED <<disk, cache, toreduce, pass, before, since, skip>>

\* A pass is called when every file has reached zero size.
NothingLeft(p) ==
    /\ phase = "idle"
    /\ \A f \in Files : Size(disk[f]) = 0
    /\ pass' = p
    /\ phase' = "exit"
    /\ UNCHANGED <<disk, cache, toreduce, nth, before, st, since, skip>>

\* A pass bug is fatal.
Die ==
    /\ phase = "try" /\ DieOnPassBug
    /\ phase' = "exit"
    /\ st' = NoState
    /\ UNCHANGED <<disk, cache, toreduce, nth, pass, before, since, skip>>

Next ==
    \/ \E p \in Passes : CallPass(p) \/ NothingLeft(p)
    \/ SkipEmptyFile \/ TakeCached \/ StartFile \/ ReturnFromPass
    \/ Accept \/ Reject \/ PressSkip \/ EndFile \/ GiveUp \/ Die

Spec == Init /\ [][Next]_vars
=============================================================================
