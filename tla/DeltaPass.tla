------------------------------ MODULE DeltaPass ------------------------------
(***************************************************************************)
(* delta_pass of creduce/creduce.in: one pass over all files, with up to   *)
(* NProcs interestingness tests running in child processes.                *)
(*                                                                         *)
(* The parent builds variants one after the other, each from the pass      *)
(* state that follows the previous one, as if the previous one were going  *)
(* to be uninteresting, and forks a test for each.  It consumes the        *)
(* results in the order of the variants.  When one is interesting all that *)
(* come after it were built on a wrong guess: they are killed and the      *)
(* parent starts again from the accepted variant.                          *)
(*                                                                         *)
(* The parent's control points (pc):                                       *)
(*   idle   between two calls of delta_pass                                *)
(*   file   the head of the foreach over @toreduce                         *)
(*   again  the label AGAIN, where the terminal is polled                  *)
(*   fill   the loop that creates children, then the wait for one          *)
(*   peel   the loop that consumes results at the front of @variants       *)
(*   check  the give-up and the termination condition                      *)
(*   exit   the process has exited                                         *)
(***************************************************************************)
EXTENDS ReductionTask

CONSTANTS
    NProcs,         \* $NPROCS
    Pids,           \* process identifiers
    NoPid,          \* -1: the child of this variant has been waited for
    Signals,        \* a child may be killed from outside (out of memory, ...)
    SkipKey         \* not --skip-key-off

ASSUME ProcsAssumption ==
    /\ NProcs \in Nat \ {0}
    /\ NoPid \notin Pids
    /\ Signals \in BOOLEAN /\ SkipKey \in BOOLEAN

VARIABLES
    disk,           \* the contents of the files being reduced
    cache,          \* %cache
    toreduce,       \* @toreduce
    nth,            \* the position of $fn in @toreduce
    pass,           \* $passname
    before,         \* $file_before_pass
    state,          \* $state
    since,          \* $since_success
    stopped,        \* $stopped
    skip,           \* $skip
    variants,       \* @variants
    numRunning,     \* $num_running
    proc,           \* the operating system's view of the children
    bugs,           \* how many creduce_bug_* directories exist
    stopAt,         \* auxiliary: the state on which the pass had nothing to offer
    pc

task == <<disk, cache, toreduce, nth, pass, before>>
search == <<state, since, stopped, skip, stopAt>>
children == <<variants, numRunning, proc>>
vars == <<task, search, children, bugs, pc>>

\* A child runs the test, or has exited with 0 or 1, or died of a signal; it
\* stays a zombie until it is waited for.
ProcStatus == {"none", "running", "exit0", "exit1", "signalled"}
Zombie(pid) == proc[pid] \in {"exit0", "exit1", "signalled"}

Fn == toreduce[nth]
Base == BaseName[Fn]
Tmp == CopyFilesHere(toreduce, disk)

-----------------------------------------------------------------------------
Init ==
    /\ toreduce \in Orders
    /\ disk \in [Files -> Contents]
    /\ Interesting(CopyFilesHere(toreduce, disk))       \* sanity_check
    /\ cache = [p \in Passes |-> [c \in Contents |-> NoEntry]]
    /\ nth = 1
    /\ pass = CHOOSE p \in Passes : TRUE
    /\ before = CHOOSE c \in Contents : TRUE
    /\ state = CHOOSE s \in States : TRUE
    /\ since = 0 /\ stopped = FALSE /\ skip = FALSE
    /\ stopAt = CHOOSE s \in States : TRUE
    /\ variants = <<>> /\ numRunning = 0
    /\ proc = [pid \in Pids |-> "none"]
    /\ bugs \in 0..MaxCrashDirs      \* some may be left from earlier runs
    /\ pc = "idle"

\* The `(pid, newsh, tmpdir, variant, result)` of a freshly forked child.
\* `from` is auxiliary: the pass state the variant was built from.
Variant(pid, from, t) ==
    [pid |-> pid, from |-> from, newsh |-> t.st,
     dir |-> [Tmp EXCEPT ![Base] = t.out], res |-> "pending"]

\* report_pass_bug: a directory is made unless there are too many already.
\* The return when there are comes before the test of $DIE_ON_PASS_BUG.
BugIsFatal == DieOnPassBug /\ (SilentPassBugs \/ bugs < MaxCrashDirs)
ReportPassBug(next) ==
    /\ bugs' = IF SilentPassBugs \/ bugs >= MaxCrashDirs THEN bugs ELSE bugs + 1
    /\ pc' = IF BugIsFatal THEN "exit" ELSE next

\* The children of a list of variants that have not been waited for.
RunningPids(rest) == {rest[k].pid : k \in DOMAIN rest} \ {NoPid}

\* Faulty: every element of the list is counted as a running child.
KillemCountsAll(rest) ==
    /\ variants' = <<>>
    /\ numRunning' = numRunning - Len(rest)
    /\ proc' = [pid \in Pids |-> IF pid \in RunningPids(rest) THEN "none" ELSE proc[pid]]

\* killem: every child still listed is killed and waited for, and the list of
\* variants is emptied.  With --no-kill the wait takes longer; the result is
\* the same.  `rest` is the list at the time of the call.
Killem(rest) ==
    /\ variants' = <<>>
    /\ numRunning' = numRunning - Cardinality(RunningPids(rest))
    /\ proc' = [pid \in Pids |-> IF pid \in RunningPids(rest) THEN "none" ELSE proc[pid]]

-----------------------------------------------------------------------------
(* The foreach over the files.                                             *)

\* delta_pass is called; it dies if children of an earlier call remain and
\* exits if there is nothing left to reduce.
CallPass(p) ==
    /\ pc = "idle"
    /\ pass' = p
    /\ \/ /\ variants # <<>> \/ numRunning # 0 \/ \A f \in Files : Size(disk[f]) = 0
          /\ pc' = "exit"
          /\ UNCHANGED <<toreduce, nth, skip>>
       \/ /\ variants = <<>> /\ numRunning = 0
          /\ \E f \in Files : Size(disk[f]) # 0
          /\ \E o \in Orders : SortedBySize(o, disk) /\ toreduce' = o
          /\ nth' = 1
          /\ skip' = FALSE
          /\ pc' = "file"
    /\ UNCHANGED <<disk, cache, before, state, since, stopped, stopAt, children, bugs>>

SkipEmptyFile ==
    /\ pc = "file" /\ nth <= NumFiles
    /\ Size(disk[Fn]) = 0
    /\ nth' = nth + 1
    /\ UNCHANGED <<disk, cache, toreduce, pass, before, search, children, bugs, pc>>

\* The pass has been run on this very content before: its result is written
\* to the file, and nothing is tested.
CacheHit == UseCache /\ cache[pass][disk[Fn]] # NoEntry
TakeCached ==
    /\ pc = "file" /\ nth <= NumFiles
    /\ Size(disk[Fn]) # 0
    /\ CacheHit
    /\ before' = disk[Fn]
    /\ disk' = [disk EXCEPT ![Fn] = cache[pass][disk[Fn]]]
    /\ nth' = nth + 1
    /\ UNCHANGED <<cache, toreduce, pass, search, children, bugs, pc>>

StartFile ==
    /\ pc = "file" /\ nth <= NumFiles
    /\ Size(disk[Fn]) # 0
    /\ ~CacheHit
    /\ before' = disk[Fn]
    /\ state' = New(pass)
    /\ since' = 0
    /\ stopped' = FALSE
    /\ pc' = "again"
    /\ UNCHANGED <<disk, cache, toreduce, nth, pass, skip, stopAt, children, bugs>>

ReturnFromPass ==
    /\ pc = "file" /\ nth > NumFiles
    /\ pc' = "idle"
    /\ UNCHANGED <<task, search, children, bugs>>

-----------------------------------------------------------------------------
(* Creating variants.                                                      *)

\* The "s" key is read once per turn; it is remembered for the files that
\* remain in this call, too.
PollKey ==
    /\ pc = "again"
    /\ skip' \in IF SkipKey THEN {skip, TRUE} ELSE {skip}
    /\ pc' = "fill"
    /\ UNCHANGED <<task, state, since, stopped, stopAt, children, bugs>>

\* Faulty: the limit on processes is off by one.
MayCreateOneMore == ~stopped /\ ~skip /\ numRunning <= NProcs

MayCreate == ~stopped /\ ~skip /\ numRunning < NProcs

\* $state is overwritten by what transform returns, whatever the code.
TransformStops ==
    LET t == Transform(pass, Tmp[Base], state)
    IN  /\ pc = "fill" /\ MayCreate
        /\ t.res = "STOP"
        /\ state' = t.st
        /\ stopped' = TRUE
        /\ stopAt' = state
        /\ UNCHANGED <<task, since, skip, children, bugs, pc>>

\* The pass reports an error, or claims success for a variant that is the
\* file as it was: a pass bug, and no more variants.
TransformFails ==
    LET t == Transform(pass, Tmp[Base], state)
    IN  /\ pc = "fill" /\ MayCreate
        /\ t.res = "ERROR" \/ (t.res = "OK" /\ t.out = disk[Fn])
        /\ ReportPassBug("fill")
        /\ state' = t.st
        /\ stopped' = IF BugIsFatal THEN stopped ELSE TRUE
        /\ stopAt' = state
        /\ UNCHANGED <<task, since, skip, children>>

\* A child is forked to test the variant, and the pass moves on as if the
\* variant were uninteresting.
ForkTest(pid) ==
    LET t == Transform(pass, Tmp[Base], state)
    IN  /\ pc = "fill" /\ MayCreate
        /\ t.res = "OK" /\ t.out # disk[Fn]
        /\ proc[pid] = "none"
        /\ proc' = [proc EXCEPT ![pid] = "running"]
        /\ variants' = Append(variants, Variant(pid, state, t))
        /\ numRunning' = numRunning + 1
        /\ state' = Advance(pass, t.st)
        /\ UNCHANGED <<task, since, stopped, skip, stopAt, bugs, pc>>

\* Faulty: the result is filed with the variant at the front.
WaitForChildFront(pid) ==
    /\ pc = "fill" /\ ~MayCreate /\ numRunning > 0
    /\ Zombie(pid)
    /\ proc' = [proc EXCEPT ![pid] = "none"]
    /\ numRunning' = numRunning - 1
    /\ variants' = [variants EXCEPT
                       ![1].pid = NoPid,
                       ![1].res = IF proc[pid] = "exit1" THEN "bad" ELSE "good"]
    /\ pc' = "peel"
    /\ UNCHANGED <<task, search, bugs>>

\* Faulty: the exit status is taken for a truth value.
WaitForChildInverted(pid) ==
    /\ pc = "fill" /\ ~MayCreate /\ numRunning > 0
    /\ Zombie(pid)
    /\ proc' = [proc EXCEPT ![pid] = "none"]
    /\ numRunning' = numRunning - 1
    /\ variants' = [k \in DOMAIN variants |->
                       IF variants[k].pid # pid THEN variants[k]
                       ELSE [variants[k] EXCEPT
                               !.pid = NoPid,
                               !.res = IF proc[pid] = "exit1" THEN "good" ELSE "bad"]]
    /\ pc' = "peel"
    /\ UNCHANGED <<task, search, bugs>>

\* Faulty: $num_running is not decremented.
WaitForChildUncounted(pid) ==
    /\ pc = "fill" /\ ~MayCreate /\ numRunning > 0
    /\ Zombie(pid)
    /\ proc' = [proc EXCEPT ![pid] = "none"]
    /\ variants' = [k \in DOMAIN variants |->
                       IF variants[k].pid # pid THEN variants[k]
                       ELSE [variants[k] EXCEPT
                               !.pid = NoPid,
                               !.res = IF proc[pid] = "exit1" THEN "bad" ELSE "good"]]
    /\ pc' = "peel"
    /\ UNCHANGED <<task, search, numRunning, bugs>>

\* wait() returns a child that has ended, any of them; the result is filed
\* with the child's variant.  A child killed by a signal has $? >> 8 == 0.
WaitForChild(pid) ==
    /\ pc = "fill" /\ ~MayCreate /\ numRunning > 0
    /\ Zombie(pid)
    /\ proc' = [proc EXCEPT ![pid] = "none"]
    /\ numRunning' = numRunning - 1
    /\ variants' = [k \in DOMAIN variants |->
                       IF variants[k].pid # pid THEN variants[k]
                       ELSE [variants[k] EXCEPT
                               !.pid = NoPid,
                               !.res = IF proc[pid] = "exit1" THEN "bad" ELSE "good"]]
    /\ pc' = IF \E k \in DOMAIN variants : variants[k].pid = pid THEN "peel" ELSE "exit"
    /\ UNCHANGED <<task, search, bugs>>

NothingToWaitFor ==
    /\ pc = "fill" /\ ~MayCreate /\ numRunning = 0
    /\ pc' = "peel"
    /\ UNCHANGED <<task, search, children, bugs>>

-----------------------------------------------------------------------------
(* Consuming results.                                                      *)

FrontIsReady == variants # <<>> /\ Head(variants).pid = NoPid
FrontContent == Head(variants).dir[Base]
FrontIsGood ==
    /\ Head(variants).res = "good"
    /\ WithinMaxWin(disk[Fn], FrontContent)

\* Faulty: the speculation built on the old file survives.
PeelAcceptKeepsSpeculation ==
    /\ pc = "peel" /\ FrontIsReady /\ FrontIsGood
    /\ variants' = Tail(variants)
    /\ disk' = [disk EXCEPT ![Fn] = FrontContent]
    /\ state' = Head(variants).newsh
    /\ stopped' = FALSE
    /\ since' = 0
    /\ UNCHANGED <<cache, toreduce, nth, pass, before, skip, stopAt, numRunning, proc, bugs, pc>>

\* Faulty: a STOP seen while speculating stays in force.
PeelAcceptStaysStopped ==
    /\ pc = "peel" /\ FrontIsReady /\ FrontIsGood
    /\ Killem(Tail(variants))
    /\ disk' = [disk EXCEPT ![Fn] = FrontContent]
    /\ state' = Head(variants).newsh
    /\ since' = 0
    /\ UNCHANGED <<cache, toreduce, nth, pass, before, stopped, skip, stopAt, bugs, pc>>

\* Faulty: the file is taken from the variant and the pass state is not.
PeelAcceptKeepsState ==
    /\ pc = "peel" /\ FrontIsReady /\ FrontIsGood
    /\ Killem(Tail(variants))
    /\ disk' = [disk EXCEPT ![Fn] = FrontContent]
    /\ stopped' = FALSE
    /\ since' = 0
    /\ UNCHANGED <<cache, toreduce, nth, pass, before, state, skip, stopAt, bugs, pc>>

\* The new best version: all speculation is dropped, and both the file and
\* the pass state are taken from the variant.
PeelAccept ==
    /\ pc = "peel" /\ FrontIsReady /\ FrontIsGood
    /\ Killem(Tail(variants))
    /\ disk' = [disk EXCEPT ![Fn] = FrontContent]
    /\ state' = Head(variants).newsh
    /\ stopped' = FALSE
    /\ since' = 0
    /\ UNCHANGED <<cache, toreduce, nth, pass, before, skip, stopAt, bugs, pc>>

PeelReject ==
    /\ pc = "peel" /\ FrontIsReady /\ ~FrontIsGood
    /\ variants' = Tail(variants)
    /\ since' = CountFailure(since)
    /\ UNCHANGED <<task, state, stopped, skip, stopAt, numRunning, proc, bugs, pc>>

PeelDone ==
    /\ pc = "peel" /\ ~FrontIsReady
    /\ pc' = "check"
    /\ UNCHANGED <<task, search, children, bugs>>

IsStuck == GiveUpConstant # 0 /\ since > GiveUpConstant
\* Faulty: the pass ends while variants are still being tested.
IsFinishedEarly == skip \/ stopped
IsFinished == (skip \/ stopped) /\ variants = <<>>

\* Too many variants in a row were uninteresting: a pass bug, and on to the
\* next file; nothing is remembered of this one.
GiveUp ==
    /\ pc = "check" /\ IsStuck
    /\ Killem(variants)
    /\ ReportPassBug("file")
    /\ nth' = IF BugIsFatal THEN nth ELSE nth + 1
    /\ UNCHANGED <<disk, cache, toreduce, pass, before, search>>

\* Faulty: the result is the key and the original the value.
EndFileSwapped ==
    /\ pc = "check" /\ ~IsStuck /\ IsFinished
    /\ cache' = IF UseCache THEN [cache EXCEPT ![pass][disk[Fn]] = before] ELSE cache
    /\ nth' = nth + 1
    /\ pc' = "file"
    /\ UNCHANGED <<disk, toreduce, pass, before, search, children, bugs>>

EndFile ==
    /\ pc = "check" /\ ~IsStuck /\ IsFinished
    /\ cache' = IF UseCache THEN [cache EXCEPT ![pass][before] = disk[Fn]] ELSE cache
    /\ nth' = nth + 1
    /\ pc' = "file"
    /\ UNCHANGED <<disk, toreduce, pass, before, search, children, bugs>>

GotoAgain ==
    /\ pc = "check" /\ ~IsStuck /\ ~IsFinished
    /\ pc' = "again"
    /\ UNCHANGED <<task, search, children, bugs>>

-----------------------------------------------------------------------------
(* The children.                                                           *)

\* The variant a running child was forked for.
Tested(pid) == CHOOSE k \in DOMAIN variants : variants[k].pid = pid

\* delta_test in the child: the test's verdict becomes the exit status.
TestEnds(pid) ==
    /\ proc[pid] = "running" /\ pc # "exit"
    /\ proc' = [proc EXCEPT ![pid] =
                   IF Interesting(variants[Tested(pid)].dir) THEN "exit0" ELSE "exit1"]
    /\ UNCHANGED <<task, search, variants, numRunning, bugs, pc>>

\* Faulty: a child does not handle SIGTERM, and dies of it.
DiesOfTerm == "signalled"

\* sigHandler: a process that gets SIGTERM and is not the parent exits with 1.
StatusAfterTerm == "exit1"

\* The alarm goes off first: delta_test in the child sends SIGTERM to its whole
\* group, the test and itself.
TestTimesOut(pid) ==
    /\ Timeouts /\ proc[pid] = "running" /\ pc # "exit"
    /\ proc' = [proc EXCEPT ![pid] = StatusAfterTerm]
    /\ UNCHANGED <<task, search, variants, numRunning, bugs, pc>>

\* The child, or the test it has become, dies of a signal it does not handle.
ChildIsKilled(pid) ==
    /\ Signals /\ proc[pid] = "running" /\ pc # "exit"
    /\ proc' = [proc EXCEPT ![pid] = "signalled"]
    /\ UNCHANGED <<task, search, variants, numRunning, bugs, pc>>

-----------------------------------------------------------------------------
ParentStep ==
    \/ SkipEmptyFile \/ TakeCached \/ StartFile \/ ReturnFromPass
    \/ PollKey \/ TransformStops \/ TransformFails
    \/ \E pid \in Pids : ForkTest(pid) \/ WaitForChild(pid)
    \/ NothingToWaitFor
    \/ PeelAccept \/ PeelReject \/ PeelDone
    \/ GiveUp \/ EndFile \/ GotoAgain

ChildStep(pid) == TestEnds(pid) \/ TestTimesOut(pid) \/ ChildIsKilled(pid)

Next ==
    \/ \E p \in Passes : CallPass(p)
    \/ ParentStep
    \/ \E pid \in Pids : ChildStep(pid)

Spec == Init /\ [][Next]_vars

\* The parent is an ordinary process that is scheduled, and every test ends
\* or is ended by the alarm.  Nobody has to call delta_pass again.
Fairness ==
    /\ WF_vars(ParentStep)
    /\ \A pid \in Pids : WF_vars(ChildStep(pid))

FairSpec == Spec /\ Fairness
=============================================================================
