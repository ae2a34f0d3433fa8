------------------------- MODULE DeltaPassProperties -------------------------
(***************************************************************************)
(* What must hold of delta_pass, whatever the order in which the children  *)
(* end.                                                                    *)
(***************************************************************************)
EXTENDS DeltaPass

CONSTANT NoState    \* of SequentialPass: no pass is working on a file

ASSUME NoStateAssumption == NoState \notin States

\* delta_pass is working on a file.
Working == pc \in {"again", "fill", "peel", "check"}

Live == {pid \in Pids : proc[pid] # "none"}

VariantSet ==
    [pid : Pids \cup {NoPid}, from : States, newsh : States,
     dir : [Names -> Contents], res : {"pending", "good", "bad"}]

\* Every variable has its type.
TypeOK ==
    /\ disk \in [Files -> Contents]
    /\ cache \in [Passes -> [Contents -> Contents \cup {NoEntry}]]
    /\ toreduce \in Orders
    /\ nth \in 1..(NumFiles + 1)
    /\ pass \in Passes
    /\ before \in Contents
    /\ state \in States /\ stopAt \in States
    /\ since \in 0..(GiveUpConstant + 1)
    /\ stopped \in BOOLEAN /\ skip \in BOOLEAN
    /\ variants \in Seq(VariantSet)
    /\ numRunning \in 0..NProcs
    /\ proc \in [Pids -> ProcStatus]
    /\ bugs \in Nat
    /\ pc \in {"idle", "file", "again", "fill", "peel", "check", "exit"}
    /\ Working => nth \in 1..NumFiles

-----------------------------------------------------------------------------
(* The bookkeeping of children.                                            *)

\* $num_running counts the children that were forked and not yet waited for;
\* each of them is backed by exactly one element of @variants; there are never
\* more than $NPROCS.  A wait() that returned any other process, or a count
\* that drifted, would make the parent die or block for ever.
ChildrenAccounted ==
    /\ numRunning = Cardinality(Live)
    /\ numRunning <= NProcs
    /\ RunningPids(variants) = Live
    /\ \A j, k \in DOMAIN variants :
           (variants[j].pid = variants[k].pid /\ variants[k].pid # NoPid) => j = k

\* "parallel execution does not escape this function": outside the loop over
\* one file there are no children and no variants.
NoEscape == ~Working => Live = {} /\ variants = <<>> /\ numRunning = 0

\* The parent never kills NProcs tests at once: it only ever kills after a
\* child has ended, and forks none in between.  With "--n 1" it "will never
\* kill a running compiler instance".
FewerThanProcsAreKilled ==
    [][Cardinality({pid \in Pids : proc[pid] = "running" /\ proc'[pid] = "none"}) < NProcs]_vars

-----------------------------------------------------------------------------
(* Speculation.                                                            *)

\* Every variant in the list, tested or not, is what the pass makes of the
\* file as it is on disk now, in a directory with the other files as they are
\* on disk now, and was built from the state that follows its predecessor.
SpeculationFresh ==
    Working =>
        \A k \in DOMAIN variants :
            LET v == variants[k]
                t == Transform(pass, Tmp[Base], v.from)
            IN  /\ t.res = "OK" /\ t.out # disk[Fn]
                /\ v.newsh = t.st
                /\ v.dir = [Tmp EXCEPT ![Base] = t.out]
                /\ k > 1 => v.from = Advance(pass, variants[k - 1].newsh)

\* The state from which the next variant is built, or on which the pass had
\* nothing to offer, follows the last variant of the list.
Frontier == IF stopped THEN stopAt ELSE state
FrontierFollows ==
    (Working /\ variants # <<>>) =>
        Frontier = Advance(pass, variants[Len(variants)].newsh)

\* The list is the search that would go on if every variant in it were refused,
\* and the next variant continues it.  A variant that outlived an accepted one
\* would undo it when it is accepted; a state that was not set back with the
\* file would leave instances out.
SpeculationIntact == SpeculationFresh /\ FrontierFollows

\* "we don't want to be stopped by a speculative transformation": whenever the
\* parent believes the pass is over, it is over for the file as it is on disk.
StopIsGenuine ==
    (Working /\ stopped) => PassIsOver(pass, disk[Fn], Tmp[Base], stopAt)

\* A verdict is the test's verdict on the variant it is filed with.
VerdictsHonest ==
    ~Signals =>
        \A k \in DOMAIN variants :
            /\ variants[k].res = "good" => Interesting(variants[k].dir)
            /\ (variants[k].res = "bad" /\ ~Timeouts) => ~Interesting(variants[k].dir)

-----------------------------------------------------------------------------
(* The files on disk.                                                      *)

\* The files as they are on disk pass the interestingness test: "all
\* uninteresting files are discarded".
DiskInteresting == Interesting(CopyFilesHere(toreduce, disk))

\* Every remembered result of a pass is interesting (a file on its own).
CacheInteresting ==
    \A p \in Passes, c \in Contents :
        cache[p][c] # NoEntry => Interesting([n \in Names |-> cache[p][c]])

\* Every file is tested under its own name: the directory in which a variant
\* is tested holds each file that is being reduced.
EveryFileIsTested ==
    Working => \A k \in DOMAIN variants, f \in Files :
                   f # Fn => variants[k].dir[BaseName[f]] = disk[f]

\* The reference definition of a pass on a single file: one attempt of the
\* sequential search, and the content it leaves behind when it is over.
Attempt(p, c, s) ==
    LET t == Transform(p, c, s)
    IN  IF Interesting([n \in Names |-> t.out]) /\ WithinMaxWin(c, t.out)
        THEN <<t.out, t.st>> ELSE <<c, Advance(p, t.st)>>
RunToEnd(p) ==
    LET run[e \in Contents \X States] ==
            IF PassIsOver(p, e[1], e[1], e[2]) THEN e[1] ELSE run[Attempt(p, e[1], e[2])]
    IN  run

\* What %cache remembers of a pass on a content is what the pass makes of that
\* content when it is run to its end.
CacheComplete ==
    \A p \in Passes, c \in Contents :
        cache[p][c] # NoEntry => cache[p][c] = RunToEnd(p)[<<c, New(p)>>]

-----------------------------------------------------------------------------
(* Liveness and refinement.                                                *)

\* A pass that is called returns, or the process exits.
PassReturns == (pc = "file") ~> (pc \in {"idle", "exit"})

\* The pass state the sequential search is in: that of the oldest variant
\* whose verdict has not been used.
SeqState ==
    IF ~Working THEN NoState
    ELSE IF variants # <<>> THEN Head(variants).from
    ELSE Frontier
SeqPhase == IF Working THEN "try" ELSE pc

Sequential ==
    INSTANCE SequentialPass WITH NoState <- NoState, st <- SeqState, phase <- SeqPhase

\* The parallel search is the sequential one: every step is a step of
\* SequentialPass or changes nothing it can see.
RefinesSequential == Sequential!Spec
=============================================================================
