-------------------------------- MODULE Delta --------------------------------
(***************************************************************************)
(* delta/delta: minimization of one input by removing parts of it.         *)
(*                                                                         *)
(* The input is a sequence of chunks, numbered from 0; a candidate is a    *)
(* set of chunks.  @markers divides what is left of the input into         *)
(* intervals.  Each interval in turn, the last one first, is left out; if  *)
(* the rest passes the test it is excluded.  When no interval can be left  *)
(* out, every interval is halved, until each is one chunk.                 *)
(*                                                                         *)
(* @markers is kept as the set of its elements: the list is in the order   *)
(* of the positions in the file at all times, so that a foreach over it is *)
(* in ascending, and over its reverse in descending, order of `start`.     *)
(***************************************************************************)
EXTENDS Integers

CONSTANTS
    Lengths,        \* how many chunks an input may have
    Oracles(_),     \* what a test may accept of an input of that length
    InPlace,        \* -in_place
    Signals,        \* the test may die of a signal
    MayStop,        \* the user may create the file DELTA-STOP
    NoFile

ASSUME LengthsAssumption == Lengths \subseteq Nat
ASSUME OraclesAssumption ==
    \A n \in Lengths : Oracles(n) \subseteq SUBSET SUBSET (0..(n - 1))
ASSUME OptionsAssumption ==
    InPlace \in BOOLEAN /\ Signals \in BOOLEAN /\ MayStop \in BOOLEAN
ASSUME NoFileAssumption == \A n \in Lengths : \A S \in SUBSET (0..(n - 1)) : S # NoFile

VARIABLES
    length,         \* scalar @chunks
    oracle,         \* the candidates that the test accepts
    markers,        \* @markers
    todo,           \* the markers the foreach has still to visit
    excluded,       \* %excluded
    cache,          \* %test_cache
    kept,           \* the content of $last_successful_tmpinput
    output,         \* the start-file if in place, otherwise the -cp_minimal file
    stopFile,       \* DELTA-STOP exists
    pc              \* initial, search, done (exit 0), stopped (exit 1), died

input == <<length, oracle>>
vars == <<length, oracle, markers, todo, excluded, cache, kept, output, stopFile, pc>>

Chunks == 0..(length - 1)
Marker(a, b) == [start |-> a, stop |-> b]
ChunksOf(m) == m.start..(m.stop - 1)
Cover(M) == UNION {ChunksOf(m) : m \in M}

Init ==
    /\ length \in Lengths
    /\ oracle \in Oracles(length)
    /\ markers = {Marker(0, length)}
    /\ todo = {} /\ excluded = {}
    /\ cache = [S \in SUBSET Chunks |-> "none"]
    /\ kept = NoFile
    /\ output = IF InPlace THEN Chunks ELSE NoFile
    /\ stopFile = FALSE
    /\ pc = "initial"

-----------------------------------------------------------------------------
(* test: the verdict on a candidate.                                       *)

\* render_tmpinput: in place, the candidate is written over the start-file.
Render(S) == output' = IF InPlace THEN S ELSE output

\* The test is run on a candidate whose result is not in the cache.  Only a
\* candidate that passes is kept.
RunTest(S) ==
    /\ ~stopFile
    /\ cache[S] = "none"
    /\ Render(S)
    /\ cache' = [cache EXCEPT ![S] = IF S \in oracle THEN "pass" ELSE "fail"]
    /\ kept' = IF S \in oracle THEN S ELSE kept

\* The user creates DELTA-STOP while delta runs.
StopAppears ==
    /\ MayStop /\ ~stopFile
    /\ pc \in {"initial", "search"}
    /\ stopFile' = TRUE
    /\ UNCHANGED <<input, markers, todo, excluded, cache, kept, output, pc>>

\* test looks for DELTA-STOP before anything else.
Stop ==
    /\ stopFile
    /\ (pc = "initial" /\ length > 0) \/ (pc = "search" /\ todo # {})
    /\ pc' = "stopped"
    /\ UNCHANGED <<input, markers, todo, excluded, cache, kept, output, stopFile>>

-----------------------------------------------------------------------------
(* check_initial_input.                                                    *)

NoChunks ==
    /\ pc = "initial" /\ length = 0
    /\ pc' = "died"
    /\ UNCHANGED <<input, markers, todo, excluded, cache, kept, output, stopFile>>

CheckInitialInput ==
    /\ pc = "initial" /\ length > 0
    /\ RunTest(Chunks)
    /\ IF Chunks \in oracle
       THEN pc' = "search" /\ todo' = markers
       ELSE pc' = "died" /\ UNCHANGED todo
    /\ UNCHANGED <<input, markers, excluded, stopFile>>

-----------------------------------------------------------------------------
(* big_loop and complement_loop.                                           *)

\* $excluded_marker: the last of the markers that are left.
IsNext(m) == m \in todo /\ \A n \in todo : n.start <= m.start

\* What is marked: every marker but `m` and those excluded before.
Complement(m) == Cover(markers \ (excluded \cup {m}))

Visit(m, passed) ==
    /\ todo' = todo \ {m}
    /\ excluded' = IF passed THEN excluded \cup {m} ELSE excluded

TryComplement(m) ==
    /\ pc = "search" /\ IsNext(m)
    /\ RunTest(Complement(m))
    /\ Visit(m, Complement(m) \in oracle)
    /\ UNCHANGED <<input, markers, stopFile, pc>>

\* The result is known: nothing is rendered and nothing is kept.
TryCached(m) ==
    /\ pc = "search" /\ IsNext(m)
    /\ ~stopFile
    /\ cache[Complement(m)] # "none"
    /\ Visit(m, cache[Complement(m)] = "pass")
    /\ UNCHANGED <<input, markers, cache, kept, output, stopFile, pc>>

\* The test dies of a signal: delta dies with the candidate in place.
TestIsSignalled ==
    /\ Signals /\ ~stopFile
    /\ \/ pc = "initial" /\ length > 0 /\ Render(Chunks)
       \/ /\ pc = "search"
          /\ \E m \in todo :
                IsNext(m) /\ cache[Complement(m)] = "none" /\ Render(Complement(m))
    /\ pc' = "died"
    /\ UNCHANGED <<input, markers, todo, excluded, cache, kept, stopFile>>

\* Faulty: %excluded is not emptied.
RedoKeepsExcluded ==
    /\ pc = "search" /\ todo = {} /\ excluded # {}
    /\ markers' = markers \ excluded
    /\ todo' = markers'
    /\ UNCHANGED <<input, excluded, cache, kept, output, stopFile, pc>>

\* Faulty: the excluded markers stay in @markers.
RedoKeepsMarkers ==
    /\ pc = "search" /\ todo = {} /\ excluded # {}
    /\ todo' = markers
    /\ excluded' = {}
    /\ UNCHANGED <<input, markers, cache, kept, output, stopFile, pc>>

\* Faulty: the granularity is increased although something was excluded.
RedoSkipsRound ==
    /\ pc = "search" /\ todo = {} /\ excluded # {}
    /\ markers' = markers \ excluded
    /\ excluded' = {}
    /\ UNCHANGED <<input, todo, cache, kept, output, stopFile, pc>>

\* Something was excluded: again at the same granularity.
RedoComplementLoop ==
    /\ pc = "search" /\ todo = {} /\ excluded # {}
    /\ markers' = markers \ excluded
    /\ todo' = markers'
    /\ excluded' = {}
    /\ UNCHANGED <<input, cache, kept, output, stopFile, pc>>

Half(m) == (m.start + m.stop) \div 2
CanSplit(m) == Half(m) # m.start /\ Half(m) # m.stop

\* Faulty: the halves share a chunk.
HalvesOverlap(m) ==
    IF CanSplit(m) THEN {Marker(m.start, Half(m) + 1), Marker(Half(m), m.stop)} ELSE {m}

Halves(m) ==
    IF CanSplit(m) THEN {Marker(m.start, Half(m)), Marker(Half(m), m.stop)} ELSE {m}

IncreaseGranularity ==
    /\ pc = "search" /\ todo = {} /\ excluded = {}
    /\ \E m \in markers : CanSplit(m)
    /\ markers' = UNION {Halves(m) : m \in markers}
    /\ todo' = markers'
    /\ UNCHANGED <<input, excluded, cache, kept, output, stopFile, pc>>

\* Faulty: in place, the start-file is left as the last candidate.
DoneWithoutCopy ==
    /\ pc = "search" /\ todo = {} /\ excluded = {}
    /\ \A m \in markers : ~CanSplit(m)
    /\ output' = IF InPlace THEN output ELSE kept
    /\ pc' = "done"
    /\ UNCHANGED <<input, markers, todo, excluded, cache, kept, stopFile>>

\* done: the kept input is copied to where the user wants it.
Done ==
    /\ pc = "search" /\ todo = {} /\ excluded = {}
    /\ \A m \in markers : ~CanSplit(m)
    /\ output' = kept
    /\ pc' = "done"
    /\ UNCHANGED <<input, markers, todo, excluded, cache, kept, stopFile>>

-----------------------------------------------------------------------------
Step ==
    \/ Stop \/ NoChunks \/ CheckInitialInput
    \/ \E m \in todo : TryComplement(m) \/ TryCached(m)
    \/ TestIsSignalled
    \/ RedoComplementLoop \/ IncreaseGranularity \/ Done

Next == StopAppears \/ Step

Spec == Init /\ [][Next]_vars

\* delta is one process that runs until it ends, and every test ends.
FairSpec == Spec /\ WF_vars(Step)

-----------------------------------------------------------------------------
(* What must hold of delta.                                                *)

MarkerSet == [start : Nat, stop : Nat]

\* Every variable has its type.
TypeOK ==
    /\ length \in Lengths /\ oracle \subseteq SUBSET Chunks
    /\ markers \subseteq MarkerSet
    /\ todo \subseteq markers /\ excluded \subseteq markers
    /\ cache \in [SUBSET Chunks -> {"none", "pass", "fail"}]
    /\ kept = NoFile \/ kept \subseteq Chunks
    /\ output = NoFile \/ output \subseteq Chunks
    /\ stopFile \in BOOLEAN
    /\ pc \in {"initial", "search", "done", "stopped", "died"}

\* The intervals are not empty, lie in the file and do not overlap: an overlap
\* would make mark die, an empty one would be tried for ever.
MarkersApart ==
    /\ \A m \in markers : length > 0 => m.start < m.stop /\ m.stop <= length
    /\ \A m, n \in markers : m # n => m.stop <= n.start \/ n.stop <= m.start

\* The input that is kept on disk is the one the search is about: what is
\* marked, without what is excluded.  A success that was answered from the
\* cache would exclude a marker and keep a larger input; halves that overlap
\* or miss a chunk would keep one too many or lose it.
KeptIsSearched ==
    /\ MarkersApart
    /\ pc = "search" => kept = Cover(markers \ excluded)

\* "Can't happen": the cache never answers that a candidate passes.
CacheOnlyRejects ==
    pc = "search" => \A m \in todo : cache[Complement(m)] # "pass"

\* "Delta is guaranteed to find a 1-minimal file": when it is done the file the
\* user asked for passes the test, and does not with any one chunk removed.
ResultIsOneMinimal ==
    pc = "done" =>
        output \in oracle /\ \A c \in output : output \ {c} \notin oracle

\* delta ends: it never goes on trying.
Terminates == <>(pc \in {"done", "stopped", "died"})

\* Contradicted by the code: DELTA-STOP is "a safe way to stop": the file is
\* left in a state that passes the test.
StopIsSafe == (pc = "stopped" /\ kept # NoFile) => output \in oracle

Abstract == INSTANCE Minimizer WITH best <- kept, phase <- pc

\* delta walks through ever smaller inputs that pass, to a 1-minimal one.
RefinesMinimizer == Abstract!Spec
=============================================================================
