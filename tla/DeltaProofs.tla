----------------------------- MODULE DeltaProofs -----------------------------
(***************************************************************************)
(* delta ends with a 1-minimal input, for every length of the input and    *)
(* every test, and implements Minimizer.                                   *)
(***************************************************************************)
EXTENDS Delta, TLAPS

\* Intervals of natural numbers that are not empty and do not overlap.
Apart(M) ==
    /\ M \subseteq MarkerSet
    /\ \A m \in M : m.start < m.stop
    /\ \A m, n \in M : m # n => m.stop <= n.start \/ n.stop <= m.start

-----------------------------------------------------------------------------
\* Leaving one interval out of the marked ones removes its chunks.
LEMMA CoverMinus ==
    ASSUME NEW M, Apart(M), NEW m \in M
    PROVE  Cover(M \ {m}) = Cover(M) \ ChunksOf(m)
<1>1. \A n \in M \ {m} : ChunksOf(n) \cap ChunksOf(m) = {}
  BY DEF Apart, ChunksOf, MarkerSet
<1> QED
  BY <1>1 DEF Cover

\* The two halves of an interval have its chunks, and are intervals inside it.
LEMMA HalvesFacts ==
    ASSUME NEW m \in MarkerSet, m.start < m.stop
    PROVE  /\ Halves(m) \subseteq MarkerSet
           /\ Cover(Halves(m)) = ChunksOf(m)
           /\ \A h \in Halves(m) : m.start <= h.start /\ h.start < h.stop /\ h.stop <= m.stop
           /\ \A g, h \in Halves(m) : g # h => g.stop <= h.start \/ h.stop <= g.start
<1>1. Half(m) \in Nat /\ m.start <= Half(m) /\ Half(m) < m.stop
  BY DEF MarkerSet, Half
<1>2. CASE ~CanSplit(m)
  <2>1. Halves(m) = {m}
    BY <1>2 DEF Halves
  <2>2. Cover({m}) = ChunksOf(m)
    BY DEF Cover
  <2> QED
    BY <2>1, <2>2 DEF MarkerSet
<1>3. CASE CanSplit(m)
  <2> DEFINE a == Marker(m.start, Half(m))
             b == Marker(Half(m), m.stop)
  <2>1. Halves(m) = {a, b} /\ m.start < Half(m)
    BY <1>1, <1>3 DEF Halves, CanSplit, MarkerSet
  <2>2. /\ a \in MarkerSet /\ a.start = m.start /\ a.stop = Half(m)
        /\ b \in MarkerSet /\ b.start = Half(m) /\ b.stop = m.stop
    BY <1>1 DEF Marker, MarkerSet
  <2> HIDE DEF a, b
  <2>3. Cover(Halves(m)) = ChunksOf(a) \cup ChunksOf(b)
    BY <2>1 DEF Cover
  <2>4. ChunksOf(a) \cup ChunksOf(b) = ChunksOf(m)
    BY <1>1, <2>1, <2>2 DEF ChunksOf, MarkerSet
  <2>5. Halves(m) \subseteq MarkerSet
    BY <2>1, <2>2
  <2>6. \A h \in {a, b} : m.start <= h.start /\ h.start < h.stop /\ h.stop <= m.stop
    BY <1>1, <2>1, <2>2 DEF MarkerSet
  <2>7. \A g, h \in {a, b} : g # h => g.stop <= h.start \/ h.stop <= g.start
    BY <1>1, <2>2
  <2> QED
    BY <2>1, <2>3, <2>4, <2>5, <2>6, <2>7
<1> QED
  BY <1>2, <1>3

\* Halving every interval leaves the same chunks marked.
LEMMA SplitFacts ==
    ASSUME NEW M, Apart(M)
    PROVE  /\ Apart(UNION {Halves(m) : m \in M})
           /\ Cover(UNION {Halves(m) : m \in M}) = Cover(M)
<1> DEFINE S == UNION {Halves(m) : m \in M}
<1>1. \A m \in M :
          /\ Halves(m) \subseteq MarkerSet
          /\ Cover(Halves(m)) = ChunksOf(m)
          /\ \A h \in Halves(m) : m.start <= h.start /\ h.start < h.stop /\ h.stop <= m.stop
          /\ \A g, h \in Halves(m) : g # h => g.stop <= h.start \/ h.stop <= g.start
  BY HalvesFacts DEF Apart
<1>2. S \subseteq MarkerSet /\ \A h \in S : h.start < h.stop
  BY <1>1
<1>3. ASSUME NEW g \in S, NEW h \in S, g # h PROVE g.stop <= h.start \/ h.stop <= g.start
  <2>1. PICK m \in M : g \in Halves(m)
    OBVIOUS
  <2>2. PICK n \in M : h \in Halves(n)
    OBVIOUS
  <2>3. CASE m = n
    BY <1>1, <1>3, <2>1, <2>2, <2>3
  <2>4. CASE m # n
    <3>1. /\ g \in MarkerSet /\ h \in MarkerSet /\ m \in MarkerSet /\ n \in MarkerSet
          /\ m.stop <= n.start \/ n.stop <= m.start
      BY <1>2, <2>4 DEF Apart
    <3>2. g.stop <= m.stop /\ n.start <= h.start /\ m.start <= g.start /\ h.stop <= n.stop
      BY <1>1, <2>1, <2>2
    <3> QED
      BY <3>1, <3>2 DEF MarkerSet
  <2> QED
    BY <2>3, <2>4
<1>4. Cover(S) = UNION {Cover(Halves(m)) : m \in M}
  BY DEF Cover
<1>5. UNION {Cover(Halves(m)) : m \in M} = Cover(M)
  BY <1>1 DEF Cover
<1> QED
  BY <1>2, <1>3, <1>4, <1>5 DEF Apart

\* An interval that cannot be halved is one chunk.
LEMMA SmallestMarker ==
    ASSUME NEW m \in MarkerSet, m.start < m.stop, ~CanSplit(m)
    PROVE  ChunksOf(m) = {m.start}
BY DEF MarkerSet, CanSplit, Half, ChunksOf

-----------------------------------------------------------------------------
\* While delta searches: the intervals are well formed and cover chunks of the
\* input; what is kept is what is searched, passes, and, if nothing was excluded
\* in this round, does not pass without any interval that was visited.
SearchInv ==
    pc = "search" =>
        /\ Apart(markers) /\ Cover(markers) \subseteq Chunks
        /\ \A m \in markers : m.stop <= length
        /\ excluded \cap todo = {}
        /\ kept = Cover(markers \ excluded) /\ kept \in oracle
        /\ excluded = {} => \A m \in markers \ todo : Cover(markers \ {m}) \notin oracle

\* Results are remembered faithfully, and what passed includes what is kept.
CacheInv ==
    \A S \in SUBSET Chunks :
        /\ cache[S] = "pass" => S \in oracle /\ (pc = "search" => kept \subseteq S)
        /\ cache[S] = "fail" => S \notin oracle

InitialInv ==
    /\ pc = "initial" =>
          /\ markers = {Marker(0, length)} /\ todo = {} /\ excluded = {} /\ kept = NoFile
          /\ \A S \in SUBSET Chunks : cache[S] = "none"
    /\ length = 0 => pc \in {"initial", "died"} /\ markers = {Marker(0, length)}

Inv == TypeOK /\ MarkersApart /\ SearchInv /\ CacheInv /\ InitialInv /\ ResultIsOneMinimal

-----------------------------------------------------------------------------
LEMMA InitInv == Init => Inv
<1> SUFFICES ASSUME Init PROVE Inv
  OBVIOUS
<1>1. length \in Nat /\ length \in Lengths /\ oracle \subseteq SUBSET Chunks
  BY LengthsAssumption, OraclesAssumption DEF Init, Chunks
<1>2. Marker(0, length) \in MarkerSet
  BY <1>1 DEF Marker, MarkerSet
<1>3. TypeOK
  BY <1>1, <1>2 DEF Init, TypeOK
<1>4. MarkersApart
  BY <1>1 DEF Init, MarkersApart, Marker
<1>5. SearchInv /\ CacheInv /\ InitialInv /\ ResultIsOneMinimal
  BY DEF Init, SearchInv, CacheInv, InitialInv, ResultIsOneMinimal
<1> QED
  BY <1>3, <1>4, <1>5 DEF Inv

\* The stop file may appear, delta may stop or die: nothing else changes but the
\* start-file.
LEMMA EndStep ==
    ASSUME Inv, StopAppears \/ Stop \/ NoChunks \/ TestIsSignalled
    PROVE  Inv'
<1>1. /\ UNCHANGED <<length, oracle, markers, todo, excluded, cache, kept>>
      /\ pc' = pc \/ pc' \in {"stopped", "died"}
      /\ pc' = pc => pc \in {"initial", "search"}
      /\ stopFile' \in BOOLEAN
  BY DEF Inv, TypeOK, StopAppears, Stop, NoChunks, TestIsSignalled, input
<1>2. output' = NoFile \/ output' \subseteq Chunks
  <2>1. CASE StopAppears \/ Stop \/ NoChunks
    BY <2>1 DEF Inv, TypeOK, StopAppears, Stop, NoChunks
  <2>2. CASE TestIsSignalled
    <3>1. ASSUME NEW S, S \subseteq Chunks, Render(S) PROVE output' = NoFile \/ output' \subseteq Chunks
      BY <3>1 DEF Render, Inv, TypeOK
    <3>2. ASSUME NEW m \in todo, pc = "search" PROVE Complement(m) \subseteq Chunks
      BY <3>2 DEF Inv, SearchInv, Complement, Cover
    <3> QED
      BY <2>2, <3>1, <3>2 DEF TestIsSignalled
  <2> QED
    BY <2>1, <2>2
<1>3. TypeOK'
  BY <1>1, <1>2 DEF Inv, TypeOK, Chunks
<1>4. MarkersApart'
  BY <1>1 DEF Inv, MarkersApart
<1>5. SearchInv'
  BY <1>1 DEF Inv, SearchInv, Chunks, Cover, ChunksOf
<1>6. CacheInv'
  BY <1>1 DEF Inv, CacheInv, Chunks
<1>7. InitialInv'
  <2>1. length = 0 => pc' # "search" /\ pc' # "stopped"
    BY DEF Inv, InitialInv, StopAppears, Stop, NoChunks, TestIsSignalled
  <2> QED
    BY <1>1, <2>1 DEF Inv, InitialInv, Chunks, Marker
<1>8. ResultIsOneMinimal'
  BY <1>1 DEF ResultIsOneMinimal
<1> QED
  BY <1>3, <1>4, <1>5, <1>6, <1>7, <1>8 DEF Inv

\* The whole input passes, and the search begins with all of it; or delta dies.
LEMMA CheckStep ==
    ASSUME Inv, CheckInitialInput
    PROVE  Inv'
<1>1. /\ UNCHANGED <<length, oracle, markers, excluded, stopFile>>
      /\ pc = "initial" /\ length > 0 /\ length \in Nat
      /\ markers = {Marker(0, length)} /\ todo = {} /\ excluded = {} /\ kept = NoFile
      /\ \A S \in SUBSET Chunks : cache[S] = "none"
  BY LengthsAssumption DEF Inv, TypeOK, InitialInv, CheckInitialInput, input
<1>2. /\ cache' = [cache EXCEPT ![Chunks] = IF Chunks \in oracle THEN "pass" ELSE "fail"]
      /\ kept' = IF Chunks \in oracle THEN Chunks ELSE kept
      /\ output' = IF InPlace THEN Chunks ELSE output
  BY DEF CheckInitialInput, RunTest, Render
<1>3. Chunks' = Chunks
  BY <1>1 DEF Chunks
<1>4. \/ Chunks \in oracle /\ pc' = "search" /\ todo' = markers
      \/ Chunks \notin oracle /\ pc' = "died" /\ todo' = todo
  BY DEF CheckInitialInput
<1>5. TypeOK'
  BY <1>1, <1>2, <1>3, <1>4 DEF Inv, TypeOK
<1>6. MarkersApart'
  BY <1>1 DEF Inv, MarkersApart
<1>7. /\ Marker(0, length) \in MarkerSet
      /\ Marker(0, length).start = 0 /\ Marker(0, length).stop = length
  BY <1>1 DEF Marker, MarkerSet
<1>8. Apart(markers) /\ Cover(markers) = Chunks
  <2>1. Apart(markers)
    BY <1>1, <1>7 DEF Apart
  <2>2. ChunksOf(Marker(0, length)) = Chunks
    BY <1>7 DEF ChunksOf, Chunks
  <2> QED
    BY <1>1, <2>1, <2>2 DEF Cover
<1>9. SearchInv'
  <2> SUFFICES ASSUME pc' = "search" PROVE SearchInv'
    BY DEF SearchInv
  <2>1. /\ markers' = markers /\ excluded' = {} /\ todo' = markers
        /\ kept' = Chunks /\ Chunks \in oracle /\ oracle' = oracle /\ length' = length
    BY <1>1, <1>2, <1>4
  <2>2. markers \ {} = markers /\ markers \ markers = {}
    OBVIOUS
  <2>3. \A m \in markers : m.stop <= length
    BY <1>1, <1>7
  <2> QED
    BY <1>3, <1>8, <2>1, <2>2, <2>3 DEF SearchInv
<1>10. CacheInv'
  <2> SUFFICES ASSUME NEW S \in SUBSET Chunks
               PROVE  /\ cache'[S] = "pass" => S \in oracle /\ (pc' = "search" => kept' \subseteq S)
                      /\ cache'[S] = "fail" => S \notin oracle
    BY <1>1, <1>3 DEF CacheInv
  <2>1. cache \in [SUBSET Chunks -> {"none", "pass", "fail"}]
    BY DEF Inv, TypeOK
  <2>2. CASE S = Chunks
    BY <1>2, <2>1, <2>2
  <2>3. CASE S # Chunks
    BY <1>1, <1>2, <2>1, <2>3
  <2> QED
    BY <2>2, <2>3
<1>11. InitialInv' /\ ResultIsOneMinimal'
  BY <1>1, <1>4 DEF InitialInv, ResultIsOneMinimal
<1> QED
  BY <1>5, <1>6, <1>9, <1>10, <1>11 DEF Inv

\* What is left without the marker to be tried: nothing is added, and if nothing
\* was excluded in this round, everything but that marker.
LEMMA ComplementFacts ==
    ASSUME Inv, pc = "search", NEW m \in todo
    PROVE  /\ m \in markers /\ m \notin excluded
           /\ Complement(m) \in SUBSET Chunks
           /\ Complement(m) = Cover((markers \ excluded) \ {m})
           /\ Complement(m) = kept \ ChunksOf(m)
           /\ m.start \in kept /\ m.start \notin Complement(m)
<1>1. m \in markers /\ m \notin excluded
  BY DEF Inv, TypeOK, SearchInv
<1>2. Complement(m) = Cover((markers \ excluded) \ {m})
  <2>1. markers \ (excluded \cup {m}) = (markers \ excluded) \ {m}
    OBVIOUS
  <2> QED
    BY <2>1 DEF Complement
<1>3. Apart(markers \ excluded) /\ m \in markers \ excluded
  BY <1>1 DEF Inv, SearchInv, Apart
<1>4. Complement(m) = kept \ ChunksOf(m)
  BY <1>2, <1>3, CoverMinus DEF Inv, SearchInv
<1>5. kept \subseteq Chunks
  BY DEF Inv, SearchInv, Cover
<1>6. m.start \in ChunksOf(m)
  BY <1>1 DEF Inv, SearchInv, Apart, ChunksOf, MarkerSet
<1>7. ChunksOf(m) \subseteq kept
  BY <1>3 DEF Inv, SearchInv, Cover
<1> QED
  BY <1>1, <1>2, <1>4, <1>5, <1>6, <1>7

\* A verdict, new or remembered, is used: what is kept is what is searched, and
\* the marker counts as tried.
LEMMA VisitStep ==
    ASSUME Inv, NEW m \in todo, TryComplement(m) \/ TryCached(m)
    PROVE  Inv'
<1>1. pc = "search" /\ pc' = pc /\ UNCHANGED <<length, oracle, markers, stopFile>>
  BY DEF TryComplement, TryCached, input
<1>2. Chunks' = Chunks /\ Cover(markers)' = Cover(markers)
  BY <1>1 DEF Chunks, Cover, ChunksOf
<1>3. /\ m \in markers /\ m \notin excluded
      /\ Complement(m) \in SUBSET Chunks
      /\ Complement(m) = Cover((markers \ excluded) \ {m})
      /\ Complement(m) = kept \ ChunksOf(m)
      /\ m.start \in kept /\ m.start \notin Complement(m)
  BY <1>1, ComplementFacts
<1> DEFINE C == Complement(m)
           passed == C \in oracle
<1>4. /\ cache \in [SUBSET Chunks -> {"none", "pass", "fail"}]
      /\ kept \in oracle /\ kept \subseteq Chunks
      /\ kept = Cover(markers \ excluded)
      /\ todo \subseteq markers /\ excluded \subseteq markers /\ excluded \cap todo = {}
      /\ output = NoFile \/ output \subseteq Chunks
      /\ \A S \in SUBSET Chunks : cache[S] = "pass" => S \in oracle /\ kept \subseteq S
      /\ \A S \in SUBSET Chunks : cache[S] = "fail" => S \notin oracle
  BY <1>1 DEF Inv, TypeOK, SearchInv, CacheInv, Cover
<1>5. /\ todo' = todo \ {m}
      /\ excluded' = IF passed THEN excluded \cup {m} ELSE excluded
      /\ kept' = IF passed THEN C ELSE kept
      /\ output' = NoFile \/ output' \subseteq Chunks
      /\ \A S \in SUBSET Chunks :
             cache'[S] = cache[S] \/ (S = C /\ cache'[S] = IF passed THEN "pass" ELSE "fail")
      /\ cache' \in [SUBSET Chunks -> {"none", "pass", "fail"}]
  <2>1. CASE TryComplement(m)
    <3>1. /\ todo' = todo \ {m}
          /\ excluded' = IF passed THEN excluded \cup {m} ELSE excluded
          /\ kept' = IF passed THEN C ELSE kept
          /\ output' = IF InPlace THEN C ELSE output
          /\ cache' = [cache EXCEPT ![C] = IF passed THEN "pass" ELSE "fail"]
      BY <2>1 DEF TryComplement, Visit, RunTest, Render
    <3> HIDE DEF C, passed
    <3>2. C \in SUBSET Chunks
      BY <1>3 DEF C
    <3> QED
      BY <1>4, <3>1, <3>2
  <2>2. CASE TryCached(m)
    <3>1. C \in SUBSET Chunks /\ kept # C /\ ~(kept \subseteq C)
      BY <1>3
    <3>2. cache[C] = "fail" /\ ~passed
      BY <1>4, <2>2, <3>1 DEF TryCached
    <3>3. UNCHANGED <<cache, kept, output>> /\ todo' = todo \ {m} /\ excluded' = excluded
      BY <2>2, <3>2 DEF TryCached, Visit
    <3> QED
      BY <1>4, <3>2, <3>3
  <2> QED
    BY <2>1, <2>2
<1>6. TypeOK'
  <2>1. todo' \subseteq markers /\ excluded' \subseteq markers
    BY <1>3, <1>4, <1>5
  <2>2. kept' \subseteq Chunks
    BY <1>3, <1>4, <1>5
  <2> HIDE DEF C, passed
  <2> QED
    BY <1>1, <1>2, <1>5, <2>1, <2>2 DEF Inv, TypeOK
<1>7. MarkersApart' /\ InitialInv' /\ ResultIsOneMinimal'
  BY <1>1 DEF Inv, MarkersApart, InitialInv, ResultIsOneMinimal, Marker
<1>8. SearchInv'
  <2>1. excluded' \cap todo' = {}
    BY <1>4, <1>5
  <2>2. kept' = Cover(markers \ excluded')
    <3>1. (markers \ excluded) \ {m} = markers \ (excluded \cup {m})
      OBVIOUS
    <3> QED
      BY <1>3, <1>4, <1>5, <3>1
  <2>3. kept' \in oracle
    BY <1>4, <1>5
  <2>4. ASSUME excluded' = {}, NEW n \in markers \ todo' PROVE Cover(markers \ {n}) \notin oracle
    <3>1. excluded = {} /\ ~passed
      BY <1>5, <2>4
    <3>2. CASE n = m
      <4>1. (markers \ excluded) \ {m} = markers \ {m}
        BY <3>1
      <4> QED
        BY <1>3, <3>1, <3>2, <4>1
    <3>3. CASE n # m
      BY <1>1, <1>5, <3>1, <3>3 DEF Inv, SearchInv
    <3> QED
      BY <3>2, <3>3
  <2>5. /\ Apart(markers) /\ Cover(markers) \subseteq Chunks
        /\ \A n \in markers : n.stop <= length
    BY <1>1 DEF Inv, SearchInv
  <2> HIDE DEF C, passed
  <2> QED
    BY <1>1, <1>2, <2>1, <2>2, <2>3, <2>4, <2>5 DEF SearchInv
<1>9. CacheInv'
  <2> SUFFICES ASSUME NEW S \in SUBSET Chunks
               PROVE  /\ cache'[S] = "pass" => S \in oracle /\ kept' \subseteq S
                      /\ cache'[S] = "fail" => S \notin oracle
    BY <1>1, <1>2 DEF CacheInv
  <2>1. kept' \subseteq kept
    BY <1>3, <1>5
  <2>2. CASE cache'[S] = cache[S]
    BY <1>4, <2>1, <2>2
  <2>3. CASE S = C /\ cache'[S] = IF passed THEN "pass" ELSE "fail"
    BY <1>5, <2>3
  <2> QED
    BY <1>5, <2>2, <2>3
<1> QED
  BY <1>6, <1>7, <1>8, <1>9 DEF Inv

\* The excluded markers are dropped, and all that remain are to be tried again.
LEMMA RedoStep ==
    ASSUME Inv, RedoComplementLoop
    PROVE  Inv'
<1>1. /\ UNCHANGED <<length, oracle, cache, kept, output, stopFile, pc>> /\ pc = "search"
      /\ markers' = markers \ excluded /\ todo' = markers \ excluded /\ excluded' = {}
  BY DEF RedoComplementLoop, input
<1>2. Chunks' = Chunks
  BY <1>1 DEF Chunks
<1>3. TypeOK'
  BY <1>1, <1>2 DEF Inv, TypeOK
<1>4. Apart(markers \ excluded) /\ Cover(markers \ excluded) \subseteq Chunks
  BY <1>1 DEF Inv, SearchInv, Apart, Cover
<1>5. \A m \in markers \ excluded : m.stop <= length
  BY <1>1 DEF Inv, SearchInv
<1>6. MarkersApart'
  BY <1>1, <1>4, <1>5 DEF MarkersApart, Apart
<1>7. SearchInv'
  <2>1. kept = Cover(markers \ excluded) /\ kept \in oracle
    BY <1>1 DEF Inv, SearchInv
  <2>2. (markers \ excluded) \ {} = markers \ excluded
    OBVIOUS
  <2> QED
    BY <1>1, <1>2, <1>4, <1>5, <2>1, <2>2 DEF SearchInv
<1>8. CacheInv'
  BY <1>1, <1>2 DEF Inv, CacheInv
<1>9. InitialInv' /\ ResultIsOneMinimal'
  BY <1>1 DEF Inv, InitialInv, ResultIsOneMinimal
<1> QED
  BY <1>3, <1>6, <1>7, <1>8, <1>9 DEF Inv

\* The markers are halved: the same chunks are marked.
LEMMA GranularityStep ==
    ASSUME Inv, IncreaseGranularity
    PROVE  Inv'
<1> DEFINE S == UNION {Halves(m) : m \in markers}
<1>1. /\ UNCHANGED <<length, oracle, excluded, cache, kept, output, stopFile, pc>>
      /\ pc = "search" /\ excluded = {} /\ markers' = S /\ todo' = S
  BY DEF IncreaseGranularity, input
<1>2. Chunks' = Chunks
  BY <1>1 DEF Chunks
<1>3. Apart(S) /\ Cover(S) = Cover(markers)
  BY <1>1, SplitFacts DEF Inv, SearchInv
<1>4. \A h \in S : h.stop <= length
  <2> SUFFICES ASSUME NEW m \in markers, NEW h \in Halves(m) PROVE h.stop <= length
    OBVIOUS
  <2>1. m \in MarkerSet /\ m.start < m.stop /\ m.stop <= length
    BY <1>1 DEF Inv, SearchInv, Apart
  <2>2. h \in MarkerSet /\ h.stop <= m.stop
    BY <2>1, HalvesFacts
  <2>3. length \in Nat
    BY LengthsAssumption DEF Inv, TypeOK
  <2> QED
    BY <2>1, <2>2, <2>3 DEF MarkerSet
<1> HIDE DEF S
<1>5. TypeOK'
  BY <1>1, <1>2, <1>3 DEF Inv, TypeOK, Apart
<1>6. MarkersApart'
  BY <1>1, <1>3, <1>4 DEF MarkersApart, Apart
<1>7. SearchInv'
  <2>1. kept = Cover(S) /\ kept \in oracle /\ Cover(S) \subseteq Chunks
    <3>1. markers \ excluded = markers
      BY <1>1
    <3> QED
      BY <1>1, <1>3, <3>1 DEF Inv, SearchInv
  <2>2. S \ {} = S
    OBVIOUS
  <2> QED
    BY <1>1, <1>2, <1>3, <1>4, <2>1, <2>2 DEF SearchInv
<1>8. CacheInv'
  BY <1>1, <1>2 DEF Inv, CacheInv
<1>9. InitialInv' /\ ResultIsOneMinimal'
  BY <1>1 DEF Inv, InitialInv, ResultIsOneMinimal
<1> QED
  BY <1>5, <1>6, <1>7, <1>8, <1>9 DEF Inv

\* At the end of a round that excluded nothing, with markers of one chunk each,
\* no chunk can be left out.
LEMMA NothingToRemove ==
    ASSUME Inv, pc = "search", todo = {}, excluded = {}, \A m \in markers : ~CanSplit(m)
    PROVE  kept \in oracle /\ \A c \in kept : kept \ {c} \notin oracle
<1>1. kept = Cover(markers) /\ kept \in oracle /\ Apart(markers)
  <2>1. markers \ excluded = markers
    OBVIOUS
  <2> QED
    BY <2>1 DEF Inv, SearchInv
<1>2. ASSUME NEW c \in kept PROVE kept \ {c} \notin oracle
  <2>1. PICK m \in markers : c \in ChunksOf(m)
    BY <1>1 DEF Cover
  <2>2. ChunksOf(m) = {c}
    BY <1>1, <2>1, SmallestMarker DEF Apart
  <2>3. Cover(markers \ {m}) = kept \ {c}
    BY <1>1, <2>2, CoverMinus
  <2>4. Cover(markers \ {m}) \notin oracle
    BY DEF Inv, SearchInv
  <2> QED
    BY <2>3, <2>4
<1> QED
  BY <1>1, <1>2

LEMMA DoneStep ==
    ASSUME Inv, Done
    PROVE  Inv'
<1>1. /\ UNCHANGED <<length, oracle, markers, todo, excluded, cache, kept, stopFile>>
      /\ pc = "search" /\ pc' = "done" /\ output' = kept
      /\ kept \in oracle /\ \A c \in kept : kept \ {c} \notin oracle
  BY NothingToRemove DEF Done, input
<1>2. TypeOK'
  BY <1>1 DEF Inv, TypeOK, Chunks
<1>3. MarkersApart' /\ SearchInv' /\ CacheInv'
  BY <1>1 DEF Inv, MarkersApart, SearchInv, CacheInv, Chunks
<1>4. InitialInv' /\ ResultIsOneMinimal'
  BY <1>1 DEF Inv, InitialInv, ResultIsOneMinimal
<1> QED
  BY <1>2, <1>3, <1>4 DEF Inv

LEMMA NextInv == Inv /\ [Next]_vars => Inv'
<1> SUFFICES ASSUME Inv, [Next]_vars PROVE Inv'
  OBVIOUS
<1>1. CASE UNCHANGED vars
  BY <1>1 DEF vars, Inv, TypeOK, MarkersApart, SearchInv, CacheInv, InitialInv,
              ResultIsOneMinimal, Chunks, Cover, ChunksOf, Marker
<1>2. CASE StopAppears \/ Stop \/ NoChunks \/ TestIsSignalled
  BY <1>2, EndStep
<1>3. CASE CheckInitialInput
  BY <1>3, CheckStep
<1>4. ASSUME NEW m \in todo, TryComplement(m) \/ TryCached(m) PROVE Inv'
  BY <1>4, VisitStep
<1>5. CASE RedoComplementLoop
  BY <1>5, RedoStep
<1>6. CASE IncreaseGranularity
  BY <1>6, GranularityStep
<1>7. CASE Done
  BY <1>7, DoneStep
<1> QED
  BY <1>1, <1>2, <1>3, <1>4, <1>5, <1>6, <1>7 DEF Next, Step

LEMMA Invariance == Spec => []Inv
BY InitInv, NextInv, PTL DEF Spec

\* delta's "guaranteed to find a 1-minimal file", for every test and length.
THEOREM DeltaIsOneMinimal == Spec => []ResultIsOneMinimal
<1>1. Inv => ResultIsOneMinimal
  BY DEF Inv
<1> QED
  BY <1>1, Invariance, PTL

\* What is kept on disk is what is searched.
THEOREM DeltaKeepsWhatItSearches == Spec => []KeptIsSearched
<1>1. Inv => KeptIsSearched
  BY DEF Inv, SearchInv, KeptIsSearched, MarkersApart
<1> QED
  BY <1>1, Invariance, PTL

\* "Can't happen": no success is answered from the cache.
THEOREM DeltaCacheOnlyRejects == Spec => []CacheOnlyRejects
<1>1. Inv => CacheOnlyRejects
  <2> SUFFICES ASSUME Inv, pc = "search", NEW m \in todo, cache[Complement(m)] = "pass"
               PROVE  FALSE
    BY DEF CacheOnlyRejects
  <2>1. /\ Complement(m) \in SUBSET Chunks
        /\ m.start \in kept /\ m.start \notin Complement(m)
    BY ComplementFacts
  <2>2. kept \subseteq Complement(m)
    BY <2>1 DEF Inv, CacheInv
  <2> QED
    BY <2>1, <2>2
<1> QED
  BY <1>1, Invariance, PTL

\* Every variable has its type.
THEOREM DeltaTypeCorrect == Spec => []TypeOK
<1>1. Inv => TypeOK
  BY DEF Inv
<1> QED
  BY <1>1, Invariance, PTL

\* delta walks through ever smaller inputs that pass the test.
THEOREM DeltaRefinesMinimizer == Spec => RefinesMinimizer
<1>1. Init => Abstract!Init
  BY DEF Init, Abstract!Init
<1>2. Inv /\ [Next]_vars => [Abstract!Next]_Abstract!vars
  <2> SUFFICES ASSUME Inv, [Next]_vars PROVE [Abstract!Next]_Abstract!vars
    OBVIOUS
  <2>1. CASE UNCHANGED vars \/ StopAppears \/ RedoComplementLoop \/ IncreaseGranularity
    BY <2>1 DEF vars, StopAppears, RedoComplementLoop, IncreaseGranularity, input, Abstract!vars
  <2>2. CASE Stop \/ NoChunks \/ TestIsSignalled
    BY <2>2 DEF Stop, NoChunks, TestIsSignalled, input, Abstract!vars, Abstract!Next, Abstract!Halt
  <2>3. CASE CheckInitialInput
    <3>1. UNCHANGED <<length, oracle>> /\ pc = "initial" /\ length > 0
      BY <2>3 DEF CheckInitialInput, input
    <3>2. CASE Chunks \in oracle
      <4>1. kept' = Chunks /\ pc' = "search"
        BY <2>3, <3>2 DEF CheckInitialInput, RunTest
      <4> QED
        BY <3>1, <3>2, <4>1 DEF Chunks, Abstract!Next, Abstract!Begin, Abstract!Whole
    <3>3. CASE Chunks \notin oracle
      <4>1. kept' = kept /\ pc' = "died"
        BY <2>3, <3>3 DEF CheckInitialInput, RunTest
      <4> QED
        BY <3>1, <4>1 DEF Abstract!Next, Abstract!Halt
    <3> QED
      BY <3>2, <3>3
  <2>4. ASSUME NEW m \in todo, TryComplement(m) PROVE [Abstract!Next]_Abstract!vars
    <3>1. /\ UNCHANGED <<length, oracle>> /\ pc = "search" /\ pc' = pc
          /\ kept' = IF Complement(m) \in oracle THEN Complement(m) ELSE kept
      BY <2>4 DEF TryComplement, RunTest, input
    <3>2. Complement(m) = kept \ ChunksOf(m) /\ Complement(m) # kept
      BY <3>1, ComplementFacts
    <3>3. CASE Complement(m) \in oracle
      BY <3>1, <3>2, <3>3 DEF Abstract!Next, Abstract!Shrink
    <3>4. CASE Complement(m) \notin oracle
      BY <3>1, <3>4 DEF Abstract!vars
    <3> QED
      BY <3>3, <3>4
  <2>5. ASSUME NEW m \in todo, TryCached(m) PROVE [Abstract!Next]_Abstract!vars
    BY <2>5 DEF TryCached, input, Abstract!vars
  <2>6. CASE Done
    BY <2>6, NothingToRemove DEF Done, input, Abstract!Next, Abstract!Finish, Abstract!OneMinimal
  <2> QED
    BY <2>1, <2>2, <2>3, <2>4, <2>5, <2>6 DEF Next, Step
<1> QED
  BY <1>1, <1>2, Invariance, PTL DEF Spec, RefinesMinimizer, Abstract!Spec
=============================================================================
