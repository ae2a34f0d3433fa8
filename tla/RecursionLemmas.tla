--------------------------- MODULE RecursionLemmas ---------------------------
(***************************************************************************)
(* A definition f[x \in S] == e names a function f with f = [x \in S |-> e] *)
(* if there is one.  These lemmas say that there is one, for the two kinds *)
(* of recursion the modules use: along a finite range of numbers, and the  *)
(* loop that goes on from step to step until it stops, if it ever does.    *)
(***************************************************************************)
EXTENDS Integers, TLAPS, WellFoundedInduction

\* The natural numbers are well-founded, the relation written out.
LEMMA NatOrderWellFounded ==
    IsWellFoundedOn({ss \in Nat \X Nat : ss[1] < ss[2]}, Nat)
BY NatLessThanWellFounded DEF OpToRel

\* A set of natural numbers that is not empty has a least element.
LEMMA LeastExists ==
    ASSUME NEW S \in SUBSET Nat, S # {}
    PROVE  \E m \in S : \A j \in S : m <= j
<1> DEFINE R == {ss \in Nat \X Nat : ss[1] < ss[2]}
<1>1. PICK m \in S : \A j \in S : <<j, m>> \notin R
  <2>1. IsWellFoundedOn(R, Nat)
    BY NatOrderWellFounded
  <2> HIDE DEF R
  <2> QED
    BY <2>1, WFMin
<1>2. ASSUME NEW j \in S PROVE m <= j
  <2>1. <<j, m>> \notin R /\ j \in Nat /\ m \in Nat
    BY <1>1
  <2> QED
    BY <2>1
<1> QED
  BY <1>2

\* A set of numbers up to n that is not empty has a greatest element.
LEMMA GreatestExists ==
    ASSUME NEW n \in Nat, NEW S \in SUBSET (0..n), S # {}
    PROVE  \E m \in S : \A j \in S : m >= j
<1> DEFINE Bounds == {b \in Nat : \A j \in S : j <= b}
<1>1. Bounds \in SUBSET Nat /\ n \in Bounds
  OBVIOUS
<1>2. PICK m \in Bounds : \A b \in Bounds : m <= b
  <2> HIDE DEF Bounds
  <2> QED
    BY <1>1, LeastExists
<1>3. m \in Nat /\ \A j \in S : m >= j
  BY <1>2
<1>4. m \in S
  <2> SUFFICES ASSUME m \notin S PROVE FALSE
    OBVIOUS
  <2>1. PICK j \in S : TRUE
    OBVIOUS
  <2>2. \A i \in S : i \in Nat /\ i <= m - 1
    BY <1>3
  <2>3. m - 1 \in Bounds /\ ~(m <= m - 1)
    BY <1>3, <2>1, <2>2
  <2> QED
    BY <1>2, <2>3
<1> QED
  BY <1>3, <1>4

\* What holds of 0, and of k + 1 when it holds of k, holds of all numbers; the
\* property is given as the set of the numbers that have it.
LEMMA NumbersInduction ==
    ASSUME NEW S, 0 \in S, \A k \in Nat : k \in S => k + 1 \in S
    PROVE  Nat \subseteq S
<1> DEFINE Out == {k \in Nat : k \notin S}
<1> SUFFICES ASSUME Out # {} PROVE FALSE
  OBVIOUS
<1>1. PICK m \in Out : \A j \in Out : m <= j
  <2>1. Out \in SUBSET Nat
    OBVIOUS
  <2> HIDE DEF Out
  <2> QED
    BY <2>1, LeastExists
<1>2. m \in Nat /\ m # 0 /\ m \notin S
  BY <1>1
<1>3. m - 1 \in Nat /\ (m - 1) + 1 = m /\ ~(m <= m - 1)
  BY <1>2
<1>4. m - 1 \in S
  BY <1>1, <1>3
<1> QED
  BY <1>2, <1>3, <1>4

\* A value for each number of a range that may depend on the values for the
\* smaller numbers: step says how.
IsRecursion(f, N, step) == \A i \in 0..N : f[i] = step[<<i, f>>]

\* step looks at the values for the smaller numbers only.
LooksBackOnly(N, V, step) ==
    \A i \in 0..N, f, g \in [0..N -> V] :
        (\A j \in 0..N : j < i => f[j] = g[j]) => step[<<i, f>>] = step[<<i, g>>]

\* If it does, there are such values.
LEMMA RecursionExists ==
    ASSUME NEW N \in Nat, NEW V, NEW init \in [0..N -> V],
           NEW step \in [(0..N) \X [0..N -> V] -> V], LooksBackOnly(N, V, step)
    PROVE  \E f \in [0..N -> V] : IsRecursion(f, N, step)
<1> DEFINE Upto(k, f) == \A i \in 0..N : i < k => f[i] = step[<<i, f>>]
           S == {k \in Nat : \E f \in [0..N -> V] : Upto(k, f)}
<1>1. 0 \in S
  OBVIOUS
<1>2. ASSUME NEW k \in Nat, k \in S PROVE k + 1 \in S
  <2>1. PICK f \in [0..N -> V] : Upto(k, f)
    BY <1>2
  <2>2. CASE k \notin 0..N
    <3>1. Upto(k + 1, f)
      BY <2>1, <2>2
    <3> QED
      BY <3>1
  <2>3. CASE k \in 0..N
    <3> DEFINE g == [f EXCEPT ![k] = step[<<k, f>>]]
    <3>1. step[<<k, f>>] \in V
      BY <2>3
    <3>2. g \in [0..N -> V] /\ \A j \in 0..N : g[j] = IF j = k THEN step[<<k, f>>] ELSE f[j]
      BY <2>1, <2>3, <3>1
    <3> HIDE DEF g
    <3>3. ASSUME NEW i \in 0..N, i < k + 1 PROVE g[i] = step[<<i, g>>]
      <4>1. step[<<i, f>>] = step[<<i, g>>]
        <5>1. \A j \in 0..N : j < i => f[j] = g[j]
          BY <2>3, <3>2, <3>3
        <5> QED
          BY <5>1, <3>2 DEF LooksBackOnly
      <4>2. CASE i = k
        BY <3>2, <4>1, <4>2
      <4>3. CASE i # k
        BY <2>1, <3>2, <3>3, <4>1, <4>3
      <4> QED
        BY <4>2, <4>3
    <3>4. Upto(k + 1, g)
      BY <3>3
    <3> HIDE DEF Upto
    <3> QED
      BY <3>2, <3>4
  <2> QED
    BY <2>2, <2>3
<1>3. N + 1 \in S
  <2> HIDE DEF S
  <2> QED
    BY <1>1, <1>2, NumbersInduction
<1>4. PICK f \in [0..N -> V] : Upto(N + 1, f)
  BY <1>3
<1> QED
  BY <1>4 DEF IsRecursion

\* The same from the other end: step looks at the values for greater numbers.
LooksAheadOnly(N, V, step) ==
    \A i \in 0..N, f, g \in [0..N -> V] :
        (\A j \in 0..N : i < j => f[j] = g[j]) => step[<<i, f>>] = step[<<i, g>>]

LEMMA BackwardRecursionExists ==
    ASSUME NEW N \in Nat, NEW V, NEW init \in [0..N -> V],
           NEW step \in [(0..N) \X [0..N -> V] -> V], LooksAheadOnly(N, V, step)
    PROVE  \E f \in [0..N -> V] : IsRecursion(f, N, step)
<1> DEFINE Mirror(f) == [i \in 0..N |-> f[N - i]]
           back == [x \in (0..N) \X [0..N -> V] |-> step[<<N - x[1], Mirror(x[2])>>]]
<1>1. \A i \in 0..N : N - i \in 0..N /\ N - (N - i) = i
  OBVIOUS
<1>2. ASSUME NEW f \in [0..N -> V] PROVE Mirror(f) \in [0..N -> V]
  BY <1>1
<1>3. back \in [(0..N) \X [0..N -> V] -> V]
  BY <1>1, <1>2
<1>4. LooksBackOnly(N, V, back)
  <2>1. ASSUME NEW i \in 0..N, NEW f \in [0..N -> V], NEW g \in [0..N -> V],
               \A j \in 0..N : j < i => f[j] = g[j]
        PROVE  back[<<i, f>>] = back[<<i, g>>]
    <3>1. \A j \in 0..N : N - i < j => Mirror(f)[j] = Mirror(g)[j]
      <4>1. ASSUME NEW j \in 0..N, N - i < j PROVE N - j \in 0..N /\ N - j < i
        BY <4>1
      <4> QED
        BY <2>1, <4>1
    <3>2. Mirror(f) \in [0..N -> V] /\ Mirror(g) \in [0..N -> V]
      BY <1>2
    <3>3. back[<<i, f>>] = step[<<N - i, Mirror(f)>>] /\ back[<<i, g>>] = step[<<N - i, Mirror(g)>>]
      OBVIOUS
    <3> HIDE DEF Mirror, back
    <3> QED
      BY <1>1, <3>1, <3>2, <3>3 DEF LooksAheadOnly
  <2> HIDE DEF back
  <2> QED
    BY <2>1 DEF LooksBackOnly
<1>5. PICK f \in [0..N -> V] : IsRecursion(f, N, back)
  <2> HIDE DEF back
  <2> QED
    BY <1>3, <1>4, RecursionExists
<1>6. ASSUME NEW i \in 0..N PROVE Mirror(f)[i] = step[<<i, Mirror(f)>>]
  BY <1>1, <1>5 DEF IsRecursion
<1> QED
  BY <1>2, <1>6 DEF IsRecursion

\* A loop: where it stops it has a result, elsewhere the result is that of the
\* next step.
IsLoop(f, D, stop, res, step) ==
    \A e \in D : f[e] = IF e \in stop THEN res[e] ELSE f[step[e]]

\* Every loop has results; along a path that never stops they are all the same.
LEMMA LoopExists ==
    ASSUME NEW D, NEW V, NEW stop, NEW res \in [D -> V], NEW step \in [D -> D]
    PROVE  \E f \in [D -> V] : IsLoop(f, D, stop, res, step)
<1> DEFINE Closed(R) == /\ \A e \in D : e \in stop => <<e, res[e]>> \in R
                        /\ \A e \in D, v \in V : e \notin stop /\ <<step[e], v>> \in R => <<e, v>> \in R
           G == {x \in D \X V : \A R \in SUBSET (D \X V) : Closed(R) => x \in R}
           Value(e) == {v \in V : <<e, v>> \in G}
           Choice == [S \in SUBSET V |-> CHOOSE v \in V : S = {} \/ v \in S]
           f == [e \in D |-> Choice[Value(e)]]
<1>1. Closed(G)
  OBVIOUS
<1>2. ASSUME NEW e \in D, e \in stop PROVE Value(e) = {res[e]}
  <2>1. ASSUME NEW v \in V, v # res[e], <<e, v>> \in G PROVE FALSE
    <3>1. Closed(G \ {<<e, v>>}) /\ G \ {<<e, v>>} \in SUBSET (D \X V)
      BY <1>1, <1>2, <2>1
    <3> HIDE DEF Closed
    <3>2. \A x \in G : x \in G \ {<<e, v>>}
      BY <3>1
    <3> QED
      BY <2>1, <3>2
  <2>2. <<e, res[e]>> \in G
    BY <1>1, <1>2
  <2> HIDE DEF G
  <2> QED
    BY <2>1, <2>2
<1>3. ASSUME NEW e \in D, e \notin stop PROVE Value(e) = Value(step[e])
  <2>1. ASSUME NEW v \in V, <<step[e], v>> \notin G, <<e, v>> \in G PROVE FALSE
    <3>1. Closed(G \ {<<e, v>>}) /\ G \ {<<e, v>>} \in SUBSET (D \X V)
      BY <1>1, <1>3, <2>1
    <3> HIDE DEF Closed
    <3>2. \A x \in G : x \in G \ {<<e, v>>}
      BY <3>1
    <3> QED
      BY <2>1, <3>2
  <2>2. \A v \in V : <<step[e], v>> \in G => <<e, v>> \in G
    BY <1>1, <1>3
  <2> HIDE DEF G
  <2> QED
    BY <2>1, <2>2
<1> HIDE DEF Value, Choice
<1>4. ASSUME NEW e \in D
      PROVE  f[e] \in V /\ f[e] = IF e \in stop THEN res[e] ELSE f[step[e]]
  <2>1. res[e] \in V /\ step[e] \in D /\ Value(e) \in SUBSET V
    BY DEF Value
  <2>2. \E v \in V : Value(e) = {} \/ v \in Value(e)
    BY <2>1
  <2>3. Choice[Value(e)] \in V /\ (Value(e) = {} \/ Choice[Value(e)] \in Value(e))
    BY <2>1, <2>2 DEF Choice
  <2>4. CASE e \in stop
    BY <1>2, <2>3, <2>4
  <2>5. CASE e \notin stop
    BY <1>3, <2>1, <2>3, <2>5
  <2> QED
    BY <2>4, <2>5
<1> HIDE DEF f
<1>5. f \in [D -> V]
  BY <1>4 DEF f
<1> QED
  BY <1>4, <1>5 DEF IsLoop

\* The results of a loop that counts down have their type.
LEMMA LoopType ==
    ASSUME NEW D, NEW V, NEW stop, NEW res \in [D -> V], NEW step \in [D -> D],
           NEW measure \in [D -> Nat], \A e \in D : e \notin stop => measure[step[e]] < measure[e],
           NEW f, IsLoop(f, D, stop, res, step)
    PROVE  \A e \in D : f[e] \in V
<1> DEFINE S == {k \in Nat : \A e \in D : measure[e] <= k => f[e] \in V}
<1>1. ASSUME NEW e \in D, e \in stop PROVE f[e] \in V
  BY <1>1 DEF IsLoop
<1>2. ASSUME NEW e \in D, e \notin stop PROVE f[e] = f[step[e]] /\ step[e] \in D /\ measure[step[e]] < measure[e]
  BY <1>2 DEF IsLoop
<1>3. \A e \in D : measure[e] \in Nat
  OBVIOUS
<1>4. 0 \in S
  <2>1. ASSUME NEW e \in D, measure[e] <= 0 PROVE f[e] \in V
    BY <1>1, <1>2, <1>3, <2>1
  <2> QED
    BY <2>1
<1>5. ASSUME NEW k \in Nat, k \in S PROVE k + 1 \in S
  <2>1. ASSUME NEW e \in D, measure[e] <= k + 1 PROVE f[e] \in V
    <3>1. CASE e \in stop
      BY <1>1, <3>1
    <3>2. CASE e \notin stop
      <4>1. f[e] = f[step[e]] /\ step[e] \in D /\ measure[step[e]] < measure[e]
        BY <1>2, <3>2
      <4>2. measure[step[e]] <= k
        BY <1>3, <2>1, <4>1
      <4> QED
        BY <1>5, <4>1, <4>2
    <3> QED
      BY <3>1, <3>2
  <2> QED
    BY <2>1
<1>6. Nat \subseteq S
  <2> HIDE DEF S
  <2> QED
    BY <1>4, <1>5, NumbersInduction
<1> QED
  BY <1>3, <1>6
=============================================================================
