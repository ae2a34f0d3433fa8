----------------------------- MODULE ClexProofs -----------------------------
(***************************************************************************)
(* What pass_clex promises, for every set of commands, every start file    *)
(* the lexer can make and every test.                                      *)
(*                                                                         *)
(* The argument has three parts.  The tokens of the file are at all times  *)
(* such as the lexer makes (LexInv).  The commands count: every index from *)
(* the last acceptance on has had its variant refused (LoopInv), and when  *)
(* the pass is over the command has answered so for the last index         *)
(* (EndInv).  And what an index stands for is a fact about the command,    *)
(* which the lemmas about the operators, first, give.                      *)
(***************************************************************************)
EXTENDS PassClex, RecursionLemmas, FiniteSetTheorems

-----------------------------------------------------------------------------
(* Counting.                                                               *)

\* The sets of positions of a sequence of n tokens.
Positions(n) == SUBSET (1..n)

\* A set of positions is finite, and so are its parts.
LEMMA PositionsAreFinite ==
    ASSUME NEW n \in Nat, NEW S \in Positions(n)
    PROVE  /\ \A x \in S : x \in Nat /\ 0 < x /\ x <= n
           /\ IsFiniteSet(S) /\ Cardinality(S) \in Nat
<1>1. IsFiniteSet(1..n) /\ S \in SUBSET (1..n)
  BY FS_Interval DEF Positions
<1>2. IsFiniteSet(S)
  BY <1>1, FS_Subset
<1> QED
  BY <1>1, <1>2, FS_CardinalityType

\* From one position to the next the rank grows by one on the set, by none off it.
LEMMA RankStep ==
    ASSUME NEW n \in Nat, NEW S \in Positions(n), NEW m \in Nat
    PROVE  /\ Rank(S, 0) = 0 /\ Rank(S, m) \in Nat /\ Rank(S, n) = Cardinality(S)
           /\ Rank(S, m + 1) = IF m + 1 \in S THEN Rank(S, m) + 1 ELSE Rank(S, m)
<1> DEFINE T == {x \in S : x <= m}
           U == {x \in S : x <= m + 1}
<1> \A x \in S : x \in Nat /\ 0 < x /\ x <= n
  BY PositionsAreFinite
<1>1. {x \in S : x <= 0} = {} /\ {x \in S : x <= n} = S
  OBVIOUS
<1>2. IsFiniteSet(T) /\ Cardinality(T) \in Nat
  <2>1. T \in Positions(n)
    BY DEF Positions
  <2> QED
    BY <2>1, PositionsAreFinite
<1>3. U = IF m + 1 \in S THEN T \cup {m + 1} ELSE T
  OBVIOUS
<1>4. m + 1 \notin T
  OBVIOUS
<1>5. Cardinality(T \cup {m + 1}) = Cardinality(T) + 1
  <2> HIDE DEF T
  <2> QED
    BY <1>2, <1>4, FS_AddElement
<1>6. Rank(S, m) = Cardinality(T) /\ Rank(S, m + 1) = Cardinality(U)
  BY DEF Rank
<1>7. Rank(S, 0) = 0 /\ Rank(S, n) = Cardinality(S)
  BY <1>1, FS_EmptySet DEF Rank
<1> HIDE DEF T, U
<1> QED
  BY <1>2, <1>3, <1>5, <1>6, <1>7

\* The rank of a greater position is no smaller, and greater if that position
\* is in the set.
LEMMA RankIsMonotone ==
    ASSUME NEW n \in Nat, NEW S \in Positions(n), NEW l \in Nat, NEW m \in Nat, l < m
    PROVE  Rank(S, l) <= Rank(S, m) /\ (m \in S => Rank(S, l) < Rank(S, m))
<1> DEFINE Above == {k \in Nat : l <= k => Rank(S, l) <= Rank(S, k)}
<1>1. 0 \in Above
  <2>1. l <= 0 => l = 0
    OBVIOUS
  <2> QED
    BY <2>1, RankStep
<1>2. ASSUME NEW k \in Nat, k \in Above PROVE k + 1 \in Above
  <2>1. CASE l <= k
    BY <1>2, <2>1, RankStep
  <2>2. CASE l = k + 1
    BY <2>2, RankStep
  <2> QED
    BY <2>1, <2>2
<1>3. Nat \subseteq Above
  <2> HIDE DEF Above
  <2> QED
    BY <1>1, <1>2, NumbersInduction
<1>4. m - 1 \in Nat /\ l <= m - 1 /\ (m - 1) + 1 = m
  OBVIOUS
<1>5. Rank(S, l) <= Rank(S, m) /\ Rank(S, l) <= Rank(S, m - 1)
  BY <1>3, <1>4
<1>6. /\ Rank(S, l) \in Nat /\ Rank(S, m - 1) \in Nat
      /\ Rank(S, m) = IF m \in S THEN Rank(S, m - 1) + 1 ELSE Rank(S, m - 1)
  BY <1>4, RankStep
<1> QED
  BY <1>5, <1>6

\* Nth is the inverse of Rank.
LEMMA NthHasRank ==
    ASSUME NEW n \in Nat, NEW S \in Positions(n)
    PROVE  /\ \A k \in 1..Cardinality(S) : Nth(S, k) \in S /\ Rank(S, Nth(S, k)) = k
           /\ \A m \in S : Rank(S, m) \in 1..Cardinality(S) /\ Nth(S, Rank(S, m)) = m
<1>1. ASSUME NEW l \in S, NEW m \in S, Rank(S, l) = Rank(S, m) PROVE l = m
  <2>1. l \in Nat /\ m \in Nat /\ Rank(S, l) \in Nat
    BY RankStep, PositionsAreFinite
  <2>2. ~(l < m) /\ ~(m < l)
    BY <1>1, <2>1, RankIsMonotone
  <2> QED
    BY <2>1, <2>2
<1>2. ASSUME NEW m \in S PROVE Rank(S, m) \in 1..Cardinality(S)
  <2>1. m \in Nat /\ 0 < m /\ m <= n
    BY PositionsAreFinite
  <2>2. Rank(S, 0) < Rank(S, m)
    BY <2>1, RankIsMonotone
  <2>3. m = n \/ Rank(S, m) <= Rank(S, n)
    BY <2>1, RankIsMonotone
  <2>4. Rank(S, m) \in Nat /\ Rank(S, 0) = 0 /\ Rank(S, n) = Cardinality(S) /\ Cardinality(S) \in Nat
    BY <2>1, RankStep, PositionsAreFinite
  <2> QED
    BY <2>2, <2>3, <2>4
<1>3. ASSUME NEW k \in 1..Cardinality(S) PROVE \E m \in S : Rank(S, m) = k
  <2> DEFINE Reached == {x \in Nat : k <= Rank(S, x)}
  <2>1. Reached \in SUBSET Nat /\ n \in Reached
    BY <1>3, RankStep, PositionsAreFinite
  <2>2. PICK m \in Reached : \A x \in Reached : m <= x
    <3> HIDE DEF Reached
    <3> QED
      BY <2>1, LeastExists
  <2>3. m \in Nat /\ k <= Rank(S, m) /\ m # 0
    BY <1>3, <2>2, RankStep, PositionsAreFinite
  <2>4. m - 1 \in Nat /\ (m - 1) + 1 = m /\ ~(k <= Rank(S, m - 1))
    <3>1. m - 1 \in Nat /\ (m - 1) + 1 = m /\ ~(m <= m - 1)
      BY <2>3
    <3> QED
      BY <2>2, <3>1
  <2>5. Rank(S, m - 1) \in Nat
        /\ Rank(S, m) = IF m \in S THEN Rank(S, m - 1) + 1 ELSE Rank(S, m - 1)
    BY <2>4, RankStep
  <2>6. k \in Nat
    BY <1>3, PositionsAreFinite
  <2>7. m \in S /\ Rank(S, m) = k
    BY <2>3, <2>4, <2>5, <2>6
  <2> QED
    BY <2>7
<1>4. ASSUME NEW k \in 1..Cardinality(S) PROVE Nth(S, k) \in S /\ Rank(S, Nth(S, k)) = k
  BY <1>3 DEF Nth
<1>5. ASSUME NEW m \in S PROVE Nth(S, Rank(S, m)) = m
  BY <1>1, <1>2, <1>4
<1> QED
  BY <1>2, <1>4, <1>5

-----------------------------------------------------------------------------
(* Selecting from a selection.                                             *)

\* The places in the selection S of what lies in T, too.
Places(S, T) == {k \in 1..Cardinality(S) : Nth(S, k) \in T}

LEMMA PlacesArePositions ==
    ASSUME NEW n \in Nat, NEW S \in Positions(n), NEW T
    PROVE  /\ Cardinality(S) \in Nat /\ Places(S, T) \in Positions(Cardinality(S))
           /\ S \cap T \in Positions(n)
BY PositionsAreFinite DEF Places, Positions

\* Nth keeps the order.
LEMMA NthIsMonotone ==
    ASSUME NEW n \in Nat, NEW S \in Positions(n),
           NEW j \in 1..Cardinality(S), NEW k \in 1..Cardinality(S)
    PROVE  k <= j <=> Nth(S, k) <= Nth(S, j)
<1>1. /\ Nth(S, j) \in S /\ Rank(S, Nth(S, j)) = j
      /\ Nth(S, k) \in S /\ Rank(S, Nth(S, k)) = k
  BY NthHasRank
<1>2. Nth(S, j) \in Nat /\ Nth(S, k) \in Nat /\ Cardinality(S) \in Nat
  BY <1>1, PositionsAreFinite
<1>3. /\ Nth(S, j) < Nth(S, k) => j < k
      /\ Nth(S, k) < Nth(S, j) => k < j
  BY <1>1, <1>2, RankIsMonotone
<1> QED
  BY <1>1, <1>2, <1>3

\* Up to corresponding bounds there are as many places as positions.
LEMMA PlacesRank ==
    ASSUME NEW n \in Nat, NEW S \in Positions(n), NEW T, NEW j \in Nat, NEW b \in Nat,
           \A k \in 1..Cardinality(S) : k <= j <=> Nth(S, k) <= b
    PROVE  Rank(Places(S, T), j) = Rank(S \cap T, b)
<1> DEFINE A == {k \in Places(S, T) : k <= j}
           B == {m \in S \cap T : m <= b}
           f == [k \in A |-> Nth(S, k)]
<1>1. ASSUME NEW k \in A PROVE k \in 1..Cardinality(S) /\ Nth(S, k) \in B
  BY NthHasRank DEF Places
<1>2. ASSUME NEW k \in A, NEW l \in A, Nth(S, k) = Nth(S, l) PROVE k = l
  BY <1>1, <1>2, NthHasRank
<1>3. ASSUME NEW m \in B PROVE \E k \in A : Nth(S, k) = m
  <2>1. Rank(S, m) \in 1..Cardinality(S) /\ Nth(S, Rank(S, m)) = m
    BY NthHasRank
  <2>2. Rank(S, m) \in A
    BY <2>1 DEF Places
  <2> QED
    BY <2>1, <2>2
<1>4. IsFiniteSet(A)
  <2>1. A \in Positions(Cardinality(S)) /\ Cardinality(S) \in Nat
    BY PlacesArePositions DEF Places, Positions
  <2> QED
    BY <2>1, PositionsAreFinite
<1>5. Cardinality(A) = Cardinality(B)
  <2> HIDE DEF A, B
  <2>1. f \in Bijection(A, B)
    BY <1>1, <1>2, <1>3 DEF Bijection, Injection, Surjection, IsInjective
  <2>2. ExistsBijection(A, B)
    BY <2>1 DEF ExistsBijection
  <2> QED
    BY <1>4, <2>2, FS_Bijection
<1> QED
  BY <1>5 DEF Rank

\* Nth of a part, through the whole.
LEMMA NthOfPart ==
    ASSUME NEW n \in Nat, NEW S \in Positions(n), NEW T
    PROVE  /\ Cardinality(Places(S, T)) = Cardinality(S \cap T)
           /\ \A k \in 1..Cardinality(S \cap T) :
                 Nth(Places(S, T), k) \in Places(S, T) /\ Nth(S, Nth(Places(S, T), k)) = Nth(S \cap T, k)
<1> DEFINE P == Places(S, T)
           I == S \cap T
           c == Cardinality(S)
<1>1. c \in Nat /\ P \in Positions(c) /\ I \in Positions(n)
  BY PlacesArePositions
<1>2. Cardinality(P) = Cardinality(I)
  <2>1. \A k \in 1..c : k <= c <=> Nth(S, k) <= n
    BY <1>1, NthHasRank, PositionsAreFinite
  <2>2. Rank(P, c) = Rank(I, n)
    BY <1>1, <2>1, PlacesRank
  <2> HIDE DEF P, I, c
  <2> QED
    BY <1>1, <2>2, RankStep
<1>3. ASSUME NEW k \in 1..Cardinality(P)
      PROVE  Nth(P, k) \in P /\ Nth(S, Nth(P, k)) = Nth(I, k)
  <2> DEFINE j == Nth(P, k)
  <2>1. j \in P /\ Rank(P, j) = k
    <3> HIDE DEF P, c
    <3> QED
      BY <1>1, NthHasRank
  <2>2. j \in 1..c /\ Nth(S, j) \in I
    BY <2>1, NthHasRank DEF Places
  <2>3. j \in Nat /\ Nth(S, j) \in Nat
    <3> HIDE DEF P, I, j
    <3> QED
      BY <1>1, <2>1, <2>2, PositionsAreFinite
  <2>4. \A l \in 1..c : l <= j <=> Nth(S, l) <= Nth(S, j)
    BY <2>2, NthIsMonotone
  <2>5. Rank(I, Nth(S, j)) = k
    <3> HIDE DEF j
    <3> QED
      BY <2>1, <2>3, <2>4, PlacesRank
  <2>6. Nth(I, Rank(I, Nth(S, j))) = Nth(S, j)
    <3> HIDE DEF I, j
    <3> QED
      BY <1>1, <2>2, NthHasRank
  <2> QED
    BY <2>1, <2>5, <2>6
<1> QED
  BY <1>2, <1>3

\* What is selected by position from a selection is selected from the whole.
LEMMA AtAt ==
    ASSUME NEW n \in Nat, NEW S \in Positions(n), NEW T, NEW ts
    PROVE  At(At(ts, S), Places(S, T)) = At(ts, S \cap T)
<1>1. \A k \in Places(S, T) : At(ts, S)[k] = ts[Nth(S, k)]
  BY DEF At, Places
<1>2. At(At(ts, S), Places(S, T)) =
        [k \in 1..Cardinality(Places(S, T)) |-> At(ts, S)[Nth(Places(S, T), k)]]
  BY DEF At
<1> QED
  BY <1>1, <1>2, NthOfPart DEF At

-----------------------------------------------------------------------------
(* Tokens that are not space.                                              *)

VisibleAt(ts) == {i \in DOMAIN ts : Visible(ts[i])}

\* A selection is made of tokens of the whole.
LEMMA AtType ==
    ASSUME NEW T, NEW ts \in Seq(T), NEW S \in Positions(Len(ts))
    PROVE  /\ At(ts, S) \in Seq(T) /\ Len(At(ts, S)) = Cardinality(S)
           /\ DOMAIN At(ts, S) = 1..Cardinality(S)
           /\ \A k \in 1..Cardinality(S) : Nth(S, k) \in DOMAIN ts /\ At(ts, S)[k] = ts[Nth(S, k)]
<1>1. Len(ts) \in Nat /\ DOMAIN ts = 1..Len(ts) /\ \A i \in 1..Len(ts) : ts[i] \in T
  OBVIOUS
<1>2. Cardinality(S) \in Nat /\ \A k \in 1..Cardinality(S) : Nth(S, k) \in 1..Len(ts)
  BY <1>1, NthHasRank, PositionsAreFinite
<1> QED
  BY <1>1, <1>2 DEF At

\* The positions that are not space, counted.
LEMMA VisibleCount ==
    ASSUME NEW T, NEW ts \in Seq(T)
    PROVE  /\ VisibleAt(ts) \in Positions(Len(ts))
           /\ Cardinality(VisibleAt(ts)) \in Nat
           /\ \A i \in 0..Len(ts) : CountUpTo(ts, Visible, i) = Rank(VisibleAt(ts), i)
           /\ CountUpTo(ts, Visible, Len(ts)) = Cardinality(VisibleAt(ts))
<1>1. Len(ts) \in Nat /\ DOMAIN ts = 1..Len(ts)
  OBVIOUS
<1>2. VisibleAt(ts) \in Positions(Len(ts))
  BY <1>1 DEF VisibleAt, Positions
<1>3. ASSUME NEW i \in 0..Len(ts) PROVE CountUpTo(ts, Visible, i) = Rank(VisibleAt(ts), i)
  <2>1. {j \in 1..i : Visible(ts[j])} = {x \in VisibleAt(ts) : x <= i}
    BY <1>1 DEF VisibleAt
  <2> QED
    BY <2>1 DEF CountUpTo, Rank
<1> QED
  BY <1>1, <1>2, <1>3, RankStep, PositionsAreFinite

\* Taking out tokens and then the space is taking out the space, too.
LEMMA SolidAt ==
    ASSUME NEW T, NEW ts \in Seq(T), NEW S \in Positions(Len(ts))
    PROVE  Solid(At(ts, S)) = At(ts, S \cap VisibleAt(ts))
<1>1. {k \in DOMAIN At(ts, S) : Visible(At(ts, S)[k])} = Places(S, VisibleAt(ts))
  BY AtType DEF Places, VisibleAt
<1>2. Len(ts) \in Nat
  OBVIOUS
<1> QED
  BY <1>1, <1>2, AtAt DEF Solid

\* Taking out the space, and then the tokens at the places W.
LEMMA SolidWithout ==
    ASSUME NEW T, NEW ts \in Seq(T), NEW W
    PROVE  /\ Len(Solid(ts)) = Cardinality(VisibleAt(ts))
           /\ At(Solid(ts), DOMAIN Solid(ts) \ W)
                = At(ts, {i \in VisibleAt(ts) : Rank(VisibleAt(ts), i) \notin W})
<1> DEFINE V == VisibleAt(ts)
           R == {i \in V : Rank(V, i) \notin W}
<1>1. Len(ts) \in Nat /\ V \in Positions(Len(ts)) /\ Solid(ts) = At(ts, V)
  <2>1. Solid(ts) = At(ts, V)
    BY DEF Solid, VisibleAt
  <2> HIDE DEF V
  <2>2. Len(ts) \in Nat
    OBVIOUS
  <2>3. V \in Positions(Len(ts))
    BY VisibleCount DEF V
  <2> QED
    BY <2>1, <2>2, <2>3
<1>2. DOMAIN Solid(ts) = 1..Cardinality(V) /\ Len(Solid(ts)) = Cardinality(V)
  BY <1>1, AtType
<1>3. DOMAIN Solid(ts) \ W = Places(V, R)
  <2> HIDE DEF V
  <2> QED
    BY <1>1, <1>2, NthHasRank DEF Places
<1>4. V \cap R = R
  OBVIOUS
<1> HIDE DEF V, R
<1>5. At(At(ts, V), Places(V, R)) = At(ts, R)
  BY <1>1, <1>4, AtAt
<1> QED
  BY <1>1, <1>2, <1>3, <1>5 DEF V, R

\* rm-toks-n with an index takes n tokens out of the file without its space.
LEMMA RmToksWindow ==
    ASSUME NEW T, NEW ts \in Seq(T), NEW n \in Nat \ {0}, NEW idx \in Nat
    PROVE  /\ RmToks(n, ts, idx).code = IF idx < Cardinality(VisibleAt(ts)) THEN OK ELSE STOP
           /\ Solid(RmToks(n, ts, idx).out) =
                At(Solid(ts), DOMAIN Solid(ts) \ {k \in 1..Len(Solid(ts)) : idx < k /\ k <= idx + n})
<1> DEFINE V == VisibleAt(ts)
           c == Cardinality(V)
           W == {k \in 1..Len(Solid(ts)) : idx < k /\ k <= idx + n}
           which(i) == CountUpTo(ts, Visible, i)
           K == {i \in DOMAIN ts : ~(which(i) > idx) \/ which(i) > idx + n}
<1>1. Len(ts) \in Nat /\ DOMAIN ts = 1..Len(ts)
  OBVIOUS
<1>2. /\ V \in Positions(Len(ts)) /\ c \in Nat /\ which(Len(ts)) = c
      /\ \A i \in 1..Len(ts) : which(i) = Rank(V, i) /\ Rank(V, i) \in Nat
  <2>1. V \in Positions(Len(ts)) /\ c \in Nat /\ which(Len(ts)) = c
    BY VisibleCount
  <2>2. ASSUME NEW i \in 1..Len(ts) PROVE which(i) = Rank(V, i) /\ Rank(V, i) \in Nat
    <3>1. i \in 0..Len(ts) /\ i \in Nat
      BY <1>1
    <3>2. which(i) = Rank(V, i)
      BY <3>1, VisibleCount
    <3> QED
      BY <1>1, <2>1, <3>1, <3>2, RankStep
  <2> QED
    BY <2>1, <2>2
<1>3. K \in Positions(Len(ts)) /\ V \subseteq 1..Len(ts)
  BY <1>1, <1>2 DEF Positions
<1>4. /\ RmToks(n, ts, idx).code = IF c > idx THEN OK ELSE STOP
      /\ RmToks(n, ts, idx).out = At(ts, K)
  BY <1>2 DEF RmToks, Exit
<1>5. \A i \in V : Rank(V, i) \in 1..c
  <2> HIDE DEF V
  <2> QED
    BY <1>1, <1>2, NthHasRank
<1>6. K \cap V = {i \in V : Rank(V, i) \notin W}
  <2>1. Len(Solid(ts)) = c
    BY SolidWithout
  <2>2. ASSUME NEW i \in V PROVE i \in K <=> Rank(V, i) \notin W
    <3>1. i \in 1..Len(ts) /\ which(i) = Rank(V, i) /\ Rank(V, i) \in Nat
      BY <1>2, <1>3
    <3> HIDE DEF V, which, c
    <3> QED
      BY <1>1, <1>5, <2>1, <3>1
  <2> HIDE DEF K, V, W
  <2> QED
    BY <2>2
<1>7. Solid(At(ts, K)) = At(ts, K \cap V)
  <2> HIDE DEF K
  <2> QED
    BY <1>3, SolidAt
<1>8. At(Solid(ts), DOMAIN Solid(ts) \ W) = At(ts, {i \in V : Rank(V, i) \notin W})
  <2> HIDE DEF W
  <2> QED
    BY SolidWithout
<1> HIDE DEF K
<1> QED
  BY <1>2, <1>4, <1>6, <1>7, <1>8

-----------------------------------------------------------------------------
(* Powers of two and bits.                                                 *)

\* Quotient and remainder are what they are called.
LEMMA QuotientAndRemainder ==
    ASSUME NEW x \in Nat, NEW d \in Nat \ {0}
    PROVE  x = (x \div d) * d + (x % d) /\ x % d \in 0..(d - 1) /\ x \div d \in Nat
OBVIOUS

LEMMA QuotientOf ==
    ASSUME NEW q \in Nat, NEW d \in Nat \ {0}, NEW r \in 0..(d - 1)
    PROVE  (q * d + r) \div d = q /\ (q * d + r) % d = r
OBVIOUS

\* Shifting by one more bit what has one more bit.
LEMMA ShiftOneMore ==
    ASSUME NEW x \in Nat, NEW b \in {0, 1}, NEW d \in Nat \ {0}
    PROVE  (2 * x + b) \div (2 * d) = x \div d
<1> DEFINE q == x \div d
           r == x % d
<1>1. q \in Nat /\ r \in 0..(d - 1) /\ x = q * d + r
  BY QuotientAndRemainder
<1>2. 2 * d \in Nat \ {0} /\ 2 * r + b \in 0..(2 * d - 1)
  BY <1>1
<1>3. 2 * x + b = q * (2 * d) + (2 * r + b)
  BY <1>1
<1> HIDE DEF q, r
<1>4. (q * (2 * d) + (2 * r + b)) \div (2 * d) = q
  BY <1>1, <1>2, QuotientOf
<1> QED
  BY <1>3, <1>4 DEF q

\* The table of the powers of two up to n.
IsPowers(f, n) == f = [k \in 0..n |-> IF k = 0 THEN 1 ELSE 2 * f[k - 1]]

\* There is one table for each n, and the tables agree.
LEMMA PowersExist ==
    ASSUME NEW n \in Nat
    PROVE  \E f \in [0..n -> Nat \ {0}] : IsPowers(f, n)
<1> DEFINE V == Nat \ {0}
           step == [x \in (0..n) \X [0..n -> V] |-> IF x[1] = 0 THEN 1 ELSE 2 * x[2][x[1] - 1]]
           one == [k \in 0..n |-> 1]
<1>1. one \in [0..n -> V]
  OBVIOUS
<1>2. ASSUME NEW i \in 0..n, NEW f \in [0..n -> V]
      PROVE  /\ step[<<i, f>>] = IF i = 0 THEN 1 ELSE 2 * f[i - 1]
             /\ step[<<i, f>>] \in V
  <2>1. step[<<i, f>>] = IF i = 0 THEN 1 ELSE 2 * f[i - 1]
    OBVIOUS
  <2>2. i # 0 => f[i - 1] \in Nat \ {0}
    OBVIOUS
  <2> QED
    BY <2>1, <2>2
<1>3. step \in [(0..n) \X [0..n -> V] -> V]
  BY <1>2
<1>4. LooksBackOnly(n, V, step)
  <2>1. ASSUME NEW i \in 0..n, NEW f \in [0..n -> V], NEW g \in [0..n -> V],
               \A j \in 0..n : j < i => f[j] = g[j]
        PROVE  step[<<i, f>>] = step[<<i, g>>]
    <3>1. i # 0 => i - 1 \in 0..n /\ i - 1 < i
      OBVIOUS
    <3> HIDE DEF step
    <3> QED
      BY <1>2, <2>1, <3>1
  <2> HIDE DEF step
  <2> QED
    BY <2>1 DEF LooksBackOnly
<1>5. PICK f \in [0..n -> V] : IsRecursion(f, n, step)
  <2> HIDE DEF step, one
  <2> QED
    BY <1>1, <1>3, <1>4, RecursionExists
<1>6. \A k \in 0..n : f[k] = IF k = 0 THEN 1 ELSE 2 * f[k - 1]
  <2> HIDE DEF step
  <2> QED
    BY <1>2, <1>5 DEF IsRecursion
<1> QED
  BY <1>6 DEF IsPowers

LEMMA PowersAgree ==
    ASSUME NEW m \in Nat, NEW n \in Nat, m <= n, NEW f, NEW g, IsPowers(f, m), IsPowers(g, n)
    PROVE  f[m] = g[m]
<1> DEFINE S == {k \in Nat : k <= m => f[k] = g[k]}
<1>1. 0 \in S
  BY DEF IsPowers
<1>2. ASSUME NEW k \in Nat, k \in S PROVE k + 1 \in S
  <2>1. ASSUME k + 1 <= m PROVE f[k + 1] = g[k + 1]
    <3>1. /\ k + 1 \in 0..m /\ k + 1 \in 0..n /\ k + 1 # 0 /\ (k + 1) - 1 = k
          /\ f[k] = g[k]
      BY <1>2, <2>1
    <3>2. f[k + 1] = 2 * f[(k + 1) - 1] /\ g[k + 1] = 2 * g[(k + 1) - 1]
      BY <3>1 DEF IsPowers
    <3> QED
      BY <3>1, <3>2
  <2> QED
    BY <2>1
<1>3. Nat \subseteq S
  <2> HIDE DEF S
  <2> QED
    BY <1>1, <1>2, NumbersInduction
<1> QED
  BY <1>3

\* PowerOfTwo is the power of two.
LEMMA PowerOfTwoValues ==
    /\ PowerOfTwo(0) = 1
    /\ \A n \in Nat : PowerOfTwo(n) \in Nat \ {0} /\ PowerOfTwo(n + 1) = 2 * PowerOfTwo(n)
<1>1. ASSUME NEW n \in Nat
      PROVE  \E f \in [0..n -> Nat \ {0}] : IsPowers(f, n) /\ PowerOfTwo(n) = f[n]
  <2> DEFINE f == CHOOSE g : IsPowers(g, n)
  <2>1. PICK g \in [0..n -> Nat \ {0}] : IsPowers(g, n)
    BY PowersExist
  <2>2. PowerOfTwo(n) = f[n]
    BY DEF PowerOfTwo, IsPowers
  <2>3. IsPowers(f, n)
    BY <2>1
  <2>4. f[n] = g[n]
    <3> HIDE DEF f
    <3> QED
      BY <2>1, <2>3, PowersAgree
  <2> QED
    BY <2>1, <2>2, <2>4
<1>2. PowerOfTwo(0) = 1
  BY <1>1 DEF IsPowers
<1>3. ASSUME NEW n \in Nat
      PROVE  PowerOfTwo(n) \in Nat \ {0} /\ PowerOfTwo(n + 1) = 2 * PowerOfTwo(n)
  <2>1. PICK f \in [0..n -> Nat \ {0}] : IsPowers(f, n) /\ PowerOfTwo(n) = f[n]
    BY <1>1
  <2>2. n + 1 \in Nat /\ n <= n + 1 /\ n + 1 \in 0..(n + 1) /\ n + 1 # 0 /\ (n + 1) - 1 = n
        /\ n \in 0..n
    OBVIOUS
  <2>3. PICK g \in [0..(n + 1) -> Nat \ {0}] : IsPowers(g, n + 1) /\ PowerOfTwo(n + 1) = g[n + 1]
    BY <1>1, <2>2
  <2>4. f[n] = g[n]
    BY <2>1, <2>2, <2>3, PowersAgree
  <2>5. g[n + 1] = 2 * g[(n + 1) - 1]
    BY <2>2, <2>3 DEF IsPowers
  <2> QED
    BY <2>1, <2>2, <2>3, <2>4, <2>5
<1> QED
  BY <1>2, <1>3

\* Every choice among n tokens is the bits of a number below 1 << n.
LEMMA BitsExist ==
    ASSUME NEW n \in Nat, NEW B \in SUBSET (0..(n - 1))
    PROVE  \E x \in 0..(PowerOfTwo(n) - 1) : \A k \in 0..(n - 1) : Bit(x, k) <=> k \in B
<1> DEFINE Has(x, m, C) == \A k \in 0..(m - 1) : Bit(x, k) <=> k \in C
           S == {m \in Nat : \A C \in SUBSET (0..(m - 1)) : \E x \in 0..(PowerOfTwo(m) - 1) : Has(x, m, C)}
<1>1. 0 \in S
  <2>1. 0 \in 0..(PowerOfTwo(0) - 1)
    BY PowerOfTwoValues
  <2> QED
    BY <2>1
<1>2. ASSUME NEW m \in Nat, m \in S PROVE m + 1 \in S
  <2>1. ASSUME NEW C \in SUBSET (0..((m + 1) - 1))
        PROVE  \E x \in 0..(PowerOfTwo(m + 1) - 1) : Has(x, m + 1, C)
    <3> DEFINE D == {k \in 0..(m - 1) : k + 1 \in C}
               b == IF 0 \in C THEN 1 ELSE 0
    <3>1. PICK y \in 0..(PowerOfTwo(m) - 1) : Has(y, m, D)
      BY <1>2
    <3> DEFINE x == 2 * y + b
    <3>2. y \in Nat /\ b \in {0, 1}
      BY <3>1, PowerOfTwoValues
    <3>3. x \in 0..(PowerOfTwo(m + 1) - 1)
      BY <3>1, PowerOfTwoValues
    <3>4. Bit(x, 0) <=> 0 \in C
      <4>1. x \div 1 = x /\ (x % 2 = 1 <=> b = 1)
        BY <3>2
      <4> QED
        BY <4>1, PowerOfTwoValues DEF Bit
    <3>5. ASSUME NEW k \in 0..m, k # 0 PROVE Bit(x, k) <=> k \in C
      <4>1. k - 1 \in 0..(m - 1) /\ k - 1 \in Nat /\ (k - 1) + 1 = k
        BY <3>5
      <4>2. PowerOfTwo(k) = 2 * PowerOfTwo(k - 1) /\ PowerOfTwo(k - 1) \in Nat \ {0}
        BY <4>1, PowerOfTwoValues
      <4>3. x \div PowerOfTwo(k) = y \div PowerOfTwo(k - 1)
        <5> HIDE DEF b
        <5> DEFINE d == PowerOfTwo(k - 1)
        <5>1. d \in Nat \ {0} /\ PowerOfTwo(k) = 2 * d
          BY <4>2
        <5> HIDE DEF d
        <5>2. (2 * y + b) \div (2 * d) = y \div d
          BY <3>2, <5>1, ShiftOneMore
        <5> QED
          BY <5>1, <5>2 DEF d
      <4>4. Bit(x, k) <=> Bit(y, k - 1)
        <5> HIDE DEF x
        <5> QED
          BY <4>3 DEF Bit
      <4>5. Bit(y, k - 1) <=> k - 1 \in D
        BY <3>1, <4>1
      <4>6. k - 1 \in D <=> k \in C
        BY <4>1
      <4> QED
        BY <4>4, <4>5, <4>6
    <3>6. Has(x, m + 1, C)
      <4>1. (m + 1) - 1 = m
        OBVIOUS
      <4> HIDE DEF x
      <4> QED
        BY <3>4, <3>5, <4>1
    <3> HIDE DEF x, Has
    <3> QED
      BY <3>3, <3>6
  <2> HIDE DEF Has
  <2> QED
    BY <2>1
<1>3. Nat \subseteq S
  <2> HIDE DEF S
  <2> QED
    BY <1>1, <1>2, NumbersInduction
<1> QED
  BY <1>3

\* The tokens chosen by a pattern among n of len tokens from the base-th on.
Chosen(n, base, p, len) ==
    {k \in 1..len : base < k /\ k <= base + n /\ Bit(1 + 2 * p, k - 1 - base)}

\* rm-tok-pattern-n with an index takes out of the file without its space the
\* token the high bits point at and, of the n - 1 behind it, those the low bits
\* choose.
LEMMA RmTokPatternWindow ==
    ASSUME NEW T, NEW ts \in Seq(T), NEW n \in Nat \ {0}, NEW idx \in Nat,
           NEW base \in Nat, NEW p \in 0..(PowerOfTwo(n - 1) - 1),
           idx = base * PowerOfTwo(n - 1) + p
    PROVE  /\ RmTokPattern(n, ts, idx).code = IF base < Cardinality(VisibleAt(ts)) THEN OK ELSE STOP
           /\ Solid(RmTokPattern(n, ts, idx).out) =
                At(Solid(ts), DOMAIN Solid(ts) \ Chosen(n, base, p, Len(Solid(ts))))
<1> DEFINE V == VisibleAt(ts)
           c == Cardinality(V)
           pat == 1 + 2 * p
           W == Chosen(n, base, p, Len(Solid(ts)))
           which(i) == CountUpTo(ts, Visible, i) - 1
           started(i) == Visible(ts[i]) /\ base <= which(i) /\ which(i) < base + n
           D == {i \in DOMAIN ts : started(i) /\ Bit(pat, which(i) - base)}
           matched == \E i \in DOMAIN ts : Visible(ts[i]) /\ which(i) = base
<1>1. Len(ts) \in Nat /\ DOMAIN ts = 1..Len(ts) /\ n - 1 \in Nat
      /\ V = {i \in 1..Len(ts) : Visible(ts[i])}
  BY DEF VisibleAt
<1>2. idx % PowerOfTwo(n - 1) = p /\ idx \div PowerOfTwo(n - 1) = base
  BY <1>1, PowerOfTwoValues, QuotientOf
<1>3. /\ V \in Positions(Len(ts)) /\ c \in Nat
      /\ \A i \in V : Rank(V, i) \in 1..c /\ which(i) = Rank(V, i) - 1
      /\ \A k \in 1..c : Nth(V, k) \in V /\ Rank(V, Nth(V, k)) = k
  <2>1. V \in Positions(Len(ts)) /\ c \in Nat
    BY VisibleCount
  <2>2. \A i \in V : i \in 0..Len(ts)
    BY <1>1
  <2>3. \A i \in V : CountUpTo(ts, Visible, i) = Rank(V, i)
    BY <2>2, VisibleCount
  <2> HIDE DEF V
  <2> QED
    BY <1>1, <2>1, <2>3, NthHasRank
<1>4. RmTokPattern(n, ts, idx) =
        Exit(IF matched /\ D # {} THEN OK ELSE STOP, At(ts, DOMAIN ts \ D))
  BY <1>2 DEF RmTokPattern
<1>5. \A i \in DOMAIN ts : i \in D <=> /\ i \in V /\ base < Rank(V, i) /\ Rank(V, i) <= base + n
                                       /\ Bit(pat, Rank(V, i) - 1 - base)
  <2>1. ASSUME NEW i \in V
        PROVE  i \in D <=> /\ base < Rank(V, i) /\ Rank(V, i) <= base + n
                           /\ Bit(pat, Rank(V, i) - 1 - base)
    <3>1. i \in DOMAIN ts /\ Visible(ts[i]) /\ which(i) = Rank(V, i) - 1 /\ Rank(V, i) \in 1..c
      BY <1>1, <1>3
    <3> HIDE DEF which, V, c, pat
    <3> QED
      BY <1>3, <3>1
  <2>2. \A i \in DOMAIN ts : i \in D => i \in V
    BY <1>1
  <2> HIDE DEF D, V
  <2> QED
    BY <2>1, <2>2
<1>6. matched /\ D # {} <=> base < c
  <2>1. ASSUME matched PROVE base < c
    <3>1. PICK i \in DOMAIN ts : Visible(ts[i]) /\ which(i) = base
      BY <2>1
    <3>2. i \in V
      BY <1>1, <3>1
    <3> HIDE DEF V, which, c
    <3> QED
      BY <1>3, <3>1, <3>2
  <2>2. ASSUME base < c PROVE matched /\ D # {}
    <3> DEFINE i == Nth(V, base + 1)
    <3>1. i \in V /\ Rank(V, i) = base + 1 /\ which(i) = base
      <4>1. base + 1 \in 1..c
        BY <1>3, <2>2
      <4> HIDE DEF V, which, c
      <4> QED
        BY <1>3, <4>1
    <3>2. i \in DOMAIN ts /\ Visible(ts[i])
      BY <1>1, <3>1
    <3>3. Bit(pat, 0)
      <4>1. pat \in Nat /\ pat \div 1 = pat /\ pat % 2 = 1
        BY <1>1, PowerOfTwoValues
      <4> HIDE DEF pat
      <4> QED
        BY <4>1, PowerOfTwoValues DEF Bit
    <3>4. i \in D
      <4>1. (base + 1) - 1 - base = 0 /\ base < base + 1 /\ base + 1 <= base + n
        OBVIOUS
      <4> HIDE DEF D, V, i, pat
      <4> QED
        BY <1>5, <3>1, <3>2, <3>3, <4>1
    <3> HIDE DEF D, i, which
    <3> QED
      BY <3>1, <3>2, <3>4
  <2> HIDE DEF D, matched, c
  <2> QED
    BY <2>1, <2>2
<1>7. (DOMAIN ts \ D) \cap V = {i \in V : Rank(V, i) \notin W}
  <2>1. Len(Solid(ts)) = c
    BY SolidWithout
  <2>2. ASSUME NEW i \in V PROVE i \in D <=> Rank(V, i) \in W
    <3>1. Rank(V, i) \in 1..c /\ i \in DOMAIN ts
      BY <1>1, <1>3
    <3>2. i \in D <=> /\ i \in V /\ base < Rank(V, i) /\ Rank(V, i) <= base + n
                      /\ Bit(1 + 2 * p, Rank(V, i) - 1 - base)
      BY <1>5, <3>1
    <3> HIDE DEF D, V, c
    <3> QED
      BY <2>1, <3>1, <3>2 DEF Chosen
  <2>3. \A i \in V : i \in DOMAIN ts
    BY <1>1
  <2> HIDE DEF D, V, W
  <2> QED
    BY <2>2, <2>3
<1>8. Solid(At(ts, DOMAIN ts \ D)) = At(ts, (DOMAIN ts \ D) \cap V)
  <2>1. DOMAIN ts \ D \in Positions(Len(ts))
    BY <1>1 DEF Positions
  <2> HIDE DEF D
  <2> QED
    BY <2>1, SolidAt
<1>9. At(Solid(ts), DOMAIN Solid(ts) \ W) = At(ts, {i \in V : Rank(V, i) \notin W})
  <2> HIDE DEF W
  <2> QED
    BY SolidWithout
<1>10. /\ RmTokPattern(n, ts, idx).code = IF matched /\ D # {} THEN OK ELSE STOP
       /\ RmTokPattern(n, ts, idx).out = At(ts, DOMAIN ts \ D)
  <2> DEFINE code == IF matched /\ D # {} THEN OK ELSE STOP
             out == At(ts, DOMAIN ts \ D)
  <2>1. RmTokPattern(n, ts, idx) = Exit(code, out)
    BY <1>4
  <2> HIDE DEF code, out
  <2>2. RmTokPattern(n, ts, idx).code = code /\ RmTokPattern(n, ts, idx).out = out
    BY <2>1 DEF Exit
  <2> QED
    BY <2>2 DEF code, out
<1> HIDE DEF D, matched
<1> QED
  BY <1>6, <1>7, <1>8, <1>9, <1>10

-----------------------------------------------------------------------------
(* Names.                                                                  *)

\* The names next_name goes through.
Words == Seq(1..Alphabet) \ {<<>>}

\* They are made of letters.
LEMMA WordType ==
    ASSUME NEW w \in Words
    PROVE  /\ w \in Seq(1..Alphabet) /\ Len(w) \in Nat \ {0} /\ DOMAIN w = 1..Len(w)
           /\ \A p \in 1..Len(w) : w[p] \in 1..Alphabet
<1>1. w \in Seq(1..Alphabet) /\ w # <<>>
  BY DEF Words
<1>2. Len(w) \in Nat \ {0} /\ DOMAIN w = 1..Len(w)
  BY <1>1
<1>3. \A p \in 1..Len(w) : w[p] \in 1..Alphabet
  <2> DEFINE V == 1..Alphabet
  <2>1. w \in Seq(V)
    BY <1>1
  <2> HIDE DEF V
  <2>2. \A p \in 1..Len(w) : w[p] \in V
    BY <2>1
  <2> QED
    BY <2>2 DEF V
<1> QED
  BY <1>1, <1>2, <1>3

\* Where next_name moves a letter on: the last one that is not z.
Moves(w, pos) ==
    /\ pos \in DOMAIN w /\ w[pos] # Alphabet
    /\ \A p \in DOMAIN w : p > pos => w[p] = Alphabet

\* A name is all z's, or there is one such letter and it is the one that moves.
LEMMA NextNameCases ==
    ASSUME NEW w \in Words
    PROVE  \/ /\ \A p \in DOMAIN w : w[p] = Alphabet
              /\ NextName(w) = [p \in 1..(Len(w) + 1) |-> 1]
           \/ \E pos \in DOMAIN w :
                 /\ Moves(w, pos)
                 /\ NextName(w) = [p \in DOMAIN w |-> IF p < pos THEN w[p]
                                                      ELSE IF p = pos THEN w[p] + 1 ELSE 1]
<1> DEFINE movable == {p \in DOMAIN w : w[p] # Alphabet}
           pos == Max(movable)
<1>1. Len(w) \in Nat /\ DOMAIN w = 1..Len(w)
  BY DEF Words
<1>2. CASE movable = {}
  BY <1>1, <1>2 DEF NextName
<1>3. CASE movable # {}
  <2>1. movable \in SUBSET (0..Len(w))
    BY <1>1
  <2>2. \E m \in movable : \A j \in movable : m >= j
    <3> HIDE DEF movable
    <3> QED
      BY <1>1, <1>3, <2>1, GreatestExists
  <2>3. pos \in movable /\ \A j \in movable : pos >= j
    <3> HIDE DEF movable
    <3> QED
      BY <2>2 DEF Max
  <2>4. Moves(w, pos)
    <3> HIDE DEF pos
    <3> QED
      BY <1>1, <2>3 DEF Moves
  <2>5. NextName(w) = [p \in DOMAIN w |-> CASE p < pos -> w[p]
                                            [] p = pos -> w[p] + 1
                                            [] p > pos -> 1]
    BY <1>3 DEF NextName
  <2>6. NextName(w) = [p \in DOMAIN w |-> IF p < pos THEN w[p] ELSE IF p = pos THEN w[p] + 1 ELSE 1]
    <3> HIDE DEF pos
    <3> QED
      BY <1>1, <2>3, <2>5
  <2> QED
    BY <2>3, <2>4, <2>6
<1> QED
  BY <1>2, <1>3

\* The next name is a name, and never the first one.
LEMMA NextNameIsWord ==
    ASSUME NEW w \in Words
    PROVE  NextName(w) \in Words /\ NextName(w) # <<1>>
<1>1. w \in Seq(1..Alphabet) /\ Len(w) \in Nat \ {0} /\ DOMAIN w = 1..Len(w) /\ 1 \in 1..Alphabet
  BY AlphabetAssumption DEF Words
<1>2. CASE NextName(w) = [p \in 1..(Len(w) + 1) |-> 1]
  <2> DEFINE v == [p \in 1..(Len(w) + 1) |-> 1]
  <2>1. v \in Seq(1..Alphabet) /\ Len(v) = Len(w) + 1
    BY <1>1
  <2>2. v # <<>> /\ v # <<1>>
    BY <1>1, <2>1
  <2> QED
    BY <1>2, <2>1, <2>2 DEF Words
<1>3. ASSUME NEW pos \in DOMAIN w, Moves(w, pos),
             NextName(w) = [p \in DOMAIN w |-> IF p < pos THEN w[p] ELSE IF p = pos THEN w[p] + 1 ELSE 1]
      PROVE  NextName(w) \in Words /\ NextName(w) # <<1>>
  <2> DEFINE v == [p \in 1..Len(w) |-> IF p < pos THEN w[p] ELSE IF p = pos THEN w[p] + 1 ELSE 1]
  <2>1. \A p \in 1..Len(w) : w[p] \in 1..Alphabet /\ (p = pos => w[p] + 1 \in 1..Alphabet)
    BY <1>1, <1>3, AlphabetAssumption DEF Moves
  <2>2. \A p \in 1..Len(w) : v[p] \in 1..Alphabet
    BY <1>1, <2>1
  <2>3. v \in Seq(1..Alphabet) /\ Len(v) = Len(w)
    BY <1>1, <2>2
  <2>4. v[pos] # 1
    BY <1>1, <1>3, <2>1
  <2>5. v # <<>> /\ v # <<1>>
    <3>1. v = <<1>> => pos = 1 /\ v[1] = 1
      BY <1>1, <2>3
    <3> HIDE DEF v
    <3> QED
      BY <1>1, <2>3, <2>4, <3>1
  <2>6. NextName(w) = v
    BY <1>1, <1>3
  <2> HIDE DEF v
  <2> QED
    BY <2>3, <2>5, <2>6 DEF Words
<1> QED
  BY <1>2, <1>3, NextNameCases

\* The letters of the next name, one by one.
Wraps(w) ==
    /\ \A p \in 1..Len(w) : w[p] = Alphabet
    /\ Len(NextName(w)) = Len(w) + 1
    /\ \A p \in 1..(Len(w) + 1) : NextName(w)[p] = 1
Goes(w, pos) ==
    /\ pos \in 1..Len(w)
    /\ Len(NextName(w)) = Len(w)
    /\ NextName(w)[pos] = w[pos] + 1
    /\ \A p \in 1..Len(w) : p < pos => NextName(w)[p] = w[p]
    /\ \A p \in 1..Len(w) : p > pos => w[p] = Alphabet /\ NextName(w)[p] = 1

LEMMA NextNameLetters ==
    ASSUME NEW w \in Words
    PROVE  Wraps(w) \/ \E pos \in 1..Len(w) : Goes(w, pos)
<1>1. Len(w) \in Nat /\ DOMAIN w = 1..Len(w)
  BY DEF Words
<1>2. \A f \in Seq(1..Alphabet), n \in Nat : DOMAIN f = 1..n => Len(f) = n
  OBVIOUS
<1>3. CASE /\ \A p \in DOMAIN w : w[p] = Alphabet
           /\ NextName(w) = [p \in 1..(Len(w) + 1) |-> 1]
  <2>1. NextName(w) \in Seq(1..Alphabet) /\ Len(w) + 1 \in Nat /\ DOMAIN NextName(w) = 1..(Len(w) + 1)
    <3>1. NextName(w) \in Seq(1..Alphabet)
      BY NextNameIsWord DEF Words
    <3>2. DOMAIN NextName(w) = 1..(Len(w) + 1)
      BY <1>3
    <3> QED
      BY <1>1, <3>1, <3>2
  <2>2. Len(NextName(w)) = Len(w) + 1
    BY <1>2, <2>1
  <2> QED
    BY <1>1, <1>3, <2>2 DEF Wraps
<1>4. ASSUME NEW pos \in DOMAIN w, Moves(w, pos),
             NextName(w) = [p \in DOMAIN w |-> IF p < pos THEN w[p] ELSE IF p = pos THEN w[p] + 1 ELSE 1]
      PROVE  Goes(w, pos)
  <2>1. NextName(w) \in Seq(1..Alphabet) /\ DOMAIN NextName(w) = 1..Len(w)
    BY <1>1, <1>4, NextNameIsWord DEF Words
  <2>2. Len(NextName(w)) = Len(w)
    BY <1>1, <1>2, <2>1
  <2>3. \A p \in 1..Len(w) : NextName(w)[p] = IF p < pos THEN w[p] ELSE IF p = pos THEN w[p] + 1 ELSE 1
    BY <1>1, <1>4
  <2>4. pos \in 1..Len(w) /\ \A p \in 1..Len(w) : p > pos => w[p] = Alphabet
    BY <1>1, <1>4 DEF Moves
  <2> QED
    BY <1>1, <2>2, <2>3, <2>4 DEF Goes
<1> QED
  BY <1>1, <1>3, <1>4, NextNameCases

\* Two names are never followed by the same name.
LEMMA NextNameIsInjective ==
    ASSUME NEW v \in Words, NEW w \in Words, NextName(v) = NextName(w)
    PROVE  v = w
<1>1. \A x \in Words :
        /\ x \in Seq(1..Alphabet) /\ Len(x) \in Nat \ {0}
        /\ \A p \in 1..Len(x) : x[p] \in 1..Alphabet
  BY WordType
<1>2. ASSUME Len(v) = Len(w), \A p \in 1..Len(v) : v[p] = w[p] PROVE v = w
  BY <1>1, <1>2
<1>3. ASSUME NEW x \in Words, NEW y \in Words, Wraps(x), NEW pos \in 1..Len(y), Goes(y, pos),
             NextName(x) = NextName(y)
      PROVE  FALSE
  <2>1. y[pos] \in 1..Alphabet /\ Len(x) \in Nat /\ Len(y) = Len(x) + 1
    BY <1>1, <1>3 DEF Wraps, Goes
  <2>2. NextName(y)[pos] = 1
    BY <1>3, <2>1 DEF Wraps
  <2> QED
    BY <1>3, <2>1, <2>2 DEF Goes
<1>4. CASE Wraps(v) /\ Wraps(w)
  <2>1. Len(v) = Len(w)
    BY <1>1, <1>4 DEF Wraps
  <2> QED
    BY <1>1, <1>2, <1>4, <2>1 DEF Wraps
<1>5. ASSUME NEW x \in Words, NEW y \in Words, NEW p \in 1..Len(x), NEW q \in 1..Len(y),
             Goes(x, p), Goes(y, q), NextName(x) = NextName(y)
      PROVE  ~(p < q)
  <2>1. Len(x) = Len(y) /\ Len(x) \in Nat /\ y[q] \in 1..Alphabet
    BY <1>1, <1>5 DEF Goes
  <2>2. p < q => NextName(x)[q] = 1
    BY <1>5, <2>1 DEF Goes
  <2> QED
    BY <1>5, <2>1, <2>2 DEF Goes
<1>6. ASSUME NEW p \in 1..Len(v), Goes(v, p), NEW q \in 1..Len(w), Goes(w, q) PROVE v = w
  <2>1. Len(v) = Len(w) /\ Len(v) \in Nat
    BY <1>1, <1>6 DEF Goes
  <2>2. p = q
    <3>1. ~(p < q) /\ ~(q < p)
      BY <1>5, <1>6
    <3> QED
      BY <2>1, <3>1
  <2>3. ASSUME NEW k \in 1..Len(v) PROVE v[k] = w[k]
    <3>1. v[k] \in 1..Alphabet /\ w[k] \in 1..Alphabet
      BY <1>1, <2>1
    <3>2. CASE k < p
      BY <1>6, <2>1, <2>2, <3>2 DEF Goes
    <3>3. CASE k = p
      BY <1>6, <2>1, <2>2, <3>1, <3>3 DEF Goes
    <3>4. CASE k > p
      BY <1>6, <2>1, <2>2, <3>4 DEF Goes
    <3> QED
      BY <2>1, <3>2, <3>3, <3>4
  <2> QED
    BY <1>2, <2>1, <2>3
<1>7. \A x \in Words : Wraps(x) \/ \E pos \in 1..Len(x) : Goes(x, pos)
  BY NextNameLetters
<1> QED
  BY <1>3, <1>4, <1>6, <1>7

\* One round of the search for a new name.
Round(used, w) == IF w \in used THEN NextName(w) ELSE w
IsSearch(y, n, used) ==
    y[0] = <<1>> /\ \A i \in 1..n : y[i] = Round(used, y[i - 1])

LEMMA SearchExists ==
    ASSUME NEW n \in Nat, NEW used
    PROVE  \E y \in [0..n -> Words] : IsSearch(y, n, used)
<1> DEFINE step == [x \in (0..n) \X [0..n -> Words] |->
                        IF x[1] = 0 THEN <<1>> ELSE Round(used, x[2][x[1] - 1])]
           first == [i \in 0..n |-> <<1>>]
<1>1. <<1>> \in Words
  BY AlphabetAssumption DEF Words
<1>2. \A w \in Words : Round(used, w) \in Words
  BY NextNameIsWord DEF Round
<1>3. ASSUME NEW i \in 0..n, NEW f \in [0..n -> Words]
      PROVE  /\ step[<<i, f>>] = IF i = 0 THEN <<1>> ELSE Round(used, f[i - 1])
             /\ step[<<i, f>>] \in Words
  <2>1. step[<<i, f>>] = IF i = 0 THEN <<1>> ELSE Round(used, f[i - 1])
    OBVIOUS
  <2>2. i # 0 => f[i - 1] \in Words
    OBVIOUS
  <2> QED
    BY <1>1, <1>2, <2>1, <2>2
<1>4. step \in [(0..n) \X [0..n -> Words] -> Words] /\ first \in [0..n -> Words]
  BY <1>1, <1>3
<1>5. LooksBackOnly(n, Words, step)
  <2>1. ASSUME NEW i \in 0..n, NEW f \in [0..n -> Words], NEW g \in [0..n -> Words],
               \A j \in 0..n : j < i => f[j] = g[j]
        PROVE  step[<<i, f>>] = step[<<i, g>>]
    <3>1. i # 0 => i - 1 \in 0..n /\ i - 1 < i
      OBVIOUS
    <3> HIDE DEF step
    <3> QED
      BY <1>3, <2>1, <3>1
  <2> HIDE DEF step
  <2> QED
    BY <2>1 DEF LooksBackOnly
<1>6. PICK y \in [0..n -> Words] : IsRecursion(y, n, step)
  <2> HIDE DEF step, first
  <2> QED
    BY <1>4, <1>5, RecursionExists
<1>7. IsSearch(y, n, used)
  <2>1. 0 \in 0..n /\ \A i \in 1..n : i \in 0..n /\ i # 0
    OBVIOUS
  <2> HIDE DEF step
  <2> QED
    BY <1>3, <1>6, <2>1 DEF IsRecursion, IsSearch
<1> QED
  BY <1>7

\* FindUnusedName is where the search is after as many rounds as there are tokens.
LEMMA FindUnusedNameSearches ==
    ASSUME NEW T, NEW ts \in Seq(T), NEW y,
           IsSearch(y, Len(ts), {ts[i].str : i \in DOMAIN ts})
    PROVE  FindUnusedName(ts) = y[Len(ts)]
<1> DEFINE used == {ts[i].str : i \in DOMAIN ts}
           n == Len(ts)
           Names(f) == f = [i \in 0..n |-> IF i = 0 THEN {<<1>>}
                                           ELSE {IF x \in used THEN NextName(x) ELSE x : x \in f[i - 1]}]
           f == CHOOSE g : Names(g)
           g == [i \in 0..n |-> {y[i]}]
<1>1. n \in Nat /\ IsSearch(y, n, used)
  OBVIOUS
<1>2. Names(g)
  <2>1. ASSUME NEW i \in 0..n, i # 0
        PROVE  {y[i]} = {IF x \in used THEN NextName(x) ELSE x : x \in g[i - 1]}
    <3>1. i \in 1..n /\ i - 1 \in 0..n
      BY <1>1, <2>1
    <3>2. y[i] = IF y[i - 1] \in used THEN NextName(y[i - 1]) ELSE y[i - 1]
      BY <1>1, <3>1 DEF IsSearch, Round
    <3>3. g[i - 1] = {y[i - 1]}
      BY <3>1
    <3> HIDE DEF used, g
    <3> QED
      BY <3>2, <3>3
  <2>2. {y[0]} = {<<1>>}
    BY <1>1 DEF IsSearch
  <2> HIDE DEF used
  <2> QED
    BY <2>1, <2>2
<1>3. Names(f)
  <2> HIDE DEF Names, g
  <2> QED
    BY <1>2
<1>4. FindUnusedName(ts) = CHOOSE x \in f[n] : TRUE
  BY DEF FindUnusedName
<1>5. f[n] = {y[n]}
  <2> DEFINE S == {k \in Nat : k <= n => f[k] = {y[k]}}
  <2> HIDE DEF f, used
  <2>1. 0 \in S
    <3>1. f[0] = {<<1>>}
      BY <1>1, <1>3
    <3> QED
      BY <1>1, <3>1 DEF IsSearch
  <2>2. ASSUME NEW k \in Nat, k \in S PROVE k + 1 \in S
    <3>1. ASSUME k + 1 <= n PROVE f[k + 1] = {y[k + 1]}
      <4>1. k + 1 \in 1..n /\ k + 1 \in 0..n /\ k + 1 # 0 /\ (k + 1) - 1 = k /\ f[k] = {y[k]}
        BY <1>1, <2>2, <3>1
      <4>2. f[k + 1] = {IF x \in used THEN NextName(x) ELSE x : x \in f[k]}
        BY <1>3, <4>1
      <4>3. y[k + 1] = IF y[k] \in used THEN NextName(y[k]) ELSE y[k]
        BY <1>1, <4>1 DEF IsSearch, Round
      <4> QED
        BY <4>1, <4>2, <4>3
    <3> QED
      BY <3>1
  <2>3. Nat \subseteq S
    <3> HIDE DEF S
    <3> QED
      BY <2>1, <2>2, NumbersInduction
  <2> QED
    BY <1>1, <2>3
<1> HIDE DEF f
<1> QED
  BY <1>4, <1>5

\* The new name is a name that no token has: the names of the search differ
\* from each other, and there are more of them than tokens.
LEMMA NewNameIsUnused ==
    ASSUME NEW ts \in Seq(Token)
    PROVE  FindUnusedName(ts) \in Words /\ \A i \in DOMAIN ts : ts[i].str # FindUnusedName(ts)
<1> DEFINE n == Len(ts)
           used == {ts[i].str : i \in DOMAIN ts}
<1>1. n \in Nat /\ DOMAIN ts = 1..n
  OBVIOUS
<1>2. PICK y \in [0..n -> Words] : IsSearch(y, n, used)
  <2> HIDE DEF used, n
  <2> QED
    BY <1>1, SearchExists
<1>3. FindUnusedName(ts) = y[n]
  BY <1>2, FindUnusedNameSearches
<1>4. y[n] \in Words
  BY <1>1, <1>2
<1>5. ASSUME y[n] \in used PROVE FALSE
  <2> HIDE DEF used, n
  <2>1. \A k \in 0..n : y[k] \in used
    <3> DEFINE S == {k \in Nat : k <= n => y[n - k] \in used}
    <3>1. 0 \in S
      BY <1>1, <1>5
    <3>2. ASSUME NEW k \in Nat, k \in S PROVE k + 1 \in S
      <4>1. ASSUME k + 1 <= n PROVE y[n - (k + 1)] \in used
        <5>1. n - k \in 1..n /\ (n - k) - 1 = n - (k + 1) /\ y[n - k] \in used
          BY <1>1, <3>2, <4>1
        <5>2. y[n - k] = Round(used, y[n - (k + 1)])
          BY <1>2, <5>1 DEF IsSearch
        <5> QED
          BY <5>1, <5>2 DEF Round
      <4> QED
        BY <4>1
    <3>3. Nat \subseteq S
      <4> HIDE DEF S
      <4> QED
        BY <3>1, <3>2, NumbersInduction
    <3>4. ASSUME NEW k \in 0..n PROVE y[k] \in used
      <4>1. n - k \in Nat /\ n - k <= n /\ n - (n - k) = k
        BY <1>1
      <4>2. n - k \in S
        BY <3>3, <4>1
      <4> QED
        BY <4>1, <4>2
    <3> QED
      BY <3>4
  <2>2. y[0] = <<1>> /\ \A k \in 1..n : y[k] = NextName(y[k - 1]) /\ y[k - 1] \in Words
    <3>1. ASSUME NEW k \in 1..n PROVE y[k] = NextName(y[k - 1]) /\ y[k - 1] \in Words
      <4>1. k - 1 \in 0..n
        BY <1>1
      <4> QED
        BY <1>2, <2>1, <4>1 DEF IsSearch, Round
    <3> QED
      BY <1>2, <3>1 DEF IsSearch
  <2>3. \A k \in 0..n : \A i \in 0..n : i < k => y[i] # y[k]
    <3> DEFINE S == {k \in Nat : k <= n => \A i \in 0..n : i < k => y[i] # y[k]}
    <3>1. 0 \in S
      OBVIOUS
    <3>2. ASSUME NEW k \in Nat, k \in S PROVE k + 1 \in S
      <4>1. ASSUME k + 1 <= n, NEW i \in 0..n, i < k + 1 PROVE y[i] # y[k + 1]
        <5>1. k + 1 \in 1..n /\ (k + 1) - 1 = k /\ k \in 0..n
          BY <1>1, <4>1
        <5>2. y[k + 1] = NextName(y[k]) /\ y[k] \in Words
          BY <2>2, <5>1
        <5>3. CASE i = 0
          BY <2>2, <5>2, <5>3, NextNameIsWord
        <5>4. CASE i # 0
          <6>1. i \in 1..n /\ i - 1 \in 0..n /\ i - 1 < k
            BY <1>1, <4>1, <5>4
          <6>2. y[i] = NextName(y[i - 1]) /\ y[i - 1] \in Words
            BY <2>2, <6>1
          <6>3. y[i - 1] # y[k]
            BY <3>2, <5>1, <6>1
          <6> QED
            BY <5>2, <6>2, <6>3, NextNameIsInjective
        <5> QED
          BY <5>3, <5>4
      <4> QED
        BY <4>1
    <3>3. Nat \subseteq S
      <4> HIDE DEF S
      <4> QED
        BY <3>1, <3>2, NumbersInduction
    <3> QED
      BY <1>1, <3>3
  <2>4. y \in Injection(0..n, used)
    <3>1. \A i, k \in 0..n : y[i] = y[k] => i = k
      <4>1. \A i, k \in 0..n : i = k \/ i < k \/ k < i
        BY <1>1
      <4> QED
        BY <2>3, <4>1
    <3> QED
      BY <1>2, <2>1, <3>1 DEF Injection, IsInjective
  <2>5. IsFiniteSet(used) /\ Cardinality(used) <= n
    <3> DEFINE f == [i \in 1..n |-> ts[i].str]
    <3>1. f \in Surjection(1..n, used)
      BY <1>1 DEF used, Surjection
    <3>2. IsFiniteSet(1..n) /\ Cardinality(1..n) = n
      BY <1>1, FS_Interval
    <3> HIDE DEF f
    <3> QED
      BY <3>1, <3>2, FS_Surjection
  <2>6. Cardinality(0..n) = n + 1
    BY <1>1, FS_Interval
  <2>7. Cardinality(0..n) <= Cardinality(used)
    BY <2>4, <2>5, FS_Injection
  <2>8. Cardinality(used) \in Nat
    BY <2>5, FS_CardinalityType
  <2> QED
    BY <1>1, <2>5, <2>6, <2>7, <2>8
<1> QED
  BY <1>3, <1>4, <1>5

-----------------------------------------------------------------------------
(* Lexed files.                                                            *)

\* A text made of the tokens of a file is lexed as the file is.
LEMMA LexedPart ==
    ASSUME NEW ts, Lexed(ts), NEW us \in Seq({ts[i] : i \in DOMAIN ts})
    PROVE  Lexed(us)
<1>1. \A k \in DOMAIN us : \E i \in DOMAIN ts : us[k] = ts[i]
  OBVIOUS
<1>2. us \in Seq(Token)
  <2>1. {ts[i] : i \in DOMAIN ts} \subseteq Token
    BY DEF Lexed
  <2> QED
    BY <2>1
<1>3. ASSUME NEW k \in DOMAIN us, NEW l \in DOMAIN us, us[k].str = us[l].str
      PROVE  us[k].kind = us[l].kind
  BY <1>1, <1>3 DEF Lexed
<1>4. \A k \in DOMAIN us :
        /\ us[k].str = Hash => us[k].kind = "other"
        /\ us[k].str = DefineName => us[k].kind = "ident"
  BY <1>1 DEF Lexed
<1> QED
  BY <1>2, <1>3, <1>4 DEF Lexed

\* What is put together from texts over V is a text over V.
LEMMA FlattenSeqType ==
    ASSUME NEW V, NEW seqs \in Seq(Seq(V))
    PROVE  FlattenSeq(seqs) \in Seq(V)
<1> DEFINE n == Len(seqs)
           Flat(f) == f = [i \in 1..n |-> IF i = 1 THEN seqs[i] ELSE f[i - 1] \o seqs[i]]
           flatten == CHOOSE f : Flat(f)
<1>1. n \in Nat /\ \A i \in 1..n : seqs[i] \in Seq(V)
  OBVIOUS
<1>2. CASE n = 0
  <2>1. FlattenSeq(seqs) = seqs /\ seqs = <<>>
    BY <1>2 DEF FlattenSeq
  <2> QED
    BY <2>1
<1>3. CASE n # 0
  <2> DEFINE step == [x \in (0..(n - 1)) \X [0..(n - 1) -> Seq(V)] |->
                          IF x[1] = 0 THEN seqs[1] ELSE x[2][x[1] - 1] \o seqs[x[1] + 1]]
             first == [k \in 0..(n - 1) |-> seqs[1]]
  <2>1. n - 1 \in Nat /\ 1 \in 1..n /\ \A k \in 0..(n - 1) : k + 1 \in 1..n
    BY <1>1, <1>3
  <2>2. ASSUME NEW k \in 0..(n - 1), NEW f \in [0..(n - 1) -> Seq(V)]
        PROVE  /\ step[<<k, f>>] = IF k = 0 THEN seqs[1] ELSE f[k - 1] \o seqs[k + 1]
               /\ step[<<k, f>>] \in Seq(V)
    <3>1. step[<<k, f>>] = IF k = 0 THEN seqs[1] ELSE f[k - 1] \o seqs[k + 1]
      OBVIOUS
    <3>2. seqs[1] \in Seq(V) /\ seqs[k + 1] \in Seq(V)
      BY <1>1, <2>1
    <3>3. k # 0 => f[k - 1] \in Seq(V)
      <4>1. k # 0 => k - 1 \in 0..(n - 1)
        BY <2>1
      <4> HIDE DEF n
      <4> QED
        BY <4>1
    <3>4. \A a, b \in Seq(V) : a \o b \in Seq(V)
      OBVIOUS
    <3> HIDE DEF step
    <3> QED
      BY <3>1, <3>2, <3>3, <3>4
  <2>3. step \in [(0..(n - 1)) \X [0..(n - 1) -> Seq(V)] -> Seq(V)]
    BY <2>2
  <2>4. first \in [0..(n - 1) -> Seq(V)]
    BY <1>1, <2>1
  <2>5. LooksBackOnly(n - 1, Seq(V), step)
    <3>1. ASSUME NEW i \in 0..(n - 1), NEW f \in [0..(n - 1) -> Seq(V)], NEW g \in [0..(n - 1) -> Seq(V)],
                 \A j \in 0..(n - 1) : j < i => f[j] = g[j]
          PROVE  step[<<i, f>>] = step[<<i, g>>]
      <4>1. i # 0 => i - 1 \in 0..(n - 1) /\ i - 1 < i
        BY <2>1
      <4> HIDE DEF step
      <4> QED
        BY <2>2, <3>1, <4>1
    <3> HIDE DEF step
    <3> QED
      BY <3>1 DEF LooksBackOnly
  <2>6. PICK g \in [0..(n - 1) -> Seq(V)] : IsRecursion(g, n - 1, step)
    <3> HIDE DEF step, first, n
    <3> QED
      BY <2>1, <2>3, <2>4, <2>5, RecursionExists
  <2> DEFINE h == [i \in 1..n |-> g[i - 1]]
  <2>7. Flat(h)
    <3>1. ASSUME NEW i \in 1..n
          PROVE  h[i] = IF i = 1 THEN seqs[i] ELSE h[i - 1] \o seqs[i]
      <4>1. i - 1 \in 0..(n - 1) /\ (i - 1) + 1 = i
        BY <2>1
      <4>2. g[i - 1] = IF i - 1 = 0 THEN seqs[1] ELSE g[(i - 1) - 1] \o seqs[(i - 1) + 1]
        <5> HIDE DEF step
        <5> QED
          BY <2>2, <2>6, <4>1 DEF IsRecursion
      <4>3. i # 1 => i - 1 \in 1..n
        BY <2>1
      <4> QED
        BY <4>1, <4>2, <4>3
    <3> QED
      BY <3>1
  <2>8. Flat(flatten)
    <3> HIDE DEF Flat, h
    <3> QED
      BY <2>7
  <2>9. FlattenSeq(seqs) = flatten[n]
    BY <1>3 DEF FlattenSeq
  <2>10. \A k \in Nat : 1 <= k /\ k <= n => flatten[k] \in Seq(V)
    <3> DEFINE S == {k \in Nat : 1 <= k /\ k <= n => flatten[k] \in Seq(V)}
    <3> HIDE DEF flatten
    <3>1. 0 \in S
      OBVIOUS
    <3>2. ASSUME NEW k \in Nat, k \in S PROVE k + 1 \in S
      <4>1. ASSUME k + 1 <= n PROVE flatten[k + 1] \in Seq(V)
        <5>1. k + 1 \in 1..n /\ (k + 1) - 1 = k /\ (k # 0 => flatten[k] \in Seq(V))
          BY <1>1, <3>2, <4>1
        <5>2. flatten[k + 1] = IF k + 1 = 1 THEN seqs[k + 1] ELSE flatten[k] \o seqs[k + 1]
          BY <2>8, <5>1
        <5>3. \A a, b \in Seq(V) : a \o b \in Seq(V)
          OBVIOUS
        <5>4. seqs[k + 1] \in Seq(V)
          BY <1>1, <5>1
        <5> QED
          BY <5>1, <5>2, <5>3, <5>4
      <4> QED
        BY <4>1
    <3>3. Nat \subseteq S
      <4> HIDE DEF S
      <4> QED
        BY <3>1, <3>2, NumbersInduction
    <3> QED
      BY <3>3
  <2> HIDE DEF flatten
  <2> QED
    BY <1>1, <1>3, <2>9, <2>10
<1> QED
  BY <1>2, <1>3

-----------------------------------------------------------------------------
(* define                                                                  *)

\* Where a run of space ends, if it does.
LEMMA SkipSpaceStops ==
    ASSUME NEW ts, Lexed(ts), NEW i \in 1..(Len(ts) + 1)
    PROVE  /\ Len(ts) \in Nat
           /\ SkipSpace(ts, i) \in i..(Len(ts) + 1)
           /\ \A p \in i..Len(ts) : ts[p].kind # "ws" => SkipSpace(ts, i) <= p
<1> DEFINE solid == {p \in i..Len(ts) : ts[p].kind # "ws"}
<1>1. Len(ts) \in Nat
  BY DEF Lexed
<1>2. CASE solid = {}
  <2>1. SkipSpace(ts, i) = Len(ts) + 1
    BY <1>2 DEF SkipSpace
  <2> QED
    BY <1>1, <1>2, <2>1
<1>3. CASE solid # {}
  <2>1. solid \in SUBSET Nat
    BY <1>1
  <2>2. \E m \in solid : \A j \in solid : m <= j
    <3> HIDE DEF solid
    <3> QED
      BY <1>3, <2>1, LeastExists
  <2>3. SkipSpace(ts, i) = Min(solid)
    BY <1>3 DEF SkipSpace
  <2>4. Min(solid) \in solid /\ \A j \in solid : Min(solid) <= j
    <3> HIDE DEF solid
    <3> QED
      BY <2>2 DEF Min
  <2> QED
    BY <1>1, <2>3, <2>4
<1> QED
  BY <1>2, <1>3

\* What the scan makes of the positions from i on, given what it makes of the
\* later ones.
ScanFrom(ts, i, scan) ==
    IF i > Len(ts) THEN {}
    ELSE IF ts[i].str # Hash THEN scan[i + 1]
    ELSE LET d == SkipSpace(ts, i + 1)
             m == SkipSpace(ts, d + 1)
         IN  IF d > Len(ts) THEN {d}
             ELSE IF ts[d].str # DefineName THEN scan[d + 1]
             ELSE IF m > Len(ts) THEN {Len(ts) + 1}
             ELSE {m} \cup scan[m + 1]
IsScan(ts, scan) == scan = [i \in 1..(Len(ts) + 2) |-> ScanFrom(ts, i, scan)]

LEMMA ScanExists ==
    ASSUME NEW ts, Lexed(ts)
    PROVE  \E scan : IsScan(ts, scan)
<1> DEFINE n == Len(ts)
           V == SUBSET Nat
           step == [x \in (0..(n + 1)) \X [0..(n + 1) -> V] |->
                        ScanFrom(ts, x[1] + 1, [i \in 1..(n + 2) |-> x[2][i - 1]])]
           none == [k \in 0..(n + 1) |-> {}]
<1>1. n \in Nat /\ n + 1 \in Nat
  BY DEF Lexed
<1>2. ASSUME NEW i \in 1..(n + 2), NEW f \in [1..(n + 2) -> V]
      PROVE  /\ ScanFrom(ts, i, f) \in V
             /\ \A g \in [1..(n + 2) -> V] :
                   (\A j \in 1..(n + 2) : i < j => f[j] = g[j]) => ScanFrom(ts, i, f) = ScanFrom(ts, i, g)
  <2> DEFINE d == SkipSpace(ts, i + 1)
             m == SkipSpace(ts, d + 1)
  <2>1. i <= n => i + 1 \in 1..(n + 1) /\ i + 1 \in 1..(n + 2)
    BY <1>1
  <2>2. i <= n => d \in (i + 1)..(n + 1)
    BY <2>1, SkipSpaceStops
  <2>3. i <= n /\ d <= n => d + 1 \in 1..(n + 1) /\ d + 1 \in 1..(n + 2) /\ i < d + 1
    BY <1>1, <2>2
  <2>4. i <= n /\ d <= n => m \in (d + 1)..(n + 1)
    BY <2>3, SkipSpaceStops
  <2>5. i <= n /\ d <= n /\ m <= n => m + 1 \in 1..(n + 2) /\ i < m + 1 /\ m \in Nat
    BY <1>1, <2>2, <2>4
  <2>6. ScanFrom(ts, i, f) \in V
    <3>1. i <= n /\ d > n => {d} \in V
      BY <1>1, <2>2
    <3>2. {n + 1} \in V /\ {} \in V
      BY <1>1
    <3> HIDE DEF d, m
    <3>3. i <= n => f[i + 1] \in V
      BY <2>1
    <3>4. i <= n /\ d <= n => f[d + 1] \in V
      BY <2>3
    <3>5. i <= n /\ d <= n /\ m <= n => {m} \cup f[m + 1] \in V
      BY <2>5
    <3>6. ~(i <= n) <=> i > n
      BY <1>1
    <3>7. i <= n => (~(d <= n) <=> d > n)
      BY <1>1, <2>2
    <3>8. i <= n /\ d <= n => (~(m <= n) <=> m > n)
      BY <1>1, <2>4
    <3> QED
      BY <3>1, <3>2, <3>3, <3>4, <3>5, <3>6, <3>7, <3>8 DEF ScanFrom, d, m
  <2>7. ASSUME NEW g \in [1..(n + 2) -> V], \A j \in 1..(n + 2) : i < j => f[j] = g[j]
        PROVE  ScanFrom(ts, i, f) = ScanFrom(ts, i, g)
    <3>1. i <= n => f[i + 1] = g[i + 1]
      BY <1>1, <2>1, <2>7
    <3>2. i <= n /\ d <= n => f[d + 1] = g[d + 1]
      BY <2>3, <2>7
    <3>3. i <= n /\ d <= n /\ m <= n => f[m + 1] = g[m + 1]
      BY <2>5, <2>7
    <3>6. ~(i <= n) <=> i > n
      BY <1>1
    <3>7. i <= n => (~(d <= n) <=> d > n)
      BY <1>1, <2>2
    <3>8. i <= n /\ d <= n => (~(m <= n) <=> m > n)
      BY <1>1, <2>4
    <3> QED
      BY <3>1, <3>2, <3>3, <3>6, <3>7, <3>8 DEF ScanFrom
  <2> QED
    BY <2>6, <2>7
<1> DEFINE Shifted(f) == [i \in 1..(n + 2) |-> f[i - 1]]
<1>3. ASSUME NEW f \in [0..(n + 1) -> V]
      PROVE  Shifted(f) \in [1..(n + 2) -> V] /\ \A j \in 1..(n + 2) : Shifted(f)[j] = f[j - 1]
  <2>1. \A i \in 1..(n + 2) : i - 1 \in 0..(n + 1)
    BY <1>1
  <2> HIDE DEF n, V
  <2> QED
    BY <2>1
<1>4. \A k \in 0..(n + 1) : k + 1 \in 1..(n + 2) /\ (k + 1) - 1 = k
  BY <1>1
<1>5. ASSUME NEW k \in 0..(n + 1), NEW f \in [0..(n + 1) -> V]
      PROVE  step[<<k, f>>] = ScanFrom(ts, k + 1, Shifted(f)) /\ step[<<k, f>>] \in V
  <2>1. step[<<k, f>>] = ScanFrom(ts, k + 1, Shifted(f))
    OBVIOUS
  <2> HIDE DEF step, Shifted, V, n
  <2> QED
    BY <1>2, <1>3, <1>4, <2>1
<1>6. step \in [(0..(n + 1)) \X [0..(n + 1) -> V] -> V] /\ none \in [0..(n + 1) -> V]
  <2>1. ASSUME NEW x \in (0..(n + 1)) \X [0..(n + 1) -> V] PROVE step[x] \in V
    <3>1. x = <<x[1], x[2]>> /\ x[1] \in 0..(n + 1) /\ x[2] \in [0..(n + 1) -> V]
      OBVIOUS
    <3> HIDE DEF step, V, n
    <3> QED
      BY <1>5, <3>1
  <2>2. none \in [0..(n + 1) -> V]
    OBVIOUS
  <2>3. \A D, f : f = [x \in D |-> f[x]] /\ (\A x \in D : f[x] \in V) => f \in [D -> V]
    OBVIOUS
  <2>4. step = [x \in (0..(n + 1)) \X [0..(n + 1) -> V] |-> step[x]]
    OBVIOUS
  <2> HIDE DEF step, V, n, none
  <2> QED
    BY <2>1, <2>2, <2>3, <2>4
<1>7. LooksAheadOnly(n + 1, V, step)
  <2>1. ASSUME NEW i \in 0..(n + 1), NEW f \in [0..(n + 1) -> V], NEW g \in [0..(n + 1) -> V],
               \A j \in 0..(n + 1) : i < j => f[j] = g[j]
        PROVE  step[<<i, f>>] = step[<<i, g>>]
    <3>1. \A j \in 1..(n + 2) : i + 1 < j => Shifted(f)[j] = Shifted(g)[j]
      <4>1. ASSUME NEW j \in 1..(n + 2), i + 1 < j PROVE f[j - 1] = g[j - 1]
        <5>1. j - 1 \in 0..(n + 1) /\ i < j - 1
          BY <1>1, <4>1
        <5> QED
          BY <2>1, <5>1
      <4> HIDE DEF Shifted
      <4> QED
        BY <1>3, <4>1
    <3> HIDE DEF step, Shifted, V, n
    <3> QED
      BY <1>2, <1>3, <1>4, <1>5, <3>1
  <2> HIDE DEF step, V
  <2> QED
    BY <2>1 DEF LooksAheadOnly
<1>8. PICK f \in [0..(n + 1) -> V] : IsRecursion(f, n + 1, step)
  <2> HIDE DEF step, none, V, n
  <2> QED
    BY <1>1, <1>6, <1>7, BackwardRecursionExists
<1>9. ASSUME NEW i \in 1..(n + 2) PROVE Shifted(f)[i] = ScanFrom(ts, i, Shifted(f))
  <2>1. i - 1 \in 0..(n + 1) /\ (i - 1) + 1 = i
    BY <1>1
  <2>2. f[i - 1] = step[<<i - 1, f>>]
    BY <1>8, <2>1 DEF IsRecursion
  <2> HIDE DEF step, Shifted, V, n
  <2> QED
    BY <1>3, <1>5, <2>1, <2>2
<1>10. IsScan(ts, Shifted(f))
  BY <1>9 DEF IsScan
<1> QED
  BY <1>10

\* What holds of the positions the scan finds wherever it has got to.
LEMMA ScanInduction ==
    ASSUME NEW ts, Lexed(ts), NEW scan, IsScan(ts, scan), NEW Good,
           \A i \in 1..(Len(ts) + 2) :
               (\A j \in 1..(Len(ts) + 2) : i < j => scan[j] \subseteq Good) => scan[i] \subseteq Good
    PROVE  scan[1] \subseteq Good
<1> DEFINE n == Len(ts)
           Bad == {i \in 1..(n + 2) : ~(scan[i] \subseteq Good)}
<1>1. n \in Nat
  BY DEF Lexed
<1>2. ASSUME Bad # {} PROVE FALSE
  <2>1. Bad \in SUBSET (0..(n + 2)) /\ n + 2 \in Nat
    BY <1>1
  <2>2. PICK m \in Bad : \A j \in Bad : m >= j
    <3> HIDE DEF Bad
    <3> QED
      BY <1>2, <2>1, GreatestExists
  <2>3. ASSUME NEW j \in 1..(n + 2), m < j PROVE scan[j] \subseteq Good
    <3>1. j \notin Bad
      BY <1>1, <2>2, <2>3
    <3> QED
      BY <3>1
  <2> QED
    BY <1>1, <2>2, <2>3
<1>3. 1 \in 1..(n + 2)
  BY <1>1
<1> QED
  BY <1>2, <1>3

\* A macro's name stands behind "define"; the scan stays within the file when
\* the file ends in a complete line.
IsMacroName(ts, x) ==
    /\ x \in 1..(Len(ts) + 1)
    /\ Last(ts).kind = "newline" =>
          /\ x <= Len(ts)
          /\ \E d \in DOMAIN ts : ts[d].str = DefineName /\ x = SkipSpace(ts, d + 1)

LEMMA MacroNamesAreMacroNames ==
    ASSUME NEW ts, Lexed(ts)
    PROVE  \A x \in MacroNames(ts) : IsMacroName(ts, x)
<1> DEFINE n == Len(ts)
           scan == CHOOSE s : IsScan(ts, s)
           Good == {x \in 1..(n + 1) : IsMacroName(ts, x)}
<1>1. n \in Nat /\ DOMAIN ts = 1..n
  BY DEF Lexed
<1>2. IsScan(ts, scan)
  BY ScanExists
<1>3. MacroNames(ts) = scan[1]
  BY DEF MacroNames, IsScan, ScanFrom
<1>4. ASSUME NEW i \in 1..(n + 2), \A j \in 1..(n + 2) : i < j => scan[j] \subseteq Good
      PROVE  scan[i] \subseteq Good
  <2> DEFINE d == SkipSpace(ts, i + 1)
             m == SkipSpace(ts, d + 1)
  <2> HIDE DEF scan
  <2>1. scan[i] = ScanFrom(ts, i, scan)
    BY <1>2 DEF IsScan
  <2>2. CASE i > n
    BY <2>1, <2>2 DEF ScanFrom
  <2>3. CASE i <= n /\ ts[i].str # Hash
    <3>1. scan[i] = scan[i + 1] /\ i + 1 \in 1..(n + 2) /\ i < i + 1
      BY <1>1, <2>1, <2>3 DEF ScanFrom
    <3> QED
      BY <1>4, <3>1
  <2>4. CASE i <= n /\ ts[i].str = Hash
    <3>1. /\ i + 1 \in 1..(n + 1) /\ d \in (i + 1)..(n + 1)
          /\ \A p \in (i + 1)..n : ts[p].kind # "ws" => d <= p
      <4>1. i + 1 \in 1..(n + 1)
        BY <1>1, <2>4
      <4> QED
        BY <4>1, SkipSpaceStops
    <3>2. ts[i].kind = "other" /\ i \in DOMAIN ts
      BY <1>1, <2>4 DEF Lexed
    <3>3. CASE d > n
      <4>1. scan[i] = {d}
        BY <1>1, <2>1, <2>4, <3>3 DEF ScanFrom
      <4>2. Last(ts).kind = "newline" => FALSE
        <5>1. ASSUME ts[n].kind = "newline" PROVE FALSE
          <6>1. i = n \/ n \in (i + 1)..n
            <7>1. i \in Nat /\ n \in Nat /\ i <= n
              BY <1>1, <2>4
            <7> HIDE DEF n
            <7> QED
              BY <7>1
          <6>2. i # n
            BY <3>2, <5>1
          <6>3. d <= n
            BY <3>1, <5>1, <6>1, <6>2
          <6> QED
            BY <1>1, <3>1, <3>3, <6>3
        <5> QED
          BY <5>1 DEF Last
      <4>3. d \in 1..(n + 1)
        BY <1>1, <3>1
      <4> HIDE DEF d
      <4> QED
        BY <4>1, <4>2, <4>3 DEF IsMacroName
    <3>4. CASE d <= n /\ ts[d].str # DefineName
      <4>1. d + 1 \in 1..(n + 2) /\ i < d + 1 /\ ~(d > n) /\ ~(i > n)
        BY <1>1, <3>1, <3>4
      <4>2. scan[i] = scan[d + 1]
        BY <2>1, <2>4, <3>4, <4>1 DEF ScanFrom
      <4> QED
        BY <1>4, <4>1, <4>2
    <3>5. CASE d <= n /\ ts[d].str = DefineName
      <4>1. /\ d \in 1..n /\ d + 1 \in 1..(n + 1) /\ m \in (d + 1)..(n + 1)
            /\ \A p \in (d + 1)..n : ts[p].kind # "ws" => m <= p
        <5>1. d \in 1..n /\ d + 1 \in 1..(n + 1)
          BY <1>1, <3>1, <3>5
        <5> QED
          BY <5>1, SkipSpaceStops
      <4>2. ts[d].kind = "ident"
        BY <1>1, <3>5, <4>1 DEF Lexed
      <4>3. Last(ts).kind = "newline" => m <= n
        <5>1. ASSUME ts[n].kind = "newline" PROVE m <= n
          <6>1. d = n \/ n \in (d + 1)..n
            BY <1>1, <4>1
          <6>2. d # n
            BY <4>2, <5>1
          <6> QED
            BY <4>1, <5>1, <6>1, <6>2
        <5> QED
          BY <5>1 DEF Last
      <4>4. m \in 1..(n + 1) /\ n + 1 \in 1..(n + 1)
        BY <1>1, <4>1
      <4>5. CASE m > n
        <5>1. scan[i] = {n + 1} /\ ~(m <= n)
          BY <1>1, <2>1, <2>4, <3>5, <4>1, <4>5 DEF ScanFrom
        <5> QED
          BY <4>3, <4>4, <5>1 DEF IsMacroName
      <4>6. CASE m <= n
        <5>1. scan[i] = {m} \cup scan[m + 1] /\ m + 1 \in 1..(n + 2) /\ i < m + 1
          BY <1>1, <2>1, <2>4, <3>1, <3>5, <4>1, <4>6 DEF ScanFrom
        <5>2. scan[m + 1] \subseteq Good
          BY <1>4, <5>1
        <5>3. IsMacroName(ts, m)
          BY <1>1, <3>5, <4>1, <4>4, <4>6 DEF IsMacroName
        <5> HIDE DEF m, d
        <5> QED
          BY <4>4, <5>1, <5>2, <5>3
      <4> QED
        BY <1>1, <4>4, <4>5, <4>6
    <3> QED
      BY <1>1, <3>1, <3>3, <3>4, <3>5
  <2> QED
    BY <1>1, <2>2, <2>3, <2>4
<1>5. scan[1] \subseteq Good
  <2> HIDE DEF scan, Good
  <2> QED
    BY <1>2, <1>4, ScanInduction
<1> HIDE DEF scan
<1> QED
  BY <1>3, <1>5

\* replace_macro puts texts of the file together, or runs off its end when no
\* line ends behind the name.
LEMMA ReplaceMacroType ==
    ASSUME NEW ts, Lexed(ts), NEW m \in DOMAIN ts
    PROVE  \/ ReplaceMacro(ts, m).code = OK /\ Lexed(ReplaceMacro(ts, m).out)
           \/ /\ ReplaceMacro(ts, m).code = 139
              /\ Last(ts).kind = "newline" => m = Len(ts)
<1> DEFINE n == Len(ts)
           first == SkipSpace(ts, m + 1)
           ends == {p \in first..n : ts[p].kind = "newline"}
           body == SubSeq(ts, first, Min(ends) - 1)
           put(x) == IF x # m /\ ts[x].str = ts[m].str THEN body ELSE <<ts[x]>>
           V == {ts[i] : i \in DOMAIN ts}
<1>1. n \in Nat /\ DOMAIN ts = 1..n
  BY DEF Lexed
<1>2. /\ m + 1 \in 1..(n + 1) /\ first \in (m + 1)..(n + 1)
      /\ \A p \in (m + 1)..n : ts[p].kind # "ws" => first <= p
  <2>1. m + 1 \in 1..(n + 1)
    BY <1>1
  <2> QED
    BY <2>1, SkipSpaceStops
<1>3. CASE ends = {}
  <2>1. ReplaceMacro(ts, m) = Exit(139, ts)
    BY <1>3 DEF ReplaceMacro
  <2>2. ASSUME ts[n].kind = "newline", m # n PROVE FALSE
    <3>1. n \in (m + 1)..n
      BY <1>1, <2>2
    <3>2. first <= n
      BY <1>2, <2>2, <3>1
    <3>3. n \in first..n
      BY <1>1, <1>2, <3>2
    <3> QED
      BY <1>3, <2>2, <3>3
  <2>3. ReplaceMacro(ts, m).code = 139
    BY <2>1 DEF Exit
  <2> QED
    BY <2>2, <2>3 DEF Last
<1>4. CASE ends # {}
  <2>1. ReplaceMacro(ts, m) = Exit(OK, FlattenSeq([x \in DOMAIN ts |-> put(x)]))
    BY <1>4 DEF ReplaceMacro
  <2>2. Min(ends) \in ends
    <3>1. ends \in SUBSET Nat
      BY <1>1, <1>2
    <3>2. \E k \in ends : \A j \in ends : k <= j
      <4> HIDE DEF ends
      <4> QED
        BY <1>4, <3>1, LeastExists
    <3> HIDE DEF ends
    <3> QED
      BY <3>2 DEF Min
  <2>3. first \in 1..n /\ Min(ends) - 1 \in 0..n
    <3>1. /\ n \in Nat /\ m \in Nat /\ first \in (m + 1)..(n + 1)
          /\ Min(ends) \in first..n
      BY <1>1, <1>2, <2>2
    <3> HIDE DEF n, first, ends
    <3> QED
      BY <3>1
  <2>4. ts \in Seq(V)
    <3>1. ts \in Seq(Token)
      BY DEF Lexed
    <3> QED
      BY <3>1
  <2>5. body \in Seq(V)
    <3> DEFINE b == Min(ends) - 1
    <3>1. \A a \in 1..n, c \in 0..n : SubSeq(ts, a, c) \in Seq(V)
      <4> HIDE DEF V
      <4> QED
        BY <1>1, <2>4
    <3> HIDE DEF V, first, ends
    <3> QED
      BY <2>3, <3>1
  <2>6. \A x \in DOMAIN ts : put(x) \in Seq(V)
    <3>1. \A x \in DOMAIN ts : <<ts[x]>> \in Seq(V)
      OBVIOUS
    <3> HIDE DEF V, body
    <3> QED
      BY <2>5, <3>1
  <2>7. [x \in DOMAIN ts |-> put(x)] \in Seq(Seq(V))
    <3> HIDE DEF V, put
    <3> QED
      BY <1>1, <2>6
  <2>8. Lexed(FlattenSeq([x \in DOMAIN ts |-> put(x)]))
    <3>1. FlattenSeq([x \in DOMAIN ts |-> put(x)]) \in Seq(V)
      <4> HIDE DEF V, put
      <4> QED
        BY <2>7, FlattenSeqType
    <3> HIDE DEF put
    <3> QED
      BY <3>1, LexedPart
  <2> HIDE DEF put
  <2> QED
    BY <2>1, <2>8 DEF Exit
<1> QED
  BY <1>3, <1>4

\* define rewrites the file into a lexed one, or dies because the file does
\* not end in a complete line or a definition has no name.
LEMMA DefineCommandAnswers ==
    ASSUME NEW ts, Lexed(ts), NEW idx \in Nat, NEW r \in DefineCommand(ts, idx)
    PROVE  /\ r.code = OK => Lexed(r.out)
           /\ r.code \in {OK, STOP} \/ Last(ts).kind # "newline"
              \/ \E i \in DOMAIN ts : ts[i].str = DefineName /\ SkipSpace(ts, i + 1) = Len(ts)
<1> DEFINE n == Len(ts)
           used == {m \in MacroNames(ts) : Used(ts, m)}
           m == Nth(used, idx + 1)
<1>1. n \in Nat /\ DOMAIN ts = 1..n
  BY DEF Lexed
<1>2. \A x \in used : IsMacroName(ts, x)
  BY MacroNamesAreMacroNames
<1>3. CASE idx < Cardinality(used) /\ m <= n
  <2>1. r = ReplaceMacro(ts, m)
    BY <1>3 DEF DefineCommand
  <2>2. used \in Positions(n + 1)
    <3> HIDE DEF used
    <3> QED
      BY <1>2 DEF Positions, IsMacroName
  <2>3. m \in used
    <3>1. idx + 1 \in 1..Cardinality(used) /\ n + 1 \in Nat
      <4> HIDE DEF used
      <4> QED
        BY <1>1, <1>3, <2>2, PositionsAreFinite
    <3> HIDE DEF used, n
    <3> QED
      BY <2>2, <3>1, NthHasRank
  <2>4. IsMacroName(ts, m) /\ m \in DOMAIN ts
    <3> HIDE DEF used, m
    <3> QED
      BY <1>1, <1>2, <1>3, <2>3 DEF IsMacroName
  <2>5. \/ r.code = OK /\ Lexed(r.out)
        \/ r.code = 139 /\ (Last(ts).kind = "newline" => m = n)
    <3> HIDE DEF m
    <3> QED
      BY <2>1, <2>4, ReplaceMacroType
  <2>6. Last(ts).kind = "newline" /\ m = n =>
          \E d \in DOMAIN ts : ts[d].str = DefineName /\ SkipSpace(ts, d + 1) = n
    <3> HIDE DEF m, n
    <3> QED
      BY <2>4 DEF IsMacroName
  <2> HIDE DEF m
  <2> QED
    BY <2>5, <2>6 DEF OK
<1>4. CASE ~(idx < Cardinality(used) /\ m <= n)
  <2>1. r = Exit(STOP, ts) \/ (r = Exit(139, ts) /\ \E x \in used : x \notin DOMAIN ts)
    <3>1. r \in {Exit(STOP, ts)} \cup {Exit(139, ts) : x \in used \ DOMAIN ts}
      BY <1>4 DEF DefineCommand
    <3> HIDE DEF used
    <3> QED
      BY <3>1
  <2>2. \A x \in used : x \notin DOMAIN ts => Last(ts).kind # "newline"
    <3> HIDE DEF used
    <3> QED
      BY <1>1, <1>2 DEF IsMacroName
  <2>3. r.code = STOP \/ (r.code = 139 /\ Last(ts).kind # "newline")
    <3> HIDE DEF used
    <3> QED
      BY <2>1, <2>2 DEF Exit
  <2> QED
    BY <2>3 DEF OK, STOP
<1> QED
  BY <1>3, <1>4

-----------------------------------------------------------------------------
(* rename-toks                                                             *)

\* rename-toks gives the new name to one name, everywhere.
LEMMA RenameToksAnswers ==
    ASSUME NEW ts, Lexed(ts), NEW idx
    PROVE  LET r == RenameToks(ts, idx)
           IN  /\ r.code \in {OK, STOP}
               /\ r.code = OK =>
                     /\ Lexed(r.out) /\ Len(r.out) = Len(ts)
                     /\ \A i, j \in DOMAIN ts :
                           /\ r.out[i].kind = ts[i].kind
                           /\ (ts[i].str = ts[j].str) <=> (r.out[i].str = r.out[j].str)
<1> DEFINE new == FindUnusedName(ts)
           index == IndexToks(ts, new)
           old == index[idx + 1]
           renamed(t) == IF t.kind = "ident" /\ t.str = old THEN [t EXCEPT !.str = new] ELSE t
           out == [i \in DOMAIN ts |-> renamed(ts[i])]
<1>1. new \in Words /\ \A i \in DOMAIN ts : ts[i].str # new
  BY NewNameIsUnused DEF Lexed
<1>2. ts \in Seq(Token) /\ Len(ts) \in Nat /\ DOMAIN ts = 1..Len(ts) /\ \A i \in DOMAIN ts : ts[i] \in Token
  BY DEF Lexed
<1>3. RenameToks(ts, idx) = IF idx >= Len(index) THEN Exit(STOP, ts) ELSE Exit(OK, out)
  BY DEF RenameToks
<1> HIDE DEF new, old
<1>4. ASSUME NEW i \in DOMAIN ts
      PROVE  /\ out[i].kind = ts[i].kind
             /\ out[i].str = IF ts[i].kind = "ident" /\ ts[i].str = old THEN new ELSE ts[i].str
             /\ out[i] \in Token
  <2>1. new \in Seq(Int)
    <3>1. new \in Seq(1..Alphabet) /\ \A p \in 1..Len(new) : new[p] \in Int
      BY <1>1, WordType, AlphabetAssumption
    <3>2. \A V, w : w \in Seq(V) /\ (\A p \in 1..Len(w) : w[p] \in Int) => w \in Seq(Int)
      OBVIOUS
    <3> QED
      BY <3>1, <3>2
  <2>2. ts[i] \in [kind : STRING, str : Seq(Int)] /\ out[i] = renamed(ts[i])
    BY <1>2 DEF Token
  <2> QED
    BY <2>1, <2>2 DEF Token
<1>5. ASSUME NEW i \in DOMAIN ts, NEW j \in DOMAIN ts
      PROVE  /\ out[i].kind = ts[i].kind
             /\ (ts[i].str = ts[j].str) <=> (out[i].str = out[j].str)
  <2>1. ts[i].str = ts[j].str => ts[i].kind = ts[j].kind
    BY DEF Lexed
  <2> HIDE DEF out
  <2> QED
    BY <1>1, <1>4, <2>1
<1>6. out \in Seq(Token) /\ Len(out) = Len(ts) /\ DOMAIN out = DOMAIN ts
  BY <1>2, <1>4
<1>7. Lexed(out)
  <2>1. \A i, j \in DOMAIN out : out[i].str = out[j].str => out[i].kind = out[j].kind
    <3> HIDE DEF out
    <3> QED
      BY <1>4, <1>5, <1>6 DEF Lexed
  <2>2. \A i \in DOMAIN out : out[i].str = Hash => out[i].kind = "other"
    <3>1. new # Hash
      <4>1. \A p \in 1..Len(new) : new[p] \in 1..Alphabet
        BY <1>1, WordType
      <4>2. Len(Hash) = 1 /\ Hash[1] \notin 1..Alphabet
        BY DEF Hash
      <4> QED
        BY <4>1, <4>2
    <3> HIDE DEF out
    <3> QED
      BY <1>4, <1>6, <3>1 DEF Lexed
  <2>3. \A i \in DOMAIN out : out[i].str = DefineName => out[i].kind = "ident"
    <3> HIDE DEF out
    <3> QED
      BY <1>4, <1>6 DEF Lexed
  <2> HIDE DEF out
  <2> QED
    BY <1>6, <2>1, <2>2, <2>3 DEF Lexed
<1>8. CASE idx >= Len(index)
  <2>1. RenameToks(ts, idx).code = STOP
    BY <1>3, <1>8 DEF Exit
  <2> QED
    BY <2>1 DEF OK, STOP
<1>9. CASE ~(idx >= Len(index))
  <2> HIDE DEF out
  <2>1. RenameToks(ts, idx).code = OK /\ RenameToks(ts, idx).out = out
    BY <1>3, <1>9 DEF Exit
  <2> QED
    BY <1>5, <1>6, <1>7, <2>1
<1> QED
  BY <1>8, <1>9

-----------------------------------------------------------------------------
(* The invariant. *)

\* The commands that look at tokens and not into strings.
TokenCommands == {"rename-toks", "rm-toks", "rm-tok-pattern", "define"}
LexInv == tool.name \in TokenCommands => Lexed(file)

\* The indexes from the last acceptance on have been tried on the file as it is.
LoopInv ==
    /\ tool \in Cmds /\ state \in Nat /\ resumed \in Nat /\ resumed <= state
    /\ \A s \in resumed..(state - 1) :
          \E r \in TransformClex(tool, file, s) : r.code = "OK" /\ r.file \in refused

\* Why the pass is over.
EndInv ==
    /\ phase = "stop" => \E r \in TransformClex(tool, file, state) : r.code = "STOP"
    /\ phase = "error" => \E r \in TransformClex(tool, file, state) : r.code = "ERROR"

ClexInv == LexInv /\ LoopInv /\ EndInv

-----------------------------------------------------------------------------
(* The answers of the pass.                                                *)

\* clex leaves the state as it is, and the exit code becomes the pass's answer.
LEMMA AnswerOfRun ==
    ASSUME NEW cmd, NEW ts, NEW s, NEW r \in TransformClex(cmd, ts, s)
    PROVE  /\ r.state = s
           /\ \E q \in Run(cmd, ts, s) :
                 /\ r.code = IF q.code = OK THEN "OK" ELSE IF q.code = STOP THEN "STOP" ELSE "ERROR"
                 /\ r.code = "OK" => r.file = q.out
BY DEF TransformClex

\* The one answer of each command that looks at tokens.
LEMMA RunOfCommand ==
    ASSUME NEW cmd, NEW ts, NEW s
    PROVE  /\ cmd.name = "rename-toks" => Run(cmd, ts, s) = {RenameToks(ts, s)}
           /\ cmd.name = "rm-toks" => Run(cmd, ts, s) = {RmToks(cmd.n, ts, s)}
           /\ cmd.name = "rm-tok-pattern" => Run(cmd, ts, s) = {RmTokPattern(cmd.n, ts, s)}
           /\ cmd.name = "define" => Run(cmd, ts, s) = DefineCommand(ts, s)
BY DEF Run

\* Only define dies.
LEMMA OnlyDefineDies ==
    ASSUME NEW cmd \in Cmds, NEW ts, NEW s, cmd.name # "define", NEW q \in Run(cmd, ts, s)
    PROVE  q.code \in {OK, STOP}
<1>1. cmd.name \in Commands
  BY CmdsAssumption
<1>2. RenameToks(ts, s).code \in {OK, STOP}
  BY DEF RenameToks, Exit
<1>3. DeleteString(ts, s).code \in {OK, STOP}
  BY DEF DeleteString, CountUpTo, Exit
<1>4. ShortenString(ts, s).code \in {OK, STOP}
  BY DEF ShortenString, Exit
<1>5. XString(ts, s).code \in {OK, STOP}
  BY DEF XString, Exit
<1>6. RmToks(cmd.n, ts, s).code \in {OK, STOP}
  BY DEF RmToks, Exit
<1>7. RmTokPattern(cmd.n, ts, s).code \in {OK, STOP}
  BY DEF RmTokPattern, Exit
<1>. QED  BY <1>1, <1>2, <1>3, <1>4, <1>5, <1>6, <1>7 DEF Run, Commands

-----------------------------------------------------------------------------
(* The invariant.                                                          *)

\* The first index is untried, and the pass is not over.
LEMMA ClexInvHolds ==
    ASSUME Init
    PROVE  ClexInv
<1>1. LexInv
  BY StartFilesAssumption DEF Init, LexInv
<1>2. LoopInv /\ EndInv
  BY DEF Init, LoopInv, EndInv, NewClex
<1>. QED  BY <1>1, <1>2 DEF ClexInv

\* Taking tokens out of the file, or putting others in, keeps it as the lexer makes it.
LEMMA LexInvStep ==
    ASSUME ClexInv, NEW r \in Answers, Accept(r)
    PROVE  LexInv'
<1>. SUFFICES ASSUME tool.name \in TokenCommands
              PROVE  Lexed(file')
  BY DEF Accept, LexInv
<1>1. /\ Lexed(file) /\ tool \in Cmds /\ state \in Nat
      /\ r \in TransformClex(tool, file, state) /\ r.code = "OK" /\ file' = r.file
  BY DEF ClexInv, LexInv, LoopInv, Accept, IsVariant, Answers
<1>2. PICK q \in Run(tool, file, state) : q.code = OK /\ file' = q.out
  BY <1>1, AnswerOfRun
<1>3. ASSUME NEW S \in Positions(Len(file))
      PROVE  Lexed(At(file, S))
  <2>. DEFINE T == {file[i] : i \in DOMAIN file}
  <2>1. file \in Seq(T)
    BY <1>1 DEF Lexed
  <2>2. At(file, S) \in Seq(T)
    <3>. HIDE DEF T
    <3>. QED  BY <2>1, AtType
  <2>. QED  BY <1>1, <2>2, LexedPart
<1>4. file \in Seq(Token) /\ DOMAIN file = 1..Len(file)
  BY <1>1 DEF Lexed
<1>5. CASE tool.name = "rename-toks"
  BY <1>1, <1>2, <1>5, RunOfCommand, RenameToksAnswers
<1>6. CASE tool.name = "define"
  BY <1>1, <1>2, <1>6, RunOfCommand, DefineCommandAnswers
<1>7. CASE tool.name = "rm-toks"
  <2>1. q = RmToks(tool.n, file, state)
    BY <1>2, <1>7, RunOfCommand
  <2>2. \E S \in Positions(Len(file)) : RmToks(tool.n, file, state).out = At(file, S)
    BY <1>4 DEF RmToks, CountUpTo, Exit, Positions
  <2>. QED  BY <1>2, <1>3, <2>1, <2>2
<1>8. CASE tool.name = "rm-tok-pattern"
  <2>1. q = RmTokPattern(tool.n, file, state)
    BY <1>2, <1>8, RunOfCommand
  <2>2. \E S \in Positions(Len(file)) : RmTokPattern(tool.n, file, state).out = At(file, S)
    BY <1>4 DEF RmTokPattern, CountUpTo, Exit, Positions
  <2>. QED  BY <1>2, <1>3, <2>1, <2>2
<1>. QED  BY <1>5, <1>6, <1>7, <1>8 DEF TokenCommands

\* A refused index is behind the pass, an accepted variant begins the count anew.
LEMMA ClexInvStep ==
    ASSUME ClexInv, [Next]_loopVars
    PROVE  ClexInv'
<1>1. CASE UNCHANGED loopVars
  <2>1. LexInv'
    BY <1>1 DEF ClexInv, LexInv, loopVars
  <2>2. LoopInv' /\ EndInv'
    BY <1>1 DEF ClexInv, LoopInv, EndInv, loopVars
  <2>. QED  BY <2>1, <2>2 DEF ClexInv
<1>2. ASSUME phase = "try", NEW r \in Answers, Reject(r)
      PROVE  ClexInv'
  <2>1. LexInv'
    BY <1>2 DEF ClexInv, LexInv, Reject
  <2>2. /\ r \in TransformClex(tool, file, state) /\ r.code = "OK" /\ r.state = state
        /\ state' = state + 1 /\ refused' = refused \cup {r.file}
        /\ UNCHANGED <<tool, file, phase, resumed>>
    BY <1>2, AnswerOfRun DEF Answers, Reject, IsVariant, AdvanceClex
  <2>3. LoopInv
    BY DEF ClexInv
  <2>4. (state + 1) - 1 = state /\ state + 1 \in Nat /\ resumed <= state + 1
    BY <2>3 DEF LoopInv
  <2>5. ASSUME NEW s \in resumed'..(state' - 1)
        PROVE  \E q \in TransformClex(tool, file, s) : q.code = "OK" /\ q.file \in refused'
    <3>1. CASE s = state
      BY <2>2, <3>1
    <3>2. CASE s # state
      <4>1. s \in resumed..(state - 1)
        BY <2>2, <2>3, <2>4, <3>2 DEF LoopInv
      <4>. QED  BY <2>2, <2>3, <4>1 DEF LoopInv
    <3>. QED  BY <3>1, <3>2
  <2>6. LoopInv'
    BY <2>2, <2>3, <2>4, <2>5 DEF LoopInv
  <2>7. EndInv'
    BY <1>2, <2>2 DEF EndInv
  <2>. QED  BY <2>1, <2>6, <2>7 DEF ClexInv
<1>3. ASSUME phase = "try", NEW r \in Answers, Accept(r)
      PROVE  ClexInv'
  <2>1. LexInv'
    BY <1>3, LexInvStep
  <2>2. r.state = state
    BY <1>3, AnswerOfRun DEF Answers
  <2>3. LoopInv'
    BY <1>3, <2>2 DEF ClexInv, LoopInv, Accept
  <2>4. EndInv'
    BY <1>3 DEF EndInv, Accept
  <2>. QED  BY <2>1, <2>3, <2>4 DEF ClexInv
<1>4. ASSUME phase = "try", NEW r \in Answers, End(r)
      PROVE  ClexInv'
  <2>1. LexInv' /\ LoopInv'
    BY <1>4 DEF ClexInv, LexInv, LoopInv, End
  <2>2. EndInv'
    BY <1>4 DEF EndInv, End, Answers
  <2>. QED  BY <2>1, <2>2 DEF ClexInv
<1>. QED  BY <1>1, <1>2, <1>3, <1>4 DEF Next

\* The tokens of the file, the count and the reason for the end are always as said.
THEOREM ClexInvariance == Spec => []ClexInv
<1>1. Init => ClexInv
  BY ClexInvHolds
<1>2. ClexInv /\ [Next]_loopVars => ClexInv'
  BY ClexInvStep
<1>. QED  BY <1>1, <1>2, PTL DEF Spec

-----------------------------------------------------------------------------
(* Renaming.                                                               *)

(***************************************************************************)
(* rename-toks gives a name to one identifier and to all its occurrences,  *)
(* and never gives two identifiers one name (rename_toks and               *)
(* find_unused_name of clex/driver.c): the new name is none of the file's, *)
(* because n + 1 different names are tried against a file of n tokens.     *)
(***************************************************************************)
THEOREM RenamingIsApart == Spec => RenamesApart
<1>. DEFINE Apart ==
              tool.name = "rename-toks" =>
                  /\ Len(file') = Len(file)
                  /\ \A i, j \in DOMAIN file :
                        /\ file'[i].kind = file[i].kind
                        /\ (file[i].str = file[j].str) <=> (file'[i].str = file'[j].str)
<1>1. ClexInv /\ [Next]_loopVars => [Apart]_file
  <2>. SUFFICES ASSUME ClexInv, Next, file' # file, tool.name = "rename-toks"
                PROVE  Apart
    BY DEF loopVars
  <2>1. PICK r \in Answers : Accept(r)
    BY DEF Next, Reject, End
  <2>2. Lexed(file) /\ r \in TransformClex(tool, file, state) /\ r.code = "OK" /\ file' = r.file
    BY <2>1 DEF ClexInv, LexInv, TokenCommands, Answers, Accept, IsVariant
  <2>3. RenameToks(file, state).code = OK /\ file' = RenameToks(file, state).out
    BY <2>2, AnswerOfRun, RunOfCommand
  <2>. QED  BY <2>2, <2>3, RenameToksAnswers
<1>. QED  BY <1>1, ClexInvariance, PTL DEF RenamesApart, Spec

-----------------------------------------------------------------------------
(* Crashes.                                                                *)

(***************************************************************************)
(* clex reads past its token list only when a file does not end in a       *)
(* complete line or the last definition has no name (the loops of          *)
(* replace_macro and define in clex/driver.c that have no other end).      *)
(***************************************************************************)
THEOREM CrashesAreAtTheEnd == Spec => []CrashesOnlyAtTheEnd
<1>1. ClexInv => CrashesOnlyAtTheEnd
  <2>. SUFFICES ASSUME ClexInv, phase = "error"
                PROVE  \/ Last(file).kind # "newline"
                       \/ \E i \in DOMAIN file :
                             file[i].str = DefineName /\ SkipSpace(file, i + 1) = Len(file)
    BY DEF CrashesOnlyAtTheEnd
  <2>1. PICK r \in TransformClex(tool, file, state) : r.code = "ERROR"
    BY DEF ClexInv, EndInv
  <2>2. PICK q \in Run(tool, file, state) : q.code \notin {OK, STOP}
    BY <2>1, AnswerOfRun
  <2>3. tool \in Cmds /\ state \in Nat
    BY DEF ClexInv, LoopInv
  <2>4. tool.name = "define" /\ Lexed(file)
    BY <2>2, <2>3, OnlyDefineDies DEF ClexInv, LexInv, TokenCommands
  <2>5. q \in DefineCommand(file, state)
    BY <2>2, <2>4, RunOfCommand
  <2>. QED  BY <2>2, <2>3, <2>4, <2>5, DefineCommandAnswers
<1>. QED  BY <1>1, ClexInvariance, PTL

-----------------------------------------------------------------------------
(* Removal.                                                                *)

\* An index that is behind the pass has had its variant refused.
LEMMA TriedIsRefused ==
    ASSUME ClexInv, tool.name \in {"rm-toks", "rm-tok-pattern"}, NEW s \in resumed..(state - 1)
    PROVE  LET q == IF tool.name = "rm-toks" THEN RmToks(tool.n, file, s)
                    ELSE RmTokPattern(tool.n, file, s)
           IN  q.out \in refused
<1>1. PICK r \in TransformClex(tool, file, s) : r.code = "OK" /\ r.file \in refused
  BY DEF ClexInv, LoopInv
<1>2. PICK q \in Run(tool, file, s) : r.file = q.out
  BY <1>1, AnswerOfRun
<1>. QED  BY <1>1, <1>2, RunOfCommand

\* When the pass is over, the command found too few tokens.
LEMMA StopIsSTOP ==
    ASSUME ClexInv, phase = "stop", tool.name \in {"rm-toks", "rm-tok-pattern"}
    PROVE  LET q == IF tool.name = "rm-toks" THEN RmToks(tool.n, file, state)
                    ELSE RmTokPattern(tool.n, file, state)
           IN  q.code = STOP
<1>1. PICK r \in TransformClex(tool, file, state) : r.code = "STOP"
  BY DEF ClexInv, EndInv
<1>2. PICK q \in Run(tool, file, state) : q.code = STOP
  BY <1>1, AnswerOfRun
<1>. QED  BY <1>2, RunOfCommand

\* Multiplication keeps the order.
LEMMA TimesIsMonotone ==
    ASSUME NEW a \in Nat, NEW b \in Nat, NEW d \in Nat, a <= b
    PROVE  a * d <= b * d
OBVIOUS

\* The index that begins at token base with pattern p lies between two others.
LEMMA IndexInRange ==
    ASSUME NEW P \in Nat \ {0}, NEW first \in Nat, NEW last \in Nat,
           NEW base \in Nat, NEW p \in 0..(P - 1),
           (first + P - 1) \div P <= base, base < last \div P
    PROVE  base * P + p \in first..(last - 1)
<1>. DEFINE F == (first + P - 1) \div P
            G == last \div P
<1>1. /\ F \in Nat /\ first <= F * P
  <2>1. first + P - 1 \in Nat
    OBVIOUS
  <2>2. /\ first + P - 1 = F * P + ((first + P - 1) % P) /\ F \in Nat
        /\ (first + P - 1) % P \in 0..(P - 1)
    BY <2>1, QuotientAndRemainder
  <2>3. F * P \in Nat
    BY <2>2
  <2>. HIDE DEF F
  <2>. QED  BY <2>2, <2>3
<1>2. /\ G \in Nat /\ G * P <= last
  <2>1. last = G * P + (last % P) /\ last % P \in 0..(P - 1) /\ G \in Nat
    BY QuotientAndRemainder
  <2>2. G * P \in Nat
    BY <2>1
  <2>. HIDE DEF G
  <2>. QED  BY <2>1, <2>2
<1>3. F <= base /\ base + 1 <= G
  <2>1. F <= base /\ base < G
    OBVIOUS
  <2>. HIDE DEF F, G
  <2>. QED  BY <1>1, <1>2, <2>1
<1>. HIDE DEF F, G
<1>4. F * P <= base * P /\ (base + 1) * P <= G * P
  <2>1. F * P <= base * P
    BY <1>1, <1>3, TimesIsMonotone
  <2>2. (base + 1) * P <= G * P
    BY <1>2, <1>3, TimesIsMonotone
  <2>. QED  BY <2>1, <2>2
<1>5. (base + 1) * P = base * P + P
  OBVIOUS
<1>6. base * P \in Nat /\ F * P \in Nat /\ G * P \in Nat
  BY <1>1, <1>2
<1>. QED  BY <1>1, <1>2, <1>4, <1>5, <1>6

\* rm-toks: each run of n tokens behind the last acceptance is one index.
LEMMA RunsAreRefused ==
    ASSUME ClexInv, Lexed(file), phase = "stop", tool.name = "rm-toks", tool.n \in Nat \ {0},
           NEW W \in Windows(file)
    PROVE  \E f \in refused : Solid(f) = At(Solid(file), DOMAIN Solid(file) \ W)
<1>. DEFINE c == Cardinality(VisibleAt(file))
            n == tool.n
            Run1(b) == {k \in 1..Len(Solid(file)) : b <= k /\ k < b + n}
<1>1. file \in Seq(Token)
  BY DEF Lexed
<1>2. c \in Nat /\ Len(Solid(file)) = c
  BY <1>1, VisibleCount, SolidWithout
<1>3. PICK b \in 1..c : b > resumed /\ W = Run1(b)
  BY <1>2 DEF Windows, FirstToken
<1>4. state \in Nat /\ resumed \in Nat
  BY DEF ClexInv, LoopInv
<1>5. ~(state < c)
  <2>1. RmToks(n, file, state).code = STOP
    BY StopIsSTOP
  <2>2. RmToks(n, file, state).code = IF state < c THEN OK ELSE STOP
    BY <1>1, <1>4, RmToksWindow
  <2>. QED  BY <2>1, <2>2 DEF OK, STOP
<1>6. b - 1 \in resumed..(state - 1) /\ b - 1 \in Nat /\ b \in Nat
  BY <1>2, <1>3, <1>4, <1>5
<1>7. RmToks(n, file, b - 1).out \in refused
  BY <1>6, TriedIsRefused
<1>8. Solid(RmToks(n, file, b - 1).out) =
        At(Solid(file), DOMAIN Solid(file) \ {k \in 1..Len(Solid(file)) : b - 1 < k /\ k <= b - 1 + n})
  BY <1>1, <1>6, RmToksWindow
<1>9. {k \in 1..Len(Solid(file)) : b - 1 < k /\ k <= b - 1 + n} = W
  BY <1>2, <1>3, <1>6
<1>. QED  BY <1>7, <1>8, <1>9

\* An odd number below 2 * P is 1 + 2 * p with p below P, and has the bits of W behind b.
LEMMA PatternOf ==
    ASSUME NEW n \in Nat \ {0}, NEW b \in Nat, NEW W \in SUBSET (b..(b + n - 1)), b \in W
    PROVE  \E p \in 0..(PowerOfTwo(n - 1) - 1) :
              \A k \in b..(b + n - 1) : Bit(1 + 2 * p, k - b) <=> k \in W
<1>. DEFINE B == {j \in 0..(n - 1) : b + j \in W}
            P == PowerOfTwo(n - 1)
<1>1. P \in Nat \ {0} /\ PowerOfTwo(n) = 2 * P /\ PowerOfTwo(0) = 1
  <2>1. n - 1 \in Nat /\ (n - 1) + 1 = n
    OBVIOUS
  <2>2. P \in Nat \ {0} /\ PowerOfTwo((n - 1) + 1) = 2 * P
    BY <2>1, PowerOfTwoValues
  <2>. QED  BY <2>1, <2>2, PowerOfTwoValues
<1>. HIDE DEF P
<1>2. PICK x \in 0..(PowerOfTwo(n) - 1) : \A k \in 0..(n - 1) : Bit(x, k) <=> k \in B
  <2>1. B \in SUBSET (0..(n - 1)) /\ n \in Nat
    OBVIOUS
  <2>. HIDE DEF B
  <2>. QED  BY <2>1, BitsExist
<1>3. x \in Nat /\ x < 2 * P
  BY <1>1, <1>2
<1>4. x % 2 = 1
  <2>1. Bit(x, 0)
    BY <1>2
  <2>2. (x \div 1) % 2 = 1
    BY <1>1, <2>1 DEF Bit
  <2>. QED  BY <1>3, <2>2
<1>5. PICK p \in 0..(P - 1) : x = 1 + 2 * p
  <2>. DEFINE p == x \div 2
  <2>1. x = p * 2 + (x % 2) /\ p \in Nat
    BY <1>3, QuotientAndRemainder
  <2>. HIDE DEF p
  <2>2. x = 1 + 2 * p /\ p \in 0..(P - 1)
    BY <1>1, <1>3, <1>4, <2>1
  <2>. QED  BY <2>2
<1>6. ASSUME NEW k \in b..(b + n - 1)
      PROVE  Bit(1 + 2 * p, k - b) <=> k \in W
  <2>1. k - b \in 0..(n - 1) /\ b + (k - b) = k
    OBVIOUS
  <2>. QED  BY <1>2, <1>5, <2>1
<1>. QED  BY <1>5, <1>6 DEF P

\* rm-tok-pattern: each choice among n neighbours behind the last acceptance is one index.
LEMMA ChoicesAreRefused ==
    ASSUME ClexInv, Lexed(file), phase = "stop", tool.name = "rm-tok-pattern", tool.n \in Nat \ {0},
           NEW W \in Windows(file)
    PROVE  \E f \in refused : Solid(f) = At(Solid(file), DOMAIN Solid(file) \ W)
<1>. DEFINE c == Cardinality(VisibleAt(file))
            n == tool.n
            P == PowerOfTwo(n - 1)
            last == state \div P
<1>1. file \in Seq(Token)
  BY DEF Lexed
<1>2. c \in Nat /\ Len(Solid(file)) = c
  BY <1>1, VisibleCount, SolidWithout
<1>3. P \in Nat \ {0}
  BY PowerOfTwoValues
<1>4. state \in Nat /\ resumed \in Nat
  BY DEF ClexInv, LoopInv
<1>5. PICK b \in 1..c :
        /\ b > (resumed + P - 1) \div P
        /\ b \in W /\ W \subseteq {k \in 1..c : b <= k /\ k < b + n}
  BY <1>2 DEF Windows, FirstToken
<1>6. b \in Nat /\ b - 1 \in Nat /\ W \in SUBSET (b..(b + n - 1))
  BY <1>2, <1>5
<1>7. PICK p \in 0..(P - 1) : \A k \in b..(b + n - 1) : Bit(1 + 2 * p, k - b) <=> k \in W
  BY <1>5, <1>6, PatternOf
<1>8. c <= last /\ last \in Nat
  <2>1. RmTokPattern(n, file, state).code = STOP
    BY StopIsSTOP
  <2>2. state = last * P + (state % P) /\ state % P \in 0..(P - 1) /\ last \in Nat
    BY <1>3, <1>4, QuotientAndRemainder
  <2>. HIDE DEF last
  <2>3. RmTokPattern(n, file, state).code = IF last < c THEN OK ELSE STOP
    BY <1>1, <1>4, <2>2, RmTokPatternWindow
  <2>. QED  BY <1>2, <2>1, <2>2, <2>3 DEF OK, STOP
<1>. DEFINE s == (b - 1) * P + p
<1>9. s \in resumed..(state - 1) /\ s \in Nat
  <2>1. (resumed + P - 1) \div P \in Nat
    <3>1. resumed + P - 1 \in Nat
      BY <1>3, <1>4
    <3>. QED  BY <1>3, <3>1, QuotientAndRemainder
  <2>2. (resumed + P - 1) \div P <= b - 1
    <3>. DEFINE F == (resumed + P - 1) \div P
    <3>1. F \in Nat /\ b > F
      BY <1>5, <2>1
    <3>. HIDE DEF F
    <3>2. F <= b - 1
      BY <1>6, <3>1
    <3>. QED  BY <3>2 DEF F
  <2>3. b - 1 < state \div P
    <3>. HIDE DEF P
    <3>1. b - 1 < last
      <4>. HIDE DEF last
      <4>. QED  BY <1>2, <1>5, <1>6, <1>8
    <3>. QED  BY <3>1
  <2>4. s \in resumed..(state - 1)
    <3>. HIDE DEF P
    <3>. QED  BY <1>3, <1>4, <1>6, <1>7, <2>2, <2>3, IndexInRange
  <2>. HIDE DEF s
  <2>. QED  BY <1>4, <2>4
<1>10. RmTokPattern(n, file, s).out \in refused
  BY <1>9, TriedIsRefused
<1>. DEFINE W1 == Chosen(n, b - 1, p, Len(Solid(file)))
<1>11. Solid(RmTokPattern(n, file, s).out) = At(Solid(file), DOMAIN Solid(file) \ W1)
  <2>. DEFINE base == b - 1
  <2>1. s = base * P + p /\ base \in Nat
    BY <1>6
  <2>. HIDE DEF s, base
  <2>2. Solid(RmTokPattern(n, file, s).out) =
          At(Solid(file), DOMAIN Solid(file) \ Chosen(n, base, p, Len(Solid(file))))
    <3>. DEFINE m == tool.n
    <3>1. m \in Nat \ {0} /\ s \in Nat /\ p \in 0..(PowerOfTwo(m - 1) - 1)
          /\ s = base * PowerOfTwo(m - 1) + p
      BY <1>7, <1>9, <2>1
    <3>. HIDE DEF m
    <3>2. Solid(RmTokPattern(m, file, s).out) =
            At(Solid(file), DOMAIN Solid(file) \ Chosen(m, base, p, Len(Solid(file))))
      BY ONLY <1>1, <2>1, <3>1, RmTokPatternWindow
    <3>. QED  BY <3>2 DEF m
  <2>. QED  BY <2>2 DEF base
<1>12. W1 = W
  <2>1. ASSUME NEW k \in 1..Len(Solid(file))
        PROVE  k \in W1 <=> k \in W
    <3>1. k \in W1 <=> b - 1 < k /\ k <= b - 1 + n /\ Bit(1 + 2 * p, k - 1 - (b - 1))
      BY <2>1 DEF Chosen
    <3>. HIDE DEF W1
    <3>2. k \in Nat /\ (b - 1 < k /\ k <= b - 1 + n <=> k \in b..(b + n - 1))
      BY <1>2, <1>6, <2>1
    <3>3. k - 1 - (b - 1) = k - b
      BY <1>6, <3>2
    <3>. QED  BY <1>6, <1>7, <2>1, <3>1, <3>2, <3>3
  <2>2. W \subseteq 1..Len(Solid(file))
    BY <1>2, <1>5
  <2>3. W1 \subseteq 1..Len(Solid(file))
    BY DEF Chosen
  <2>. HIDE DEF W1
  <2>. QED  BY <2>1, <2>2, <2>3
<1>. QED  BY <1>10, <1>11, <1>12

(***************************************************************************)
(* When rm-toks-n or rm-tok-pattern-n is over, the test has refused the    *)
(* file without each run of n tokens, or each choice among n neighbours,   *)
(* from the last acceptance on (rm_toks and rm_tok_pattern of              *)
(* clex/driver.c, counted by pass_clex's advance).                         *)
(***************************************************************************)
THEOREM RemovalIsExhaustive == Spec => []WindowsOffered
<1>1. ClexInv => WindowsOffered
  <2>. SUFFICES ASSUME ClexInv, phase = "stop", tool.name \in {"rm-toks", "rm-tok-pattern"},
                       NEW W \in Windows(file)
                PROVE  \E f \in refused : Solid(f) = At(Solid(file), DOMAIN Solid(file) \ W)
    BY DEF WindowsOffered
  <2>1. Lexed(file)
    BY DEF ClexInv, LexInv, TokenCommands
  <2>2. tool.n \in 1..1000 \/ tool.n \in 2..8
    BY CmdsAssumption DEF ClexInv, LoopInv
  <2>3. tool.n \in Nat \ {0}
    <3>1. \A n : n \in 1..1000 \/ n \in 2..8 => n \in Nat \ {0}
      OBVIOUS
    <3>. QED  BY <2>2, <3>1
  <2>. QED  BY <2>1, <2>3, RunsAreRefused, ChoicesAreRefused
<1>. QED  BY <1>1, ClexInvariance, PTL
=============================================================================
