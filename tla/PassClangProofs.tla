-------------------------- MODULE PassClangProofs --------------------------
(***************************************************************************)
(* What pass_clang and pass_clang_binsrch promise, for every clang_delta,  *)
(* every set of files and every test.                                      *)
(*                                                                         *)
(* The argument: the instances, or ranges of them, behind which the index  *)
(* is have been refused, and where the pass is over the last answer was    *)
(* that there are no more.  For ranges this needs that the loop AGAIN goes *)
(* on with smaller chunks only once all of the old ones are refused.       *)
(***************************************************************************)
EXTENDS PassClang, RecursionLemmas

Calls == ClangDelta(tool.arg, file)
IsSingle == tool.pass = "pass_clang"

-----------------------------------------------------------------------------
(* The invariant *)

\* pass_clang: the counters below the present one have been tried, and the
\* last one is refused by clang_delta.
Indexes == [index : Nat \ {0}]
SinglesInv ==
    IsSingle =>
        /\ state \in Indexes /\ resumed \in Indexes /\ resumed.index <= state.index
        /\ \A k \in resumed.index..(state.index - 1) : Tried(Calls[Single(k)])
        /\ phase = "stop" => Refuses(Calls[Single(state.index)])

\* pass_clang_binsrch: the instances up to the m-th have been tried in ranges
\* of a chunk at most.
Searches == [start : BOOLEAN, index : Nat, chunk : Nat, instances : Nat]
InRange(k, chunk) == \E a \in 1..k : \E b \in k..(a + chunk) : Tried(Calls[<<a, b>>])
Covered(m, chunk) == \A k \in 1..m : InRange(k, chunk)
AtWork(s, calls) == s.instances = CountInstances(calls) /\ s.index >= 1
RangesInv ==
    ~IsSingle =>
        /\ state \in Searches /\ resumed \in Searches
        /\ resumed.start /\ RangesWork(Calls) =>
              /\ ~state.start =>
                    /\ AtWork(state, Calls)
                    /\ \A k \in 1..(state.index - 1) : k <= state.instances => InRange(k, state.chunk)
              /\ phase = "stop" => Covered(CountInstances(Calls), SmallestChunk - 1)

PassInv == SinglesInv /\ RangesInv

-----------------------------------------------------------------------------
(* The operators *)

LEMMA CountsAreNumbers == ASSUME NEW calls PROVE CountInstances(calls) \in Nat
BY DEF CountInstances

LEMMA RoundFacts == ASSUME NEW n \in Nat PROVE Round(n) \in Nat /\ Round(n) <= n
BY DEF Round

\* A chunk is halved as often as it is asked for.
IsHalving(f, n) == f = [i \in 0..n |-> IF i = 0 THEN n ELSE Round(f[i - 1])]
LEMMA HalvingsExist == ASSUME NEW n \in Nat PROVE \E f \in [0..n -> Nat] : IsHalving(f, n)
<1> DEFINE none == [i \in 0..n |-> 0]
           step == [c \in (0..n) \X [0..n -> Nat] |-> IF c[1] = 0 THEN n ELSE Round(c[2][c[1] - 1])]
<1>1. none \in [0..n -> Nat]
  OBVIOUS
<1>2. ASSUME NEW i \in 0..n, NEW f \in [0..n -> Nat]
      PROVE  /\ step[<<i, f>>] = IF i = 0 THEN n ELSE Round(f[i - 1])
             /\ step[<<i, f>>] \in Nat
  <2>1. step[<<i, f>>] = IF i = 0 THEN n ELSE Round(f[i - 1])
    OBVIOUS
  <2>2. i # 0 => Round(f[i - 1]) \in Nat
    <3>1. i # 0 => f[i - 1] \in Nat
      OBVIOUS
    <3> QED
      BY <3>1, RoundFacts
  <2> QED
    BY <2>1, <2>2
<1>3. step \in [(0..n) \X [0..n -> Nat] -> Nat]
  BY <1>2
<1>4. LooksBackOnly(n, Nat, step)
  <2>1. ASSUME NEW i \in 0..n, NEW f \in [0..n -> Nat], NEW g \in [0..n -> Nat],
               \A j \in 0..n : j < i => f[j] = g[j]
        PROVE  step[<<i, f>>] = step[<<i, g>>]
    <3>1. i # 0 => i - 1 \in 0..n /\ i - 1 < i
      OBVIOUS
    <3> HIDE DEF step
    <3> QED
      BY <1>2, <2>1, <3>1
  <2> HIDE DEF step
  <2> QED
    BY <2>1 DEF LooksBackOnly
<1>5. PICK f \in [0..n -> Nat] : IsRecursion(f, n, step)
  <2> HIDE DEF step, none
  <2> QED
    BY <1>1, <1>3, <1>4, RecursionExists
<1>6. \A i \in 0..n : f[i] = IF i = 0 THEN n ELSE Round(f[i - 1])
  <2> HIDE DEF step
  <2> QED
    BY <1>2, <1>5 DEF IsRecursion
<1> QED
  BY <1>6 DEF IsHalving

\* The chunks are numbers.
LEMMA HalvingsAreNumbers ==
    ASSUME NEW n \in Nat
    PROVE  \A i \in 0..n : Halvings(n)[i] \in Nat
<1> DEFINE f == CHOOSE g : IsHalving(g, n)
           S == {k \in Nat : k <= n => f[k] \in Nat}
<1>1. Halvings(n) = f
  BY DEF Halvings, IsHalving
<1>2. IsHalving(f, n)
  BY HalvingsExist
<1> HIDE DEF f
<1>3. 0 \in S
  BY <1>2 DEF IsHalving
<1>4. ASSUME NEW k \in Nat, k \in S PROVE k + 1 \in S
  <2>1. ASSUME k + 1 <= n PROVE f[k + 1] \in Nat
    <3>1. k + 1 \in 0..n /\ k + 1 # 0 /\ (k + 1) - 1 = k /\ f[k] \in Nat
      BY <1>4, <2>1
    <3>2. f[k + 1] = Round(f[(k + 1) - 1])
      BY <1>2, <3>1 DEF IsHalving
    <3> QED
      BY <3>1, <3>2, RoundFacts
  <2> QED
    BY <2>1
<1>5. Nat \subseteq S
  <2> HIDE DEF S
  <2> QED
    BY <1>3, <1>4, NumbersInduction
<1> QED
  BY <1>1, <1>5

\* The states the loop AGAIN comes to.
LEMMA RechunkedFacts ==
    ASSUME NEW s \in Searches, ~s.start, NEW i \in 0..s.chunk
    PROVE  /\ Rechunked(s, i) \in Searches
           /\ ~Rechunked(s, i).start
           /\ Rechunked(s, i).instances = s.instances
           /\ i = 0 => Rechunked(s, i) = s
           /\ i # 0 => Rechunked(s, i).index = 1
<1>1. Halvings(s.chunk)[i] \in Nat
  BY HalvingsAreNumbers DEF Searches
<1> QED
  BY <1>1 DEF Rechunked, Searches

\* What run_clang_delta makes of an exit code.
LEMMA CodeFacts ==
    ASSUME NEW e
    PROVE  /\ RunClangDelta(e) \in {0, -1, -2, -3}
           /\ RunClangDelta(e) = 0 <=> e = Fine
<1>1. CASE e = Fine
  BY <1>1 DEF RunClangDelta, Fine, Failed, ErrorInvalidCounter
<1>2. CASE e = Failed
  BY <1>2 DEF RunClangDelta, Fine, Failed, ErrorInvalidCounter
<1>3. CASE e = ErrorInvalidCounter
  BY <1>3 DEF RunClangDelta, Fine, Failed, ErrorInvalidCounter
<1>4. CASE e \notin {Fine, Failed, ErrorInvalidCounter}
  BY <1>4 DEF RunClangDelta, Fine
<1> QED
  BY <1>1, <1>2, <1>3, <1>4

\* The answers of pass_clang: the call for the present counter.
LEMMA SingleAnswers ==
    ASSUME NEW calls, NEW p, NEW s, NEW r \in TransformClang(calls, p, s)
    PROVE  /\ r.state = s
           /\ \E q \in calls[Single(s.index)] :
                 /\ r.code = "OK" => r.file = q.out /\ q.exit = Fine
                 /\ r.code = "STOP" => RunClangDelta(q.exit) \in {-1, -2}
<1>1. PICK q \in calls[Single(s.index)] :
           r = CASE RunClangDelta(q.exit) = 0 -> Result3("OK", q.out, s)
                 [] RunClangDelta(q.exit) = -3 -> Result3("ERROR", p, s)
                 [] RunClangDelta(q.exit) \in {-1, -2} -> Result3("STOP", p, s)
  BY DEF TransformClang
<1>2. CASE RunClangDelta(q.exit) = 0
  BY <1>1, <1>2, CodeFacts DEF Result3
<1>3. CASE RunClangDelta(q.exit) = -3
  BY <1>1, <1>3 DEF Result3
<1>4. CASE RunClangDelta(q.exit) \in {-1, -2}
  BY <1>1, <1>4 DEF Result3
<1> QED
  BY <1>2, <1>3, <1>4, CodeFacts

\* The answers of the loop AGAIN: the call for one of the states it comes to,
\* or that its chunk is small and there is nothing to call for.
LEMMA AgainAnswers ==
    ASSUME NEW calls, NEW p, NEW s, NEW r \in Again(calls, p, s)
    PROVE  \E i \in 0..s.chunk :
              /\ r.state = Rechunked(s, i)
              /\ r.code = "OK" => \E q \in Called(calls, Rechunked(s, i)) :
                                     r.file = q.out /\ RunClangDelta(q.exit) \in {0, -1}
              /\ r.code = "STOP" => Rechunked(s, i).chunk < SmallestChunk /\ Rechunks(calls, Rechunked(s, i))
<1>1. PICK i \in 0..s.chunk : r \in AnswersAt(calls, p, Rechunked(s, i))
  BY DEF Again, Reached
<1> DEFINE t == Rechunked(s, i)
<1>2. CASE \E q \in Called(calls, t) : RunClangDelta(q.exit) \in {0, -1} /\ r = Result3("OK", q.out, t)
  <2>1. PICK q \in Called(calls, t) : RunClangDelta(q.exit) \in {0, -1} /\ r = Result3("OK", q.out, t)
    BY <1>2
  <2>2. r.state = t /\ r.code = "OK" /\ r.file = q.out
    BY <2>1 DEF Result3
  <2> QED
    BY <2>1, <2>2
<1>3. CASE r = Result3("ERROR", p, t)
  <2>1. r.state = t /\ r.code = "ERROR"
    BY <1>3 DEF Result3
  <2> QED
    BY <2>1
<1>4. CASE r = Result3("STOP", p, t) /\ t.chunk < SmallestChunk /\ Rechunks(calls, t)
  <2>1. r.state = t /\ r.code = "STOP"
    BY <1>4 DEF Result3
  <2> QED
    BY <1>4, <2>1
<1> HIDE DEF t
<1> QED
  BY <1>1, <1>2, <1>3, <1>4 DEF AnswersAt, t

\* Where ranges work, the loop goes on or stops only behind the last instance.
LEMMA RechunksBehind ==
    ASSUME NEW calls, RangesWork(calls), NEW t \in Searches, AtWork(t, calls)
    PROVE  /\ Rechunks(calls, t) => t.index > t.instances
           /\ \A q \in Called(calls, t) : RunClangDelta(q.exit) \in {0, -3}
<1> DEFINE n == CountInstances(calls)
<1>1. n \in Nat /\ t.instances = n /\ t.index \in Nat /\ t.index >= 1 /\ t.chunk \in Nat
  BY CountsAreNumbers DEF Searches, AtWork
<1>2. ASSUME t.index <= n, NEW q \in calls[<<t.index, Upto(t)>>] PROVE RunClangDelta(q.exit) \in {0, -3}
  <2>1. t.index \in 1..n /\ Upto(t) \in t.index..n
    BY <1>1, <1>2 DEF Upto
  <2> QED
    BY <1>2, <2>1 DEF RangesWork
<1>3. \A q \in Called(calls, t) : RunClangDelta(q.exit) \in {0, -3}
  BY <1>1, <1>2 DEF Called
<1> QED
  BY <1>1, <1>3 DEF Rechunks

-----------------------------------------------------------------------------
(* The steps *)

LEMMA InitPass == Init => PassInv
<1> SUFFICES ASSUME Init PROVE PassInv
  OBVIOUS
<1>1. state = New(tool) /\ resumed = state /\ phase = "try"
  BY DEF Init
<1>2. SinglesInv
  BY <1>1 DEF SinglesInv, IsSingle, Indexes, New, NewClang
<1>3. RangesInv
  BY <1>1 DEF RangesInv, IsSingle, Searches, New, NewBinsrch
<1> QED
  BY <1>2, <1>3 DEF PassInv

\* The steps of the loop, by pass.
Searched == IF state.start THEN Counted(CountInstances(Calls)) ELSE state
LEMMA LoopSteps ==
    ASSUME Next
    PROVE  \E r \in IF IsSingle THEN TransformClang(Calls, file, state) ELSE Again(Calls, file, Searched) :
              phase = "try" /\ (Reject(r) \/ Accept(r) \/ End(r))
BY DEF Next, Answers, Transform, TransformBinsrch, Searched, Calls, IsSingle

\* The tool stays, and a step that keeps the file keeps its calls.
LEMMA CallsKept ==
    ASSUME UNCHANGED <<tool, file>>, refused \subseteq refused'
    PROVE  /\ Calls' = Calls /\ IsSingle' = IsSingle
           /\ \A call : Tried(call) => Tried(call)'
           /\ \A k, c : InRange(k, c) => InRange(k, c)'
<1>1. Calls' = Calls /\ IsSingle' = IsSingle
  BY DEF Calls, IsSingle
<1>2. ASSUME NEW call, Tried(call) PROVE Tried(call)'
  BY <1>2 DEF Tried
<1> QED
  BY <1>1, <1>2 DEF InRange

LEMMA SinglesStep ==
    ASSUME SinglesInv, IsSingle, NEW r \in TransformClang(Calls, file, state), phase = "try",
           Reject(r) \/ Accept(r) \/ End(r)
    PROVE  SinglesInv' /\ IsSingle'
<1>1. /\ state \in Indexes /\ resumed \in Indexes /\ resumed.index <= state.index
      /\ \A k \in resumed.index..(state.index - 1) : Tried(Calls[Single(k)])
  BY DEF SinglesInv
<1>2. r.state = state
  BY SingleAnswers
<1>3. PICK q \in Calls[Single(state.index)] :
           /\ r.code = "OK" => r.file = q.out /\ q.exit = Fine
           /\ r.code = "STOP" => RunClangDelta(q.exit) \in {-1, -2}
  BY SingleAnswers
<1>4. IsSingle'
  BY DEF Reject, Accept, End, IsSingle
<1>5. CASE Reject(r)
  <2>1. /\ UNCHANGED <<tool, file, phase, resumed>> /\ refused' = refused \cup {r.file} /\ r.code = "OK"
        /\ state' = AdvanceClang(state)
    BY <1>2, <1>5 DEF Reject, IsVariant, Advance, IsSingle
  <2>2. state' \in Indexes /\ state'.index = state.index + 1
    BY <1>1, <2>1 DEF Indexes, AdvanceClang
  <2>3. PICK calls, n : calls = Calls /\ n = state.index
    OBVIOUS
  <2>4. calls' = calls /\ Calls' = calls
    BY <2>1, <2>3, CallsKept
  <2>5. Tried(calls[Single(n)])'
    BY <1>3, <2>1, <2>3 DEF Tried
  <2>6. ASSUME NEW k \in resumed.index..n PROVE Tried(calls[Single(k)])'
    <3>1. k \in resumed.index..(n - 1) \/ k = n
      BY <1>1, <2>3 DEF Indexes
    <3>2. CASE k = n
      BY <2>5, <3>2
    <3>3. CASE k \in resumed.index..(n - 1)
      <4>1. Tried(calls[Single(k)])
        BY <1>1, <2>3, <3>3
      <4> QED
        BY <2>1, <4>1, CallsKept
    <3> QED
      BY <3>1, <3>2, <3>3
  <2>7. (state.index - 1)' = n /\ resumed.index' = resumed.index
    BY <1>1, <2>1, <2>2, <2>3 DEF Indexes
  <2>8. \A k \in (resumed.index..(state.index - 1))' : Tried(calls[Single(k)])'
    BY <2>6, <2>7
  <2>9. (\A k \in resumed.index..(state.index - 1) : Tried(Calls[Single(k)]))'
    BY <2>4, <2>8
  <2> QED
    BY <1>1, <1>4, <2>1, <2>2, <2>9 DEF SinglesInv, Indexes
<1>6. CASE Accept(r)
  <2>1. state' = state /\ resumed' = state /\ phase' = "try"
    BY <1>2, <1>6 DEF Accept
  <2> QED
    BY <1>1, <1>4, <2>1 DEF SinglesInv, Indexes
<1>7. CASE End(r)
  <2>1. UNCHANGED <<tool, file, state, resumed, refused>>
    BY <1>7 DEF End
  <2>2. phase' = "stop" => r.code = "STOP"
    BY <1>7 DEF End
  <2>3. phase' = "stop" => Refuses(Calls[Single(state.index)])'
    BY <1>3, <2>1, <2>2, CallsKept DEF Refuses
  <2>4. \A k \in resumed.index..(state.index - 1) : Tried(Calls[Single(k)])'
    BY <1>1, <2>1, CallsKept
  <2> QED
    BY <1>1, <1>4, <2>1, <2>3, <2>4 DEF SinglesInv
<1> QED
  BY <1>5, <1>6, <1>7

\* What AGAIN begins with.
LEMMA SearchedFacts ==
    ASSUME RangesInv, ~IsSingle
    PROVE  /\ Searched \in Searches /\ ~Searched.start
           /\ resumed.start /\ RangesWork(Calls) =>
                 /\ AtWork(Searched, Calls)
                 /\ \A k \in 1..(Searched.index - 1) : k <= Searched.instances => InRange(k, Searched.chunk)
<1>1. state \in Searches
  BY DEF RangesInv
<1>2. CASE state.start
  <2>1. Searched = [start |-> FALSE, index |-> 1, chunk |-> CountInstances(Calls), instances |-> CountInstances(Calls)]
    BY <1>2 DEF Searched, Counted
  <2>2. CountInstances(Calls) \in Nat
    BY CountsAreNumbers
  <2> QED
    BY <2>1, <2>2 DEF Searches, AtWork
<1>3. CASE ~state.start
  BY <1>1, <1>3 DEF Searched, RangesInv
<1> QED
  BY <1>2, <1>3

\* A refused range covers the instances from its index to the next one.
LEMMA RangeRefused ==
    ASSUME RangesInv, ~IsSingle, resumed.start, RangesWork(Calls),
           NEW calls, calls = Calls, Calls' = calls,
           NEW t \in Searches, AtWork(t, calls),
           NEW q \in Called(calls, t), RunClangDelta(q.exit) \in {0, -1}, q.out \in refused',
           NEW k \in t.index..(t.index + t.chunk - 1), k <= t.instances
    PROVE  InRange(k, t.chunk)'
<1>1. t.index \in Nat /\ t.index >= 1 /\ t.chunk \in Nat /\ t.instances \in Nat
  BY DEF Searches, AtWork
<1>2. t.index <= t.instances /\ q \in calls[<<t.index, Upto(t)>>]
  BY DEF Called
<1>3. q.exit = Fine
  BY RechunksBehind, CodeFacts
<1>4. t.index \in 1..k /\ Upto(t) \in k..(t.index + t.chunk)
  BY <1>1, <1>2 DEF Upto
<1>5. PICK a, b : a = t.index /\ b = Upto(t)
  OBVIOUS
<1>6. Tried(calls[<<a, b>>])'
  BY <1>2, <1>3, <1>5 DEF Tried
<1> QED
  BY <1>4, <1>5, <1>6 DEF InRange

LEMMA RangesStep ==
    ASSUME RangesInv, ~IsSingle, NEW r \in Again(Calls, file, Searched), phase = "try",
           Reject(r) \/ Accept(r) \/ End(r)
    PROVE  RangesInv' /\ ~IsSingle'
<1>1. state \in Searches /\ resumed \in Searches
  BY DEF RangesInv
<1>2. PICK calls, s : calls = Calls /\ s = Searched
  OBVIOUS
<1>3. s \in Searches /\ ~s.start
  BY <1>2, SearchedFacts
<1>4. PICK i \in 0..s.chunk :
           /\ r.state = Rechunked(s, i)
           /\ r.code = "OK" => \E q \in Called(calls, Rechunked(s, i)) :
                                  r.file = q.out /\ RunClangDelta(q.exit) \in {0, -1}
           /\ r.code = "STOP" => Rechunked(s, i).chunk < SmallestChunk /\ Rechunks(calls, Rechunked(s, i))
  BY <1>2, AgainAnswers
<1>5. PICK t : t = Rechunked(s, i)
  OBVIOUS
<1>6. /\ t \in Searches /\ ~t.start /\ t.instances = s.instances
      /\ i = 0 => t = s
      /\ i # 0 => t.index = 1
  BY <1>3, <1>5, RechunkedFacts
<1>7. ~IsSingle'
  BY DEF Reject, Accept, End, IsSingle
<1>8. ASSUME resumed.start, RangesWork(calls)
      PROVE  /\ AtWork(t, calls)
             /\ \A k \in 1..(t.index - 1) : k <= t.instances => InRange(k, t.chunk)
  <2>1. /\ AtWork(s, calls)
        /\ \A k \in 1..(s.index - 1) : k <= s.instances => InRange(k, s.chunk)
    BY <1>2, <1>8, SearchedFacts
  <2>2. CASE i = 0
    BY <1>6, <2>1, <2>2
  <2>3. CASE i # 0
    BY <1>6, <2>1, <2>3 DEF AtWork
  <2> QED
    BY <2>2, <2>3
<1>9. CASE Reject(r)
  <2>1. /\ UNCHANGED <<tool, file, phase, resumed>> /\ refused' = refused \cup {r.file} /\ r.code = "OK"
        /\ state' = AdvanceBinsrch(t)
    BY <1>4, <1>5, <1>9 DEF Reject, IsVariant, Advance, IsSingle
  <2>2. /\ state' \in Searches /\ ~state'.start /\ state'.instances = t.instances
        /\ state'.chunk = t.chunk /\ state'.index = t.index + t.chunk
    BY <1>6, <2>1 DEF AdvanceBinsrch, Searches
  <2>3. calls' = calls /\ Calls' = calls
    BY <1>2, <2>1, CallsKept
  <2>4. ASSUME resumed.start, RangesWork(calls)
        PROVE  /\ AtWork(state', calls)
               /\ \A k \in 1..(state'.index - 1) : k <= state'.instances => InRange(k, t.chunk)'
    <3>1. AtWork(state', calls)
      BY <1>6, <1>8, <2>2, <2>4 DEF AtWork, Searches
    <3>2. ASSUME NEW k \in 1..(t.index + t.chunk - 1), k <= t.instances PROVE InRange(k, t.chunk)'
      <4>1. k \in 1..(t.index - 1) \/ k \in t.index..(t.index + t.chunk - 1)
        BY <1>6 DEF Searches
      <4>2. CASE k \in 1..(t.index - 1)
        <5>1. InRange(k, t.chunk)
          BY <1>8, <2>4, <3>2, <4>2
        <5> QED
          BY <2>1, <5>1, CallsKept
      <4>3. CASE k \in t.index..(t.index + t.chunk - 1)
        <5>1. PICK q \in Called(calls, t) : r.file = q.out /\ RunClangDelta(q.exit) \in {0, -1}
          BY <1>4, <1>5, <2>1
        <5>2. q.out \in refused'
          BY <2>1, <5>1
        <5>3. AtWork(t, calls)
          BY <1>8, <2>4
        <5> QED
          BY <1>2, <1>6, <2>3, <2>4, <3>2, <4>3, <5>1, <5>2, <5>3, RangeRefused
      <4> QED
        BY <4>1, <4>2, <4>3
    <3>3. state'.index - 1 = t.index + t.chunk - 1 /\ state'.instances = t.instances
      BY <1>6, <2>2 DEF Searches
    <3>4. \A k \in 1..(t.index + t.chunk - 1) : k <= t.instances => InRange(k, t.chunk)'
      BY <3>2
    <3> QED
      BY <3>1, <3>3, <3>4
  <2>5. (resumed.start /\ RangesWork(Calls) /\ ~state.start =>
            /\ AtWork(state, Calls)
            /\ \A k \in 1..(state.index - 1) : k <= state.instances => InRange(k, state.chunk))'
    BY <2>1, <2>2, <2>3, <2>4
  <2>6. phase' = "try"
    BY <2>1
  <2> QED
    BY <1>1, <1>7, <2>1, <2>2, <2>5, <2>6 DEF RangesInv
<1>10. CASE Accept(r)
  <2>1. state' = t /\ resumed' = t
    BY <1>4, <1>5, <1>10 DEF Accept
  <2> QED
    BY <1>6, <1>7, <2>1 DEF RangesInv
<1>11. CASE End(r)
  <2>1. UNCHANGED <<tool, file, state, resumed, refused>>
    BY <1>11 DEF End
  <2>2. calls' = calls /\ Calls' = calls
    BY <1>2, <2>1, CallsKept
  <2>3. ASSUME phase' = "stop", resumed.start, RangesWork(calls)
        PROVE  Covered(CountInstances(calls), SmallestChunk - 1)
    <3>1. t.chunk < SmallestChunk /\ Rechunks(calls, t)
      BY <1>4, <1>5, <1>11, <2>3 DEF End
    <3>2. AtWork(t, calls) /\ t.index > t.instances
      BY <1>6, <1>8, <2>3, <3>1, RechunksBehind
    <3>3. ASSUME NEW k \in 1..CountInstances(calls) PROVE InRange(k, SmallestChunk - 1)
      <4>1. k \in 1..(t.index - 1) /\ k <= t.instances
        BY <1>6, <3>2 DEF AtWork, Searches
      <4>2. InRange(k, t.chunk)
        BY <1>8, <2>3, <4>1
      <4>3. PICK a \in 1..k : \E b \in k..(a + t.chunk) : Tried(Calls[<<a, b>>])
        BY <4>2 DEF InRange
      <4>4. \A b \in k..(a + t.chunk) : b \in k..(a + (SmallestChunk - 1))
        BY <1>6, <3>1, SmallestChunkAssumption DEF Searches
      <4> QED
        BY <4>3, <4>4 DEF InRange
    <3> QED
      BY <3>3 DEF Covered
  <2>4. (resumed.start /\ RangesWork(Calls) /\ phase = "stop" => Covered(CountInstances(Calls), SmallestChunk - 1))'
    BY <2>1, <2>2, <2>3, CallsKept DEF Covered
  <2>5. (resumed.start /\ RangesWork(Calls) /\ ~state.start =>
            /\ AtWork(state, Calls)
            /\ \A k \in 1..(state.index - 1) : k <= state.instances => InRange(k, state.chunk))'
    BY <2>1, <2>2, <1>2, CallsKept DEF RangesInv
  <2> QED
    BY <1>1, <1>7, <2>1, <2>4, <2>5 DEF RangesInv
<1> QED
  BY <1>9, <1>10, <1>11

LEMMA NextPass == PassInv /\ [Next]_loopVars => PassInv'
<1>1. ASSUME PassInv, Next PROVE PassInv'
  <2>1. CASE IsSingle
    <3>1. SinglesInv' /\ IsSingle'
      BY <1>1, <2>1, LoopSteps, SinglesStep DEF PassInv
    <3> QED
      BY <3>1 DEF PassInv, RangesInv
  <2>2. CASE ~IsSingle
    <3>1. RangesInv' /\ ~IsSingle'
      BY <1>1, <2>2, LoopSteps, RangesStep DEF PassInv
    <3> QED
      BY <3>1 DEF PassInv, SinglesInv
  <2> QED
    BY <2>1, <2>2
<1>2. ASSUME PassInv, UNCHANGED loopVars PROVE PassInv'
  <2>1. UNCHANGED <<tool, file, state, phase, resumed, refused>>
    BY <1>2 DEF loopVars
  <2>2. SinglesInv'
    BY <1>2, <2>1, CallsKept DEF PassInv, SinglesInv
  <2>3. RangesInv'
    BY <1>2, <2>1, CallsKept DEF PassInv, RangesInv, Covered
  <2> QED
    BY <2>2, <2>3 DEF PassInv
<1> QED
  BY <1>1, <1>2

THEOREM PassInvariance == Spec => []PassInv
BY InitPass, NextPass, PTL DEF Spec

-----------------------------------------------------------------------------
(***************************************************************************)
(* When pass_clang stops, every instance from the one it resumed at has    *)
(* been tried on the file as it is, unless clang_delta refuses a counter   *)
(* below; when pass_clang_binsrch stops without an acceptance, every       *)
(* instance has been in a range of no more than SmallestChunk that was     *)
(* tried: for every clang_delta, every set of files and every test.        *)
(***************************************************************************)
THEOREM EveryInstanceIsTried == Spec => []EveryInstanceTried
<1>1. PassInv => EveryInstanceTried
  <2> SUFFICES ASSUME PassInv, phase = "stop" PROVE EveryInstanceTried
    BY DEF EveryInstanceTried
  <2>1. CASE IsSingle
    <3>1. /\ state.index \in Nat \ {0} /\ resumed.index \in Nat \ {0} /\ resumed.index <= state.index
          /\ \A k \in resumed.index..(state.index - 1) : Tried(Calls[Single(k)])
          /\ Refuses(Calls[Single(state.index)])
      BY <2>1 DEF PassInv, SinglesInv, Indexes
    <3>2. ASSUME NEW k \in resumed.index..MaxInstances
          PROVE  Tried(Calls[Single(k)]) \/ \E l \in 1..k : Refuses(Calls[Single(l)])
      <4>1. k \in resumed.index..(state.index - 1) \/ state.index \in 1..k
        BY <3>1, MaxInstancesAssumption
      <4> QED
        BY <3>1, <4>1
    <3>3. SinglesTried(Calls, resumed.index)
      BY <3>2 DEF SinglesTried
    <3> QED
      BY <2>1, <3>3 DEF EveryInstanceTried, Calls, IsSingle
  <2>2. CASE ~IsSingle
    <3>1. ASSUME resumed.start, RangesWork(Calls) PROVE SmallRangesTried(Calls)
      <4>1. Covered(CountInstances(Calls), SmallestChunk - 1)
        BY <2>2, <3>1 DEF PassInv, RangesInv
      <4>2. CountInstances(Calls) \in Nat
        BY CountsAreNumbers
      <4>3. ASSUME NEW k \in 1..MaxInstances, Works(Calls[Single(k)])
            PROVE  \E a \in 1..k : \E b \in k..(a + SmallestChunk - 1) : Tried(Calls[<<a, b>>])
        <5>1. k \in 1..CountInstances(Calls)
          BY <3>1, <4>2, <4>3, MaxInstancesAssumption DEF RangesWork
        <5>2. PICK a \in 1..k : \E b \in k..(a + (SmallestChunk - 1)) : Tried(Calls[<<a, b>>])
          BY <4>1, <5>1 DEF Covered, InRange
        <5>3. a + (SmallestChunk - 1) = a + SmallestChunk - 1
          BY SmallestChunkAssumption
        <5> QED
          BY <5>2, <5>3
      <4> QED
        BY <4>3 DEF SmallRangesTried
    <3> QED
      BY <2>2, <3>1 DEF EveryInstanceTried, Calls, IsSingle
  <2> QED
    BY <2>1, <2>2
<1> QED
  BY <1>1, PassInvariance, PTL
=============================================================================
