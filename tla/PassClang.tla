------------------------------ MODULE PassClang ------------------------------
(***************************************************************************)
(* creduce/pass_clang.pm and creduce/pass_clang_binsrch.pm, the passes     *)
(* that run clang_delta: one instance after the other, or ranges of them   *)
(* that are halved until they are small.  What clang_delta makes of a file *)
(* is given by a constant.                                                 *)
(***************************************************************************)
EXTENDS ClangCalls

CONSTANTS
    Tools,               \* the passes and their arguments that are tried
    Starts(_),           \* the files a pass may begin with
    Fits(_, _),          \* the bound on the files it may grow to
    ClangDelta(_, _),    \* what each call for a transformation may result in, on a file
    SmallestChunk,       \* a chunk smaller than this is not halved: 10
    MaxInstances         \* bound: the counters that are looked at

ASSUME SmallestChunkAssumption == SmallestChunk \in Nat \ {0, 1}
ASSUME MaxInstancesAssumption == MaxInstances \in Nat

VARIABLES tool, file, state, phase, resumed, refused

Result3(code, f, s) == [code |-> code, file |-> f, state |-> s]
\* run_clang_delta: 0, no instance (-2), nothing to do (-1) or a crash (-3).
RunClangDelta(exit) ==
    CASE exit = 0 -> 0
      [] exit = Failed -> -1
      [] exit = ErrorInvalidCounter -> -2
      [] exit \notin {0, Failed, ErrorInvalidCounter} -> -3

-----------------------------------------------------------------------------
(* pass_clang *)

NewClang == [index |-> 1]
FaultyAdvanceClang(s) == s
FaultySkippingAdvance(s) == [s EXCEPT !.index = @ + 2]
AdvanceClang(s) == [s EXCEPT !.index = @ + 1]
TransformClang(calls, p, s) ==
    LET Answer(r) == CASE RunClangDelta(r.exit) = 0 -> Result3("OK", r.out, s)
                       [] RunClangDelta(r.exit) = -3 -> Result3("ERROR", p, s)
                       [] RunClangDelta(r.exit) \in {-1, -2} -> Result3("STOP", p, s)
    IN  {Answer(r) : r \in calls[Single(s.index)]}

-----------------------------------------------------------------------------
(* pass_clang_binsrch *)

NewBinsrch == [start |-> TRUE, index |-> 0, chunk |-> 0, instances |-> 0]
AdvanceBinsrch(s) == IF s.start THEN s ELSE [s EXCEPT !.index = @ + s.chunk]
Round(n) == (n + 1) \div 2      \* round of half of n

\* count_instances: the number that is printed, if one is.
CountInstances(calls) ==
    LET printed == {r.count : r \in calls[Query]} \cap Nat
    IN  IF printed = {} THEN 0 ELSE CHOOSE n \in printed : TRUE
Counted(n) == [start |-> FALSE, index |-> 1, chunk |-> n, instances |-> n]

\* The results of the call for a state, unless its index is behind the instances.
Upto(s) == IF s.index + s.chunk > s.instances THEN s.instances ELSE s.index + s.chunk
Called(calls, s) == IF s.index <= s.instances THEN calls[<<s.index, Upto(s)>>] ELSE {}
\* It is left for rechunk.
Rechunks(calls, s) ==
    s.index > s.instances \/ \E r \in Called(calls, s) : RunClangDelta(r.exit) = -2

\* The states the loop AGAIN comes to, one by one: the chunk is halved and the
\* search begins anew.
Halvings(chunk) ==
    LET halved[i \in 0..chunk] == IF i = 0 THEN chunk ELSE Round(halved[i - 1])
    IN  halved
Rechunked(s, i) == IF i = 0 THEN s ELSE [s EXCEPT !.chunk = Halvings(s.chunk)[i], !.index = 1]
Reached(calls, s) ==
    {i \in 0..s.chunk : \A j \in 0..(i - 1) :
        Rechunked(s, j).chunk >= SmallestChunk /\ Rechunks(calls, Rechunked(s, j))}
\* What it answers there.
AnswersAt(calls, p, s) ==
    {Result3("OK", r.out, s) : r \in {r \in Called(calls, s) : RunClangDelta(r.exit) \in {0, -1}}}
    \cup {Result3("ERROR", p, s) : r \in {r \in Called(calls, s) : RunClangDelta(r.exit) = -3}}
    \cup {Result3("STOP", p, s) : n \in {n \in {s.chunk} : n < SmallestChunk /\ Rechunks(calls, s)}}
Again(calls, p, s) == UNION {AnswersAt(calls, p, Rechunked(s, i)) : i \in Reached(calls, s)}

TransformBinsrch(calls, p, s) == Again(calls, p, IF s.start THEN Counted(CountInstances(calls)) ELSE s)

-----------------------------------------------------------------------------
(* The passes, for PassLoop: a tool is a pass and its argument *)

Tool(pass, arg) == [pass |-> pass, arg |-> arg]
New(t) == IF t.pass = "pass_clang" THEN NewClang ELSE NewBinsrch
Advance(t, s) == IF t.pass = "pass_clang" THEN AdvanceClang(s) ELSE AdvanceBinsrch(s)
Transform(t, p, s) ==
    UNION {IF t.pass = "pass_clang" THEN TransformClang(calls, p, s) ELSE TransformBinsrch(calls, p, s) :
              calls \in {ClangDelta(t.arg, p)}}
INSTANCE PassLoop

-----------------------------------------------------------------------------
(* What the passes rely on *)

Works(call) == \E r \in call : r.exit = Fine
Refuses(call) == \E r \in call : RunClangDelta(r.exit) \in {-1, -2}
\* No counter above the number of instances works, and every range up to it does.
RangesWork(calls) ==
    /\ \A k \in 1..MaxInstances : Works(calls[Single(k)]) => k <= CountInstances(calls)
    /\ \A a \in 1..CountInstances(calls) : \A b \in a..CountInstances(calls) :
          \A r \in calls[<<a, b>>] : RunClangDelta(r.exit) \in {0, -3}

\* A variant of this call has been refused by the test.
Tried(call) == \E r \in call : r.exit = Fine /\ r.out \in refused
SinglesTried(calls, from) ==
    \A k \in from..MaxInstances : \A call \in {calls[Single(k)]} :
        Works(call) => Tried(call) \/ \E l \in 1..k : Refuses(calls[Single(l)])
SmallRangesTried(calls) ==
    \A k \in 1..MaxInstances : Works(calls[Single(k)]) =>
        \E a \in 1..k : \E b \in k..(a + SmallestChunk - 1) : Tried(calls[<<a, b>>])

(***************************************************************************)
(* A pass that stops has tried everything: pass_clang every instance from  *)
(* the one it resumed at, in the file as it is now, unless clang_delta     *)
(* refuses a counter below; pass_clang_binsrch each instance in a range of *)
(* no more than SmallestChunk, if no variant has been accepted.  (After an *)
(* acceptance it goes on with the old count.)                              *)
(***************************************************************************)
EveryInstanceTried ==
    phase = "stop" =>
        \A calls \in {ClangDelta(tool.arg, file)} :
            IF tool.pass = "pass_clang" THEN SinglesTried(calls, resumed.index)
            ELSE resumed.start /\ RangesWork(calls) => SmallRangesTried(calls)
=============================================================================
