------------------------- MODULE PassUnifdefProofs -------------------------
(***************************************************************************)
(* What pass_unifdef promises, for every unifdef, every set of files and   *)
(* every test: nothing is assumed of the constants but that the symbols    *)
(* are numbered.  And what unifdef does to each of the files.              *)
(*                                                                         *)
(* The argument: the options below the number of the pass have been tried  *)
(* on the file as it is (TriedBelow), because a refusal moves the number   *)
(* behind the option that made the variant, and the options the loop AGAIN *)
(* passes on its way have left $tmpfile as the file is: the first of them  *)
(* in a file of its own, or over the copy that -k left, the others over    *)
(* the copy the one before left (TransformAnswers).  At the end the loop   *)
(* has passed all the others (NoneLeft).                                   *)
(***************************************************************************)
EXTENDS UnifdefFiles, UnifdefLemmas, FiniteSetTheorems, TLAPS

Passed(i) == LeavesAlone(i, FALSE) \/ (CopyThere(i) /\ LeavesAlone(i, TRUE))
Tried(i) == RefusedWith(i) \/ Passed(i)
TriedBelow ==
    \A i \in 0..(state - 1) :
        i < NumOptions(file) /\ i >= resumed /\ ~(i = 0 /\ PassedOver) => Tried(i)
NoneLeft ==
    phase = "stop" => \A i \in 0..(NumOptions(file) - 1) : i >= state => Passed(i)

PassInv ==
    /\ state \in Int /\ resumed \in Int /\ -1 <= resumed /\ resumed <= state
    /\ TriedBelow
    /\ NoneLeft

(***************************************************************************)
(* A refused variant moves the number on, and an accepted one does not     *)
(* move it back: as the number never exceeds the options of the file by    *)
(* more than one, the refusals between two acceptances are bounded.        *)
(***************************************************************************)
NumberMovesOn ==
    [][phase' = "try" => IF file' = file THEN state' > state /\ state' <= NumOptions(file) + 1
                         ELSE state' >= state]_loopVars

-----------------------------------------------------------------------------
(* The loop AGAIN and transform *)

\* The options of a file can be counted.
LEMMA OptionsAreCounted == ASSUME NEW f PROVE NumOptions(f) \in Nat
<1>1. Deflist(f) \subseteq 1..NumSymbols
  BY DEF Deflist
<1>2. IsFiniteSet(1..NumSymbols)
  BY NumSymbolsAssumption, FS_Interval
<1>3. Cardinality(Deflist(f)) \in Nat
  BY <1>1, <1>2, FS_Subset, FS_CardinalityType
<1> QED
  BY <1>3 DEF NumOptions

\* What AGAIN answers: the variant of the first option that changes the file,
\* or that there is none.
LEMMA AgainAnswers ==
    ASSUME NEW f, NEW index \in Nat, NEW there \in BOOLEAN, NEW r \in Again(f, index, there)
    PROVE  /\ r.state \in Nat /\ index <= r.state
           /\ \A i \in index..(r.state - 1) : f \in Variants(f, i, there \/ i > index)
           /\ r.code \in {"OK", "STOP"}
           /\ r.code = "OK" => /\ r.state < NumOptions(f) /\ r.file # f
                               /\ r.file \in Variants(f, r.state, there \/ r.state > index)
           /\ r.code = "STOP" => r.state >= NumOptions(f)
<1>1. NumOptions(f) \in Nat
  BY OptionsAreCounted
<1>2. PICK i \in {index} \cup ((index + 1)..NumOptions(f)) :
           /\ Passes(f, index, i, there)
           /\ r \in IF i < NumOptions(f)
                    THEN {Result("OK", g, i) : g \in Variants(f, i, there \/ i > index) \ {f}}
                    ELSE {Result("STOP", f, i)}
  BY DEF Again
<1>3. i \in Nat /\ index <= i
  BY <1>1, <1>2
<1>4. \A k \in index..(i - 1) : f \in Variants(f, k, there \/ k > index)
  BY <1>2 DEF Passes
<1>5. CASE i < NumOptions(f)
  <2>1. PICK g \in Variants(f, i, there \/ i > index) \ {f} : r = Result("OK", g, i)
    BY <1>2, <1>5
  <2>2. r.code = "OK" /\ r.file = g /\ r.state = i
    BY <2>1 DEF Result
  <2> QED
    BY <1>3, <1>4, <1>5, <2>1, <2>2
<1>6. CASE ~(i < NumOptions(f))
  <2>1. r.code = "STOP" /\ r.state = i
    BY <1>2, <1>6 DEF Result
  <2> QED
    BY <1>1, <1>3, <1>4, <1>6, <2>1
<1> QED
  BY <1>5, <1>6

\* The loop begins at the number of the pass with no $tmpfile, or at 0 with the
\* copy that -k left; so each option it passes has been passed rightly.
LEMMA LoopPasses ==
    ASSUME state \in Int, resumed \in Int, resumed <= state,
           NEW from \in Nat, NEW there \in BOOLEAN, state <= from,
           there => from = 0 /\ resumed = -1 /\ file \in KillConstants(file),
           NEW i \in Nat, from <= i,
           \A k \in from..i : file \in Variants(file, k, there \/ k > from)
    PROVE  Passed(i)
<1>1. file \in Variants(file, i, there \/ i > from)
  OBVIOUS
<1>2. CASE i = from /\ ~there
  <2>1. (there \/ i > from) = FALSE
    BY <1>2
  <2>2. file \in Variants(file, i, FALSE)
    BY <1>1, <2>1
  <2> QED
    BY <2>2 DEF Passed, LeavesAlone
<1>3. CASE i = from /\ there
  <2>1. (there \/ i > from) = TRUE
    BY <1>3
  <2>2. file \in Variants(file, i, TRUE)
    BY <1>1, <2>1
  <2>3. CopyThere(i)
    BY <1>3 DEF CopyThere
  <2> QED
    BY <2>2, <2>3 DEF Passed, LeavesAlone
<1>4. CASE i > from
  <2>1. (there \/ i > from) = TRUE
    BY <1>4
  <2>2. file \in Variants(file, i, TRUE)
    BY <1>1, <2>1
  <2>3. i - 1 \in from..i
    BY <1>4
  <2>4. LeavesAlone(i - 1, there \/ i - 1 > from)
    BY <2>3 DEF LeavesAlone
  <2>5. \E b \in BOOLEAN : LeavesAlone(i - 1, b)
    BY <2>4
  <2>6. CopyThere(i)
    BY <1>4, <2>5 DEF CopyThere
  <2> QED
    BY <2>2, <2>6 DEF Passed, LeavesAlone
<1> QED
  BY <1>2, <1>3, <1>4

\* What transform answers: the variant without constant conditions the first
\* time, else the variant of an option, having passed those before it.
OptionsAnswer(r) ==
    /\ r.state \in Nat /\ state <= r.state
    /\ \A i \in Nat : state <= i /\ i < r.state => Passed(i)
    /\ r.code \in {"OK", "STOP"}
    /\ r.code = "OK" => /\ r.state < NumOptions(file) /\ r.file # file
                        /\ \E there \in BOOLEAN : r.file \in Variants(file, r.state, there)
    /\ r.code = "STOP" => r.state >= NumOptions(file)
KillAnswer(r) ==
    state = -1 /\ r.code = "OK" /\ r.state = 0 /\ r.file # file /\ KillConstants(file) # {file}

LEMMA TransformAnswers ==
    ASSUME state \in Int, resumed \in Int, -1 <= resumed, resumed <= state,
           NEW r \in TransformUnifdef(file, state)
    PROVE  KillAnswer(r) \/ OptionsAnswer(r)
<1>1. ASSUME NEW from \in Nat, NEW there \in BOOLEAN, r \in Again(file, from, there),
             state <= from, state >= 0 => from = state, state < 0 => from = 0,
             there => from = 0 /\ resumed = -1 /\ file \in KillConstants(file)
      PROVE  OptionsAnswer(r)
  <2>1. /\ r.state \in Nat /\ from <= r.state
        /\ \A i \in from..(r.state - 1) : file \in Variants(file, i, there \/ i > from)
        /\ r.code \in {"OK", "STOP"}
        /\ r.code = "OK" => /\ r.state < NumOptions(file) /\ r.file # file
                            /\ r.file \in Variants(file, r.state, there \/ r.state > from)
        /\ r.code = "STOP" => r.state >= NumOptions(file)
    BY <1>1, AgainAnswers
  <2>2. ASSUME NEW i \in Nat, state <= i, i < r.state PROVE Passed(i)
    <3>1. from <= i
      BY <1>1, <2>2
    <3>2. \A k \in from..i : file \in Variants(file, k, there \/ k > from)
      BY <2>1, <2>2, <3>1
    <3> QED
      BY <1>1, <3>1, <3>2, LoopPasses
  <2>3. r.code = "OK" => \E b \in BOOLEAN : r.file \in Variants(file, r.state, b)
    <3>1. CASE there \/ r.state > from
      <4>1. (there \/ r.state > from) = TRUE
        BY <3>1
      <4> QED
        BY <2>1, <4>1
    <3>2. CASE ~(there \/ r.state > from)
      <4>1. (there \/ r.state > from) = FALSE
        BY <3>2
      <4> QED
        BY <2>1, <4>1
    <3> QED
      BY <3>1, <3>2
  <2> QED
    BY <1>1, <2>1, <2>2, <2>3 DEF OptionsAnswer
<1>2. CASE state >= 0
  <2>1. r \in Again(file, state, FALSE)
    BY <1>2 DEF TransformUnifdef
  <2>2. state \in Nat /\ state <= state /\ ~(state < 0) /\ FALSE \in BOOLEAN
    BY <1>2
  <2>3. OptionsAnswer(r)
    BY <1>1, <2>1, <2>2, Zenon
  <2> QED
    BY <2>3
<1>3. CASE state < 0
  <2>1. state = -1 /\ resumed = -1
    BY <1>3
  <2>2. CASE \E g \in KillConstants(file) \ {file} : r = Result("OK", g, 0)
    <3>1. PICK g \in KillConstants(file) \ {file} : r = Result("OK", g, 0)
      BY <2>2
    <3> QED
      BY <2>1, <3>1 DEF Result, KillAnswer
  <2>3. CASE file \in KillConstants(file) /\ r \in Again(file, 0, TRUE)
    <3>1. 0 \in Nat /\ state <= 0 /\ ~(state >= 0) /\ TRUE \in BOOLEAN
      BY <2>1
    <3>2. OptionsAnswer(r)
      BY <1>1, <2>1, <2>3, <3>1, Zenon
    <3> QED
      BY <3>2
  <2>4. ~(state >= 0)
    BY <1>3
  <2>5. r \in {Result("OK", g, 0) : g \in KillConstants(file) \ {file}}
             \cup UNION {Again(file, 0, TRUE) : g \in KillConstants(file) \cap {file}}
    BY <2>4, Zenon DEF TransformUnifdef
  <2>6. \/ \E g \in KillConstants(file) \ {file} : r = Result("OK", g, 0)
        \/ file \in KillConstants(file) /\ r \in Again(file, 0, TRUE)
    BY <2>5, Zenon
  <2> QED
    BY <2>2, <2>3, <2>6
<1> QED
  BY <1>2, <1>3

-----------------------------------------------------------------------------
(* The invariant *)

LEMMA InitPass == Init => PassInv
BY DEF Init, PassInv, TriedBelow, NoneLeft, NewOf, NewUnifdef

\* An accepted variant begins a new count.
LEMMA AcceptKeeps ==
    ASSUME PassInv, phase = "try", NEW r \in TransformUnifdef(file, state), Accept(r)
    PROVE  PassInv' /\ state' >= state /\ phase' = "try" /\ file' # file
<1>1. /\ state' = r.state /\ resumed' = r.state /\ phase' = "try" /\ file' # file
  BY DEF Accept, IsVariant
<1>2. r.state \in Nat /\ r.state >= state
  BY TransformAnswers DEF PassInv, KillAnswer, OptionsAnswer
<1>3. TriedBelow'
  BY <1>1, <1>2 DEF TriedBelow
<1>4. NoneLeft'
  BY <1>1 DEF NoneLeft
<1> QED
  BY <1>1, <1>2, <1>3, <1>4 DEF PassInv

\* A refused one has been tried, and what AGAIN passed has left the file alone.
LEMMA RejectKeeps ==
    ASSUME PassInv, phase = "try", NEW r \in TransformUnifdef(file, state), Reject(r)
    PROVE  /\ PassInv' /\ phase' = "try" /\ file' = file
           /\ state' > state /\ state' <= NumOptions(file) + 1
<1> DEFINE n == NumOptions(file)
<1>1. /\ state \in Int /\ resumed \in Int /\ -1 <= resumed /\ resumed <= state /\ TriedBelow /\ n \in Nat
  BY OptionsAreCounted DEF PassInv
<1>2. /\ file' = file /\ phase' = "try" /\ resumed' = resumed /\ refused \subseteq refused'
      /\ r.file \in refused' /\ state' = r.state + 1
  BY DEF Reject, AdvanceOf, AdvanceUnifdef
<1>3. /\ NumOptions(file)' = n /\ PassedOver' = PassedOver
      /\ \A i : \A there \in BOOLEAN : Variants(file, i, there)' = Variants(file, i, there)
  BY <1>2 DEF NumOptions, Deflist, PassedOver, Variants, Def
<1>4. ASSUME NEW i, Passed(i) PROVE Passed(i)'
  BY <1>2, <1>4 DEF Passed, CopyThere, LeavesAlone, Variants, Def, Deflist
<1>5. ASSUME NEW i, Tried(i) PROVE Tried(i)'
  <2>1. CASE RefusedWith(i)
    BY <1>2, <1>3, <2>1 DEF Tried, RefusedWith
  <2>2. CASE Passed(i)
    BY <1>4, <2>2 DEF Tried
  <2> QED
    BY <1>5, <2>1, <2>2 DEF Tried
<1>6. CASE KillAnswer(r)
  <2>1. PassedOver /\ state = -1 /\ r.state = 0
    BY <1>1, <1>6 DEF PassedOver, KillAnswer
  <2>2. TriedBelow'
    BY <1>2, <1>3, <2>1 DEF TriedBelow
  <2> QED
    BY <1>1, <1>2, <2>1, <2>2 DEF PassInv, NoneLeft
<1>7. CASE OptionsAnswer(r)
  <2>1. r.code = "OK"
    BY DEF Reject, IsVariant
  <2>2. /\ r.state \in Nat /\ state <= r.state /\ r.state < n
        /\ \A i \in Nat : state <= i /\ i < r.state => Passed(i)
        /\ \E there \in BOOLEAN : r.file \in Variants(file, r.state, there)
    BY <1>7, <2>1 DEF OptionsAnswer
  <2>3. ASSUME NEW i \in 0..r.state, i < n, i >= resumed, ~(i = 0 /\ PassedOver)
        PROVE  Tried(i)'
    <3>1. CASE i < state
      BY <1>1, <1>5, <2>3, <3>1 DEF TriedBelow
    <3>2. CASE i >= state /\ i < r.state
      BY <1>1, <1>4, <2>2, <3>2 DEF Tried
    <3>3. CASE i = r.state
      BY <1>2, <1>3, <2>2, <3>3 DEF Tried, RefusedWith
    <3> QED
      BY <1>1, <2>2, <3>1, <3>2, <3>3
  <2>4. TriedBelow'
    <3>1. (state - 1)' = r.state
      BY <1>2, <2>2
    <3> QED
      BY <1>2, <1>3, <2>3, <3>1 DEF TriedBelow
  <2> QED
    BY <1>1, <1>2, <2>2, <2>4 DEF PassInv, NoneLeft
<1> QED
  BY <1>1, <1>6, <1>7, TransformAnswers

\* What stays as it is when the file and the refusals do.
LEMMA SameTried ==
    ASSUME UNCHANGED <<file, state, resumed, refused>>, TriedBelow
    PROVE  TriedBelow'
<1>1. /\ NumOptions(file)' = NumOptions(file) /\ PassedOver' = PassedOver
      /\ \A i : Tried(i)' = Tried(i)
  BY DEF Tried, RefusedWith, Passed, CopyThere, LeavesAlone, PassedOver, NumOptions, Deflist, Variants, Def
<1> QED
  BY <1>1 DEF TriedBelow

\* When AGAIN stops it has passed every option there was.
LEMMA EndKeeps ==
    ASSUME PassInv, phase = "try", NEW r \in TransformUnifdef(file, state), End(r)
    PROVE  PassInv' /\ phase' = "stop"
<1>1. /\ state \in Int /\ resumed \in Int /\ -1 <= resumed /\ resumed <= state /\ TriedBelow
  BY DEF PassInv
<1>2. UNCHANGED <<tool, file, state, resumed, refused>>
  BY DEF End
<1>3. ~(r.code = "OK" /\ r.file # file)
  BY DEF End
<1>4. OptionsAnswer(r)
  BY <1>1, <1>3, TransformAnswers DEF KillAnswer
<1>5. /\ r.code = "STOP" /\ r.state \in Nat /\ r.state >= NumOptions(file)
      /\ \A i \in Nat : state <= i /\ i < r.state => Passed(i)
  BY <1>3, <1>4 DEF OptionsAnswer
<1>6. phase' = "stop"
  BY <1>5 DEF End
<1>7. NoneLeft'
  <2>1. ASSUME NEW i \in 0..(NumOptions(file) - 1), i >= state
        PROVE  Passed(i)
    <3>1. NumOptions(file) \in Nat
      BY OptionsAreCounted
    <3> QED
      BY <1>1, <1>5, <2>1, <3>1
  <2> QED
    BY <1>2, <2>1 DEF NoneLeft, NumOptions, Passed, CopyThere, LeavesAlone, Deflist, Variants, Def
<1>8. TriedBelow'
  BY <1>1, <1>2, SameTried
<1> QED
  BY <1>1, <1>2, <1>6, <1>7, <1>8 DEF PassInv

\* The steps of the loop that change anything.
LEMMA LoopSteps ==
    ASSUME Next
    PROVE  phase = "try" /\ \E r \in TransformUnifdef(file, state) : Reject(r) \/ Accept(r) \/ End(r)
BY DEF Next, Answers, TransformOf

LEMMA NextPass == PassInv /\ [Next]_loopVars => PassInv'
<1>1. ASSUME PassInv, Next PROVE PassInv'
  BY <1>1, LoopSteps, AcceptKeeps, RejectKeeps, EndKeeps
<1>2. ASSUME PassInv, UNCHANGED loopVars PROVE PassInv'
  <2>1. UNCHANGED <<file, state, phase, resumed, refused>>
    BY <1>2 DEF loopVars
  <2>2. TriedBelow'
    BY <1>2, <2>1, SameTried DEF PassInv
  <2>3. NoneLeft'
    BY <1>2, <2>1 DEF PassInv, NoneLeft, NumOptions, Passed, CopyThere, LeavesAlone, Deflist, Variants, Def
  <2> QED
    BY <1>2, <2>1, <2>2, <2>3 DEF PassInv
<1> QED
  BY <1>1, <1>2

THEOREM PassInvariance == Spec => []PassInv
BY InitPass, NextPass, PTL DEF Spec

-----------------------------------------------------------------------------
(***************************************************************************)
(* When pass_unifdef stops, every -D and -U of a symbol of the file has    *)
(* been dealt with since the last acceptance: refused by the test, without *)
(* effect, or without effect over the copy of the file an option before it *)
(* had left - save the one that is passed over.  For every unifdef,        *)
(* whatever it makes of a file, and every test.                            *)
(***************************************************************************)
THEOREM EveryOptionIsTried == Spec => []EveryOptionTried
<1>1. PassInv => EveryOptionTried
  <2>1. SUFFICES ASSUME PassInv, phase = "stop",
                        NEW i \in 0..(NumOptions(file) - 1), i >= resumed, ~(i = 0 /\ PassedOver)
                 PROVE  Tried(i)
    BY DEF EveryOptionTried, Tried, Passed
  <2>2. state \in Int /\ NumOptions(file) \in Nat
    BY <2>1, OptionsAreCounted DEF PassInv
  <2>3. CASE i < state
    BY <2>1, <2>2, <2>3 DEF PassInv, TriedBelow
  <2>4. CASE i >= state
    BY <2>1, <2>4 DEF PassInv, NoneLeft, Tried
  <2> QED
    BY <2>1, <2>2, <2>3, <2>4
<1> QED
  BY <1>1, PassInvariance, PTL

(***************************************************************************)
(* The number of pass_unifdef grows with each refusal, to one more than    *)
(* the file has options at most, and never shrinks.                        *)
(***************************************************************************)
THEOREM UnifdefMovesOn == Spec => NumberMovesOn
<1> DEFINE A == phase' = "try" => IF file' = file THEN state' > state /\ state' <= NumOptions(file) + 1
                                  ELSE state' >= state
<1>1. PassInv /\ [Next]_loopVars => [A]_loopVars
  <2>1. ASSUME PassInv, Next PROVE A
    <3>1. PICK r \in TransformUnifdef(file, state) : phase = "try" /\ (Reject(r) \/ Accept(r) \/ End(r))
      BY <2>1, LoopSteps
    <3>2. CASE Reject(r)
      BY <2>1, <3>1, <3>2, RejectKeeps
    <3>3. CASE Accept(r)
      BY <2>1, <3>1, <3>3, AcceptKeeps
    <3>4. CASE End(r)
      BY <2>1, <3>1, <3>4, EndKeeps
    <3> QED
      BY <3>1, <3>2, <3>3, <3>4
  <2> QED
    BY <2>1
<1> QED
  BY <1>1, PassInvariance, PTL DEF Spec, NumberMovesOn

-----------------------------------------------------------------------------
(***************************************************************************)
(* What unifdef makes of a file means what the file meant: for a file of   *)
(* any length and nesting, every MAXDEPTH, all options but -s and -c and   *)
(* every environment that agrees with them.  No directive may stand on the *)
(* line behind a directive that goes on behind a spliced line end or in a  *)
(* comment: parseline takes that line for text, whatever it says.          *)
(***************************************************************************)
THEOREM UnifdefKeepsFiles == file \in Seq(Lines) /\ NothingSwallowed(file) => UnifdefPreserves
<1> SUFFICES ASSUME file \in Seq(Lines), NothingSwallowed(file),
                    NEW opts \in CommandLines, NEW r \in Endings(opts, file), r.status = "done",
                    NEW env \in Envs, Agrees(env, opts), CText(env, file).ok
             PROVE  CText(env, r.out) = CText(env, file)
  BY DEF UnifdefPreserves
<1>1. Environment(env) /\ PrintOptions(opts)
  BY EnvsAssumption, CommandLinesAssumption
<1> QED
  BY <1>1, FileKept
=============================================================================
