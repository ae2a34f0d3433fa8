---------------------------- MODULE UnifdefProofs ----------------------------
(***************************************************************************)
(* Theorems about UnifdefRun, for files of any length, every nesting and   *)
(* every MAXDEPTH: what unifdef writes means what it read, and it fails    *)
(* only for a reason.                                                      *)
(***************************************************************************)
EXTENDS UnifdefRun, UnifdefLemmas

-----------------------------------------------------------------------------
(* The invariant *)

UnifdefInv ==
    /\ Environment(env) /\ Agrees(env, opts) /\ PrintOptions(opts) /\ PreType(in)
    /\ in.ok /\ m.status = "run" => MachineType(m) /\ Same(m.ifstate, in, out)
    /\ in.ok /\ m.status = "done" => Same(m.ifstate, in, out) /\ Last(m.ifstate) = "OUTSIDE"
    /\ FailsForAReason

\* At the beginning of the file.
LEMMA InitUnifdef == Init => UnifdefInv
<1> SUFFICES ASSUME Init PROVE UnifdefInv
  OBVIOUS
<1>1. /\ m = Start /\ in = Beginning /\ out = Beginning
      /\ Environment(env) /\ Agrees(env, opts) /\ PrintOptions(opts)
  BY EnvsAssumption, CommandLinesAssumption DEF Init
<1>2. QED
  BY <1>1, StartIsSame DEF UnifdefInv, FailsForAReason

\* Before a line is read, what was written for the last one is forgotten.
LEMMA LineBegins ==
    ASSUME UnifdefInv, in.ok, m.status = "run", NEW l \in Lines
    PROVE  Ready(opts, [m EXCEPT !.out = << >>], l, m.ifstate) /\ Same(m.ifstate, in, out)
<1>1. MachineType(m) /\ Same(m.ifstate, in, out) /\ PrintOptions(opts)
  BY DEF UnifdefInv
<1> DEFINE m0 == [m EXCEPT !.out = << >>]
<1>2. << >> \in Seq(Lines)
  OBVIOUS
<1>3. MachineType(m0) /\ m0.status = "run" /\ m0.ifstate = m.ifstate /\ m0.out = << >>
  BY <1>1, <1>2 DEF MachineType
<1>4. m.ifstate \in Seq(IfStates) /\ Len(m.ifstate) >= 1
  BY <1>1 DEF MachineType
<1>5. QED
  BY <1>1, <1>3, <1>4 DEF Ready, Running

\* One line goes through parseline and the table, unless a division ends the
\* program.
LEMMA LineProcessed ==
    ASSUME NEW l, ReadLine(l), MachineType(m)
    PROVE  \/ m'.status = "trap"
           \/ m' = Apply(opts, Before.m, l, LineType(opts, l, dirty)) /\ dirty' = (l.kind # "plain" /\ l.split)
<1> DEFINE p == Before
           traps == IF Evaluated(l, p.dirty) THEN Traps(opts, l.e) ELSE "never"
<1>1. p.m = [m EXCEPT !.out = << >>] /\ p.dirty = dirty /\ m.status = "run" /\ (dirty => l.kind = "plain")
      /\ m' = AfterTraps(opts, p, l, traps).m /\ dirty' = AfterTraps(opts, p, l, traps).dirty
  BY DEF Before, ReadLine, ProcessLine
<1> HIDE DEF traps
<1>2. p.m.status = "run" /\ p = [m |-> p.m, dirty |-> p.dirty, maytrap |-> p.maytrap] /\ MachineType(p.m)
  <2>1. << >> \in Seq(Lines)
    OBVIOUS
  <2>2. MachineType([m EXCEPT !.out = << >>]) /\ [m EXCEPT !.out = << >>].status = "run"
    BY <1>1, <2>1 DEF MachineType
  <2>3. QED
    BY <2>2 DEF Before
<1> HIDE DEF p
<1>3. CASE traps = "always"
  <2>1. AfterTraps(opts, p, l, traps) = [p EXCEPT !.m.status = "trap"]
    BY <1>2, <1>3 DEF AfterTraps
  <2>2. AfterTraps(opts, p, l, traps).m.status = "trap"
    BY <1>2, <2>1 DEF MachineType
  <2>3. QED
    BY <1>1, <2>2
<1>4. CASE traps # "always"
  <2>1. AfterTraps(opts, p, l, traps) =
            [m |-> Apply(opts, p.m, l, LineType(opts, l, p.dirty)),
             dirty |-> l.kind # "plain" /\ ~p.dirty /\ l.split,
             maytrap |-> p.maytrap \/ traps = "maybe"]
    BY <1>2, <1>4 DEF AfterTraps
  <2>2. QED
    BY <1>1, <2>1 DEF p
<1>5. QED
  BY <1>3, <1>4

LEMMA ReadLineKeeps ==
    ASSUME UnifdefInv, NEW l \in Lines, ReadLine(l)
    PROVE  UnifdefInv'
<1> DEFINE m0 == [m EXCEPT !.out = << >>]
           type == LineType(opts, l, dirty)
<1>1. /\ m.status = "run" /\ opts' = opts /\ env' = env /\ ended' = ended
      /\ in' = Compile(env, in, l) /\ out' = Compiled(env, out, m'.out)
      /\ dirty => l.kind = "plain"
  BY DEF ReadLine
<1>2. PreType(in) /\ Environment(env) /\ Agrees(env, opts) /\ PrintOptions(opts)
  BY DEF UnifdefInv
<1>3. PreType(in')
  BY <1>1, <1>2, PreTypeKept
<1>4. CASE ~in'.ok
  BY <1>1, <1>2, <1>3, <1>4 DEF UnifdefInv, FailsForAReason
<1>5. CASE m'.status = "trap"
  BY <1>1, <1>2, <1>3, <1>5 DEF UnifdefInv, FailsForAReason
<1>6. CASE in'.ok /\ m'.status # "trap"
  <2>1. in.ok /\ ~Rejects(env, in, l) /\ in' = Preprocess(in, l, Holds(env, l))
    BY <1>1, <1>2, <1>6, AcceptedLine
  <2>2. Ready(opts, m0, l, m.ifstate) /\ Same(m.ifstate, in, out)
    BY <1>1, <2>1, LineBegins
  <2>3. m' = Apply(opts, m0, l, type) /\ dirty' = (l.kind # "plain" /\ l.split)
    <3>1. MachineType(m)
      BY <1>1, <2>1 DEF UnifdefInv
    <3>2. QED
      BY <1>6, <3>1, LineProcessed DEF Before
  <2>4. type \in LineTypes(env, l)
    BY <1>1, <1>2, LineTypeIsRight DEF PrintOptions
  <2> HIDE DEF m0, type
  <2>5. \/ Keeps(env, m', in', out)
        \/ Fails(m') /\ l.kind # "plain" /\ (l.split \/ Len(in'.groups) > MaxDepth)
    BY <1>1, <1>6, <2>1, <2>2, <2>3, <2>4, LineKeeps
  <2>6. CASE Keeps(env, m', in', out)
    <3>1. PICK st, W : Running(m', st, W) /\ \A w \in W : Len(w) <= 1 /\ Same(st, in', Compiled(env, out, w))
      BY <2>6 DEF Keeps
    <3>2. MachineType(m') /\ m'.status = "run" /\ m'.ifstate = st /\ m'.out \in W
      BY <3>1 DEF Running
    <3>3. Same(m'.ifstate, in', out')
      BY <1>1, <3>1, <3>2
    <3>4. QED
      BY <1>1, <1>2, <1>3, <3>2, <3>3 DEF UnifdefInv, FailsForAReason
  <2>7. CASE Fails(m') /\ l.kind # "plain" /\ (l.split \/ Len(in'.groups) > MaxDepth)
    <3>1. m'.status = "error"
      BY <2>7 DEF Fails
    <3>2. dirty' \/ Len(in'.groups) > MaxDepth
      BY <2>3, <2>7
    <3>3. QED
      BY <1>1, <1>2, <1>3, <3>1, <3>2 DEF UnifdefInv, FailsForAReason
  <2>8. QED
    BY <2>5, <2>6, <2>7
<1>7. QED
  BY <1>4, <1>5, <1>6

\* The end of the file.
LEMMA EndOfFileKeeps ==
    ASSUME UnifdefInv, EndOfFile
    PROVE  UnifdefInv'
<1> DEFINE m0 == [m EXCEPT !.out = << >>]
           type == Plainly("EOF")
           is == Last(m.ifstate)
<1>1. /\ m' = Apply(opts, m0, Blank, type) /\ m.status = "run" /\ ended' = TRUE
      /\ env' = env /\ opts' = opts /\ dirty' = dirty /\ in' = in /\ out' = out
  BY DEF EndOfFile, Before
<1>2. PreType(in) /\ Environment(env) /\ Agrees(env, opts) /\ PrintOptions(opts)
  BY DEF UnifdefInv
<1>3. CASE ~in.ok
  BY <1>1, <1>2, <1>3 DEF UnifdefInv, FailsForAReason
<1>4. CASE in.ok
  <2>1. Blank \in Lines
    BY LineFacts
  <2>2. Ready(opts, m0, Blank, m.ifstate) /\ Same(m.ifstate, in, out)
    BY <1>1, <1>4, <2>1, LineBegins
  <2>3. type.lt = "EOF"
    BY DEF Plainly
  <2> HIDE DEF m0, type, is
  <2>4. m0.ifstate = m.ifstate
    BY <2>2, ReadyFacts
  <2>5. m' = Run(opts, m0, Blank, TransTable(is, type))
    BY <1>1, <2>4 DEF Apply, is
  <2>6. CASE is = "OUTSIDE"
    <3>1. m' = Run(opts, m0, Blank, <<"done">>)
      BY <2>3, <2>5, <2>6, EndTable
    <3>2. m'.status = "done" /\ m'.ifstate = m.ifstate
      BY <2>2, <3>1, RunDone
    <3>3. QED
      BY <1>1, <1>2, <2>2, <2>6, <3>2 DEF UnifdefInv, FailsForAReason, is
  <2>7. CASE is # "OUTSIDE"
    <3>1. m' = Run(opts, m0, Blank, Error)
      BY <2>3, <2>5, <2>7, EndTable
    <3>2. m'.status = "error"
      BY <2>2, <3>1, RunError DEF Fails
    <3>3. ~Complete(in)
      BY <2>2, <2>7, OutsideFacts DEF is
    <3>4. QED
      BY <1>1, <1>2, <3>2, <3>3 DEF UnifdefInv, FailsForAReason, Complete
  <2>8. QED
    BY <2>6, <2>7
<1>5. QED
  BY <1>3, <1>4

(***************************************************************************)
(* As long as the file is one the preprocessor accepts, the machine, the   *)
(* preprocessor that reads the file and the one that reads the output      *)
(* correspond, level by level.                                             *)
(***************************************************************************)
THEOREM UnifdefInvariance == Spec => []UnifdefInv
<1>1. Init => UnifdefInv
  BY InitUnifdef
<1>2. UnifdefInv /\ [Next]_vars => UnifdefInv'
  <2> SUFFICES ASSUME UnifdefInv, [Next]_vars PROVE UnifdefInv'
    OBVIOUS
  <2>1. CASE \E l \in Lines : ReadLine(l)
    BY <2>1, ReadLineKeeps
  <2>2. CASE EndOfFile
    BY <2>2, EndOfFileKeeps
  <2>3. CASE \E l \in Lines : Divide(l)
    <3>1. PICK l \in Lines : Divide(l)
      BY <2>3
    <3>2. /\ m' = [m EXCEPT !.status = "trap", !.out = << >>] /\ m.status = "run"
          /\ env' = env /\ opts' = opts /\ in' = in
      BY <3>1 DEF Divide
    <3>3. CASE ~in.ok
      BY <3>2, <3>3 DEF UnifdefInv, FailsForAReason
    <3>4. CASE in.ok
      <4>1. MachineType(m)
        BY <3>2, <3>4 DEF UnifdefInv
      <4>2. m'.status = "trap"
        BY <3>2, <4>1 DEF MachineType
      <4>3. QED
        BY <3>2, <4>2 DEF UnifdefInv, FailsForAReason
    <3>5. QED
      BY <3>3, <3>4
  <2>4. CASE UNCHANGED vars
    BY <2>4 DEF vars, UnifdefInv, FailsForAReason
  <2>5. QED
    BY <2>1, <2>2, <2>3, <2>4 DEF Next
<1>3. QED
  BY <1>1, <1>2, PTL DEF Spec

(***************************************************************************)
(* For files of any length and nesting, whatever is known of the           *)
(* conditions: a file unifdef is done with means what it meant.            *)
(***************************************************************************)
THEOREM MeaningIsKept == Spec => []MeaningKept
<1>1. UnifdefInv => MeaningKept
  <2> SUFFICES ASSUME UnifdefInv, m.status = "done", in.ok
               PROVE  Complete(in) /\ Complete(out) /\ out.text = in.text
    BY DEF MeaningKept
  <2>1. Same(m.ifstate, in, out) /\ Last(m.ifstate) = "OUTSIDE"
    BY DEF UnifdefInv
  <2>2. QED
    BY <2>1, OutsideFacts DEF Same
<1>2. QED
  BY <1>1, UnifdefInvariance, PTL

(***************************************************************************)
(* For the same files: where unifdef stops with an error, the file is not  *)
(* one the preprocessor accepts, is nested MAXDEPTH deep, or has a         *)
(* directive that is not on one line.                                      *)
(***************************************************************************)
THEOREM FailuresAreJustified == Spec => []FailsForAReason
<1>1. UnifdefInv => FailsForAReason
  BY DEF UnifdefInv
<1>2. QED
  BY <1>1, UnifdefInvariance, PTL
=============================================================================
