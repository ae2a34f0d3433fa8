---------------------------- MODULE MCDeltaPass ----------------------------
(***************************************************************************)
(* Small instances of DeltaPass: files of up to MaxLines lines, and passes *)
(* that behave like those of creduce/pass_*.pm.  A pass state is the index *)
(* of the instance to try.                                                 *)
(***************************************************************************)
EXTENDS DeltaPassProperties, SequencesExt

CONSTANTS MaxLines, Lines

MCContents == BoundedSeq(Lines, MaxLines)
MCSize(c) == Len(c)
MCStates == 1..(MaxLines + 2)

\* The test looks for a "b" anywhere in the directory.
SomeB(dir) == \E n \in DOMAIN dir : "b" \in Range(dir[n])

\* The test accepts empty files, too.
SomeBOrNothing(dir) == SomeB(dir) \/ \A n \in DOMAIN dir : dir[n] = <<>>

AnyDirectory(dir) == TRUE

MCNew(p) == 1
MCAdvance(p, s) == IF s = MaxLines + 2 THEN s ELSE s + 1

Ok(c, s) == [res |-> "OK", out |-> c, st |-> s]
Answer(code, c, s) == [res |-> code, out |-> c, st |-> s]

\* "nth" removes line number s, like the counter-driven passes; "half" removes
\* the first or the second half; "lines" reformats the file before it removes
\* lines, like pass_lines, so that a STOP seen before may be wrong; "faulty" has the bugs
\* that report_pass_bug is for.
MCTransform(p, c, s) ==
    CASE p = "nth" ->
            IF s > Len(c) THEN Answer("STOP", c, s) ELSE Ok(RemoveAt(c, s), s)
      [] p = "half" ->
            LET h == (Len(c) + 1) \div 2
            IN  IF s > 2 \/ c = <<>> THEN Answer("STOP", c, 1)
                ELSE Ok(IF s = 1 THEN SubSeq(c, h + 1, Len(c)) ELSE SubSeq(c, 1, h), s)
      [] p = "lines" ->
            CASE s = 1 -> Ok(IF Len(c) < MaxLines THEN Append(c, "a") ELSE Front(c), 2)
              [] s > 1 /\ s - 1 > Len(c) -> Answer("STOP", c, s)
              [] OTHER -> Ok(RemoveAt(c, s - 1), s)
      [] p = "faulty" ->
            CASE s = 1 /\ Len(c) > 1 -> Ok(Tail(c), s)
              [] s = 2 /\ Len(c) = 2 -> Answer("ERROR", c, s)
              [] OTHER               -> Ok(c, s)

\* One file, whose base name is itself.
OneFile == {"f"}
OneName == [f \in OneFile |-> f]
\* Two files in two directories with two names, or with the same name.
TwoFiles == {"f", "g"}
TwoNames == [f \in TwoFiles |-> f]
SameName == [f \in TwoFiles |-> "x.c"]

Unlimited == MaxLines + 1

PidSymmetry == Permutations(Pids)
=============================================================================
