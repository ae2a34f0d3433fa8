------------------------------- MODULE MCDelta -------------------------------
(***************************************************************************)
(* Inputs of up to four chunks.  For up to three chunks, every test there  *)
(* can be; for four chunks, every test that accepts at most three inputs   *)
(* besides the whole: few enough for what is accepted to depend on the     *)
(* order in which chunks are removed.                                      *)
(***************************************************************************)
EXTENDS Delta, FiniteSetsExt

MCOracles(n) ==
    LET inputs == SUBSET (0..(n - 1))
    IN  IF n <= 3 THEN SUBSET inputs
        ELSE {S \cup {0..(n - 1)} : S \in UNION {kSubset(k, inputs) : k \in 0..3}}

\* Tests that want some of the chunks.
FewOracles(n) ==
    LET inputs == SUBSET (0..(n - 1))
    IN  {{S \in inputs : A \subseteq S} : A \in inputs}
=============================================================================
