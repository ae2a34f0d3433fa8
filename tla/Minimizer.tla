------------------------------ MODULE Minimizer ------------------------------
(***************************************************************************)
(* What delta promises (delta/www/using_delta.html, "1-minimality"): from  *)
(* an input that passes the test it walks through ever smaller inputs that *)
(* pass, and the one it ends with is 1-minimal: it does not pass with any  *)
(* one chunk removed.  It may be stopped or die on the way, with the best  *)
(* input so far kept.                                                      *)
(***************************************************************************)
EXTENDS Integers

CONSTANT NoFile         \* no input has passed the test yet

VARIABLES
    length,             \* number of chunks of the input
    oracle,             \* the sets of chunks that pass the test
    best,               \* the last set of chunks that passed
    phase

vars == <<length, oracle, best, phase>>

Whole == 0..(length - 1)

\* `S` passes and nothing that lacks one more chunk does.
OneMinimal(S) == S \in oracle /\ \A c \in S : S \ {c} \notin oracle

Init == best = NoFile /\ phase = "initial"

\* The whole input passes the test: the search begins.
Begin ==
    /\ phase = "initial"
    /\ length > 0 /\ Whole \in oracle
    /\ best' = Whole
    /\ phase' = "search"
    /\ UNCHANGED <<length, oracle>>

Shrink ==
    /\ phase = "search"
    /\ \E S \in oracle : S \subseteq best /\ S # best /\ best' = S
    /\ UNCHANGED <<length, oracle, phase>>

Finish ==
    /\ phase = "search"
    /\ OneMinimal(best)
    /\ phase' = "done"
    /\ UNCHANGED <<length, oracle, best>>

\* Stopped by the user, or dead.
Halt ==
    /\ phase \in {"initial", "search"}
    /\ phase' \in {"stopped", "died"}
    /\ UNCHANGED <<length, oracle, best>>

Next == Begin \/ Shrink \/ Finish \/ Halt

Spec == Init /\ [][Next]_vars
=============================================================================
