---------------------------- MODULE PassUnifdef ----------------------------
(***************************************************************************)
(* creduce/pass_unifdef.pm at work on one file, with a test that may       *)
(* answer anything.                                                        *)
(*                                                                         *)
(* What unifdef makes of a file is given by the constants, as the files it *)
(* may leave in $tmpfile, because a division in a condition may or may not *)
(* end it.  One call of transform runs unifdef many times onto the one     *)
(* $tmpfile: the first time there is no such file, and from then on it is  *)
(* there and holds what the file holds, or the call would have ended.      *)
(***************************************************************************)
EXTENDS Integers, FiniteSets

CONSTANTS
    FirstFiles,         \* the files the pass may begin with
    NumSymbols,         \* the symbols are 1..NumSymbols, in the order of sort
    Symbols(_),         \* unifdef -s: the symbols in the conditions of a file
    KillConstants(_),   \* unifdef -k: the files it may make of a file
    RemoveIfs(_, _, _, _)   \* unifdef -B -x 2 with -D or -U of a symbol, likewise,
                            \* when $tmpfile is there or is not

ASSUME NumSymbolsAssumption == NumSymbols \in Nat

VARIABLES tool, file, state, phase, resumed, refused

\* The symbols, sorted, and the options tried by turns: -D of the first
\* symbol, -U of it, -D of the next.
Deflist(f) == {s \in 1..NumSymbols : s \in Symbols(f)}
Def(f, n) == CHOOSE s \in Deflist(f) : Cardinality({t \in Deflist(f) : t < s}) = n
DU(index) == IF index % 2 = 0 THEN "D" ELSE "U"
NumOptions(f) == 2 * Cardinality(Deflist(f))
Variants(f, index, there) == RemoveIfs(f, DU(index), Def(f, index \div 2), there)

NewUnifdef == -1
FaultyAdvanceUnifdef(index) == IF index >= 0 /\ index % 2 = 1 THEN index - 1 ELSE index + 1
AdvanceUnifdef(index) == index + 1

Result(code, f, index) == [code |-> code, file |-> f, state |-> index]

\* The loop AGAIN comes from one index to another when $tmpfile is as the file
\* with each option before it.
Passes(f, from, to, there) ==
    \A i \in from..(to - 1) : i < NumOptions(f) /\ f \in Variants(f, i, there \/ i > from)
FaultyAgain(f, index, there) ==
    UNION {IF i < NumOptions(f) THEN {Result("OK", g, i + 1) : g \in Variants(f, i, there \/ i > index) \ {f}}
           ELSE {Result("STOP", f, i)} :
              i \in {i \in {index} \cup ((index + 1)..NumOptions(f)) : Passes(f, index, i, there)}}
Again(f, index, there) ==
    UNION {IF i < NumOptions(f) THEN {Result("OK", g, i) : g \in Variants(f, i, there \/ i > index) \ {f}}
           ELSE {Result("STOP", f, i)} :
              i \in {i \in {index} \cup ((index + 1)..NumOptions(f)) : Passes(f, index, i, there)}}

\* The first call removes the groups of constant conditions, if there are any.
TransformUnifdef(f, index) ==
    IF index >= 0 THEN Again(f, index, FALSE)
    ELSE {Result("OK", g, 0) : g \in KillConstants(f) \ {f}}
         \cup UNION {Again(f, 0, TRUE) : g \in KillConstants(f) \cap {f}}

PassTool == "pass_unifdef :: 0"
StartsOf(t) == FirstFiles
NewOf(t) == NewUnifdef
AdvanceOf(t, index) == AdvanceUnifdef(index)
TransformOf(t, f, index) == TransformUnifdef(f, index)
AnyFile(t, f) == TRUE
INSTANCE PassLoop WITH
    Tools <- {PassTool}, Starts <- StartsOf, New <- NewOf, Advance <- AdvanceOf,
    Transform <- TransformOf, Fits <- AnyFile

-----------------------------------------------------------------------------
\* The test has refused a file the option makes, and the option makes nothing new.
RefusedWith(index) == \E there \in BOOLEAN : Variants(file, index, there) \cap refused # {}
LeavesAlone(index, there) == file \in Variants(file, index, there)
\* The run before this one, with -k or with the option before, left $tmpfile there.
CopyThere(index) ==
    /\ index > resumed
    /\ IF index = 0 THEN file \in KillConstants(file)
       ELSE \E there \in BOOLEAN : LeavesAlone(index - 1, there)

(***************************************************************************)
(* When the pass stops, every -D and -U has been dealt with from the       *)
(* option on that the last acceptance was at: the test has refused a file  *)
(* it makes, or it makes no other file, or it makes no other file over the *)
(* copy of the file that an option before it had to leave in $tmpfile      *)
(* (there unifdef changes nothing when it fails or has no line to drop).   *)
(* One exception: where nothing was accepted and -k had something to       *)
(* remove, -D of the first symbol is passed over, because advance counts   *)
(* on from the number transform has already moved to.                      *)
(***************************************************************************)
PassedOver == resumed = -1 /\ KillConstants(file) # {file}
EveryOptionTried ==
    phase = "stop" =>
        \A index \in 0..(NumOptions(file) - 1) :
            index >= resumed /\ ~(index = 0 /\ PassedOver) =>
                RefusedWith(index) \/ LeavesAlone(index, FALSE) \/ (CopyThere(index) /\ LeavesAlone(index, TRUE))
=============================================================================
