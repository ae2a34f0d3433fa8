----------------------------- MODULE UnifdefRun -----------------------------
(***************************************************************************)
(* unifdef/unifdef.c, process: unifdef at work on a file of any length,    *)
(* and beside it the C preprocessor on what was read and on what was       *)
(* written, in an environment the -D and -U options agree with.            *)
(***************************************************************************)
EXTENDS UnifdefLines

CONSTANTS
    MaxText,    \* bound: lines of the text that are read by the compiler
    MaxBlanks   \* bound: blank lines in a row

ASSUME RunAssumption == MaxText \in Nat /\ MaxBlanks \in Nat

VARIABLES
    env,     \* the environment
    opts,    \* the options
    m,       \* the machine; m.out is what the last line led it to write
    dirty,   \* whether the last line was a directive that went on behind its end
    ended,   \* whether the end of the file was seen
    in,      \* the preprocessor, having read the lines of the file,
    out      \* and one having read the lines written
vars == <<env, opts, m, dirty, ended, in, out>>

-----------------------------------------------------------------------------
(* process *)

Init ==
    /\ env \in Envs
    /\ opts \in CommandLines
    /\ Agrees(env, opts)
    /\ m = Start
    /\ dirty = FALSE
    /\ ended = FALSE
    /\ in = Beginning
    /\ out = Beginning

\* process before the next line, having written what it wrote for the last one.
Before == [m |-> [m EXCEPT !.out = << >>], dirty |-> dirty, maytrap |-> FALSE]

\* The line behind a directive with a spliced end or a comment over several
\* lines is one that is never taken for a directive: here it is none.
ReadLine(l) ==
    /\ m.status = "run"
    /\ dirty => l.kind = "plain"
    /\ l \in TextLines => Len(in.text) < MaxText
    /\ l = Blank => m.blankcount \notin {MaxBlanks, Start.blankcount + MaxBlanks}
    /\ m' = ProcessLine(opts, Before, l).m
    /\ dirty' = ProcessLine(opts, Before, l).dirty
    /\ in' = Compile(env, in, l)
    /\ out' = Compiled(env, out, m'.out)
    /\ UNCHANGED <<env, opts, ended>>

\* The division in a condition may end unifdef.
Divide(l) ==
    /\ m.status = "run" /\ ~dirty
    /\ l.kind \in {"if", "elif"} /\ Traps(opts, l.e) = "maybe"
    /\ m' = [m EXCEPT !.status = "trap", !.out = << >>]
    /\ UNCHANGED <<env, opts, dirty, ended, in, out>>

EndOfFile ==
    /\ m.status = "run"
    /\ m' = Apply(opts, Before.m, Blank, Plainly("EOF"))
    /\ ended' = TRUE
    /\ UNCHANGED <<env, opts, dirty, in, out>>

Next ==
    \/ \E l \in Lines : ReadLine(l) \/ Divide(l)
    \/ EndOfFile
Spec == Init /\ [][Next]_vars

-----------------------------------------------------------------------------
(* What unifdef keeps *)

(***************************************************************************)
(* A file that comes to its end means what it meant: where the file read   *)
(* is one the preprocessor accepts, so is the file written, neither has a  *)
(* group left open, and the text the compiler gets to see is the same -    *)
(* whatever the nesting, and whichever branches were dropped, edited into  *)
(* #if, #else or #endif, or passed because nothing is known of their       *)
(* conditions.                                                             *)
(***************************************************************************)
MeaningKept ==
    m.status = "done" /\ in.ok => Complete(in) /\ Complete(out) /\ out.text = in.text

(***************************************************************************)
(* unifdef gives up only where the file is to blame: on a directive that   *)
(* the preprocessor refuses too, at the end of a file with open groups, on *)
(* groups nested MAXDEPTH deep, or on a directive that is not on one line. *)
(***************************************************************************)
FailsForAReason ==
    m.status = "error" =>
        \/ ~in.ok
        \/ ended /\ ~Complete(in)
        \/ Len(in.groups) > MaxDepth
        \/ dirty
=============================================================================
