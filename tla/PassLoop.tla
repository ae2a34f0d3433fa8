------------------------------ MODULE PassLoop ------------------------------
(***************************************************************************)
(* One pass at work on one file, as delta_pass drives it when it tests one *)
(* variant at a time: SequentialPass with a single file, and with a test   *)
(* that may answer anything each time it is asked.  The passes that run a  *)
(* program of the repository (clex, unifdef, clang_delta) are plugged in   *)
(* as the constants.                                                       *)
(***************************************************************************)
EXTENDS Naturals

CONSTANTS
    Tools,              \* the "name :: arg" of the passes that are tried
    Starts(_),          \* the files a pass may begin with
    New(_),             \* <pass>::new
    Advance(_, _),      \* <pass>::advance
    Transform(_, _, _), \* <pass>::transform: the set of its possible results
    Fits(_, _)          \* the bound on the files a pass may grow to

VARIABLES
    tool,       \* the pass
    file,       \* the file being reduced
    state,      \* the state of the pass
    phase,      \* "try", or why the pass is over: "stop", "error", "unmodified"
    resumed,    \* auxiliary: the state of the last acceptance, or the first state
    refused     \* auxiliary: the variants rejected since that state

loopVars == <<tool, file, state, phase, resumed, refused>>

Init ==
    /\ tool \in Tools
    /\ file \in Starts(tool)
    /\ state = New(tool)
    /\ phase = "try"
    /\ resumed = state
    /\ refused = {}

\* What transform may answer now: a code, the variant and the state to keep.
Answers == Transform(tool, file, state)
IsVariant(r) == r.code = "OK" /\ r.file # file

\* The variant is interesting: it becomes the file.
Accept(r) ==
    /\ IsVariant(r) /\ Fits(tool, r.file)
    /\ file' = r.file
    /\ state' = r.state
    /\ resumed' = r.state
    /\ refused' = {}
    /\ UNCHANGED <<tool, phase>>

\* It is not: the next variant is asked for.
Reject(r) ==
    /\ IsVariant(r)
    /\ state' = Advance(tool, r.state)
    /\ refused' = refused \cup {r.file}
    /\ UNCHANGED <<tool, file, phase, resumed>>

\* The pass has no variant left, failed, or left the file as it was.
End(r) ==
    /\ \/ r.code = "STOP" /\ phase' = "stop"
       \/ r.code = "ERROR" /\ phase' = "error"
       \/ r.code = "OK" /\ r.file = file /\ phase' = "unmodified"
    /\ UNCHANGED <<tool, file, state, resumed, refused>>

Next == phase = "try" /\ \E r \in Answers : Reject(r) \/ Accept(r) \/ End(r)

Spec == Init /\ [][Next]_loopVars

\* delta_pass goes on by itself and every test ends.
FairSpec == Spec /\ WF_loopVars(Next)

(***************************************************************************)
(* Every pass comes to its end, whatever the test answers.                 *)
(***************************************************************************)
PassEnds == <>(phase # "try")
=============================================================================
