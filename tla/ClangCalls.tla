----------------------------- MODULE ClangCalls -----------------------------
(***************************************************************************)
(* What the passes see of clang_delta: a call, and what it results in.     *)
(***************************************************************************)
EXTENDS Integers

\* A call for the instances from a counter to another one; the second is 0
\* where no --to-counter is given, and both are for a query.
Query == <<0, 0>>
Single(k) == <<k, 0>>

\* The exit codes: exit(-1), ErrorInvalidCounter and an assertion.
Fine == 0
Failed == 255
ErrorInvalidCounter == 1
Aborted == 134
\* What a call ends with: the code, what is printed, the number of instances.
Result(exit, out, count) == [exit |-> exit, out |-> out, count |-> count]
=============================================================================
