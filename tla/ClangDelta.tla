------------------------------ MODULE ClangDelta ------------------------------
(***************************************************************************)
(* One call of clang_delta: ClangDelta.cpp and TransformationManager.cpp.  *)
(* The arguments are handled from left to right, the manager verifies      *)
(* them, parses the file and lets the transformation rewrite it.           *)
(***************************************************************************)
EXTENDS ClangTransformations, ClangCalls

\* An argument: an option, its value where it is a word, and its value as a
\* set that holds the number it is read as, if it is one.
Option(name, word, numbers) == [name |-> name, word |-> word, numbers |-> numbers]
Source == Option("source", "", {})

\* What is printed when it is no program: a message.
Text == <<[k |-> "text", vars |-> << >>, static |-> FALSE, inc |-> FALSE, type |-> "text"]>>

\* The program goes on.
Running == -1
Die(code) == Result(code, Text, 0)

-----------------------------------------------------------------------------
(* The arguments *)

\* The manager's fields, and the exit of the program if an argument ends it.
Manager == [trans |-> "", counter |-> -1, to |-> -1, query |-> FALSE, source |-> FALSE,
            output |-> FALSE, exit |-> Running]

SetTransformation(m, t, known) ==
    IF t \in known THEN [m EXCEPT !.trans = t] ELSE [m EXCEPT !.exit = Failed]
\* A value that is no number ends the program; one that is not positive
\* fails the assertion of the setter.
SetNumber(a, m, Set(_)) ==
    CASE a.numbers = {} -> [m EXCEPT !.exit = ErrorInvalidCounter]
      [] \E n \in a.numbers : n <= 0 -> [m EXCEPT !.exit = Aborted]
      [] OTHER -> Set(CHOOSE n \in a.numbers : TRUE)

HandleOneArg(m, a, known) ==
    CASE a.name = "transformation" -> SetTransformation(m, a.word, known)
      [] a.name = "query-instances" ->
            IF a.word \in known THEN [SetTransformation(m, a.word, known) EXCEPT !.query = TRUE, !.counter = 1]
            ELSE SetTransformation(m, a.word, known)
      [] a.name = "counter" -> SetNumber(a, m, LAMBDA n : [m EXCEPT !.counter = n])
      [] a.name = "to-counter" -> SetNumber(a, m, LAMBDA n : [m EXCEPT !.to = n])
      [] a.name = "output" -> [m EXCEPT !.output = TRUE]
      [] a.name \in {"replacement", "check-reference"} -> m
      [] a.name = "source" -> IF m.source THEN [m EXCEPT !.exit = Aborted] ELSE [m EXCEPT !.source = TRUE]
      [] a.name \in {"help", "version", "transformations", "verbose-transformations"} -> [m EXCEPT !.exit = Fine]
      [] OTHER -> [m EXCEPT !.exit = Failed]
HandleArgs(args, known) ==
    FoldLeft(LAMBDA m, a : IF m.exit = Running THEN HandleOneArg(m, a, known) ELSE m, Manager, args)

-----------------------------------------------------------------------------
(* The transformation *)

\* The code verify makes the program die with, or Running.
Verify(m) ==
    CASE m.trans = "" -> Failed
      [] m.trans \in SkipsCounter -> Running
      [] m.trans # "" /\ m.trans \notin SkipsCounter ->
            IF m.counter <= 0 \/ (m.to > 0 /\ m.to < m.counter) THEN ErrorInvalidCounter ELSE Running

\* isInvalidCounterError
ExitCode(error) ==
    CASE error = "counter too big" -> ErrorInvalidCounter
      [] error = "none valid" -> Failed
      [] error = "assertion" -> Aborted

\* doTransformation and the end of main: the possible results.
Printed(m, h) ==
    IF h.error = "success" THEN {Result(Fine, IF m.output THEN << >> ELSE q, 0) : q \in h.programs}
    ELSE {Die(ExitCode(h.error))}
Handled(m, p, all) ==
    IF m.query THEN {Result(Fine, Text, Len(all))}
    ELSE Printed(m, HandleTranslationUnit(m.trans, p, m.counter, IF m.to > 0 THEN m.to ELSE m.counter, all))
DoTransformation(m, p) ==
    CASE m.to > 0 /\ m.trans \notin MultipleRewrites -> {Die(Failed)}
      [] ~(m.to > 0 /\ m.trans \notin MultipleRewrites) /\ CollectionFails(m.trans, p) -> {Die(Aborted)}
      [] OTHER -> Handled(m, p, Instances(m.trans, p, m.counter))

\* A call with these arguments; p is the program in the source file.
Run(args, p, known) ==
    LET m == HandleArgs(args, known)
    IN  CASE m.exit # Running -> {Die(m.exit)}
          [] m.exit = Running /\ Verify(m) # Running -> {Die(Verify(m))}
          [] m.exit = Running /\ Verify(m) = Running /\ ~m.source -> {Die(Failed)}
          [] OTHER -> DoTransformation(m, p)

\* The arguments the passes give it.
Arguments(which, call) ==
    CASE call = Query -> <<Option("query-instances", which, {}), Source>>
      [] call # Query /\ call[2] = 0 -> <<Option("transformation", which, {}), Option("counter", "", {call[1]}), Source>>
      [] OTHER -> <<Option("transformation", which, {}), Option("counter", "", {call[1]}),
                    Option("to-counter", "", {call[2]}), Source>>
=============================================================================
