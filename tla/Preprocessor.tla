---------------------------- MODULE Preprocessor ----------------------------
(***************************************************************************)
(* What a file means: the text a C preprocessor makes of it, line by line  *)
(* (C11, 6.10.1), in an environment, which gives some symbols a value, and *)
(* a value (odd) to what is not an expression of C as unifdef knows it.    *)
(*                                                                         *)
(* A line is a record with its kind: a directive, or "plain" with a name   *)
(* and whether it is blank.                                                *)
(***************************************************************************)
EXTENDS UnifdefExpressions

-----------------------------------------------------------------------------
(* The groups of a file; holds says whether the condition of a directive is true *)

Openers == {"if", "ifdef", "ifndef"}

\* A group: whether the present part is read, whether it or an earlier one
\* was, and whether the #else was seen.  The first group is the file.
WholeFile == [on |-> TRUE, done |-> TRUE, else |-> TRUE]
Beginning == [groups |-> <<WholeFile>>, text |-> << >>, ok |-> TRUE]

Reading(p) == \A i \in DOMAIN p.groups : p.groups[i].on
Complete(p) == p.ok /\ Len(p.groups) = 1

Opened(holds) == [on |-> holds, done |-> holds, else |-> FALSE]
Turn(g, holds, else) == [on |-> holds /\ ~g.done, done |-> g.done \/ holds, else |-> else]

\* A directive that continues or ends a group there is none of, or continues
\* one behind its #else.
Misplaced(p, l) ==
    /\ l.kind \in {"elif", "else", "endif"}
    /\ Len(p.groups) = 1 \/ (l.kind # "endif" /\ Last(p.groups).else)

\* The conditions of an #if and an #elif that decide what is read are
\* evaluated, the others are not looked at.
Evaluates(p, l) ==
    \/ l.kind = "if" /\ Reading(p)
    \/ /\ l.kind = "elif" /\ ~Last(p.groups).done
       /\ \A i \in 1..(Len(p.groups) - 1) : p.groups[i].on

Groups(p, l, holds) ==
    CASE l.kind = "plain" -> p.groups
      [] l.kind \in Openers -> Append(p.groups, Opened(holds))
      [] l.kind = "elif" -> [p.groups EXCEPT ![Len(p.groups)] = Turn(@, holds, FALSE)]
      [] l.kind = "else" -> [p.groups EXCEPT ![Len(p.groups)] = Turn(@, TRUE, TRUE)]
      [] l.kind = "endif" -> Front(p.groups)
Text(p, l) ==
    IF l.kind = "plain" /\ ~l.blank /\ Reading(p) THEN Append(p.text, l.name) ELSE p.text

Preprocess(p, l, holds) ==
    IF ~p.ok \/ Misplaced(p, l) THEN [p EXCEPT !.ok = FALSE]
    ELSE [groups |-> Groups(p, l, holds), text |-> Text(p, l), ok |-> TRUE]

-----------------------------------------------------------------------------
(* The conditions *)

CNode(env, node, values) ==
    CASE node.op = "number" -> node.n
      [] node.op = "symbol" -> IF node.s \in DOMAIN env.value THEN env.value[node.s] ELSE 0
      [] node.op = "defined" -> Bit(node.s \in DOMAIN env.value)
      [] node.op = "bad" -> env.odd
      [] node.op \in UnaryOps -> Negated(node.op, LastOperand(values))
      [] node.op \in BinaryOps -> Value(node.op, FirstOperand(values, node), LastOperand(values))
WithCNode(env, node, values) == Append(values, CNode(env, node, values))
CValues(env, e) ==
    LET upto[n \in 0..Len(e)] == IF n = 0 THEN << >> ELSE WithCNode(env, e[n], upto[n - 1])
    IN  upto[Len(e)]

\* Can C evaluate it: is there no division by zero, and no shift by places there
\* are not?  What is behind an
\* && that is false already, or an || that is true, it does not evaluate.
Skips(op, v) == (op = "||" /\ v # 0) \/ (op = "&&" /\ v = 0)
EvaluableNodes(e, values) ==
    LET ok[n \in 1..Len(e)] ==
            CASE e[n].op \in Leaves -> TRUE
              [] e[n].op \in UnaryOps -> ok[n - 1]
              [] e[n].op \in BinaryOps ->
                    /\ ok[n - 1 - e[n].right]
                    /\ \/ Skips(e[n].op, values[n - 1 - e[n].right])
                       \/ /\ ok[n - 1]
                          /\ e[n].op \in {"/", "%"} => values[n - 1] # 0
                          /\ e[n].op \in ShiftOps => values[n - 1] \in ShiftPlaces
    IN  ok[Len(e)]
Evaluable(env, e) == EvaluableNodes(e, CValues(env, e))

\* Is the condition of a directive true?  What stands behind an expression makes
\* it odd.  (Where C cannot evaluate it, this is of no account.)
NotC(l) == l.junk \/ (l.kind \in {"ifdef", "ifndef"} /\ l.e[1].op = "bad")
IsTrue(env, l) ==
    IF NotC(l) THEN env.odd # 0
    ELSE IF l.kind \in {"ifdef", "ifndef"} THEN (l.e[1].s \in DOMAIN env.value) <=> (l.kind = "ifdef")
    ELSE LastOperand(CValues(env, l.e)) # 0
Holds(env, l) == l.kind \in Openers \cup {"elif"} /\ IsTrue(env, l)

\* The preprocessor reads a line,
Rejects(env, p, l) == Evaluates(p, l) /\ ~l.junk /\ ~Evaluable(env, l.e)
Compile(env, p, l) ==
    IF Rejects(env, p, l) THEN [p EXCEPT !.ok = FALSE] ELSE Preprocess(p, l, Holds(env, l))
\* and has read n lines, and all of them.
CompiledTo(env, f, n) ==
    LET after[i \in 0..n] == IF i = 0 THEN Beginning ELSE Compile(env, after[i - 1], f[i])
    IN  after[n]
CTextOf(p) == [ok |-> Complete(p), text |-> p.text]
CText(env, f) == CTextOf(CompiledTo(env, f, Len(f)))

\* The environment is one the -D and -U options tell of.  A symbol defined as a
\* number has that value; what other text may come to is left open.
Agrees(env, opts) ==
    \A s \in opts.known :
        /\ s \in DOMAIN env.value <=> s \in DOMAIN opts.value
        /\ s \in DOMAIN opts.value /\ opts.value[s].kind = "number" => env.value[s] = opts.value[s].n
=============================================================================
