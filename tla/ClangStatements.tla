--------------------------- MODULE ClangStatements ---------------------------
(***************************************************************************)
(* Transformations of clang_delta that take an expression out of a         *)
(* statement and put it in front of it (CommonStatementVisitor).           *)
(*                                                                         *)
(* The visitor of a transformation goes through the statements of the      *)
(* function definitions.  A Visit method that returns false ends the       *)
(* traversal of the whole expression statement, not only of the operands   *)
(* of the node, so operands to the right may never be seen.                *)
(***************************************************************************)
EXTENDS CProgram

-----------------------------------------------------------------------------
(* CommonStatementVisitor *)

\* The branches that are no blocks, by the index they begin at.
Branches(body) == {i \in 2..Len(body) : IsHead(body[i - 1]) /\ body[i].k # "{"}
\* NeedParen is set when such a branch is entered and cleared when any is
\* left: it stays set in the blocks within a branch.
NeedParen(body, j) ==
    \E i \in Branches(body) : i <= j /\ \A b \in Branches(body) : EndOf(body, b) \notin i..(j - 1)
\* addStringBeforeStmt: with braces around both where NeedParen says so.
AddStringBeforeStmt(body, j, statements) ==
    IF NeedParen(body, j)
    THEN SubSeq(body, 1, j - 1) \o <<Open>> \o statements \o SubSeq(body, j, EndOf(body, j)) \o <<Close>>
         \o SubSeq(body, EndOf(body, j) + 1, Len(body))
    ELSE SubSeq(body, 1, j - 1) \o statements \o SubSeq(body, j, Len(body))
PutBefore(p, x, statements) == [p EXCEPT ![x.i].body = AddStringBeforeStmt(@, x.j, statements)]

-----------------------------------------------------------------------------
(* The traversal *)

\* The parts that are counted, in order, and whether the traversal is over.
Seeing(found, over) == [found |-> found, over |-> over]
Nowhere == Seeing(<< >>, FALSE)
Then(w, next) == Seeing(w.found \o next.found, next.over)
InTurn(ways) == FoldLeft(LAMBDA w, next : IF w.over THEN w ELSE Then(w, next), Nowhere, ways)

RECURSIVE Visit(_, _, _)
Operands(t, e, path) == [a \in DOMAIN e.as |-> Visit(t, e.as[a], Append(path, a))]
All(ways) == Flat([a \in DOMAIN ways |-> ways[a].found])

\* SimplifyCommaExpr: a comma, then both operands of any binary operator.
VisitCommas(e, path, ways) ==
    IF e.k = "bin" THEN Seeing((IF e.n = "," THEN <<path>> ELSE << >>) \o All(ways), TRUE) ELSE InTurn(ways)
\* BinOpSimplification: the operands that are binary operators; of an
\* assignment only the right one, and all again if nothing ended there.
VisitOperands(e, path, ways) ==
    CASE e.k = "bin" /\ e.n = "=" -> IF ways[2].over THEN ways[2] ELSE Then(ways[2], InTurn(ways))
      [] e.k = "bin" /\ e.n # "=" ->
            Seeing(Flat([a \in 1..2 |-> IF e.as[a].k = "bin" THEN <<Append(path, a)>> \o ways[a].found
                                                ELSE << >>]), TRUE)
      [] OTHER -> InTurn(ways)
\* LiftAssignmentExpr: the arguments that are assignments.
VisitArguments(e, path, ways) ==
    IF e.k = "call"
    THEN Seeing(Flat([a \in DOMAIN ways |-> IF IsAssignment(e.as[a]) THEN <<Append(path, a)>>
                                                  ELSE ways[a].found]), TRUE)
    ELSE InTurn(ways)
Visit(t, e, path) ==
    CASE t = "simplify-comma-expr" -> VisitCommas(e, path, Operands(t, e, path))
      [] t = "binop-simplification" -> VisitOperands(e, path, Operands(t, e, path))
      [] t = "lift-assignment-expr" -> VisitArguments(e, path, Operands(t, e, path))

\* The expressions of a statement.  The conditions of loops are left out by
\* SimplifyCommaExpr, and an assignment that is a condition is lifted.
VisitVar(t, s, v) ==
    CASE t = "simplify-comma-expr" /\ s.k = "while" -> Nowhere
      [] t = "lift-assignment-expr" /\ IsHead(s) /\ IsAssignment(s.vars[v].init) -> Seeing(<<(<< >>)>>, FALSE)
      [] OTHER -> Visit(t, s.vars[v].init, << >>)
PlacesSeen(i, j, v, w) == Seeing([n \in DOMAIN w.found |-> [i |-> i, j |-> j, v |-> v, path |-> w.found[n]]], w.over)
VisitStatement(t, i, j, s) == InTurn([v \in DOMAIN s.vars |-> PlacesSeen(i, j, v, VisitVar(t, s, v))]).found
OwnDefinitions(p) == Where(p, LAMBDA i : IsFunction(p, i) /\ p[i].def /\ ~p[i].inc)
StatementInstances(t, p) ==
    Flat([n \in DOMAIN OwnDefinitions(p) |->
        Flat([j \in DOMAIN p[OwnDefinitions(p)[n]].body |->
            VisitStatement(t, OwnDefinitions(p)[n], j, p[OwnDefinitions(p)[n]].body[j])])])

-----------------------------------------------------------------------------
(* simplify-comma-expr, lift-assignment-expr *)

\* The left operand becomes a statement.
FaultySimplifyCommaExpr(p, x) == PutBefore(ReplaceExpr(p, x, At(p, x).as[1]), x, <<Expr(At(p, x).as[1])>>)
SimplifyCommaExpr(p, x) == PutBefore(ReplaceExpr(p, x, At(p, x).as[2]), x, <<Expr(At(p, x).as[1])>>)
\* The assignment becomes a statement, its left side the value.
LiftAssignmentExpr(p, x) == PutBefore(ReplaceExpr(p, x, At(p, x).as[1]), x, <<Expr(At(p, x))>>)

-----------------------------------------------------------------------------
(* binop-simplification, remove-nested-function *)

\* A new variable of the function gets the value in front of the statement.
ThroughTmp(p, x, type, tmp) ==
    AddLocalVarToFunc(PutBefore(ReplaceExpr(p, x, Ref(tmp)), x, <<Expr(Assign(Ref(tmp), At(p, x)))>>),
                      x.i, Decl(type, <<Var(tmp, Nothing)>>))
HoistToTmp(p, x) == ThroughTmp(p, x, TypeAt(p, x), TmpName(p, 1))

\* The calls in the arguments of a call.
NestedCall(p, x) ==
    At(p, x).k = "call" /\ \E n \in 0..(Len(x.path) - 1) : At(p, [x EXCEPT !.path = SubSeq(@, 1, n)]).k = "call"
NestedCallInstances(p) ==
    Flat([n \in DOMAIN OwnDefinitions(p) |->
        SelectSeq(InItem(p, OwnDefinitions(p)[n]), LAMBDA x : NestedCall(p, x))])

-----------------------------------------------------------------------------
(* simplify-if *)

IfInstances(p) ==
    Flat([n \in DOMAIN OwnDefinitions(p) |->
        LET i == OwnDefinitions(p)[n]
            ifs == Where(p[i].body, LAMBDA j : p[i].body[j].k = "if")
        IN  [m \in DOMAIN ifs |-> [i |-> i, j |-> ifs[m]]]])
\* Where the "else" of an if statement is, or would be.
ElseAt(body, j) == EndOf(body, j + 1) + 1
WithoutElse(body, e) == IF e \in DOMAIN body /\ body[e].k = "else" THEN RemoveFrom(body, e) ELSE body
\* The condition becomes a statement; "if", the condition and "else" go.
WithoutIf(body, j) ==
    LET q == AddStringBeforeStmt(body, j, <<Expr(body[j].vars[1].init)>>)
        k == IF NeedParen(body, j) THEN j + 2 ELSE j + 1
    IN  RemoveFrom(WithoutElse(q, ElseAt(q, k)), k)
SimplifyIf(p, x) == [p EXCEPT ![x.i].body = WithoutIf(@, x.j)]
=============================================================================
