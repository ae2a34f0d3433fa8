---------------------------- MODULE ClangInlining ----------------------------
(***************************************************************************)
(* Transformations of clang_delta that bring a value to the place where it *)
(* is used: the returned expression, the body of the function or the       *)
(* variable it was copied from.                                            *)
(*                                                                         *)
(* A comma stands in parentheses wherever its text is moved to; the        *)
(* parentheses themselves are no nodes and are not counted.                *)
(***************************************************************************)
EXTENDS ClangFunctions, ClangStatements

Total(s) == FoldLeft(LAMBDA a, b : a + b, 0, s)
IsParam(d) == d[2] = -1
IsGlobalVar(p, d) == IsDeclared(d) /\ d[2] = 0 /\ ~IsFunction(p, d[1])
\* The calls of the functions the file defines, in order.
OwnCalls(p) == FlatMap(OwnDefinitions(p), LAMBDA i : SelectSeq(InItem(p, i), LAMBDA x : At(p, x).k = "call"))

-----------------------------------------------------------------------------
(* replace-callexpr *)

\* isValidExpr: constants, parameters and globals, and operators on them.
IsValidPart(p, e, d) ==
    \/ e.k \in {"lit", "cast"}
    \/ e.k = "bin" /\ e.n # "+="
    \/ e.k = "ref" /\ (IsParam(d) \/ IsGlobalVar(p, d))
InReturn(p, i, j) == InGroup(i, j, p[i].body[j].vars)
IsValidReturnStmt(p, i, j) ==
    /\ p[i].body[j].k = "return"
    /\ \A y \in Range(InReturn(p, i, j)) : IsValidPart(p, At(p, y), EntityAt(p, y))
    /\ TypeAt(p, [i |-> i, j |-> j, v |-> 1, path |-> << >>]) # "void"
\* The uses of parameters in a return statement.
ParmRefs(p, i, j) == SelectSeq(InReturn(p, i, j), LAMBDA y : IsUse(At(p, y)) /\ IsParam(EntityAt(p, y)))

\* The nodes clang has for an expression: a variable is read through a cast,
\* unless it is assigned to, and a call has its callee.
OwnNodes(e) ==
    CASE e.k = "ref" -> 2
      [] e.k = "call" -> 3
      [] IsAssignment(e) -> IF e.as[1].k = "ref" THEN 0 ELSE 1
      [] OTHER -> 1
NumExprs(e) == Total(FlatMap(Paths(e), LAMBDA q : <<OwnNodes(Part(e, q))>>))
\* The counter goes on from the returned expression to the arguments: the
\* number of an argument includes all that was counted before.
ArgNumExprs(returned, as) ==
    [n \in DOMAIN as |-> NumExprs(returned) + Total([m \in 1..n |-> NumExprs(as[m])])]
TooLarge(grown, sum) == grown > sum + 5
HasBadEffect(returned, args, positions) ==
    IF args = << >> THEN NumExprs(returned) > 5
    ELSE TooLarge(NumExprs(returned) + Total([n \in DOMAIN positions |-> args[positions[n]] - 1]), Total(args))

\* Whether a call may become what a return statement of its callee gives.
Positions(p, i, j) == FlatMap(ParmRefs(p, i, j), LAMBDA y : <<EntityAt(p, y)[3]>>)
Fitting(p, x, i, j, positions) ==
    /\ \A n \in DOMAIN positions : positions[n] \in DOMAIN At(p, x).as
    /\ ~HasBadEffect(p[i].body[j].vars[1].init, ArgNumExprs(p[i].body[j].vars[1].init, At(p, x).as), positions)
ReturnsFor(p, x, i) ==
    SelectSeq(Where(p[i].body, LAMBDA j : IsValidReturnStmt(p, i, j)),
              LAMBDA j : Fitting(p, x, i, j, Positions(p, i, j)))
\* The function a call refers to is its last declaration so far: only if that
\* is the definition are return statements known.
DefinitionFor(p, x, d) ==
    {i \in IF IsDeclared(d) THEN {Referred(p, x, d)} ELSE {} : p[i].def /\ p[i].ret # "void"}
PairsFor(p, x, i) == FlatMap(ReturnsFor(p, x, i), LAMBDA j : <<[call |-> x, i |-> i, j |-> j]>>)
ReplaceCallInstances(p) ==
    FlatMap(Calls(p), LAMBDA x :
        FlatMap(SetToSeq(IF p[x.i].inc THEN {} ELSE DefinitionFor(p, x, EntityAt(p, x))), LAMBDA i : PairsFor(p, x, i)))

\* getNewParmRefStr: the argument, converted to the type of the parameter.
ArgumentFor(p, call, y, d) ==
    LET arg == [call EXCEPT !.path = Append(@, d[3])]
    IN  IF TypeOfEntity(p, d) = TypeAt(p, arg) THEN At(p, arg) ELSE Cast(TypeOfEntity(p, d), At(p, arg))
ReplaceCallExpr(p, r) ==
    ReplaceExpr(p, r.call,
        FoldLeft(LAMBDA e, y : WithPart(e, y.path, ArgumentFor(p, r.call, y, EntityAt(p, y))),
                 p[r.i].body[r.j].vars[1].init, ParmRefs(p, r.i, r.j)))

-----------------------------------------------------------------------------
(* simple-inliner *)

MaxNumStmts == 10
SingleMaxNumStmts == 25
\* The statements counted: blocks, declarations, control flow, binary
\* operators and calls.
NumStmts(p, i) ==
    1 + Len(SelectSeq(p[i].body, LAMBDA s : s.k \in {"{", "decl", "if", "return", "while"}))
      + Len(SelectSeq(InItem(p, i), LAMBDA x : At(p, x).k = "call" \/ (At(p, x).k = "bin" /\ At(p, x).n # "+=")))
NumCalls(p, d) == Len(SelectSeq(OwnCalls(p), LAMBDA x : EntityAt(p, x) = d))
OwnDefinition(p, d) == {i \in IF IsDeclared(d) THEN Redecls(p, d[1]) ELSE {} : p[i].def /\ ~p[i].inc}
SmallEnough(calls, stmts) == (calls = 1 /\ stmts <= SingleMaxNumStmts) \/ (calls > 1 /\ stmts <= MaxNumStmts)
HasValidArgExprs(e) ==
    \A n \in DOMAIN e.as : \A q \in Range(Paths(e.as[n])) : Part(e.as[n], q).k \in {"lit", "ref", "cast"}
\* A recursive call is known by the first declaration being the caller.
Inlinable(p, x, d) ==
    /\ d[1] # x.i
    /\ \E i \in OwnDefinition(p, d) : ~p[i].dots /\ SmallEnough(NumCalls(p, d), NumStmts(p, i))
    /\ HasValidArgExprs(At(p, x))
InlinerInstances(p) == SelectSeq(OwnCalls(p), LAMBDA x : Inlinable(p, x, EntityAt(p, x)))

\* The parameters have the names of the declaration that the call refers to.
\* An argument of the same name goes through a variable of its own.
RECURSIVE WithoutCasts(_)
WithoutCasts(e) == IF e.k = "cast" THEN WithoutCasts(e.as[1]) ELSE e
HasNameClash(f, e, a) == a \in DOMAIN e.as /\ WithoutCasts(e.as[a]) = Ref(f.params[a].name)
Clashes(f, e) == {a \in DOMAIN f.params : HasNameClash(f, e, a)}
\* The number of the variable: that of the value returned comes first.
ClashTmp(p, f, e, a) ==
    TmpName(p, Cardinality({b \in Clashes(f, e) : b <= a}) + (IF f.ret = "void" THEN 0 ELSE 1))
ParmValue(p, f, e, a) ==
    CASE a \in Clashes(f, e) -> Ref(ClashTmp(p, f, e, a))
      [] a \in DOMAIN e.as \ Clashes(f, e) -> e.as[a]
      [] a \notin DOMAIN e.as -> Nothing
ParmStrings(p, f, e) ==
    [a \in DOMAIN f.params |-> Decl(f.params[a].type, <<Var(f.params[a].name, ParmValue(p, f, e, a))>>)]
ParmsWithNameClash(p, f, e) ==
    LET clashes == Where(f.params, LAMBDA a : a \in Clashes(f, e))
    IN  [n \in DOMAIN clashes |->
            Decl(f.params[clashes[n]].type, <<Var(ClashTmp(p, f, e, clashes[n]), e.as[clashes[n]])>>)]
\* What is returned is assigned to the variable.
WithoutReturn(p, i, j, s, tmp) ==
    CASE s.k # "return" -> s
      [] s.k = "return" /\ s.vars[1].init.k # "none"
         /\ TypeAt(p, [i |-> i, j |-> j, v |-> 1, path |-> << >>]) # "void" -> Expr(Assign(Ref(tmp), s.vars[1].init))
      [] OTHER -> Expr(s.vars[1].init)
CopiedBody(p, i, parms, tmp) ==
    <<Open>> \o parms \o [j \in DOMAIN p[i].body |-> WithoutReturn(p, i, j, p[i].body[j], tmp)] \o <<Close>>
InABlock(clashes, copy) == IF clashes = << >> THEN copy ELSE <<Open>> \o clashes \o copy \o <<Close>>
Copied(p, x, i, f) ==
    InABlock(ParmsWithNameClash(p, f, At(p, x)),
             CopiedBody(p, i, ParmStrings(p, f, At(p, x)), TmpName(p, 1)))
WithCopy(p, x, i, f) ==
    IF f.ret = "void" THEN PutBefore(ReplaceExpr(p, x, Nothing), x, Copied(p, x, i, f))
    ELSE AddLocalVarToFunc(PutBefore(ReplaceExpr(p, x, Ref(TmpName(p, 1))), x, Copied(p, x, i, f)),
                           x.i, Decl(f.ret, <<Var(TmpName(p, 1), Nothing)>>))
\* The definition goes with its last call.  (A function that its own body
\* calls is copied with text that follows it; programs of that kind are left
\* out.)
Inlined(p, x, d, i) ==
    IF NumCalls(p, d) = 1 THEN RemoveFrom(WithCopy(p, x, i, p[Referred(p, x, d)]), i)
    ELSE WithCopy(p, x, i, p[Referred(p, x, d)])
InlineCall(p, x) == Inlined(p, x, EntityAt(p, x), CHOOSE i \in OwnDefinition(p, EntityAt(p, x)) : TRUE)

-----------------------------------------------------------------------------
(* copy-propagation *)

\* What the traversal knows: the place each variable was copied from last,
\* if any, the places that are copied with the uses that may become them, and
\* whether the next use is assigned to.  Nothing is forgotten at the end of a
\* block, a branch or a function.  (A set of one, so that TLC evaluates it once.)
IsSimple(e) == e.k \in {"lit", "ref"}
NotCopied == [i |-> 0, j |-> 0, v |-> 0, path |-> << >>]
Known0 == [copyOf |-> << >>, copies |-> << >>, written |-> FALSE]
Know(s, d, x) == [s EXCEPT !.copyOf = (d :> x) @@ @]
Forget(s, d) == [s EXCEPT !.copyOf = (d :> NotCopied) @@ @]
VisitVarDecl(p, s, x, e) ==
    IF x.path = << >> /\ IsSimple(e) /\ (x.j = 0 \/ p[x.i].body[IF x.j = 0 THEN 1 ELSE x.j].k = "decl")
    THEN Know(s, IF x.j = 0 THEN FirstOf(GlobalsNamed(p, p[x.i].vars[x.v].name)) ELSE <<x.i, x.j, x.v>>, x)
    ELSE s
VisitAssignment(p, s, x, e) ==
    LET d == EntityAt(p, [x EXCEPT !.path = Append(@, 1)])
        s1 == [s EXCEPT !.written = TRUE]
    IN  IF ~IsAssignment(e) \/ e.as[1].k # "ref" THEN s
        ELSE IF IsSimple(e.as[2]) THEN Know(s1, d, [x EXCEPT !.path = Append(@, 2)]) ELSE Forget(s1, d)
\* addOneDominatedExpr: not where the text is the same.
AddDominated(p, s, copy, x) ==
    IF copy = NotCopied \/ p[copy.i].inc \/ p[x.i].inc \/ At(p, copy) = At(p, x) THEN s
    ELSE [s EXCEPT !.copies = Append(@, [copy |-> copy, use |-> x])]
VisitDeclRef(p, s, x, e, d) ==
    CASE e.k # "ref" -> s
      [] e.k = "ref" /\ s.written -> [s EXCEPT !.written = FALSE]
      [] OTHER -> IF d \in DOMAIN s.copyOf THEN AddDominated(p, s, s.copyOf[d], x) ELSE s
VisitPlace(p, s, x) ==
    {VisitDeclRef(p, s2, x, At(p, x), EntityAt(p, x)) :
     s2 \in {VisitAssignment(p, s1, x, At(p, x)) : s1 \in {VisitVarDecl(p, s, x, At(p, x))}}}
RECURSIVE KnownAfter(_, _, _)
KnownAfter(p, xs, n) ==
    IF n = 0 THEN {Known0} ELSE UNION {VisitPlace(p, s, xs[n]) : s \in KnownAfter(p, xs, n - 1)}
\* An instance is a place that is copied, with its uses.
Grouped(copies) ==
    FlatMap(Where(copies, LAMBDA n : \A m \in 1..(n - 1) : copies[m].copy # copies[n].copy), LAMBDA n :
        <<[copy |-> copies[n].copy, uses |-> SelectSeq(copies, LAMBDA c : c.copy = copies[n].copy)]>>)
CopiesOf(p) == UNION {{s.copies : s \in KnownAfter(p, xs, Len(xs))} : xs \in {Places(p)}}
CopyInstances(p) == CHOOSE found \in {Grouped(copies) : copies \in CopiesOf(p)} : TRUE
DoCopyPropagation(p, r) == FoldLeft(LAMBDA q, c : ReplaceExpr(q, c.use, At(p, r.copy)), p, r.uses)
=============================================================================
