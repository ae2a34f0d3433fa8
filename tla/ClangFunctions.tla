--------------------------- MODULE ClangFunctions ---------------------------
(***************************************************************************)
(* Transformations of clang_delta on functions, their parameters and their *)
(* calls.                                                                  *)
(*                                                                         *)
(* X!Instances is the sequence the collecting visitor numbers from 1, and  *)
(* X!Rewrite what HandleTranslationUnit makes of one of them; what it      *)
(* checks before that is the same for all (ClangDelta).  An edit to an     *)
(* included file changes nothing in the file that is put out.              *)
(***************************************************************************)
EXTENDS CProgram

\* The declarations of a function that are in the file.
OwnRedecls(p, c) == {i \in Redecls(p, c) : ~p[i].inc}
EditFunctions(p, S, Edit(_)) == Listed([i \in DOMAIN p |-> IF i \in S THEN Edit(p[i]) ELSE p[i]])
\* The functions in the order their first declaration outside the included
\* files is visited.
Visited(p) ==
    LET own == Where(p, LAMBDA i : IsFunction(p, i) /\ ~p[i].inc)
    IN  FoldLeft(LAMBDA cs, i : IF Contains(cs, Canonical(p, i)) THEN cs ELSE Append(cs, Canonical(p, i)),
                 << >>, own)
Callee(c) == <<c, 0, 0>>

-----------------------------------------------------------------------------
(* param-to-global, param-to-local *)

\* The parameters that count.  The position that goes with an instance is
\* the number of parameters counted before it, not its place in the list.
ParamsThatCount(p, c) ==
    Where(p[c].params, LAMBDA a : HasBody(p, c) \/ p[c].params[a].name # "")
ParamInstances(p) ==
    LET valid(c) == ~p[c].inc /\ ~(p[c].dots /\ Len(p[c].params) = 1)
        of(c) == [a \in DOMAIN ParamsThatCount(p, c) |-> [fun |-> c, pos |-> a]]
    IN  Flat([n \in DOMAIN Visited(p) |-> IF valid(Visited(p)[n]) THEN of(Visited(p)[n]) ELSE << >>])

\* CommonParameterRewriteVisitor: the parameter goes from every declaration,
\* its argument from every call.
FaultyWithoutParam(p, c, pos) ==
    LET q == AtEach(p, CallsOf(p, Callee(c)), LAMBDA e : RemoveArg(e, pos))
    IN  EditFunctions(q, {i \in OwnRedecls(p, c) : p[i].def}, LAMBDA f : RemoveParam(f, pos))
WithoutParam(p, c, pos) ==
    LET q == AtEach(p, CallsOf(p, Callee(c)), LAMBDA e : RemoveArg(e, pos))
    IN  EditFunctions(q, OwnRedecls(p, c), LAMBDA f : RemoveParam(f, pos))

\* The definition, where the parameter becomes a variable.
Definition(p, c) == CHOOSE i \in Redecls(p, c) : p[i].def

ParamToGlobal(p, x) ==
    LET i == Definition(p, x.fun)
        param == p[i].params[x.pos]
        name == Joined(p[i].name, param.name)
        renamed == Rename(p, (<<i, -1, x.pos>> :> name))
    IN  IF ~HasBody(p, x.fun) \/ param.name = "" THEN WithoutParam(p, x.fun, x.pos)
        ELSE InsertBeforeFunc(WithoutParam(renamed, x.fun, x.pos), i, Globals(param.type, <<Var(name, Nothing)>>))

ParamToLocal(p, x) ==
    LET i == Definition(p, x.fun)
        param == p[i].params[x.pos]
        init == IF param.type \in {"int", "ptr"} THEN Lit ELSE Nothing
        q == WithoutParam(p, x.fun, x.pos)
    IN  IF ~HasBody(p, x.fun) \/ param.name = "" THEN q
        ELSE AddLocalVarToFunc(q, i, Decl(param.type, <<Var(param.name, init)>>))

-----------------------------------------------------------------------------
(* return-void *)

ReturnVoidInstances(p) == SelectSeq(Visited(p), LAMBDA c : p[c].ret # "void")

\* Every declaration returns void; the returns lose the keyword and keep the
\* expression.
ReturnsToExprs(body) ==
    Listed([j \in DOMAIN body |-> IF body[j].k = "return" THEN [body[j] EXCEPT !.k = "expr"] ELSE body[j]])
ReturnVoid(p, c) ==
    EditFunctions(p, OwnRedecls(p, c), LAMBDA f : [f EXCEPT !.ret = "void", !.body = ReturnsToExprs(@)])

-----------------------------------------------------------------------------
(* rename-fun *)

IsSpecialFun(n) == n \in {"main", "printf"}
HasValidPostfix(n) == IsSpecialFun(n) \/ Postfix("fn", n, MaxNumber) # {}
\* Whether a name that stands for d is a function, and the declaration of
\* the function a use refers to: the last one before it.
NamesFunction(d, e) == IF IsDeclared(d) THEN d[2] = 0 /\ d[3] = 0 ELSE e.k = "call"
ReferredOf(before) == CHOOSE i \in before : \A j \in before : j <= i
Referred(p, x, d) == ReferredOf({i \in Redecls(p, d[1]) : i <= x.i})
DefinedSoFar(p, x, d) == \E i \in Redecls(p, d[1]) : i <= x.i /\ p[i].def
\* The functions seen, in order: those the file declares, and those that are
\* called and have no definition yet.
IsCalledUndefined(p, x, d) ==
    /\ At(p, x).k = "call" /\ NamesFunction(d, At(p, x))
    /\ ~IsDeclared(d) \/ (~p[Referred(p, x, d)].inc /\ ~DefinedSoFar(p, x, d))
CalledUndefined(p, i) == SelectSeq(InItem(p, i), LAMBDA x : IsCalledUndefined(p, x, EntityAt(p, x)))
EntitiesAt(p, xs) == [n \in DOMAIN xs |-> EntityAt(p, xs[n])]
SeenAt(p, i) ==
    IF p[i].inc THEN << >>
    ELSE (IF IsFunction(p, i) /\ ~p[Canonical(p, i)].inc THEN <<Callee(Canonical(p, i))>> ELSE << >>)
         \o EntitiesAt(p, CalledUndefined(p, i))
Seen(p) == Flat([i \in DOMAIN p |-> SeenAt(p, i)])
FunName(p, e) == IF IsDeclared(e) THEN p[e[1]].name ELSE e[3]
AddFunction(p, f, e) ==
    CASE e \in DOMAIN f -> f
      [] e \notin DOMAIN f /\ IsSpecialFun(FunName(p, e)) -> (e :> FunName(p, e)) @@ f
      [] OTHER -> (e :> Numbered("fn", 1 + Cardinality({d \in DOMAIN f : ~IsSpecialFun(FunName(p, d))}))) @@ f
FunToName(p) == FoldLeft(LAMBDA f, e : AddFunction(p, f, e), << >>, Seen(p))
AllValidNumbers(p, seen) == UNION {Postfix("fn", FunName(p, e), MaxNumber) : e \in seen}
FaultyConsecutiveFromOne(S) == S = {}
ConsecutiveFromOne(S) == S = {} \/ (1 \in S /\ Cardinality(S) = CHOOSE m \in S : \A n \in S : n <= m)
NamesMissing(p, seen) ==
    (\E e \in seen : ~HasValidPostfix(FunName(p, e))) \/ ~ConsecutiveFromOne(AllValidNumbers(p, seen))
RenameFunInstances(p) == IF NamesMissing(p, Range(Seen(p))) THEN <<"all">> ELSE << >>
\* A use of a function that was not seen fails an assertion.
UseFails(p, x, d, seen) ==
    /\ ~p[x.i].inc /\ NamesFunction(d, At(p, x))
    /\ IsDeclared(d) => ~p[Referred(p, x, d)].inc
    /\ d \notin seen
RenameFunFails(p) == \E seen \in {Range(Seen(p))} : \E x \in Range(Uses(p)) : UseFails(p, x, EntityAt(p, x), seen)
\* The declarations of a function of an included file keep its name.
KeepNames(q, p, kept) ==
    Listed([i \in DOMAIN q |-> IF i \in kept THEN [q[i] EXCEPT !.name = p[i].name] ELSE q[i]])
RenameFun(p, all) ==
    KeepNames(Rename(p, FunToName(p)), p, {i \in Functions(p) : p[i].inc \/ p[Canonical(p, i)].inc})

-----------------------------------------------------------------------------
(* unify-function-decl, move-function-body *)

\* The first declaration and the last one, when one is a static declaration
\* and the other a definition that does not say so.
UnifyInstances(p) ==
    LET pair(c) == LET last == CHOOSE i \in Redecls(p, c) : \A j \in Redecls(p, c) : j <= i
                   IN  IF p[c].def THEN [def |-> c, decl |-> last] ELSE [def |-> last, decl |-> c]
        valid(c) == LET x == pair(c)
                    IN  /\ HasBody(p, c) /\ x.def # x.decl
                        /\ p[x.def].def /\ p[x.decl].static /\ ~p[x.def].static
        own == SelectSeq(Visited(p), valid)
    IN  [n \in DOMAIN own |-> pair(own[n])]
UnifyFunctionDecl(p, x) == RemoveFrom([p EXCEPT ![x.def].static = TRUE], x.decl)

\* The definitions that have a declaration before them and not next to it.
\* The map from declaration to definition is keyed by addresses, so the
\* instances are numbered in any order.
MoveBodyStep(p, s, i) ==
    LET c == Canonical(p, i)
        first == IF c \in DOMAIN s.first THEN s.first ELSE (c :> i) @@ s.first
    IN  CASE ~IsFunction(p, i) \/ p[i].inc -> [s EXCEPT !.prev = 0]
          [] IsFunction(p, i) /\ ~p[i].inc /\ p[i].def ->
                IF c \notin DOMAIN s.first \/ (s.prev # 0 /\ c = Canonical(p, s.prev))
                THEN [s EXCEPT !.prev = 0]
                ELSE [s EXCEPT !.moves = Append(@, [decl |-> s.first[c], def |-> i]), !.prev = i]
          [] OTHER -> [s EXCEPT !.prev = i, !.first = first]
MoveBodyInstances(p) ==
    FoldLeft(LAMBDA s, i : MoveBodyStep(p, s, i), [prev |-> 0, first |-> << >>, moves |-> << >>],
             [i \in DOMAIN p |-> i]).moves
MoveFunctionBody(p, x) == InsertBefore(RemoveFrom(p, x.def), x.decl + 1, p[x.def])

-----------------------------------------------------------------------------
(* replace-undefined-function *)

SameType(f, g) == /\ f.ret = g.ret /\ f.dots = g.dots /\ Len(f.params) = Len(g.params)
                  /\ \A a \in DOMAIN f.params : f.params[a].type = g.params[a].type
\* Each declaration without a body joins the first function of its type: a
\* function declared twice joins itself.
Replaceable(p) ==
    LET undefined == Where(p, LAMBDA i : IsFunction(p, i) /\ ~p[i].inc /\ ~HasBody(p, Canonical(p, i)))
        Handle(s, i) ==
            LET c == Canonical(p, i)
                same == {n \in DOMAIN s : SameType(p[c], p[s[n].by])}
                n == CHOOSE m \in same : TRUE
            IN  IF same = {} THEN Append(s, [by |-> c, replaced |-> << >>])
                ELSE IF Contains(s[n].replaced, c) THEN s
                ELSE [s EXCEPT ![n].replaced = Append(@, c)]
    IN  FoldLeft(Handle, << >>, undefined)
ReplaceUndefinedInstances(p) ==
    Flat([n \in DOMAIN Replaceable(p) |->
        LET r == Replaceable(p)[n]
        IN  [m \in DOMAIN r.replaced |-> [by |-> r.by, replaced |-> r.replaced[m]]]])
ReplaceUndefinedFunction(p, x) ==
    LET q == AtEach(p, CallsOf(p, Callee(x.replaced)), LAMBDA e : [e EXCEPT !.n = p[x.by].name])
    IN  Selected(q, DOMAIN q \ OwnRedecls(p, x.replaced))

-----------------------------------------------------------------------------
(* replace-function-def-with-decl, remove-unused-function *)

FunctionDefInstances(p) == Where(p, LAMBDA i : IsFunction(p, i) /\ ~p[i].inc /\ p[i].def)
\* The body becomes ";", and no declaration says "inline" any more.
RewriteOneFunctionDef(p, i) ==
    LET q == [p EXCEPT ![i].def = FALSE, ![i].body = << >>]
    IN  IF p[i].inline THEN EditFunctions(q, OwnRedecls(p, Canonical(p, i)), LAMBDA f : [f EXCEPT !.inline = FALSE])
        ELSE q
ReplaceFunctionDefsWithDecl(p, is) == FoldLeft(RewriteOneFunctionDef, p, Reverse(is))

\* A function is referenced by a use anywhere, its own body included.
RemoveUnusedFunctionInstances(p) ==
    SelectSeq(Visited(p), LAMBDA c : p[c].name # "main" /\ UsesOf(p, Callee(c)) = << >> /\ ~p[c].inc)
\* Every declaration goes that is written in the file.
RemoveUnusedFunctions(p, cs) ==
    Selected(p, {i \in DOMAIN p : IsFunction(p, i) /\ Canonical(p, i) \in Range(cs) => p[i].inc})

-----------------------------------------------------------------------------
(* callexpr-to-value, simplify-callexpr *)

CallInstances(p) == SelectSeq(Calls(p), LAMBDA x : ~p[x.i].inc)
\* The function visited last before the call.
CurrentFD(p, x) == CHOOSE i \in Functions(p) : i <= x.i /\ \A j \in Functions(p) : j <= x.i => j <= i
\* A value for each argument and one for the result; a call without
\* arguments goes altogether.
ArgTypes(p, x) == [a \in DOMAIN At(p, x).as |-> TypeAt(p, [x EXCEPT !.path = Append(@, a)])]
NotVoid(t) == IF t = "void" THEN << >> ELSE <<t>>
ValueFor(p, types, n) ==
    IF types[n] = "struct" THEN Ref(TmpName(p, Cardinality({m \in 1..n : types[m] = "struct"}))) ELSE Lit
\* Each variable is declared before those that are there.
DeclareTmps(q, p, i, n) ==
    FoldLeft(LAMBDA r, m : InsertBeforeFunc(r, i, Globals("struct", <<Var(TmpName(p, m), Nothing)>>)),
             q, [m \in 1..n |-> m])
CallExprToValue(p, x) ==
    LET t == TypeAt(p, x)
    IN  CASE t = "void" -> ReplaceExpr(p, x, Nothing)
          [] t = "struct" -> DeclareTmps(ReplaceExpr(p, x, Ref(TmpName(p, 1))), p, CurrentFD(p, x), 1)
          [] OTHER -> ReplaceExpr(p, x, Lit)

WithValues(p, x, types) ==
    DeclareTmps(ReplaceExpr(p, x, Comma(Listed([n \in DOMAIN types |-> ValueFor(p, types, n)]))),
                p, CurrentFD(p, x), Cardinality({m \in DOMAIN types : types[m] = "struct"}))
SimplifyCallExpr(p, x) ==
    IF At(p, x).as = << >> THEN ReplaceExpr(p, x, Nothing)
    ELSE WithValues(p, x, ArgTypes(p, x) \o NotVoid(TypeAt(p, x)))
=============================================================================
