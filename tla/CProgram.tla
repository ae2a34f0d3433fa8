------------------------------ MODULE CProgram ------------------------------
(***************************************************************************)
(* C programs as clang_delta's transformations see and rewrite them.       *)
(*                                                                         *)
(* A transformation parses a file with clang, walks the tree and edits the *)
(* text; the next run parses the new text.  A program is therefore kept as *)
(* it is written, with names and no links between a use and its            *)
(* declaration: Binding is what clang makes of a name, and is worked out   *)
(* anew for every program.                                                 *)
(*                                                                         *)
(* A program is a sequence of items: functions and groups of variables.    *)
(*   function:  name, ret, params (name and type), dots for "...", static, *)
(*              inline, def and body, inc for an item of an included file  *)
(*   variables: type, static, vars (name and initialiser), inc             *)
(* A body is a sequence of statements: "{" and "}" of inner blocks, "decl" *)
(* (a group of variables), "expr", "return", and the heads "if", "else"    *)
(* and "while", which the statement or block that follows belongs to.  An  *)
(* expression is a node with a kind, a name and its operands.              *)
(***************************************************************************)
EXTENDS Naturals, Integers, Sequences, SequencesExt, FiniteSets, TLC

Node(k, n, as) == [k |-> k, n |-> n, as |-> as]
Lit == Node("lit", "", << >>)
Nothing == Node("none", "", << >>)
Ref(n) == Node("ref", n, << >>)
Call(n, as) == Node("call", n, as)
Bin(op, a, b) == Node("bin", op, <<a, b>>)
Comma(as) == FoldLeft(LAMBDA e, a : Bin(",", e, a), Head(as), Tail(as))
Assign(a, b) == Bin("=", a, b)
Cast(t, e) == Node("cast", t, <<e>>)
IsAssignment(e) == e.k = "bin" /\ e.n \in {"=", "+="}

Param(n, t) == [name |-> n, type |-> t]
Var(n, e) == [name |-> n, init |-> e]
Decl(t, vs) == [k |-> "decl", type |-> t, vars |-> vs]
Expr(e) == [k |-> "expr", vars |-> <<Var("", e)>>]
Return(e) == [k |-> "return", vars |-> <<Var("", e)>>]
Open == [k |-> "{", vars |-> << >>]
Close == [k |-> "}", vars |-> << >>]
If(e) == [k |-> "if", vars |-> <<Var("", e)>>]
Else == [k |-> "else", vars |-> << >>]
While(e) == [k |-> "while", vars |-> <<Var("", e)>>]

Function(ret, n, ps) == [k |-> "fun", ret |-> ret, name |-> n, params |-> ps, dots |-> FALSE,
                         static |-> FALSE, inline |-> FALSE, def |-> FALSE, body |-> << >>,
                         inc |-> FALSE]
Defined(f, body) == [f EXCEPT !.def = TRUE, !.body = body]
Globals(t, vs) == [k |-> "vars", type |-> t, vars |-> vs, static |-> FALSE, inc |-> FALSE]

IsFunction(p, i) == p[i].k = "fun"
Functions(p) == {i \in DOMAIN p : IsFunction(p, i)}
\* The indices of a sequence that satisfy a condition, in order.
Where(s, Test(_)) == SelectSeq([i \in DOMAIN s |-> i], Test)
\* A value bound to a name, so that TLC works it out once.
With(x, Op(_)) == CHOOSE r \in {Op(y) : y \in {x}} : TRUE
\* A sequence written out element by element, for the same reason.
Listed(s) == s \o << >>
Flat(s) == With(Listed(s), FlattenSeq)
\* The sequences that an operator gives for the elements of one, in a row.
FlatMap(s, Op(_)) == With(s, LAMBDA r : Flat([i \in DOMAIN r |-> Op(r[i])]))
\* The elements at the indices in S, in order.
Selected(s, S) == LET kept == Where(s, LAMBDA i : i \in S) IN Listed([n \in DOMAIN kept |-> s[kept[n]]])
RemoveFrom(s, i) == SubSeq(s, 1, i - 1) \o SubSeq(s, i + 1, Len(s))
InsertBefore(s, i, x) == SubSeq(s, 1, i - 1) \o <<x>> \o SubSeq(s, i, Len(s))

\* Where the statement that begins at an index ends.
IsHead(s) == s.k \in {"if", "else", "while", "for"}
Depth(body, j, n) ==
    Len(SelectSeq(SubSeq(body, j, n), LAMBDA s : s.k = "{")) - Len(SelectSeq(SubSeq(body, j, n), LAMBDA s : s.k = "}"))
MatchingClose(body, j) ==
    CHOOSE n \in j..Len(body) : /\ body[n].k = "}" /\ Depth(body, j, n) = 0
                                /\ \A m \in j..(n - 1) : Depth(body, j, m) > 0
RECURSIVE EndOf(_, _)
AfterElse(body, e) == IF e < Len(body) /\ body[e + 1].k = "else" THEN EndOf(body, e + 2) ELSE e
EndOf(body, j) ==
    CASE body[j].k = "{" -> MatchingClose(body, j)
      [] body[j].k \in {"while", "for"} -> EndOf(body, j + 1)
      [] body[j].k = "if" -> AfterElse(body, EndOf(body, j + 1))
      [] OTHER -> j

-----------------------------------------------------------------------------
(* Where the expressions are *)

\* The ways down from an expression to its parts, in the order of
\* RecursiveASTVisitor: a node before its operands.
RECURSIVE Paths(_)
Paths(e) == <<(<< >>)>> \o
            Flat([a \in DOMAIN e.as |-> LET sub == Paths(e.as[a])
                                              IN  [x \in DOMAIN sub |-> <<a>> \o sub[x]]])
RECURSIVE Part(_, _)
Part(e, path) == IF path = << >> THEN e ELSE Part(e.as[Head(path)], Tail(path))
RECURSIVE WithPart(_, _, _)
WithPart(e, path, new) ==
    IF path = << >> THEN new ELSE [e EXCEPT !.as[Head(path)] = WithPart(@, Tail(path), new)]

\* A place is an item, a statement of it (0 for a group of globals), a
\* variable of that statement and a way down its expression.
InGroup(i, j, vars) ==
    Flat([v \in DOMAIN vars |-> LET sub == Paths(vars[v].init)
                                      IN  [x \in DOMAIN sub |-> [i |-> i, j |-> j, v |-> v, path |-> sub[x]]]])
Statements(item) == IF item.k = "fun" THEN item.body ELSE <<item>>
InItem(p, i) == Flat([n \in DOMAIN Statements(p[i]) |->
                    InGroup(i, IF IsFunction(p, i) THEN n ELSE 0, Statements(p[i])[n].vars)])
Places(p) == Flat([i \in DOMAIN p |-> InItem(p, i)])
At(p, x) == IF x.j = 0 THEN Part(p[x.i].vars[x.v].init, x.path)
            ELSE Part(p[x.i].body[x.j].vars[x.v].init, x.path)
\* RewriteUtils::replaceExpr
ReplaceExpr(p, x, new) ==
    IF x.j = 0 THEN [p EXCEPT ![x.i].vars[x.v].init = WithPart(@, x.path, new)]
    ELSE [p EXCEPT ![x.i].body[x.j].vars[x.v].init = WithPart(@, x.path, new)]
\* The same edit at several places, the last first, so that an inner
\* expression is done before the one around it.
AtEachPlace(p, xs, Edit(_, _)) ==
    With(Listed(xs), LAMBDA s : FoldLeft(LAMBDA q, x : ReplaceExpr(q, x, Edit(x, At(q, x))), p, Reverse(s)))
AtEach(p, xs, Edit(_)) == AtEachPlace(p, xs, LAMBDA x, e : Edit(e))

-----------------------------------------------------------------------------
(* What a name stands for *)

\* The inner blocks that are open at a statement, by the index of their "{".
Blocks(body, j) ==
    FoldLeft(LAMBDA open, n : CASE body[n].k = "{" -> Append(open, n)
                                [] body[n].k = "}" -> Front(open)
                                [] OTHER -> open,
             << >>, [n \in 1..j |-> n])

\* Functions and globals are known by their first declaration (clang's
\* canonical declaration), parameters and locals by their own, and a name
\* without a declaration (a function declared by its call) by itself.
Undeclared(n) == <<0, 0, n>>
IsDeclared(e) == e[1] # 0
FirstOf(S) == CHOOSE e \in S : \A f \in S : e[1] < f[1] \/ (e[1] = f[1] /\ e[3] <= f[3])
LastOf(S) == CHOOSE e \in S : \A f \in S : e[2] > f[2] \/ (e[2] = f[2] /\ e[3] >= f[3])
GlobalsNamed(p, n) ==
    {<<i, 0, 0>> : i \in {i \in Functions(p) : p[i].name = n}}
    \cup UNION {{<<i, 0, v>> : v \in {v \in DOMAIN p[i].vars : p[i].vars[v].name = n}} :
                i \in {i \in DOMAIN p : p[i].k \in {"vars", "enum"}}}
LocalsNamed(p, i, n) ==
    UNION {{<<i, j, v>> : v \in {v \in DOMAIN p[i].body[j].vars : p[i].body[j].vars[v].name = n}} :
           j \in {j \in DOMAIN p[i].body : p[i].body[j].k = "decl"}}
\* The declarations a name may stand for at a place.
LocalsAt(p, x, n) ==
    {e \in IF x.j = 0 THEN {} ELSE LocalsNamed(p, x.i, n) :
        /\ e[2] < x.j \/ (e[2] = x.j /\ e[3] <= x.v)
        /\ IsPrefix(Blocks(p[x.i].body, e[2]), Blocks(p[x.i].body, x.j))}
ParamsAt(p, x, n) ==
    IF x.j = 0 THEN {}
    ELSE {<<x.i, -1, a>> : a \in {a \in DOMAIN p[x.i].params : p[x.i].params[a].name = n}}
GlobalsAt(p, x, n) == {e \in GlobalsNamed(p, n) : e[1] < x.i \/ (e[1] = x.i /\ e[3] <= x.v)}
Innermost(locals, params, globals, n) ==
    CASE locals # {} -> LastOf(locals)
      [] locals = {} /\ params # {} -> CHOOSE e \in params : TRUE
      [] locals = {} /\ params = {} /\ globals # {} -> FirstOf(globals)
      [] OTHER -> Undeclared(n)
Binding(p, x, n) == Innermost(LocalsAt(p, x, n), ParamsAt(p, x, n), GlobalsAt(p, x, n), n)
IsUse(e) == e.k \in {"ref", "call"}
EntityAt(p, x) == Binding(p, x, At(p, x).n)
Uses(p) == SelectSeq(Places(p), LAMBDA x : IsUse(At(p, x)))
UsesOf(p, e) == SelectSeq(Uses(p), LAMBDA x : EntityAt(p, x) = e)
CallsOf(p, e) == SelectSeq(UsesOf(p, e), LAMBDA x : At(p, x).k = "call")
Calls(p) == SelectSeq(Places(p), LAMBDA x : At(p, x).k = "call")

\* The canonical declaration of a function, and all its declarations.
Canonical(p, i) == FirstOf(GlobalsNamed(p, p[i].name))[1]
Redecls(p, c) == {i \in Functions(p) : p[i].name = p[c].name}
HasBody(p, c) == \E i \in Redecls(p, c) : p[i].def

\* The type of an expression.
TypeOfEntity(p, e) ==
    CASE ~IsDeclared(e) -> "int"
      [] IsDeclared(e) /\ e[2] = -1 -> p[e[1]].params[e[3]].type
      [] IsDeclared(e) /\ e[2] = 0 -> IF e[3] = 0 THEN p[e[1]].ret ELSE p[e[1]].type
      [] IsDeclared(e) /\ e[2] > 0 -> p[e[1]].body[e[2]].type
RECURSIVE TypeAt(_, _)
TypeAt(p, x) ==
    LET e == At(p, x)
    IN  CASE IsUse(e) -> TypeOfEntity(p, EntityAt(p, x))
          [] e.k = "cast" -> e.n
          [] e.k = "bin" /\ e.n = "," -> TypeAt(p, [x EXCEPT !.path = Append(@, 2)])
          [] e.k = "bin" /\ IsAssignment(e) -> TypeAt(p, [x EXCEPT !.path = Append(@, 1)])
          [] OTHER -> "int"

-----------------------------------------------------------------------------
(* Edits of RewriteUtils that several transformations share *)

\* removeParamFromFuncDecl and removeArgFromCallExpr; an argument that is
\* not there is left alone.
RemoveParam(f, pos) == [f EXCEPT !.params = RemoveFrom(@, pos)]
RemoveArg(e, pos) == IF pos \in DOMAIN e.as THEN [e EXCEPT !.as = RemoveFrom(@, pos)] ELSE e

\* insertStringBeforeFunc and addLocalVarToFunc.
InsertBeforeFunc(p, i, item) == InsertBefore(p, i, item)
AddLocalVarToFunc(p, i, decl) == [p EXCEPT ![i].body = <<decl>> \o @]

\* A declaration goes with its statement when it is alone there
\* (removeVarFromDeclStmt, removeVarDecl).
RemoveLocal(p, e) ==
    IF Len(p[e[1]].body[e[2]].vars) = 1 THEN [p EXCEPT ![e[1]].body = RemoveFrom(@, e[2])]
    ELSE [p EXCEPT ![e[1]].body[e[2]].vars = RemoveFrom(@, e[3])]
RemoveGlobal(p, e) ==
    IF Len(p[e[1]].vars) = 1 THEN RemoveFrom(p, e[1])
    ELSE [p EXCEPT ![e[1]].vars = RemoveFrom(@, e[3])]

\* Every declaration and use of the entities that names renames.
NewName(names, e, old) == IF e \in DOMAIN names THEN names[e] ELSE old
RenameUses(p, names) ==
    FoldLeft(LAMBDA q, x : ReplaceExpr(q, x, [At(q, x) EXCEPT !.n = NewName(names, EntityAt(p, x), @)]), p, Uses(p))
RenameGroup(vars, names, Entity(_, _)) ==
    Listed([v \in DOMAIN vars |-> [vars[v] EXCEPT !.name = NewName(names, Entity(@, v), @)]])
RenameFunction(p, f, i, names) ==
    [f EXCEPT !.name = NewName(names, <<Canonical(p, i), 0, 0>>, @),
              !.params = RenameGroup(@, names, LAMBDA n, a : <<i, -1, a>>),
              !.body = Listed([j \in DOMAIN @ |->
                           IF @[j].k # "decl" THEN @[j]
                           ELSE [@[j] EXCEPT !.vars = RenameGroup(@, names, LAMBDA n, v : <<i, j, v>>)]])]
RenameDecls(p, q, names) ==
    Listed([i \in DOMAIN q |->
        IF IsFunction(q, i) THEN RenameFunction(p, q[i], i, names)
        ELSE [q[i] EXCEPT !.vars = RenameGroup(@, names, LAMBDA n, v : FirstOf(GlobalsNamed(p, n)))]])
Rename(p, names) == RenameDecls(p, RenameUses(p, names), names)

-----------------------------------------------------------------------------
(* Names that are made up *)

\* f_x, fn1: a prefix and a number.
Joined(a, b) == a \o "_" \o b
Numbered(prefix, n) == prefix \o ToString(n)
\* The number after the prefix, if the name is one: a set with at most one.
Postfix(prefix, name, bound) == {n \in 0..bound : name = Numbered(prefix, n)}
\* TransNameQuery: the largest number a variable has with a prefix, or 0.
VarNames(p) ==
    UNION {IF IsFunction(p, i)
           THEN {p[i].params[a].name : a \in DOMAIN p[i].params}
                \cup UNION {{p[i].body[j].vars[v].name : v \in DOMAIN p[i].body[j].vars} : j \in DOMAIN p[i].body}
           ELSE {p[i].vars[v].name : v \in DOMAIN p[i].vars} : i \in DOMAIN p}
MaxPostfix(p, prefix, bound) ==
    LET used == UNION {Postfix(prefix, n, bound) : n \in VarNames(p)}
    IN  CHOOSE m \in used \cup {0} : \A n \in used : n <= m

MaxNumber == 9      \* bound: the numbers in the names that are made up
TmpPrefix == "__trans_tmp_"
TmpName(p, n) == Numbered(TmpPrefix, MaxPostfix(p, TmpPrefix, MaxNumber) + n)
=============================================================================
