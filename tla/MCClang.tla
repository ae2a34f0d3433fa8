------------------------------- MODULE MCClang -------------------------------
(***************************************************************************)
(* pass_clang and pass_clang_binsrch at work: every transformation on all  *)
(* the programs that compile and are put together from a few items, with a *)
(* test that may accept or reject any variant that compiles.               *)
(***************************************************************************)
EXTENDS ClangDelta, PassClang, MCTypes

CONSTANTS
    Known,          \* the transformations that are registered
    MaxItems,       \* bound: the items of a program at the start
    BinarySearch    \* the arguments of pass_clang_binsrch in the schedule

RunClang(which, p) == [call \in Nat \X Nat |-> Run(Arguments(which, call), p, Known)]

-----------------------------------------------------------------------------
(* Which programs compile *)

\* Expressions: nothing is left out but a whole expression, names are
\* declared, and operands have values.
\* Whether the value of an expression is used: it is not where a statement
\* is only that expression, nor on the left of a comma.
RECURSIVE ValueUsed(_, _)
ValueUsed(p, x) ==
    IF x.path = << >> THEN x.j = 0 \/ (x.j > 0 /\ p[x.i].body[x.j].k \in {"decl", "if", "while"})
    ELSE \A up \in {[x EXCEPT !.path = Front(@)]} :
            IF At(p, up).k = "bin" /\ At(p, up).n = "," THEN Last(x.path) = 2 /\ ValueUsed(p, up) ELSE TRUE
ValueOK(p, x, e, d) ==
    /\ e.k = "none" => x.path = << >>
    /\ e.k = "ref" => IsDeclared(d) /\ ~NamesFunction(d, e)
    /\ e.k = "call" /\ IsDeclared(d) =>
          /\ NamesFunction(d, e)
          /\ \/ Len(e.as) = Len(p[d[1]].params)
             \/ p[d[1]].dots /\ Len(e.as) > Len(p[d[1]].params)
    /\ IsAssignment(e) => e.as[1].k = "ref"
    /\ ValueUsed(p, x) => e.k = "none" \/ TypeAt(p, x) # "void"
\* Heads and branches belong together, and a branch is no declaration.
StructureOK(body) ==
    /\ Cardinality({j \in DOMAIN body : body[j].k = "{"}) = Cardinality({j \in DOMAIN body : body[j].k = "}"})
    /\ \A j \in DOMAIN body : IsHead(body[j]) =>
          j < Len(body) /\ body[j + 1].k \notin {"decl", "}", "else"}
    /\ \A j \in DOMAIN body : body[j].k = "else" =>
          \E i \in 1..(j - 1) : body[i].k = "if" /\ EndOf(body, i + 1) = j - 1
DeclarationsOK(p) ==
    /\ \A i, j \in Functions(p) : p[i].name = p[j].name =>
          /\ i # j => ~(p[i].def /\ p[j].def)
          /\ p[i].ret = p[j].ret /\ p[i].dots = p[j].dots
          /\ [a \in DOMAIN p[i].params |-> p[i].params[a].type] = [a \in DOMAIN p[j].params |-> p[j].params[a].type]
          /\ i < j /\ p[j].static => p[Canonical(p, i)].static
    /\ \A i \in DOMAIN p \ Functions(p), j \in DOMAIN p \ Functions(p) :
          \A v \in DOMAIN p[i].vars, w \in DOMAIN p[j].vars :
             p[i].vars[v].name = p[j].vars[w].name =>
                /\ p[i].type = p[j].type /\ p[i].static = p[j].static
                /\ <<i, v>> # <<j, w>> => p[i].vars[v].init = Nothing \/ p[j].vars[w].init = Nothing
    /\ \A i \in DOMAIN p \ Functions(p), j \in Functions(p) : \A v \in DOMAIN p[i].vars : p[i].vars[v].name # p[j].name
    /\ \A x \in Range(Calls(p)) : IsDeclared(EntityAt(p, x)) \/ GlobalsNamed(p, At(p, x).n) = {}
GroupsOK(p) == \A i \in DOMAIN p : IF IsFunction(p, i)
                                   THEN \A j \in DOMAIN p[i].body : p[i].body[j].k = "decl" => p[i].body[j].vars # << >>
                                   ELSE p[i].vars # << >>
LocalsOK(p) ==
    \A i \in Functions(p) :
       LET body == p[i].body
           locals == {<<j, v>> \in (DOMAIN body) \X (1..9) : body[j].k = "decl" /\ v \in DOMAIN body[j].vars}
           named == {a \in DOMAIN p[i].params : p[i].params[a].name # ""}
       IN  /\ \A d, e \in locals : d # e /\ Blocks(body, d[1]) = Blocks(body, e[1]) =>
                 body[d[1]].vars[d[2]].name # body[e[1]].vars[e[2]].name
           /\ \A a, b \in named : a # b => p[i].params[a].name # p[i].params[b].name
           /\ \A d \in locals, a \in named : Blocks(body, d[1]) = << >> =>
                 body[d[1]].vars[d[2]].name # p[i].params[a].name
           /\ \A d \in locals : body[d[1]].vars[d[2]].name # ""
           /\ p[i].def => named = DOMAIN p[i].params
Compiles(p) ==
    /\ p # << >> /\ GroupsOK(p)
    /\ \A i \in Functions(p) : StructureOK(p[i].body)
    /\ LocalsOK(p)
    /\ DeclarationsOK(p)
    /\ \A x \in Range(Places(p)) : ValueOK(p, x, At(p, x), EntityAt(p, x))

-----------------------------------------------------------------------------
(* The programs *)

Inc(item) == [item EXCEPT !.inc = TRUE]
Static(item) == [item EXCEPT !.static = TRUE]
A == Param("a", "int")
F == Function("int", "f", <<A>>)
FUnnamed == Function("int", "f", <<Param("", "int")>>)
FDef == Defined(F, <<Return(Ref("a"))>>)
CallF == Call("f", <<Lit>>)
G == Function("int", "g", <<A>>)
GDef == Defined(Function("int", "g", << >>), <<Return(CallF)>>)
GSelf == Defined(G, <<Expr(Call("g", <<Ref("a")>>)), Return(CallF)>>)
Fn1 == Function("int", "fn1", << >>)
H == Function("void", "h", <<A, Param("", "ptr"), Param("s", "struct")>>)
HDef == Defined(Function("void", "h", <<A, Param("q", "ptr"), Param("s", "struct")>>),
                <<Expr(Ref("q")), Open, Decl("int", <<Var("s", Ref("a"))>>), Expr(Ref("s")), Close>>)
HCall == Defined(Function("void", "k", << >>), <<Decl("struct", <<Var("z", Nothing)>>), Expr(Call("h", <<Lit, Lit, Ref("z")>>))>>)
InlineF == [FDef EXCEPT !.inline = TRUE]
VarX == Globals("int", <<Var("x", Nothing)>>)
VarXY == Globals("int", <<Var("x", Lit), Var("y", Nothing)>>)
VarFA == Globals("int", <<Var("f_a", Nothing)>>)

SF == Function("struct", "s", << >>)
Calls1 == Defined(Function("void", "m", << >>),
                  <<Expr(Call("f", <<Call("f", <<Lit>>)>>)), Decl("struct", <<Var("__trans_tmp_1", Call("s", << >>))>>),
                    Expr(Call("t", <<Call("s", << >>), Ref("__trans_tmp_1")>>))>>)
TDecl == Function("void", "t", <<Param("", "struct"), Param("", "struct")>>)
Printf == [Function("int", "printf", <<Param("", "ptr")>>) EXCEPT !.dots = TRUE]

Body1 == Defined(Function("int", "v", <<Param("p", "int")>>),
                 <<Decl("int", <<Var("x", Ref("p")), Var("b", Ref("x"))>>),
                   Open, Decl("int", <<Var("x", Nothing)>>), Decl("int", <<Var("z", Ref("x"))>>), Close,
                   Decl("int", <<Var("y", Nothing)>>), Return(Ref("b"))>>)
Body2 == Defined(Function("int", "w", <<Param("x", "int"), Param("p2", "int")>>),
                 <<Decl("int", <<Var("p1", Nothing)>>), Return(Comma(<<Ref("x"), Ref("p2")>>))>>)
Body3 == Defined(Function("int", "u", <<Param("a", "int"), Param("par", "int")>>),
                 <<Decl("int", <<Var("b", Nothing)>>), Return(Comma(<<Ref("long"), Ref("b"), Ref("a"), Ref("par"), Ref("p1")>>))>>)
P1Fun == Function("int", "p1", << >>)
VarFn == Globals("int", <<Var("fn1", Nothing)>>)
GVar == Defined(Function("int", "fn2", << >>), <<Decl("int", <<Var("fn1", Nothing)>>), Return(Comma(<<Call("f", <<Lit>>), Ref("fn1")>>))>>)
VarAB == Globals("int", <<Var("long", Nothing), Var("b", Nothing)>>)
VarP == Globals("int", <<Var("p1", Nothing)>>)
VarPtr == Static(Globals("ptr", <<Var("x2", Nothing)>>))

K == Function("void", "k", <<A>>)
\* Branches without braces, a declaration in a block within one, a loop.
Branching == Defined(Function("int", "b", <<A>>),
    <<If(Comma(<<Lit, Assign(Ref("a"), Lit)>>)), Expr(CallF),
      Else, If(Assign(Ref("a"), CallF)), Open, Decl("int", <<Var("v", Bin("+", Bin("*", Lit, Lit), Lit))>>),
      Expr(Call("k", <<Ref("v")>>)), Close,
      Else, While(Call("f", <<Call("f", <<Ref("a")>>)>>)), Expr(Call("k", <<Assign(Ref("a"), Lit)>>)),
      Return(Ref("a"))>>)
\* What a traversal misses, and what leaves its scope.
Expressions == Defined(Function("int", "e", <<A>>),
    <<Decl("int", <<Var("x", Comma(<<Lit, Lit>>)), Var("y", Bin("+", Ref("x"), Comma(<<Ref("x"), CallF>>)))>>),
      Expr(Assign(Ref("a"), Bin("+", Lit, Bin("*", Bin("+", Ref("x"), Lit), Lit)))),
      Expr(Call("f", <<Call("f", <<Lit>>)>>)),
      Return(Call("f", <<Comma(<<Call("k", <<Lit>>), Assign(Ref("y"), Assign(Ref("a"), CallF))>>)>>))>>)
Loops == Defined(Function("void", "l", <<A>>),
    <<While(Bin("+", Ref("a"), Bin("*", Ref("a"), Lit))), If(Bin("+=", Ref("a"), Bin(",", Lit, Bin("*", Lit, Lit)))),
      Expr(Call("k", <<Assign(Ref("a"), CallF)>>)), Expr(Comma(<<Call("k", <<Lit>>), Ref("a"), CallF>>))>>)

Plain == Defined(Function("int", "e", <<A>>),
    <<Expr(Assign(Ref("a"), Bin("+", Lit, Bin("*", Ref("a"), CallF)))),
      If(Comma(<<CallF, Ref("a")>>)), Expr(Call("k", <<Call("f", <<Assign(Ref("a"), CallF)>>)>>)),
      Else, Return(Comma(<<Lit, Call("f", <<Call("g", <<Lit>>)>>)>>)), Return(Ref("a"))>>)

\* A function with two ways to return, its users, and one that is too large
\* to be inlined more than once.
Q == Function("int", "q", <<Param("b", "int"), A>>)
QUnnamed == Function("int", "q", <<Param("", "int"), Param("", "int")>>)
QDef == Defined(Function("int", "q", <<A, Param("b", "int")>>),
    <<Expr(Assign(Ref("a"), Ref("x"))), If(Ref("b")), Return(Comma(<<Ref("a"), Ref("x")>>)), Return(Bin("+", Ref("b"), Ref("a")))>>)
QUser == Defined(Function("int", "u", <<A>>),
    <<Decl("int", <<Var("b", Call("q", <<Ref("a"), Lit>>))>>), If(Bin("+=", Ref("b"), Ref("a"))),
      Expr(Call("big", <<Ref("b")>>)), Return(Call("q", <<Call("q", <<Lit, Ref("a")>>), Ref("b")>>))>>)
Big == Defined(Function("void", "big", <<A>>),
    <<Expr(FoldLeft(LAMBDA e, n : Bin("+", e, Lit), Assign(Ref("a"), Lit), [n \in 1..10 |-> n]))>>)
BigUser == Defined(Function("void", "v", <<A>>), <<Expr(Call("big", <<Lit>>)), While(Ref("a")), Expr(Call("big", <<Ref("a")>>))>>)

Sequences(S) == UNION {[1..n -> S] : n \in 1..MaxItems}
IncludedFirst(p) == \A i, j \in DOMAIN p : i < j /\ p[j].inc => p[i].inc
Programs(S) == {p \in Sequences(S) : IncludedFirst(p) /\ Compiles(p)}
TypedPrograms(S) == {p \in Sequences(S) : IncludedFirst(p) /\ TypedCompiles(p)}
FamilyPrograms(families) ==
    {p \in UNION {{head \o tail : head \in family.heads, tail \in UNION {[1..n -> family.tails] : n \in 0..(MaxItems - 1)}} :
                   family \in families} : TypedCompiles(p)}

Pool == [
    functions |-> {F, Static(FUnnamed), Inc(F), FDef, GDef, GSelf, Fn1, VarFn, GVar},
    params |-> {FUnnamed, FDef, GDef, H, HDef, HCall, VarFA},
    calls |-> {F, SF, TDecl, Calls1, GDef, Static(FDef)},
    variables |-> {VarX, VarXY, VarPtr, Body1, FDef, Printf},
    names |-> {VarX, VarAB, VarP, Body1, Body2, Body3, Inc(VarX), Inc(VarP), Inc(VarAB), P1Fun},
    statements |-> {F, Inc(F), K, Branching, Expressions, Loops, Plain},
    inlining |-> {VarX, Q, QUnnamed, QDef, Inc(QDef), QUser, Big, BigUser}]
\* Bodies are large where statements matter: one of them is enough there.
OneBody(p) == \A i, j \in Functions(p) : p[i].def /\ p[j].def => i = j
ProgramsOf == [kind \in DOMAIN Pool |-> IF kind = "statements" THEN {p \in Programs(Pool[kind]) : OneBody(p)}
                                        ELSE Programs(Pool[kind])]
              @@ [kind \in DOMAIN TypedPool |-> TypedPrograms(TypedPool[kind])]
              @@ ("records" :> FamilyPrograms(Families)) @@ ("levels" :> FamilyPrograms(LevelFamilies))
TypedTools == ArrayTools \cup TypedefTools \cup {"remove-unused-enum-member"} \cup PointerTools \cup RecordTools
Kind(t) ==
    CASE t \in {"param-to-global", "param-to-local"} -> "params"
      [] t \in {"callexpr-to-value", "simplify-callexpr"} -> "calls"
      [] t \in {"local-to-global", "move-global-var", "combine-global-var", "combine-local-var",
                "remove-unused-var"} -> "variables"
      [] t \in {"rename-param", "rename-var"} -> "names"
      [] t \in StatementTools -> "statements"
      [] t \in InliningTools -> "inlining"
      [] t \in ArrayTools -> "arrays"
      [] t \in TypedefTools \cup {"remove-unused-enum-member"} -> "typedefs"
      [] t = "reduce-pointer-level" -> "levels"
      [] t \in PointerTools \ {"reduce-pointer-level"} -> "pointers"
      [] t \in RecordTools -> "records"
      [] OTHER -> "functions"

AllTools == {Tool("pass_clang", t) : t \in Known} \cup {Tool("pass_clang_binsrch", t) : t \in BinarySearch}
ProgramsFor(tl) == ProgramsOf[Kind(tl.arg)]
CompilesFor(tl, p) == {q \in {p} : IF tl.arg \in TypedTools THEN TypedCompiles(q) ELSE Compiles(q)} # {}

\* The fairness of FairSpec written out, as ENABLED is slow to evaluate: while
\* the pass is trying, steps are taken; they may only come to change nothing
\* where the state of the pass does not advance any more.
StandsStill == refused # {} /\ Advance(tool, state) = state
StepsAreTaken == []<>(phase # "try") \/ []<><<TRUE>>_loopVars \/ []<>StandsStill
EveryCallEnds == Spec /\ StepsAreTaken
\* The variants a step has offered to the test.
Offered == refused' \ refused

-----------------------------------------------------------------------------
(* Properties *)

PointerArray(p) == \E e \in AllDeclarators(p) : Declarator(p, e).dims # << >> /\ Declarator(p, e).stars > 0
DeclaredInBoth(p) == \E i, j \in Functions(p) : p[i].name = p[j].name /\ p[i].inc /\ ~p[j].inc
TakesElement(p) ==
    \E x \in Range(Places(p)) : IsAssignment(At(p, x)) /\ (IsAssignment(At(p, x)) =>
        \E e \in {Bare(At(p, x).as[2])} : IsAddrOf(e) /\ (IsAddrOf(e) => ~IsUse(Bare(e.as[1]))))
\* An initialiser that reduce-pointer-level has no text for, an assignment
\* through a sum, a pointer that is counted up and subscripted at once.
IsInitialiser(p, x) == IF HasUp(x) THEN At(p, Up(x)).k = "list" ELSE IsDecl(p, x)
StrangeInit(p, x) ==
    \E e \in {BareExpr(p, x)} :
        IF x.j = 0 THEN e.k \notin {"none", "lit", "str", "ref", "list"} /\ ~IsAddrOf(e)
        ELSE (e.k = "un" /\ e.n \notin {"&", "*"}) \/ (e.k = "bin" /\ e.n = "+=")
StrangeAccess(p, e) ==
    \/ IsAssignment(e) /\ (IsAssignment(e) => IsDeref(e.as[1]) /\ (IsDeref(e.as[1]) => e.as[1].as[1].k = "bin"))
    \/ e.k = "index" /\ (e.k = "index" => e.as[1].k = "un" /\ e.as[1].n = "++")
StrangePointers(p) ==
    \E x \in Range(Places(p)) : (IsInitialiser(p, x) /\ StrangeInit(p, x)) \/ StrangeAccess(p, At(p, x))
\* The files that a transformation may stumble over.
StumblesOver(t, p) ==
    CASE t = "rename-fun" -> DeclaredInBoth(p)
      [] t = "reduce-array-size" -> PointerArray(p)
      [] t = "reduce-pointer-pairs" -> TakesElement(p)
      [] t = "reduce-pointer-level" -> StrangePointers(p)
      [] OTHER -> FALSE

(***************************************************************************)
(* The number of instances a query prints is the number of counters that   *)
(* clang_delta accepts, and what it accepts one by one it accepts as a     *)
(* range, on which pass_clang_binsrch relies.  Two kinds of files are      *)
(* excepted: several declarations of printf, of which move-global-var      *)
(* counts those up to the counter only, and files that rename-fun,         *)
(* reduce-array-size and the tools for pointers stumble over.              *)
(***************************************************************************)
QueryCountsInstances ==
    refused = {} /\ phase = "try" /\ ~StumblesOver(tool.arg, file)
    /\ ~(tool.arg = "move-global-var" /\ \E i, j \in DOMAIN file : i # j /\ file[i] = Printf /\ file[j] = Printf)
    => \A calls \in {ClangDelta(tool.arg, file)} :
          /\ \A n \in {CountInstances(calls)} : \A k \in 1..MaxInstances : \A r \in calls[Single(k)] :
                r.exit = Fine <=> k <= n
          /\ tool.pass = "pass_clang_binsrch" => RangesWork(calls)

(***************************************************************************)
(* clang_delta neither dies nor reports success for a text it has not      *)
(* changed, which delta_pass would take for a bug of the pass and end it.  *)
(* It does die in rename-fun when a function of the file was first         *)
(* declared in an included file, in reduce-array-size for an array of      *)
(* pointers that is subscripted twice, in reduce-pointer-pairs when a      *)
(* pointer of a pair is assigned the address of an array element, and in   *)
(* reduce-pointer-level for sums and counted pointers in certain places;   *)
(* and two equal declarations of printf in a row change places.            *)
(***************************************************************************)
CallsEndWell ==
    /\ phase = "error" => StumblesOver(tool.arg, file)
    /\ phase = "unmodified" =>
          tool.arg = "move-global-var" /\ \E i, j \in DOMAIN file : i # j /\ file[i] = Printf /\ file[j] = Printf

\* The names a renaming makes up, the names of what it passes over, and
\* whether they meet.
MadeUp(t, n) ==
    CASE t = "rename-fun" -> Postfix("fn", n, MaxNumber) # {}
      [] t = "rename-param" -> Postfix("p", n, MaxNumber) # {}
      [] t = "rename-var" -> n \in Range(Letters) \/ Postfix("t", n, MaxNumber) # {}
FunNames(p) == {p[i].name : i \in Functions(p)}
ParamNamesOf(p) == UNION {{p[i].params[a].name : a \in DOMAIN p[i].params} : i \in Functions(p)}
PassedOver(t, p) ==
    CASE t = "rename-fun" -> VarNames(p)
      [] t = "rename-param" -> FunNames(p) \cup VarNames(SelectSeq(p, LAMBDA f : f.inc /\ f.k = "vars"))
      [] t = "rename-var" -> FunNames(p) \cup ParamNamesOf(p) \cup VarNames(SelectSeq(p, LAMBDA f : f.inc))
NamesClash(t, p) ==
    t \in SkipsCounter /\ \/ \E n \in PassedOver(t, p) : MadeUp(t, n)
                          \/ t = "rename-fun" /\ DeclaredInBoth(p)

\* Statements that clang_delta breaks: a declaration in a block of a branch
\* without braces, which braces of its own take out of the scope of its uses;
\* several variables, where an expression moves in front of one it uses; a
\* value of type void, for which a variable is made; parameters without names,
\* which become variables.
NeedsParen(p) == \E i \in Functions(p) : \E j \in DOMAIN p[i].body : p[i].body[j].k = "decl" /\ NeedParen(p[i].body, j)
SeveralVars(p) == \E i \in Functions(p) : \E j \in DOMAIN p[i].body : Len(p[i].body[j].vars) > 1
\* Types likewise: a typedef's name that several declarators share, the only
\* constant of an enumeration, an initialiser that lacks its second element, a
\* record that a typedef names, a field of a union type or behind an arrow at
\* the end of an expression, an aggregate of an included file or one whose
\* scalar has a name that is taken.
AwkwardTypes(t, p) ==
    CASE t = "replace-simple-typedef" -> \E i \in Range(Typedefs(p)) : \E s \in Range(MentionsOf(p, i)) : Readers(p, s) > 1
      [] t = "remove-unused-enum-member" -> \E i \in DOMAIN p : p[i].k = "enum" /\ Len(p[i].vars) = 1
      [] t = "remove-unused-field" ->
            \E i \in Range(Records(p)) : \E x \in Range(ListsToChange(p, i)) : Len(At(p, x).as) = 1 /\ Len(p[i].vars) > 1
      [] t \in {"simplify-struct-union-decl", "union-to-struct"} -> \E i \in Range(Typedefs(p)) : BaseRecords(p, Underlying(p, i)) # {}
      [] t = "aggregate-to-scalar" ->
            \E s \in Range(AggregateInstances(p)) :
                p[s.var[1]].inc \/ \E e \in AllDeclarators(p) : Declarator(p, e).name = ScalarName(p, s.var, Reverse(s.idxs))
      [] t = "simplify-struct" ->
            \E i \in Range(SimplifyStructInstances(p)) :
                \/ \E n \in BaseRecords(p, WrittenType(p, <<i, 0, 1>>)) : p[n].union
                \/ \E x \in Range(AccessesOf(p, i)) : At(p, x).k = "arrow" /\ ~IsFollowed(p, x)
      [] OTHER -> FALSE
Awkward(t, p) ==
    \/ /\ t \in StatementTools
       /\ \/ NeedsParen(p)
          \/ SeveralVars(p)
          \/ \E x \in Range(StatementToolInstances(t, p)) : "path" \in DOMAIN x /\ TypeAt(p, x) = "void"
    \/ t \in TypedTools /\ \E i, j \in DOMAIN p : p[i].k = "vars" /\ p[j].k = "vars" /\ p[i].inc /\ ~p[j].inc
                                           /\ VarNames(<<p[i]>>) \cap VarNames(<<p[j]>>) # {}
    \/ AwkwardTypes(t, p)
    \/ t = "simple-inliner" /\ \E i \in Functions(p) : \E a \in DOMAIN p[i].params : p[i].params[a].name = ""

(***************************************************************************)
(* Transformations that change all places that belong together: what they  *)
(* make of a program that compiles compiles again.                         *)
(***************************************************************************)
Careful == {"param-to-global", "param-to-local", "move-function-body", "replace-function-def-with-decl",
            "callexpr-to-value", "move-global-var", "combine-global-var", "combine-local-var",
            "rename-fun", "rename-param", "rename-var", "simplify-comma-expr", "binop-simplification",
            "lift-assignment-expr", "remove-nested-function", "simplify-if",
            "replace-callexpr", "simple-inliner", "reduce-array-size", "reduce-array-dim", "remove-array",
            "replace-array-index-var", "replace-simple-typedef", "replace-one-level-typedef-type",
            "remove-unused-enum-member", "remove-enum-member-value", "remove-pointer", "remove-addr-taken",
            "reduce-pointer-pairs"} \cup RecordTools
VariantsCompile ==
    [][tool.arg \in Careful /\ ~NamesClash(tool.arg, file) /\ ~Awkward(tool.arg, file) =>
          \A v \in Offered : CompilesFor(tool, v)]_loopVars

(***************************************************************************)
(* Taking an expression out of a statement, or a copy for a variable,      *)
(* neither loses a call nor makes a second one of it.                      *)
(***************************************************************************)
TimesCalled(p, n) == Len(SelectSeq(Calls(p), LAMBDA x : At(p, x).n = n))
CallsAreKept ==
    [][tool.arg \in StatementTools \cup {"copy-propagation"} =>
          \A v \in Offered : \A n \in {At(file, x).n : x \in Range(Calls(file))} :
             TimesCalled(v, n) = TimesCalled(file, n)]_loopVars

(***************************************************************************)
(* rename-fun, rename-param and rename-var: every use of a name stands for *)
(* what it stood for before, unless a name that is made up belongs to      *)
(* something the transformation does not look at.                          *)
(***************************************************************************)
RenamingKeepsBinding ==
    [][tool.arg \in SkipsCounter /\ ~NamesClash(tool.arg, file) =>
          \A v \in Offered : \A x \in Range(Uses(file)) :
             IsDeclared(EntityAt(file, x)) => EntityAt(v, x) = EntityAt(file, x)]_loopVars

(***************************************************************************)
(* --to-counter: a range of instances does nothing that as many calls for  *)
(* one instance each could not do, unless all the variables of a group of  *)
(* several are in it.                                                      *)
(***************************************************************************)
RECURSIVE OneByOne(_, _, _)
OneByOne(t, P, n) ==
    IF n = 0 THEN P
    ELSE OneByOne(t, UNION {{RewriteRange(t, p, <<x>>) : x \in Range(RangeInstances(t, p))} : p \in P}, n - 1)
RangesAreRepeatedSingles ==
    refused = {} /\ phase = "try" /\ tool.pass = "pass_clang_binsrch" =>
       \A all \in {RangeInstances(tool.arg, file)} : \A a \in DOMAIN all : \A b \in a..Len(all) :
          \A q \in {RewriteRange(tool.arg, file, SubSeq(all, a, b))} :
             ~GroupsOK(q) \/ q \in OneByOne(tool.arg, {file}, b - a + 1)

IndexInBounds(dims, idxs) ==
    \A n \in DOMAIN dims \cap DOMAIN idxs : IsNum(idxs[n]) /\ dims[n] # 0 => Value(idxs[n]) < dims[n]
SubscriptInBounds(p, x) ==
    \A c \in {SubscriptedVar(p, x)} : IsDeclared(c) => IndexInBounds(Declarator(p, c).dims, IdxExprs(At(p, x)))
InBounds(p) == \A x \in Range(Places(p)) : SubscriptInBounds(p, x)
IsSubscripted(p, x) == HasUp(x) /\ (HasUp(x) => At(p, Up(x)).k = "index" /\ Last(x.path) = 1)
RowUsed(p) == \E x \in Range(Places(p)) : IsDeclared(SubscriptedVar(p, x)) /\ TypeIn(p, x).dims # << >> /\ ~IsSubscripted(p, x)
UnevenArray(p) == \E e \in AllDeclarators(p) : \E dims \in {Declarator(p, e).dims} :
                     Len(dims) > 1 /\ SecondLast(dims) \notin {0, Last(dims)}

(***************************************************************************)
(* No constant index leaves its array when the array, its dimensions or    *)
(* the index change.  Two cases are excepted where it does: rows used as   *)
(* pointers, which reduce-array-size does not count, and reduce-array-dim  *)
(* for arrays whose last two sizes differ, as it multiplies the last index *)
(* but one by the last size but one.                                       *)
(***************************************************************************)
IndexesStayInBounds ==
    [][/\ tool.arg \in ArrayTools /\ InBounds(file)
       /\ ~(tool.arg = "reduce-array-size" /\ RowUsed(file)) /\ ~(tool.arg = "reduce-array-dim" /\ UnevenArray(file))
       => \A v \in Offered : InBounds(v)]_loopVars
=============================================================================
