------------------------------- MODULE MCTypes -------------------------------
(***************************************************************************)
(* Which of the programs of CTypes compile, and the items that those of    *)
(* MCClang are put together from.                                          *)
(***************************************************************************)
EXTENDS ClangRecords

\* Whether an expression names a place in memory.
RECURSIVE IsLvalue(_, _)
IsLvalue(p, x) ==
    LET e == At(p, x)
    IN  CASE e.k = "ref" -> IsVariable(p, EntityAt(p, x))
          [] e.k \in {"index", "arrow"} \/ (e.k = "un" /\ e.n = "*") -> TRUE
          [] e.k = "member" -> IsLvalue(p, Part1(x))
          [] OTHER -> FALSE
\* A value of one type where another is asked for; C converts scalars.
Converts(p, t, u) == t = u \/ (IsScalar(p, t) /\ \/ IsScalar(p, u) \/ u.dims # << >>)
RECURSIVE IsConstant(_, _)
IsConstant(p, x) ==
    LET e == At(p, x)
        parts == {[x EXCEPT !.path = Append(@, a)] : a \in DOMAIN e.as}
    IN  CASE e.k = "ref" -> IsDeclared(EntityAt(p, x)) /\ (p[EntityAt(p, x)[1]].k = "enum" \/ TypeIn(p, x).dims # << >>)
          [] e.k = "un" /\ e.n = "&" ->
                LET y == Part1(x) IN At(p, y).k = "ref" \/ (At(p, y).k \in {"index", "member"} /\ At(p, Part1(y)).k = "ref" /\ IsLvalue(p, y))
          [] e.k \in {"call", "index", "member", "arrow"} \/ (e.k = "un" /\ e.n # "&") \/ IsAssignment(e) -> FALSE
          [] OTHER -> \A y \in parts : IsConstant(p, y)
\* The initialiser at a place fits a type; braces may be left out.
RECURSIVE InitOK(_, _, _)
PartsOK(p, x, ts) == \A a \in DOMAIN At(p, x).as : a \in DOMAIN ts => InitOK(p, [x EXCEPT !.path = Append(@, a)], ts[a])
ListOK(p, x, t, n) ==
    CASE t.dims # << >> -> \A ts \in {Listed([a \in 1..n |-> Element(t)])} : PartsOK(p, x, ts)
      [] IsRecord(p, t) -> \A ts \in {FieldTypes(p, t)} : PartsOK(p, x, ts)
      [] IsScalar(p, t) -> n > 0 /\ PartsOK(p, x, <<t>>)
ExpressionInitOK(p, x, t, u) ==
    CASE t.dims # << >> -> HasUp(x) /\ IsScalar(p, u)
      [] IsRecord(p, t) -> u = t \/ (HasUp(x) /\ IsScalar(p, u))
      [] OTHER -> Converts(p, t, u)
InitOK(p, x, t) ==
    CASE At(p, x).k = "none" -> x.path = << >>
      [] At(p, x).k = "list" -> ListOK(p, x, t, Len(At(p, x).as))
      [] At(p, x).k = "str" /\ t.dims # << >> -> t.base = "char"
      [] OTHER -> \A u \in {TypeIn(p, x)} : ExpressionInitOK(p, x, t, u)

IsArithmetic(p, t) == IsScalar(p, t) \/ t.dims # << >>
BinaryOK(p, x, op, t, u) ==
    CASE op = "," -> TRUE
      [] op = "=" -> IsLvalue(p, Part1(x)) /\ t.dims = << >> /\ Converts(p, t, u)
      [] op = "+=" -> IsLvalue(p, Part1(x)) /\ IsScalar(p, t) /\ IsInteger(p, u)
      [] op = "*" -> IsInteger(p, t) /\ IsInteger(p, u)
      [] op = "+" -> IsArithmetic(p, t) /\ IsArithmetic(p, u) /\ (IsInteger(p, t) \/ IsInteger(p, u))
      [] OTHER -> IsArithmetic(p, t) /\ IsArithmetic(p, u)
CallOK(p, d, ts) ==
    IsDeclared(d) => /\ d[3] = 0 /\ Len(ts) = Len(p[d[1]].params)
                     /\ \A a \in DOMAIN ts : Converts(p, DeclType(p, <<d[1], -1, a>>), ts[a])
OperandsOK(p, x, e, ts) ==
    CASE e.k = "bin" -> BinaryOK(p, x, e.n, ts[1], ts[2])
      [] e.k = "index" -> Element(ts[1]) \notin {NoType, CType("void", 0, << >>)} /\ IsInteger(p, ts[2])
      [] e.k = "un" /\ e.n = "*" -> Element(ts[1]) # NoType
      [] e.k = "un" /\ e.n = "&" -> IsLvalue(p, Part1(x))
      [] e.k = "un" /\ e.n \notin {"*", "&"} -> IsLvalue(p, Part1(x)) /\ IsScalar(p, ts[1])
      [] e.k = "member" -> IsRecord(p, ts[1]) /\ IsDeclared(FieldOf(p, ts[1], e.n))
      [] e.k = "arrow" -> IsRecord(p, Element(ts[1])) /\ IsDeclared(FieldOf(p, Element(ts[1]), e.n))
      [] e.k = "cast" -> IsArithmetic(p, ts[1])
TypedValueOK(p, x, e) ==
    CASE e.k = "none" -> x.path = << >>
      [] e.k = "ref" -> \A d \in {EntityAt(p, x)} : IsDeclared(d) /\ d[3] # 0
      [] e.k = "call" -> \A d \in {EntityAt(p, x)}, ts \in {OperandTypes(p, x)} : CallOK(p, d, ts)
      [] e.k = "list" -> x.path = << >> => IsDecl(p, x)
      [] e.k \in {"lit", "str"} -> TRUE
      [] OTHER -> \A ts \in {OperandTypes(p, x)} : OperandsOK(p, x, e, ts)

\* A type is declared before it is used, and complete where it has to be.
TypeKnown(p, i, t) ==
    \/ t.base \in {"int", "char"}
    \/ t.base = "void" /\ t.stars > 0 /\ t.dims = << >>
    \/ \E n \in Named(p, "typedef", t.base) \cup Named(p, "enum", t.base) : n < i
    \/ \E n \in Named(p, "record", t.base) :
          IF p[n].named THEN n < i \/ (n = i /\ t.stars > 0) ELSE HasJoined(p, n) /\ i = n + 1
IsComplete(d) == d.dims # << >> /\ Head(d.dims) = 0 => d.init # Nothing
DeclaratorOK(p, e) ==
    /\ TypeKnown(p, e[1], WrittenType(p, e))
    /\ \A n \in 2..Len(Declarator(p, e).dims) : Declarator(p, e).dims[n] # 0
    /\ e[2] > 0 \/ p[e[1]].k = "record" => IsComplete(Declarator(p, e))
InitialiserOK(p, x) ==
    /\ \A t \in {DeclType(p, DeclOf(x))} : InitOK(p, x, t)
    /\ x.j = 0 => At(p, x) = Nothing \/ IsConstant(p, x)
SameShape(d, e) ==
    /\ d.stars = e.stars /\ Len(d.dims) = Len(e.dims)
    /\ \A n \in DOMAIN d.dims : d.dims[n] = e.dims[n] \/ 0 \in {d.dims[n], e.dims[n]}
NamesOK(p) ==
    /\ \A i, j \in Functions(p) : i # j /\ p[i].name = p[j].name =>
          ~(p[i].def /\ p[j].def) /\ p[i].ret = p[j].ret
          /\ [a \in DOMAIN p[i].params |-> WrittenType(p, <<i, -1, a>>)] = [a \in DOMAIN p[j].params |-> WrittenType(p, <<j, -1, a>>)]
    /\ \A i \in DOMAIN p : p[i].k = "vars" => \A v \in DOMAIN p[i].vars : \A e \in GlobalsNamed(p, p[i].vars[v].name) :
          /\ e[3] # 0 /\ p[e[1]].k = "vars" /\ BaseOf(p, e) = p[i].type /\ p[e[1]].static = p[i].static
          /\ SameShape(Declarator(p, e), p[i].vars[v])
          /\ e # <<i, 0, v>> => Nothing \in {p[i].vars[v].init, Declarator(p, e).init}
    /\ \A i \in DOMAIN p : p[i].k = "enum" => \A v \in DOMAIN p[i].vars : GlobalsNamed(p, p[i].vars[v].name) = {<<i, 0, v>>}
    /\ \A i \in DOMAIN p : p[i].k \in {"record", "enum", "typedef"} => Named(p, p[i].k, p[i].name) = {i}
ReturnOK(p, i, j) ==
    p[i].body[j].k = "return" /\ p[i].ret # "void" =>
       \A x \in {[i |-> i, j |-> j, v |-> 1, path |-> << >>]} :
          At(p, x) = Nothing \/ Converts(p, Resolved(p, CType(p[i].ret, 0, << >>)), TypeIn(p, x))
BodyNamesOK(body) ==
    \A j, m \in DOMAIN body : body[j].k = "decl" /\ body[m].k = "decl" /\ Blocks(body, j) = Blocks(body, m) =>
       \A v \in DOMAIN body[j].vars, w \in DOMAIN body[m].vars :
          body[j].vars[v].name = body[m].vars[w].name => <<j, v>> = <<m, w>>
TypedCompiles(p) ==
    /\ \A i \in DOMAIN p : p[i].k \in {"fun", "vars", "record", "typedef", "enum"}
    /\ \A i \in DOMAIN p : p[i].k \in {"vars", "enum"} => p[i].vars # << >>
    /\ \A i \in DOMAIN p : p[i].k = "vars" => (p[i].joined => i > 1 /\ (i > 1 => p[i - 1].k = "record" /\ p[i - 1].name = p[i].type))
    /\ \A i \in Functions(p) : p[i].ret = "void" \/ TypeKnown(p, i, CType(p[i].ret, 0, << >>))
    /\ \A i \in DOMAIN p : p[i].k = "typedef" => TypeKnown(p, i, CType(p[i].type, p[i].stars + 1, << >>))
    /\ \A e \in AllDeclarators(p) : DeclaratorOK(p, e)
    /\ NamesOK(p)
    /\ \A i \in Functions(p) : BodyNamesOK(p[i].body)
    /\ \A ps \in {Places(p)} : \A x \in Range(ps) :
          TypedValueOK(p, x, At(p, x)) /\ (IsDecl(p, x) => InitialiserOK(p, x))
    /\ \A i \in Functions(p) : \A j \in DOMAIN p[i].body : ReturnOK(p, i, j)

-----------------------------------------------------------------------------
(* Items *)

TDecl1(t, v) == [k |-> "decl", type |-> t, vars |-> <<v>>]
Lt(a, b) == Bin("<", a, b)
Increment(e) == Unary("++", e)
I == TParam("i", "int", 0)

ArrA == TGlobals("int", <<TVar("a", 0, <<3>>, Nothing)>>)
ArrB == TGlobals("int", <<TVar("b", 0, <<2, 2>>, InitList(<<InitList(<<Num(1)>>), InitList(<<Num(2), Num(0)>>)>>))>>)
ArrB2 == TGlobals("int", <<TVar("b", 0, <<0, 2>>, Nothing)>>)
ArrC == TGlobals("int", <<TVar("c", 1, <<2>>, Nothing), TVar("d", 0, <<3, 1, 2>>, Nothing)>>)
UsesA == Defined(Function("int", "f", <<I>>),
    <<Expr(Assign(Index(Ref("a"), Num(0)), Num(1))), For(Lt(Ref("i"), Num(2)), Bin("+=", Ref("i"), Num(1))),
      Expr(Assign(Index(Ref("a"), Ref("i")), Index(Ref("a"), Index(Ref("a"), Num(0))))), Return(Index(Ref("a"), Num(1)))>>)
UsesB == Defined(Function("int", "g", <<I, TParam("p", "int", 1)>>),
    <<TDecl1("int", TVar("a", 0, <<2>>, Nothing)), For(Lt(Ref("i"), Num(2)), Increment(Ref("i"))), Open,
      Expr(Assign(Index(Index(Ref("b"), Num(1)), Ref("i")), Index(Ref("a"), Ref("i")))), Close,
      Return(Bin("+", Index(Index(Ref("b"), Num(0)), Num(1)), Index(Index(Ref("b"), Ref("i")), Num(0))))>>)
Rows == Defined(Function("void", "h", <<TParam("q", "int", 1)>>),
    <<Expr(Assign(Ref("q"), Ref("a"))), Expr(Assign(Ref("q"), Index(Ref("b"), Num(1)))), Expr(Assign(Index(Ref("a"), Num(2)), Num(0)))>>)
UsesC == Defined(Function("int", "k", <<TParam("q", "int", 1)>>),
    <<Expr(Assign(Index(Ref("c"), Num(0)), Ref("q"))),
      Return(Comma(<<Index(Index(Index(Ref("d"), Num(2)), Num(0)), Num(1)), Index(Index(Ref("c"), Num(0)), Num(1))>>))>>)
UsesC2 == Defined(Function("int", "k", <<I>>),
    <<For(Lt(Ref("i"), Num(2)), Increment(Ref("i"))), Expr(Assign(Index(Ref("c"), Ref("i")), AddrOf(Index(Ref("a"), Ref("i"))))),
      Return(Index(Index(Index(Ref("d"), Num(2)), Num(0)), Ref("i")))>>)

\* Typedefs, an enumeration and their uses.
TypeT == Typedef("T", "int", 1)
TypeU == Typedef("U", "T", 1)
TypeS == Typedef("S", "struct S", 0)
TypeV == Typedef("V", "struct S", 1)
EnumE == Enum("enum E", <<Var("A", Nothing), Var("B", Num(3)), Var("C", Bin("+", Ref("B"), Num(1)))>>)
StructS == Record(FALSE, "S", <<Field("f", "int", 0, << >>)>>)
VarT == TGlobals("T", <<TVar("x", 0, << >>, Nothing)>>)
VarsT == TGlobals("T", <<TVar("x", 0, << >>, Nothing), TVar("y", 0, <<2>>, Nothing)>>)
VarE == TGlobals("enum E", <<TVar("x", 0, << >>, Ref("B"))>>)
UsesT == Defined(Function("int", "f", <<TParam("a", "T", 0)>>),
    <<TDecl1("U", TVar("b", 0, << >>, AddrOf(Ref("a")))), Return(Deref(Deref(Ref("b"))))>>)
UsesS == Defined(Function("S", "f", <<TParam("a", "V", 0)>>), <<Return(Deref(Ref("a")))>>)
UsesE == Defined(Function("int", "k", << >>), <<Return(Ref("C"))>>)

\* Pointers, compared and assigned addresses.
PtrP == TGlobals("int", <<TVar("p", 1, << >>, Nothing), TVar("x", 0, << >>, Nothing)>>)
PtrQ == TGlobals("int", <<TVar("q", 2, << >>, AddrOf(Ref("p")))>>)
PtrQ2 == TGlobals("int", <<TVar("q", 2, << >>, Nothing), TVar("c", 1, <<2>>, Nothing)>>)
PtrR == TGlobals("int", <<TVar("p", 1, << >>, AddrOf(Ref("x")))>>)
NullTest == Defined(Function("int", "f", << >>), <<If(Bin("==", Cast("int *", Ref("p")), Num(0))), Return(Num(1)), Return(Ref("x"))>>)
Pairs1 == Defined(Function("int", "g", << >>),
    <<Expr(Assign(Ref("q"), AddrOf(Ref("p")))), If(Bin("==", AddrOf(Ref("p")), Ref("q"))), Return(Num(1)), Return(Num(0))>>)
Pairs2 == Defined(Function("int", "h", << >>),
    <<TDecl1("int", TVar("r", 2, << >>, Nothing)), Expr(Assign(Ref("r"), AddrOf(Ref("p")))), Expr(Assign(Ref("q"), Ref("r"))),
      Return(Bin("<", Ref("r"), AddrOf(Ref("p"))))>>)
Pairs3 == Defined(Function("void", "k", << >>),
    <<Expr(Assign(Ref("q"), AddrOf(Ref("p")))), Expr(Assign(Ref("q"), AddrOf(Index(Ref("c"), Num(1)))))>>)
Addresses == Defined(Function("int", "u", <<TParam("a", "int", 1)>>),
    <<Expr(Call("w", <<AddrOf(Ref("x")), Ref("a")>>)), If(Bin("==", AddrOf(Ref("x")), Ref("a"))),
      Expr(Deref(AddrOf(Ref("a")))), Return(Bin("==", AddrOf(Ref("a")), AddrOf(Ref("p"))))>>)

\* Records: the definitions a program begins with, and what may follow.
RecT == Record(FALSE, "T", <<Field("s", "struct S", 0, << >>)>>)
RecW == Record(FALSE, "W", <<Field("a", "int", 0, << >>), Field("s", "struct S", 0, <<2>>), Field("b", "int", 1, << >>)>>)
RecE == Record(FALSE, "S", << >>)
RecL == Record(FALSE, "L", <<Field("n", "struct L", 1, << >>)>>)
RecU == Record(TRUE, "S", <<Field("f", "int", 0, << >>), Field("g", "int", 1, << >>)>>)
RecX == Record(FALSE, "T", <<Field("s", "union S", 0, << >>)>>)
Arr1 == TGlobals("int", <<TVar("a", 0, <<2>>, InitList(<<Num(1)>>))>>)
Arr0 == TGlobals("int", <<TVar("a", 0, <<2>>, Nothing)>>)
Heads == {<<StructS>>, <<StructS, RecT>>, <<StructS, RecW>>, <<RecE, RecT>>, <<RecL, RecU>>, <<RecU, RecX>>}
VarS == TGlobals("struct S", <<TVar("s", 0, << >>, InitList(<<Num(1)>>)), TVar("r", 1, << >>, AddrOf(Ref("s")))>>)
VarTT == TGlobals("struct T", <<TVar("t", 0, << >>, InitList(<<InitList(<<Num(1)>>)>>))>>)
VarW == TGlobals("struct W", <<TVar("w", 0, <<2>>, InitList(<<InitList(<<Num(1), InitList(<<InitList(<<Num(2)>>)>>), Num(0)>>),
                                                          InitList(<<Num(3)>>)>>))>>)
VarU == TGlobals("union S", <<TVar("s", 0, << >>, InitList(<<Num(1)>>)), TVar("t", 0, <<2>>, Nothing)>>)
ReadsS == Defined(Function("int", "f", <<TParam("a", "struct S", 0)>>),
    <<TDecl1("struct S", TVar("b", 1, << >>, AddrOf(Ref("a")))), Return(Bin("+", Arrow(Ref("b"), "f"), Member(Ref("s"), "f")))>>)
ReadsT == Defined(Function("struct S", "g", <<TParam("a", "struct T", 1)>>),
    <<Expr(Assign(Ref("t"), Deref(Ref("a")))), Expr(Member(Member(Ref("t"), "s"), "f")), Return(Arrow(Ref("a"), "s"))>>)
ReadsW == Defined(Function("int", "h", << >>),
    <<TDecl1("struct W", TVar("v", 1, << >>, Ref("w"))),
      Return(Bin("+", Member(Index(Member(Index(Ref("w"), Num(0)), "s"), Num(1)), "f"), Arrow(Ref("v"), "a")))>>)
ReadsU == Defined(Function("int", "k", << >>),
    <<TDecl1("union S", TVar("u", 0, << >>, InitList(<<Num(2)>>))), Expr(Assign(Ref("s"), Ref("u"))),
      Return(Bin("+", Member(Index(Ref("t"), Num(1)), "f"), Member(Ref("s"), "f")))>>)
ReadsA == Defined(Function("int", "l", <<I>>),
    <<TDecl1("int", TVar("b", 0, <<2>>, InitList(<<Ref("i")>>))), Expr(Assign(Index(Ref("a"), Num(0)), Index(Ref("a"), Num(1)))),
      Expr(Call("l", <<Index(Ref("b"), Ref("i"))>>)), Return(Index(Ref("b"), Num(0)))>>)
VarAtA == TGlobals("int", <<TVar("a_0", 0, << >>, Nothing), TVar("d", 1, << >>, AddrOf(Index(Ref("a"), Num(0))))>>)
TypeX == Typedef("X", "union S", 0)
VarX2 == TGlobals("X", <<TVar("v", 0, << >>, InitList(<<Num(1)>>)), TVar("w", 1, << >>, Nothing)>>)
Tails == {TypeX, VarX2, VarS, VarTT, VarW, VarU, ReadsS, ReadsT, ReadsW, ReadsU, TypeS, TGlobals("struct S", <<TVar("z", 0, << >>, Nothing)>>)}
Families == {[heads |-> Heads, tails |-> Tails],
             [heads |-> {<<Arr1>>, <<Arr0, Arr1>>, <<[Arr0 EXCEPT !.inc = TRUE]>>}, tails |-> {Arr0, ReadsA, VarAtA}]}

\* Levels of pointers: what initialises them, and what is assigned through them.
LevX == TGlobals("int", <<TVar("x", 0, << >>, Num(1)), TVar("a", 0, <<2>>, InitList(<<Num(3)>>)), TVar("p", 1, << >>, AddrOf(Ref("x")))>>)
LevInc == [TGlobals("int", <<TVar("p", 1, << >>, Nothing)>>) EXCEPT !.inc = TRUE]
LevQ == TGlobals("int", <<TVar("q", 2, << >>, AddrOf(Ref("p"))), TVar("c", 1, <<2>>, InitList(<<AddrOf(Index(Ref("a"), Num(0))), Ref("a")>>))>>)
LevR == TGlobals("int", <<TVar("r", 1, << >>, AddrOf(Index(Ref("a"), Num(1)))), TVar("s", 1, << >>, Num(0))>>)
LevPlus == TGlobals("int", <<TVar("u", 1, << >>, Bin("+", Ref("a"), Num(1)))>>)
LevText == TGlobals("char", <<TVar("t", 1, << >>, Node("str", "t", << >>))>>)
RecG == Record(FALSE, "S", <<Field("f", "int", 0, << >>), Field("g", "int", 1, << >>), Field("n", "struct S", 1, << >>)>>)
LevS == TGlobals("struct S", <<TVar("y", 0, << >>, InitList(<<Num(2), AddrOf(Ref("x"))>>)), TVar("v", 1, << >>, AddrOf(Ref("y"))),
                               TVar("w", 1, << >>, Num(0))>>)
LevUses == Defined(Function("int", "f", <<I>>),
    <<TDecl1("int", TVar("l", 1, << >>, Ref("a"))), TDecl1("int", TVar("m", 1, << >>, AddrOf(Ref("i")))),
      Expr(Assign(Ref("p"), Ref("l"))), Expr(Assign(Deref(Ref("p")), Deref(Ref("m")))), Expr(Assign(Ref("l"), AddrOf(Ref("i")))),
      Return(Index(Ref("l"), Num(0)))>>)
LevTwo == Defined(Function("int", "g", << >>),
    <<TDecl1("int", TVar("l", 1, << >>, Deref(Ref("q")))), Expr(Assign(Deref(Ref("q")), Ref("p"))),
      Expr(Assign(Deref(Deref(Ref("q"))), Num(2))), Expr(Assign(Index(Ref("c"), Num(0)), Ref("l"))),
      Return(Bin("+", Deref(Index(Ref("c"), Num(1))), Deref(Ref("p"))))>>)
LevField == Defined(Function("int", "h", << >>),
    <<Expr(Assign(Arrow(Ref("v"), "g"), Ref("p"))), Expr(Assign(Deref(Member(Ref("y"), "g")), Num(2))),
      Expr(Assign(Arrow(Arrow(Ref("v"), "n"), "f"), Deref(Arrow(Ref("v"), "g")))), Return(Deref(Member(Ref("y"), "g")))>>)
LevCounts == Defined(Function("void", "k", <<I>>),
    <<TDecl1("int", TVar("l", 1, << >>, Bin("+", Ref("p"), Num(0)))), Expr(Deref(Increment(Ref("l")))),
      Expr(Assign(Ref("p"), Bin("+", Ref("a"), Ref("i"))))>>)
LevThrough == Defined(Function("void", "k", << >>), <<Expr(Assign(Deref(Bin("+", Ref("c"), Num(1))), Bin("+", Ref("p"), Num(1))))>>)
LevStep == Defined(Function("int", "k", <<I>>),
    <<TDecl1("int", TVar("l", 1, << >>, Increment(Ref("p")))), Expr(Deref(Index(Increment(Ref("q")), Num(0)))), Return(Deref(Ref("l")))>>)
LevelFamilies == {[heads |-> {<<LevX>>}, tails |-> {LevR, LevPlus, LevText, LevUses, LevCounts}],
                  [heads |-> {<<LevX, LevQ>>, <<LevInc, LevX, LevQ>>}, tails |-> {LevTwo, LevThrough, LevStep}],
                  [heads |-> {<<RecG, LevX, LevS>>}, tails |-> {LevField}]}

TypedPool == [
    typedefs |-> {TypeT, [TypeT EXCEPT !.inc = TRUE], TypeU, TypeS, TypeV, StructS, EnumE, VarT, VarsT, VarE, UsesT, UsesS, UsesE},
    pointers |-> {PtrP, PtrQ, PtrQ2, PtrR, NullTest, Pairs1, Pairs2, Pairs3, Addresses},
    arrays |-> {ArrA, [ArrA EXCEPT !.inc = TRUE], ArrB, ArrB2, ArrC, UsesA, UsesB, Rows, UsesC, UsesC2}]
=============================================================================
