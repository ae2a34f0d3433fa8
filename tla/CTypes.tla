------------------------------- MODULE CTypes -------------------------------
(***************************************************************************)
(* C programs with arrays, pointers, structs, unions, enumerations and     *)
(* typedefs, for the transformations that look at types.                   *)
(*                                                                         *)
(* Items, statements and expressions are those of CProgram, and there are  *)
(* more of them.  A group has a base type, and each of its variables adds  *)
(* stars and dims, the dimensions of an array (0 for "[]").                *)
(*   record:    a struct or union with its fields, which have a base each; *)
(*              its name is the text of its type, and it may have no tag   *)
(*   typedef:   a name, a base and stars                                   *)
(*   enum:      a name and its constants                                   *)
(* Variables may be declared together with the record in front of them.    *)
(* A "for" head has a condition and an increment.  Literals have a value.  *)
(* The declarators of one entity agree in their types, but for the size of *)
(* an incomplete array.                                                    *)
(***************************************************************************)
EXTENDS CProgram

CType(b, s, ds) == [base |-> b, stars |-> s, dims |-> ds]
IntType == CType("int", 0, << >>)
NoType == CType("", 0, << >>)
Garbled == "?"      \* text that cannot be parsed

TVar(n, s, ds, e) == [name |-> n, init |-> e, stars |-> s, dims |-> ds]
Field(n, b, s, ds) == [name |-> n, init |-> Nothing, base |-> b, stars |-> s, dims |-> ds]
TParam(n, b, s) == [name |-> n, type |-> b, stars |-> s, dims |-> << >>]
TGlobals(t, vs) == [k |-> "vars", type |-> t, vars |-> vs, static |-> FALSE, joined |-> FALSE, inc |-> FALSE]
Tag(union, n) == (IF union THEN "union " ELSE "struct ") \o n
Record(union, n, fs) == [k |-> "record", name |-> Tag(union, n), tag |-> n, union |-> union, named |-> TRUE,
                         vars |-> fs, inc |-> FALSE]
Typedef(n, b, s) == [k |-> "typedef", name |-> n, type |-> b, stars |-> s, vars |-> << >>, inc |-> FALSE]
Enum(n, vs) == [k |-> "enum", name |-> n, type |-> "int", vars |-> vs, inc |-> FALSE]
For(c, e) == [k |-> "for", vars |-> <<Var("", c), Var("", e)>>]

MaxValue == 15      \* bound: the values of literals
Num(n) == Node("lit", ToString(n), << >>)
IsNum(e) == e.k = "lit"
Value(e) == CHOOSE n \in 0..MaxValue : e.n = ToString(n)
Index(a, e) == Node("index", "", <<a, e>>)
Unary(op, e) == Node("un", op, <<e>>)
Deref(e) == Unary("*", e)
AddrOf(e) == Unary("&", e)
Member(e, f) == Node("member", f, <<e>>)
Arrow(e, f) == Node("arrow", f, <<e>>)
InitList(es) == Node("list", "", es)

Part1(x) == [x EXCEPT !.path = Append(@, 1)]
Part2(x) == [x EXCEPT !.path = Append(@, 2)]
PartsOf(p, x) == Listed([a \in DOMAIN At(p, x).as |-> [x EXCEPT !.path = Append(@, a)]])
Up(x) == [x EXCEPT !.path = Front(@)]
HasUp(x) == x.path # << >>

-----------------------------------------------------------------------------
(* Declarations *)

\* A walk over the tree comes to a declaration where it comes to the whole
\* of its initialiser, present or not.
IsDecl(p, x) == /\ x.path = << >>
                /\ IF x.j = 0 THEN p[x.i].k = "vars" ELSE p[x.i].body[x.j].k = "decl"
DeclOf(x) == <<x.i, x.j, x.v>>
Declarator(p, e) ==
    CASE e[2] = 0 -> p[e[1]].vars[e[3]]
      [] e[2] = -1 -> p[e[1]].params[e[3]]
      [] OTHER -> p[e[1]].body[e[2]].vars[e[3]]
WithDeclarator(p, e, d) ==
    CASE e[2] = 0 -> [p EXCEPT ![e[1]].vars[e[3]] = d]
      [] e[2] = -1 -> [p EXCEPT ![e[1]].params[e[3]] = d]
      [] OTHER -> [p EXCEPT ![e[1]].body[e[2]].vars[e[3]] = d]
IsVariable(p, e) == IsDeclared(e) /\ e[3] # 0 /\ p[e[1]].k \in {"fun", "vars"}
\* The canonical declaration, and all declarations, of a variable.
CanonicalDecl(p, e) == IF e[2] = 0 THEN FirstOf(GlobalsNamed(p, Declarator(p, e).name)) ELSE e
AllDecls(p, e) == IF e[2] = 0 THEN GlobalsNamed(p, Declarator(p, e).name) ELSE {e}
AnyInitializer(p, e) == \E d \in AllDecls(p, e) : d[2] >= 0 /\ Declarator(p, d).init # Nothing

\* The declaration of a variable that a use finds: the last one before it.
FoundDecl(p, x) ==
    With(EntityAt(p, x), LAMBDA e :
        IF e[2] # 0 THEN e
        ELSE CHOOSE g \in GlobalsAt(p, x, At(p, x).n) : \A f \in GlobalsAt(p, x, At(p, x).n) :
                f[1] < g[1] \/ (f[1] = g[1] /\ f[3] <= g[3]))
\* The text of included files is not printed: edits there are lost.
IncludedAt(p, x) == p[x.i].inc
EachDecl(p, es, Edit(_)) ==
    FoldSet(LAMBDA e, q : IF p[e[1]].inc THEN q ELSE WithDeclarator(q, e, Edit(Declarator(q, e))), p, es)

-----------------------------------------------------------------------------
(* Types *)

BaseOf(p, e) ==
    CASE p[e[1]].k = "record" -> p[e[1]].vars[e[3]].base
      [] p[e[1]].k # "record" /\ e[2] = 0 -> p[e[1]].type
      [] p[e[1]].k # "record" /\ e[2] = -1 -> p[e[1]].params[e[3]].type
      [] OTHER -> p[e[1]].body[e[2]].type
Named(p, k, n) == {i \in DOMAIN p : p[i].k = k /\ p[i].name = n}
RECURSIVE Resolved(_, _)
Resolved(p, t) ==
    IF Named(p, "typedef", t.base) = {} THEN t
    ELSE LET i == CHOOSE i \in Named(p, "typedef", t.base) : TRUE
         IN  Resolved(p, CType(p[i].type, p[i].stars + t.stars, t.dims))
\* The type of a declarator as it is written, and what it stands for.
WrittenType(p, e) == CType(BaseOf(p, e), Declarator(p, e).stars, Declarator(p, e).dims)
DeclType(p, e) == Resolved(p, WrittenType(p, e))
EntityType(p, e) ==
    CASE ~IsDeclared(e) -> IntType
      [] IsDeclared(e) /\ p[e[1]].k = "enum" -> IntType
      [] IsDeclared(e) /\ p[e[1]].k # "enum" /\ e[3] = 0 -> CType(p[e[1]].ret, 0, << >>)
      [] OTHER -> DeclType(p, e)

Element(t) ==
    CASE t.dims # << >> -> [t EXCEPT !.dims = Tail(@)]
      [] t.dims = << >> /\ t.stars > 0 -> [t EXCEPT !.stars = @ - 1]
      [] OTHER -> NoType
PointerTo(t) == [t EXCEPT !.stars = @ + 1]
IsRecord(p, t) == t.stars = 0 /\ t.dims = << >> /\ Named(p, "record", t.base) # {}
IsPointer(t) == t.dims = << >> /\ t.stars > 0
IsScalar(p, t) == t.dims = << >> /\ t \notin {NoType, CType("void", 0, << >>)} /\ ~IsRecord(p, t)
IsInteger(p, t) == IsScalar(p, t) /\ t.stars = 0
RecordNamed(p, n) == CHOOSE i \in Named(p, "record", n) : TRUE
\* The field of a record, as an entity; Undeclared if there is none.
FieldOf(p, t, f) ==
    LET at == IF Named(p, "record", t.base) = {} THEN {}
              ELSE {<<RecordNamed(p, t.base), 0, v>> : v \in {v \in DOMAIN p[RecordNamed(p, t.base)].vars :
                                                               p[RecordNamed(p, t.base)].vars[v].name = f}}
    IN  IF at = {} THEN Undeclared(f) ELSE CHOOSE e \in at : TRUE
FieldType(p, t, f) == IF IsDeclared(FieldOf(p, t, f)) THEN DeclType(p, FieldOf(p, t, f)) ELSE NoType

FieldTypes(p, t) == Listed([v \in DOMAIN p[RecordNamed(p, t.base)].vars |-> DeclType(p, <<RecordNamed(p, t.base), 0, v>>)])
\* The record that arrays and pointers of a type come down to: none, or one.
BaseRecords(p, t) == Named(p, "record", Resolved(p, t).base)
AllDeclarators(p) ==
    UNION {CASE IsFunction(p, i) -> {<<i, -1, a>> : a \in DOMAIN p[i].params}
                                    \cup UNION {{<<i, j, v>> : v \in DOMAIN p[i].body[j].vars} : j \in {j \in DOMAIN p[i].body : p[i].body[j].k = "decl"}}
             [] p[i].k \in {"vars", "record"} -> {<<i, 0, v>> : v \in DOMAIN p[i].vars}
             [] OTHER -> {} : i \in DOMAIN p}

\* Where types are written: the result of a function, its parameters and the
\* groups of its body, a group, a typedef, the fields of a record.  Each is
\* read once for every declarator.
SitesOf(p, i) ==
    CASE p[i].k = "fun" -> <<<<i, -1, 0>>>> \o [a \in DOMAIN p[i].params |-> <<i, -1, a>>]
                           \o Listed(LET decls == Where(p[i].body, LAMBDA j : p[i].body[j].k = "decl")
                                     IN  [n \in DOMAIN decls |-> <<i, decls[n], 0>>])
      [] p[i].k = "record" -> Listed([v \in DOMAIN p[i].vars |-> <<i, 0, v>>])
      [] p[i].k \in {"vars", "typedef"} -> <<<<i, 0, 0>>>>
      [] OTHER -> << >>
Sites(p) == FlatMap([i \in DOMAIN p |-> i], LAMBDA i : SitesOf(p, i))
BaseAt(p, s) == IF p[s[1]].k = "fun" /\ s[2] = -1 /\ s[3] = 0 THEN p[s[1]].ret ELSE BaseOf(p, s)
Readers(p, s) ==
    CASE s[3] = 0 /\ s[2] > 0 -> Len(p[s[1]].body[s[2]].vars)
      [] s[3] = 0 /\ s[2] = 0 /\ p[s[1]].k = "vars" -> Len(p[s[1]].vars)
      [] OTHER -> 1
\* Another type in its place, whose stars come in front of each declarator.
WithType(p, s, t) ==
    LET Starred(d) == [d EXCEPT !.stars = @ + t.stars]
        InGroupOf(g) == [g EXCEPT !.type = t.base, !.vars = Listed([v \in DOMAIN @ |-> Starred(@[v])])]
    IN  CASE s[3] = 0 /\ s[2] > 0 -> [p EXCEPT ![s[1]].body[s[2]] = InGroupOf(@)]
          [] s[3] = 0 /\ s[2] = -1 -> [p EXCEPT ![s[1]].ret = t.base]
          [] s[2] = -1 /\ s[3] > 0 -> [p EXCEPT ![s[1]].params[s[3]] = [Starred(@) EXCEPT !.type = t.base]]
          [] p[s[1]].k = "vars" -> [p EXCEPT ![s[1]] = InGroupOf(@)]
          [] p[s[1]].k = "record" -> [p EXCEPT ![s[1]].vars[s[3]] = [Starred(@) EXCEPT !.base = t.base]]
          [] p[s[1]].k = "typedef" -> [p EXCEPT ![s[1]] = [Starred(@) EXCEPT !.type = t.base]]
\* The type that New gives, where the text is not in an included file.
Retyped(p, ss, New(_)) ==
    FoldLeft(LAMBDA q, s : IF p[s[1]].inc THEN q ELSE WithType(q, s, New(s)), p, ss)

\* The text of a type, as casts have it.
Spelling(t) == CASE t.stars = 0 -> t.base [] t.stars = 1 -> t.base \o " *" [] OTHER -> t.base \o " **"
CastType(n) == CHOOSE t \in {CType(b, s, << >>) : b \in {"int", "char", "void"}, s \in 0..2} : Spelling(t) = n

\* The type of an expression from those of its operands.
BinaryType(op, ts) ==
    CASE op = "," -> ts[2]
      [] op \in {"=", "+="} -> ts[1]
      [] op = "+" /\ ts[1].stars + Len(ts[1].dims) > 0 -> PointerTo(Element(ts[1]))
      [] OTHER -> IntType
TypeOfNode(p, e, ts) ==
    CASE e.k = "cast" -> CastType(e.n)
      [] e.k = "bin" -> BinaryType(e.n, ts)
      [] e.k = "index" \/ (e.k = "un" /\ e.n = "*") -> Element(ts[1])
      [] e.k = "un" /\ e.n = "&" -> PointerTo(ts[1])
      [] e.k = "un" /\ e.n \notin {"*", "&"} -> ts[1]
      [] e.k = "member" -> FieldType(p, ts[1], e.n)
      [] e.k = "arrow" -> FieldType(p, Element(ts[1]), e.n)
      [] e.k = "str" -> CType("char", 1, << >>)
      [] OTHER -> IntType
RECURSIVE TypeIn(_, _)
OperandTypes(p, x) == Listed([a \in DOMAIN At(p, x).as |-> TypeIn(p, [x EXCEPT !.path = Append(@, a)])])
TypeIn(p, x) ==
    IF IsUse(At(p, x)) THEN With(EntityAt(p, x), LAMBDA e : EntityType(p, e))
    ELSE With(OperandTypes(p, x), LAMBDA ts : TypeOfNode(p, At(p, x), ts))

-----------------------------------------------------------------------------
(* Subscripts *)

\* IgnoreParenCasts
RECURSIVE Bare(_)
Bare(e) == IF e.k = "cast" THEN Bare(e.as[1]) ELSE e
RECURSIVE BareAt(_, _)
BareAt(p, x) == IF At(p, x).k = "cast" THEN BareAt(p, Part1(x)) ELSE x
\* getBaseExprAndIdxExprs: what is subscripted, and the indexes from left to right.
RECURSIVE SubscriptBase(_, _)
SubscriptBase(p, x) == IF At(p, x).k = "index" THEN SubscriptBase(p, BareAt(p, Part1(x))) ELSE x
RECURSIVE IdxExprs(_)
IdxExprs(e) == IF e.k = "index" THEN Append(IdxExprs(Bare(e.as[1])), e.as[2]) ELSE << >>
\* The variable an expression is a reference to; Undeclared if it is none.
VarRefAt(p, x) ==
    IF At(p, x).k # "ref" THEN Undeclared("")
    ELSE With(EntityAt(p, x), LAMBDA e : IF IsVariable(p, e) THEN e ELSE Undeclared(""))
\* getVarDeclFromDRE: the variable, no parameter, that an expression names.
NonParamRef(p, x) ==
    With(VarRefAt(p, x), LAMBDA e : IF IsDeclared(e) /\ e[2] = -1 THEN Undeclared("") ELSE e)
SubscriptedVar(p, x) ==
    IF At(p, x).k # "index" THEN Undeclared("") ELSE With(SubscriptBase(p, x), LAMBDA y : VarRefAt(p, y))
\* The variable right in front of the brackets.
IndexedVar(p, x) ==
    IF At(p, x).k # "index" THEN Undeclared("") ELSE With(BareAt(p, Part1(x)), LAMBDA y : VarRefAt(p, y))

\* The order of a map that remembers when a key was first looked up.
InOrder(es) == With(Listed(es), LAMBDA s : Selected(s, {n \in DOMAIN s : \A m \in 1..(n - 1) : s[m] # s[n]}))
=============================================================================
