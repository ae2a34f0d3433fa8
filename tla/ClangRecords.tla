---------------------------- MODULE ClangRecords ----------------------------
(***************************************************************************)
(* Transformations of clang_delta on records, typedefs and enumerations:   *)
(* the instances each of them numbers and the rewriting of one.            *)
(*                                                                         *)
(* Records are defined once, at the top, typedefs have one declaration.  A *)
(* typedef of a union is no pointer; the name of a typedef is shorter than *)
(* the type it stands for.  Every list of an initialiser has its braces    *)
(* and scalars have none; what is accessed is not cast, and subscripts are *)
(* numbers or no constants and hold no member access.                      *)
(***************************************************************************)
EXTENDS CTypes

Records(p) == Where(p, LAMBDA n : p[n].k = "record")
IsAccess(e) == e.k \in {"member", "arrow"}
\* The field that an access names.
AccessedField(p, x) ==
    With(TypeIn(p, Part1(x)), LAMBDA t : FieldOf(p, IF At(p, x).k = "arrow" THEN Element(t) ELSE t, At(p, x).n))
\* The variables that are declared together with a record.
HasJoined(p, i) == i < Len(p) /\ (i < Len(p) => p[i + 1].k = "vars" /\ (p[i + 1].k = "vars" => p[i + 1].joined))
\* The definition of a record goes, and what was declared with it stays.
WithoutRecord(p, i) == RemoveFrom(IF HasJoined(p, i) THEN [p EXCEPT ![i + 1].joined = FALSE] ELSE p, i)
MentionsOfRecord(p, i) == SelectSeq(Sites(p), LAMBDA s : BaseAt(p, s) = p[i].name)
ReplaceRecordType(p, i, type) == Retyped(p, MentionsOfRecord(p, i), LAMBDA s : type)

-----------------------------------------------------------------------------
(* simplify-struct *)

SimplifyStructInstances(p) ==
    SelectSeq(Records(p), LAMBDA i :
        /\ ~p[i].inc /\ ~p[i].union /\ Len(p[i].vars) = 1
        /\ \E t \in {DeclType(p, <<i, 0, 1>>)} : IsRecord(p, t) /\ (IsRecord(p, t) => p[RecordNamed(p, t.base)].named))
\* An access to the one field loses the field: what follows it is accessed
\* instead.  At the end of an expression its text is cut off at the first
\* dot, or arrow, which need not be the one of this field.
RECURSIVE HasAccess(_, _)
HasAccess(e, kind) == e.k = kind \/ (e.k \in {"member", "arrow", "index"} /\ HasAccess(e.as[1], kind))
RECURSIVE CutOff(_, _)
CutOff(e, kind) == IF e.k = kind /\ ~HasAccess(e.as[1], kind) THEN e.as[1] ELSE CutOff(e.as[1], kind)
AccessesOf(p, i) == SelectSeq(Places(p), LAMBDA x : IsAccess(At(p, x)) /\ (IsAccess(At(p, x)) => AccessedField(p, x)[1] = i))
IsFollowed(p, x) == HasUp(x) /\ (HasUp(x) => IsAccess(At(p, Up(x))))
WithoutAccesses(p, xs) ==
    AtEachPlace(p, [n \in DOMAIN xs |-> IF IsFollowed(p, xs[n]) THEN Up(xs[n]) ELSE xs[n]],
                LAMBDA x, e : IF x \in Range(xs) THEN CutOff(e, e.k) ELSE [e.as[1] EXCEPT !.n = e.n])
\* The tag is replaced and the fields go, but the word "struct" stays, also
\* in front of the tag of a union, which no program may have.
SimplifyStruct(p, i) ==
    LET tag == p[RecordNamed(p, DeclType(p, <<i, 0, 1>>).base)].tag
        isUnion == p[RecordNamed(p, DeclType(p, <<i, 0, 1>>).base)].union
        renamed == ReplaceRecordType(WithoutAccesses(p, SelectSeq(AccessesOf(p, i), LAMBDA x : ~p[x.i].inc)), i,
                                     CType(Tag(FALSE, tag), 0, << >>))
    IN  IF isUnion THEN [renamed EXCEPT ![i] = TGlobals(Tag(FALSE, tag), << >>)] ELSE WithoutRecord(renamed, i)

-----------------------------------------------------------------------------
(* simplify-struct-union-decl *)

\* The record before a group that its first variable comes down to.
GroupRecords(p, i) == {n \in BaseRecords(p, WrittenType(p, <<i, 0, 1>>)) : n < i /\ ~p[n].inc}
StructDeclInstances(p) ==
    SelectSeq(Where(p, LAMBDA n : p[n].k = "vars"), LAMBDA i : ~p[i].inc /\ ~p[i].joined /\ GroupRecords(p, i) # {})
\* isSafeToRemoveName: nothing else is declared with the record; typedefs do
\* not count.
IsSafeToRemoveName(p, n, i) ==
    /\ \A e \in AllDeclarators(p) :
          n \in BaseRecords(p, WrittenType(p, e)) => e[1] = i \/ (HasJoined(p, n) /\ e[1] = n + 1)
    /\ \A f \in Functions(p) : n \notin BaseRecords(p, CType(p[f].ret, 0, << >>))
\* getDeclGroupStrAndRemove: a group's text without its type.
GroupStrAndRest(p, i) == [str |-> p[i].vars, rest |-> RemoveFrom(p, i)]
\* It comes to the end of the record's.
SimplifyStructUnionDecl(p, i) ==
    LET n == CHOOSE n \in GroupRecords(p, i) : TRUE
        g == GroupStrAndRest(p, i)
        moved == IF HasJoined(p, n) THEN [g.rest EXCEPT ![n + 1].vars = @ \o g.str]
                 ELSE InsertBefore(g.rest, n + 1, [TGlobals(p[n].name, g.str) EXCEPT !.joined = TRUE])
    IN  [moved EXCEPT ![n].named = @ /\ ~IsSafeToRemoveName(p, n, i)]

-----------------------------------------------------------------------------
(* union-to-struct *)

\* The unions in the order in which they or their declarators are met;
\* declarators written with a typedef do not count.
Unions(p) == SelectSeq(Records(p), LAMBDA i : p[i].union)
UnionsOf(p, i) ==
    (IF p[i].k = "record" /\ (p[i].k = "record" => p[i].union) THEN <<i>> ELSE << >>)
    \o FlatMap(SitesOf(p, i), LAMBDA s : SelectSeq(Unions(p), LAMBDA n : p[i].k # "typedef" /\ p[n].name = BaseAt(p, s)))
UnionInstances(p) == InOrder(FlatMap(Where(p, LAMBDA n : ~p[n].inc), LAMBDA i : UnionsOf(p, i)))
\* The value of the union is repeated for each field of its kind.
ValueOfField(t, first, e) ==
    CASE IsPointer(first) -> IF t = first THEN e ELSE Num(0)
      [] ~IsPointer(first) /\ IsPointer(t) -> Num(0)
      [] OTHER -> e
UnionValue(ts, e) ==
    IF (\E a \in DOMAIN ts : ts[a].dims # << >>) \/ Len(e.as) # 1 THEN Nothing
    ELSE InitList(Listed([a \in DOMAIN ts |-> IF a = 1 THEN e.as[1] ELSE ValueOfField(ts[a], ts[1], e.as[1])]))
\* rewriteOneVarDecl: an initialiser that does not fit a struct is dropped.
StructInit(p, ts, d) ==
    CASE d.dims # << >> -> IF d.stars = 0 /\ d.init.k = "list" /\ d.init.as # << >> THEN Nothing ELSE d.init
      [] d.dims = << >> /\ (d.stars > 0 \/ d.init = Nothing) -> d.init
      [] OTHER -> CASE \E a \in DOMAIN ts : ~IsScalar(p, ts[a]) -> Nothing
                    [] (\A a \in DOMAIN ts : IsScalar(p, ts[a])) /\ d.init.k = "list" -> UnionValue(ts, d.init)
                    [] OTHER -> d.init
UnionVars(p, i) ==
    {e \in AllDeclarators(p) : p[i].named /\ p[e[1]].k # "record" /\ e[2] # -1 /\ BaseOf(p, e) = p[i].name}
\* replaceUnionWithStruct, of the definition
AsStruct(r) == [r EXCEPT !.union = FALSE, !.name = Tag(FALSE, r.tag)]
UnionToStruct(p, i) ==
    With(FieldTypes(p, CType(p[i].name, 0, << >>)), LAMBDA ts :
        LET inits == EachDecl(p, UnionVars(p, i), LAMBDA d : [d EXCEPT !.init = StructInit(p, ts, d)])
            words == Retyped(inits, SelectSeq(MentionsOfRecord(p, i), LAMBDA s : p[s[1]].k # "typedef"),
                             LAMBDA s : CType(Tag(FALSE, p[i].tag), 0, << >>))
        IN  IF p[i].inc THEN words ELSE [words EXCEPT ![i] = AsStruct(@)])

-----------------------------------------------------------------------------
(* What leads to a field *)

FieldIsUsed(p, e) == \E x \in Range(AccessesOf(p, e[1])) : AccessedField(p, x) = e
\* getBaseRecordDef: the struct that a type is, or is an array of: none, or one.
StructsOf(p, t) == {n \in BaseRecords(p, t) : Resolved(p, t).stars = 0 /\ ~p[n].union}
FieldsOf(p, i) == [v \in DOMAIN p[i].vars |-> v]
\* RecordDeclToField: the fields of a struct that lead to a place that
\* changes, worked out from the first record to the last.
FieldsToChange(p, known, start) ==
    FoldLeft(LAMBDA m, i :
                With(SelectSeq(FieldsOf(p, i), LAMBDA v : StructsOf(p, WrittenType(p, <<i, 0, v>>)) \cap (known \cup DOMAIN m) # {}),
                     LAMBDA vs : IF i \in known \cup DOMAIN m \/ vs = << >> THEN m ELSE (i :> vs) @@ m),
             start, Records(p))
\* getInitExprs: the lists in an initialiser that are for a record.
RECURSIVE ListsFor(_, _, _, _, _)
ListsIn(p, m, r, x, n) ==
    FlatMap(SelectSeq(IF n \in DOMAIN m THEN m[n] ELSE << >>, LAMBDA v : v \in DOMAIN At(p, x).as),
            LAMBDA v : ListsFor(p, m, r, PartsOf(p, x)[v], DeclType(p, <<n, 0, v>>)))
ListsFor(p, m, r, x, t) ==
    CASE At(p, x).k # "list" \/ StructsOf(p, t) = {} -> << >>
      [] At(p, x).k = "list" /\ t.dims # << >> -> FlatMap(PartsOf(p, x), LAMBDA y : ListsFor(p, m, r, y, Element(t)))
      [] OTHER -> With(CHOOSE n \in StructsOf(p, t) : TRUE, LAMBDA n : IF n = r THEN <<x>> ELSE ListsIn(p, m, r, x, n))
AllListsFor(p, m, r) ==
    FlatMap(SelectSeq(Places(p), LAMBDA x : IsDecl(p, x) /\ ~IncludedAt(p, x)),
            LAMBDA x : ListsFor(p, m, r, x, DeclType(p, DeclOf(x))))
ListsToChange(p, r) == With(FieldsToChange(p, {r}, << >>), LAMBDA m : AllListsFor(p, m, r))

-----------------------------------------------------------------------------
(* remove-unused-field *)

UnusedFieldInstances(p) ==
    SelectSeq(FlatMap(SelectSeq(Records(p), LAMBDA i : ~p[i].inc /\ ~p[i].union),
                      LAMBDA i : [v \in DOMAIN p[i].vars |-> <<i, 0, v>>]),
              LAMBDA e : ~FieldIsUsed(p, e))
\* removeOneInitExpr: an element goes with a comma.  The first one takes the
\* comma after it, and where there is none, all the text up to the next.
WithoutElement(e, v, fields) ==
    CASE v \notin DOMAIN e.as -> e
      [] v = 1 /\ Len(e.as) = 1 /\ fields > 1 -> Ref(Garbled)
      [] OTHER -> InitList(RemoveFrom(e.as, v))
RemoveFieldDecl(p, e) == [p EXCEPT ![e[1]].vars = RemoveFrom(@, e[3])]
RemoveField(p, e) ==
    RemoveFieldDecl(AtEach(p, ListsToChange(p, e[1]), LAMBDA l : WithoutElement(l, e[3], Len(p[e[1]].vars))), e)

-----------------------------------------------------------------------------
(* empty-struct-to-int *)

PointsToSelf(p, e) == \E t \in {DeclType(p, e)} : IsPointer(t) /\ e[1] \in Named(p, "record", t.base)
IsAsGoodAsEmpty(p, i) ==
    \/ p[i].vars = << >>
    \/ Len(p[i].vars) = 1 /\ ~PointsToSelf(p, <<i, 0, 1>>) /\ ~FieldIsUsed(p, <<i, 0, 1>>)
EmptyStructInstances(p) == SelectSeq(Records(p), LAMBDA i : ~p[i].inc /\ IsAsGoodAsEmpty(p, i))
\* removeRecordDecls, and the types and initialisers that the visitor rewrites.
EmptyStructToInt(p, i) ==
    With(AtEach(p, ListsToChange(p, i), LAMBDA l : Num(0)),
         LAMBDA q : WithoutRecord(ReplaceRecordType(q, i, IntType), i))

-----------------------------------------------------------------------------
(* aggregate-to-scalar *)

IsScalarAccess(p, x) ==
    /\ ~IncludedAt(p, x) /\ (IsAccess(At(p, x)) \/ At(p, x).k = "index")
    /\ IsScalar(p, TypeIn(p, x))
\* getBaseExprAndIdxs: what is accessed, and the indexes from right to left.
RECURSIVE AccessBase(_, _)
AccessBase(p, x) ==
    IF At(p, x).k = "index" \/ IsAccess(At(p, x)) THEN AccessBase(p, BareAt(p, Part1(x))) ELSE x
RECURSIVE Idxs(_, _)
IdxOf(p, x) ==
    CASE At(p, x).k # "index" -> AccessedField(p, x)[3] - 1
      [] At(p, x).k = "index" /\ IsNum(Bare(At(p, x).as[2])) -> Value(Bare(At(p, x).as[2]))
      [] OTHER -> 0
Idxs(p, x) ==
    IF At(p, x).k = "index" \/ IsAccess(At(p, x)) THEN <<IdxOf(p, x)>> \o Idxs(p, BareAt(p, Part1(x))) ELSE << >>
IsAggregate(p, e) == IsDeclared(e) /\ (IsDeclared(e) => \E t \in {DeclType(p, e)} : IsRecord(p, t) \/ t.dims # << >> \/ t.stars > 0)

\* addOneExpr: accesses with the same indexes are one instance, if the
\* variable is found under its canonical declaration; it is put under the
\* declaration that the access found.
CachedAs(s, c, idxs) == {n \in IF c \in DOMAIN s.known THEN s.known[c] ELSE {} : s.all[n].idxs = idxs}
AddOneExpr(s, x, c, found, idxs) ==
    LET cached == CachedAs(s, c, idxs)
        n == Len(s.all) + 1
    IN  IF cached # {} THEN [s EXCEPT !.all[CHOOSE m \in cached : TRUE].exprs = Append(@, x)]
        ELSE [all |-> Append(s.all, [var |-> found, idxs |-> idxs, exprs |-> <<x>>]),
              known |-> IF c \in DOMAIN s.known THEN [s.known EXCEPT ![c] = @ \cup {n}] ELSE (found :> {n}) @@ s.known]
AddAccess(p, s, x) ==
    With(AccessBase(p, x), LAMBDA y : With(NonParamRef(p, y), LAMBDA c :
        IF IsAggregate(p, c) THEN AddOneExpr(s, x, c, FoundDecl(p, y), Idxs(p, x)) ELSE s))
AggregateInstances(p) ==
    FoldLeft(LAMBDA s, x : IF IsScalarAccess(p, x) THEN AddAccess(p, s, x) ELSE s,
             [all |-> << >>, known |-> << >>], Places(p)).all

\* getInitExprByIndex: a record's list has an element for each of its
\* fields, an implicit one where there is no text; an array's lacks some.
Implicit == Node("implicit", "", << >>)
RECURSIVE InitByIndex(_, _, _, _)
InitByIndex(p, e, t, idxs) ==
    LET n == IF IsRecord(p, t) /\ (IsRecord(p, t) => p[RecordNamed(p, t.base)].union) THEN 1 ELSE Head(idxs) + 1
        type == IF IsRecord(p, t) THEN DeclType(p, <<RecordNamed(p, t.base), 0, n>>) ELSE Element(t)
    IN  CASE idxs = << >> -> e
          [] idxs # << >> /\ e.k = "list" /\ n \in DOMAIN e.as -> InitByIndex(p, e.as[n], type, Tail(idxs))
          [] idxs # << >> /\ e.k = "list" /\ n \notin DOMAIN e.as /\ IsRecord(p, t) /\ Len(idxs) = 1 -> Implicit
          [] OTHER -> Nothing
\* getInitExprFromBase, and what is made of an implicit element.
InitFromBase(p, e, idxs) ==
    LET inits == {Declarator(p, d).init : d \in {d \in AllDecls(p, e) : Declarator(p, d).init # Nothing}}
    IN  IF inits = {} \/ IsPointer(DeclType(p, e)) THEN Nothing
        ELSE InitByIndex(p, CHOOSE init \in inits : TRUE, DeclType(p, e), idxs)
ScalarInit(p, e, idxs) == With(InitFromBase(p, e, idxs), LAMBDA i : IF i = Implicit THEN Num(0) ELSE i)
\* createNewVarName
ScalarName(p, e, idxs) == FoldLeft(LAMBDA n, idx : Joined(n, ToString(idx)), Declarator(p, e).name, idxs)
\* The declaration comes after that of the aggregate.
AfterDecl(p, e, t, d) ==
    CASE e[2] > 0 -> [p EXCEPT ![e[1]].body = InsertBefore(@, e[2] + 1, Decl(t, <<d>>))]
      [] e[2] = 0 /\ p[e[1]].inc -> p
      [] OTHER -> InsertBefore(p, e[1] + 1, [TGlobals(t, <<d>>) EXCEPT !.static = p[e[1]].static])
AggregateToScalar(p, s) ==
    With(Reverse(s.idxs), LAMBDA idxs :
        LET t == TypeIn(p, s.exprs[1])
            d == TVar(ScalarName(p, s.var, idxs), t.stars, << >>, ScalarInit(p, s.var, idxs))
        IN  AfterDecl(AtEach(p, s.exprs, LAMBDA e : Ref(d.name)), s.var, t.base, d))

-----------------------------------------------------------------------------
(* Typedefs *)

Typedefs(p) == Where(p, LAMBDA n : p[n].k = "typedef")
\* The places, outside included files, where a typedef's name is written.
MentionsOf(p, i) == SelectSeq(Sites(p), LAMBDA s : BaseAt(p, s) = p[i].name /\ ~p[s[1]].inc)
\* What a typedef stands for, as it is written.
Underlying(p, i) == CType(p[i].type, p[i].stars, << >>)
\* removeTypedefs
WithoutTypedef(p, i) == IF p[i].inc THEN p ELSE RemoveFrom(p, i)

-----------------------------------------------------------------------------
(* replace-simple-typedef *)

\* isValidType: an enumeration, a union, a record with another tag, a scalar
\* or a pointer that comes down to one.
NamesSimpleType(p, i) ==
    LET t == Resolved(p, Underlying(p, i))
    IN  IF Named(p, "record", t.base) = {} THEN t.base # "void"
        ELSE t.stars = 0 /\ (p[RecordNamed(p, t.base)].union \/ p[RecordNamed(p, t.base)].tag # p[i].name)
SimpleTypedefInstances(p) == SelectSeq(Typedefs(p), LAMBDA i : ~p[i].inc /\ NamesSimpleType(p, i))
\* A name that several declarators share is replaced once for each of them,
\* which leaves no type when it is shorter than the text that replaces it.
ReplaceSimpleTypedef(p, i) ==
    WithoutTypedef(Retyped(p, MentionsOf(p, i),
                           LAMBDA s : IF Readers(p, s) = 1 THEN Underlying(p, i) ELSE CType(Garbled, 0, << >>)), i)

-----------------------------------------------------------------------------
(* replace-one-level-typedef-type *)

TimesRead(p, i) == FoldLeft(LAMBDA n, s : n + Readers(p, s), 0, MentionsOf(p, i))
\* The typedefs in the order in which they are first read.
TypedefsInOrder(p) ==
    InOrder(FlatMap(Sites(p), LAMBDA s :
        IF p[s[1]].inc THEN << >>
        ELSE SelectSeq(Typedefs(p), LAMBDA i : p[i].name = BaseAt(p, s))))
OneLevelInstances(p) == SelectSeq(TypedefsInOrder(p), LAMBDA i : TimesRead(p, i) = 1)
ReplaceOneLevelTypedef(p, i) == WithoutTypedef(Retyped(p, MentionsOf(p, i), LAMBDA s : Underlying(p, i)), i)

-----------------------------------------------------------------------------
(* remove-unused-enum-member and remove-enum-member-value *)

\* The constants of the enumerations outside included files, as entities.
EnumConstants(p) ==
    FlatMap(Where(p, LAMBDA n : p[n].k = "enum" /\ ~p[n].inc),
            LAMBDA i : [v \in DOMAIN p[i].vars |-> <<i, 0, v>>])
UnusedEnumMembers(p) == SelectSeq(EnumConstants(p), LAMBDA e : UsesOf(p, e) = << >>)
\* removeEnumConstantDecl: a constant goes with its value and the comma.
RemoveEnumMembers(p, es) ==
    FoldLeft(LAMBDA q, e : [q EXCEPT ![e[1]].vars = RemoveFrom(@, e[3])], p, Reverse(es))
EnumMembersWithValue(p) == SelectSeq(EnumConstants(p), LAMBDA e : Declarator(p, e).init # Nothing)
RemoveEnumValue(p, e) == [p EXCEPT ![e[1]].vars[e[3]].init = Nothing]
=============================================================================
