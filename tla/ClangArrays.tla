----------------------------- MODULE ClangArrays -----------------------------
(***************************************************************************)
(* Transformations of clang_delta on arrays: the instances each of them    *)
(* numbers and the rewriting of one.                                       *)
(***************************************************************************)
EXTENDS CTypes

\* Arrays the transformations may change, where they are declared.
IsArrayDecl(p, x) == IsDecl(p, x) /\ ~IncludedAt(p, x) /\ Declarator(p, DeclOf(x)).dims # << >>
\* A subscript that yields no array.
IsFullSubscript(p, x) == At(p, x).k = "index" /\ TypeIn(p, x).dims = << >>
Dims(p, c) == Declarator(p, c).dims
IsIntegerExpr(e) == IsNum(Bare(e))

-----------------------------------------------------------------------------
(* reduce-array-size *)

\* The array a place declares or subscripts.
ArrayMention(p, x) ==
    CASE IsArrayDecl(p, x) -> CanonicalDecl(p, DeclOf(x))
      [] ~IsArrayDecl(p, x) /\ IsFullSubscript(p, x) -> SubscriptedVar(p, x)
      [] OTHER -> Undeclared("")
\* What each place mentions, and the place of the declaration that makes an
\* array known, or 0: subscripts before it do not count.
Mentions(p) == FlatMap(Places(p), LAMBDA x : <<[at |-> x, var |-> ArrayMention(p, x)]>>)
KnownFrom(p, ms, c) == SelectInSeq(ms, LAMBDA m : m.var = c /\ IsArrayDecl(p, m.at))
KnownDims(p, ms, c) == Dims(p, DeclOf(ms[KnownFrom(p, ms, c)].at))
IdxListsOf(p, ms, c) ==
    {IdxExprs(At(p, m.at)) : m \in {m \in Range(SubSeq(ms, KnownFrom(p, ms, c), Len(ms))) :
                                      m.var = c /\ At(p, m.at).k = "index"}}
\* The largest index used in a dimension, or -1.
FaultyLargest(S) == CHOOSE n \in S \cup {0} : \A m \in S : n <= m
Largest(S) == CHOOSE n \in S \cup {0} : \A m \in S : m <= n
DimValue(size, used) ==
    IF size = 0 \/ \E e \in used : ~IsIntegerExpr(e) THEN -1 ELSE Largest({Value(Bare(e)) : e \in used})
UsedIn(lists, d) == {idxs[d] : idxs \in {idxs \in lists : d \in DOMAIN idxs}}
SizesOf(c, dims, lists) ==
    SelectSeq([d \in DOMAIN dims |-> [var |-> c, dim |-> d, value |-> DimValue(dims[d], UsedIn(lists, d))]],
              LAMBDA s : s.value # -1 /\ s.value + 1 # dims[s.dim])
SizesIfKnown(p, ms, c) ==
    IF KnownFrom(p, ms, c) = 0 THEN << >>
    ELSE With(IdxListsOf(p, ms, c), LAMBDA lists : SizesOf(c, KnownDims(p, ms, c), lists))
ArraySizeInstances(p) ==
    With(Mentions(p), LAMBDA ms :
        FlatMap(InOrder([n \in DOMAIN ms |-> ms[n].var]), LAMBDA c : SizesIfKnown(p, ms, c)))
\* An array of pointers has fewer dimensions than subscripts: an assertion fails.
ArraySizeFails(p) ==
    \E ms \in {Mentions(p)} : \E c \in {m.var : m \in Range(ms)} :
        /\ IsDeclared(c) /\ KnownFrom(p, ms, c) # 0
        /\ \E idxs \in IdxListsOf(p, ms, c) : Len(idxs) > Len(KnownDims(p, ms, c))
ReduceArraySize(p, s) == EachDecl(p, AllDecls(p, s.var), LAMBDA d : [d EXCEPT !.dims[s.dim] = s.value + 1])

-----------------------------------------------------------------------------
(* reduce-array-dim *)

ArrayDimInstances(p) ==
    InOrder(FlatMap(Places(p), LAMBDA x : IF IsArrayDecl(p, x) /\ Len(Dims(p, DeclOf(x))) > 1
                                          THEN <<CanonicalDecl(p, DeclOf(x))>> ELSE << >>))

\* The braces at the innermost level go.
RECURSIVE WithoutInnerBraces(_, _)
WithoutInnerBraces(e, depth) ==
    CASE e.k # "list" -> e
      [] e.k = "list" /\ depth = 1 ->
            InitList(FlatMap(e.as, LAMBDA a : IF a.k # "list" THEN <<a>> ELSE IF a.as = << >> THEN <<Nothing>> ELSE a.as))
      [] e.k = "list" /\ depth > 1 -> InitList(Listed([a \in DOMAIN e.as |-> WithoutInnerBraces(e.as[a], depth - 1)]))
SecondLast(dims) == dims[Len(dims) - 1]
\* The last size is multiplied into the one before it, which may be "[]".
OneDimLess(d) == [d EXCEPT !.init = WithoutInnerBraces(@, Len(d.dims) - 1),
                           !.dims = Append(SubSeq(@, 1, Len(@) - 2), Last(@) * SecondLast(@))]
\* ArraySz where a place is visited: the second last size of the declaration seen last.
ArraySz(p, ps, c, x) ==
    LET sized == {n \in 1..SelectInSeq(ps, LAMBDA y : y = x) :
                     /\ IsDecl(p, ps[n]) /\ CanonicalDecl(p, DeclOf(ps[n])) = c
                     /\ SecondLast(Dims(p, DeclOf(ps[n]))) # 0}
    IN  IF sized = {} THEN 0 ELSE SecondLast(Dims(p, DeclOf(ps[CHOOSE n \in sized : \A m \in sized : m <= n])))
\* Text is put together: the last index is not parenthesised.
JoinedIndex(sec, last, sz) ==
    CASE IsIntegerExpr(sec) /\ IsIntegerExpr(last) -> Num(Value(Bare(sec)) * sz + Value(Bare(last)))
      [] ~(IsIntegerExpr(sec) /\ IsIntegerExpr(last)) /\ sz = 1 -> Bin("+", sec, last)
      [] ~IsIntegerExpr(last) /\ sz # 1 /\ IsIntegerExpr(sec) /\ Value(Bare(sec)) = 1 -> Bin("+", Num(sz), last)
      [] OTHER -> Bin("+", Bin("*", sec, Num(sz)), last)
FoldedSubscript(e, sz) == Index(Bare(e.as[1]).as[1], JoinedIndex(Bare(e.as[1]).as[2], e.as[2], sz))
ReduceArrayDimIn(p, ps, c) ==
    LET uses == SelectSeq(ps, LAMBDA x : /\ ~IncludedAt(p, x) /\ IsFullSubscript(p, x)
                                         /\ Len(IdxExprs(At(p, x))) > 1 /\ SubscriptedVar(p, x) = c)
    IN  EachDecl(AtEachPlace(p, uses, LAMBDA x, e : With(ArraySz(p, ps, c, x), LAMBDA sz : FoldedSubscript(e, sz))),
                 AllDecls(p, c), OneDimLess)
ReduceArrayDim(p, c) == With(Places(p), LAMBDA ps : ReduceArrayDimIn(p, ps, c))

-----------------------------------------------------------------------------
(* remove-array *)

\* Arrays of one dimension without an initialiser.
IsPlainArrayDecl(p, x) ==
    /\ IsArrayDecl(p, x) /\ Len(Dims(p, DeclOf(x))) = 1
    /\ ~AnyInitializer(p, DeclOf(x))
\* A reference that is not the base of a subscript.
IsLooseRef(p, x) ==
    /\ IsDeclared(VarRefAt(p, x))
    /\ ~\E up \in {IF HasUp(x) THEN Up(x) ELSE x} : HasUp(x) /\ At(p, up).k = "index" /\ Last(x.path) = 1
PlainArrayMention(p, x) ==
    IF IsPlainArrayDecl(p, x) THEN CanonicalDecl(p, DeclOf(x)) ELSE VarRefAt(p, x)
\* An array counts from a declaration that no loose reference follows; the
\* number of that place, or 0.
CountsFrom(p, ps, c) ==
    LET loose == {n \in DOMAIN ps : VarRefAt(p, ps[n]) = c /\ IsLooseRef(p, ps[n])}
        decls == {n \in DOMAIN ps : /\ IsPlainArrayDecl(p, ps[n]) /\ CanonicalDecl(p, DeclOf(ps[n])) = c
                                    /\ \A m \in loose : m < n}
    IN  IF decls = {} THEN 0 ELSE CHOOSE n \in decls : \A m \in decls : n <= m
RemoveArrayInstances(p) ==
    With(Places(p), LAMBDA ps :
        SelectSeq(InOrder([n \in DOMAIN ps |-> PlainArrayMention(p, ps[n])]), LAMBDA c : CountsFrom(p, ps, c) # 0))
IsInIndex(x, y) == x.i = y.i /\ x.j = y.j /\ x.v = y.v /\ IsPrefix(Append(y.path, 2), x.path)
\* The subscripts that go, but for those in an index that goes itself.
RemoveArrayIn(p, ps, c) ==
    LET all == {ps[n] : n \in {n \in CountsFrom(p, ps, c)..Len(ps) : IndexedVar(p, ps[n]) = c}}
        outer == SelectSeq(ps, LAMBDA x : x \in all /\ ~IncludedAt(p, x) /\ ~\E y \in all : IsInIndex(x, y))
    IN  AtEach(EachDecl(p, AllDecls(p, c), LAMBDA d : [d EXCEPT !.dims = << >>]), outer, LAMBDA e : e.as[1])
RemoveArray(p, c) == With(Places(p), LAMBDA ps : RemoveArrayIn(p, ps, c))

-----------------------------------------------------------------------------
(* replace-array-index-var, replace-array-access-with-index *)

MaxSize == 15
\* The variable an increment changes.
IncrementedVar(p, x) ==
    LET e == At(p, BareAt(p, x))
    IN  IF IsAssignment(e) \/ (e.k = "un" /\ e.n \in {"++", "--"}) THEN VarRefAt(p, BareAt(p, Part1(BareAt(p, x))))
        ELSE Undeclared("")
IsLoop(p, i, j) ==
    /\ IsFunction(p, i) /\ ~p[i].inc /\ p[i].body[j].k = "for"
    /\ p[i].body[j + 1] # Expr(Nothing)
\* A constant array of one dimension that is declared before a loop: its
\* first declaration has the size.
SizeBefore(p, ps, n, c) ==
    IF /\ Len(Dims(p, c)) = 1 /\ Dims(p, c)[1] \in 1..MaxSize
       /\ \E m \in 1..n : IsDecl(p, ps[m]) /\ CanonicalDecl(p, DeclOf(ps[m])) = c
    THEN Dims(p, c)[1] ELSE 0
\* The arrays a loop subscripts with its variable, and those subscripts.
LoopSubscripts(p, ps, i, j) ==
    With(IncrementedVar(p, [i |-> i, j |-> j, v |-> 2, path |-> << >>]), LAMBDA var :
    LET head == SelectInSeq(ps, LAMBDA x : x.i = i /\ x.j = j)
        InBody(x) == x.i = i /\ x.j > j /\ x.j <= EndOf(p[i].body, j)
    IN  SelectSeq(ps, LAMBDA x : /\ At(p, x).k = "index" /\ InBody(x)
                                 /\ IsDeclared(var) /\ VarRefAt(p, BareAt(p, Part2(x))) = var
                                 /\ \E c \in {IndexedVar(p, x)} : IsDeclared(c) /\ SizeBefore(p, ps, head, c) > 0))
LoopInstances(p, ps, i, j) ==
    FlatMap(InOrder(FlatMap(LoopSubscripts(p, ps, i, j), LAMBDA x : <<IndexedVar(p, x)>>)), LAMBDA c :
        [idx \in 1..Dims(p, c)[1] |-> [loop |-> <<i, j>>, array |-> c, idx |-> idx - 1]])
IndexVarInstances(p) ==
    With(Places(p), LAMBDA ps :
        Flat([i \in DOMAIN p |-> IF ~IsFunction(p, i) THEN << >>
                                 ELSE Flat([j \in DOMAIN p[i].body |->
                                          IF IsLoop(p, i, j) THEN LoopInstances(p, ps, i, j) ELSE << >>])]))
ReplaceArrayIndexVar(p, s) ==
    AtEach(p, SelectSeq(With(Places(p), LAMBDA ps : LoopSubscripts(p, ps, s.loop[1], s.loop[2])),
                        LAMBDA x : IndexedVar(p, x) = s.array), LAMBDA e : Index(e.as[1], Num(s.idx)))

\* Subscripts of arrays of scalars, a struct's elements not among them.
ArrayAccessInstances(p) ==
    SelectSeq(Places(p), LAMBDA x : /\ ~IncludedAt(p, x) /\ IsDeclared(IndexedVar(p, x))
                                    /\ Len(Dims(p, IndexedVar(p, x))) = 1
                                    /\ IsScalar(p, Element(DeclType(p, IndexedVar(p, x)))))
ReplaceArrayAccess(p, x) ==
    LET idx == At(p, x).as[2]
    IN  ReplaceExpr(p, x, IF TypeIn(p, x) = TypeIn(p, Part2(x)) THEN idx ELSE Cast(Spelling(TypeIn(p, x)), idx))
=============================================================================
