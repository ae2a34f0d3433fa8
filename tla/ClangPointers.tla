--------------------------- MODULE ClangPointers ----------------------------
(***************************************************************************)
(* Transformations of clang_delta on pointers: the instances each of them  *)
(* numbers and the rewriting of one.                                       *)
(*                                                                         *)
(* The stars of a pointer are written in its declarator, pointers are      *)
(* compared with pointers of their type or with 0, and none is assigned    *)
(* its own address.  For reduce-pointer-level, what initialises a variable *)
(* does not mention it, and no subscript of what is accessed has an arrow. *)
(***************************************************************************)
EXTENDS ClangRecords

IsComparison(e) == e.k = "bin" /\ e.n \in {"<", "=="}
IsAddrOf(e) == e.k = "un" /\ e.n = "&"
\* removeAStarBefore, in each declaration of a variable.
RemoveAStar(p, c) == EachDecl(p, AllDecls(p, c), LAMBDA d : [d EXCEPT !.stars = @ - 1])
IsPointerDecl(p, x) == IsDecl(p, x) /\ ~IncludedAt(p, x) /\ IsPointer(DeclType(p, DeclOf(x)))

-----------------------------------------------------------------------------
(* remove-pointer *)

RECURSIVE OutOfCasts(_, _)
OutOfCasts(p, x) == IF HasUp(x) /\ (HasUp(x) => At(p, Up(x)).k = "cast") THEN OutOfCasts(p, Up(x)) ELSE x
\* Whether an operand is compared with a number.
IsOperandWithNumber(p, y) ==
    HasUp(y) /\ (HasUp(y) => /\ IsComparison(At(p, Up(y)))
                             /\ IsNum(Bare(At(p, Up(y)).as[3 - Last(y.path)])))
\* A use that keeps a pointer valid, if its first declaration is its only one so far.
IsHarmless(p, c, x) ==
    /\ FoundDecl(p, x) = c /\ ~p[c[1]].inc
    /\ \E y \in {OutOfCasts(p, x)} : IsOperandWithNumber(p, y)
RemovePointerInstances(p) ==
    With(InOrder(FlatMap(SelectSeq(Places(p), LAMBDA x : IsPointerDecl(p, x) /\ ~AnyInitializer(p, DeclOf(x))),
                         LAMBDA x : <<CanonicalDecl(p, DeclOf(x))>>)),
         LAMBDA cs : SelectSeq(cs, LAMBDA c : \A x \in Range(UsesOf(p, c)) : IsHarmless(p, c, x)))
RemovePointer(p, c) == RemoveAStar(p, c)

-----------------------------------------------------------------------------
(* remove-addr-taken *)

\* The "&" that a node makes an instance of: itself, an operand of a
\* comparison, an argument of a function without parameters.
AddrTakenAt(p, x) ==
    LET e == At(p, x)
        taken == SelectSeq(PartsOf(p, x), LAMBDA y : IsAddrOf(At(p, y)))
    IN  CASE IsAddrOf(e) /\ IsPointer(TypeIn(p, Part1(x))) -> <<x>>
          [] IsComparison(e) -> SelectSeq(taken, LAMBDA y : IsInteger(p, TypeIn(p, Part1(y))))
          [] e.k = "call" /\ (\A d \in {EntityAt(p, x)} : IsDeclared(d) => p[d[1]].params = << >>) -> taken
          [] OTHER -> << >>
AddrTakenInstances(p) ==
    InOrder(FlatMap(SelectSeq(Places(p), LAMBDA x : x.j > 0 /\ ~IncludedAt(p, x)), LAMBDA x : AddrTakenAt(p, x)))
RemoveAddrTaken(p, x) == ReplaceExpr(p, x, At(p, x).as[1])

-----------------------------------------------------------------------------
(* reduce-pointer-pairs *)

\* The pairs that are valid, a map from a variable to the one whose address
\* it holds, where no variable means that the pair is not valid any more;
\* and the references to come that do no harm, of either side, on stacks.
NoVar == Undeclared("")
PairedWith(pairs, c) == IF c \in DOMAIN pairs THEN pairs[c] ELSE NoVar
IsMapped(pairs, c) == IsDeclared(c) /\ (c \in DOMAIN pairs \/ \E d \in DOMAIN pairs : pairs[d] = c)
Invalidated(pairs, S) == [d \in DOMAIN pairs |-> IF d \in S THEN NoVar ELSE pairs[d]]
Holders(pairs, c) == {d \in DOMAIN pairs : pairs[d] = c}
Erased(pairs, c) == [d \in DOMAIN pairs \ {c} |-> pairs[d]]

InitPlace(p, c) ==
    LET d == CHOOSE d \in AllDecls(p, c) : Declarator(p, d).init # Nothing
    IN  [i |-> d[1], j |-> d[2], v |-> d[3], path |-> << >>]
\* What is behind the "&" of an expression.
Pointee(p, x) == BareAt(p, Part1(x))
HandleOnePair(p, pairs, c, x) ==
    IF IsAddrOf(At(p, x)) /\ PairedWith(pairs, c) = NoVar
    THEN With(NonParamRef(p, Pointee(p, x)), LAMBDA d :
             IF IsDeclared(d) /\ (IsDeclared(d) => IsPointer(DeclType(p, d))) THEN (c :> d) @@ pairs ELSE pairs)
    ELSE pairs
CollectDecl(p, pairs, x) ==
    IF IsPointerDecl(p, x) /\ AnyInitializer(p, DeclOf(x))
    THEN HandleOnePair(p, pairs, CanonicalDecl(p, DeclOf(x)), BareAt(p, InitPlace(p, DeclOf(x)))) ELSE pairs
AssignedVar(p, x) == IF At(p, x).k = "bin" /\ At(p, x).n = "=" THEN NonParamRef(p, BareAt(p, Part1(x))) ELSE NoVar
CollectAssignment(p, pairs, x) ==
    With(AssignedVar(p, x), LAMBDA c :
        IF IsDeclared(c) /\ (IsDeclared(c) => ~p[c[1]].inc /\ IsPointer(DeclType(p, c)))
        THEN HandleOnePair(p, pairs, c, BareAt(p, Part2(x))) ELSE pairs)
CollectedPairs(p) ==
    FoldLeft(LAMBDA pairs, x : CollectAssignment(p, CollectDecl(p, pairs, x), x), << >>, Places(p))

\* The invalidating visitor at a declaration,
CheckDecl(p, s, x, c) ==
    CASE ~IsMapped(s.pairs, c) \/ ~AnyInitializer(p, c) -> s
      [] IsMapped(s.pairs, c) /\ AnyInitializer(p, c) /\ Holders(s.pairs, c) # {} ->
            [s EXCEPT !.pairs = Invalidated(@, Holders(@, c))]
      [] OTHER -> With(BareAt(p, InitPlace(p, c)), LAMBDA y :
            IF IsAddrOf(At(p, y)) /\ (IsAddrOf(At(p, y)) => \E d \in {NonParamRef(p, Pointee(p, y))} :
                                                              d # NoVar /\ PairedWith(s.pairs, c) = d)
            THEN [s EXCEPT !.paired = Append(@, Pointee(p, y))] ELSE s)
\* at an assignment, which looks its variable up and so makes it known,
CheckRhs(p, s, c, x, rhs) ==
    IF ~IsAddrOf(At(p, rhs)) THEN [s EXCEPT !.pairs = Erased(@, c)]
    ELSE [s EXCEPT !.pairs = IF NonParamRef(p, Pointee(p, rhs)) = @[c] THEN @ ELSE Erased(@, c),
                   !.current = Append(@, BareAt(p, Part1(x))),
                   !.paired = Append(@, Pointee(p, rhs)),
                   !.fails = @ \/ At(p, Pointee(p, rhs)).k # "ref"]
CheckAssignment(p, s, x) ==
    With(AssignedVar(p, x), LAMBDA c :
        CASE ~IsDeclared(c) -> s
          [] IsDeclared(c) /\ PairedWith(s.pairs, c) = NoVar -> [s EXCEPT !.pairs = (c :> NoVar) @@ @]
          [] OTHER -> CheckRhs(p, s, c, x, BareAt(p, Part2(x))))
\* at an operand of a comparison,
CheckOperand(p, s, y) ==
    CASE IsMapped(s.pairs, NonParamRef(p, y)) -> [s EXCEPT !.current = Append(@, y)]
      [] ~IsMapped(s.pairs, NonParamRef(p, y)) /\ IsAddrOf(At(p, y)) ->
            IF IsMapped(s.pairs, NonParamRef(p, Pointee(p, y))) THEN [s EXCEPT !.paired = Append(@, Pointee(p, y))] ELSE s
      [] OTHER -> s
\* and at a reference: one that no stack expects next makes its pairs invalid.
IsNext(stack, x) == stack # << >> /\ (stack # << >> => Last(stack) = x)
CheckReference(p, s, x) ==
    CASE IsNext(s.current, x) -> [s EXCEPT !.current = Front(@)]
      [] ~IsNext(s.current, x) /\ IsNext(s.paired, x) -> [s EXCEPT !.paired = Front(@)]
      [] OTHER -> With(NonParamRef(p, x), LAMBDA c :
            IF IsDeclared(c) THEN [s EXCEPT !.pairs = Invalidated(@, Holders(@, c) \cup {c})] ELSE s)
CheckExpression(p, s, x) ==
    CASE At(p, x).k = "ref" -> CheckReference(p, s, x)
      [] IsComparison(At(p, x)) -> CheckOperand(p, CheckOperand(p, s, BareAt(p, Part1(x))), BareAt(p, Part2(x)))
      [] OTHER -> CheckAssignment(p, s, x)
Checked(p) ==
    FoldLeft(LAMBDA s, x : With(IF IsDecl(p, x) THEN CheckDecl(p, s, x, CanonicalDecl(p, DeclOf(x))) ELSE s,
                                LAMBDA t : CheckExpression(p, t, x)),
             [pairs |-> CollectedPairs(p), current |-> << >>, paired |-> << >>, fails |-> FALSE], Places(p))
PointerPairInstances(p) ==
    With(Checked(p).pairs, LAMBDA pairs :
        SetToSeq({[var |-> c, paired |-> pairs[c]] : c \in {c \in DOMAIN pairs : pairs[c] # NoVar}}))
\* A pointer in a pair is assigned the address of something that is no variable.
PointerPairsFail(p) == Checked(p).fails
ReducePointerPair(p, x) == RemoveAStar(RemoveAStar(p, x.var), x.paired)

-----------------------------------------------------------------------------
(* reduce-pointer-level takes a star from a variable or a field, and writes
   one less, or an "&" more, where it is used *)

IsDeref(e) == e.k = "un" /\ e.n = "*"
BareExpr(p, x) == At(p, BareAt(p, x))

\* getRefDecl: the variable or field behind subscripts, casts and operators,
\* and where it is referred to.
RECURSIVE RefPlace(_, _)
RefPlace(p, x) == IF At(p, x).k \in {"index", "cast", "un"} THEN RefPlace(p, Part1(x)) ELSE x
RefDecl(p, x) ==
    With(RefPlace(p, x), LAMBDA y : IF IsAccess(At(p, y)) THEN AccessedField(p, y) ELSE VarRefAt(p, y))
\* getDeclRefExpr asserts that these operators are "*" and "&".
RECURSIVE OtherOperator(_, _)
OtherOperator(p, x) ==
    CASE At(p, x).k \in {"index", "cast"} -> OtherOperator(p, Part1(x))
      [] At(p, x).k = "un" -> At(p, x).n \notin {"*", "&"} \/ OtherOperator(p, Part1(x))
      [] OTHER -> FALSE

-----------------------------------------------------------------------------
(* The instances *)

IsFieldDecl(p, d) == p[d[1]].k = "record"
IsDeclarator(p, x) == IsDecl(p, x) \/ (x.j = 0 /\ p[x.i].k = "record" /\ x.path = << >>)
FirstDecl(p, d) == IF IsFieldDecl(p, d) THEN d ELSE CanonicalDecl(p, d)
PointerLevel(p, d) == DeclType(p, d).stars
\* Pointers and arrays of them, but void * and a field that points to its record.
HasLevel(p, d) ==
    \E t \in {CType(DeclType(p, d).base, PointerLevel(p, d), << >>)} :
        /\ t.stars > 0 /\ t # CType("void", 1, << >>)
        /\ ~(t.stars = 1 /\ IsFieldDecl(p, d) /\ t.base = p[d[1]].name)

\* The collection: the declarations in order, those that are valid, those
\* whose address is taken, and whether an assertion failed.
CollectLevel(p, s, x) ==
    With(FirstDecl(p, DeclOf(x)), LAMBDA c :
        IF IncludedAt(p, x) \/ ~HasLevel(p, DeclOf(x)) \/ c \in Range(s.order) THEN s
        ELSE [s EXCEPT !.order = Append(@, c), !.valid = @ \cup {c}])
\* A variable that is counted up and dereferenced at once is not valid, nor
\* is a pointer that is assigned more than a reference, an operator or a number.
CheckUnary(p, s, x) ==
    With(BareAt(p, Part1(x)), LAMBDA y :
        CASE IsDeref(At(p, x)) /\ At(p, y).k = "un" /\ At(p, y).n \in {"++", "--"} ->
                [s EXCEPT !.valid = @ \ {RefDecl(p, Part1(y))}]
          [] IsAddrOf(At(p, x)) /\ At(p, y).k \in {"ref", "member", "arrow", "index"} ->
                [s EXCEPT !.taken = @ \cup {RefDecl(p, y)}]
          [] OTHER -> s)
CheckBinary(p, s, x) ==
    IF ~IsPointer(TypeIn(p, Part1(x))) \/ BareExpr(p, Part2(x)).k \in {"ref", "un", "index", "member", "arrow", "lit"} THEN s
    ELSE With(RefDecl(p, Part1(x)), LAMBDA c :
             [s EXCEPT !.valid = @ \ {c}, !.fails = @ \/ ~IsDeclared(c)])
CollectedLevels(p) ==
    FoldLeft(LAMBDA s, x :
                 With(IF IsDeclarator(p, x) THEN CollectLevel(p, s, x) ELSE s, LAMBDA t :
                     CASE At(p, x).k = "un" -> CheckUnary(p, t, x)
                       [] IsAssignment(At(p, x)) -> CheckBinary(p, t, x)
                       [] OTHER -> t),
             [order |-> << >>, valid |-> {}, taken |-> {}, fails |-> FALSE], Places(p))
\* An assignment of more than that to what is no variable fails an assertion.
PointerLevelFails(p) == CollectedLevels(p).fails

\* doAnalysis: the highest level first; below it no address may be taken.
PointerLevelInstances(p) ==
    With(CollectedLevels(p), LAMBDA s :
        LET top == CHOOSE n \in {0} \cup {PointerLevel(p, c) : c \in Range(s.order)} :
                      \A c \in Range(s.order) : PointerLevel(p, c) <= n
        IN  FlatMap([n \in 1..top |-> top + 1 - n], LAMBDA l :
                SelectSeq(s.order, LAMBDA c :
                    PointerLevel(p, c) = l /\ c \in s.valid /\ (l = top \/ c \notin s.taken))))

-----------------------------------------------------------------------------
(* Initialisers: Nothing where the text is empty *)

Uncaught == Node("uncaught", "", << >>)     \* an assertion fails
\* getInitListExprString: an element without text empties the list.
ListOf(es) ==
    LET ends == {a \in DOMAIN es : es[a] \in {Nothing, Uncaught}}
    IN  CASE ends = {} -> InitList(es)
          [] ends # {} /\ (\E a \in ends : es[a] = Uncaught /\ \A b \in ends : a <= b) -> Uncaught
          [] OTHER -> InitList(<< >>)

\* getNewLocalInitStr.  The text of a string is the letter a.
RECURSIVE NewLocalInit(_, _)
NewLocalInit(p, y) ==
    LET x == BareAt(p, y)
        e == At(p, x)
    IN  CASE e.k = "lit" -> e
          [] e.k = "str" -> Ref("a")
          [] IsAddrOf(e) -> e.as[1]
          [] e.k = "ref" -> IF TypeIn(p, x).dims = << >> THEN Deref(e)
                            ELSE FoldLeft(LAMBDA a, d : Index(a, Num(0)), e, TypeIn(p, x).dims)
          [] IsDeref(e) \/ e.k \in {"member", "arrow", "call", "index"} \/ (e.k = "bin" /\ e.n # "+=") -> Deref(e)
          [] e.k = "list" -> With(Listed([a \in DOMAIN e.as |-> NewLocalInit(p, PartsOf(p, x)[a])]), ListOf)
          [] OTHER -> Uncaught

\* getFirstInitListElem
RECURSIVE FirstElement(_)
FirstElement(e) ==
    IF e.k # "list" THEN e
    ELSE LET firsts == SelectSeq([a \in DOMAIN e.as |-> FirstElement(e.as[a])], LAMBDA f : f # Nothing)
         IN  IF firsts = << >> THEN Nothing ELSE Head(firsts)
\* copyInitStr: what initialises the variable an initialiser refers to.
InitOfVar(p, c) ==
    CASE AnyInitializer(p, c) /\ DeclType(p, c).dims # << >> -> FirstElement(At(p, InitPlace(p, c)))
      [] AnyInitializer(p, c) /\ DeclType(p, c).dims = << >> -> At(p, InitPlace(p, c))
      [] OTHER -> IF IsScalar(p, DeclType(p, c)) THEN Num(0) ELSE Nothing
InitOfPart(p, x) ==
    With(AccessBase(p, x), LAMBDA y :
        IF ~IsDeclared(VarRefAt(p, y)) \/ (At(p, x).k = "index" /\ SubscriptBase(p, x) # y) THEN Nothing
        ELSE With(InitFromBase(p, VarRefAt(p, y), Reverse(Idxs(p, x))),
                  LAMBDA e : IF e = Implicit THEN Ref(Garbled) ELSE e))
CopiedInit(p, y) ==
    With(BareAt(p, y), LAMBDA x :
        CASE At(p, x).k = "ref" /\ IsDeclared(VarRefAt(p, x)) -> InitOfVar(p, VarRefAt(p, x))
          [] At(p, x).k = "index" \/ IsAccess(At(p, x)) -> InitOfPart(p, x)
          [] OTHER -> Uncaught)

\* getNewGlobalInitStr
RECURSIVE NewGlobalInit(_, _)
NewGlobalInit(p, y) ==
    LET x == BareAt(p, y)
        e == At(p, x)
    IN  CASE e.k = "lit" -> At(p, y)
          [] e.k = "str" -> Ref("a")
          [] IsAddrOf(e) -> CopiedInit(p, Part1(x))
          [] e.k = "list" -> With(Listed([a \in DOMAIN e.as |-> NewGlobalInit(p, PartsOf(p, x)[a])]), ListOf)
          [] e.k = "ref" -> CopiedInit(p, x)
          [] OTHER -> Uncaught
\* rewriteVarDecl
NewInit(p, d) ==
    LET x == [i |-> d[1], j |-> d[2], v |-> d[3], path |-> << >>]
        t == DeclType(p, d)
    IN  CASE At(p, x) = Nothing -> Nothing
          [] IsPointer(t) /\ IsRecord(p, Element(t)) /\ BareExpr(p, x).k \in {"lit", "str"} -> Nothing
          [] OTHER -> IF d[2] > 0 THEN NewLocalInit(p, x) ELSE NewGlobalInit(p, x)

-----------------------------------------------------------------------------
(* The rewriting *)

\* What an "&" in front of a place applies to: its members and elements too.
RECURSIVE Whole(_, _)
Whole(p, x) ==
    IF HasUp(x) /\ (HasUp(x) => At(p, Up(x)).k \in {"index", "member", "arrow"} /\ Last(x.path) = 1)
    THEN Whole(p, Up(x)) ELSE x
\* replaceArrowWithDot: the first arrow in the text of an access.
RECURSIVE FirstArrow(_, _)
FirstArrow(p, x) ==
    LET before == IF At(p, x).k \in {"index", "member", "arrow", "cast"} THEN FirstArrow(p, Part1(x)) ELSE {}
    IN  IF before # {} THEN before ELSE {y \in {x} : At(p, y).k = "arrow"}

\* The references that are done with.  Below an operator or subscript there is
\* no member expression, and NULL is put in the set of those.
NullMember == [i |-> 0, j |-> 0, v |-> 0, path |-> << >>]
DoneWith(p, x) == With(RefPlace(p, x), LAMBDA y : IF IsAccess(At(p, y)) THEN NullMember ELSE y)
Once(p, s, x, key, edits) ==
    [s EXCEPT !.fails = @ \/ OtherOperator(p, x), !.seen = @ \cup {key},
              !.edits = IF key \in s.seen THEN @ ELSE @ \cup edits]
\* An edit takes away an operator or subscript (strip), turns an arrow into a
\* dot, or puts a star or an "&" in front.
RewriteUnary(p, c, s, x) ==
    IF IsDeref(At(p, x)) /\ (IsDeref(At(p, x)) => RefDecl(p, Part1(x)) = c)
    THEN Once(p, s, Part1(x), DoneWith(p, Part1(x)), {<<"strip", x>>}) ELSE s
AssignmentEdit(p, lhs, rhs, t) ==
    CASE IsPointer(t) -> IF IsDeref(BareExpr(p, lhs)) THEN {<<"strip", BareAt(p, lhs)>>}
                         ELSE IF IsAddrOf(BareExpr(p, rhs)) THEN {<<"strip", BareAt(p, rhs)>>} ELSE {<<"star", rhs>>}
      [] IsRecord(p, t) \/ IsInteger(p, t) -> {<<"strip", BareAt(p, lhs)>>}
      [] OTHER -> {}
RewriteBinary(p, c, s, x) ==
    With(Part1(x), LAMBDA lhs :
        IF IsAssignment(At(p, x)) /\ At(p, lhs).k # "call" /\ RefDecl(p, lhs) = c
        THEN Once(p, s, lhs, IF IsAccess(At(p, lhs)) THEN lhs ELSE DoneWith(p, lhs),
                  AssignmentEdit(p, lhs, Part2(x), TypeIn(p, lhs)))
        ELSE s)
RewriteRef(p, c, s, x) ==
    IF x \notin s.seen /\ FoundDecl(p, x) = c THEN [s EXCEPT !.edits = @ \cup {<<"and", Whole(p, x)>>}] ELSE s
RewriteMember(p, c, s, x) ==
    LET base == BareAt(p, Part1(x))
        isBase == \/ At(p, base).k = "ref" /\ FoundDecl(p, base) = c
                  \/ IsAccess(At(p, base)) /\ AccessedField(p, base) = c
    IN  CASE x \in s.seen -> s
          [] x \notin s.seen /\ AccessedField(p, x) = c -> [s EXCEPT !.edits = @ \cup {<<"and", Whole(p, x)>>}]
          [] OTHER -> IF At(p, x).k = "arrow" /\ isBase
                      THEN [s EXCEPT !.seen = @ \cup {base},
                                     !.edits = @ \cup {<<"dot", y>> : y \in FirstArrow(p, x)}]
                      ELSE s
Rewriting(p, c) ==
    FoldLeft(LAMBDA s, x :
                 CASE At(p, x).k = "un" -> RewriteUnary(p, c, s, x)
                   [] At(p, x).k = "bin" -> RewriteBinary(p, c, s, x)
                   [] At(p, x).k = "ref" -> RewriteRef(p, c, s, x)
                   [] IsAccess(At(p, x)) -> RewriteMember(p, c, s, x)
                   [] OTHER -> s,
             [seen |-> {}, edits |-> {}, fails |-> FALSE], Places(p))

Redeclarations(p, c) == IF IsFieldDecl(p, c) THEN {c} ELSE AllDecls(p, c)
PointerLevelRewriteFails(p, c) ==
    Rewriting(p, c).fails \/ \E d \in Redeclarations(p, c) : NewInit(p, d) = Uncaught
\* Text that is put in front of the same expression later comes first.
Edited(edits, x, e) ==
    LET bare == CASE <<"strip", x>> \in edits -> e.as[1]
                  [] <<"dot", x>> \in edits -> [e EXCEPT !.k = "member"]
                  [] OTHER -> e
        starred == IF <<"star", x>> \in edits THEN Deref(bare) ELSE bare
    IN  IF <<"and", x>> \in edits THEN AddrOf(starred) ELSE starred
ReducePointerLevel(p, c) ==
    With(Rewriting(p, c).edits, LAMBDA edits :
        FoldSet(LAMBDA d, q : IF p[d[1]].inc THEN q
                              ELSE WithDeclarator(q, d, [Declarator(p, d) EXCEPT !.stars = @ - 1, !.init = NewInit(p, d)]),
                AtEachPlace(p, SelectSeq(Places(p), LAMBDA x : ~IncludedAt(p, x) /\ \E edit \in edits : edit[2] = x),
                            LAMBDA x, e : Edited(edits, x, e)),
                Redeclarations(p, c)))
=============================================================================
