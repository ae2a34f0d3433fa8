--------------------------- MODULE ClangVariables ---------------------------
(***************************************************************************)
(* Transformations of clang_delta on variables and their declarations, in  *)
(* the form of ClangFunctions: the instances a transformation numbers and  *)
(* the rewriting of one of them.                                           *)
(***************************************************************************)
EXTENDS CProgram

Letters == <<"a", "b", "c">>    \* bound: stands for "a" to "z"
Numbers == 9                    \* bound: the numbers in the names that are made up

\* The variables declared outside functions, and those of a function.
GroupVars(p, i) == IF IsFunction(p, i) \/ p[i].inc THEN << >> ELSE [v \in DOMAIN p[i].vars |-> <<i, 0, v>>]
BodyVars(p, i) ==
    IF ~IsFunction(p, i) \/ p[i].inc THEN << >>
    ELSE Flat([j \in DOMAIN p[i].body |->
             IF p[i].body[j].k = "decl" THEN [v \in DOMAIN p[i].body[j].vars |-> <<i, j, v>>] ELSE << >>])
Variables(p) == Flat([i \in DOMAIN p |-> GroupVars(p, i) \o BodyVars(p, i)])
VarAt(p, e) == IF e[2] = 0 THEN p[e[1]].vars[e[3]] ELSE p[e[1]].body[e[2]].vars[e[3]]
TypeOf(p, e) == IF e[2] = 0 THEN p[e[1]].type ELSE p[e[1]].body[e[2]].type
\* The canonical declaration of a variable.
CanonicalVar(p, e) == IF e[2] = 0 THEN FirstOf(GlobalsNamed(p, VarAt(p, e).name)) ELSE e

-----------------------------------------------------------------------------
(* local-to-global, move-global-var *)

LocalToGlobalInstances(p) == Flat([i \in DOMAIN p |-> BodyVars(p, i)])
\* The variable moves in front of its function, with the text of its
\* initialiser, and is called after both.
LocalToGlobal(p, e) ==
    LET name == Joined(p[e[1]].name, VarAt(p, e).name)
        global == Globals(TypeOf(p, e), <<Var(name, VarAt(p, e).init)>>)
    IN  InsertBeforeFunc(RemoveLocal(Rename(p, (e :> name)), e), e[1], global)

\* A declaration of printf that is not first, or a group after a function.
\* Once the chosen printf is found no other is counted.
MoveGlobalInstances(p, counter) ==
    LET own == Where(p, LAMBDA i : ~p[i].inc)
        IsPrintf(i) == IsFunction(p, i) /\ p[i].name = "printf"
        FunctionBefore(i) == \E j \in Functions(p) : j < i /\ ~p[j].inc /\ ~IsPrintf(j)
        Counts(i) == IF IsPrintf(i) THEN i # Head(own) /\ ~p[i].def
                     ELSE ~IsFunction(p, i) /\ FunctionBefore(i)
        all == SelectSeq(own, Counts)
        PrintfFound(n) == counter < n /\ counter \in DOMAIN all /\ IsPrintf(all[counter])
        counted == SelectSeq([n \in DOMAIN all |-> n], LAMBDA n : ~(IsPrintf(all[n]) /\ PrintfFound(n)))
    IN  [n \in DOMAIN counted |-> all[counted[n]]]
MoveGlobalVar(p, i) ==
    LET own == {j \in DOMAIN p : ~p[j].inc}
        functions == {j \in own : IsFunction(p, j) /\ p[j].name # "printf"}
        Least(S) == CHOOSE j \in S : \A n \in S : j <= n
        to == IF IsFunction(p, i) THEN Least(own) ELSE Least(functions)
    IN  InsertBefore(RemoveFrom(p, i), to, p[i])

-----------------------------------------------------------------------------
(* combine-global-var, combine-local-var *)

\* The groups of one type after the first one, each with the first.
Later(is, Type(_)) ==
    LET First(n) == CHOOSE m \in 1..n : Type(is[m]) = Type(is[n]) /\ \A k \in 1..(m - 1) : Type(is[k]) # Type(is[n])
        later == SelectSeq([n \in DOMAIN is |-> n], LAMBDA n : First(n) # n)
    IN  [m \in DOMAIN later |-> [to |-> is[First(later[m])], from |-> is[later[m]]]]

CombineGlobalInstances(p) ==
    Later(Where(p, LAMBDA i : ~IsFunction(p, i) /\ ~p[i].inc), LAMBDA i : p[i].type)
CombineGlobalVarDecl(p, x) == RemoveFrom([p EXCEPT ![x.to].vars = @ \o p[x.from].vars], x.from)

\* The groups that stand in the same block, the outer blocks first.
CombineLocalInstances(p) ==
    LET blocks(i) == <<(<< >>)>> \o [n \in DOMAIN Where(p[i].body, LAMBDA j : p[i].body[j].k = "{") |->
                         Blocks(p[i].body, Where(p[i].body, LAMBDA j : p[i].body[j].k = "{")[n])]
        groups(i, b) == Where(p[i].body, LAMBDA j : p[i].body[j].k = "decl" /\ Blocks(p[i].body, j) = b)
        of(i, b) == LET xs == Later(groups(i, b), LAMBDA j : p[i].body[j].type)
                    IN  [n \in DOMAIN xs |-> [i |-> i] @@ xs[n]]
        own(i) == Flat([n \in DOMAIN blocks(i) |-> of(i, blocks(i)[n])])
    IN  Flat([i \in DOMAIN p |-> IF IsFunction(p, i) /\ ~p[i].inc THEN own(i) ELSE << >>])
CombineLocalVarDecl(p, x) ==
    LET body == p[x.i].body
    IN  [p EXCEPT ![x.i].body = RemoveFrom([body EXCEPT ![x.to].vars = @ \o body[x.from].vars], x.from)]

-----------------------------------------------------------------------------
(* remove-unused-var *)

IsReferenced(p, e) == \E x \in Range(Uses(p)) : EntityAt(p, x) = CanonicalVar(p, e)
RemoveUnusedVarInstances(p) == SelectSeq(Variables(p), LAMBDA e : ~IsReferenced(p, e))
RemoveVarDecl(p, e) == IF e[2] = 0 THEN RemoveGlobal(p, e) ELSE RemoveLocal(p, e)
\* The variables from the counter to --to-counter, the last first.  The
\* groups are those of the file that was read: when all the variables of a
\* group of several go, the type stays and its ";" is lost.
Drop(p, e) ==
    IF e[2] = 0 THEN [p EXCEPT ![e[1]].vars = RemoveFrom(@, e[3])]
    ELSE [p EXCEPT ![e[1]].body[e[2]].vars = RemoveFrom(@, e[3])]
FaultyRemoveUnusedVars(p, es) ==
    LET alone(e) == Len(IF e[2] = 0 THEN p[e[1]].vars ELSE p[e[1]].body[e[2]].vars) = 1
    IN  FoldLeft(LAMBDA q, e : IF alone(e) THEN RemoveVarDecl(q, e) ELSE Drop(q, e), p, es)
RemoveUnusedVars(p, es) ==
    LET alone(e) == Len(IF e[2] = 0 THEN p[e[1]].vars ELSE p[e[1]].body[e[2]].vars) = 1
    IN  FoldLeft(LAMBDA q, e : IF alone(e) THEN RemoveVarDecl(q, e) ELSE Drop(q, e), p, Reverse(es))

-----------------------------------------------------------------------------
(* rename-param, rename-var *)

ParamNumber(n) == Postfix("p", n, Numbers)
RenameParamInstances(p) ==
    IF \E i \in Functions(p) : ~p[i].inc /\ \E a \in DOMAIN p[i].params :
          /\ p[i].params[a].name # "" /\ ParamNumber(p[i].params[a].name) = {}
          /\ UsesOf(p, <<i, -1, a>>) # << >>
    THEN <<"all">> ELSE << >>
\* The numbers that variables of the file and of the function have.
FaultyTakenNumbers(p, i) ==
    UNION {ParamNumber(VarAt(p, e).name) : e \in {e \in Range(Variables(p)) : e[2] = 0}}
TakenNumbers(p, i) ==
    UNION {ParamNumber(VarAt(p, e).name) :
           e \in {e \in Range(Variables(p)) : e[2] = 0 \/ p[e[1]].name = p[i].name}}
\* Each named parameter has the first number that is not taken after the
\* number of the one before it.
ParamNames(p, i) ==
    LET Step(s, a) ==
            IF p[i].params[a].name = "" THEN [s EXCEPT !.n = @ + 1]
            ELSE LET n == CHOOSE m \in (s.n + 1)..(s.n + 1 + Numbers) :
                              m \notin TakenNumbers(p, i) /\ (s.n + 1)..(m - 1) \subseteq TakenNumbers(p, i)
                 IN  [n |-> n, names |-> (<<i, -1, a>> :> Numbered("p", n)) @@ s.names]
    IN  FoldLeft(Step, [n |-> 0, names |-> << >>], [a \in DOMAIN p[i].params |-> a]).names
RenameParam(p, all) ==
    Rename(p, FoldLeft(LAMBDA names, i : IF IsFunction(p, i) /\ ~p[i].inc THEN ParamNames(p, i) @@ names ELSE names,
                       << >>, [i \in DOMAIN p |-> i]))

IsLetter(n) == n \in Range(Letters)
\* The variables with a long name, a global once for each declaration, and
\* the letters that no variable has.
LongVars(p) ==
    LET long == SelectSeq(Variables(p), LAMBDA e : ~IsLetter(VarAt(p, e).name))
    IN  [n \in DOMAIN long |-> CanonicalVar(p, long[n])]
Available(p) == SelectSeq(Letters, LAMBDA c : \A e \in Range(Variables(p)) : VarAt(p, e).name # c)
LetterAndNumber(n) == \E c \in Range(Letters) \cup {"p", "t"} : Postfix(c, n, Numbers) # {}
RenameVarInstances(p) ==
    IF LongVars(p) = << >> \/ (/\ Len(LongVars(p)) > Len(Available(p))
                               /\ \A e \in Range(LongVars(p)) : LetterAndNumber(VarAt(p, e).name))
    THEN << >> ELSE <<"all">>
\* A letter for each while there are any, then t1, t2, ...; a variable that
\* is there twice keeps the later name.
NewNames(p) ==
    LET long == LongVars(p)
        free == Available(p)
        New(n) == IF n \in DOMAIN free THEN free[n] ELSE Numbered("t", n - Len(free))
    IN  FoldLeft(LAMBDA f, n : (long[n] :> New(n)) @@ f, << >>, [n \in DOMAIN long |-> n])
RenameVar(p, all) ==
    LET q == Rename(p, NewNames(p))
    IN  Listed([i \in DOMAIN q |-> IF p[i].inc THEN p[i] ELSE q[i]])
=============================================================================
