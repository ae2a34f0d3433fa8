------------------------- MODULE ClangTransformations -------------------------
(***************************************************************************)
(* The transformations that are registered with the manager, and what they *)
(* have in common: HandleTranslationUnit counts the instances, compares    *)
(* the counter with their number and rewrites one of them.                 *)
(***************************************************************************)
EXTENDS ClangFunctions, ClangVariables, ClangInlining, ClangArrays, ClangPointers

\* The argument MultipleRewrites of the constructor: a range of instances
\* is rewritten at once.
MultipleRewrites == {"remove-unused-var", "replace-function-def-with-decl", "remove-unused-function",
                     "remove-unused-enum-member"}
\* skipCounter: the whole file is one instance.
SkipsCounter == {"rename-fun", "rename-param", "rename-var"}
\* The instances are found in the order of addresses in memory.
AnyOrder == {"move-function-body", "unify-function-decl", "reduce-pointer-pairs"}

\* The transformations, by what they number and rewrite.
StatementTools == {"simplify-comma-expr", "binop-simplification", "lift-assignment-expr", "remove-nested-function",
                   "simplify-if"}
InliningTools == {"replace-callexpr", "simple-inliner", "copy-propagation"}
VariableTools == {"local-to-global", "move-global-var", "combine-global-var", "combine-local-var", "rename-param",
                  "rename-var"}
ArrayTools == {"reduce-array-size", "reduce-array-dim", "remove-array", "replace-array-index-var",
               "replace-array-access-with-index"}
TypedefTools == {"replace-simple-typedef", "replace-one-level-typedef-type", "remove-enum-member-value"}
PointerTools == {"remove-pointer", "remove-addr-taken", "reduce-pointer-pairs", "reduce-pointer-level"}
RecordTools == {"simplify-struct", "simplify-struct-union-decl", "union-to-struct", "remove-unused-field",
                "empty-struct-to-int", "aggregate-to-scalar"}
RangeInstances(t, p) ==
    CASE t = "remove-unused-var" -> RemoveUnusedVarInstances(p)
      [] t = "replace-function-def-with-decl" -> FunctionDefInstances(p)
      [] t = "remove-unused-function" -> RemoveUnusedFunctionInstances(p)
      [] t = "remove-unused-enum-member" -> UnusedEnumMembers(p)
FunctionToolInstances(t, p) ==
    CASE t \in {"param-to-global", "param-to-local"} -> ParamInstances(p)
      [] t = "return-void" -> ReturnVoidInstances(p)
      [] t = "rename-fun" -> RenameFunInstances(p)
      [] t = "unify-function-decl" -> UnifyInstances(p)
      [] t = "move-function-body" -> MoveBodyInstances(p)
      [] t = "replace-undefined-function" -> ReplaceUndefinedInstances(p)
      [] t \in {"callexpr-to-value", "simplify-callexpr"} -> CallInstances(p)
VariableToolInstances(t, p, counter) ==
    CASE t = "local-to-global" -> LocalToGlobalInstances(p)
      [] t = "move-global-var" -> MoveGlobalInstances(p, counter)
      [] t = "combine-global-var" -> CombineGlobalInstances(p)
      [] t = "combine-local-var" -> CombineLocalInstances(p)
      [] t = "rename-param" -> RenameParamInstances(p)
      [] t = "rename-var" -> RenameVarInstances(p)
StatementToolInstances(t, p) ==
    CASE t = "remove-nested-function" -> NestedCallInstances(p)
      [] t = "simplify-if" -> IfInstances(p)
      [] OTHER -> StatementInstances(t, p)
InliningToolInstances(t, p) ==
    CASE t = "replace-callexpr" -> ReplaceCallInstances(p)
      [] t = "simple-inliner" -> InlinerInstances(p)
      [] t = "copy-propagation" -> CopyInstances(p)
ArrayToolInstances(t, p) ==
    CASE t = "reduce-array-size" -> ArraySizeInstances(p)
      [] t = "reduce-array-dim" -> ArrayDimInstances(p)
      [] t = "remove-array" -> RemoveArrayInstances(p)
      [] t = "replace-array-index-var" -> IndexVarInstances(p)
      [] t = "replace-array-access-with-index" -> ArrayAccessInstances(p)
TypedefToolInstances(t, p) ==
    CASE t = "replace-simple-typedef" -> SimpleTypedefInstances(p)
      [] t = "replace-one-level-typedef-type" -> OneLevelInstances(p)
      [] t = "remove-enum-member-value" -> EnumMembersWithValue(p)
PointerToolInstances(t, p) ==
    CASE t = "remove-pointer" -> RemovePointerInstances(p)
      [] t = "remove-addr-taken" -> AddrTakenInstances(p)
      [] t = "reduce-pointer-pairs" -> PointerPairInstances(p)
      [] t = "reduce-pointer-level" -> PointerLevelInstances(p)
RecordToolInstances(t, p) ==
    CASE t = "simplify-struct" -> SimplifyStructInstances(p)
      [] t = "simplify-struct-union-decl" -> StructDeclInstances(p)
      [] t = "union-to-struct" -> UnionInstances(p)
      [] t = "remove-unused-field" -> UnusedFieldInstances(p)
      [] t = "empty-struct-to-int" -> EmptyStructInstances(p)
      [] t = "aggregate-to-scalar" -> AggregateInstances(p)
Instances(t, p, counter) ==
    CASE t \in MultipleRewrites -> RangeInstances(t, p)
      [] t \in VariableTools -> VariableToolInstances(t, p, counter)
      [] t \in StatementTools -> StatementToolInstances(t, p)
      [] t \in InliningTools -> InliningToolInstances(t, p)
      [] t \in ArrayTools -> ArrayToolInstances(t, p)
      [] t \in TypedefTools -> TypedefToolInstances(t, p)
      [] t \in PointerTools -> PointerToolInstances(t, p)
      [] t \in RecordTools -> RecordToolInstances(t, p)
      [] OTHER -> FunctionToolInstances(t, p)

\* An assertion fails while the instances are collected.
CollectionFails(t, p) ==
    \/ t = "reduce-array-size" /\ ArraySizeFails(p)
    \/ t = "reduce-pointer-pairs" /\ PointerPairsFail(p)
    \/ t = "reduce-pointer-level" /\ PointerLevelFails(p)
\* One fails while an instance is rewritten.
RewritingFails(t, p, x) ==
    \/ t = "rename-fun" /\ RenameFunFails(p)
    \/ t = "reduce-pointer-level" /\ PointerLevelRewriteFails(p, x)

\* The instances xs rewritten: a range for MultipleRewrites, or one.
RewriteRange(t, p, xs) ==
    CASE t = "remove-unused-var" -> RemoveUnusedVars(p, xs)
      [] t = "replace-function-def-with-decl" -> ReplaceFunctionDefsWithDecl(p, xs)
      [] t = "remove-unused-function" -> RemoveUnusedFunctions(p, xs)
      [] t = "remove-unused-enum-member" -> RemoveEnumMembers(p, xs)
RewriteFunction(t, p, x) ==
    CASE t = "param-to-global" -> ParamToGlobal(p, x)
      [] t = "param-to-local" -> ParamToLocal(p, x)
      [] t = "return-void" -> ReturnVoid(p, x)
      [] t = "rename-fun" -> RenameFun(p, x)
      [] t = "unify-function-decl" -> UnifyFunctionDecl(p, x)
      [] t = "move-function-body" -> MoveFunctionBody(p, x)
      [] t = "replace-undefined-function" -> ReplaceUndefinedFunction(p, x)
      [] t = "callexpr-to-value" -> CallExprToValue(p, x)
      [] t = "simplify-callexpr" -> SimplifyCallExpr(p, x)
RewriteVariable(t, p, x) ==
    CASE t = "local-to-global" -> LocalToGlobal(p, x)
      [] t = "move-global-var" -> MoveGlobalVar(p, x)
      [] t = "combine-global-var" -> CombineGlobalVarDecl(p, x)
      [] t = "combine-local-var" -> CombineLocalVarDecl(p, x)
      [] t = "rename-param" -> RenameParam(p, x)
      [] t = "rename-var" -> RenameVar(p, x)
RewriteStatement(t, p, x) ==
    CASE t = "simplify-comma-expr" -> SimplifyCommaExpr(p, x)
      [] t = "lift-assignment-expr" -> LiftAssignmentExpr(p, x)
      [] t \in {"binop-simplification", "remove-nested-function"} -> HoistToTmp(p, x)
      [] t = "simplify-if" -> SimplifyIf(p, x)
RewriteInlining(t, p, x) ==
    CASE t = "replace-callexpr" -> ReplaceCallExpr(p, x)
      [] t = "simple-inliner" -> InlineCall(p, x)
      [] t = "copy-propagation" -> DoCopyPropagation(p, x)
RewriteArray(t, p, x) ==
    CASE t = "reduce-array-size" -> ReduceArraySize(p, x)
      [] t = "reduce-array-dim" -> ReduceArrayDim(p, x)
      [] t = "remove-array" -> RemoveArray(p, x)
      [] t = "replace-array-index-var" -> ReplaceArrayIndexVar(p, x)
      [] t = "replace-array-access-with-index" -> ReplaceArrayAccess(p, x)
RewriteTypedef(t, p, x) ==
    CASE t = "replace-simple-typedef" -> ReplaceSimpleTypedef(p, x)
      [] t = "replace-one-level-typedef-type" -> ReplaceOneLevelTypedef(p, x)
      [] t = "remove-enum-member-value" -> RemoveEnumValue(p, x)
RewritePointer(t, p, x) ==
    CASE t = "remove-pointer" -> RemovePointer(p, x)
      [] t = "remove-addr-taken" -> RemoveAddrTaken(p, x)
      [] t = "reduce-pointer-pairs" -> ReducePointerPair(p, x)
      [] t = "reduce-pointer-level" -> ReducePointerLevel(p, x)
RewriteRecord(t, p, x) ==
    CASE t = "simplify-struct" -> SimplifyStruct(p, x)
      [] t = "simplify-struct-union-decl" -> SimplifyStructUnionDecl(p, x)
      [] t = "union-to-struct" -> UnionToStruct(p, x)
      [] t = "remove-unused-field" -> RemoveField(p, x)
      [] t = "empty-struct-to-int" -> EmptyStructToInt(p, x)
      [] t = "aggregate-to-scalar" -> AggregateToScalar(p, x)
Rewrite(t, p, xs) ==
    CASE t \in MultipleRewrites -> RewriteRange(t, p, xs)
      [] t \in VariableTools -> RewriteVariable(t, p, xs[1])
      [] t \in StatementTools -> RewriteStatement(t, p, xs[1])
      [] t \in InliningTools -> RewriteInlining(t, p, xs[1])
      [] t \in ArrayTools -> RewriteArray(t, p, xs[1])
      [] t \in TypedefTools -> RewriteTypedef(t, p, xs[1])
      [] t \in PointerTools -> RewritePointer(t, p, xs[1])
      [] t \in RecordTools -> RewriteRecord(t, p, xs[1])
      [] OTHER -> RewriteFunction(t, p, xs[1])

\* The instances counter..to, each choice of them the numbering allows: the
\* arrays of one loop have no order.
Chosen(t, all, counter, to) ==
    CASE t \in AnyOrder -> {<<x>> : x \in Range(all)}
      [] t = "replace-array-index-var" -> {<<x>> : x \in {x \in Range(all) : x.loop = all[counter].loop}}
      [] OTHER -> {SubSeq(all, counter, to)}

\* HandleTranslationUnit: how it ends, and the programs it may leave.
\* all are the instances, to is the counter itself where no --to-counter is
\* given.
FaultyTooBig(n, counter, to) == counter >= n \/ to > n
TooBig(n, counter, to) == counter > n \/ to > n
Outcome(e, P) == [error |-> e, programs |-> P]
HandleTranslationUnit(t, p, counter, to, all) ==
    CASE t \in SkipsCounter /\ all = << >> -> Outcome("none valid", {})
      [] ~(t \in SkipsCounter /\ all = << >>) /\ TooBig(Len(all), counter, to) -> Outcome("counter too big", {})
      [] ~TooBig(Len(all), counter, to) /\ RewritingFails(t, p, all[counter]) -> Outcome("assertion", {})
      [] OTHER -> Outcome("success", {Rewrite(t, p, xs) : xs \in Chosen(t, all, counter, to)})
=============================================================================
