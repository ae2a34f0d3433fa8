SPECIFICATION EveryCallEnds
CONSTANTS
    Known = {"param-to-global", "param-to-local", "return-void", "rename-fun", "unify-function-decl",
             "move-function-body", "replace-undefined-function", "replace-function-def-with-decl",
             "remove-unused-function", "callexpr-to-value", "simplify-callexpr", "local-to-global",
             "move-global-var", "combine-global-var", "combine-local-var", "remove-unused-var",
             "rename-param", "rename-var", "simplify-comma-expr", "binop-simplification",
             "lift-assignment-expr", "remove-nested-function", "simplify-if", "replace-callexpr",
             "simple-inliner", "copy-propagation",
             "reduce-array-size", "reduce-array-dim", "remove-array", "replace-array-index-var",
             "replace-array-access-with-index",
             "replace-simple-typedef", "replace-one-level-typedef-type", "remove-unused-enum-member",
             "remove-enum-member-value", "remove-pointer", "remove-addr-taken", "reduce-pointer-pairs", "reduce-pointer-level",
             "simplify-struct", "simplify-struct-union-decl", "union-to-struct", "remove-unused-field",
             "empty-struct-to-int", "aggregate-to-scalar"}
    Tools <- AllTools
    Starts <- ProgramsFor
    Fits <- CompilesFor
    ClangDelta <- RunClang
    SmallestChunk = 2
    MaxInstances = 7
    MaxItems = 3
    BinarySearch = {"remove-unused-var", "replace-function-def-with-decl", "remove-unused-function"}
INVARIANTS QueryCountsInstances CallsEndWell RangesAreRepeatedSingles EveryInstanceTried
PROPERTIES VariantsCompile CallsAreKept RenamingKeepsBinding IndexesStayInBounds PassEnds
CHECK_DEADLOCK FALSE
