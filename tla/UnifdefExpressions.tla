------------------------- MODULE UnifdefExpressions -------------------------
(***************************************************************************)
(* unifdef/unifdef.c: the symbols and the expressions of #if and #elif.    *)
(*                                                                         *)
(* Symbols are numbers, in the order of their names.  The options say      *)
(* which symbols have a -D or a -U (known) and what the defined ones stand *)
(* for (value): a number, the name of a symbol, or a text that is neither. *)
(* An expression is the sequence of its operands and operators in the      *)
(* order eval_table and eval_unary come to their values: a node is a       *)
(* record with an operator; the last operand of an operator is the node    *)
(* before it, and the first one stands in front of the last one's nodes,   *)
(* of which there are as many as the operator says (right).                *)
(***************************************************************************)
EXTENDS Integers, Sequences, SequencesExt, FiniteSetsExt, Functions

Number(n) == [kind |-> "number", n |-> n, sym |-> 0]
Alias(s) == [kind |-> "symbol", n |-> 0, sym |-> s]
Words == [kind |-> "text", n |-> 0, sym |-> 0]

\* The symbols in the order they were added; -i per symbol; the flags
\* -k, -K, -B, -b, -c, -e, -s, -m, whether -o is given, and -x.
NoOptions == [known |-> {}, order |-> << >>, value |-> << >>, ignore |-> {}, killconsts |-> FALSE,
              strictlogic |-> FALSE, compblank |-> FALSE, lnblank |-> FALSE,
              complement |-> FALSE, iocccok |-> FALSE, symlist |-> FALSE,
              inplace |-> FALSE, output |-> FALSE, exitmode |-> 0]

-----------------------------------------------------------------------------
(* The symbol table *)

\* addsym1 and addsym2: a later -D or -U of a symbol replaces the earlier one.
AddSym(opts, sym, ignorethis, definethis, val) ==
    [opts EXCEPT
        !.known = @ \cup {sym},
        !.order = IF sym \in opts.known THEN @ ELSE Append(@, sym),
        !.ignore = IF ignorethis THEN @ \cup {sym} ELSE @ \ {sym},
        !.value = IF definethis THEN (sym :> val) @@ @ ELSE Restrict(@, DOMAIN @ \ {sym})]

\* defundef: a #define with parameters counts as 1, #undef as -U.  The line is
\* [kind, sym, args, val].
DefUndef(opts, l) ==
    CASE l.kind = "define" -> AddSym(opts, l.sym, FALSE, TRUE, IF l.args THEN Number(1) ELSE l.val)
      [] l.kind = "undef" -> AddSym(opts, l.sym, FALSE, FALSE, Words)
      [] l.kind = "plain" -> opts

\* main: one option after the other.  An argument is [opt, sym, val], that of
\* -f [opt, lines]; -I, -d, -n and -t are left out.
Flag == ("k" :> "killconsts") @@ ("K" :> "strictlogic") @@ ("B" :> "compblank") @@ ("b" :> "lnblank")
        @@ ("l" :> "lnblank") @@ ("c" :> "complement") @@ ("e" :> "iocccok") @@ ("s" :> "symlist")
        @@ ("m" :> "inplace") @@ ("o" :> "output")
ParseArg(opts, a) ==
    CASE a.opt \in DOMAIN Flag -> [opts EXCEPT ![Flag[a.opt]] = TRUE]
      [] a.opt = "f" -> FoldLeft(DefUndef, opts, a.lines)
      [] a.opt = "x" -> [opts EXCEPT !.exitmode = a.val.n]
      [] a.opt \in {"D", "iD"} -> AddSym(opts, a.sym, a.opt = "iD", TRUE, a.val)
      [] a.opt \in {"U", "iU"} -> AddSym(opts, a.sym, a.opt = "iU", FALSE, Words)

\* Combinations main refuses; files is the number of input files.
Refused(opts, files) ==
    \/ opts.compblank /\ opts.lnblank
    \/ opts.symlist /\ (opts.output \/ opts.inplace \/ files > 1)
    \/ files > 1 /\ (opts.output \/ ~opts.inplace)
    \/ files = 0 /\ opts.inplace
    \/ opts.exitmode \notin 0..2

\* indirectsym: a value that names a defined symbol becomes that symbol's
\* value.  t[s] has the value and the -D it came from: C compares pointers.
FaultyNamesAnother(t, s) == t[s].val.kind = "symbol" /\ t[s].val.sym \in DOMAIN t \ {s}
NamesAnother(t, s) ==
    /\ t[s].val.kind = "symbol" /\ t[s].val.sym \in DOMAIN t \ {s}
    /\ t[t[s].val.sym].from # t[s].from

\* A round over the table, in the order the symbols were added, with the count
\* of changes; the loop is over when there is none.  At most n rounds more.
IndirectRound(table, order) ==
    FoldLeft(LAMBDA r, s : IF NamesAnother(r.t, s)
                           THEN [t |-> [r.t EXCEPT ![s] = r.t[r.t[s].val.sym]], changed |-> r.changed + 1]
                           ELSE r,
             [t |-> table, changed |-> 0], order)
RoundAgain(r, order) == IF r.changed = 0 THEN r ELSE IndirectRound(r.t, order)
IndirectSym(table, order, n) ==
    LET round[k \in 0..n] ==
            IF k = 0 THEN IndirectRound(table, order) ELSE RoundAgain(round[k - 1], order)
    IN  round[n]

\* The options a command line leaves.
Options(args) ==
    LET o == FoldLeft(ParseArg, NoOptions, args)
        table == [s \in DOMAIN o.value |-> [val |-> o.value[s], from |-> s]]
        order == SelectSeq(o.order, LAMBDA s : s \in DOMAIN table)
        t == IndirectSym(table, order, 2 * Len(order)).t
    IN  [o EXCEPT !.value = [s \in DOMAIN table |-> t[s].val]]

-----------------------------------------------------------------------------
(* Expressions *)

Truth(v) == IF v # 0 THEN "TRUE" ELSE "FALSE"
Known(v) == [lt |-> Truth(v), val |-> v]
Open == [lt |-> "IF", val |-> 0]
ParseError == [lt |-> "ERROR", val |-> 0]
Bit(b) == IF b THEN 1 ELSE 0

\* The operators; C divides towards zero.
Quotient(a, b) == LET abs(x) == IF x < 0 THEN -x ELSE x
                  IN  IF (a < 0) = (b < 0) THEN abs(a) \div abs(b) ELSE -(abs(a) \div abs(b))
\* | ^ & on two bits; on longs, the low bits first, until only signs are left:
\* what is left of each, the weight of the next bits, and the sum so far.
OfBits(op, x, y) ==
    CASE op = "|" -> Bit(x + y > 0) [] op = "^" -> Bit(x # y) [] op = "&" -> Bit(x + y = 2)
Bitwise(op, a, b) ==
    LET bits[s \in Int \X Int \X Int \X Int] ==
            IF s[1] \in {0, -1} /\ s[2] \in {0, -1} THEN s[4] - s[3] * OfBits(op, -s[1], -s[2])
            ELSE bits[<<s[1] \div 2, s[2] \div 2, 2 * s[3], s[4] + s[3] * OfBits(op, s[1] % 2, s[2] % 2)>>]
    IN  bits[<<a, b, 1, 0>>]
\* a << n and a >> n, place by place.  C defines them for places there are in a
\* long only.
ShiftPlaces == 0..63
Shifted(op, a, n) ==
    LET shift[s \in Int \X Nat] ==
            IF s[2] = 0 THEN s[1]
            ELSE shift[<<IF op = "<<" THEN 2 * s[1] ELSE s[1] \div 2, s[2] - 1>>]
    IN  shift[<<a, n>>]
BitOps == {"|", "^", "&"}
ShiftOps == {"<<", ">>"}
BinaryOps == {"<", ">", "<=", ">=", "==", "!=", "||", "&&", "+", "-", "*", "/", "%"} \cup BitOps \cup ShiftOps
Value(op, a, b) ==
    CASE op = "<" -> Bit(a < b) [] op = ">" -> Bit(a > b)
      [] op = "<=" -> Bit(a <= b) [] op = ">=" -> Bit(a >= b)
      [] op = "==" -> Bit(a = b) [] op = "!=" -> Bit(a # b)
      [] op = "||" -> Bit(a # 0 \/ b # 0) [] op = "&&" -> Bit(a # 0 /\ b # 0)
      [] op = "+" -> a + b [] op = "-" -> a - b [] op = "*" -> a * b
      [] op = "/" -> IF b = 0 THEN 0 ELSE Quotient(a, b)
      [] op = "%" -> IF b = 0 THEN 0 ELSE a - b * Quotient(a, b)
      [] op \in BitOps -> Bitwise(op, a, b)
      [] op \in ShiftOps -> IF b \in ShiftPlaces THEN Shifted(op, a, b) ELSE 0

\* op_strict, op_or, op_and: || and && are decided by one side, unless -K.
FaultyDecides(opts, op, lts) == ~opts.strictlogic /\ op \in {"||", "&&"} /\ "TRUE" \in lts
Decides(opts, op, lts) ==
    ~opts.strictlogic /\ \/ op = "||" /\ "TRUE" \in lts
                         \/ op = "&&" /\ "FALSE" \in lts
Binary(opts, op, a, b) ==
    LET lts == {a.lt, b.lt}
        strict == "ERROR" \notin lts /\ ~Decides(opts, op, lts)
    IN  CASE "ERROR" \in lts -> ParseError
          [] "ERROR" \notin lts /\ Decides(opts, op, lts) -> Known(Bit(op = "||"))
          [] strict /\ "IF" \in lts -> Open
          [] strict /\ "IF" \notin lts -> Known(Value(op, a.val, b.val))

UnaryOps == {"!", "neg", "~"}
Negated(op, v) == CASE op = "!" -> Bit(v = 0) [] op = "neg" -> -v [] op = "~" -> -v - 1
Unary(op, a) == IF a.lt \in {"ERROR", "IF"} THEN a ELSE Known(Negated(op, a.val))

\* A symbol in an expression, and behind defined.  -s takes every symbol to be
\* undefined.
Symbol(opts, s) ==
    CASE opts.symlist \/ s \in opts.known \ DOMAIN opts.value -> Known(0)
      [] ~opts.symlist /\ s \notin opts.known -> Open
      [] ~opts.symlist /\ s \in opts.known \cap DOMAIN opts.value ->
            IF opts.value[s].kind = "number" THEN Known(opts.value[s].n) ELSE ParseError
Defined(opts, s) ==
    IF ~opts.symlist /\ s \notin opts.known THEN Open
    ELSE Known(Bit(~opts.symlist /\ s \in DOMAIN opts.value))

\* eval_unary and eval_table: what is known of each node, one after the other.
Leaves == {"number", "symbol", "defined", "bad"}
Leaf(opts, node) ==
    CASE node.op = "number" -> Known(node.n)
      [] node.op = "symbol" -> Symbol(opts, node.s)
      [] node.op = "defined" -> Defined(opts, node.s)
      [] node.op = "bad" -> ParseError
LastOperand(values) == values[Len(values)]
FirstOperand(values, node) == values[Len(values) - node.right]
EvalNode(opts, node, values) ==
    CASE node.op \in Leaves -> Leaf(opts, node)
      [] node.op \in UnaryOps -> Unary(node.op, LastOperand(values))
      [] node.op \in BinaryOps -> Binary(opts, node.op, FirstOperand(values, node), LastOperand(values))
WithNode(opts, node, values) == Append(values, EvalNode(opts, node, values))
Evaluation(opts, e) ==
    LET upto[n \in 0..Len(e)] == IF n = 0 THEN << >> ELSE WithNode(opts, e[n], upto[n - 1])
    IN  upto[Len(e)]

\* Nothing is parsed behind an error.
ParsedNodes(values) == {i \in DOMAIN values : \A j \in 1..(i - 1) : values[j].lt # "ERROR"}
SymbolsAt(e, values) == {e[i].s : i \in {i \in ParsedNodes(values) : e[i].op \in {"symbol", "defined"}}}
SymbolsOf(opts, e) == SymbolsAt(e, Evaluation(opts, e))

\* a / b is computed before anybody looks at the types: it traps when b is 0,
\* and may trap when b has an unknown symbol, for its value was never set.
Divisors(e, values) == {values[i - 1].lt : i \in {i \in ParsedNodes(values) : e[i].op \in {"/", "%"}}}
TrapsFor(divisors) ==
    CASE "FALSE" \in divisors -> "always"
      [] "FALSE" \notin divisors /\ "IF" \in divisors -> "maybe"
      [] divisors \cap {"FALSE", "IF"} = {} -> "never"
Traps(opts, e) == TrapsFor(Divisors(e, Evaluation(opts, e)))

\* ifeval: without -k an expression that has no symbol is left alone.
Verdict(opts, e, values) ==
    IF (~opts.killconsts /\ SymbolsAt(e, values) = {}) \/ LastOperand(values).lt = "ERROR" THEN "IF"
    ELSE LastOperand(values).lt
IfEval(opts, e) == Verdict(opts, e, Evaluation(opts, e))
=============================================================================
