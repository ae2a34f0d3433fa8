------------------------------ MODULE MCUnifdef ------------------------------
(***************************************************************************)
(* pass_unifdef at work on small files, with a test that may answer        *)
(* anything; and unifdef's lexer and symbol table on every small input.    *)
(*                                                                         *)
(* A behaviour is one run of the pass, or, with an empty file, one text    *)
(* and one symbol table to look at.                                        *)
(***************************************************************************)
EXTENDS UnifdefFiles

CONSTANTS
    MaxFragments,   \* bound: pieces of a text for the lexer
    Defined3        \* bound: symbols of a table of definitions

VARIABLES text, table

Lexer == INSTANCE UnifdefLexer

-----------------------------------------------------------------------------
(* The files *)

Sym(s) == <<[op |-> "symbol", s |-> s]>>
Num(n) == <<[op |-> "number", n |-> n]>>
Op(op, a, b) == a \o b \o <<[op |-> op, right |-> Len(b)]>>
Not(a) == a \o <<[op |-> "!"]>>

Plain(name) == [kind |-> "plain", name |-> name, blank |-> FALSE, split |-> FALSE]
Cond(kind, e) == [kind |-> kind, e |-> e, junk |-> FALSE, split |-> FALSE]
Bare(kind) == [kind |-> kind, split |-> FALSE]
Split(l) == [l EXCEPT !.split = TRUE]
Junk(l) == [l EXCEPT !.junk = TRUE]

A == 1  \* the symbols
B == 2
IfA == Cond("ifdef", Sym(A))
Group == {IfA, Cond("ifndef", Sym(A)), Cond("if", Num(1)), Cond("if", Op("/", Num(4), Sym(A))),
          Cond("if", Op("&&", Sym(A), Sym(B))), Cond("if", Op("||", Not(Sym(A)), Sym(B))),
          Cond("if", Op("&", Op("<<", Sym(A), Num(1)), Op("^", Sym(B), Num(1)))), Split(IfA), Junk(IfA)}
Inner == {<<Plain("p")>>, <<Blank, Blank>>,
          <<Cond("ifdef", Sym(B)), Plain("p"), Bare("endif")>>,
          <<Cond("ifdef", Sym(B)), Plain("p"), Bare("else"), Plain("q"), Bare("endif")>>}
Elif(e) == <<Cond("elif", e), Plain("r")>>
Rest == {<< >>, <<Bare("else"), Plain("r")>>, <<Split(Bare("else")), Plain("r")>>,
         Elif(Sym(B)), Elif(Sym(B)) \o <<Bare("else"), Plain("s")>>, Elif(Op(">", Sym(A), Num(1))),
         Elif(Not(Sym(A))) \o <<Cond("elif", Sym(B)), Plain("s"), Bare("else"), Plain("t")>>}
Ends == {<<Bare("endif")>>, <<Bare("endif"), Blank, Plain("u")>>, << >>}
TooDeep == <<IfA, Cond("ifdef", Sym(B)), IfA, Plain("p"), Bare("endif"), Bare("endif"), Bare("endif")>>
Files == {<<g>> \o i \o r \o e : g \in Group, i \in Inner, r \in Rest, e \in Ends} \cup {TooDeep}
SampleConditions ==
    UNION {{f[n].e : n \in {n \in DOMAIN f : f[n].kind \in Openers \cup {"elif"}}} : f \in Files}

\* The texts for the lexer are put together from pieces.
Fragments == {<<"#", "K">>, <<"#", "K", "x">>, <<"\n">>, <<"\\", "\n">>, <<"/", "*">>, <<"*", "/">>,
              <<"/", "/">>, <<"'", "x", "'">>, <<" ">>}
Texts == {FlattenSeq(s) : s \in UNION {[1..n -> Fragments] : n \in 0..MaxFragments}}

\* Every -D sym=val of a few symbols, and -U or nothing.
Tables == UNION {[S -> {Number(1)} \cup {Alias(s) : s \in Defined3}] : S \in SUBSET Defined3}

FileOrText ==
    \/ Init /\ text = << >> /\ table = << >>
    \/ /\ tool = "unifdef" /\ file = << >> /\ state = 0 /\ phase = "stop" /\ resumed = 0 /\ refused = {}
       /\ \/ text \in Texts /\ table = << >>
          \/ text = << >> /\ table \in Tables
OneStep == Next /\ UNCHANGED <<text, table>>
vars == <<tool, file, state, phase, resumed, refused, text, table>>
RunsAndTexts == FileOrText /\ [][OneStep]_vars

(***************************************************************************)
(* The pass comes to its end whatever the test answers: a refused variant  *)
(* moves the number on, and an accepted one has fewer lines and conditions *)
(* and does not move the number back.                                      *)
(***************************************************************************)
Weight(f) == Len(f) + Cardinality({i \in DOMAIN f : f[i].kind \in Openers \cup {"elif"}})
EveryStepProgresses ==
    [][phase' = "try" => IF file' = file THEN state' > state
                         ELSE Weight(file') < Weight(file) /\ state' >= state]_vars

-----------------------------------------------------------------------------
(* unifdef on the files, with some options and in some environments *)

SampleEnvs == [value : UNION {[S -> 0..2] : S \in SUBSET {A, B}}, odd : {0, 1}]

\* -D and -U of A, with and without -k -K -B -e, and -D A=0 -U B.
OneSymbol == {AddSym(NoOptions, A, FALSE, TRUE, Number(2)), AddSym(NoOptions, A, FALSE, FALSE, Words)}
SampleOptions ==
    {NoOptions, [NoOptions EXCEPT !.killconsts = TRUE]}
    \cup {[o EXCEPT !.killconsts = b, !.compblank = b, !.iocccok = b, !.strictlogic = c] :
             o \in OneSymbol \cup {AddSym(o2, B, FALSE, FALSE, Words) : o2 \in OneSymbol},
             b, c \in BOOLEAN}

-----------------------------------------------------------------------------
(***************************************************************************)
(* The lexer finds the directives of a text that C finds, as long as each  *)
(* directive begins and ends on a line of its own, and it takes nothing    *)
(* else for one of these.                                                  *)
(***************************************************************************)
LineOf(p) == Cardinality({i \in 1..(p - 1) : text[i] = "\n"})
Parsed == ToSet(Lexer!Lines(Lexer!Begin(text), 1))
LinesOfType(parsed, types) == {LineOf(l.begin) : l \in {k \in parsed : k.type \in types}}
\* The logical line of a directive begins behind the line end before it.
LogicalBegin(d) ==
    LET ends == {c \in ToSet(Lexer!CTokens(text)) : c.ch = "\n" /\ c.at < d.name}
    IN  Max({0} \cup {c.at : c \in ends}) + 1
OnOneLine(d) == LineOf(LogicalBegin(d)) = LineOf(d.end)

NameLines(found) == {LineOf(d.name) : d \in found}
DirectivesFound ==
    \A found \in {Lexer!CDirectives(text)}, parsed \in {Parsed} :
        /\ Lexer!WellFormed(text)
        /\ \A l \in parsed : l.type # "error"
        /\ \A d \in found : OnOneLine(d)
        => /\ LinesOfType(parsed, {"directive"}) \subseteq NameLines(found)
           /\ NameLines(found) \subseteq LinesOfType(parsed, {"directive", "dodgy"})

(***************************************************************************)
(* Resolving -D values that name other symbols comes to its end, also for  *)
(* symbols defined in a circle, and leaves no value that names a symbol    *)
(* with a number.                                                          *)
(***************************************************************************)
Order == SelectSeq([i \in 1..Max(Defined3) |-> i], LAMBDA s : s \in DOMAIN table)
Resolved == IndirectSym([s \in DOMAIN table |-> [val |-> table[s], from |-> s]], Order,
                        2 * Cardinality(Defined3))
ValuesResolved ==
    table # << >> =>
        \A r \in {Resolved} :
            /\ r.changed = 0
            /\ \A s \in DOMAIN table :
                  r.t[s].val.kind = "symbol" /\ r.t[s].val.sym \in DOMAIN table =>
                      r.t[r.t[s].val.sym].val.kind = "symbol"
=============================================================================
