------------------------------- MODULE MCClex -------------------------------
(***************************************************************************)
(* pass_clex at work: every command on every file of a few tokens.         *)
(***************************************************************************)
EXTENDS PassClex

CONSTANT MaxToks    \* bound: tokens of a file at the start

MCDefineName == <<2, 1>>

Tok(kind, str) == [kind |-> kind, str |-> str]
Space == Tok("ws", <<-2>>)
Newline == Tok("newline", <<-3>>)
HashTok == Tok("other", Hash)
Define == Tok("ident", DefineName)
NameA == Tok("ident", <<1>>)
NameB == Tok("ident", <<2>>)
NameAB == Tok("ident", <<1, 2>>)
Odd == Tok("ident", <<0>>)
Semi == Tok("op", <<-5>>)
Empty == Tok("string", EmptyString)
Short == Tok("string", <<Quote, 1, Quote>>)
Long == Tok("string", <<Quote, 1, LetterX, Quote>>)

MCCmds == {[name |-> c, n |-> 0] : c \in {"rename-toks", "delete-string", "shorten-string",
                                        "x-string", "define"}}
        \cup [name : {"rm-toks"}, n : {1, 2}] \cup [name : {"rm-tok-pattern"}, n : {2, 3}]

\* Macro definitions, text behind or between them; and files cut off in a definition.
Bodies == {<<>>, <<Semi>>, <<NameA, NameAB>>}
DefineLines == {<<HashTok, Define, Space, a, Space>> \o b \o <<Newline>> :
                    a \in {NameB, NameAB}, b \in Bodies}
Texts == UNION {[1..n -> {NameB, NameAB}] : n \in 0..2}
Ends == {<<>>, <<HashTok>>, <<HashTok, Space, Define>>, <<HashTok, Define, Newline>>,
         <<HashTok, Define, NameB, Semi>>}
DefineFiles == {d \o t \o <<Newline>> \o e : d \in DefineLines \cup {<<>>}, t \in Texts, e \in Ends}
               \cup {d \o t \o e \o <<u, Newline>> : d, e \in DefineLines, t \in {<<>>, <<NameB, Newline>>},
                                                   u \in {NameB, NameAB}}

Words(cmd) ==
    CASE cmd.name = "rename-toks" -> {NameA, NameB, NameAB, Odd, Define, Short}
      [] cmd.name \in {"rm-toks", "rm-tok-pattern"} -> {NameA, NameB, Space, Newline}
      [] OTHER -> {Empty, Short, Long, Space}

MCStartFiles(cmd) ==
    IF cmd.name = "define" THEN DefineFiles
    ELSE UNION {[1..n -> Words(cmd)] : n \in 0..(IF Long \in Words(cmd) THEN 2 ELSE MaxToks)}

\* What define puts for the macro at m: nothing if its line does not end.
Body(ts, m) ==
    LET first == SkipSpace(ts, m + 1)
        ends == {p \in first..Len(ts) : ts[p].kind = "newline"}
    IN  IF ends = {} THEN << >> ELSE SubSeq(ts, first, Min(ends) - 1)
\* Some macro is defined, directly or through others, in terms of itself: each
\* macro of some set has in its body the name of one of the set.
Recursive(ts) ==
    LET macros == MacroNames(ts) \cap DOMAIN ts
        uses == {<<ts[m].str, {t.str : t \in Range(Body(ts, m))}>> : m \in macros}
    IN  \E U \in {uses} :
           \E S \in SUBSET {u[1] : u \in U} \ {{}} :
              \A x \in S : \E u \in U : u[1] = x /\ u[2] \cap S # {}

\* Only define can make a file longer, and it does so without an end only
\* where a macro is defined in terms of itself: only such files are cut off.
MCShortFile(cmd, ts) == cmd.name = "define" /\ Recursive(ts) => Len(ts) <= 4 * MaxToks + 8

(***************************************************************************)
(* Every clex pass comes to its end whatever the test answers, or comes to *)
(* a file with a macro that is defined in terms of itself.  On such a file *)
(* define has no end while the test accepts: replace_macro puts the body,  *)
(* which has the name again, for each use of the name.                     *)
(***************************************************************************)
EndsUnlessRecursive == <>(phase # "try" \/ (tool.name = "define" /\ Recursive(file)))

(***************************************************************************)
(* Replacing a macro's name by its body does not change what the           *)
(* preprocessor makes of the text, before, between and behind the          *)
(* definitions and through the bodies of other macros, for macros that are *)
(* defined once, by name, before they are used, and not in terms of        *)
(* themselves.                                                             *)
(***************************************************************************)
\* The definitions of a file as <<name's position, body>>, in complete lines.
Definitions(ts) ==
    {<<m, SubSeq(ts, m + 1, Min({p \in m..Len(ts) : ts[p].kind = "newline"}) - 1)>> :
        m \in {q \in DOMAIN ts : /\ q > 3 /\ ts[q - 3].str = Hash /\ ts[q - 2] = Define
                                 /\ \E p \in q..Len(ts) : ts[p].kind = "newline"}}
Macros(ts) == {<<ts[d[1]].str, Solid(d[2])>> : d \in Definitions(ts)}
\* One round of expansion.
ExpandOnce(ts, macros) ==
    FlattenSeq([i \in DOMAIN ts |->
        IF \E d \in macros : d[1] = ts[i].str
        THEN (CHOOSE d \in macros : d[1] = ts[i].str)[2] ELSE <<ts[i]>>])
\* The positions of the tokens that are not in a definition.
TextPlaces(ts) == DOMAIN ts \ UNION {(d[1] - 3)..(d[1] + Len(d[2])) : d \in Definitions(ts)}
Text(ts) == Solid(At(ts, TextPlaces(ts)))
Preprocessed(ts) == ExpandOnce(ExpandOnce(Text(ts), Macros(ts)), Macros(ts))

Uses(macros, name) == UNION {{d[2][i].str : i \in DOMAIN d[2]} : d \in {e \in macros : e[1] = name}}
PlainMacros(ts) ==
    LET macros == Macros(ts)
        names == {d[1] : d \in macros}
    IN  /\ Cardinality(names) = Cardinality({i \in DOMAIN ts : ts[i].str = Hash})
        /\ \A d \in Definitions(ts) : ts[d[1]].kind = "ident"
        /\ \A d \in Definitions(ts) : \A i \in TextPlaces(ts) : ts[i].str = ts[d[1]].str => i > d[1]
        /\ \A n \in names : \A k \in Uses(macros, n) : n # k /\ n \notin Uses(macros, k)

DefineKeepsMeaning ==
    [][tool.name = "define" /\ PlainMacros(file) => Preprocessed(file') = Preprocessed(file)]_file
=============================================================================
