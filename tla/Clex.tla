-------------------------------- MODULE Clex --------------------------------
(***************************************************************************)
(* clex/driver.c, the token-level reducer, and creduce/pass_clex.pm, the   *)
(* pass that calls it: clex changes the index-th instance of one kind and  *)
(* exits with OK, or exits with STOP when there are fewer instances.       *)
(*                                                                         *)
(* A token has a kind and a text, a sequence of numbers: the letters a..z  *)
(* are 1..Alphabet, every other character of an identifier is 0 (all of    *)
(* them come before "a" in strcmp), and the characters that identifiers do *)
(* not have are negative.                                                  *)
(***************************************************************************)
EXTENDS Integers, Sequences, SequencesExt, FiniteSetsExt

CONSTANTS
    Alphabet,   \* the number of letters: 26
    DefineName  \* the name "define"

ASSUME AlphabetAssumption == Alphabet \in Nat \ {0}

Quote == -1
EmptyString == <<Quote, Quote>>
LetterX == Alphabet     \* the letter x; which one it is does not matter
Hash == <<-4>>

OK == 51
STOP == 71

\* TOK_WS and TOK_NEWLINE; the other tokens are what the commands count.
IsSpace(t) == t.kind = "ws" \/ t.kind = "newline"
\* How many of the first i tokens satisfy P: "which" after the i-th round.
CountUpTo(ts, P(_), i) == Cardinality({j \in 1..i : P(ts[j])})
Visible(t) == ~IsSpace(t)
Exit(code, ts) == [code |-> code, out |-> ts]

\* The k-th number of a set, and the tokens at the positions in S, in their order.
Rank(S, m) == Cardinality({x \in S : x <= m})
Nth(S, k) == CHOOSE m \in S : Rank(S, m) = k
At(ts, S) == [k \in 1..Cardinality(S) |-> ts[Nth(S, k)]]

-----------------------------------------------------------------------------
(* rename-toks *)

\* The next name: the last letter that is not z moves on, the z's behind it
\* wrap to a; when all letters wrap, an a is put in front.
NextName(name) ==
    LET movable == {p \in DOMAIN name : name[p] # Alphabet}
        pos == Max(movable)
    IN  IF movable = {}
        THEN [p \in 1..(Len(name) + 1) |-> 1]
        ELSE [p \in DOMAIN name |-> CASE p < pos -> name[p]
                                      [] p = pos -> name[p] + 1
                                      [] p > pos -> 1]

\* Faulty: the search does not begin again after a clash.
FaultyFindUnusedName(ts) ==
    FoldLeft(LAMBDA name, t : IF t.str = name THEN NextName(name) ELSE name, <<1>>, ts)

\* As long as some token has the name, it is the next one's turn; after as many
\* rounds as there are tokens the name (the one element of the set) is unused.
FindUnusedName(ts) ==
    LET used == {ts[i].str : i \in DOMAIN ts}
        name[n \in 0..Len(ts)] ==
            IF n = 0 THEN {<<1>>}
            ELSE {IF x \in used THEN NextName(x) ELSE x : x \in name[n - 1]}
    IN  CHOOSE x \in name[Len(ts)] : TRUE

\* strcmp(s, t) < 0
Before(s, t) ==
    \/ IsStrictPrefix(s, t)
    \/ \E p \in 1..Min({Len(s), Len(t)}) :
          s[p] < t[p] /\ \A q \in 1..(p - 1) : s[q] = t[q]

\* Faulty: any name that is not shorter than the new one goes.
FaultyShouldBeRenamed(name, newname) == Len(newname) <= Len(name)

\* A name with a character that is not a lower-case letter goes; a name of
\* lower-case letters goes if the new one is no longer and comes before it.
ShouldBeRenamed(name, newname) ==
    \/ \E p \in DOMAIN name : name[p] \notin 1..Alphabet
    \/ Len(newname) <= Len(name) /\ Before(newname, name)

\* The names to be renamed, in the order in which they appear first.
IndexToks(ts, newname) ==
    LET add(index, t) ==
            IF t.kind = "ident" /\ ShouldBeRenamed(t.str, newname) /\ ~Contains(index, t.str)
            THEN Append(index, t.str) ELSE index
    IN  FoldLeft(add, <<>>, ts)

RenameToks(ts, idx) ==
    LET newname == FindUnusedName(ts)
        index == IndexToks(ts, newname)
        renamed(t) == IF t.kind = "ident" /\ t.str = index[idx + 1]
                      THEN [t EXCEPT !.str = newname] ELSE t
    IN  IF idx >= Len(index) THEN Exit(STOP, ts)
        ELSE Exit(OK, [i \in DOMAIN ts |-> renamed(ts[i])])

-----------------------------------------------------------------------------
(* delete-string, shorten-string and x-string *)

IsString(t) == t.kind = "string"
IsFullString(t) == IsString(t) /\ t.str # EmptyString

\* The idx-th string that is not empty becomes "".
DeleteString(ts, idx) ==
    LET hit(i) == IsFullString(ts[i]) /\ CountUpTo(ts, IsFullString, i) = idx + 1
    IN  IF \E i \in DOMAIN ts : hit(i)
        THEN Exit(OK, [i \in DOMAIN ts |-> IF hit(i) THEN [ts[i] EXCEPT !.str = EmptyString]
                                           ELSE ts[i]])
        ELSE Exit(STOP, ts)

\* The pairs <<token, position>> of the characters of strings that satisfy P,
\* in the order of the file.
CharsOfStrings(ts, P(_, _)) ==
    FlattenSeq([i \in DOMAIN ts |->
        LET str == ts[i].str
            places == SelectSeq([p \in DOMAIN str |-> p], LAMBDA p : IsString(ts[i]) /\ P(str, p))
        IN  [k \in DOMAIN places |-> <<i, places[k]>>]])

\* Those between the quotes, and those that x-string has not replaced yet.
InnerChars(ts) == CharsOfStrings(ts, LAMBDA s, p : 1 < p /\ p < Len(s))
OtherChars(ts) == CharsOfStrings(ts, LAMBDA s, p : s[p] # LetterX)

ReplaceChar(ts, c, str) == [ts EXCEPT ![c[1]].str = str]

\* The idx-th character between quotes goes.
ShortenString(ts, idx) ==
    LET chars == InnerChars(ts)
        c == chars[idx + 1]
    IN  IF idx < Len(chars)
        THEN Exit(OK, ReplaceChar(ts, c, RemoveAt(ts[c[1]].str, c[2])))
        ELSE Exit(STOP, ts)

\* The idx-th character of a string that is not x becomes x; the quotes count.
XString(ts, idx) ==
    LET chars == OtherChars(ts)
        c == chars[idx + 1]
    IN  IF idx < Len(chars)
        THEN Exit(OK, ReplaceChar(ts, c, [ts[c[1]].str EXCEPT ![c[2]] = LetterX]))
        ELSE Exit(STOP, ts)

-----------------------------------------------------------------------------
(* rm-toks-n and rm-tok-pattern-n *)

\* n tokens are removed from the idx-th on, with the space among and behind them.
RmToks(n, ts, idx) ==
    LET which(i) == CountUpTo(ts, Visible, i)
        started(i) == which(i) > idx
    IN  Exit(IF started(Len(ts)) THEN OK ELSE STOP,
             At(ts, {i \in DOMAIN ts : ~started(i) \/ which(i) > idx + n}))

\* 1 << n, and bit k of an unsigned number.
PowerOfTwo(n) ==
    LET power[k \in 0..n] == IF k = 0 THEN 1 ELSE 2 * power[k - 1]
    IN  power[n]
Bit(x, k) == (x \div PowerOfTwo(k)) % 2 = 1

\* Faulty: the bits of the index alone choose, so the first choice is empty.
FaultyRmTokPattern(n, ts, idx) ==
    LET pat == idx % PowerOfTwo(n - 1)
        base == idx \div PowerOfTwo(n - 1)
        which(i) == CountUpTo(ts, Visible, i) - 1
        deleted == {i \in DOMAIN ts : /\ Visible(ts[i]) /\ base <= which(i) /\ which(i) < base + n
                                      /\ Bit(pat, which(i) - base)}
    IN  Exit(IF deleted # {} THEN OK ELSE STOP, At(ts, DOMAIN ts \ deleted))

\* The low n - 1 bits of the index choose which of the n tokens from the
\* first one on are removed besides that one; the others say where to begin.
RmTokPattern(n, ts, idx) ==
    LET patterns == PowerOfTwo(n - 1)
        pat == 1 + 2 * (idx % patterns)
        base == idx \div patterns
        which(i) == CountUpTo(ts, Visible, i) - 1     \* before which++
        started(i) == Visible(ts[i]) /\ base <= which(i) /\ which(i) < base + n
        deleted == {i \in DOMAIN ts : started(i) /\ Bit(pat, which(i) - base)}
        matched == \E i \in DOMAIN ts : Visible(ts[i]) /\ which(i) = base
    IN  Exit(IF matched /\ deleted # {} THEN OK ELSE STOP, At(ts, DOMAIN ts \ deleted))

-----------------------------------------------------------------------------
(* define *)

\* Faulty: the end of the line is taken for space.
FaultySkipSpace(ts, i) ==
    LET solid == {p \in i..Len(ts) : Visible(ts[p])}
    IN  IF solid = {} THEN Len(ts) + 1 ELSE Min(solid)

\* The first position from i on that holds no TOK_WS; the loop has no other
\* end, so it runs past the last token when there is none.
SkipSpace(ts, i) ==
    LET solid == {p \in i..Len(ts) : ts[p].kind # "ws"}
    IN  IF solid = {} THEN Len(ts) + 1 ELSE Min(solid)

\* The positions the scan for "# define" takes for macro names; the last one
\* is Len(ts) + 1 if the scan has run past the last token.
MacroNames(ts) ==
    LET scan[i \in 1..(Len(ts) + 2)] ==
            IF i > Len(ts) THEN {}
            ELSE IF ts[i].str # Hash THEN scan[i + 1]
            ELSE LET d == SkipSpace(ts, i + 1)
                     m == SkipSpace(ts, d + 1)
                 IN  IF d > Len(ts) THEN {d}
                     ELSE IF ts[d].str # DefineName THEN scan[d + 1]
                     ELSE IF m > Len(ts) THEN {Len(ts) + 1}
                     ELSE {m} \cup scan[m + 1]
    IN  scan[1]

Used(ts, m) == m > Len(ts) \/ \E j \in DOMAIN ts : j # m /\ ts[j].str = ts[m].str

\* Faulty: the definition itself is rewritten, too.
FaultyReplaceMacro(ts, m) ==
    LET first == SkipSpace(ts, m + 1)
        ends == {p \in first..Len(ts) : ts[p].kind = "newline"}
        put(x) == IF ts[x].str = ts[m].str THEN SubSeq(ts, first, Min(ends) - 1) ELSE <<ts[x]>>
    IN  IF ends = {} THEN Exit(139, ts)
        ELSE Exit(OK, FlattenSeq([x \in DOMAIN ts |-> put(x)]))

\* What stands behind the macro's name up to the end of the line takes the
\* place of its name everywhere else.  Without an end of line the loop leaves
\* the token list and the program dies before it has written anything.
ReplaceMacro(ts, m) ==
    LET first == SkipSpace(ts, m + 1)
        ends == {p \in first..Len(ts) : ts[p].kind = "newline"}
        body == SubSeq(ts, first, Min(ends) - 1)
        put(x) == IF x # m /\ ts[x].str = ts[m].str THEN body ELSE <<ts[x]>>
    IN  IF ends = {} THEN Exit(139, ts)
        ELSE Exit(OK, FlattenSeq([x \in DOMAIN ts |-> put(x)]))

\* The tok_index-th macro that is used.  A token past the end is whatever is
\* in memory: the program dies, or takes it for something else and stops.
DefineCommand(ts, idx) ==
    LET used == {m \in MacroNames(ts) : Used(ts, m)}
        m == Nth(used, idx + 1)
    IN  IF idx < Cardinality(used) /\ m <= Len(ts) THEN {ReplaceMacro(ts, m)}
        ELSE {Exit(STOP, ts)} \cup {Exit(139, ts) : x \in used \ DOMAIN ts}

-----------------------------------------------------------------------------
(* main, and the pass *)

\* clex <cmd> <index> <file>
Run(cmd, ts, idx) ==
    CASE cmd.name = "rename-toks" -> {RenameToks(ts, idx)}
      [] cmd.name = "delete-string" -> {DeleteString(ts, idx)}
      [] cmd.name = "shorten-string" -> {ShortenString(ts, idx)}
      [] cmd.name = "x-string" -> {XString(ts, idx)}
      [] cmd.name = "rm-toks" -> {RmToks(cmd.n, ts, idx)}
      [] cmd.name = "rm-tok-pattern" -> {RmTokPattern(cmd.n, ts, idx)}
      [] cmd.name = "define" -> DefineCommand(ts, idx)

NewClex(cmd) == 0
AdvanceClex(cmd, index) == index + 1
TransformClex(cmd, ts, index) ==
    {[code |-> IF r.code = OK THEN "OK" ELSE IF r.code = STOP THEN "STOP" ELSE "ERROR",
      file |-> IF r.code = OK THEN r.out ELSE ts,
      state |-> index] : r \in Run(cmd, ts, index)}
=============================================================================
