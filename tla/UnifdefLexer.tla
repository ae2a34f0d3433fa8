---------------------------- MODULE UnifdefLexer ----------------------------
(***************************************************************************)
(* unifdef/unifdef.c: how parseline finds the directives of a file, and    *)
(* the translation phases of C it stands in for.                           *)
(*                                                                         *)
(* A text is a sequence of characters, one of them the line end whatever   *)
(* its style.  "K" stands for a whole directive name (the #else, say) and  *)
(* "x" for another character of a name.  Lines are shorter than MAXLINE.   *)
(*                                                                         *)
(* The lexer x has the line being read and the rest of the text, the       *)
(* position in the line, the comment state, the line state, and whether it *)
(* gave up; it has not while text mode (-t, or "ignoring") is off.         *)
(***************************************************************************)
EXTENDS Naturals, Sequences, SequencesExt, FiniteSetsExt

Spaces == {" "}
SymbolChars == {"K", "x"}
Literal == ("'" :> "char") @@ ("\"" :> "string")
Close == ("char" :> "'") @@ ("string" :> "\"")

\* fgets: the next line of the text, with its line end if it has one.
FirstLine(t) == SubSeq(t, 1, IF Contains(t, "\n") THEN Min({i \in DOMAIN t : t[i] = "\n"}) ELSE Len(t))
RestOf(t) == SubSeq(t, Len(FirstLine(t)) + 1, Len(t))

Char(x) == IF x.pos <= Len(x.line) THEN x.line[x.pos] ELSE ""
AtEnd(x) == x.pos > Len(x.line)
Sees(x, s) == x.pos + Len(s) - 1 <= Len(x.line) /\ SubSeq(x.line, x.pos, x.pos + Len(s) - 1) = s
Move(x, n, incomment) == [x EXCEPT !.pos = @ + n, !.incomment = incomment]
Splice == <<"\\", "\n">>

-----------------------------------------------------------------------------
(* skipcomment *)

\* What one step of the scan makes of the lexer, by its comment state.
OutsideComment(x) ==
    CASE Sees(x, <<"/">> \o Splice) -> Move(x, 3, "starting")
      [] Sees(x, <<"/", "*">>) -> Move(x, 2, "c")
      [] Sees(x, <<"/", "/">>) -> Move(x, 2, "c++")
      [] Char(x) \in DOMAIN Literal -> [Move(x, 1, Literal[Char(x)]) EXCEPT !.linestate = "dirty"]
      [] Char(x) = "\n" -> [Move(x, 1, "no") EXCEPT !.linestate = "start"]
      [] Char(x) \in Spaces -> Move(x, 1, "no")
      [] OTHER -> x
FaultyInLineComment(x) ==
    IF Char(x) = "\n" THEN Move(x, 1, "no") ELSE Move(x, 1, "c++")
InLineComment(x) ==
    IF Char(x) = "\n" THEN [Move(x, 1, "no") EXCEPT !.linestate = "start"] ELSE Move(x, 1, "c++")
InLiteral(x) ==
    CASE Char(x) = Close[x.incomment] -> Move(x, 1, "no")
      [] Char(x) = "\\" -> Move(x, IF x.pos = Len(x.line) THEN 1 ELSE 2, x.incomment)
      [] Char(x) = "\n" -> [x EXCEPT !.ok = FALSE]
      [] OTHER -> Move(x, 1, x.incomment)
InBlockComment(x) ==
    CASE Sees(x, <<"*">> \o Splice) -> Move(x, 3, "finishing")
      [] Sees(x, <<"*", "/">>) -> Move(x, 2, "no")
      [] OTHER -> Move(x, 1, "c")
StartingComment(x) ==
    CASE Char(x) = "*" -> Move(x, 1, "c")
      [] Char(x) = "/" -> Move(x, 1, "c++")
      [] OTHER -> [x EXCEPT !.incomment = "no", !.linestate = "dirty"]
FinishingComment(x) == IF Char(x) = "/" THEN Move(x, 1, "no") ELSE Move(x, 0, "c")

Scan(x) ==
    CASE Sees(x, Splice) -> Move(x, 2, x.incomment)
      [] ~Sees(x, Splice) /\ x.incomment = "no" -> OutsideComment(x)
      [] ~Sees(x, Splice) /\ x.incomment = "c++" -> InLineComment(x)
      [] ~Sees(x, Splice) /\ x.incomment \in {"char", "string"} -> InLiteral(x)
      [] ~Sees(x, Splice) /\ x.incomment = "c" -> InBlockComment(x)
      [] ~Sees(x, Splice) /\ x.incomment = "starting" -> StartingComment(x)
      [] ~Sees(x, Splice) /\ x.incomment = "finishing" -> FinishingComment(x)

RECURSIVE SkipComment(_)
SkipComment(x) ==
    IF AtEnd(x) \/ ~x.ok THEN x
    ELSE CHOOSE r \in {IF y = x THEN x ELSE SkipComment(y) : y \in {Scan(x)}} : TRUE

\* skipline: the rest of the line, which is no directive.
RECURSIVE SkipRest(_)
SkipRest(x) ==
    IF AtEnd(x) \/ ~x.ok THEN x
    ELSE CHOOSE r \in {SkipRest(IF y.pos = x.pos /\ y.ok THEN Move(y, 1, y.incomment) ELSE y) :
                          y \in {SkipComment(x)}} : TRUE
SkipLine(x) == SkipRest(IF AtEnd(x) THEN x ELSE [x EXCEPT !.linestate = "dirty"])

RECURSIVE SkipSym(_)
SkipSym(x) == IF Char(x) \in SymbolChars THEN SkipSym(Move(x, 1, x.incomment)) ELSE x

-----------------------------------------------------------------------------
(* skiphash and parseline *)

\* A directive that is not over at the end of its line takes the next line
\* with it, unread; at the end of the file the line end is supplied.
TakeNextLine(x) ==
    IF x.rest = << >> THEN [x EXCEPT !.linestate = "start"]
    ELSE [x EXCEPT !.line = @ \o FirstLine(x.rest), !.rest = RestOf(x.rest),
                   !.pos = Len(x.line) + 1 + Len(FirstLine(x.rest)), !.linestate = "dirty"]

\* The end of a directive, whose name has been read.
Taken(after) == IF after.linestate = "hash" THEN TakeNextLine(after) ELSE after
Judged(taken, wascomment) ==
    IF taken.ok /\ (wascomment # "no" \/ taken.linestate # "start")
    THEN [taken EXCEPT !.type = "dodgy", !.linestate = "dirty"]
    ELSE [taken EXCEPT !.type = "directive"]
FinishDirective(x, wascomment) == Judged(Taken(SkipLine(SkipComment(x))), wascomment)

\* Behind the hash.
Directive(x, wascomment) ==
    IF AtEnd(x) THEN x
    ELSE IF Char(x) = "K" /\ Char(Move(x, 1, "no")) \notin SymbolChars
         THEN FinishDirective(Move(x, 1, x.incomment), wascomment)
         ELSE IF Sees(SkipSym(x), Splice) THEN [x EXCEPT !.ok = FALSE]
              ELSE SkipLine(SkipSym(x))

NextLine(x) == [x EXCEPT !.line = FirstLine(x.rest), !.rest = RestOf(x.rest), !.pos = 1, !.type = "plain"]
AtFirst(first, wascomment) ==
    CASE ~first.ok \/ AtEnd(first) -> first
      [] first.ok /\ first.linestate = "start" /\ Char(first) = "#" ->
            Directive(SkipComment([first EXCEPT !.pos = @ + 1, !.linestate = "hash"]), wascomment)
      [] OTHER -> SkipLine(first)
ParseLine(x) == AtFirst(SkipComment(NextLine(x)), x.incomment)

\* The lines of a file: the position where each begins, and its type.
RECURSIVE Lines(_, _)
Lines(x, begin) ==
    IF x.rest = << >> \/ ~x.ok THEN << >>
    ELSE CHOOSE ls \in {<<[begin |-> begin, type |-> IF y.ok THEN y.type ELSE "error"]>>
                            \o Lines(y, begin + Len(y.line)) : y \in {ParseLine(x)}} : TRUE
Begin(text) == [line |-> << >>, rest |-> text, pos |-> 1, incomment |-> "no", linestate |-> "start",
                type |-> "plain", ok |-> TRUE]

-----------------------------------------------------------------------------
(* The reference: the translation phases of C *)

\* Phase 2: the characters left when spliced lines are joined, by position.
Spliced(t) ==
    LET at == {i \in 1..(Len(t) - 1) : t[i] = "\\" /\ t[i + 1] = "\n"}
    IN  SelectSeq([i \in DOMAIN t |-> i], LAMBDA i : i \notin at /\ i - 1 \notin at)

\* Phase 3: the positions outside of comments and literals, a comment standing
\* for a space at its first position.  bad when a literal is not closed on
\* its line or a comment not at all.
RECURSIVE Tokens(_, _, _, _)
Tokens(t, ps, k, mode) ==
    LET c(i) == IF i <= Len(ps) THEN t[ps[i]] ELSE ""
        keep(ch) == <<[ch |-> ch, at |-> ps[k]]>>
    IN  CASE k > Len(ps) -> IF mode \in {"no", "c++"} THEN << >> ELSE <<[ch |-> "bad", at |-> 0]>>
          [] k <= Len(ps) /\ mode = "no" ->
                CASE c(k) = "/" /\ c(k + 1) = "*" -> keep(" ") \o Tokens(t, ps, k + 2, "c")
                  [] c(k) = "/" /\ c(k + 1) = "/" -> Tokens(t, ps, k + 2, "c++")
                  [] c(k) \in DOMAIN Literal -> keep("lit") \o Tokens(t, ps, k + 1, Literal[c(k)])
                  [] OTHER -> keep(c(k)) \o Tokens(t, ps, k + 1, "no")
          [] k <= Len(ps) /\ mode = "c++" ->
                IF c(k) = "\n" THEN keep("\n") \o Tokens(t, ps, k + 1, "no") ELSE Tokens(t, ps, k + 1, mode)
          [] k <= Len(ps) /\ mode = "c" ->
                IF c(k) = "*" /\ c(k + 1) = "/" THEN Tokens(t, ps, k + 2, "no") ELSE Tokens(t, ps, k + 1, mode)
          [] k <= Len(ps) /\ mode \in {"char", "string"} ->
                CASE c(k) = Close[mode] -> Tokens(t, ps, k + 1, "no")
                  [] c(k) = "\\" -> Tokens(t, ps, k + 2, mode)
                  [] c(k) = "\n" -> <<[ch |-> "bad", at |-> 0]>>
                  [] OTHER -> Tokens(t, ps, k + 1, mode)

\* The directives: the positions of the name of each, and of the line end
\* behind it (behind the text if there is none).
CTokens(t) == Tokens(t, Spliced(t), 1, "no")
WellFormed(t) == \A i \in DOMAIN CTokens(t) : CTokens(t)[i].ch # "bad"
CDirectives(t) ==
    LET ts == SelectSeq(CTokens(t), LAMBDA c : c.ch # " ")
        spaced == CTokens(t)
        after(i) == SelectSeq(spaced, LAMBDA c : c.at > ts[i].at)
        ends(i) == {j \in i..Len(ts) : ts[j].ch = "\n"}
    IN  {[name |-> ts[i].at, end |-> IF ends(i) = {} THEN Len(t) ELSE ts[Min(ends(i))].at] :
            i \in {j \in DOMAIN ts :
                /\ ts[j].ch = "K" /\ j > 1 /\ ts[j - 1].ch = "#"
                /\ j = 2 \/ ts[j - 2].ch = "\n"
                /\ after(j) = << >> \/ after(j)[1].ch \notin SymbolChars}}
=============================================================================
