------------------------------ MODULE Unifdef ------------------------------
(***************************************************************************)
(* unifdef/unifdef.c, which removes the #if groups whose condition is      *)
(* known.                                                                  *)
(*                                                                         *)
(* A line is a record.  A plain line has kind "plain", a name and whether  *)
(* it is blank.  A directive has as kind its keyword, and where the        *)
(* keyword takes one its expression e and whether something follows the    *)
(* expression (junk).  split: all of it was understood, but it goes on     *)
(* behind a spliced line end; the record stands for both lines, as tline   *)
(* does.  How the lines of a text are told apart is the matter of          *)
(* UnifdefLexer.                                                           *)
(***************************************************************************)
EXTENDS UnifdefMachine, Preprocessor

-----------------------------------------------------------------------------
(* parseline: the type of a line *)

Flip(lt) == IF lt = "TRUE" THEN "FALSE" ELSE "TRUE"
Ignored(lt) == IF lt = "TRUE" THEN "TRUEI" ELSE "FALSEI"
IfDef(opts, l) ==
    LET known == IF l.kind = "ifndef" THEN "FALSE" ELSE "TRUE"
        lt == IF opts.symlist \/ l.e[1].s \notin DOMAIN opts.value THEN Flip(known) ELSE known
    IN  IF l.e[1].op = "bad" \/ (~opts.symlist /\ l.e[1].s \notin opts.known) THEN "IF"
        ELSE IF ~opts.symlist /\ l.e[1].s \in opts.ignore THEN Ignored(lt) ELSE lt

ElifType(lt) == CASE lt = "IF" -> "ELIF" [] lt = "TRUE" -> "ELTRUE" [] lt = "FALSE" -> "ELFALSE"
Keyword(opts, l) ==
    CASE l.kind \in {"ifdef", "ifndef"} -> IfDef(opts, l)
      [] l.kind = "if" -> IfEval(opts, l.e)
      [] l.kind = "elif" -> ElifType(IfEval(opts, l.e))
      [] l.kind = "else" -> "ELSE"
      [] l.kind = "endif" -> "ENDIF"

\* What follows the expression makes the condition unknown.
WithJunk(lt) ==
    CASE lt \in {"TRUE", "FALSE", "TRUEI", "FALSEI"} -> "IF"
      [] lt \in {"ELTRUE", "ELFALSE"} -> "ELIF"
      [] lt \in {"IF", "ELIF"} -> lt

Dodgy(l, lt) == [lt |-> lt, dodgy |-> l.split]

Plainly(lt) == [lt |-> lt, dodgy |-> FALSE]

\* The line behind a dodgy directive is never taken for a directive.
LineType(opts, l, dirty) ==
    IF l.kind = "plain" \/ dirty THEN Plainly("PLAIN")
    ELSE Dodgy(l, IF l.kind \in Openers \cup {"elif"} /\ l.junk
                  THEN WithJunk(Keyword(opts, l)) ELSE Keyword(opts, l))

-----------------------------------------------------------------------------
(* process, and the program *)

\* The machine with what process adds: whether the last line was dodgy, and
\* whether a division may have ended the program before.
StartProcess == [m |-> Start, dirty |-> FALSE, maytrap |-> FALSE]
Evaluated(l, dirty) == ~dirty /\ l.kind \in {"if", "elif"}

AfterTraps(opts, p, l, traps) ==
    CASE p.m.status # "run" -> p
      [] p.m.status = "run" /\ traps = "always" -> [p EXCEPT !.m.status = "trap"]
      [] p.m.status = "run" /\ traps # "always" ->
                  [m |-> Apply(opts, p.m, l, LineType(opts, l, p.dirty)),
                   dirty |-> l.kind # "plain" /\ ~p.dirty /\ l.split,
                   maytrap |-> p.maytrap \/ traps = "maybe"]
ProcessLine(opts, p, l) ==
    AfterTraps(opts, p, l, IF Evaluated(l, p.dirty) THEN Traps(opts, l.e) ELSE "never")
\* After n lines.
Processed(opts, file, n) ==
    LET after[i \in 0..n] ==
            IF i = 0 THEN StartProcess ELSE ProcessLine(opts, after[i - 1], file[i])
    IN  after[n]
Process(opts, file) ==
    LET p == Processed(opts, file, Len(file))
    IN  [p EXCEPT !.m = Apply(opts, @, Blank, Plainly("EOF"))]

\* How the program may end: it comes to its end, fails with what is written so
\* far, or traps with its output in the buffer.
Trap == [status |-> "trap", out |-> << >>, altered |-> FALSE]
Ending(p) == IF p.m.status = "trap" THEN Trap
             ELSE [status |-> p.m.status, out |-> p.m.out, altered |-> p.m.altered]
Endings(opts, file) ==
    UNION {{Ending(p)} \cup (IF p.maytrap THEN {Trap} ELSE {}) : p \in {Process(opts, file)}}

\* processinout and main.  An output file (-o) that was not there gets what was
\* written, the output of a failing run included.  One that was there - here
\* always with what the input holds - is replaced when unifdef came to its end
\* and altered something, and else left alone, its copy removed; so is a file
\* modified in place (-m).  A command line main refuses exits with 2 before
\* anything is opened.
ExitStatus(opts, r) ==
    CASE r.status = "error" -> 2
      [] r.status = "trap" -> 136
      [] OTHER -> CASE opts.exitmode = 0 -> Bit(r.altered)
                    [] opts.exitmode = 1 -> Bit(~r.altered)
                    [] opts.exitmode = 2 -> 0
Main(opts, file, there) ==
    IF Refused(opts, 1) THEN {[file |-> file, exit |-> 2]}
    ELSE LET kept(r) == (there \/ (opts.inplace /\ ~opts.output)) /\ ~(r.status = "done" /\ r.altered)
         IN  {[file |-> IF kept(r) THEN file ELSE r.out, exit |-> ExitStatus(opts, r)] : r \in Endings(opts, file)}
NewFile(opts, file, there) == {r.file : r \in Main(opts, file, there)}

\* unifdef -s: the symbols of the conditions, up to the line it fails on;
\* nothing if it traps.
SymbolsOfLine(opts, l, dirty) ==
    IF l.kind \in Openers \cup {"elif"} /\ ~dirty THEN SymbolsOf(opts, l.e) ELSE {}
ListOptions == Options(<<[opt |-> "s", sym |-> 0, val |-> Words]>>)
PrintSymbols(opts, q, l) ==
    [p |-> ProcessLine(opts, q.p, l),
     symbols |-> IF q.p.m.status # "run" THEN q.symbols ELSE q.symbols \cup SymbolsOfLine(opts, l, q.p.dirty)]
Printed(q) == IF q.p.m.status = "trap" THEN {} ELSE q.symbols
ListSymbols(file) ==
    UNION {Printed(FoldLeft(LAMBDA q, l : PrintSymbols(opts, q, l), [p |-> StartProcess, symbols |-> {}], file)) :
              opts \in {ListOptions}}

-----------------------------------------------------------------------------
(* What pass_unifdef runs *)

\* Each is given as the files it may leave in $tmpfile, which -k always makes.
Arg(opt) == [opt |-> opt, sym |-> 0, val |-> Number(2)]
KillConsts(file) == NewFile(Options(<<Arg("k"), Arg("o")>>), file, FALSE)
RemoveSymbol(file, DU, def, there) ==
    NewFile(Options(<<Arg("B"), Arg("x"), [opt |-> DU, sym |-> def, val |-> Number(1)], Arg("o")>>), file, there)
=============================================================================
