--------------------------- MODULE UnifdefMachine ---------------------------
(***************************************************************************)
(* unifdef/unifdef.c: the table of state transitions that decides for each *)
(* line whether it is printed, dropped or edited.                          *)
(*                                                                         *)
(* The machine m has the stack of #if states (level 1 is outside of all    *)
(* groups), the stack of "ignoring", the lines printed so far, whether the *)
(* file was changed, the counts of blank lines, and a status.              *)
(***************************************************************************)
EXTENDS Naturals, Sequences, SequencesExt

CONSTANT MaxDepth   \* MAXDEPTH, 64

ASSUME MaxDepthAssumption == MaxDepth \in Nat \ {0}

Blank == [kind |-> "plain", name |-> "", blank |-> TRUE, split |-> FALSE]

\* The state names and the directives are also the names of the steps below.
IfStates == {"OUTSIDE", "FALSE_PREFIX", "TRUE_PREFIX", "PASS_MIDDLE", "FALSE_MIDDLE",
             "TRUE_MIDDLE", "PASS_ELSE", "FALSE_ELSE", "TRUE_ELSE", "FALSE_TRAILER"}

\* When compressing blank lines, as if many stood before the file.
Start == [ifstate |-> <<"OUTSIDE">>, ignoring |-> <<FALSE>>, out |-> << >>, altered |-> FALSE,
          status |-> "run", blankcount |-> 1000, blankmax |-> 1000]
Depth(m) == Len(m.ifstate) - 1

-----------------------------------------------------------------------------
(* What the transition functions are made of *)

\* flushline
Flush(opts, m, l, keep) ==
    LET isblank == l.kind = "plain" /\ l.blank
        squeezed == isblank /\ opts.compblank /\ m.blankcount # m.blankmax
        blanks == IF isblank THEN m.blankcount + 1 ELSE 0
        kept == keep # opts.complement
    IN  CASE opts.symlist -> m
          [] ~opts.symlist /\ kept /\ squeezed -> [m EXCEPT !.blankcount = @ + 1]
          [] ~opts.symlist /\ kept /\ ~squeezed ->
                [m EXCEPT !.out = Append(@, l), !.blankcount = blanks, !.blankmax = blanks]
          [] ~opts.symlist /\ ~kept ->
                [m EXCEPT !.out = IF opts.lnblank THEN Append(@, Blank) ELSE @,
                          !.altered = TRUE, !.blankcount = 0]

\* One level too early.
FaultyNest(m) ==
    IF Depth(m) = MaxDepth - 2 THEN [m EXCEPT !.status = "error"]
    ELSE [m EXCEPT !.ifstate = Append(@, "OUTSIDE"), !.ignoring = Append(@, FALSE)]

Nest(m) ==
    IF Depth(m) = MaxDepth - 1 THEN [m EXCEPT !.status = "error"]
    ELSE [m EXCEPT !.ifstate = Append(@, "OUTSIDE"), !.ignoring = Append(@, FALSE)]
Unnest(m) == [m EXCEPT !.ifstate = Front(@), !.ignoring = Front(@)]
SetState(m, is) == [m EXCEPT !.ifstate[Len(m.ifstate)] = is]
IgnoreOff(m) == [m EXCEPT !.ignoring[Len(m.ignoring)] = m.ignoring[Len(m.ignoring) - 1]]
IgnoreOn(m) == [m EXCEPT !.ignoring[Len(m.ignoring)] = TRUE]

\* keywordedit replaces the directive and what follows it; Mpass writes "if"
\* over "elif" and does not count as an edit.
Edited(l, kind) == [kind |-> kind, split |-> FALSE]
KeywordEdit(opts, m, l, kind) == Flush(opts, [m EXCEPT !.altered = TRUE], Edited(l, kind), TRUE)
IfForElif(l) == [l EXCEPT !.kind = "if"]

Step(opts, m, l, p) ==
    CASE m.status # "run" -> m
      [] m.status = "run" /\ p = "print" -> Flush(opts, m, l, TRUE)
      [] m.status = "run" /\ p = "drop" -> Flush(opts, m, l, FALSE)
      [] m.status = "run" /\ p = "if" -> Flush(opts, m, IfForElif(l), TRUE)
      [] m.status = "run" /\ p \in {"else", "endif"} -> KeywordEdit(opts, m, l, p)
      [] m.status = "run" /\ p = "nest" -> Nest(m)
      [] m.status = "run" /\ p = "unnest" -> Unnest(m)
      [] m.status = "run" /\ p = "ignoreoff" -> IgnoreOff(m)
      [] m.status = "run" /\ p = "ignoreon" -> IgnoreOn(m)
      [] m.status = "run" /\ p = "ioccc" ->
            IF opts.iocccok THEN m ELSE [m EXCEPT !.status = "error"]
      [] m.status = "run" /\ p = "error" -> [m EXCEPT !.status = "error"]
      [] m.status = "run" /\ p = "done" -> [m EXCEPT !.status = "done"]
      [] m.status = "run" /\ p \in IfStates -> SetState(m, p)

-----------------------------------------------------------------------------
(* The transition functions, and the table *)

Strue == <<"drop", "ignoreoff", "TRUE_PREFIX">>
Sfalse == <<"drop", "ignoreoff", "FALSE_PREFIX">>
Selse == <<"drop", "TRUE_ELSE">>
Pelif == <<"print", "ignoreoff", "PASS_MIDDLE">>
Pelse == <<"print", "PASS_ELSE">>
Pendif == <<"print", "unnest">>
Dfalse == <<"drop", "ignoreoff", "FALSE_TRAILER">>
Delif == <<"drop", "ignoreoff", "FALSE_MIDDLE">>
Delse == <<"drop", "FALSE_ELSE">>
Dendif == <<"drop", "unnest">>
Fdrop == <<"nest">> \o Dfalse
Fpass == <<"nest">> \o Pelif
Ftrue == <<"nest">> \o Strue
Ffalse == <<"nest">> \o Sfalse
Oif == <<"ioccc">> \o Fpass
Oiffy == Oif \o <<"ignoreon">>
Oelif == <<"ioccc">> \o Pelif
Idrop == Fdrop \o <<"ignoreon">>
Itrue == Ftrue \o <<"ignoreon">>
Ifalse == Ffalse \o <<"ignoreon">>
Mpass == <<"if", "ignoreoff", "PASS_MIDDLE">>
Mtrue == <<"else", "TRUE_MIDDLE">>
Melif == <<"endif", "FALSE_TRAILER">>
\* The #endif that stands for the #else is not written.
FaultyMelse == <<"drop", "FALSE_ELSE">>
Melse == <<"endif", "FALSE_ELSE">>
Error == <<"error">>

\* The states in which lines are printed.
Printing == {"OUTSIDE", "TRUE_PREFIX", "PASS_MIDDLE", "TRUE_MIDDLE", "PASS_ELSE", "TRUE_ELSE"}

\* The columns of #if lines and of plain ones depend only on whether the state
\* prints.  A line type has a word, and whether the directive is dodgy, that
\* is, not on one line.
OpenTypes == {"TRUEI", "FALSEI", "IF", "TRUE", "FALSE"}
OpenColumn(is, type) ==
    IF is \notin Printing THEN IF type.lt \in {"TRUEI", "FALSEI"} THEN Idrop ELSE Fdrop
    ELSE CASE type.lt = "IF" -> Fpass
           [] type.lt = "TRUEI" -> IF type.dodgy THEN Oiffy ELSE Itrue
           [] type.lt = "FALSEI" -> IF type.dodgy THEN Oiffy ELSE Ifalse
           [] type.lt = "TRUE" -> IF type.dodgy THEN Oif ELSE Ftrue
           [] type.lt = "FALSE" -> IF type.dodgy THEN Oif ELSE Ffalse
PlainColumn(is) == IF is \in Printing THEN <<"print">> ELSE <<"drop">>

\* The columns of ELIF, ELTRUE, ELFALSE, ELSE and ENDIF, on one line and dodgy.
RestTypes == {"ELIF", "ELTRUE", "ELFALSE", "ELSE", "ENDIF"}
Column(lt) == CASE lt = "ELIF" -> 1 [] lt = "ELTRUE" -> 2 [] lt = "ELFALSE" -> 3
                [] lt = "ELSE" -> 4 [] lt = "ENDIF" -> 5
Errors == <<Error, Error, Error, Error, Error>>
CleanTable ==
    [OUTSIDE       |-> Errors,
     FALSE_PREFIX  |-> <<Mpass, Strue, Sfalse, Selse, Dendif>>,
     TRUE_PREFIX   |-> <<Dfalse, Dfalse, Dfalse, Delse, Dendif>>,
     PASS_MIDDLE   |-> <<Pelif, Mtrue, Delif, Pelse, Pendif>>,
     FALSE_MIDDLE  |-> <<Pelif, Mtrue, Delif, Pelse, Pendif>>,
     TRUE_MIDDLE   |-> <<Melif, Melif, Melif, Melse, Pendif>>,
     PASS_ELSE     |-> <<Error, Error, Error, Error, Pendif>>,
     FALSE_ELSE    |-> <<Error, Error, Error, Error, Dendif>>,
     TRUE_ELSE     |-> <<Error, Error, Error, Error, Dendif>>,
     FALSE_TRAILER |-> <<Dfalse, Dfalse, Dfalse, Delse, Dendif>>]
DodgyTable ==
    [OUTSIDE       |-> Errors,
     FALSE_PREFIX  |-> <<Mpass, Error, Error, Error, Error>>,
     TRUE_PREFIX   |-> Errors,
     PASS_MIDDLE   |-> <<Pelif, Oelif, Oelif, Pelse, Pendif>>,
     FALSE_MIDDLE  |-> Errors,
     TRUE_MIDDLE   |-> <<Error, Error, Error, Error, Pendif>>,
     PASS_ELSE     |-> <<Error, Error, Error, Error, Pendif>>,
     FALSE_ELSE    |-> Errors,
     TRUE_ELSE     |-> Errors,
     FALSE_TRAILER |-> <<Dfalse, Dfalse, Dfalse, Delse, Error>>]
RestColumn(is, type) == (IF type.dodgy THEN DodgyTable ELSE CleanTable)[is][Column(type.lt)]

\* The functions of the end of the file: done outside of all groups, else Eeof.
TransTable(is, type) ==
    CASE type.lt \in OpenTypes -> OpenColumn(is, type)
      [] type.lt \in RestTypes -> RestColumn(is, type)
      [] type.lt = "PLAIN" -> PlainColumn(is)
      [] type.lt = "EOF" -> IF is = "OUTSIDE" THEN <<"done">> ELSE Error

\* One function of the table, step by step, and one line through the machine.
Run(opts, m, l, steps) ==
    LET after[k \in 0..Len(steps)] ==
            IF k = 0 THEN m ELSE Step(opts, after[k - 1], l, steps[k])
    IN  after[Len(steps)]
Apply(opts, m, l, type) == Run(opts, m, l, TransTable(Last(m.ifstate), type))
=============================================================================
