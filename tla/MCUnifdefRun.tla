---------------------------- MODULE MCUnifdefRun ----------------------------
(***************************************************************************)
(* unifdef on files of any length that have to do with three symbols: one  *)
(* the options define, one they undefine and one they say nothing of.      *)
(***************************************************************************)
EXTENDS UnifdefRun

A == 1
B == 2
C == 3
Sym(s) == [op |-> "symbol", s |-> s]
SomeConditions ==
    {<<Sym(A)>>, <<Sym(C)>>,
     <<Sym(C), Sym(B), [op |-> "&&", right |-> 1]>>,
     <<Sym(A), Sym(C), [op |-> "/", right |-> 1]>>}
SomeEnvs == {[value |-> A :> 1 @@ C :> 1, odd |-> 0], [value |-> A :> 1, odd |-> 1]}

Known1 == AddSym(AddSym(NoOptions, A, FALSE, TRUE, Number(1)), B, FALSE, FALSE, Words)
SomeCommandLines ==
    {[Known1 EXCEPT !.lnblank = a, !.compblank = ~a, !.iocccok = a, !.ignore = {A}] : a \in BOOLEAN}
=============================================================================
