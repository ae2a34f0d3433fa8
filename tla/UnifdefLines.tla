---------------------------- MODULE UnifdefLines ----------------------------
(***************************************************************************)
(* The lines a file may have, and what is right to think of them.          *)
(***************************************************************************)
EXTENDS Unifdef

CONSTANTS
    Names,         \* what plain lines may say
    Conditions,    \* the expressions of the conditions
    Envs,          \* the environments looked at
    CommandLines   \* the options unifdef may be run with

\* Every operator has its operands before it.
WellFormed(e) ==
    /\ Len(e) \in Nat \ {0}
    /\ \A n \in 1..Len(e) :
          \/ e[n].op \in Leaves /\ (e[n].op = "number" => e[n].n \in Int)
          \/ e[n].op \in UnaryOps /\ n > 1
          \/ e[n].op \in BinaryOps /\ e[n].right \in 1..(n - 2)
ASSUME ConditionsAssumption == \A e \in Conditions : WellFormed(e)

Named(e) == Len(e) = 1 /\ e[1].op \in {"symbol", "bad"}
TextLines == [kind : {"plain"}, name : Names, blank : {FALSE}, split : {FALSE}]
Plains == TextLines \cup {Blank}
Conditionals ==
    [kind : {"if", "elif"}, e : Conditions, junk : BOOLEAN, split : BOOLEAN]
    \cup [kind : {"ifdef", "ifndef"}, e : {e \in Conditions : Named(e)}, junk : BOOLEAN, split : BOOLEAN]
Bares == [kind : {"else", "endif"}, split : BOOLEAN]
Lines == Plains \cup Conditionals \cup Bares

\* An environment gives numbers.
Environment(env) == env.odd \in Int /\ \A s \in DOMAIN env.value : env.value[s] \in Int

\* What parseline may say of a line: a verdict that is right, or none.
Verdicts(env, l) ==
    CASE l.kind = "plain" -> {"PLAIN"}
      [] l.kind = "if" -> {"IF", IF Holds(env, l) THEN "TRUE" ELSE "FALSE"}
      [] l.kind \in {"ifdef", "ifndef"} ->
            {"IF"} \cup (IF Holds(env, l) THEN {"TRUE", "TRUEI"} ELSE {"FALSE", "FALSEI"})
      [] l.kind = "elif" -> {"ELIF", IF Holds(env, l) THEN "ELTRUE" ELSE "ELFALSE"}
      [] l.kind = "else" -> {"ELSE"}
      [] l.kind = "endif" -> {"ENDIF"}
LineTypes(env, l) == [lt : Verdicts(env, l), dodgy : {l.split}]

\* No directive stands where parseline takes every line for a plain one.
NothingSwallowed(f) ==
    \A n \in 1..(Len(f) - 1) : f[n].kind # "plain" /\ f[n].split => f[n + 1].kind = "plain"

\* Neither -s nor -c.
PrintOptions(opts) == opts.symlist = FALSE /\ opts.complement = FALSE

ASSUME EnvsAssumption == \A e \in Envs : Environment(e)
ASSUME CommandLinesAssumption == \A o \in CommandLines : PrintOptions(o)

\* What the machine wrote for one line goes through the second preprocessor.
Compiled(env, p, written) == IF written = << >> THEN p ELSE Compile(env, p, Last(written))
=============================================================================
