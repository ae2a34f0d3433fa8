------------------------------ MODULE PassClex ------------------------------
(***************************************************************************)
(* creduce/pass_clex.pm at work on one file, with a test that may answer   *)
(* anything, and what the commands promise.                                *)
(***************************************************************************)
EXTENDS Clex

CONSTANTS
    Cmds,           \* the commands and their numbers, as records with fields name and n
    StartFiles(_),  \* the files a command may be run on first
    ShortFile(_, _) \* the bound on the files define may make

Commands == {"rename-toks", "delete-string", "shorten-string", "x-string",
             "rm-toks", "rm-tok-pattern", "define"}
\* What main asserts of a command; eight bits hold every pattern of eight tokens.
ASSUME CmdsAssumption ==
    Cmds \subseteq {c \in [name : Commands, n : Nat] :
                        /\ c.name = "rm-toks" => c.n \in 1..1000
                        /\ c.name = "rm-tok-pattern" => c.n \in 2..8}

\* What the lexer makes: a text has one kind.
Token == [kind : STRING, str : Seq(Int)]
Lexed(ts) ==
    /\ ts \in Seq(Token)
    /\ \A i, j \in DOMAIN ts : ts[i].str = ts[j].str => ts[i].kind = ts[j].kind
    /\ \A i \in DOMAIN ts :
          /\ ts[i].str = Hash => ts[i].kind = "other"
          /\ ts[i].str = DefineName => ts[i].kind = "ident"
ASSUME StartFilesAssumption == \A cmd \in Cmds : \A ts \in StartFiles(cmd) : Lexed(ts)

VARIABLES tool, file, state, phase, resumed, refused

INSTANCE PassLoop WITH
    Tools <- Cmds, Starts <- StartFiles, New <- NewClex, Advance <- AdvanceClex,
    Transform <- TransformClex, Fits <- ShortFile

-----------------------------------------------------------------------------
\* The tokens that are not space.
Solid(ts) == At(ts, {i \in DOMAIN ts : Visible(ts[i])})

(***************************************************************************)
(* rename-toks gives a name to one identifier and to all its occurrences,  *)
(* and never gives two identifiers one name.                               *)
(***************************************************************************)
RenamesApart ==
    [][tool.name = "rename-toks" =>
          /\ Len(file') = Len(file)
          /\ \A i, j \in DOMAIN file :
                /\ file'[i].kind = file[i].kind
                /\ (file[i].str = file[j].str) <=> (file'[i].str = file'[j].str)]_file

(***************************************************************************)
(* When rm-toks-n is over, the test has refused the file without each run  *)
(* of n tokens that begins where the last acceptance was or behind it; for *)
(* rm-tok-pattern-n, without each choice of tokens among n neighbours that *)
(* begins there.                                                           *)
(***************************************************************************)
FirstToken == IF tool.name = "rm-toks" THEN resumed
              ELSE (resumed + PowerOfTwo(tool.n - 1) - 1) \div PowerOfTwo(tool.n - 1)
Windows(ts) ==
    LET tokens == 1..Len(Solid(ts))
        run(b) == {k \in tokens : b <= k /\ k < b + tool.n}
        begin == {b \in tokens : b > FirstToken}
    IN  IF tool.name = "rm-toks" THEN {run(b) : b \in begin}
        ELSE UNION {{W \in SUBSET run(b) : b \in W} : b \in begin}

WindowsOffered ==
    phase = "stop" /\ tool.name \in {"rm-toks", "rm-tok-pattern"} =>
        \A W \in Windows(file) :
            \E f \in refused : Solid(f) = At(Solid(file), DOMAIN Solid(file) \ W)

(***************************************************************************)
(* clex reads past its token list only when a file does not end in a       *)
(* complete line or the last definition has no name.                       *)
(***************************************************************************)
CrashesOnlyAtTheEnd ==
    phase = "error" =>
        \/ Last(file).kind # "newline"
        \/ \E i \in DOMAIN file :
              file[i].str = DefineName /\ SkipSpace(file, i + 1) = Len(file)
=============================================================================
