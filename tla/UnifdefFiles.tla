---------------------------- MODULE UnifdefFiles ----------------------------
(***************************************************************************)
(* unifdef on the files pass_unifdef comes to.                             *)
(***************************************************************************)
EXTENDS UnifdefLines, PassUnifdef

(***************************************************************************)
(* unifdef does not change the program: when it comes to its end, the new  *)
(* file is one the C preprocessor accepts if it accepted the old one, and  *)
(* in every environment that agrees with the -D and -U options the text it *)
(* keeps, blank lines aside, is the same.                                  *)
(***************************************************************************)
UnifdefPreserves ==
    \A opts \in CommandLines : \A r \in Endings(opts, file) :
        r.status = "done" =>
            \A env \in {e \in Envs : Agrees(e, opts)} :
                CText(env, file).ok => CText(env, r.out) = CText(env, file)
=============================================================================
