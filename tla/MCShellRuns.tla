------------------------------ MODULE MCShellRuns ----------------------------
(* A small instance of ShellRuns for TLC.  `cast`, fixed by Init and never *)
(* changed, says which runs are asked for: Home's alone, or a person's     *)
(* beside it, with fewer prompts and moves.                                *)
EXTENDS ShellRuns

VARIABLE cast

CastInit == ShellInit /\ cast \in {RunIds, HomeRuns}

CastNext ==
    /\ ShellNext /\ UNCHANGED cast
    /\ \A r \in RunIds \ cast : phase'[r] = "none"
    /\ cast = RunIds => zsh'.epoch + moves' <= MaxPrompts

CastSpec == CastInit /\ [][CastNext]_<<cast, shellVars>>
=============================================================================
