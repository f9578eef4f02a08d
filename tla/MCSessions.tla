------------------------------ MODULE MCSessions -----------------------------
(* Small instances of Sessions for TLC.  `cast`, fixed by Init and never   *)
(* changed, says which of the session's callers take part: two messages    *)
(* meet one click, or Stop and a close; one message meets all of these.    *)
EXTENDS Sessions, TLC

VARIABLE cast

ClickSymmetry == Permutations(Clicks)

Casts ==
    {Msgs \cup {c} : c \in Clicks} \cup {Msgs \cup {"stop", "close"}}
        \cup {{m, "stop", "close"} \cup Clicks : m \in Msgs}

CastInit == Init /\ cast \in Casts

CastNext == Next /\ called' \subseteq cast /\ UNCHANGED cast

CastSpec == CastInit /\ [][CastNext]_<<vars, cast>>

\* Codex alone.
CodexSpec == CastInit /\ provider = "codex" /\ [][CastNext]_<<vars, cast>>
=============================================================================
