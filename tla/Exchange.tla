------------------------------- MODULE Exchange -------------------------------
(* What the turn registry and the message log promise of a tracked send    *)
(* (src-tauri/src/turns.rs, src-tauri/src/messages.rs), without saying how:*)
(* an ending is decided once for each, the caller is told that ending or   *)
(* none, and the log comes to show it, or lets the record go.              *)
EXTENDS Naturals

CONSTANTS
    Callers,    \* threads that each send one tracked turn
    None

Outcomes == {"finished", "failed", "gone"}

VARIABLES
    call,       \* a caller's send: "idle", "open", "told", "left", "refused"
    ending,     \* how its turn ended, once that is decided
    told,       \* the outcome the caller was handed
    record      \* what the log shows for the exchange

vars == <<call, ending, told, record>>

(* How an outcome is written down.                                         *)
Shown(how) == IF how = "finished" THEN "answered" ELSE "failed"

(* A record that the log has let go does not come back.                    *)
Write(c, state) ==
    record' = IF record[c] = "dropped" THEN record ELSE [record EXCEPT ![c] = state]

Init ==
    /\ call = [c \in Callers |-> "idle"]
    /\ ending = [c \in Callers |-> None]
    /\ told = [c \in Callers |-> None]
    /\ record = [c \in Callers |-> "none"]

Move(c, from, next) == call[c] = from /\ call' = [call EXCEPT ![c] = next]

(* A send begins; the log may let others go to make room.                  *)
Begin(c) ==
    /\ Move(c, "idle", "open")
    /\ \E gone \in SUBSET (Callers \ {c}) :
          record' = [d \in Callers |-> IF d = c THEN "in_flight"
                                       ELSE IF d \in gone THEN "dropped" ELSE record[d]]
    /\ UNCHANGED <<ending, told>>

(* A turn ends, for every send that is watching for its end.               *)
Decide(S, how) ==
    /\ \A c \in S : call[c] \in {"open", "left"} /\ ending[c] = None
    /\ ending' = [c \in Callers |-> IF c \in S THEN how ELSE ending[c]]
    /\ UNCHANGED <<call, told, record>>

(* A caller is handed the ending, which it need not be in the log yet.     *)
Tell(c) ==
    /\ Move(c, "open", "told")
    /\ ending[c] # None
    /\ told' = [told EXCEPT ![c] = ending[c]]
    /\ UNCHANGED <<ending, record>>

(* A caller stops waiting.                                                 *)
Leave(c) ==
    /\ Move(c, "open", "left")
    /\ UNCHANGED <<ending, told, record>>

(* The session takes no prompt: the record fails, whatever it says.        *)
Refuse(c) ==
    /\ Move(c, "open", "refused")
    /\ Write(c, "failed")
    /\ UNCHANGED <<ending, told>>

(* The log writes the ending down, once; but a refused send, whose ending  *)
(* was decided before it was refused, may have failed in it already.       *)
Log(c) ==
    /\ call[c] # "idle"
    /\ ending[c] # None
    /\ call[c] # "refused" => record[c] \in {"in_flight", "dropped"}
    /\ Write(c, Shown(ending[c]))
    /\ UNCHANGED <<call, ending, told>>

Next ==
    \/ \E c \in Callers : Begin(c) \/ Tell(c) \/ Leave(c) \/ Refuse(c) \/ Log(c)
    \/ \E S \in SUBSET Callers, how \in Outcomes : Decide(S, how)

Spec == Init /\ [][Next]_vars
=============================================================================
