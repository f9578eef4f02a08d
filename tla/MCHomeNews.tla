------------------------------ MODULE MCHomeNews -----------------------------
(* Small instances for TLC of what a Home conversation relies on: its news *)
(* and its handles, side by side.  `machine`, fixed by Init, says which of *)
(* the two moves; the other keeps its initial state.  The sessions opened  *)
(* are counted together; handles meet one mishap at a time, and a courier  *)
(* while one conversation has been opened or, once Home has been resumed,  *)
(* with what the last run was waiting on.                                  *)
EXTENDS HomeNews, Handles, Functions, TLC

VARIABLE machine

CallSymmetry == Permutations(Calls) \cup Permutations(Conversations)

HomeInit == Init /\ HandlesInit /\ machine \in {"news", "handles"}

Mishaps == {i \in 1 .. 6 : <<behind, cut, lost, crossed, missed, trimmed>>[i]}

HomeNext ==
    /\ UNCHANGED machine
    /\ \/ /\ machine = "news" /\ Next
          /\ UNCHANGED handlesVars
       \/ /\ machine = "handles" /\ HandlesNext
          /\ Cardinality(Mishaps') <= 1 /\ FoldFunction(+, 0, opens') <= MaxOpens
          /\ thread'[Courier] # Idle /\ homes' = 0 => \E c \in Conversations : pane'[c] = "never"
          /\ thread'[Courier] # Idle /\ thread[Courier] = Idle /\ homes' > 0 => untold' # untold
          /\ UNCHANGED vars

HomeSpec == HomeInit /\ [][HomeNext]_<<machine, vars, handlesVars>>

\* Handles alone, one conversation in the first run, and nothing amiss but the race
\* of two callers that load.
RaceNext ==
    /\ HandlesNext
    /\ ~behind' /\ ~cut' /\ ~lost' /\ ~late' /\ ~missed' /\ ~trimmed'
    /\ homes' = 0 => Cardinality({c \in Conversations : pane'[c] # "never"}) <= 1
    /\ homes' > homes => \A t \in Threads : thread[t] = Idle
    /\ FoldFunction(+, 0, opens') <= MaxOpens
    /\ \A c \in Conversations : pane'[c] = "shut" => pane[c] = "shut" \/ homes' > homes
    /\ thread'[Courier] # Idle => homes' > 0
    /\ UNCHANGED <<machine, vars>>

RaceSpec == HomeInit /\ machine = "handles" /\ [][RaceNext]_<<machine, vars, handlesVars>>
=============================================================================
