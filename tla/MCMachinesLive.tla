---------------------------- MODULE MCMachinesLive ---------------------------
(* Components that share no state, side by side under their fairness:      *)
(* `machine`, fixed by Init and never changed, says which of them moves,   *)
(* and the others keep the first of their initial states, where no step    *)
(* their fairness speaks of is enabled.  HomeNews' session may end from    *)
(* the first, so its fairness is restated for the runs it moves in.  Home  *)
(* is closed by its user or ends by itself here, not both.                 *)
EXTENDS Hosts, ShellRuns, Worktrees, Recipes, Parentage, TLC

CONSTANTS MaxPanes, Closers, Calls, Sessions, NoSession

VARIABLES
    machine,
    \* Handoff's
    opened, askedOf, by, live, entries, tokens, bound, shut, children, pending, settled,
    closer, asker, batch, todo, victims, ending,
    \* HomeNews'
    pc, to, waits, armed, chan, sending, ended2, asking, asks, alive, tracked, awaited,
    saidWaiting, quiet, notices, scheduled, sleeping, carried, sent, homeOpen

handoffVars == <<opened, askedOf, by, live, entries, tokens, bound, shut, children, pending,
                 settled, closer, asker, batch, todo, victims, ending>>
newsVars == <<pc, to, waits, armed, chan, sending, ended2, asking, asks, alive, tracked, awaited,
              saidWaiting, quiet, notices, scheduled, sleeping, carried, sent, homeOpen>>

Delegations == INSTANCE Handoff WITH stage <- askedOf, done <- settled, at <- closer,
                                     caller <- asker, pane <- ending
News == INSTANCE HomeNews WITH settling <- ended2, kept <- tracked, told <- saidWaiting,
                               heard <- sent, home <- homeOpen,
                              None <- NoSession

componentVars == <<hostVars, shellVars, worktreeVars, recipeVars, hubVars, handoffVars, newsVars>>
machineVars == <<machine, componentVars>>

LiveInit ==
    /\ machine \in {"hosts", "shell", "worktrees", "recipes", "parentage", "delegations", "news"}
    /\ HostInit /\ ShellInit /\ WorktreesInit /\ RecipesInit /\ HubInit
    /\ Delegations!Init /\ News!Init
    /\ machine # "hosts" => kind = "pty"
    /\ machine # "shell" => ~granted
    /\ machine # "worktrees" => \A p \in Places : ~dir[p] /\ ~entry[p]
    /\ machine # "recipes" => \A i \in Index : recipe[i] = [conversation |-> "new", stops |-> FALSE]

LiveNext ==
    /\ UNCHANGED machine
    /\ \/ /\ machine = "hosts" /\ HostNext
          /\ UNCHANGED <<shellVars, worktreeVars, recipeVars, hubVars, handoffVars, newsVars>>
       \/ /\ machine = "shell" /\ ShellNext
          /\ "no" \in {leaving'["close"].at, leaving'["exit"].at}
          /\ UNCHANGED <<hostVars, worktreeVars, recipeVars, hubVars, handoffVars, newsVars>>
       \/ /\ machine = "worktrees" /\ WorktreesNext
          /\ UNCHANGED <<hostVars, shellVars, recipeVars, hubVars, handoffVars, newsVars>>
       \/ /\ machine = "recipes" /\ RecipesNext
          /\ UNCHANGED <<hostVars, shellVars, worktreeVars, hubVars, handoffVars, newsVars>>
       \/ /\ machine = "parentage" /\ HubNext
          /\ UNCHANGED <<hostVars, shellVars, worktreeVars, recipeVars, handoffVars, newsVars>>
       \/ /\ machine = "delegations" /\ Delegations!Next
          /\ UNCHANGED <<hostVars, shellVars, worktreeVars, recipeVars, hubVars, newsVars>>
       \/ /\ machine = "news" /\ News!Next
          /\ UNCHANGED <<hostVars, shellVars, worktreeVars, recipeVars, hubVars, handoffVars>>

\* HomeNews' Fairness, while it moves.
NewsFairness ==
    /\ \A x \in Calls : WF_newsVars(News!CallStep(x))
    /\ \A s \in Sessions :
          /\ WF_newsVars(News!ReaderStep(s))
          /\ SF_newsVars(machine = "news" /\ (News!Ending(s) \/ News!Exit(s)))
    /\ WF_newsVars(News!CourierStep)

LiveFairSpec ==
    /\ LiveInit /\ [][LiveNext]_machineVars
    /\ HostFairness /\ ShellFairness /\ WorktreesFairness /\ RecipesFairness
    /\ Delegations!Fairness /\ NewsFairness

-----------------------------------------------------------------------------
(* The promises of the two that are taken by INSTANCE                      *)

(* Handoff's ChildSettles: a delegated agent that works comes to be        *)
(* settled in its parent's record, or is forgotten with it.                *)
ChildSettles == Delegations!ChildSettles

(* Handoff's CloseEnds: a close in hand ends what it set out to end.       *)
CloseEnds == Delegations!CloseEnds

(* HomeNews' EndIsTold.                                                    *)
EndIsTold == News!EndIsTold
=============================================================================
