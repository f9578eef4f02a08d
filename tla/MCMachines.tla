------------------------------ MODULE MCMachines -----------------------------
(* Four components that share no state, side by side in one run:           *)
(* `machine`, fixed by Init and never changed, says which of them moves,   *)
(* and the others keep the first of their initial states. A state of the   *)
(* run is a state of one component, and each of their properties is        *)
(* checked as it stands. Where several callers take part the bounds are    *)
(* tighter than for one alone: the events and the reloads of two sessions  *)
(* count together, and two recipes meet in their first step. The failure   *)
(* of a recipe's last step has no step to stop.                            *)
EXTENDS Replay, Worktrees, Recipes, Browser, TLC

VARIABLES
    machine,
    cast        \* which of a component's callers take part

machineVars == <<machine, cast, replayVars, worktreeVars, recipeVars, browserVars>>

\* Of the calls and the panes of a worktree three meet at a time.
AtAWorktree == {s \in SUBSET (Ops \cup Panes) : Cardinality(s) = 3}
Crowded == Cardinality(cast) > 1
Simplest == \A i \in Index : recipe[i] = [conversation |-> "new", stops |-> FALSE]

MachinesInit ==
    /\ machine \in {"replay", "worktrees", "recipes", "browser"}
    /\ cast \in CASE machine = "replay" -> {Sid, Shown}
                 [] machine = "worktrees" -> AtAWorktree
                 [] machine = "recipes" -> {Runs, {CHOOSE r \in Runs : TRUE}}
                 [] OTHER -> {{}}
    /\ ReplayInit /\ WorktreesInit /\ RecipesInit /\ BrowserInit
    /\ machine # "worktrees" => \A p \in Places : ~dir[p] /\ ~entry[p]
    /\ machine # "recipes" \/ Crowded => Simplest
    /\ ~recipe[Steps].stops

MachinesNext ==
    /\ UNCHANGED <<machine, cast>>
    /\ \/ /\ machine = "replay" /\ ReplayNext
          /\ \A i \in Sid \ cast : life'[i] = "unborn"
          /\ Crowded => FoldFunction(+, reloads', emitted') <= MaxEvents
          /\ UNCHANGED <<worktreeVars, recipeVars, browserVars>>
       \/ /\ machine = "worktrees" /\ WorktreesNext
          /\ \A o \in Ops \ cast : stage'[o] = "idle"
          /\ \A w \in Panes \ cast : pane'[w] = "unopened"
          /\ UNCHANGED <<replayVars, recipeVars, browserVars>>
       \/ /\ machine = "recipes" /\ RecipesNext
          /\ \A r \in Runs :
                /\ r \notin cast => record'[r] = "none"
                /\ Crowded /\ index'[r] > 1 => driver'[r] \in {"none", "between", "over"}
          /\ UNCHANGED <<replayVars, worktreeVars, browserVars>>
       \/ /\ machine = "browser" /\ BrowserNext
          /\ UNCHANGED <<replayVars, worktreeVars, recipeVars>>

MachinesSpec == MachinesInit /\ [][MachinesNext]_machineVars
=============================================================================
