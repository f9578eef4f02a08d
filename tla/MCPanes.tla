------------------------------- MODULE MCPanes -------------------------------
(* Small instances for TLC of the panes of the main window (Surface) and of*)
(* those in windows of their own (PopOut), side by side.  `cast`, fixed by *)
(* Init and never changed, says which of the two moves, and what happens   *)
(* there besides the answers to what was asked, and prompts, moves and one *)
(* queued message.  The other keeps its initial state.                     *)
EXTENDS PopOut, Surface, TLC

VARIABLE cast

WordSymmetry == Permutations(Words)

\* What happens in the main window, with so many sessions and ids of panes; one
\* is opened by hand where there is delegation.
Main(does, sids, ids) == [in |-> "main", does |-> does, sids |-> sids, ids |-> ids]

MainCasts ==
    {Main({"agent", "delegate", "close", "dies"}, 2, 2),
     Main({"agent", "delegate", "close"}, 3, 2),
     Main({"agent", "delegate", "reload", "dies"}, 2, 3),
     Main({"agent", "delegate", "relaunch", "reattach"}, 3, 2),
     Main({"agent", "delegate", "reload", "relaunch", "reattach"}, 3, 2),
     Main({"agent", "relaunch", "reattach", "restart"}, 2, 1),
     Main({"agent", "relaunch", "reattach", "dies"}, 3, 1),
     Main({"agent", "relaunch", "reload", "reattach"}, 2, 2),
     Main({"agent", "restart", "close", "reconcile"}, 3, 1),
     Main({"agent", "restart", "dies"}, 3, 1),
     Main({"shell", "reload", "looks", "dies"}, 2, 2),
     Main({"shell", "reload", "looks", "dies", "restart"}, 2, 1),
     Main({"shell", "relaunch", "looks", "close"}, 3, 2),
     Main({"agent", "shell", "reload", "looks", "reattach"}, 2, 2)}

OutCasts ==
    {[in |-> "out", does |-> does] : does \in
        {{"two", "steer"}, {"two", "remove"}, {"steer", "exit"}, {"exit"}, {"hold"},
         {"opening"}, {"again"}}}

PanesInit ==
    /\ PopOutInit /\ SurfaceInit /\ cast \in MainCasts \cup OutCasts
    /\ opening => cast.in = "out" /\ "opening" \in cast.does

MainMoves ==
    /\ cast.in = "main" /\ SurfaceSteps(cast.does)
    /\ minted' <= cast.sids /\ nextId' <= cast.ids
    /\ windows' <= Cardinality(cast.does \cap {"reload", "relaunch"})
    /\ "delegate" \in cast.does /\ Up /\ news' = news => nextId' \in {1, nextId}
    /\ UNCHANGED popOutVars

OutMoves ==
    /\ cast.in = "out" /\ PopOutNext
    /\ "two" \notin cast.does => Cardinality(written') <= 1
    /\ "steer" \notin cast.does => UNCHANGED steers
    /\ "remove" \notin cast.does => written \subseteq written'
    /\ "exit" \notin cast.does => alive'
    /\ {"steer", "exit"} \subseteq cast.does /\ running => running' \/ ~alive'
    /\ "again" \in cast.does => clicks' <= 1
    /\ "again" \notin cast.does => \A i \in Pop \ {1} : popped'[i].stage = "none"
    /\ {"hold", "exit", "opening"} \cap cast.does = {} =>
          \A w \in Window : copy'[w].held => copy[w].held
    /\ UNCHANGED surfaceVars

PanesNext == (MainMoves \/ OutMoves) /\ UNCHANGED cast

PanesSpec == PanesInit /\ [][PanesNext]_<<cast, popOutVars, surfaceVars>>
=============================================================================
