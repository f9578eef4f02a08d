------------------------------ MODULE Worktrees ----------------------------
(* Making and removing a project's worktrees (wtm-core's create.rs and     *)
(* remove.rs), from the window's dialogs (commands.rs) and from Home       *)
(* (home_tools.rs), where each is a job with a row and a thread of its own *)
(* (home.rs).  A worktree is named for the form's values: one place stands *)
(* for the directory and the branch they render to.  Git, the setup and    *)
(* the teardown commands are external and may fail whenever they like.     *)
EXTENDS Integers, FiniteSets

CONSTANTS
    Places,         \* what the form's values can render to
    HomeMakes,      \* calls of Home's create_worktree
    DialogMakes,    \* calls of the dialog's create_worktree
    HomeRemoves,    \* calls of Home's remove_worktree
    DialogRemoves,  \* calls of the dialog's remove_worktree
    Panes,          \* the shells and agents a person or an agent opens
    MaxRunningJobs, \* home.rs MAX_RUNNING_JOBS
    OneGlobally,    \* the project's [setup] concurrency is "one_globally"
    Nowhere         \* no place

Makes == HomeMakes \cup DialogMakes
Removes == HomeRemoves \cup DialogRemoves
Homes == HomeMakes \cup HomeRemoves
Ops == Makes \cup Removes

ASSUME WorktreesAssumption ==
    /\ HomeMakes \cap DialogMakes = {} /\ HomeRemoves \cap DialogRemoves = {}
    /\ Makes \cap Removes = {} /\ Nowhere \notin Places
    /\ MaxRunningJobs \in Nat /\ OneGlobally \in BOOLEAN

VARIABLES
    entry,      \* git has a worktree recorded at this place
    dir,        \* the directory is there, and not empty
    branch,     \* the branch is there
    ahead,      \* it has commits that are nowhere else
    work,       \* what git status says: clean, untracked, tracked
    pane,       \* of each pane: not yet open, its place, over
    stage,      \* how far each call has come
    at,         \* its place
    flags,      \* of its request: adopt, force, drop (the branch)
    creating,   \* App.creating, the project's count
    job,        \* the phase of Home's row for it
    result,     \* what the pipeline returned
    listed      \* the panes a removal has read and is about to end

repo == <<entry, dir, branch, ahead, work>>
request == <<at, flags>>
worktreeVars == <<repo, pane, stage, request, creating, job, result, listed>>

WorktreesInit ==
    /\ \E f \in [Places -> {"nothing", "worktree", "deleted by hand", "other"}] :
          /\ entry = [p \in Places |-> f[p] \in {"worktree", "deleted by hand"}]
          /\ dir = [p \in Places |-> f[p] \in {"worktree", "other"}]
          /\ branch = entry
    /\ ahead = [p \in Places |-> FALSE]
    /\ work = [p \in Places |-> "clean"]
    /\ pane = [w \in Panes |-> "unopened"]
    /\ stage = [o \in Ops |-> "idle"]
    /\ at = [o \in Ops |-> Nowhere]
    /\ flags = [o \in Ops |-> {}]
    /\ creating = 0
    /\ job = [o \in Ops |-> "none"]
    /\ result = [o \in Ops |-> "none"]
    /\ listed = [o \in Ops |-> {}]

To(o, s) == stage' = [stage EXCEPT ![o] = s]
Returns(o, r) == To(o, "over") /\ result' = [result EXCEPT ![o] = r]
Asks(o, p, fs) == at' = [at EXCEPT ![o] = p] /\ flags' = [flags EXCEPT ![o] = fs]

RunningJobs == {o \in Homes : job[o] = "running"}
\* The terminals of the pty host at a place: a setup's or a teardown's.
Terminals(p) == {o \in Ops : at[o] = p /\ stage[o] \in {"setup", "teardown"}}
OpenAt(p) == {w \in Panes : pane[w] = p}

-----------------------------------------------------------------------------
(* Making one                                                              *)

(* Mutant: nothing is pruned.                                            *)
Prune_Never == UNCHANGED entry

\* git worktree prune: a directory deleted by hand is no worktree any more.
Prune == entry' = [p \in Places |-> entry[p] /\ dir[p]]

\* What stage 6 finds in the way, which no acknowledgement waives.
InTheWay(o) ==
    \/ dir[at[o]]
    \/ entry'[at[o]]
    \/ ("adopt" \in flags[o]) # branch[at[o]]

\* home_tools create_worktree: one at a time where the setup says so, and no
\* more jobs than Home may run.
HomeAdmits(o) ==
    /\ stage[o] = "idle"
    /\ \E p \in Places, fs \in SUBSET {"adopt"} : Asks(o, p, fs)
    /\ \/ (OneGlobally => creating = 0) /\ Cardinality(RunningJobs) < MaxRunningJobs
          /\ To(o, "admitted")
       \/ ((OneGlobally /\ creating > 0) \/ Cardinality(RunningJobs) >= MaxRunningJobs)
          /\ To(o, "refused")
    /\ UNCHANGED <<repo, pane, creating, job, result, listed>>

\* The plan Home makes before it has a job: it prunes, and it refuses more than
\* the pipeline does.
HomePlans(o) ==
    /\ stage[o] = "admitted"
    /\ Prune
    /\ \/ ~InTheWay(o) /\ To(o, "planned")
       \/ To(o, "refused")
    /\ UNCHANGED <<dir, branch, ahead, work, pane, request, creating, job, result, listed>>

\* Home::start_job, and the thread spawned after it.
StartJob(o) ==
    /\ stage[o] = "planned"
    /\ job' = [job EXCEPT ![o] = "running"]
    /\ To(o, IF o \in Makes THEN "spawned" ELSE "removing")
    /\ UNCHANGED <<repo, pane, request, creating, result, listed>>

\* App::start_creating, on the thread.
Count(o) ==
    /\ stage[o] = "spawned"
    /\ creating' = creating + 1
    /\ To(o, "counted")
    /\ UNCHANGED <<repo, pane, request, job, result, listed>>

\* The dialog's create_worktree looks at no count, and is counted.
DialogMakesOne(o) ==
    /\ stage[o] = "idle"
    /\ \E p \in Places, fs \in SUBSET {"adopt"} : Asks(o, p, fs)
    /\ creating' = creating + 1
    /\ To(o, "counted")
    /\ UNCHANGED <<repo, pane, job, result, listed>>

\* CreatePipeline::execute plans again.  A lookup or a base may be lost meanwhile.
Replan(o) ==
    /\ stage[o] = "counted"
    /\ Prune
    /\ \/ ~InTheWay(o) /\ To(o, "checked") /\ UNCHANGED result
       \/ InTheWay(o) /\ Returns(o, "blocked")
       \/ Returns(o, "error")
    /\ UNCHANGED <<dir, branch, ahead, work, pane, request, creating, job, listed>>

\* git worktree add.  When it fails it removes its directory, and the branch it
\* made may stay; the pipeline prunes.
Add(o) ==
    /\ stage[o] = "checked"
    /\ LET p == at[o] IN
       \/ /\ ~dir[p] /\ ~entry[p] /\ ("adopt" \in flags[o]) = branch[p]
          /\ entry' = [entry EXCEPT ![p] = TRUE]
          /\ dir' = [dir EXCEPT ![p] = TRUE]
          /\ branch' = [branch EXCEPT ![p] = TRUE]
          /\ To(o, "added") /\ UNCHANGED result
       \/ /\ Prune
          /\ branch' \in {branch, [branch EXCEPT ![p] = TRUE]}
          /\ Returns(o, "error") /\ UNCHANGED dir
    /\ UNCHANGED <<ahead, work, pane, request, creating, job, listed>>

\* Stage 9: the setup starts, there is none, it cannot be started, or what it
\* is to run does not render.
SpawnSetup(o) ==
    /\ stage[o] = "added"
    /\ \/ To(o, "setup") /\ UNCHANGED result
       \/ \E r \in {"created", "setupFailed", "error"} : Returns(o, r)
    /\ UNCHANGED <<repo, pane, request, creating, job, listed>>

\* The setup ends, by itself or by its deadline, and leaves files behind.
SetupEnds(o) ==
    /\ stage[o] = "setup"
    /\ \E r \in {"created", "setupFailed"} : Returns(o, r)
    /\ work' \in {work, [work EXCEPT ![at[o]] = IF dir[at[o]] /\ @ = "clean" THEN "untracked" ELSE @]}
    /\ UNCHANGED <<entry, dir, branch, ahead, pane, request, creating, job, listed>>

(* Mutant: an error leaves the row as it is.                             *)
Report_Outcomes(o) ==
    /\ stage[o] = "over" /\ o \in Homes
    /\ job' = [job EXCEPT ![o] = IF result[o] \in {"blocked", "error"} THEN @ ELSE result[o]]
    /\ To(o, "reported")
    /\ UNCHANGED <<repo, pane, request, creating, result, listed>>

\* update_job, with what the pipeline returned.
Report(o) ==
    /\ stage[o] = "over" /\ o \in Homes
    /\ job' = [job EXCEPT ![o] = IF result[o] \in {"blocked", "error"} THEN "failed" ELSE result[o]]
    /\ To(o, "reported")
    /\ UNCHANGED <<repo, pane, request, creating, result, listed>>

(* Mutant: an error leaves the count as it is.                           *)
Leave_WhenMade(o) ==
    /\ o \in Makes
    /\ stage[o] = IF o \in Homes THEN "reported" ELSE "over"
    /\ creating' = IF result[o] = "error" THEN creating ELSE creating - 1
    /\ To(o, "left")
    /\ UNCHANGED <<repo, pane, request, job, result, listed>>

\* The creation's guard is dropped as its thread, or its command, returns.
Leave(o) ==
    /\ o \in Makes
    /\ stage[o] = IF o \in Homes THEN "reported" ELSE "over"
    /\ creating' = creating - 1
    /\ To(o, "left")
    /\ UNCHANGED <<repo, pane, request, job, result, listed>>

\* home_dismiss_job: only a finished row.
Dismiss(o) ==
    /\ job[o] \notin {"none", "running", "dismissed"}
    /\ job' = [job EXCEPT ![o] = "dismissed"]
    /\ UNCHANGED <<repo, pane, stage, request, creating, result, listed>>

-----------------------------------------------------------------------------
(* Removing one                                                            *)

\* What Home's removal_blockers reads: the dialog's warnings, work that may be
\* nowhere else, and anything open or running there.
Blocked(o) ==
    LET p == at'[o] IN
    \/ ~dir[p] \/ work[p] # "clean" \/ ahead[p]
    \/ OpenAt(p) # {} \/ Terminals(p) # {}
    \/ \E q \in RunningJobs : at[q] = p

HomeLooks(o) ==
    /\ stage[o] = "idle"
    /\ \E p \in Places, fs \in SUBSET {"drop"} : entry[p] /\ Asks(o, p, fs)
    /\ To(o, IF Blocked(o) THEN "refused" ELSE "admitted")
    /\ UNCHANGED <<repo, pane, creating, job, result, listed>>

\* The count of running jobs is read after the facts.
HomeCounts(o) ==
    /\ stage[o] = "admitted"
    /\ To(o, IF Cardinality(RunningJobs) < MaxRunningJobs THEN "planned" ELSE "refused")
    /\ UNCHANGED <<repo, pane, request, creating, job, result, listed>>

DialogRemovesOne(o) ==
    /\ stage[o] = "idle"
    /\ \E p \in Places, fs \in SUBSET {"force", "drop"} : entry[p] /\ Asks(o, p, fs)
    /\ To(o, "removing")
    /\ UNCHANGED <<repo, pane, creating, job, result, listed>>

\* RemovePipeline::validate, before the panes are ended and again before the
\* teardown.
Valid(o) == work[at[o]] = "tracked" => "force" \in flags[o]

Validate(o) ==
    /\ stage[o] = "removing"
    /\ IF Valid(o) THEN To(o, "validated") /\ UNCHANGED result ELSE Returns(o, "blocked")
    /\ UNCHANGED <<repo, pane, request, creating, job, listed>>

\* terminate_sessions_in reads shells_in and agents_in, and ends what it read: a
\* setup's terminal is neither.
ListSessions(o) ==
    /\ stage[o] = "validated"
    /\ listed' = [listed EXCEPT ![o] = OpenAt(at[o])]
    /\ To(o, "listed")
    /\ UNCHANGED <<repo, pane, request, creating, job, result>>

EndSessions(o) ==
    /\ stage[o] = "listed"
    /\ pane' = [w \in Panes |-> IF w \in listed[o] THEN "over" ELSE pane[w]]
    /\ listed' = [listed EXCEPT ![o] = {}]
    /\ To(o, "ended")
    /\ UNCHANGED <<repo, request, creating, job, result>>

\* RemovePipeline::execute validates again, and runs the steps before git does.
StartTeardown(o) ==
    /\ stage[o] = "ended"
    /\ IF Valid(o) THEN To(o, "teardown") /\ UNCHANGED result ELSE Returns(o, "blocked")
    /\ UNCHANGED <<repo, pane, request, creating, job, listed>>

TeardownEnds(o) ==
    /\ stage[o] = "teardown"
    /\ \/ To(o, "torn") /\ UNCHANGED result
       \/ Returns(o, "error")
    /\ UNCHANGED <<repo, pane, request, creating, job, listed>>

(* Mutant: git is always told to force.                                  *)
RemoveDir_Forces(o) ==
    /\ stage[o] = "torn" /\ entry[at[o]]
    /\ entry' = [entry EXCEPT ![at[o]] = FALSE]
    /\ dir' = [dir EXCEPT ![at[o]] = FALSE]
    /\ work' = [work EXCEPT ![at[o]] = "clean"]
    /\ To(o, "gone")
    /\ UNCHANGED <<result, branch, ahead, pane, request, creating, job, listed>>

\* git worktree remove: refused over changed or untracked files without --force.
RemoveDir(o) ==
    /\ stage[o] = "torn"
    /\ LET p == at[o] IN
       \/ /\ entry[p] /\ (work[p] = "clean" \/ "force" \in flags[o])
          /\ entry' = [entry EXCEPT ![p] = FALSE]
          /\ dir' = [dir EXCEPT ![p] = FALSE]
          /\ work' = [work EXCEPT ![p] = "clean"]
          /\ To(o, "gone") /\ UNCHANGED result
       \/ Returns(o, "error") /\ UNCHANGED <<entry, dir, work>>
    /\ UNCHANGED <<branch, ahead, pane, request, creating, job, listed>>

\* git branch -D, if it was asked for; a failure is a warning.
DeleteBranch(o) ==
    /\ stage[o] = "gone"
    /\ LET p == at[o] IN
       IF "drop" \in flags[o] /\ ~entry[p]
       THEN /\ branch' = [branch EXCEPT ![p] = FALSE]
            /\ ahead' = [ahead EXCEPT ![p] = FALSE]
       ELSE UNCHANGED <<branch, ahead>>
    /\ Returns(o, "removed")
    /\ UNCHANGED <<entry, dir, work, pane, request, creating, job, listed>>

-----------------------------------------------------------------------------
(* What else happens in the worktrees (external)                           *)

PaneOpens(w) ==
    /\ pane[w] = "unopened"
    /\ \E p \in Places : entry[p] /\ dir[p] /\ pane' = [pane EXCEPT ![w] = p]
    /\ UNCHANGED <<repo, stage, request, creating, job, result, listed>>

PaneEnds(w) ==
    /\ pane[w] \in Places
    /\ pane' = [pane EXCEPT ![w] = "over"]
    /\ UNCHANGED <<repo, stage, request, creating, job, result, listed>>

\* It changes files, commits, or pushes.
PaneWorks(w) ==
    /\ pane[w] \in Places
    /\ LET p == pane[w] IN
       /\ dir[p] /\ entry[p]
       /\ \/ work' \in {[work EXCEPT ![p] = v] : v \in {"tracked", "untracked"}}
             /\ UNCHANGED ahead
          \/ work' = [work EXCEPT ![p] = "clean"] /\ ahead' = [ahead EXCEPT ![p] = TRUE]
          \/ ahead' = [ahead EXCEPT ![p] = FALSE] /\ UNCHANGED work
    /\ UNCHANGED <<entry, dir, branch, pane, stage, request, creating, job, result, listed>>

\* A checkout with nothing to lose is deleted by hand.
HandDeletes(p) ==
    /\ entry[p] /\ dir[p] /\ work[p] = "clean"
    /\ dir' = [dir EXCEPT ![p] = FALSE]
    /\ UNCHANGED <<entry, branch, ahead, work, pane, stage, request, creating, job, result, listed>>

-----------------------------------------------------------------------------
MakeSteps(o) ==
    Count(o) \/ Replan(o) \/ Add(o) \/ SpawnSetup(o) \/ SetupEnds(o) \/ Leave(o)
RemoveSteps(o) ==
    \/ Validate(o) \/ ListSessions(o) \/ EndSessions(o) \/ StartTeardown(o)
    \/ TeardownEnds(o) \/ RemoveDir(o) \/ DeleteBranch(o)

WorktreesNext ==
    \/ \E o \in HomeMakes : HomeAdmits(o) \/ HomePlans(o)
    \/ \E o \in DialogMakes : DialogMakesOne(o)
    \/ \E o \in Makes :
          Count(o) \/ Replan(o) \/ Add(o) \/ SpawnSetup(o) \/ SetupEnds(o) \/ Leave(o)
    \/ \E o \in HomeRemoves : HomeLooks(o) \/ HomeCounts(o)
    \/ \E o \in DialogRemoves : DialogRemovesOne(o)
    \/ \E o \in Removes :
          \/ Validate(o) \/ ListSessions(o) \/ EndSessions(o) \/ StartTeardown(o)
          \/ TeardownEnds(o) \/ RemoveDir(o) \/ DeleteBranch(o)
    \/ \E o \in Homes : StartJob(o) \/ Report(o) \/ Dismiss(o)
    \/ \E w \in Panes : PaneOpens(w) \/ PaneEnds(w) \/ PaneWorks(w)
    \/ \E p \in Places : HandDeletes(p)

WorktreesSpec == WorktreesInit /\ [][WorktreesNext]_worktreeVars

\* A job's thread runs on; a setup and a teardown step have deadlines.
WorktreesFairness ==
    /\ \A o \in Makes : WF_worktreeVars(MakeSteps(o))
    /\ \A o \in Removes : WF_worktreeVars(RemoveSteps(o))
    /\ \A o \in Homes : WF_worktreeVars(Report(o))

WorktreesFairSpec == WorktreesSpec /\ WorktreesFairness

-----------------------------------------------------------------------------
(* Properties                                                              *)

\* Every variable keeps its shape, and the project's count is that of the
\* creations that hold a guard.
WorktreesTypeOK ==
    /\ {entry, dir, branch, ahead} \subseteq [Places -> BOOLEAN]
    /\ work \in [Places -> {"clean", "untracked", "tracked"}]
    /\ pane \in [Panes -> {"unopened", "over"} \cup Places]
    /\ stage \in [Ops -> {"idle", "refused", "admitted", "planned", "spawned", "counted", "checked",
                          "added", "setup", "removing", "validated", "listed", "ended", "teardown",
                          "torn", "gone", "over", "reported", "left"}]
    /\ at \in [Ops -> Places \cup {Nowhere}]
    /\ flags \in [Ops -> SUBSET {"adopt", "force", "drop"}]
    /\ job \in [Ops -> {"none", "running", "created", "setupFailed", "removed", "failed", "dismissed"}]
    /\ result \in [Ops -> {"none", "created", "setupFailed", "removed", "blocked", "error"}]
    /\ listed \in [Ops -> SUBSET Panes]
    /\ creating = Cardinality({o \in Makes : stage[o] \in
                      {"counted", "checked", "added", "setup", "over", "reported"}})

\* Uncommitted work leaves with its directory only when the removal was told to
\* force, whatever was changed between the checks, the teardown and git.
OnlyForceDiscards ==
    [][\A p \in Places : work[p] # "clean" /\ dir[p] /\ ~dir'[p]
          => \E o \in Removes : stage[o] = "torn" /\ at[o] = p /\ "force" \in flags[o]]_worktreeVars

\* A checkout deleted by hand blocks no creation: what refuses one is a directory
\* that is there, or a branch that is not as the request says.
NoGhostBlocks ==
    [][\A o \in Makes : result[o] = "none" /\ result'[o] = "blocked"
          => dir[at[o]] \/ ("adopt" \in flags[o]) # branch[at[o]]]_worktreeVars

\* A row Home shows as running is one a thread will finish.
RowsSettle == \A o \in Homes : job[o] = "running" ~> job[o] # "running"

\* app.rs:805: "Home refuses to start a second in such a project while one is
\* running."  The count is taken on the thread, long after it was read.
OneAtATime ==
    OneGlobally => Cardinality({o \in HomeMakes : stage[o] \in {"added", "setup"}}) <= 1
=============================================================================
