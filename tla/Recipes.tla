------------------------------- MODULE Recipes -----------------------------
(* Recipe runs in one worktree (src-tauri/src/recipes.rs): the registry    *)
(* that admits one at a time, the thread that drives a run's steps one     *)
(* after another, each in a session of its own or in the one before it,    *)
(* and the person who stops a run, dismisses it, types into its panes and  *)
(* closes them.                                                            *)
EXTENDS Integers, Sequences, FiniteSets

CONSTANTS
    Runs,       \* calls of start_recipe
    Steps,      \* how many steps the recipe has
    MaxTurns    \* bounds the turns that wait in one session

ASSUME RecipesAssumption == Steps \in Nat \ {0} /\ MaxTurns \in Nat \ {0}

Index == 1 .. Steps
Prompts == 0 .. Steps
Finals == {"done", "failed", "stopped"}
Silence == [how |-> "nothing", of |-> {}]

VARIABLES
    recipe,     \* of each step: its conversation, and whether a failure stops the run
    record,     \* RunView.status, or that there is no record
    status,     \* RunStepView.status
    stop,       \* Run.stop
    driver,     \* where the run's thread is
    index,      \* the step it is at
    sessions,   \* of each step, the step whose session it was sent to; 0 for none
    previous,   \* the reply at hand, by what it answers; {} for none
    built,      \* the reply each step's text was built from
    took,       \* the reply each step was given for its own
    halted,     \* a failure stops the rest
    chat,       \* the session a step opened: unopened, open, closed
    turns,      \* what it has to answer, oldest first, by step; 0 is the person's
    heard       \* what the watch of the step in hand was settled with

runVars == <<status, index, sessions, previous, built, took, halted>>
recipeVars == <<recipe, record, stop, driver, runVars, chat, turns, heard>>

RecipesInit ==
    /\ recipe \in [Index -> [conversation : {"new", "continue"}, stops : BOOLEAN]]
    /\ recipe[1].conversation = "new"
    /\ record = [r \in Runs |-> "none"]
    /\ status = [r \in Runs |-> [i \in Index |-> "pending"]]
    /\ stop = [r \in Runs |-> FALSE]
    /\ driver = [r \in Runs |-> "none"]
    /\ index = [r \in Runs |-> 1]
    /\ sessions = [r \in Runs |-> [i \in Index |-> 0]]
    /\ previous = [r \in Runs |-> {}]
    /\ built = [r \in Runs |-> [i \in Index |-> {}]]
    /\ took = [r \in Runs |-> [i \in Index |-> {}]]
    /\ halted = [r \in Runs |-> FALSE]
    /\ chat = [r \in Runs |-> [i \in Index |-> "unopened"]]
    /\ turns = [r \in Runs |-> [i \in Index |-> <<>>]]
    /\ heard = [r \in Runs |-> Silence]

Drives(r) == driver[r] \notin {"none", "never", "over"}
At(r, d) == driver' = [driver EXCEPT ![r] = d]
MarkStep(r, s) == status' = [status EXCEPT ![r][index[r]] = s]
Open(r, i) == i # 0 /\ chat[r][i] = "open"

-----------------------------------------------------------------------------
(* The registry                                                            *)

\* A finished run makes way; one that is on record as running does not.
Admit(r) ==
    /\ \A q \in Runs : record[q] # "running"
    /\ record' = [q \in Runs |->
          IF q = r THEN "running" ELSE IF record[q] \in Finals THEN "gone" ELSE record[q]]

\* start_recipe: the record is there before the thread, and stays when there is none
\* to be had.
Start(r) ==
    /\ record[r] = "none" /\ driver[r] = "none"
    /\ Admit(r)
    /\ At(r, "between") \/ At(r, "never")
    /\ UNCHANGED <<recipe, stop, runVars, chat, turns, heard>>

\* stop_recipe: the flag, and an interrupt that may end the turn early (TurnEnds).
StopRun(r) ==
    /\ record[r] \notin {"none", "gone"} /\ ~stop[r]
    /\ stop' = [stop EXCEPT ![r] = TRUE]
    /\ UNCHANGED <<recipe, record, driver, runVars, chat, turns, heard>>

(* Mutant: a run is forgotten whether or not it has finished.              *)
DismissRun_Any(r) ==
    /\ record[r] \notin {"none", "gone"}
    /\ record' = [record EXCEPT ![r] = "gone"]
    /\ UNCHANGED <<recipe, stop, driver, runVars, chat, turns, heard>>

DismissRun(r) ==
    /\ record[r] \in Finals
    /\ record' = [record EXCEPT ![r] = "gone"]
    /\ UNCHANGED <<recipe, stop, driver, runVars, chat, turns, heard>>

-----------------------------------------------------------------------------
(* The run's thread                                                        *)

\* The rest of the loop's body once a step is marked.
Onward(r) == index' = [index EXCEPT ![r] = @ + 1] /\ At(r, "between")

Skip(r) ==
    /\ driver[r] = "between" /\ index[r] <= Steps
    /\ halted[r] \/ stop[r]
    /\ MarkStep(r, "skipped") /\ Onward(r)
    /\ UNCHANGED <<recipe, record, stop, sessions, previous, built, took, halted, chat, turns,
                   heard>>

\* compose, from what the step before it left.
Compose(r) ==
    /\ driver[r] = "between" /\ index[r] <= Steps
    /\ ~halted[r] /\ ~stop[r]
    /\ MarkStep(r, "running")
    /\ built' = [built EXCEPT ![r][index[r]] = previous[r]]
    /\ At(r, "opening")
    /\ UNCHANGED <<recipe, record, stop, index, sessions, previous, took, halted, chat, turns,
                   heard>>

\* Ended::Failed.
Fail(r) ==
    /\ MarkStep(r, "failed")
    /\ previous' = [previous EXCEPT ![r] = {}]
    /\ halted' = [halted EXCEPT ![r] = recipe[index[r]].stops]
    /\ Onward(r)

\* The step's session: one of its own, or the one before it if that is still
\* open.
OpenOwn(r) ==
    /\ driver[r] = "opening" /\ recipe[index[r]].conversation = "new"
    /\ \/ /\ sessions' = [sessions EXCEPT ![r][index[r]] = index[r]]
          /\ chat' = [chat EXCEPT ![r][index[r]] = "open"]
          /\ At(r, "sending")
          /\ UNCHANGED <<status, index, previous, halted>>
       \/ Fail(r) /\ UNCHANGED <<sessions, chat>>
    /\ UNCHANGED <<recipe, record, stop, built, took, turns, heard>>

CarryOn(r) ==
    /\ driver[r] = "opening" /\ recipe[index[r]].conversation = "continue"
    /\ LET s == sessions[r][index[r] - 1] IN
       IF Open(r, s)
       THEN /\ sessions' = [sessions EXCEPT ![r][index[r]] = s]
            /\ At(r, "sending")
            /\ UNCHANGED <<status, index, previous, halted>>
       ELSE Fail(r) /\ UNCHANGED sessions
    /\ UNCHANGED <<recipe, record, stop, built, took, chat, turns, heard>>

\* Live::turn arms the watch and sends; a session that is gone, or will not
\* take the text, fails the step.
Send(r) ==
    /\ driver[r] = "sending"
    /\ LET s == sessions[r][index[r]] IN
       \/ /\ Open(r, s)
          /\ turns' = [turns EXCEPT ![r][s] = Append(@, index[r])]
          /\ At(r, "waiting")
          /\ UNCHANGED <<status, index, previous, halted>>
       \/ Fail(r) /\ UNCHANGED turns
    /\ UNCHANGED <<recipe, record, stop, sessions, built, took, chat, heard>>

(* Mutant: a reply is at hand until there is another.                      *)
Fail_KeepsPrevious(r) ==
    /\ MarkStep(r, "failed")
    /\ UNCHANGED previous
    /\ halted' = [halted EXCEPT ![r] = recipe[index[r]].stops]
    /\ Onward(r)

\* wait_until hears the ending first, then looks at the deadline, then at Stop; what
\* it hears is the step's reply, whatever it answers.
Hear(r) ==
    /\ driver[r] = "waiting" /\ heard[r].how # "nothing"
    /\ \/ /\ heard[r].how = "reply"
          /\ MarkStep(r, "done")
          /\ previous' = [previous EXCEPT ![r] = heard[r].of]
          /\ took' = [took EXCEPT ![r][index[r]] = heard[r].of]
          /\ Onward(r) /\ UNCHANGED halted
       \/ heard[r].how = "failure" /\ Fail(r) /\ UNCHANGED took
    /\ heard' = [heard EXCEPT ![r] = Silence]
    /\ UNCHANGED <<recipe, record, stop, sessions, built, chat, turns>>

(* Mutant: no deadline.                                                    *)
TimeOut_Never(r) ==
    /\ FALSE
    /\ UNCHANGED recipeVars

\* The three hours are over: the turn goes on, and nobody waits for it.
TimeOut(r) ==
    /\ driver[r] = "waiting" /\ heard[r] = Silence
    /\ Fail(r)
    /\ UNCHANGED <<recipe, record, stop, sessions, built, took, chat, turns, heard>>

\* Stopped while it waits: the turn is interrupted, and is not waited for.
Give(r) ==
    /\ driver[r] = "waiting" /\ heard[r] = Silence /\ stop[r]
    /\ MarkStep(r, "stopped") /\ Onward(r)
    /\ UNCHANGED <<recipe, record, stop, sessions, previous, built, took, halted, chat, turns,
                   heard>>

Finish(r) ==
    /\ driver[r] = "between" /\ index[r] > Steps
    /\ record' = [record EXCEPT ![r] =
          IF stop[r] THEN "stopped"
          ELSE IF \E i \in Index : status[r][i] = "failed" THEN "failed" ELSE "done"]
    /\ At(r, "over")
    /\ UNCHANGED <<recipe, stop, runVars, chat, turns, heard>>

-----------------------------------------------------------------------------
(* The sessions and the person (external)                                  *)

\* Any turn's ending settles every watch on its session.
Settles(r, s, ending) ==
    heard' = IF driver[r] = "waiting" /\ sessions[r][index[r]] = s /\ heard[r] = Silence
             THEN [heard EXCEPT ![r] = ending] ELSE heard

\* A turn answers the oldest prompt, and those of the others it has read by then.
TurnEnds(r, s) ==
    \E n \in DOMAIN turns[r][s] :
        /\ \/ Settles(r, s, [how |-> "reply", of |-> {turns[r][s][k] : k \in 1 .. n}])
           \/ Settles(r, s, [how |-> "failure", of |-> {}])
        /\ turns' = [turns EXCEPT ![r][s] = SubSeq(@, n + 1, Len(@))]
        /\ UNCHANGED <<recipe, record, stop, driver, runVars, chat>>

Types(r, s) ==
    /\ Open(r, s) /\ Len(turns[r][s]) < MaxTurns
    /\ turns' = [turns EXCEPT ![r][s] = Append(@, 0)]
    /\ UNCHANGED <<recipe, record, stop, driver, runVars, chat, heard>>

Closes(r, s) ==
    /\ Open(r, s)
    /\ chat' = [chat EXCEPT ![r][s] = "closed"]
    /\ turns' = [turns EXCEPT ![r][s] = <<>>]
    /\ Settles(r, s, [how |-> "failure", of |-> {}])
    /\ UNCHANGED <<recipe, record, stop, driver, runVars>>

-----------------------------------------------------------------------------
DriverSteps(r) ==
    \/ Skip(r) \/ Compose(r) \/ OpenOwn(r) \/ CarryOn(r) \/ Send(r)
    \/ Hear(r) \/ TimeOut(r) \/ Give(r) \/ Finish(r)

RecipesNext ==
    \E r \in Runs :
        \/ Start(r) \/ StopRun(r) \/ DismissRun(r)
        \/ Skip(r) \/ Compose(r) \/ OpenOwn(r) \/ CarryOn(r) \/ Send(r)
        \/ Hear(r) \/ TimeOut(r) \/ Give(r) \/ Finish(r)
        \/ \E s \in Index : TurnEnds(r, s) \/ Types(r, s) \/ Closes(r, s)

RecipesSpec == RecipesInit /\ [][RecipesNext]_recipeVars

\* The thread runs on, and a wait has a deadline.
RecipesFairness == \A r \in Runs : WF_recipeVars(DriverSteps(r))
RecipesFairSpec == RecipesSpec /\ RecipesFairness

-----------------------------------------------------------------------------
(* Properties                                                              *)

\* Every variable keeps its shape.
RecipesTypeOK ==
    /\ record \in [Runs -> {"none", "running", "gone"} \cup Finals]
    /\ status \in [Runs -> [Index -> {"pending", "running", "skipped"} \cup Finals]]
    /\ stop \in [Runs -> BOOLEAN] /\ halted \in [Runs -> BOOLEAN]
    /\ driver \in [Runs -> {"none", "never", "between", "opening", "sending", "waiting", "over"}]
    /\ index \in [Runs -> 1 .. Steps + 1]
    /\ sessions \in [Runs -> [Index -> 0 .. Steps]]
    /\ {built, took} \subseteq [Runs -> [Index -> SUBSET Prompts]]
    /\ previous \in [Runs -> SUBSET Prompts]
    /\ chat \in [Runs -> [Index -> {"unopened", "open", "closed"}]]
    /\ heard \in [Runs -> [how : {"nothing", "reply", "failure"}, of : SUBSET Prompts]]
    /\ \A r \in Runs, i \in Index :
          Len(turns[r][i]) <= MaxTurns + Steps /\ (turns[r][i] # <<>> => chat[r][i] = "open")

\* One run drives a worktree at a time, and as long as it does it is on record as
\* running: stopping it, dismissing runs and starting others never lose it; and what
\* is on record as running has its thread, or never had one.
OneDriver ==
    /\ Cardinality({r \in Runs : Drives(r)}) <= 1
    /\ \A r \in Runs : record[r] = "running" <=> Drives(r) \/ driver[r] = "never"

\* A step is built from what the step before it was given for a reply whenever that
\* step is done, and from nothing when it is not, never from one further back.
BuiltOnTheLast ==
    \A r \in Runs, i \in Index : status[r][i] \notin {"pending", "skipped"} =>
        built[r][i] = IF i > 1 /\ status[r][i - 1] = "done" THEN took[r][i - 1] ELSE {}

\* What a step is given for its reply answers what was asked in its own conversation,
\* by it, by the person, or by an earlier step that no longer waits for it; and no
\* step's prompt is answered to two of them.
AnsweredOnce ==
    \A r \in Runs, i \in Index :
        /\ status[r][i] = "done" => took[r][i] # {}
        /\ \A x \in took[r][i] \ {0} :
              /\ x <= i /\ sessions[r][x] = sessions[r][i]
              /\ \A j \in Index \ {i} : x \notin took[r][j]

\* A step that carries a conversation on is sent to the session the step before
\* it was sent to, whatever has been closed since, and to no other.
CarriesTheSameOn ==
    \A r \in Runs, i \in Index \ {1} :
        recipe[i].conversation = "continue" /\ sessions[r][i] # 0
            => sessions[r][i] = sessions[r][i - 1]

\* What a run says of itself agrees with its steps: a run that is done has all of
\* them done, and one that has ended has none still to come.
SaysWhatItDid ==
    \A r \in Runs : record[r] \in Finals =>
        /\ record[r] = "done" => \A i \in Index : status[r][i] = "done"
        /\ record[r] = "failed" => \E i \in Index : status[r][i] = "failed"
        /\ \A i \in Index : status[r][i] \notin {"pending", "running"}

\* A run ends, with its panes open and the person typing or not.
RunsEnd == \A r \in Runs : Drives(r) ~> record[r] # "running"

(* recipes.rs: "A step that carries on after a failure gets no reply to    *)
(* build on, rather than the reply from two steps back presented as the    *)
(* last one."  A step's text answers the step before it, or the person.    *)
NotFromTwoBack ==
    \A r \in Runs, i \in Index : built[r][i] # {} => built[r][i] \cap {i - 1, 0} # {}

(* recipes.rs, of a run in the way of another: "Stop it before starting    *)
(* another recipe."  A run that is told to stop makes way.                 *)
StoppingMakesWay == \A r \in Runs : stop[r] ~> record[r] # "running"

\* One run drives; each of its steps is built on the one before and goes where
\* that one went; and what the run says of itself is what its steps did.
RecipesOK ==
    /\ RecipesTypeOK /\ OneDriver /\ BuiltOnTheLast /\ AnsweredOnce /\ CarriesTheSameOn
    /\ SaysWhatItDid
=============================================================================
