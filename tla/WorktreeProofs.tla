---------------------------- MODULE WorktreeProofs ----------------------------
(* Proofs about what happens in a worktree: the recipe runs of Recipes, for*)
(* any number of runs, steps and waiting turns, and its creation and       *)
(* removal in Worktrees, for any number of operations, branches and places.*)
EXTENDS Recipes, Worktrees, FiniteSetTheorems, SequenceTheorems, TLAPS

-----------------------------------------------------------------------------
(* Recipes: the inductive invariant, run by run.                           *)

\* The run's record and its thread go together, or the thread was never there.
RunRecorded(r) ==
    /\ record[r] = "running" <=> Drives(r) \/ driver[r] = "never"
    /\ driver[r] = "none" <=> record[r] = "none"

\* The thread is at its index: what is behind it is marked, what is ahead is not.
RunPlaced(r) ==
    /\ driver[r] \in {"none", "never"} => index[r] = 1 /\ previous[r] = {}
    /\ driver[r] = "over" => index[r] = Steps + 1
    /\ driver[r] \in {"opening", "sending", "waiting"} =>
          index[r] <= Steps /\ status[r][index[r]] = "running"
    /\ \A i \in Index :
          /\ i < index[r] => status[r][i] \notin {"pending", "running"}
          /\ i > index[r] \/ (i = index[r] /\ driver[r] \in {"none", "never", "between"}) =>
                status[r][i] = "pending"
          /\ i > index[r]
                \/ (i = index[r] /\ driver[r] \in {"none", "never", "between", "opening"}) =>
                sessions[r][i] = 0

\* A step is passed over, stopped or left out for a reason that lasts.
RunExcused(r) ==
    /\ halted[r] => driver[r] \in {"between", "over"}
    /\ halted[r] => \E i \in Index : status[r][i] = "failed"
    /\ \A i \in Index :
          /\ status[r][i] = "skipped" => halted[r] \/ stop[r]
          /\ status[r][i] = "stopped" => stop[r]

Reply(r, i) == IF i > 1 /\ status[r][i - 1] = "done" THEN took[r][i - 1] ELSE {}

\* While nothing stops the run the reply at hand is the last step's.
RunBuilds(r) ==
    /\ driver[r] = "between" /\ ~halted[r] /\ ~stop[r] => previous[r] = Reply(r, index[r])
    /\ \A i \in Index : status[r][i] \notin {"pending", "skipped"} => built[r][i] = Reply(r, i)

RunCarries(r) ==
    \A i \in Index \ {1} :
        recipe[i].conversation = "continue" /\ sessions[r][i] # 0
            => sessions[r][i] = sessions[r][i - 1]

\* Each step has sent at most one turn; the person's are bounded.
RunBounded(r) ==
    \A i \in Index :
        /\ Len(turns[r][i]) <=
              MaxTurns + (IF driver[r] = "waiting" THEN index[r] ELSE index[r] - 1)
        /\ turns[r][i] # <<>> => chat[r][i] = "open"

\* A step's prompt that nothing has answered yet is in its own conversation, once.
Asked(r, x, s) ==
    /\ x <= index[r] /\ (x = index[r] => driver[r] = "waiting")
    /\ sessions[r][x] = s
    /\ x \notin heard[r].of /\ \A j \in Index : x \notin took[r][j]

RunAsks(r) ==
    \A s \in Index, x \in Index : \A k \in 1 .. Len(turns[r][s]) : turns[r][s][k] = x =>
        /\ Asked(r, x, s)
        /\ \A j \in 1 .. Len(turns[r][s]) : turns[r][s][j] = x => j = k

\* What the watch was settled with answers what was asked in the step's conversation
\* and was answered to nobody.
RunHears(r) ==
    /\ heard[r] # Silence => driver[r] = "waiting"
    /\ heard[r].how = "reply" => heard[r].of # {}
    /\ \A x \in heard[r].of \ {0} :
          /\ x <= index[r] /\ sessions[r][x] = sessions[r][index[r]]
          /\ \A j \in Index : x \notin took[r][j]

\* And so does what a step took for its reply.
RunTakes(r) ==
    \A i \in Index :
        /\ status[r][i] = "done" <=> took[r][i] # {}
        /\ \A x \in took[r][i] \ {0} :
              /\ x <= i /\ sessions[r][x] = sessions[r][i]
              /\ \A j \in Index \ {i} : x \notin took[r][j]

RunSays(r) ==
    /\ record[r] = "done" => \A i \in Index : status[r][i] = "done"
    /\ record[r] = "failed" => \E i \in Index : status[r][i] = "failed"

RunInv(r) ==
    /\ RunRecorded(r) /\ RunPlaced(r) /\ RunExcused(r)
    /\ RunBuilds(r) /\ RunCarries(r) /\ RunBounded(r) /\ RunSays(r)
    /\ RunAsks(r) /\ RunHears(r) /\ RunTakes(r)

RecipesShape ==
    /\ recipe \in [Index -> [conversation : {"new", "continue"}, stops : BOOLEAN]]
    /\ recipe[1].conversation = "new"
    /\ record \in [Runs -> {"none", "running", "gone"} \cup Finals]
    /\ status \in [Runs -> [Index -> {"pending", "running", "skipped"} \cup Finals]]
    /\ stop \in [Runs -> BOOLEAN] /\ halted \in [Runs -> BOOLEAN]
    /\ driver \in [Runs -> {"none", "never", "between", "opening", "sending", "waiting", "over"}]
    /\ index \in [Runs -> 1 .. Steps + 1]
    /\ sessions \in [Runs -> [Index -> 0 .. Steps]]
    /\ built \in [Runs -> [Index -> SUBSET Prompts]] /\ took \in [Runs -> [Index -> SUBSET Prompts]]
    /\ previous \in [Runs -> SUBSET Prompts]
    /\ chat \in [Runs -> [Index -> {"unopened", "open", "closed"}]]
    /\ turns \in [Runs -> [Index -> Seq(Prompts)]]
    /\ heard \in [Runs -> [how : {"nothing", "reply", "failure"}, of : SUBSET Prompts]]

\* Each run in order, and one of them at a time.
RecipesInv ==
    /\ RecipesShape
    /\ \A r \in Runs : RunInv(r)
    /\ \A q, r \in Runs : Drives(q) /\ Drives(r) => q = r

-----------------------------------------------------------------------------
(* What a step of one run leaves alone.                                    *)

\* A run that a step is not about.
Untouched(q) ==
    /\ record'[q] = record[q] /\ status'[q] = status[q] /\ stop'[q] = stop[q]
    /\ driver'[q] = driver[q] /\ index'[q] = index[q] /\ sessions'[q] = sessions[q]
    /\ previous'[q] = previous[q] /\ built'[q] = built[q] /\ took'[q] = took[q]
    /\ halted'[q] = halted[q]
    /\ chat'[q] = chat[q] /\ turns'[q] = turns[q] /\ heard'[q] = heard[q]

\* Two levels of EXCEPT keep the range of a function of functions.
LEMMA TwoDeep ==
    ASSUME NEW S, NEW T, NEW V, NEW f \in [S -> [T -> V]],
           NEW a \in S, NEW b \in T, NEW v \in V
    PROVE  [f EXCEPT ![a][b] = v] \in [S -> [T -> V]]
OBVIOUS

LEMMA UntouchedKeeps ==
    ASSUME NEW q \in Runs, RunInv(q), recipe' = recipe, Untouched(q)
    PROVE  RunInv(q)'
<1>1. RunRecorded(q)' /\ RunPlaced(q)' /\ RunExcused(q)' /\ RunBuilds(q)' /\ RunCarries(q)'
      /\ RunBounded(q)' /\ RunSays(q)'
  BY DEF Untouched, RunInv, RunRecorded, RunPlaced, RunExcused, RunBuilds, RunCarries,
         RunBounded, RunSays, Drives, Reply
<1>2. RunAsks(q)' /\ RunHears(q)' /\ RunTakes(q)'
  BY DEF Untouched, RunInv, RunAsks, Asked, RunHears, RunTakes
<1> QED BY <1>1, <1>2 DEF RunInv

\* A step about one run that keeps the shape, the others and the turn of the
\* driver keeps the invariant.
LEMMA OneRun ==
    ASSUME RecipesInv, NEW r \in Runs, RecipesShape', recipe' = recipe, RunInv(r)',
           \A q \in Runs \ {r} : Untouched(q),
           Drives(r)' => Drives(r)
    PROVE  RecipesInv'
<1>1. \A q \in Runs : RunInv(q)'
  BY UntouchedKeeps DEF RecipesInv
<1>2. \A q \in Runs : Drives(q)' => Drives(q)
  BY DEF Untouched, Drives
<1> QED BY <1>1, <1>2 DEF RecipesInv

\* A step marked, with what it leaves at hand, and the thread at the next.
LEMMA Advance ==
    ASSUME RecipesInv, NEW r \in Runs, RecipesShape', recipe' = recipe,
           Drives(r), index[r] <= Steps,
           NEW s \in {"skipped", "done", "failed", "stopped"},
           s = "skipped" <=> driver[r] = "between",
           s = "skipped" => halted[r] \/ stop[r],
           s = "stopped" => stop[r],
           \A i \in Index : status'[r][i] = IF i = index[r] THEN s ELSE status[r][i],
           driver'[r] = "between", index'[r] = index[r] + 1,
           s = "done" => heard[r].how = "reply",
           previous'[r] = IF s = "done" THEN heard[r].of
                          ELSE IF s = "failed" THEN {} ELSE previous[r],
           \A i \in Index : took'[r][i] = IF s = "done" /\ i = index[r] THEN heard[r].of
                                         ELSE took[r][i],
           heard'[r] = Silence,
           halted'[r] = IF s = "failed" THEN recipe[index[r]].stops ELSE halted[r],
           record'[r] = record[r], stop'[r] = stop[r], sessions'[r] = sessions[r],
           built'[r] = built[r], chat'[r] = chat[r], turns'[r] = turns[r]
    PROVE  RunInv(r)'
<1>1. index[r] \in Index /\ index[r] \in Nat
      /\ driver[r] \in {"between", "opening", "sending", "waiting"}
  BY RecipesAssumption, SMTT(30) DEF RecipesInv, RecipesShape, Index, Drives
<1>2. RunInv(r) /\ recipe[index[r]].stops \in BOOLEAN /\ halted[r] \in BOOLEAN
  BY <1>1 DEF RecipesInv, RecipesShape
<1>3. RunRecorded(r)'
  BY <1>2 DEF RunInv, RunRecorded, Drives
<1>4. RunPlaced(r)'
  BY <1>1, <1>2 DEF RunInv, RunPlaced, Index
<1>5. RunExcused(r)'
  BY <1>1, <1>2 DEF RunInv, RunExcused, RunPlaced, Drives
<1>6. RunBuilds(r)'
  <2>1. ASSUME ~halted'[r], ~stop'[r]
        PROVE  previous'[r] = Reply(r, index[r])'
    <3>1. s \in {"done", "failed"}
      BY <2>1
    <3>2. index'[r] > 1 /\ index'[r] - 1 = index[r] /\ status'[r][index[r]] = s
      BY <1>1 DEF Index
    <3>3. took'[r][index[r]] = IF s = "done" THEN heard[r].of ELSE took[r][index[r]]
      BY <1>1
    <3> QED BY <3>1, <3>2, <3>3 DEF Reply
  <2>2. ASSUME NEW i \in Index, status'[r][i] \notin {"pending", "skipped"}
        PROVE  built'[r][i] = Reply(r, i)'
    <3>1. status[r][i] \notin {"pending", "skipped"}
      BY <1>1, <1>2, <2>2 DEF RunInv, RunPlaced, Drives
    <3>2. ~(i > index[r]) /\ i \in Int /\ index[r] \in Int
      BY <1>1, <1>2, <3>1 DEF RunInv, RunPlaced, Index
    <3>3. i > 1 => i - 1 \in Index /\ i - 1 # index[r]
      BY <3>2, RecipesAssumption DEF Index
    <3> QED BY <1>2, <3>1, <3>3 DEF RunInv, RunBuilds, Reply
  <2> QED BY <2>1, <2>2 DEF RunBuilds
<1>7. RunCarries(r)'
  BY <1>2 DEF RunInv, RunCarries
<1>8. RunBounded(r)'
  BY <1>1, <1>2, RecipesAssumption DEF RunInv, RunBounded
<1>9. RunSays(r)'
  BY <1>2 DEF RunInv, RunSays, RunRecorded, Drives, Finals
<1>10. RunAsks(r)' /\ RunHears(r)'
  <2>1. heard'[r].of = {} /\ heard'[r].how = "nothing"
    BY DEF Silence
  <2>2. RunHears(r)'
    BY <2>1 DEF RunHears
  <2>3. ASSUME NEW c \in Index, NEW x \in Index, Asked(r, x, c)
        PROVE  Asked(r, x, c)'
    <3>1. x <= index'[r] /\ x # index'[r]
      BY <1>1, <2>3 DEF Asked, Index
    <3>2. x \notin heard'[r].of /\ \A j \in Index : x \notin took'[r][j]
      BY <2>1, <2>3 DEF Asked
    <3> QED BY <2>3, <3>1, <3>2 DEF Asked
  <2>4. RunAsks(r)'
    BY <1>2, <2>3 DEF RunInv, RunAsks
  <2> QED BY <2>2, <2>4
<1>11. RunTakes(r)'
  <2> SUFFICES ASSUME NEW i \in Index
               PROVE  /\ status'[r][i] = "done" <=> took'[r][i] # {}
                      /\ \A x \in took'[r][i] \ {0} :
                            /\ x <= i /\ sessions[r][x] = sessions[r][i]
                            /\ \A j \in Index \ {i} : x \notin took'[r][j]
    BY DEF RunTakes
  <2>1. CASE s = "done" /\ i = index[r]
    BY <1>1, <1>2, <2>1 DEF RunInv, RunHears
  <2>2. CASE ~(s = "done" /\ i = index[r])
    <3>1. status[r][i] = "done" => i # index[r]
      BY <1>1, <1>2 DEF RunInv, RunPlaced
    <3>2. status'[r][i] = "done" <=> status[r][i] = "done"
      BY <2>2, <3>1
    <3>3. took'[r][i] = took[r][i]
      BY <2>2
    <3>4. ASSUME NEW x \in took[r][i] \ {0}, NEW j \in Index \ {i}
          PROVE  x \notin took'[r][j]
      BY <1>2 DEF RunInv, RunTakes, RunHears
    <3> QED BY <1>2, <3>2, <3>3, <3>4 DEF RunInv, RunTakes
  <2> QED BY <2>1, <2>2
<1> QED BY <1>3, <1>4, <1>5, <1>6, <1>7, <1>8, <1>9, <1>10, <1>11 DEF RunInv

LEMMA SkipKeeps ==
    ASSUME RecipesInv, NEW r \in Runs, Skip(r)
    PROVE  RecipesInv'
<1> USE RecipesAssumption DEF Skip, MarkStep, Onward, At, Index
<1>1. RecipesShape'
  <2>1. RecipesShape
    BY DEF RecipesInv
  <2>4. index[r] \in Index
    BY <2>1 DEF RecipesShape
  <2>2. status' \in [Runs -> [Index -> {"pending", "running", "skipped"} \cup Finals]]
    BY <2>1, <2>4, TwoDeep, SMTT(30) DEF RecipesShape
  <2>3. index' \in [Runs -> 1 .. Steps + 1]
    BY <2>1, SMTT(30) DEF RecipesShape
  <2> QED BY <2>1, <2>2, <2>3 DEF RecipesShape
<1>2. \A q \in Runs \ {r} : Untouched(q)
  BY DEF RecipesInv, RecipesShape, Untouched
<1>3. RunInv(r)'
  <2>1. \A i \in Index : status'[r][i] = IF i = index[r] THEN "skipped" ELSE status[r][i]
    BY DEF RecipesInv, RecipesShape
  <2>2. driver'[r] = "between" /\ index'[r] = index[r] + 1
    BY DEF RecipesInv, RecipesShape
  <2>3. heard'[r] = Silence /\ UNCHANGED took
    BY DEF RecipesInv, RunInv, RunHears
  <2> QED BY <1>1, <2>1, <2>2, <2>3, Advance DEF Drives
<1>4. Drives(r)' => Drives(r)
  BY DEF Drives
<1> QED BY <1>1, <1>2, <1>3, <1>4, OneRun

\* Ended::Failed, wherever in the step it happens.
LEMMA FailKeeps ==
    ASSUME RecipesInv, NEW r \in Runs, Fail(r),
           driver[r] \in {"opening", "sending", "waiting"},
           UNCHANGED <<recipe, record, stop, sessions, built, took, chat, turns>>,
           \/ heard' = heard /\ driver[r] # "waiting"
           \/ heard' = [heard EXCEPT ![r] = Silence]
    PROVE  RecipesInv'
<1> USE RecipesAssumption
<1>1. RecipesShape /\ RunInv(r)
  BY DEF RecipesInv
<1>2. index[r] \in Index /\ index[r] <= Steps
  BY <1>1 DEF RecipesShape, RunInv, RunPlaced, Index
<1>3. RecipesShape'
  <2>1. status' \in [Runs -> [Index -> {"pending", "running", "skipped"} \cup Finals]]
    BY <1>1, <1>2, TwoDeep DEF RecipesShape, Fail, MarkStep, Finals
  <2>2. recipe[index[r]].stops \in BOOLEAN /\ index[r] + 1 \in 1 .. Steps + 1
    BY <1>1, <1>2 DEF RecipesShape, Index
  <2>3. heard' \in [Runs -> [how : {"nothing", "reply", "failure"}, of : SUBSET Prompts]]
    <3>1. Silence \in [how : {"nothing", "reply", "failure"}, of : SUBSET Prompts]
      BY DEF Silence
    <3> QED BY <1>1, <3>1 DEF RecipesShape
  <2>4. /\ previous' \in [Runs -> SUBSET Prompts] /\ halted' \in [Runs -> BOOLEAN]
        /\ index' \in [Runs -> 1 .. Steps + 1]
        /\ driver' \in [Runs -> {"none", "never", "between", "opening", "sending", "waiting",
                                 "over"}]
    BY <1>1, <2>2 DEF RecipesShape, Fail, Onward, At
  <2> QED BY <1>1, <2>1, <2>3, <2>4 DEF RecipesShape
<1>4. \A q \in Runs \ {r} : Untouched(q)
  BY <1>1 DEF RecipesShape, Fail, MarkStep, Onward, At, Untouched
<1>5. RunInv(r)'
  <2>1. \A i \in Index : status'[r][i] = IF i = index[r] THEN "failed" ELSE status[r][i]
    BY <1>1, <1>2 DEF RecipesShape, Fail, MarkStep
  <2>2. /\ driver'[r] = "between" /\ index'[r] = index[r] + 1
        /\ previous'[r] = {} /\ halted'[r] = recipe[index[r]].stops
    BY <1>1 DEF RecipesShape, Fail, Onward, At
  <2>3. heard'[r] = Silence
    BY <1>1 DEF RecipesShape, RunInv, RunHears
  <2> QED BY <1>2, <1>3, <2>1, <2>2, <2>3, Advance DEF Drives
<1> QED BY <1>3, <1>4, <1>5, OneRun DEF Drives

LEMMA HearKeeps ==
    ASSUME RecipesInv, NEW r \in Runs, Hear(r)
    PROVE  RecipesInv'
<1> USE RecipesAssumption
<1>1. RecipesShape /\ RunInv(r) /\ driver[r] = "waiting"
  BY DEF RecipesInv, Hear
<1>2. index[r] \in Index /\ index[r] <= Steps
  BY <1>1 DEF RecipesShape, RunInv, RunPlaced, Index
<1>3. CASE Fail(r) /\ UNCHANGED took
  BY <1>1, <1>3, FailKeeps DEF Hear
<1>4. CASE /\ heard[r].how = "reply"
           /\ MarkStep(r, "done") /\ previous' = [previous EXCEPT ![r] = heard[r].of]
           /\ took' = [took EXCEPT ![r][index[r]] = heard[r].of]
           /\ Onward(r) /\ UNCHANGED halted
  <2>1. RecipesShape'
    <3>1. status' \in [Runs -> [Index -> {"pending", "running", "skipped"} \cup Finals]]
      BY <1>1, <1>2, <1>4, TwoDeep DEF RecipesShape, MarkStep, Finals
    <3>2. index[r] + 1 \in 1 .. Steps + 1 /\ heard[r].of \in SUBSET Prompts
      BY <1>1, <1>2 DEF Index, RecipesShape
    <3>3. took' \in [Runs -> [Index -> SUBSET Prompts]]
      BY <1>1, <1>2, <1>4, <3>2, TwoDeep DEF RecipesShape
    <3>4. heard' \in [Runs -> [how : {"nothing", "reply", "failure"}, of : SUBSET Prompts]]
      BY <1>1 DEF RecipesShape, Hear, Silence
    <3> QED BY <1>1, <1>4, <3>1, <3>2, <3>3, <3>4 DEF RecipesShape, Hear, Onward, At
  <2>2. \A q \in Runs \ {r} : Untouched(q)
    BY <1>1, <1>4 DEF RecipesShape, Hear, MarkStep, Onward, At, Untouched
  <2>3. \A i \in Index : status'[r][i] = IF i = index[r] THEN "done" ELSE status[r][i]
    BY <1>1, <1>2, <1>4 DEF RecipesShape, MarkStep
  <2>4. /\ driver'[r] = "between" /\ index'[r] = index[r] + 1
        /\ previous'[r] = heard[r].of /\ halted'[r] = halted[r]
        /\ heard'[r] = Silence
        /\ \A i \in Index : took'[r][i] = IF i = index[r] THEN heard[r].of ELSE took[r][i]
    BY <1>1, <1>2, <1>4 DEF RecipesShape, Onward, At, Hear
  <2>5. RunInv(r)'
    BY <1>1, <1>2, <1>4, <2>1, <2>3, <2>4, Advance DEF Hear, Drives
  <2> QED BY <1>1, <2>1, <2>2, <2>5, OneRun DEF Drives, Hear
<1> QED BY <1>3, <1>4 DEF Hear

LEMMA GiveKeeps ==
    ASSUME RecipesInv, NEW r \in Runs, Give(r)
    PROVE  RecipesInv'
<1> USE RecipesAssumption
<1>1. RecipesShape /\ RunInv(r) /\ driver[r] = "waiting"
  BY DEF RecipesInv, Give
<1>2. index[r] \in Index /\ index[r] <= Steps
  BY <1>1 DEF RecipesShape, RunInv, RunPlaced, Index
<1>3. RecipesShape'
  <2>1. status' \in [Runs -> [Index -> {"pending", "running", "skipped"} \cup Finals]]
    BY <1>1, <1>2, TwoDeep DEF RecipesShape, Give, MarkStep, Finals
  <2>2. index[r] + 1 \in 1 .. Steps + 1
    BY <1>2 DEF Index
  <2> QED BY <1>1, <2>1, <2>2 DEF RecipesShape, Give, Onward, At
<1>4. \A q \in Runs \ {r} : Untouched(q)
  BY <1>1 DEF RecipesShape, Give, MarkStep, Onward, At, Untouched
<1>5. \A i \in Index : status'[r][i] = IF i = index[r] THEN "stopped" ELSE status[r][i]
  BY <1>1, <1>2 DEF RecipesShape, Give, MarkStep
<1>6. driver'[r] = "between" /\ index'[r] = index[r] + 1
  BY <1>1 DEF RecipesShape, Give, Onward, At
<1>7. RunInv(r)'
  <2>1. heard'[r] = Silence /\ UNCHANGED took
    BY DEF Give
  <2> QED BY <1>1, <1>2, <1>3, <1>5, <1>6, <2>1, Advance DEF Give, Drives
<1> QED BY <1>1, <1>3, <1>4, <1>7, OneRun DEF Drives, Give

-----------------------------------------------------------------------------
(* A step of a recipe under way.                                           *)

LEMMA ComposeKeeps ==
    ASSUME RecipesInv, NEW r \in Runs, Compose(r)
    PROVE  RecipesInv'
<1> USE RecipesAssumption
<1>0. RecipesShape /\ RunInv(r) /\ driver[r] = "between" /\ index[r] <= Steps
  BY DEF RecipesInv, Compose
<1>1. RecipesShape /\ RunInv(r) /\ driver[r] = "between" /\ index[r] \in Index
  <2>1. index[r] \in Index
    BY <1>0 DEF RecipesShape, Index
  <2> QED BY <1>0, <2>1
<1>2. RecipesShape'
  <2>1. status' \in [Runs -> [Index -> {"pending", "running", "skipped"} \cup Finals]]
    BY <1>1, TwoDeep DEF RecipesShape, Compose, MarkStep
  <2>2. built' \in [Runs -> [Index -> SUBSET Prompts]]
    BY <1>1, TwoDeep DEF RecipesShape, Compose
  <2> QED BY <1>1, <2>1, <2>2 DEF RecipesShape, Compose, At
<1>3. \A q \in Runs \ {r} : Untouched(q)
  BY <1>1 DEF RecipesShape, Compose, MarkStep, At, Untouched
<1>4. /\ \A i \in Index : status'[r][i] = IF i = index[r] THEN "running" ELSE status[r][i]
      /\ \A i \in Index : built'[r][i] = IF i = index[r] THEN previous[r] ELSE built[r][i]
      /\ driver'[r] = "opening" /\ ~halted[r] /\ ~stop[r]
      /\ UNCHANGED <<index, record, stop, halted, sessions, previous, took, chat, turns, heard>>
  BY <1>1 DEF RecipesShape, Compose, MarkStep, At
<1>5. RunInv(r)'
  <2>1. RunRecorded(r)'
    BY <1>1, <1>4 DEF RunInv, RunRecorded, Drives
  <2>2. RunPlaced(r)'
    BY <1>1, <1>4 DEF RunInv, RunPlaced, Index
  <2>3. RunExcused(r)'
    BY <1>1, <1>4 DEF RunInv, RunExcused, RunPlaced
  <2>4. RunBuilds(r)'
    <3>1. ASSUME NEW i \in Index, status'[r][i] \notin {"pending", "skipped"}
          PROVE  built'[r][i] = Reply(r, i)'
      <4>1. i \in Int /\ index[r] \in Int /\ i <= index[r]
        BY <1>1, <1>4, <3>1 DEF RunInv, RunPlaced, Index
      <4>2. i > 1 => i - 1 \in Index /\ i - 1 # index[r]
        BY <4>1 DEF Index
      <4>3. i # index[r] => built[r][i] = Reply(r, i)
        BY <1>1, <1>4, <3>1 DEF RunInv, RunBuilds
      <4>4. previous[r] = Reply(r, index[r])
        BY <1>1, <1>4 DEF RunInv, RunBuilds
      <4> QED BY <1>4, <4>2, <4>3, <4>4 DEF Reply
    <3> QED BY <1>4, <3>1 DEF RunBuilds
  <2>5. RunCarries(r)'
    BY <1>1, <1>4 DEF RunInv, RunCarries, Compose
  <2>6. RunBounded(r)'
    BY <1>1, <1>4 DEF RunInv, RunBounded
  <2>7. RunSays(r)'
    BY <1>1, <1>4 DEF RunInv, RunSays, RunRecorded, Drives
  <2>8. RunAsks(r)' /\ RunHears(r)'
    BY <1>1, <1>4 DEF RunInv, RunAsks, Asked, RunHears
  <2>9. RunTakes(r)'
    BY <1>1, <1>4 DEF RunInv, RunTakes, RunPlaced
  <2> QED BY <2>1, <2>2, <2>3, <2>4, <2>5, <2>6, <2>7, <2>8, <2>9 DEF RunInv
<1> QED BY <1>1, <1>2, <1>3, <1>5, OneRun DEF Compose, Drives

\* The session of the step in hand, and its chat, once it has one.
LEMMA Opened ==
    ASSUME RecipesInv, NEW r \in Runs, RecipesShape',
           driver[r] = "opening", driver'[r] = "sending",
           NEW s \in Index,
           \/ recipe[index[r]].conversation = "new" /\ s = index[r]
           \/ index[r] > 1 /\ s = sessions[r][index[r] - 1],
           sessions' = [sessions EXCEPT ![r][index[r]] = s],
           \A i \in Index : chat'[r][i] = chat[r][i] \/ chat'[r][i] = "open",
           UNCHANGED <<recipe, record, stop, status, index, previous, halted, built, took, turns,
                       heard>>
    PROVE  RunInv(r)'
<1> USE RecipesAssumption
<1>0. RecipesShape /\ RunInv(r)
  BY DEF RecipesInv
<1>1. RecipesShape /\ RunInv(r) /\ index[r] \in Index
  <2>1. index[r] \in Index
    BY <1>0 DEF RecipesShape, RunInv, RunPlaced, Index
  <2> QED BY <1>0, <2>1
<1>2. \A i \in Index : sessions'[r][i] = IF i = index[r] THEN s ELSE sessions[r][i]
  BY <1>1 DEF RecipesShape
<1>3. RunRecorded(r)'
  BY <1>1 DEF RunInv, RunRecorded, Drives
<1>4. RunPlaced(r)'
  BY <1>1, <1>2 DEF RunInv, RunPlaced, Index
<1>5. RunExcused(r)'
  BY <1>1 DEF RunInv, RunExcused
<1>6. RunBuilds(r)'
  BY <1>1 DEF RunInv, RunBuilds, Reply
<1>7. RunCarries(r)'
  <2> SUFFICES ASSUME NEW i \in Index \ {1}, recipe[i].conversation = "continue",
                      sessions'[r][i] # 0
               PROVE  sessions'[r][i] = sessions'[r][i - 1]
    BY DEF RunCarries
  <2>1. i \in Int /\ index[r] \in Int /\ i - 1 \in Index
    BY <1>1 DEF Index
  <2>2. i <= index[r]
    BY <1>1, <1>2, <2>1 DEF RunInv, RunPlaced
  <2> QED BY <1>1, <1>2, <2>1, <2>2 DEF RunInv, RunCarries
<1>8. RunBounded(r)'
  BY <1>1 DEF RunInv, RunBounded, RecipesShape
<1>9. RunSays(r)'
  BY <1>1 DEF RunInv, RunSays
<1>10. RunAsks(r)'
  <2>1. ASSUME NEW c \in Index, NEW x \in Index, Asked(r, x, c)
        PROVE  Asked(r, x, c)'
    <3>1. x # index[r]
      BY <2>1 DEF Asked
    <3> QED BY <1>2, <2>1, <3>1 DEF Asked
  <2> QED BY <1>1, <2>1 DEF RunInv, RunAsks
<1>11. RunHears(r)'
  <2>1. heard[r] = Silence
    BY <1>1 DEF RunInv, RunHears
  <2> QED BY <2>1 DEF RunHears, Silence
<1>12. RunTakes(r)'
  <2> SUFFICES ASSUME NEW i \in Index, NEW x \in took[r][i] \ {0}
               PROVE  sessions'[r][x] = sessions'[r][i]
    BY <1>1 DEF RunInv, RunTakes
  <2>1. status[r][i] = "done" /\ x <= i /\ sessions[r][x] = sessions[r][i] /\ x \in Index
    BY <1>1 DEF RunInv, RunTakes, RecipesShape, Prompts, Index
  <2>2. i < index[r]
    BY <1>1, <2>1 DEF RunInv, RunPlaced, Index
  <2> QED BY <1>1, <1>2, <2>1, <2>2 DEF Index
<1> QED BY <1>3, <1>4, <1>5, <1>6, <1>7, <1>8, <1>9, <1>10, <1>11, <1>12 DEF RunInv

LEMMA OpenOwnKeeps ==
    ASSUME RecipesInv, NEW r \in Runs, OpenOwn(r)
    PROVE  RecipesInv'
<1> USE RecipesAssumption
<1>0. RecipesShape /\ RunInv(r) /\ driver[r] = "opening"
  BY DEF RecipesInv, OpenOwn
<1>1. RecipesShape /\ RunInv(r) /\ driver[r] = "opening" /\ index[r] \in Index
  <2>1. index[r] \in Index
    BY <1>0 DEF RecipesShape, RunInv, RunPlaced, Index
  <2> QED BY <1>0, <2>1
<1>2. CASE Fail(r) /\ UNCHANGED <<sessions, chat>>
  BY <1>1, <1>2, FailKeeps DEF OpenOwn
<1>3. CASE ~(Fail(r) /\ UNCHANGED <<sessions, chat>>)
  <2>1. /\ sessions' = [sessions EXCEPT ![r][index[r]] = index[r]]
        /\ chat' = [chat EXCEPT ![r][index[r]] = "open"]
        /\ driver' = [driver EXCEPT ![r] = "sending"]
        /\ recipe[index[r]].conversation = "new"
        /\ UNCHANGED <<recipe, record, stop, status, index, previous, halted, built, took, turns,
                       heard>>
    BY <1>3 DEF OpenOwn, At
  <2>2. RecipesShape'
    <3>1. sessions' \in [Runs -> [Index -> 0 .. Steps]]
      <4>1. index[r] \in 0 .. Steps
        BY <1>1 DEF Index
      <4> QED BY <1>1, <2>1, <4>1, TwoDeep DEF RecipesShape
    <3>2. chat' \in [Runs -> [Index -> {"unopened", "open", "closed"}]]
      BY <1>1, <2>1, TwoDeep DEF RecipesShape
    <3> QED BY <1>1, <2>1, <3>1, <3>2 DEF RecipesShape
  <2>3. \A q \in Runs \ {r} : Untouched(q)
    BY <1>1, <2>1 DEF RecipesShape, Untouched
  <2>4. driver'[r] = "sending" /\ \A i \in Index : chat'[r][i] = chat[r][i] \/ chat'[r][i] = "open"
    BY <1>1, <2>1 DEF RecipesShape
  <2>5. RunInv(r)'
    BY <1>1, <2>1, <2>2, <2>4, Opened
  <2> QED BY <1>1, <2>1, <2>2, <2>3, <2>5, OneRun DEF Drives
<1> QED BY <1>2, <1>3

LEMMA CarryOnKeeps ==
    ASSUME RecipesInv, NEW r \in Runs, CarryOn(r)
    PROVE  RecipesInv'
<1> USE RecipesAssumption
<1>0. RecipesShape /\ RunInv(r) /\ driver[r] = "opening"
  BY DEF RecipesInv, CarryOn
<1>1. RecipesShape /\ RunInv(r) /\ driver[r] = "opening" /\ index[r] \in Index
  <2>1. index[r] \in Index
    BY <1>0 DEF RecipesShape, RunInv, RunPlaced, Index
  <2> QED BY <1>0, <2>1
<1>2. CASE ~Open(r, sessions[r][index[r] - 1])
  BY <1>1, <1>2, FailKeeps DEF CarryOn
<1>3. CASE Open(r, sessions[r][index[r] - 1])
  <2> DEFINE s == sessions[r][index[r] - 1]
  <2>1. /\ Open(r, s)
        /\ sessions' = [sessions EXCEPT ![r][index[r]] = s]
        /\ driver' = [driver EXCEPT ![r] = "sending"]
        /\ recipe[index[r]].conversation = "continue"
        /\ UNCHANGED <<recipe, record, stop, status, index, previous, halted, built, took, chat,
                       turns, heard>>
    BY <1>3 DEF CarryOn, At
  <2>2. index[r] > 1 /\ index[r] - 1 \in Index
    BY <1>1, <2>1, SMTT(30) DEF RecipesShape, Index
  <2>3. s \in Index /\ s \in 0 .. Steps
    <3>1. s \in 0 .. Steps /\ s # 0
      BY <1>1, <2>1, <2>2 DEF RecipesShape, Open
    <3> QED BY <3>1 DEF Index
  <2>4. RecipesShape'
    <3>1. sessions' \in [Runs -> [Index -> 0 .. Steps]]
      <4>1. sessions \in [Runs -> [Index -> 0 .. Steps]]
        BY <1>1 DEF RecipesShape
      <4> HIDE DEF s
      <4> QED BY <1>1, <2>1, <2>3, <4>1, TwoDeep
    <3> QED BY <1>1, <2>1, <3>1 DEF RecipesShape
  <2>5. \A q \in Runs \ {r} : Untouched(q)
    BY <1>1, <2>1 DEF RecipesShape, Untouched
  <2>6. driver'[r] = "sending"
    BY <1>1, <2>1 DEF RecipesShape
  <2>7. RunInv(r)'
    BY <1>1, <2>1, <2>2, <2>3, <2>4, <2>6, Opened
  <2> QED BY <1>1, <2>1, <2>4, <2>5, <2>7, OneRun DEF Drives
<1> QED BY <1>2, <1>3

LEMMA SendKeeps ==
    ASSUME RecipesInv, NEW r \in Runs, Send(r)
    PROVE  RecipesInv'
<1> USE RecipesAssumption
<1>0. RecipesShape /\ RunInv(r) /\ driver[r] = "sending"
  BY DEF RecipesInv, Send
<1>1. index[r] \in Index
  BY <1>0 DEF RecipesShape, RunInv, RunPlaced, Index
<1> DEFINE s == sessions[r][index[r]]
<1>2. CASE Fail(r) /\ UNCHANGED turns
  BY <1>0, <1>2, FailKeeps DEF Send
<1>3. CASE ~(Fail(r) /\ UNCHANGED turns)
  <2>1. /\ Open(r, s)
        /\ turns' = [turns EXCEPT ![r][s] = Append(@, index[r])]
        /\ driver' = [driver EXCEPT ![r] = "waiting"]
        /\ UNCHANGED <<recipe, record, stop, status, index, previous, halted, sessions, built,
                       took, chat, heard>>
    BY <1>3 DEF Send, At
  <2>2. s \in Index
    <3>1. s \in 0 .. Steps /\ s # 0
      BY <1>0, <1>1, <2>1 DEF RecipesShape, Open
    <3> QED BY <3>1 DEF Index
  <2> HIDE DEF s
  <2>3. turns[r][s] \in Seq(Prompts) /\ index[r] \in Prompts
    BY <1>0, <1>1, <2>2, SMTT(30) DEF RecipesShape, Index, Prompts
  <2>4. Append(turns[r][s], index[r]) \in Seq(Prompts)
    BY <2>3
  <2>5. RecipesShape'
    <3>1. turns' \in [Runs -> [Index -> Seq(Prompts)]]
      BY <1>0, <2>1, <2>2, <2>4, TwoDeep, SMTT(30) DEF RecipesShape
    <3> QED BY <1>0, <2>1, <3>1 DEF RecipesShape
  <2>6. \A q \in Runs \ {r} : Untouched(q)
    BY <1>0, <2>1 DEF RecipesShape, Untouched
  <2>7. /\ driver'[r] = "waiting"
        /\ \A i \in Index :
              turns'[r][i] = IF i = s THEN Append(turns[r][i], index[r]) ELSE turns[r][i]
    BY <1>0, <2>1, <2>2 DEF RecipesShape
  <2>8. RunInv(r)'
    <3>1. RunRecorded(r)'
      BY <1>0, <2>1, <2>7 DEF RunInv, RunRecorded, Drives
    <3>2. RunPlaced(r)'
      BY <1>0, <2>1, <2>7 DEF RunInv, RunPlaced
    <3>3. RunExcused(r)' /\ RunSays(r)'
      BY <1>0, <2>1, <2>7 DEF RunInv, RunExcused, RunSays
    <3>4. RunBuilds(r)' /\ RunCarries(r)'
      BY <1>0, <2>1, <2>7 DEF RunInv, RunBuilds, RunCarries, Reply
    <3>5. RunBounded(r)'
      <4> SUFFICES ASSUME NEW i \in Index
                   PROVE  /\ Len(turns'[r][i]) <= MaxTurns + index[r]
                          /\ turns'[r][i] # <<>> => chat[r][i] = "open"
        BY <2>1, <2>7 DEF RunBounded
      <4>1. /\ Len(turns[r][i]) <= MaxTurns + (index[r] - 1)
            /\ turns[r][i] # <<>> => chat[r][i] = "open"
            /\ turns[r][i] \in Seq(Prompts)
        BY <1>0 DEF RunInv, RunBounded, RecipesShape
      <4>2. Len(Append(turns[r][i], index[r])) = Len(turns[r][i]) + 1
            /\ Len(turns[r][i]) \in Nat
        BY <4>1
      <4>3. \/ turns'[r][i] = turns[r][i]
            \/ turns'[r][i] = Append(turns[r][i], index[r]) /\ i = s
        BY <2>7
      <4>4. chat[r][s] = "open" /\ MaxTurns \in Nat /\ index[r] \in Nat
        BY <1>1, <2>1 DEF Open, Index
      <4> QED BY <4>1, <4>2, <4>3, <4>4
    <3>6. heard[r] = Silence /\ heard[r].of = {} /\ \A j \in Index : index[r] \notin took[r][j]
      <4>1. heard[r] = Silence
        BY <1>0 DEF RunInv, RunHears
      <4>2. ASSUME NEW j \in Index, index[r] \in took[r][j] PROVE FALSE
        BY <1>0, <1>1, <4>2 DEF RunInv, RunTakes, RunPlaced, Index
      <4> QED BY <4>1, <4>2 DEF Silence
    <3>7. RunHears(r)' /\ RunTakes(r)'
      <4>1. RunHears(r)'
        BY <2>1, <3>6 DEF RunHears, Silence
      <4>2. RunTakes(r)'
        BY <1>0, <2>1 DEF RunInv, RunTakes
      <4> QED BY <4>1, <4>2
    <3>8. RunAsks(r)'
      <4>1. ASSUME NEW c \in Index, NEW x \in Index, NEW k \in 1 .. Len(turns[r][c]),
                   turns[r][c][k] = x
            PROVE  /\ Asked(r, x, c)' /\ x # index[r]
                   /\ \A j \in 1 .. Len(turns[r][c]) : turns[r][c][j] = x => j = k
        <5>1. /\ Asked(r, x, c)
              /\ \A j \in 1 .. Len(turns[r][c]) : turns[r][c][j] = x => j = k
          BY <1>0, <4>1 DEF RunInv, RunAsks
        <5> QED BY <1>0, <2>1, <2>7, <5>1 DEF Asked
      <4>2. ASSUME NEW x \in Index, x = index[r], s = sessions[r][x], NEW c, c = s
            PROVE  Asked(r, x, c)'
        BY <1>1, <2>1, <2>7, <3>6, <4>2 DEF Asked, Index
      <4>3. ASSUME NEW c \in Index, NEW x \in Index, NEW k \in 1 .. Len(turns'[r][c]),
                   turns'[r][c][k] = x
            PROVE  /\ Asked(r, x, c)'
                   /\ \A j \in 1 .. Len(turns'[r][c]) : turns'[r][c][j] = x => j = k
        <5>1. CASE c # s
          <6>1. turns'[r][c] = turns[r][c]
            BY <2>7, <5>1
          <6> QED BY <4>1, <4>3, <6>1
        <5>2. CASE c = s
          <6> DEFINE t == turns[r][c]
          <6>1. t \in Seq(Prompts) /\ turns'[r][c] = Append(t, index[r])
            BY <2>3, <2>7, <5>2
          <6>2. \A j \in 1 .. Len(t) : t[j] = x =>
                   Asked(r, x, c)' /\ x # index[r] /\ \A m \in 1 .. Len(t) : t[m] = x => m = j
            BY <4>1
          <6> HIDE DEF t
          <6>3. /\ Len(turns'[r][c]) = Len(t) + 1 /\ Len(t) \in Nat
                /\ \A j \in 1 .. Len(t) : turns'[r][c][j] = t[j]
                /\ turns'[r][c][Len(t) + 1] = index[r]
            BY <2>3, <6>1
          <6>4. \A j \in 1 .. Len(turns'[r][c]) : j \in 1 .. Len(t) \/ j = Len(t) + 1
            BY <6>3
          <6>5. CASE k \in 1 .. Len(t)
            BY <4>3, <6>2, <6>3, <6>4, <6>5
          <6>6. CASE k = Len(t) + 1
            <7>1. x = index[r]
              BY <4>3, <6>3, <6>6
            <7>2. Asked(r, x, c)'
              BY <4>2, <5>2, <7>1 DEF s
            <7>3. \A j \in 1 .. Len(t) : t[j] # x
              BY <6>2, <7>1
            <7> QED BY <6>3, <6>4, <6>6, <7>2, <7>3
          <6> QED BY <4>3, <6>4, <6>5, <6>6
        <5> QED BY <5>1, <5>2
      <4> QED BY <4>3 DEF RunAsks
    <3> QED BY <3>1, <3>2, <3>3, <3>4, <3>5, <3>7, <3>8 DEF RunInv
  <2> QED BY <1>0, <2>1, <2>5, <2>6, <2>8, OneRun DEF Drives
<1> QED BY <1>2, <1>3

-----------------------------------------------------------------------------
(* The registry, and the sessions.                                         *)

LEMMA StartKeeps ==
    ASSUME RecipesInv, NEW r \in Runs, Start(r)
    PROVE  RecipesInv'
<1> USE RecipesAssumption
<1>1. RecipesShape
  BY DEF RecipesInv
<1>2. \A q \in Runs : RunInv(q) /\ ~Drives(q)
  BY DEF RecipesInv, RunInv, RunRecorded, Start, Admit
<1>3. RecipesShape'
  <2>1. record' \in [Runs -> {"none", "running", "gone"} \cup Finals]
    BY <1>1 DEF RecipesShape, Start, Admit
  <2> QED BY <1>1, <2>1 DEF RecipesShape, Start, Admit, At, runVars
<1>4. PICK d \in {"between", "never"} :
      /\ \A q \in Runs : driver'[q] = IF q = r THEN d ELSE driver[q]
      /\ \A q \in Runs : record'[q] = IF q = r THEN "running"
                           ELSE IF record[q] \in Finals THEN "gone" ELSE record[q]
      /\ UNCHANGED <<recipe, stop, runVars, chat, turns, heard>>
      /\ record[r] = "none" /\ driver[r] = "none"
  <2>1. PICK d \in {"between", "never"} : driver' = [driver EXCEPT ![r] = d]
    BY DEF Start, At
  <2> QED BY <1>1, <2>1 DEF RecipesShape, Start, Admit
<1>5. ASSUME NEW q \in Runs
      PROVE  RunInv(q)'
  <2>1. RunRecorded(q)'
    BY <1>2, <1>4 DEF RunInv, RunRecorded, Drives, Finals
  <2>2. RunPlaced(q)'
    BY <1>2, <1>4 DEF RunInv, RunPlaced, runVars
  <2>3. RunExcused(q)'
    BY <1>2, <1>4 DEF RunInv, RunExcused, runVars
  <2>4. RunBuilds(q)'
    <3>1. UNCHANGED <<status, stop, index, previous, built, took, halted>>
      BY <1>4 DEF runVars
    <3>2. CASE q = r
      <4>1. index[q] = 1 /\ previous[q] = {} /\ \A i \in Index : status[q][i] = "pending"
        BY <1>2, <1>4, <3>2 DEF RunInv, RunPlaced, Index
      <4> QED BY <3>1, <4>1 DEF RunBuilds, Reply
    <3>3. CASE q # r
      BY <1>2, <1>4, <3>1, <3>3 DEF RunInv, RunBuilds, Reply
    <3> QED BY <3>2, <3>3
  <2>5. RunCarries(q)'
    BY <1>2, <1>4 DEF RunInv, RunCarries, runVars
  <2>6. RunBounded(q)'
    BY <1>2, <1>4 DEF RunInv, RunBounded, runVars
  <2>7. RunSays(q)'
    BY <1>2, <1>4 DEF RunInv, RunSays, runVars
  <2>8. RunAsks(q)' /\ RunHears(q)' /\ RunTakes(q)'
    BY <1>2, <1>4 DEF RunInv, RunAsks, Asked, RunHears, RunTakes, runVars
  <2> QED BY <2>1, <2>2, <2>3, <2>4, <2>5, <2>6, <2>7, <2>8 DEF RunInv
<1>6. \A p, q \in Runs : Drives(p)' /\ Drives(q)' => p = q
  BY <1>2, <1>4 DEF Drives
<1> QED BY <1>3, <1>5, <1>6 DEF RecipesInv

LEMMA StopRunKeeps ==
    ASSUME RecipesInv, NEW r \in Runs, StopRun(r)
    PROVE  RecipesInv'
<1>1. RecipesShape /\ RunInv(r)
  BY DEF RecipesInv
<1>2. RecipesShape'
  BY <1>1 DEF RecipesShape, StopRun, runVars
<1>3. \A q \in Runs \ {r} : Untouched(q)
  BY <1>1 DEF RecipesShape, StopRun, runVars, Untouched
<1>4. stop'[r] /\ UNCHANGED <<recipe, record, driver, runVars, chat, turns, heard>>
  BY <1>1 DEF RecipesShape, StopRun
<1>5. RunInv(r)'
  BY <1>1, <1>4 DEF runVars, RunInv, RunRecorded, RunPlaced, RunExcused, RunBuilds, RunCarries,
     RunBounded, RunSays, RunAsks, Asked, RunHears, RunTakes, Reply, Drives
<1> QED BY <1>2, <1>3, <1>4, <1>5, OneRun DEF Drives

LEMMA DismissRunKeeps ==
    ASSUME RecipesInv, NEW r \in Runs, DismissRun(r)
    PROVE  RecipesInv'
<1>1. RecipesShape /\ RunInv(r)
  BY DEF RecipesInv
<1>2. RecipesShape'
  BY <1>1 DEF RecipesShape, DismissRun, runVars
<1>3. \A q \in Runs \ {r} : Untouched(q)
  BY <1>1 DEF RecipesShape, DismissRun, runVars, Untouched
<1>4. /\ record'[r] = "gone" /\ record[r] \in Finals
      /\ UNCHANGED <<recipe, stop, driver, runVars, chat, turns, heard>>
  BY <1>1 DEF RecipesShape, DismissRun
<1>5. RunInv(r)'
  <2>1. record[r] # "running" /\ record[r] # "none" /\ ~Drives(r)
    BY <1>1, <1>4 DEF Finals, RunInv, RunRecorded
  <2>2. RunRecorded(r)'
    BY <1>1, <1>4, <2>1 DEF RunInv, RunRecorded, Drives
  <2>3. RunPlaced(r)' /\ RunExcused(r)' /\ RunBuilds(r)' /\ RunCarries(r)' /\ RunBounded(r)'
    BY <1>1, <1>4 DEF runVars, RunInv, RunPlaced, RunExcused, RunBuilds, RunCarries, RunBounded,
       Reply
  <2>4. RunSays(r)' /\ RunAsks(r)' /\ RunHears(r)' /\ RunTakes(r)'
    BY <1>1, <1>4 DEF runVars, RunInv, RunSays, RunAsks, Asked, RunHears, RunTakes
  <2> QED BY <2>2, <2>3, <2>4 DEF RunInv
<1> QED BY <1>2, <1>3, <1>4, <1>5, OneRun DEF Drives

LEMMA FinishKeeps ==
    ASSUME RecipesInv, NEW r \in Runs, Finish(r)
    PROVE  RecipesInv'
<1> USE RecipesAssumption
<1>1. RecipesShape /\ RunInv(r) /\ driver[r] = "between"
  BY DEF RecipesInv, Finish
<1>2. RecipesShape'
  <2>1. record' \in [Runs -> {"none", "running", "gone"} \cup Finals]
    BY <1>1 DEF RecipesShape, Finish, Finals
  <2> QED BY <1>1, <2>1 DEF RecipesShape, Finish, At, runVars
<1>3. \A q \in Runs \ {r} : Untouched(q)
  BY <1>1 DEF RecipesShape, Finish, At, runVars, Untouched
<1>4. /\ record'[r] = IF stop[r] THEN "stopped"
                      ELSE IF \E i \in Index : status[r][i] = "failed" THEN "failed" ELSE "done"
      /\ driver'[r] = "over" /\ index[r] = Steps + 1
      /\ UNCHANGED <<recipe, stop, runVars, chat, turns, heard>>
  BY <1>1 DEF RecipesShape, Finish, At
<1>5. RunInv(r)'
  <2>1. RunRecorded(r)'
    BY <1>1, <1>4 DEF RunInv, RunRecorded, Drives
  <2>2. RunPlaced(r)'
    BY <1>1, <1>4 DEF RunInv, RunPlaced, runVars, Index
  <2>3. RunExcused(r)' /\ RunCarries(r)'
    BY <1>1, <1>4 DEF RunInv, RunExcused, RunCarries, runVars
  <2>4. RunBuilds(r)'
    BY <1>1, <1>4 DEF RunInv, RunBuilds, Reply, runVars
  <2>5. RunBounded(r)'
    BY <1>1, <1>4 DEF RunInv, RunBounded, runVars
  <2>6. RunSays(r)'
    <3>1. ASSUME record'[r] = "done", NEW i \in Index
          PROVE  status[r][i] = "done"
      <4>1. ~stop[r] /\ status[r][i] # "failed" /\ ~halted[r]
        BY <1>1, <1>4, <3>1 DEF RunInv, RunExcused
      <4>2. status[r][i] \notin {"pending", "running", "skipped", "stopped"}
        BY <1>1, <1>4, <4>1 DEF RunInv, RunPlaced, RunExcused, Index
      <4>3. status[r][i] \in {"pending", "running", "skipped"} \cup Finals
        BY <1>1 DEF RecipesShape
      <4> QED BY <4>1, <4>2, <4>3 DEF Finals
    <3>2. record'[r] = "failed" => \E i \in Index : status[r][i] = "failed"
      BY <1>4
    <3> QED BY <1>4, <3>1, <3>2 DEF RunSays, runVars
  <2>7. RunAsks(r)' /\ RunHears(r)' /\ RunTakes(r)'
    BY <1>1, <1>4 DEF RunInv, RunAsks, Asked, RunHears, RunTakes, runVars
  <2> QED BY <2>1, <2>2, <2>3, <2>4, <2>5, <2>6, <2>7 DEF RunInv
<1> QED BY <1>1, <1>2, <1>3, <1>4, <1>5, OneRun DEF Finish, Drives

\* What a session does reaches a run through what its wait hears, and no further.
LEMMA SessionKeeps ==
    ASSUME RecipesInv, NEW r \in Runs, NEW s \in Index,
           TurnEnds(r, s) \/ Types(r, s) \/ Closes(r, s)
    PROVE  RecipesInv'
<1> USE RecipesAssumption
<1>1. RecipesShape /\ RunInv(r)
  BY DEF RecipesInv
<1>2. turns[r][s] \in Seq(Prompts) /\ 0 \in Prompts
  BY <1>1 DEF RecipesShape, Prompts
<1>3. UNCHANGED <<recipe, record, stop, driver, runVars>>
  BY DEF TurnEnds, Types, Closes
<1> DEFINE q == turns[r][s]
<1> DEFINE Heard == [how : {"nothing", "reply", "failure"}, of : SUBSET Prompts]
<1>11. /\ q \in Seq(Prompts) /\ Len(q) \in Nat /\ DOMAIN q = 1 .. Len(q)
       /\ \A k \in 1 .. Len(q) : q[k] \in Prompts
  BY <1>2
<1>12. \A x \in Index : \A k \in 1 .. Len(q) : q[k] = x =>
         /\ Asked(r, x, s)
         /\ \A j \in 1 .. Len(q) : q[j] = x => j = k
  BY <1>1 DEF RunInv, RunAsks
<1> HIDE DEF q
\* What the step leaves of the queue, and what the wait hears.
<1>13. \E n \in 0 .. Len(q), o \in Heard :
         /\ \/ heard' = heard
            \/ /\ heard' = [heard EXCEPT ![r] = o] /\ heard[r] = Silence
               /\ driver[r] = "waiting" /\ sessions[r][index[r]] = s
               /\ o.how = "reply" => o.of # {}
         /\ o.of = {q[k] : k \in 1 .. n} \/ o.of = {}
         /\ \/ turns' = [turns EXCEPT ![r][s] = SubSeq(q, n + 1, Len(q))]
            \/ turns' = [turns EXCEPT ![r][s] = <<>>]
            \/ Types(r, s)
  <2> DEFINE failure == [how |-> "failure", of |-> {}]
  <2>1. failure \in Heard /\ failure.how = "failure" /\ failure.of = {} /\ 0 \in 0 .. Len(q)
    BY <1>11
  <2>2. CASE TurnEnds(r, s)
    <3>1. PICK n \in 1 .. Len(q) :
             /\ \/ Settles(r, s, [how |-> "reply", of |-> {q[k] : k \in 1 .. n}])
                \/ Settles(r, s, failure)
             /\ turns' = [turns EXCEPT ![r][s] = SubSeq(q, n + 1, Len(q))]
      BY <1>11, <2>2 DEF TurnEnds, q
    <3> DEFINE reply == [how |-> "reply", of |-> {q[k] : k \in 1 .. n}]
    <3>2. reply \in Heard /\ reply.of = {q[k] : k \in 1 .. n} /\ n \in 0 .. Len(q)
      BY <1>11
    <3>3. q[1] \in reply.of
      BY <1>11
    <3>4. CASE Settles(r, s, reply)
      <4> HIDE DEF reply, Heard, failure
      <4> QED BY <3>1, <3>2, <3>3, <3>4 DEF Settles
    <3>5. CASE Settles(r, s, failure)
      <4> HIDE DEF reply, Heard, failure
      <4> QED BY <2>1, <3>1, <3>2, <3>5 DEF Settles
    <3> QED BY <3>1, <3>4, <3>5
  <2>3. CASE Types(r, s)
    <3> HIDE DEF Heard, failure
    <3> QED BY <2>1, <2>3 DEF Types, q
  <2>4. CASE Closes(r, s)
    <3> HIDE DEF Heard
    <3>1. Settles(r, s, failure) /\ turns' = [turns EXCEPT ![r][s] = <<>>]
      BY <2>4 DEF Closes
    <3> HIDE DEF failure
    <3> QED BY <2>1, <3>1 DEF Settles
  <2> QED BY <2>2, <2>3, <2>4
<1>14. PICK n \in 0 .. Len(q), o \in Heard :
         /\ \/ heard' = heard
            \/ /\ heard' = [heard EXCEPT ![r] = o] /\ heard[r] = Silence
               /\ driver[r] = "waiting" /\ sessions[r][index[r]] = s
               /\ o.how = "reply" => o.of # {}
         /\ o.of = {q[k] : k \in 1 .. n} \/ o.of = {}
         /\ \/ turns' = [turns EXCEPT ![r][s] = SubSeq(q, n + 1, Len(q))]
            \/ turns' = [turns EXCEPT ![r][s] = <<>>]
            \/ Types(r, s)
  BY <1>13
<1>4. /\ heard' \in [Runs -> Heard]
      /\ \A p \in Runs \ {r} : heard'[p] = heard[p]
      /\ heard'[r] = heard[r] \/ heard'[r] = o
  <2>1. heard \in [Runs -> Heard]
    BY <1>1 DEF RecipesShape
  <2> HIDE DEF Heard
  <2> QED BY <1>14, <2>1
<1>5. \E t \in Seq(Prompts) :
         /\ turns' = [turns EXCEPT ![r][s] = t]
         /\ Len(t) <= Len(q) \/ Len(t) <= MaxTurns
         /\ t # <<>> => chat'[r][s] = "open"
         /\ \A x \in Index : \A k \in 1 .. Len(t) : t[k] = x =>
               /\ Asked(r, x, s)
               /\ heard' # heard => x \notin o.of
               /\ \A j \in 1 .. Len(t) : t[j] = x => j = k
  <2>1. CASE turns' = [turns EXCEPT ![r][s] = SubSeq(q, n + 1, Len(q))] /\ ~Closes(r, s)
    <3> DEFINE t == SubSeq(q, n + 1, Len(q))
    <3>1. /\ t \in Seq(Prompts) /\ Len(t) = Len(q) - n /\ n \in Nat
          /\ \A k \in 1 .. Len(t) : t[k] = q[n + k] /\ n + k \in 1 .. Len(q) /\ k \in Nat
      <4>1. n \in Nat /\ n <= Len(q) /\ n + 1 \in 1 .. Len(q) + 1
        BY <1>11
      <4>2. /\ t \in Seq(Prompts) /\ Len(t) = Len(q) - (n + 1) + 1
            /\ \A k \in 1 .. Len(q) - (n + 1) + 1 : t[k] = q[(n + 1) + k - 1]
        <5>1. /\ n + 1 \in Int /\ Len(q) \in Int
              /\ \A i \in n + 1 .. Len(q) : q[i] \in Prompts
          BY <1>11, <4>1
        <5>2. /\ t \in Seq(Prompts)
              /\ Len(t) = IF n + 1 <= Len(q) THEN Len(q) - (n + 1) + 1 ELSE 0
              /\ \A k \in 1 .. Len(q) - (n + 1) + 1 : t[k] = q[(n + 1) + k - 1]
          BY <5>1, SubSeqProperties
        <5> HIDE DEF t
        <5> QED BY <4>1, <5>1, <5>2
      <4> HIDE DEF t
      <4>3. ASSUME NEW k \in 1 .. Len(t)
            PROVE  t[k] = q[n + k] /\ n + k \in 1 .. Len(q) /\ k \in Nat
        <5>1. (n + 1) + k - 1 = n + k
          BY <4>1
        <5>2. k \in 1 .. Len(q) - (n + 1) + 1 /\ n + k \in 1 .. Len(q)
          BY <1>11, <4>1, <4>2
        <5> QED BY <4>2, <5>1, <5>2
      <4> QED BY <1>11, <4>1, <4>2, <4>3
    <3>6. turns' = [turns EXCEPT ![r][s] = t]
      BY <2>1
    <3> HIDE DEF t
    <3>2. q # <<>> => chat'[r][s] = "open"
      BY <1>1, <2>1 DEF q, RunInv, RunBounded, TurnEnds, Types, Open
    <3>3. t # <<>> => q # <<>>
      <4>1. q = <<>> => Len(t) = 0
        BY <1>11, <3>1
      <4> QED BY <3>1, <4>1
    <3>4. ASSUME NEW x \in Index, NEW k \in 1 .. Len(t), t[k] = x
          PROVE  /\ Asked(r, x, s) /\ x \notin o.of
                 /\ \A j \in 1 .. Len(t) : t[j] = x => j = k
      <4>1. t[k] = q[n + k] /\ n + k \in 1 .. Len(q)
        BY <3>1
      <4>2. x \notin o.of
        <5>1. ASSUME NEW j \in 1 .. n, q[j] = x PROVE FALSE
          <6>1. j \in 1 .. Len(q) /\ j # n + k
            BY <1>11, <3>1, <5>1
          <6> QED BY <1>12, <3>4, <4>1, <5>1, <6>1
        <5> QED BY <1>14, <5>1
      <4>3. ASSUME NEW j \in 1 .. Len(t), t[j] = x PROVE j = k
        <5>1. t[j] = q[n + j] /\ n + j \in 1 .. Len(q)
          BY <3>1
        <5>2. n + j = n + k
          BY <1>12, <3>4, <4>1, <4>3, <5>1
        <5>3. j \in Nat /\ k \in Nat /\ n \in Nat
          BY <3>1
        <5> QED BY <5>2, <5>3
      <4> QED BY <1>12, <3>4, <4>1, <4>2, <4>3
    <3>5. Len(t) <= Len(q)
      BY <1>11, <3>1
    <3> QED BY <3>1, <3>2, <3>3, <3>4, <3>5, <3>6
  <2>2. CASE Types(r, s)
    <3> DEFINE t == Append(q, 0)
    <3>1. /\ t \in Seq(Prompts) /\ Len(t) = Len(q) + 1
          /\ \A k \in 1 .. Len(t) : t[k] \in Index => k \in 1 .. Len(q) /\ t[k] = q[k]
      <4>1. 0 \notin Index
        BY DEF Index
      <4>2. t \in Seq(Prompts) /\ Len(t) = Len(q) + 1 /\ t[Len(q) + 1] = 0
            /\ \A k \in 1 .. Len(q) : t[k] = q[k]
        BY <1>2, <1>11
      <4> HIDE DEF t
      <4> QED BY <1>11, <4>1, <4>2
    <3>2. /\ chat'[r][s] = "open" /\ Len(q) < MaxTurns /\ heard' = heard
          /\ turns' = [turns EXCEPT ![r][s] = t]
      BY <2>2 DEF Types, Open, q
    <3> HIDE DEF t
    <3>3. Len(t) <= MaxTurns
      BY <1>11, <3>1, <3>2
    <3>4. ASSUME NEW x \in Index, NEW k \in 1 .. Len(t), t[k] = x
          PROVE  Asked(r, x, s) /\ \A j \in 1 .. Len(t) : t[j] = x => j = k
      BY <1>12, <3>1, <3>4
    <3> QED BY <3>1, <3>2, <3>3, <3>4
  <2>3. CASE turns' = [turns EXCEPT ![r][s] = <<>>]
    <3> DEFINE t == <<>>
    <3>1. t \in Seq(Prompts) /\ Len(t) = 0 /\ 1 .. 0 = {} /\ t = <<>>
      OBVIOUS
    <3>2. Len(t) <= Len(q)
      BY <1>11, <3>1
    <3> HIDE DEF t
    <3> QED BY <2>3, <3>1, <3>2
  <2>4. Closes(r, s) => turns' = [turns EXCEPT ![r][s] = <<>>]
    BY DEF Closes
  <2>5. \/ Types(r, s)
        \/ turns' = [turns EXCEPT ![r][s] = <<>>]
        \/ turns' = [turns EXCEPT ![r][s] = SubSeq(q, n + 1, Len(q))] /\ ~Closes(r, s)
    BY <1>14, <2>4
  <2> QED BY <2>1, <2>2, <2>3, <2>5
<1>6. PICK t \in Seq(Prompts) :
         /\ turns' = [turns EXCEPT ![r][s] = t]
         /\ Len(t) <= Len(q) \/ Len(t) <= MaxTurns
         /\ t # <<>> => chat'[r][s] = "open"
         /\ \A x \in Index : \A k \in 1 .. Len(t) : t[k] = x =>
               /\ Asked(r, x, s)
               /\ heard' # heard => x \notin o.of
               /\ \A j \in 1 .. Len(t) : t[j] = x => j = k
  BY <1>5
<1>7. chat' = chat \/ chat' = [chat EXCEPT ![r][s] = "closed"]
  BY DEF TurnEnds, Types, Closes
<1>8. RecipesShape'
  <2>1. turns' \in [Runs -> [Index -> Seq(Prompts)]]
    BY <1>1, <1>6, TwoDeep DEF RecipesShape
  <2>2. chat' \in [Runs -> [Index -> {"unopened", "open", "closed"}]]
    <3>1. chat \in [Runs -> [Index -> {"unopened", "open", "closed"}]]
      BY <1>1 DEF RecipesShape
    <3>2. [chat EXCEPT ![r][s] = "closed"] \in [Runs -> [Index -> {"unopened", "open", "closed"}]]
      BY <3>1, TwoDeep
    <3> QED BY <1>7, <3>1, <3>2
  <2> QED BY <1>1, <1>3, <1>4, <2>1, <2>2 DEF RecipesShape, runVars
<1>9. \A p \in Runs \ {r} : Untouched(p)
  <2> SUFFICES ASSUME NEW p \in Runs \ {r} PROVE Untouched(p)
    OBVIOUS
  <2>1. turns'[p] = turns[p] /\ chat'[p] = chat[p]
    BY <1>1, <1>6, <1>7 DEF RecipesShape
  <2> QED BY <1>3, <1>4, <2>1 DEF Untouched, runVars
<1>10. RunInv(r)'
  <2>1. \A i \in Index : /\ turns'[r][i] = IF i = s THEN t ELSE turns[r][i]
                         /\ i # s => chat'[r][i] = chat[r][i]
    BY <1>1, <1>6, <1>7, SMTT(30) DEF RecipesShape
  <2>2. RunRecorded(r)' /\ RunPlaced(r)' /\ RunExcused(r)' /\ RunBuilds(r)' /\ RunCarries(r)'
        /\ RunSays(r)'
    BY <1>1, <1>3 DEF RunInv, RunRecorded, RunPlaced, RunExcused, RunBuilds, RunCarries,
       RunSays, Reply, Drives, runVars
  <2>3. RunBounded(r)'
    <3> SUFFICES ASSUME NEW i \in Index
                 PROVE  /\ Len(turns'[r][i]) <=
                             MaxTurns + (IF driver[r] = "waiting" THEN index[r] ELSE index[r] - 1)
                        /\ turns'[r][i] # <<>> => chat'[r][i] = "open"
      BY <1>3 DEF RunBounded, runVars
    <3>1. /\ Len(turns[r][i]) <=
               MaxTurns + (IF driver[r] = "waiting" THEN index[r] ELSE index[r] - 1)
          /\ turns[r][i] # <<>> => chat[r][i] = "open"
          /\ Len(turns[r][i]) \in Nat /\ index[r] \in Nat /\ index[r] >= 1 /\ Len(t) \in Nat
      BY <1>1 DEF RunInv, RunBounded, RecipesShape
    <3> QED BY <1>6, <2>1, <3>1 DEF q
  <2>4. RunTakes(r)'
    BY <1>1, <1>3 DEF RunInv, RunTakes, runVars
  <2>5. ASSUME NEW x \in o.of \ {0}
        PROVE  x \in Index /\ Asked(r, x, s)
    <3>1. x \in Index
      BY <2>5 DEF Prompts, Index
    <3>2. PICK k \in 1 .. n : q[k] = x
      BY <1>14
    <3>3. k \in 1 .. Len(q)
      BY <1>11
    <3> QED BY <1>12, <3>1, <3>2, <3>3
  <2>6. RunHears(r)'
    <3>1. CASE heard' = heard
      BY <1>1, <1>3, <3>1 DEF RunInv, RunHears, runVars
    <3>2. CASE heard' # heard
      <4>1. /\ heard'[r] = o /\ driver[r] = "waiting" /\ sessions[r][index[r]] = s
            /\ o.how = "reply" => o.of # {}
        BY <1>1, <1>14, <3>2 DEF RecipesShape
      <4> QED BY <1>3, <2>5, <4>1 DEF RunHears, Asked, runVars
    <3> QED BY <3>1, <3>2
  <2>7. ASSUME NEW c \in Index, NEW x, Asked(r, x, c), heard' # heard => x \notin o.of
        PROVE  Asked(r, x, c)'
    <3>1. x \notin heard'[r].of
      BY <1>4, <2>7 DEF Asked
    <3> QED BY <1>3, <2>7, <3>1 DEF Asked, runVars
  <2>8. RunAsks(r)'
    <3>1. ASSUME NEW c \in Index, c # s, NEW x \in Index, NEW k \in 1 .. Len(turns[r][c]),
                 turns[r][c][k] = x
          PROVE  Asked(r, x, c)' /\ \A j \in 1 .. Len(turns[r][c]) : turns[r][c][j] = x => j = k
      <4>1. /\ Asked(r, x, c)
            /\ \A j \in 1 .. Len(turns[r][c]) : turns[r][c][j] = x => j = k
        BY <1>1, <3>1 DEF RunInv, RunAsks
      <4>2. x \notin o.of \/ x = 0
        BY <2>5, <3>1, <4>1 DEF Asked
      <4>3. x # 0
        BY DEF Index
      <4> QED BY <2>7, <4>1, <4>2, <4>3
    <3>2. ASSUME NEW c \in Index, NEW x \in Index, NEW k \in 1 .. Len(turns'[r][c]),
                 turns'[r][c][k] = x
          PROVE  /\ Asked(r, x, c)'
                 /\ \A j \in 1 .. Len(turns'[r][c]) : turns'[r][c][j] = x => j = k
      <4>1. CASE c # s
        <5>1. turns'[r][c] = turns[r][c]
          BY <2>1, <4>1
        <5> QED BY <3>1, <3>2, <4>1, <5>1
      <4>2. CASE c = s
        <5>1. turns'[r][c] = t
          BY <2>1, <4>2
        <5>2. /\ Asked(r, x, c) /\ (heard' # heard => x \notin o.of)
              /\ \A j \in 1 .. Len(t) : t[j] = x => j = k
          BY <1>6, <3>2, <4>2, <5>1
        <5> QED BY <2>7, <5>1, <5>2
      <4> QED BY <4>1, <4>2
    <3> QED BY <3>2 DEF RunAsks
  <2> QED BY <2>2, <2>3, <2>4, <2>6, <2>8 DEF RunInv
<1> QED BY <1>3, <1>8, <1>9, <1>10, OneRun DEF Drives

-----------------------------------------------------------------------------
LEMMA RecipesInitInv == RecipesInit => RecipesInv
<1> SUFFICES ASSUME RecipesInit PROVE RecipesInv
  OBVIOUS
<1> USE RecipesAssumption
<1>1. RecipesShape
  BY DEF RecipesInit, RecipesShape, Index, Finals, Prompts, Silence
<1>2. ASSUME NEW r \in Runs PROVE RunInv(r) /\ ~Drives(r)
  <2>1. /\ record[r] = "none" /\ driver[r] = "none" /\ index[r] = 1 /\ previous[r] = {}
        /\ heard[r] = Silence
        /\ halted[r] = FALSE /\ stop[r] = FALSE
        /\ \A i \in Index : /\ status[r][i] = "pending" /\ sessions[r][i] = 0
                            /\ turns[r][i] = <<>> /\ took[r][i] = {}
    BY DEF RecipesInit
  <2>2. RunPlaced(r)
    BY <2>1 DEF RunPlaced, Index
  <2>3. RunBounded(r)
    BY <2>1 DEF RunBounded
  <2>4. RunBuilds(r) /\ RunCarries(r) /\ RunSays(r)
    BY <2>1 DEF RunBuilds, RunCarries, RunSays, Reply
  <2>5. RunAsks(r) /\ RunHears(r) /\ RunTakes(r)
    BY <2>1 DEF RunAsks, RunHears, RunTakes, Silence
  <2> QED BY <2>1, <2>2, <2>3, <2>4, <2>5 DEF RunInv, RunRecorded, RunExcused, Drives
<1> QED BY <1>1, <1>2 DEF RecipesInv

LEMMA RecipesStep == RecipesInv /\ [RecipesNext]_recipeVars => RecipesInv'
<1> SUFFICES ASSUME RecipesInv, [RecipesNext]_recipeVars PROVE RecipesInv'
  OBVIOUS
<1>1. CASE UNCHANGED recipeVars
  <2>1. RecipesShape'
    BY <1>1 DEF recipeVars, runVars, RecipesInv, RecipesShape
  <2>2. recipe' = recipe /\ \A q \in Runs : Untouched(q) /\ RunInv(q)
    BY <1>1 DEF recipeVars, runVars, Untouched, RecipesInv
  <2>3. \A q \in Runs : RunInv(q)' /\ (Drives(q)' => Drives(q))
    BY <2>2, UntouchedKeeps DEF Untouched, Drives
  <2> QED BY <2>1, <2>3 DEF RecipesInv
<1>2. ASSUME NEW r \in Runs, TimeOut(r) PROVE RecipesInv'
  <2>1. heard' = [heard EXCEPT ![r] = Silence]
    BY <1>2 DEF TimeOut, RecipesInv, RecipesShape
  <2> QED BY <1>2, <2>1, FailKeeps DEF TimeOut
<1> QED BY <1>1, <1>2, StartKeeps, StopRunKeeps, DismissRunKeeps, SkipKeeps, ComposeKeeps,
          OpenOwnKeeps, CarryOnKeeps, SendKeeps, HearKeeps, GiveKeeps, FinishKeeps,
          SessionKeeps DEF RecipesNext

\* The invariant says what the properties promise.
LEMMA RecipesInvOK == RecipesInv => RecipesOK
<1> SUFFICES ASSUME RecipesInv PROVE RecipesOK
  OBVIOUS
<1> USE RecipesAssumption
<1>1. RecipesShape /\ \A r \in Runs : RunInv(r)
  BY DEF RecipesInv
<1>2. RecipesTypeOK
  <2>1. ASSUME NEW r \in Runs, NEW i \in Index
        PROVE  Len(turns[r][i]) <= MaxTurns + Steps /\ (turns[r][i] # <<>> => chat[r][i] = "open")
    <3>1. /\ Len(turns[r][i]) <=
               MaxTurns + (IF driver[r] = "waiting" THEN index[r] ELSE index[r] - 1)
          /\ turns[r][i] # <<>> => chat[r][i] = "open"
          /\ driver[r] = "waiting" => index[r] <= Steps
          /\ Len(turns[r][i]) \in Nat /\ index[r] \in 1 .. Steps + 1
      BY <1>1 DEF RunInv, RunBounded, RunPlaced, RecipesShape
    <3> QED BY <3>1
  <2> QED BY <1>1, <2>1 DEF RecipesTypeOK, RecipesShape
<1>3. OneDriver
  <2>1. Cardinality({r \in Runs : Drives(r)}) <= 1
    <3>1. CASE {r \in Runs : Drives(r)} = {}
      BY <3>1, FS_EmptySet
    <3>2. CASE {r \in Runs : Drives(r)} # {}
      <4>1. PICK r \in Runs : {q \in Runs : Drives(q)} = {r}
        BY <3>2 DEF RecipesInv
      <4> QED BY <4>1, FS_Singleton
    <3> QED BY <3>1, <3>2
  <2> QED BY <1>1, <2>1 DEF OneDriver, RunInv, RunRecorded
<1>4. BuiltOnTheLast
  BY <1>1 DEF BuiltOnTheLast, RunInv, RunBuilds, Reply
<1>5. CarriesTheSameOn
  BY <1>1 DEF CarriesTheSameOn, RunInv, RunCarries
<1>6. SaysWhatItDid
  <2> SUFFICES ASSUME NEW r \in Runs, record[r] \in Finals
               PROVE  /\ record[r] = "done" => \A i \in Index : status[r][i] = "done"
                      /\ record[r] = "failed" => \E i \in Index : status[r][i] = "failed"
                      /\ \A i \in Index : status[r][i] \notin {"pending", "running"}
    BY DEF SaysWhatItDid
  <2>1. driver[r] = "over"
    BY <1>1 DEF RunInv, RunRecorded, Drives, Finals, RecipesShape
  <2>2. \A i \in Index : i < index[r]
    BY <1>1, <2>1 DEF RunInv, RunPlaced, Index
  <2> QED BY <1>1, <2>2 DEF RunInv, RunSays, RunPlaced
<1>7. AnsweredOnce
  BY <1>1 DEF AnsweredOnce, RunInv, RunTakes
<1> QED BY <1>2, <1>3, <1>4, <1>5, <1>6, <1>7 DEF RecipesOK

\* Recipes: one run drives a worktree at a time; each of its steps is built on what the
\* one before was given for its reply, which answers what was asked in that one's
\* conversation and is given to no other step; a step is sent where the one it carries
\* on was; and the record says what the steps did (recipes.rs).
THEOREM RecipesSafe == RecipesSpec => []RecipesOK
<1>1. RecipesInit => RecipesInv
  BY RecipesInitInv
<1>2. RecipesInv /\ [RecipesNext]_recipeVars => RecipesInv'
  BY RecipesStep
<1>3. RecipesInv => RecipesOK
  BY RecipesInvOK
<1> QED BY <1>1, <1>2, <1>3, PTL DEF RecipesSpec

-----------------------------------------------------------------------------
(* Worktrees: the inductive invariant.                                     *)

Guarded == {"counted", "checked", "added", "setup", "over", "reported"}
Held == {o \in Makes : stage[o] \in Guarded}

Stages ==
    {"idle", "refused", "admitted", "planned", "spawned", "counted", "checked", "added", "setup",
     "removing", "validated", "listed", "ended", "teardown", "torn", "gone", "over", "reported",
     "left"}

RepoShape ==
    /\ entry \in [Places -> BOOLEAN] /\ dir \in [Places -> BOOLEAN]
    /\ branch \in [Places -> BOOLEAN] /\ ahead \in [Places -> BOOLEAN]
    /\ work \in [Places -> {"clean", "untracked", "tracked"}]
    /\ pane \in [Panes -> {"unopened", "over"} \cup Places]

CallsShape ==
    /\ stage \in [Ops -> Stages]
    /\ at \in [Ops -> Places \cup {Nowhere}]
    /\ flags \in [Ops -> SUBSET {"adopt", "force", "drop"}]
    /\ job \in [Ops -> {"none", "running", "created", "setupFailed", "removed", "failed",
                        "dismissed"}]
    /\ result \in [Ops -> {"none", "created", "setupFailed", "removed", "blocked", "error"}]
    /\ listed \in [Ops -> SUBSET Panes]

\* The creations under way are finitely many, and the project's count is theirs.
CountInv == IsFiniteSet(Held) /\ creating = Cardinality(Held)

\* Who has come to its last stage has a result, which a row can show.
ResultInv ==
    \A o \in Ops :
        /\ stage[o] \in {"over", "reported", "left"} <=> result[o] # "none"
        /\ stage[o] \in {"spawned", "reported"} => o \in Homes

\* A call that has begun has its place.
AskedInv == \A o \in Ops : stage[o] # "idle" => at[o] \in Places

WorktreesInv == RepoShape /\ CallsShape /\ CountInv /\ ResultInv /\ AskedInv

\* What a step leaves of the count when no creation takes a guard or drops one.
LEMMA SameCount ==
    ASSUME CountInv, creating' = creating, stage \in [Ops -> Stages],
           NEW o \in Ops, NEW s, stage' = [stage EXCEPT ![o] = s],
           o \in Makes => (stage[o] \in Guarded <=> s \in Guarded)
    PROVE  CountInv'
<1>1. \A q \in Makes : stage'[q] \in Guarded <=> stage[q] \in Guarded
  BY DEF Ops
<1>2. Held' = Held
  BY <1>1 DEF Held, Guarded
<1> QED BY <1>2 DEF CountInv

\* A guard is taken, and dropped.
LEMMA CountTaken ==
    ASSUME CountInv, creating' = creating + 1, stage \in [Ops -> Stages],
           NEW o \in Makes, NEW s \in Guarded, stage' = [stage EXCEPT ![o] = s],
           stage[o] \notin Guarded
    PROVE  CountInv'
<1>1. stage'[o] \in Guarded /\ \A q \in Makes \ {o} : stage'[q] = stage[q]
  BY DEF Ops
<1>2. Held' = Held \cup {o} /\ o \notin Held
  BY <1>1 DEF Held, Guarded
<1> QED BY <1>2, FS_AddElement DEF CountInv

LEMMA CountDropped ==
    ASSUME CountInv, creating' = creating - 1, stage \in [Ops -> Stages],
           NEW o \in Makes, NEW s, s \notin Guarded, stage' = [stage EXCEPT ![o] = s],
           stage[o] \in Guarded
    PROVE  CountInv'
<1>1. o \in Ops
  BY DEF Ops
<1>2. stage'[o] \notin Guarded /\ \A q \in Makes \ {o} : stage'[q] = stage[q]
  BY <1>1 DEF Ops
<1>3. Held' = Held \ {o} /\ o \in Held
  BY <1>2 DEF Held, Guarded
<1> QED BY <1>3, FS_RemoveElement DEF CountInv

\* The repository keeps its shape whatever is made, removed or worked on.
LEMMA RepoStep == WorktreesInv /\ [WorktreesNext]_worktreeVars => RepoShape'
<1> SUFFICES ASSUME WorktreesInv, [WorktreesNext]_worktreeVars PROVE RepoShape'
  OBVIOUS
<1> USE DEF WorktreesInv, RepoShape, repo
<1>1. ASSUME UNCHANGED <<repo, pane>> PROVE RepoShape'
  BY <1>1
<1>2. ASSUME Prune, UNCHANGED <<dir, branch, ahead, work, pane>> PROVE RepoShape'
  BY <1>2 DEF Prune
<1>3. ASSUME NEW o \in HomeMakes, HomePlans(o) PROVE RepoShape'
  BY <1>2, <1>3 DEF HomePlans
<1>4. ASSUME NEW o \in Makes, Replan(o) PROVE RepoShape'
  BY <1>2, <1>4 DEF Replan
<1>5. ASSUME NEW o \in Makes, Add(o) PROVE RepoShape'
  BY <1>5 DEF Add, Prune
<1>6. ASSUME NEW o \in Makes, SetupEnds(o) PROVE RepoShape'
  <2>1. work' \in [Places -> {"clean", "untracked", "tracked"}]
    BY <1>6 DEF SetupEnds
  <2> QED BY <1>6, <2>1 DEF SetupEnds
<1>7. ASSUME NEW o \in Removes, EndSessions(o) PROVE RepoShape'
  BY <1>7 DEF EndSessions
<1>8. ASSUME NEW o \in Removes, RemoveDir(o) PROVE RepoShape'
  BY <1>8 DEF RemoveDir
<1>9. ASSUME NEW o \in Removes, DeleteBranch(o) PROVE RepoShape'
  BY <1>9 DEF DeleteBranch
<1>10. ASSUME NEW w \in Panes, PaneOpens(w) \/ PaneEnds(w) PROVE RepoShape'
  BY <1>10 DEF PaneOpens, PaneEnds
<1>11. ASSUME NEW w \in Panes, PaneWorks(w) PROVE RepoShape'
  <2>1. work' \in [Places -> {"clean", "untracked", "tracked"}]
    BY <1>11 DEF PaneWorks
  <2>2. ahead' \in [Places -> BOOLEAN]
    BY <1>11 DEF PaneWorks
  <2> QED BY <1>11, <2>1, <2>2 DEF PaneWorks
<1>12. ASSUME NEW p \in Places, HandDeletes(p) PROVE RepoShape'
  BY <1>12 DEF HandDeletes
<1>13. ASSUME NEW o \in Ops,
              \/ HomeAdmits(o) \/ DialogMakesOne(o) \/ Count(o) \/ SpawnSetup(o) \/ Leave(o)
              \/ HomeLooks(o) \/ HomeCounts(o) \/ DialogRemovesOne(o) \/ Validate(o)
              \/ ListSessions(o) \/ StartTeardown(o) \/ TeardownEnds(o) \/ StartJob(o)
              \/ Report(o) \/ Dismiss(o)
       PROVE  RepoShape'
  BY <1>1, <1>13 DEF HomeAdmits, DialogMakesOne, Count, SpawnSetup, Leave, HomeLooks, HomeCounts,
     DialogRemovesOne, Validate, ListSessions, StartTeardown, TeardownEnds, StartJob, Report, Dismiss
<1>14. CASE UNCHANGED worktreeVars
  BY <1>14 DEF worktreeVars
<1> QED BY <1>3, <1>4, <1>5, <1>6, <1>7, <1>8, <1>9, <1>10, <1>11, <1>12, <1>13, <1>14
        DEF WorktreesNext, Ops, Makes, Removes, Homes

\* A call goes from stage to stage, and to its result.
Advances(o, s) ==
    /\ stage' = [stage EXCEPT ![o] = s] /\ s \in Stages
    /\ \/ UNCHANGED result /\ (s \in {"over", "reported", "left"} <=> stage[o] \in {"over", "reported", "left"})
       \/ /\ s = "over"
          /\ \E r \in {"created", "setupFailed", "removed", "blocked", "error"} :
                result' = [result EXCEPT ![o] = r]
    /\ s \in {"spawned", "reported"} => o \in Homes

LEMMA AdvancesKeep ==
    ASSUME CallsShape, ResultInv, NEW o \in Ops, NEW s, Advances(o, s)
    PROVE  /\ stage' \in [Ops -> Stages] /\ ResultInv'
           /\ result' \in [Ops -> {"none", "created", "setupFailed", "removed", "blocked", "error"}]
<1>1. stage' \in [Ops -> Stages] /\ stage'[o] = s /\ \A q \in Ops \ {o} : stage'[q] = stage[q]
  BY DEF CallsShape, Advances
<1>2. CASE UNCHANGED result
  BY <1>1, <1>2 DEF Advances, CallsShape, ResultInv
<1>3. CASE ~UNCHANGED result
  <2>1. PICK r \in {"created", "setupFailed", "removed", "blocked", "error"} :
           result' = [result EXCEPT ![o] = r]
    BY <1>3 DEF Advances
  <2>2. s = "over"
    BY <1>3 DEF Advances
  <2> QED BY <1>1, <2>1, <2>2 DEF CallsShape, ResultInv
<1> QED BY <1>2, <1>3

\* The steps of a creation that do not touch the count.
LEMMA MakingAdvances ==
    ASSUME CallsShape, ResultInv, NEW o \in Ops,
           HomeAdmits(o) \/ HomePlans(o) \/ Replan(o) \/ Add(o) \/ SpawnSetup(o) \/ SetupEnds(o)
    PROVE  /\ UNCHANGED <<creating, job, listed>>
           /\ \E s : /\ Advances(o, s)
                     /\ stage[o] \in Guarded <=> s \in Guarded
<1>1. CASE HomeAdmits(o)
  BY <1>1 DEF HomeAdmits, To, Advances, Guarded, Stages
<1>2. CASE HomePlans(o)
  BY <1>2 DEF HomePlans, To, Advances, Guarded, Stages
<1>3. CASE Replan(o)
  BY <1>3 DEF Replan, To, Returns, Advances, Guarded, Stages
<1>4. CASE Add(o)
  BY <1>4 DEF Add, To, Returns, Advances, Guarded, Stages
<1>5. CASE SpawnSetup(o)
  BY <1>5 DEF SpawnSetup, To, Returns, Advances, Guarded, Stages
<1>6. CASE SetupEnds(o)
  BY <1>6 DEF SetupEnds, To, Returns, Advances, Guarded, Stages
<1> QED BY <1>1, <1>2, <1>3, <1>4, <1>5, <1>6

\* The steps of a removal.
LEMMA RemovalAdvances ==
    ASSUME CallsShape, ResultInv, NEW o \in Removes,
           \/ HomeLooks(o) \/ HomeCounts(o) \/ DialogRemovesOne(o) \/ Validate(o) \/ ListSessions(o)
           \/ EndSessions(o) \/ StartTeardown(o) \/ TeardownEnds(o) \/ RemoveDir(o) \/ DeleteBranch(o)
    PROVE  UNCHANGED <<creating, job>> /\ \E s : Advances(o, s)
<1>1. CASE HomeLooks(o) \/ HomeCounts(o) \/ DialogRemovesOne(o)
  BY <1>1 DEF HomeLooks, HomeCounts, DialogRemovesOne, To, Advances, Stages
<1>2. CASE Validate(o) \/ StartTeardown(o)
  BY <1>2 DEF Validate, StartTeardown, To, Returns, Advances, Stages
<1>3. CASE ListSessions(o) \/ EndSessions(o)
  BY <1>3 DEF ListSessions, EndSessions, To, Advances, Stages
<1>4. CASE TeardownEnds(o)
  BY <1>4 DEF TeardownEnds, To, Returns, Advances, Stages
<1>5. CASE RemoveDir(o)
  BY <1>5 DEF RemoveDir, To, Returns, Advances, Stages
<1>6. CASE DeleteBranch(o)
  <2>1. /\ stage' = [stage EXCEPT ![o] = "over"] /\ result' = [result EXCEPT ![o] = "removed"]
        /\ UNCHANGED <<creating, job>>
    BY <1>6 DEF DeleteBranch, Returns, To
  <2>2. Advances(o, "over")
    BY <2>1 DEF Advances, Stages
  <2> QED BY <2>1, <2>2
<1> QED BY <1>1, <1>2, <1>3, <1>4, <1>5, <1>6

\* The steps that count, report or drop the guard.
LEMMA JobsAdvance ==
    ASSUME CallsShape, ResultInv, NEW o \in Ops,
           \/ DialogMakesOne(o) \/ Count(o) \/ Report(o) \/ Leave(o)
           \/ o \in Homes /\ StartJob(o)
    PROVE  UNCHANGED listed /\ \E s : Advances(o, s)
<1>1. CASE DialogMakesOne(o)
  <2>1. UNCHANGED listed /\ Advances(o, "counted")
    BY <1>1 DEF DialogMakesOne, To, Advances, Stages
  <2> QED BY <2>1
<1>2. CASE Count(o)
  <2>1. UNCHANGED listed /\ Advances(o, "counted")
    BY <1>2 DEF Count, To, Advances, Stages
  <2> QED BY <2>1
<1>3. CASE o \in Homes /\ StartJob(o)
  <2>1. UNCHANGED listed /\ (Advances(o, "spawned") \/ Advances(o, "removing"))
    BY <1>3 DEF StartJob, To, Advances, Stages
  <2> QED BY <2>1
<1>4. CASE Report(o)
  <2>1. UNCHANGED listed /\ Advances(o, "reported")
    BY <1>4 DEF Report, To, Advances, Stages
  <2> QED BY <2>1
<1>5. CASE Leave(o)
  <2>1. stage[o] \in {"over", "reported"} /\ stage' = [stage EXCEPT ![o] = "left"]
        /\ UNCHANGED <<result, listed>>
    BY <1>5 DEF Leave, To
  <2>2. UNCHANGED listed /\ Advances(o, "left")
    BY <2>1 DEF Advances, Stages
  <2> QED BY <2>2
<1> QED BY <1>1, <1>2, <1>3, <1>4, <1>5

\* The calls keep their shape and their results.
LEMMA CallsStep == WorktreesInv /\ [WorktreesNext]_worktreeVars => CallsShape' /\ ResultInv'
<1> SUFFICES ASSUME WorktreesInv, [WorktreesNext]_worktreeVars PROVE CallsShape' /\ ResultInv'
  OBVIOUS
<1> USE DEF WorktreesInv
<1>1. at' \in [Ops -> Places \cup {Nowhere}] /\ flags' \in [Ops -> SUBSET {"adopt", "force", "drop"}]
  <2>1. ASSUME NEW o \in Ops, NEW p \in Places, NEW fs \in SUBSET {"adopt", "force", "drop"},
               Asks(o, p, fs)
        PROVE  /\ at' \in [Ops -> Places \cup {Nowhere}]
               /\ flags' \in [Ops -> SUBSET {"adopt", "force", "drop"}]
    BY <2>1 DEF Asks, CallsShape
  <2>2. ASSUME NEW o \in Ops, HomeAdmits(o) \/ DialogMakesOne(o) \/ HomeLooks(o) \/ DialogRemovesOne(o)
        PROVE  \E p \in Places, fs \in SUBSET {"adopt", "force", "drop"} : Asks(o, p, fs)
    BY <2>2 DEF HomeAdmits, DialogMakesOne, HomeLooks, DialogRemovesOne
  <2>3. \/ UNCHANGED request
        \/ \E o \in Ops : HomeAdmits(o) \/ DialogMakesOne(o) \/ HomeLooks(o) \/ DialogRemovesOne(o)
    <3>1. ASSUME NEW o,
                 \/ HomePlans(o) \/ Count(o) \/ Replan(o) \/ Add(o) \/ SpawnSetup(o) \/ SetupEnds(o)
                 \/ Leave(o) \/ StartJob(o) \/ Report(o) \/ Dismiss(o)
          PROVE  UNCHANGED request
      BY <3>1 DEF HomePlans, Count, Replan, Add, SpawnSetup, SetupEnds, Leave, StartJob, Report,
         Dismiss
    <3>2. ASSUME NEW o,
                 \/ HomeCounts(o) \/ Validate(o) \/ ListSessions(o) \/ EndSessions(o)
                 \/ StartTeardown(o) \/ TeardownEnds(o) \/ RemoveDir(o) \/ DeleteBranch(o)
                 \/ PaneOpens(o) \/ PaneEnds(o) \/ PaneWorks(o) \/ HandDeletes(o)
          PROVE  UNCHANGED request
      BY <3>2 DEF HomeCounts, Validate, ListSessions, EndSessions, StartTeardown, TeardownEnds,
         RemoveDir, DeleteBranch, PaneOpens, PaneEnds, PaneWorks, HandDeletes
    <3> QED BY <3>1, <3>2 DEF WorktreesNext, worktreeVars, Ops, Makes, Removes
  <2> QED BY <2>1, <2>2, <2>3 DEF request, CallsShape
<1>2. ASSUME NEW o \in Ops, NEW s, Advances(o, s), UNCHANGED <<job, listed>>
      PROVE  CallsShape' /\ ResultInv'
  BY <1>1, <1>2, AdvancesKeep DEF CallsShape
<1>3. ASSUME NEW o \in Makes,
             HomeAdmits(o) \/ HomePlans(o) \/ Replan(o) \/ Add(o) \/ SpawnSetup(o) \/ SetupEnds(o)
      PROVE  CallsShape' /\ ResultInv'
  BY <1>2, <1>3, MakingAdvances DEF Ops
<1>4. ASSUME NEW o \in Removes,
             \/ HomeLooks(o) \/ HomeCounts(o) \/ DialogRemovesOne(o) \/ Validate(o) \/ ListSessions(o)
             \/ EndSessions(o) \/ StartTeardown(o) \/ TeardownEnds(o) \/ RemoveDir(o) \/ DeleteBranch(o)
      PROVE  CallsShape' /\ ResultInv'
  <2>1. o \in Ops /\ UNCHANGED job
    BY <1>4, RemovalAdvances DEF Ops
  <2>2. PICK s : Advances(o, s)
    BY <1>4, RemovalAdvances
  <2>3. listed' \in [Ops -> SUBSET Panes]
    <3>1. CASE ListSessions(o)
      BY <3>1 DEF ListSessions, OpenAt, CallsShape
    <3>2. CASE EndSessions(o)
      BY <3>2 DEF EndSessions, CallsShape
    <3>3. CASE UNCHANGED listed
      BY <3>3 DEF CallsShape
    <3> QED BY <1>4, <3>1, <3>2, <3>3 DEF HomeLooks, HomeCounts, DialogRemovesOne, Validate,
               StartTeardown, TeardownEnds, RemoveDir, DeleteBranch
  <2> QED BY <1>1, <2>1, <2>2, <2>3, AdvancesKeep DEF CallsShape
<1>5. ASSUME NEW o \in Ops,
             \/ DialogMakesOne(o) \/ Count(o) \/ Report(o) \/ Leave(o)
             \/ o \in Homes /\ StartJob(o)
      PROVE  CallsShape' /\ ResultInv'
  <2>1. UNCHANGED listed
    BY <1>5, JobsAdvance
  <2>2. PICK s : Advances(o, s)
    BY <1>5, JobsAdvance
  <2>3. job' \in [Ops -> {"none", "running", "created", "setupFailed", "removed", "failed",
                          "dismissed"}]
    <3>1. CASE UNCHANGED job
      BY <3>1 DEF CallsShape
    <3>2. CASE StartJob(o)
      BY <3>2 DEF StartJob, CallsShape
    <3>3. CASE Report(o)
      <4>1. stage[o] = "over" /\ result[o] # "none"
        BY <3>3 DEF Report, ResultInv
      <4>2. result[o] \in {"created", "setupFailed", "removed", "blocked", "error"}
        BY <4>1 DEF CallsShape
      <4> QED BY <3>3, <4>2 DEF Report, CallsShape
    <3> QED BY <1>5, <3>1, <3>2, <3>3 DEF DialogMakesOne, Count, Leave
  <2> QED BY <1>1, <2>1, <2>2, <2>3, AdvancesKeep DEF CallsShape
<1>6. ASSUME NEW o \in Homes, Dismiss(o)
      PROVE  CallsShape' /\ ResultInv'
  BY <1>1, <1>6 DEF Dismiss, CallsShape, ResultInv
<1>7. ASSUME UNCHANGED <<stage, job, result, listed>>
      PROVE  CallsShape' /\ ResultInv'
  BY <1>1, <1>7 DEF CallsShape, ResultInv
<1>8. ASSUME NEW o, PaneOpens(o) \/ PaneEnds(o) \/ PaneWorks(o) \/ HandDeletes(o)
      PROVE  CallsShape' /\ ResultInv'
  BY <1>7, <1>8 DEF PaneOpens, PaneEnds, PaneWorks, HandDeletes
<1> QED BY <1>3, <1>4, <1>5, <1>6, <1>7, <1>8 DEF WorktreesNext, worktreeVars, Ops, Makes, Removes, Homes

\* A call is given its place as it begins, and keeps it.
LEMMA AskedStep == WorktreesInv /\ [WorktreesNext]_worktreeVars => AskedInv'
<1> SUFFICES ASSUME WorktreesInv, [WorktreesNext]_worktreeVars PROVE AskedInv'
  OBVIOUS
<1> USE DEF WorktreesInv
<1>1. stage \in [Ops -> Stages] /\ at \in [Ops -> Places \cup {Nowhere}]
  BY DEF CallsShape
<1>2. ASSUME NEW o \in Ops, NEW p \in Places, NEW fs, Asks(o, p, fs), NEW s,
             stage' = [stage EXCEPT ![o] = s]
      PROVE  AskedInv'
  BY <1>1, <1>2 DEF Asks, AskedInv
<1>3. ASSUME NEW o \in Ops, HomeAdmits(o) \/ DialogMakesOne(o) \/ HomeLooks(o) \/ DialogRemovesOne(o)
      PROVE  AskedInv'
  <2>1. \E p \in Places : \E fs, s : Asks(o, p, fs) /\ stage' = [stage EXCEPT ![o] = s]
    <3>1. CASE HomeAdmits(o)
      BY <3>1 DEF HomeAdmits, To
    <3>2. CASE DialogMakesOne(o)
      BY <3>2 DEF DialogMakesOne, To
    <3>3. CASE HomeLooks(o)
      BY <3>3 DEF HomeLooks, To
    <3>4. CASE DialogRemovesOne(o)
      BY <3>4 DEF DialogRemovesOne, To
    <3> QED BY <1>3, <3>1, <3>2, <3>3, <3>4
  <2> QED BY <1>2, <2>1
<1>4. ASSUME NEW o \in Ops, stage[o] # "idle", NEW s, stage' = [stage EXCEPT ![o] = s],
             UNCHANGED request
      PROVE  AskedInv'
  BY <1>1, <1>4 DEF AskedInv, request
<1>5. ASSUME NEW o \in Ops,
             \/ HomePlans(o) \/ Count(o) \/ Replan(o) \/ Add(o) \/ SpawnSetup(o) \/ SetupEnds(o)
             \/ Leave(o) \/ StartJob(o) \/ Report(o)
      PROVE  AskedInv'
  <2>1. UNCHANGED request /\ stage[o] # "idle" /\ \E s : stage' = [stage EXCEPT ![o] = s]
    <3>1. UNCHANGED request /\ stage[o] # "idle"
      BY <1>5 DEF HomePlans, Count, Replan, Add, SpawnSetup, SetupEnds, Leave, StartJob, Report
    <3>2. \E s : To(o, s)
      BY <1>5 DEF HomePlans, Count, Replan, Add, SpawnSetup, SetupEnds, Leave, StartJob, Report,
         Returns
    <3> QED BY <3>1, <3>2 DEF To
  <2> QED BY <1>4, <2>1
<1>6. ASSUME NEW o \in Ops,
             \/ HomeCounts(o) \/ Validate(o) \/ ListSessions(o) \/ EndSessions(o)
             \/ StartTeardown(o) \/ TeardownEnds(o) \/ RemoveDir(o) \/ DeleteBranch(o)
      PROVE  AskedInv'
  <2>1. UNCHANGED request /\ stage[o] # "idle"
    BY <1>6 DEF HomeCounts, Validate, ListSessions, EndSessions, StartTeardown, TeardownEnds,
       RemoveDir, DeleteBranch
  <2>2. \E s : To(o, s)
    BY <1>6 DEF HomeCounts, Validate, ListSessions, EndSessions, StartTeardown, TeardownEnds,
       RemoveDir, DeleteBranch, Returns
  <2> QED BY <1>4, <2>1, <2>2 DEF To
<1>7. ASSUME UNCHANGED <<stage, request>>
      PROVE  AskedInv'
  BY <1>7 DEF AskedInv, request
<1>8. ASSUME NEW o, Dismiss(o) \/ PaneOpens(o) \/ PaneEnds(o) \/ PaneWorks(o) \/ HandDeletes(o)
      PROVE  AskedInv'
  BY <1>7, <1>8 DEF Dismiss, PaneOpens, PaneEnds, PaneWorks, HandDeletes
<1> QED BY <1>3, <1>5, <1>6, <1>7, <1>8
        DEF WorktreesNext, worktreeVars, Ops, Makes, Removes, Homes

\* The count is that of the guards, through every step of every creation.
LEMMA CountStep == WorktreesInv /\ [WorktreesNext]_worktreeVars => CountInv'
<1> SUFFICES ASSUME WorktreesInv, [WorktreesNext]_worktreeVars PROVE CountInv'
  OBVIOUS
<1> USE DEF WorktreesInv
<1>1. stage \in [Ops -> Stages]
  BY DEF CallsShape
<1>2. ASSUME NEW o \in Makes,
             HomeAdmits(o) \/ HomePlans(o) \/ Replan(o) \/ Add(o) \/ SpawnSetup(o) \/ SetupEnds(o)
      PROVE  CountInv'
  <2>1. o \in Ops /\ UNCHANGED creating
    BY <1>2, MakingAdvances DEF Ops
  <2>2. PICK s : Advances(o, s) /\ (stage[o] \in Guarded <=> s \in Guarded)
    BY <1>2, <2>1, MakingAdvances
  <2> QED BY <1>1, <2>1, <2>2, SameCount DEF Advances
<1>3. ASSUME NEW o \in Removes, UNCHANGED creating, NEW s, Advances(o, s)
      PROVE  CountInv'
  <2>1. o \in Ops /\ o \notin Makes
    BY WorktreesAssumption DEF Ops
  <2> QED BY <1>1, <1>3, <2>1, SameCount DEF Advances
<1>4. ASSUME NEW o \in Removes,
             \/ HomeLooks(o) \/ HomeCounts(o) \/ DialogRemovesOne(o) \/ Validate(o) \/ ListSessions(o)
             \/ EndSessions(o) \/ StartTeardown(o) \/ TeardownEnds(o) \/ RemoveDir(o) \/ DeleteBranch(o)
      PROVE  CountInv'
  BY <1>3, <1>4, RemovalAdvances
<1>5. ASSUME NEW o \in Makes, DialogMakesOne(o) \/ Count(o)
      PROVE  CountInv'
  <2>1. /\ stage' = [stage EXCEPT ![o] = "counted"] /\ creating' = creating + 1
        /\ stage[o] \in {"idle", "spawned"}
    BY <1>5 DEF DialogMakesOne, Count, To
  <2> QED BY <1>1, <2>1, CountTaken DEF Guarded
<1>6. ASSUME NEW o \in Makes, Leave(o)
      PROVE  CountInv'
  <2>1. /\ stage' = [stage EXCEPT ![o] = "left"] /\ creating' = creating - 1
        /\ stage[o] \in {"over", "reported"}
    BY <1>6 DEF Leave, To
  <2> QED BY <1>1, <2>1, CountDropped DEF Guarded
<1>7. ASSUME NEW o \in Homes, StartJob(o)
      PROVE  CountInv'
  <2>1. /\ stage' = [stage EXCEPT ![o] = IF o \in Makes THEN "spawned" ELSE "removing"]
        /\ UNCHANGED creating /\ stage[o] = "planned" /\ o \in Ops
    BY <1>7 DEF StartJob, To, Homes, Ops, Makes, Removes
  <2> QED BY <1>1, <2>1, SameCount DEF Guarded
<1>8. ASSUME NEW o \in Homes, Report(o)
      PROVE  CountInv'
  <2>1. /\ stage' = [stage EXCEPT ![o] = "reported"] /\ UNCHANGED creating /\ stage[o] = "over"
        /\ o \in Ops
    BY <1>8 DEF Report, To, Homes, Ops, Makes, Removes
  <2> QED BY <1>1, <2>1, SameCount DEF Guarded
<1>9. ASSUME UNCHANGED <<stage, creating>>
      PROVE  CountInv'
  BY <1>9 DEF CountInv, Held
<1>10. ASSUME NEW o, Dismiss(o) \/ PaneOpens(o) \/ PaneEnds(o) \/ PaneWorks(o) \/ HandDeletes(o)
       PROVE  CountInv'
  BY <1>9, <1>10 DEF Dismiss, PaneOpens, PaneEnds, PaneWorks, HandDeletes
<1> QED BY <1>2, <1>4, <1>5, <1>6, <1>7, <1>8, <1>9, <1>10
        DEF WorktreesNext, worktreeVars, Ops, Makes, Removes, Homes

\* Membership is a truth value.
LEMMA Decided == ASSUME NEW x, NEW S PROVE (x \in S) \in BOOLEAN
BY SMT

LEMMA WorktreesStart == WorktreesInit => WorktreesInv
<1> SUFFICES ASSUME WorktreesInit PROVE WorktreesInv
  OBVIOUS
<1>1. RepoShape
  <2>1. PICK f \in [Places -> {"nothing", "worktree", "deleted by hand", "other"}] :
           /\ entry = [p \in Places |-> f[p] \in {"worktree", "deleted by hand"}]
           /\ dir = [p \in Places |-> f[p] \in {"worktree", "other"}]
           /\ branch = entry
    BY DEF WorktreesInit
  <2>2. entry \in [Places -> BOOLEAN] /\ dir \in [Places -> BOOLEAN] /\ branch \in [Places -> BOOLEAN]
    <3>1. ASSUME NEW S
          PROVE  [p \in Places |-> f[p] \in S] \in [Places -> BOOLEAN]
      <4>1. \A p \in Places : (f[p] \in S) \in BOOLEAN
        BY Decided, Zenon
      <4> QED BY <4>1, Zenon
    <3>2. entry \in [Places -> BOOLEAN] /\ dir \in [Places -> BOOLEAN]
      BY <2>1, <3>1, Zenon
    <3> QED BY <2>1, <3>2
  <2>3. ahead \in [Places -> BOOLEAN] /\ work \in [Places -> {"clean", "untracked", "tracked"}]
        /\ pane \in [Panes -> {"unopened", "over"} \cup Places]
    BY DEF WorktreesInit
  <2> QED BY <2>2, <2>3 DEF RepoShape
<1>2. CallsShape
  BY DEF WorktreesInit, CallsShape, Stages
<1>3. CountInv
  <2>1. Held = {}
    BY DEF WorktreesInit, Held, Guarded, Ops
  <2> QED BY <2>1, FS_EmptySet DEF CountInv, WorktreesInit
<1>4. ResultInv /\ AskedInv
  BY DEF WorktreesInit, ResultInv, AskedInv
<1> QED BY <1>1, <1>2, <1>3, <1>4 DEF WorktreesInv

LEMMA WorktreesAlways == WorktreesSpec => []WorktreesInv
<1>1. WorktreesInv /\ [WorktreesNext]_worktreeVars => WorktreesInv'
  BY RepoStep, CallsStep, AskedStep, CountStep DEF WorktreesInv
<1> QED BY <1>1, WorktreesStart, PTL DEF WorktreesSpec

\* Worktrees: the project's count, by which Home admits one setup at a time, is that of
\* the creations that hold a guard, however each of them ends (app.rs, start_creating).
THEOREM WorktreesCounted == WorktreesSpec => []WorktreesTypeOK
<1>1. WorktreesInv => WorktreesTypeOK
  BY DEF WorktreesInv, WorktreesTypeOK, RepoShape, CallsShape, CountInv, Held, Guarded, Stages
<1> QED BY <1>1, WorktreesAlways, PTL

\* Only a removal that was told to force discards work: git is asked last, whatever was
\* validated before the panes were ended and the teardown ran (remove.rs).
THEOREM ForceDiscards == WorktreesSpec => OnlyForceDiscards
<1>1. ASSUME WorktreesInv, [WorktreesNext]_worktreeVars, NEW p \in Places,
             work[p] # "clean", dir[p], ~dir'[p]
      PROVE  \E o \in Removes : stage[o] = "torn" /\ at[o] = p /\ "force" \in flags[o]
  <2>1. dir \in [Places -> BOOLEAN]
    BY <1>1 DEF WorktreesInv, RepoShape
  <2>2. ASSUME NEW o \in Ops,
               \/ HomeAdmits(o) \/ HomePlans(o) \/ DialogMakesOne(o) \/ Count(o) \/ Replan(o)
               \/ SpawnSetup(o) \/ SetupEnds(o) \/ Leave(o) \/ HomeLooks(o) \/ HomeCounts(o)
               \/ DialogRemovesOne(o) \/ Validate(o) \/ ListSessions(o) \/ EndSessions(o)
               \/ StartTeardown(o) \/ TeardownEnds(o) \/ DeleteBranch(o) \/ StartJob(o) \/ Report(o)
               \/ Dismiss(o)
        PROVE  FALSE
    <3>1. UNCHANGED dir
      BY <2>2 DEF HomeAdmits, HomePlans, DialogMakesOne, Count, Replan, SpawnSetup, SetupEnds, Leave,
         HomeLooks, HomeCounts, DialogRemovesOne, Validate, ListSessions, EndSessions, StartTeardown,
         TeardownEnds, DeleteBranch, StartJob, Report, Dismiss, repo
    <3> QED BY <1>1, <3>1
  <2>3. ASSUME NEW w, PaneOpens(w) \/ PaneEnds(w) \/ PaneWorks(w) \/ UNCHANGED worktreeVars
        PROVE  FALSE
    <3>1. UNCHANGED dir
      BY <2>3 DEF PaneOpens, PaneEnds, PaneWorks, repo, worktreeVars
    <3> QED BY <1>1, <3>1
  <2>4. ASSUME NEW o \in Makes, Add(o)
        PROVE  FALSE
    BY <1>1, <2>1, <2>4 DEF Add
  <2>5. ASSUME NEW q \in Places, HandDeletes(q)
        PROVE  FALSE
    BY <1>1, <2>1, <2>5 DEF HandDeletes
  <2>6. PICK o \in Removes : RemoveDir(o)
    BY <1>1, <2>2, <2>3, <2>4, <2>5 DEF WorktreesNext, Ops, Makes, Removes, Homes
  <2>7. stage[o] = "torn" /\ at[o] = p /\ (work[at[o]] = "clean" \/ "force" \in flags[o])
    BY <1>1, <2>1, <2>6 DEF RemoveDir
  <2> QED BY <1>1, <2>7
<1>2. WorktreesInv /\ [WorktreesNext]_worktreeVars =>
         [\A p \in Places : work[p] # "clean" /\ dir[p] /\ ~dir'[p]
             => \E o \in Removes : stage[o] = "torn" /\ at[o] = p /\ "force" \in flags[o]]_worktreeVars
  BY <1>1
<1> QED BY <1>2, WorktreesAlways, PTL DEF WorktreesSpec, OnlyForceDiscards

\* A checkout deleted by hand refuses no creation: the pipeline prunes before it looks
\* (create.rs).
THEOREM GhostsBlockNothing == WorktreesSpec => NoGhostBlocks
<1>1. ASSUME WorktreesInv, [WorktreesNext]_worktreeVars, NEW o \in Makes,
             result[o] = "none", result'[o] = "blocked"
      PROVE  dir[at[o]] \/ ("adopt" \in flags[o]) # branch[at[o]]
  <2>1. result \in [Ops -> {"none", "created", "setupFailed", "removed", "blocked", "error"}]
    BY <1>1 DEF WorktreesInv, CallsShape
  <2>2. ASSUME NEW q \in Ops,
               \/ HomeAdmits(q) \/ HomePlans(q) \/ DialogMakesOne(q) \/ Count(q) \/ Leave(q)
               \/ HomeLooks(q) \/ HomeCounts(q) \/ DialogRemovesOne(q) \/ ListSessions(q)
               \/ EndSessions(q) \/ StartJob(q) \/ Report(q) \/ Dismiss(q)
        PROVE  FALSE
    <3>1. UNCHANGED result
      BY <2>2 DEF HomeAdmits, HomePlans, DialogMakesOne, Count, Leave, HomeLooks, HomeCounts,
         DialogRemovesOne, ListSessions, EndSessions, StartJob, Report, Dismiss
    <3> QED BY <1>1, <3>1
  <2>3. ASSUME NEW w,
               \/ PaneOpens(w) \/ PaneEnds(w) \/ PaneWorks(w) \/ HandDeletes(w)
               \/ UNCHANGED worktreeVars
        PROVE  FALSE
    <3>1. UNCHANGED result
      BY <2>3 DEF PaneOpens, PaneEnds, PaneWorks, HandDeletes, worktreeVars
    <3> QED BY <1>1, <3>1
  <2>4. ASSUME NEW q \in Removes,
               Validate(q) \/ StartTeardown(q) \/ TeardownEnds(q) \/ RemoveDir(q) \/ DeleteBranch(q)
        PROVE  FALSE
    <3>1. q # o /\ q \in Ops /\ o \in Ops
      BY WorktreesAssumption DEF Ops
    <3>2. result'[o] = result[o]
      BY <2>1, <2>4, <3>1 DEF Validate, StartTeardown, TeardownEnds, RemoveDir, DeleteBranch, Returns
    <3> QED BY <1>1, <3>2
  <2>5. ASSUME NEW q \in Makes, Add(q) \/ SpawnSetup(q) \/ SetupEnds(q)
        PROVE  FALSE
    <3>1. o \in Ops
      BY DEF Ops
    <3>2. result' = result \/ \E r \in {"created", "setupFailed", "error"} : result' = [result EXCEPT ![q] = r]
      BY <2>5 DEF Add, SpawnSetup, SetupEnds, Returns
    <3> QED BY <1>1, <2>1, <3>1, <3>2
  <2>6. PICK q \in Makes : Replan(q)
    BY <1>1, <2>2, <2>3, <2>4, <2>5 DEF WorktreesNext, Ops, Makes, Removes, Homes
  <2>7. q = o /\ InTheWay(o) /\ Prune
    BY <1>1, <2>1, <2>6 DEF Replan, Returns, Ops
  <2>8. at[o] \in Places
    BY <1>1, <2>6, <2>7 DEF Replan, WorktreesInv, AskedInv, Ops
  <2>9. entry'[at[o]] => dir[at[o]]
    BY <2>7, <2>8 DEF Prune
  <2> QED BY <2>7, <2>9 DEF InTheWay
<1>2. WorktreesInv /\ [WorktreesNext]_worktreeVars =>
         [\A o \in Makes : result[o] = "none" /\ result'[o] = "blocked"
             => dir[at[o]] \/ ("adopt" \in flags[o]) # branch[at[o]]]_worktreeVars
  BY <1>1
<1> QED BY <1>2, WorktreesAlways, PTL DEF WorktreesSpec, NoGhostBlocks
=============================================================================
