------------------------------- MODULE PopOut -------------------------------
(* An agent's pane in a window of its own (src/lib/state/sessions.svelte.ts,*)
(* pane-windows.svelte.ts, src-tauri/src/pane_windows.rs).  The window that *)
(* shows the pane owns its queue of messages and sends from it; the main    *)
(* window keeps a record, hears the same session, and takes the queue back  *)
(* when the pane's window goes.  Calls, events and the windows' reports     *)
(* each come at a time of their own.                                        *)
EXTENDS Integers, Sequences, FiniteSets, SequencesExt

CONSTANTS
    Words,       \* the messages a user may queue
    MaxComing,   \* bounds the events a window has still to hear
    MaxClicks,   \* bounds what the user does to the queue
    MaxPops,     \* bounds the moves into a window
    NoState      \* no snapshot of the pane

Window == {"main", "own"}
Pop == 1 .. MaxPops
NoCall == [word |-> NoState, stage |-> "none"]
Item == [word : Words, steered : BOOLEAN]
State == [session : BOOLEAN, queue : Seq(Item), held : BOOLEAN, ended : BOOLEAN]

ASSUME PopOutAssumption == MaxComing \in Nat /\ NoState \notin State \cup Words

VARIABLES
    opening,    \* the CLI is still starting: the main window waits for its id
    alive,      \* the CLI runs
    running,    \* the last turn that began has no end: it runs, or the CLI died in it
    coming,     \* the events of the session each window has still to hear
    taken,      \* history: how often the session was given each message, up to 2
    written,    \* history: the messages the user wrote and did not take back
    clicks,     \* what the user has done to the queue
    copy,       \* each window's record of the pane
    draining,   \* sessions.draining with the send it is about
    steers,     \* the steers on their way, of each window
    adrift,     \* calls whose window went before the reply
    out,        \* the main window counts the pane as out
    popped,     \* the calls of pop_out_pane and the state each carries
    entry,      \* the registry's state for the pane's window
    frame,      \* the OS window: none, up, closing
    front,      \* its frontend: none, starting, lost, adopted, wired
    last,       \* the state the main window was last sent
    report,     \* the state on its way to sync_pane_window
    inbox,      \* what the main window has still to hear of the pane's window
    dropped,    \* history: messages a finished turn took off the queue while
                \* their steer was on its way
    torn,       \* history: the pane moved with a state that was not the latest
    crossed,    \* history: Put back took the entry of a window being built
    left        \* history: nothing has tried the queue since it was put there

sessionVars == <<opening, alive, running, coming, taken>>
callVars == <<draining, steers, adrift>>
moveVars == <<out, popped, entry, frame, front, last, report, inbox>>
popOutVars == <<sessionVars, written, clicks, copy, callVars, moveVars, dropped, torn, crossed, left>>

Blank == [session |-> FALSE, queue |-> <<>>, held |-> FALSE, working |-> FALSE,
          ended |-> FALSE]

PopOutInit ==
    /\ opening \in BOOLEAN
    /\ alive = TRUE /\ running = FALSE
    /\ coming = [w \in Window |-> <<>>]
    /\ taken = [m \in Words |-> 0]
    /\ written = {} /\ clicks = 0
    /\ copy = [w \in Window |-> [Blank EXCEPT !.session = w = "main" /\ ~opening]]
    /\ draining = [w \in Window |-> NoCall]
    /\ steers = [w \in Window |-> [m \in Words |-> "none"]]
    /\ adrift = {}
    /\ out = FALSE
    /\ popped = [i \in Pop |-> [stage |-> "none", state |-> NoState]]
    /\ entry = NoState
    /\ frame = "none" /\ front = "none"
    /\ last = NoState /\ report = NoState
    /\ inbox = <<>>
    /\ dropped = {} /\ torn = FALSE /\ crossed = FALSE /\ left = FALSE

-----------------------------------------------------------------------------
(* The session, as both windows hear it                                    *)

Event(kind) == [is |-> kind, word |-> NoState]
Echo(m) == [is |-> "echo", word |-> m]

\* Both windows hear each event, a window that attaches later by the replay.
Says(events) ==
    /\ \A w \in Window : Len(coming[w]) + Len(events) <= MaxComing
    /\ coming' = [w \in Window |-> IF copy[w].session THEN coming[w] \o events ELSE coming[w]]

\* The session's own steps leave the windows alone.
Alone == UNCHANGED <<written, clicks, copy, callVars, moveVars, dropped, torn, crossed, left>>

(* Somebody prompts: the composer of an idle pane, Home, a delegation.     *)
TurnBegins ==
    /\ alive /\ ~opening /\ ~running
    /\ running' = TRUE
    /\ Says(<<Event("started")>>)
    /\ UNCHANGED <<opening, alive, taken>>
    /\ Alone

TurnEnds(how) ==
    /\ alive /\ running
    /\ running' = FALSE
    /\ Says(<<Event(how)>>)
    /\ UNCHANGED <<opening, alive, taken>>
    /\ Alone

Exits ==
    /\ alive /\ ~opening
    /\ alive' = FALSE
    /\ Says(<<Event("exit")>>)
    /\ UNCHANGED <<opening, running, taken>>
    /\ Alone

(* sendTurn or steerTurn reaches the application: the message is written   *)
(* to the session, or there is no session to write it to.                  *)
Given(m, how) ==
    /\ alive
    /\ taken' = [taken EXCEPT ![m] = IF @ < 2 THEN @ + 1 ELSE @]
    /\ running' = TRUE
    /\ Says((IF running THEN <<>> ELSE <<Event("started")>>)
                \o (IF how = "steer" THEN <<Echo(m)>> ELSE <<>>))
    /\ UNCHANGED <<opening, alive>>

-----------------------------------------------------------------------------
(* A window's queue                                                        *)

\* The entries of a queue that are among `those`, in their order.
Only(queue, those) ==
    LET upTo[i \in 0 .. Len(queue)] ==
            IF i = 0 THEN <<>>
            ELSE IF queue[i] \in those THEN Append(upTo[i - 1], queue[i]) ELSE upTo[i - 1]
    IN  upTo[Len(queue)]

Waiting(queue) == Only(queue, [word : Words, steered : {FALSE}])

\* The entries of some messages are marked as steered, or no longer.
Mark(queue, those, is) ==
    [i \in DOMAIN queue |->
        IF queue[i].word \in those THEN [queue[i] EXCEPT !.steered = is] ELSE queue[i]]

Without(queue, m) == Only(queue, [word : Words \ {m}, steered : BOOLEAN])

\* What is carried of a pane between windows.
StateOf(w) == [session |-> copy[w].session, queue |-> copy[w].queue, held |-> copy[w].held,
               ended |-> copy[w].ended]

(* holdQueue.                                                              *)
Held(p) == [p EXCEPT !.held = @ \/ Waiting(p.queue) # <<>>]

\* What drain looks at: there is something to send and nothing in its way.
Free(p) == ~p.working /\ ~p.held /\ Waiting(p.queue) # <<>>

(* drain, up to the call; awaitSession waits for an id that is not there.  *)
Drains(w, p) ==
    LET starts == Free(p) /\ draining[w] = NoCall
    IN  /\ copy' = [copy EXCEPT ![w] = p]
        /\ left' = (left /\ ~starts)
        /\ draining' =
              IF starts
              THEN [draining EXCEPT ![w] =
                       [word |-> Head(Waiting(p.queue)).word,
                        stage |-> IF p.ended THEN "no" ELSE IF p.session THEN "going" ELSE "waiting"]]
              ELSE draining

Keeps(w, p) == copy' = [copy EXCEPT ![w] = p] /\ UNCHANGED <<draining, left>>

\* The composer is where the pane is shown.
Shows(w) == IF w = "main" THEN ~out ELSE front \in {"adopted", "wired"}

ByUser ==
    /\ clicks < MaxClicks /\ clicks' = clicks + 1
    /\ UNCHANGED <<sessionVars, adrift, moveVars, dropped, crossed>>

(* enqueue, from the composer of a busy pane.                              *)
Enqueue(w, m) ==
    /\ Shows(w) /\ m \notin written /\ taken[m] = 0
    /\ copy[w].working \/ copy[w].queue # <<>>
    /\ written' = written \cup {m}
    /\ Drains(w, [copy[w] EXCEPT !.queue = Append(@, [word |-> m, steered |-> FALSE]),
                                 !.held = FALSE])
    /\ UNCHANGED <<steers, torn>>
    /\ ByUser

(* steerQueued, up to the round trip.                                      *)
SteerQueued(w, m) ==
    LET item == [word |-> m, steered |-> FALSE]
        p == [copy[w] EXCEPT !.held = FALSE]
    IN  /\ Shows(w) /\ item \in ToSet(p.queue)
        /\ \/ /\ ~p.working \/ ~p.session
              /\ Drains(w, [p EXCEPT !.queue = <<item>> \o Without(@, m)])
              /\ UNCHANGED <<steers, torn>>
           \/ /\ p.working /\ p.session
              /\ Keeps(w, [p EXCEPT !.queue = Mark(@, {m}, TRUE)])
              /\ steers' = [steers EXCEPT ![w][m] = "going"]
              /\ torn' = (torn \/ draining[w].word = m)
        /\ UNCHANGED written
        /\ ByUser

(* removeQueued.                                                           *)
RemoveQueued(w, m) ==
    LET item == [word |-> m, steered |-> FALSE]
        rest == Only(copy[w].queue, Item \ {item})
    IN  /\ Shows(w) /\ item \in ToSet(copy[w].queue)
        /\ written' = written \ {m}
        /\ Drains(w, [copy[w] EXCEPT !.queue = rest,
                                     !.held = @ /\ Waiting(rest) # <<>>])
        /\ UNCHANGED <<steers, torn>>
        /\ ByUser

(* interrupt, but for the call, which ends the turn.                       *)
Interrupt(w) ==
    /\ Shows(w) /\ copy[w].session /\ copy[w] # Held(copy[w])
    /\ Keeps(w, Held(copy[w]))
    /\ UNCHANGED <<written, steers, torn>>
    /\ ByUser

ByCall == UNCHANGED <<written, clicks, moveVars, dropped, torn, crossed>>

(* awaitSession: the id has come, or is not going to.                      *)
Awaited(w) ==
    /\ draining[w].stage = "waiting"
    /\ ~copy[w].session => ~(w = "main" /\ opening)
    /\ draining' = [draining EXCEPT ![w].stage =
                       IF copy[w].session /\ ~copy[w].ended THEN "going" ELSE "no"]
    /\ UNCHANGED <<sessionVars, copy, steers, adrift, left>>
    /\ ByCall

SendLands(w) ==
    /\ draining[w].stage = "going"
    /\ \/ /\ Given(draining[w].word, "send")
          /\ draining' = [draining EXCEPT ![w].stage = "yes"]
       \/ /\ ~alive
          /\ draining' = [draining EXCEPT ![w].stage = "no"]
          /\ UNCHANGED sessionVars
    /\ UNCHANGED <<copy, steers, adrift, left>>
    /\ ByCall

(* The rest of drain.  A turn that has ended by now found the drain busy,  *)
(* and what waits behind the message stays where it is.                    *)
SendReplies(w) ==
    LET sent == draining[w].stage = "yes"
        p == IF sent
             THEN [copy[w] EXCEPT !.queue = Without(@, draining[w].word)]
             ELSE [copy[w] EXCEPT !.held = TRUE]
    IN  /\ draining[w].stage \in {"yes", "no"}
        /\ copy' = [copy EXCEPT ![w] = p]
        /\ draining' = [draining EXCEPT ![w] = NoCall]
        /\ left' = (left \/ Free(p))
        /\ UNCHANGED <<sessionVars, steers, adrift>>
        /\ ByCall

SteerLands(w, m) ==
    /\ steers[w][m] = "going"
    /\ \/ /\ Given(m, "steer")
          /\ steers' = [steers EXCEPT ![w][m] = "none"]
       \/ /\ ~alive
          /\ steers' = [steers EXCEPT ![w][m] = "no"]
          /\ UNCHANGED sessionVars
    /\ UNCHANGED <<copy, draining, adrift, left>>
    /\ ByCall

SteerRefused(w, m) ==
    /\ steers[w][m] = "no"
    /\ steers' = [steers EXCEPT ![w][m] = "none"]
    /\ Keeps(w, [copy[w] EXCEPT !.queue = Mark(@, {m}, FALSE)])
    /\ UNCHANGED <<sessionVars, adrift>>
    /\ ByCall

AdriftLands(c) ==
    /\ c \in adrift
    /\ adrift' = adrift \ {c}
    /\ Given(c.word, c.how) \/ (~alive /\ UNCHANGED sessionVars)
    /\ UNCHANGED <<copy, draining, steers, left>>
    /\ ByCall

-----------------------------------------------------------------------------
(* What a window hears of the session                                      *)

\* An echo is matched with the first steered entry of its text.
Echoed(queue, m) ==
    Only(queue, Item \ {[word |-> m, steered |-> TRUE]})

\* isOut, in the main window.
QueueIsElsewhere(w) == w = "main" /\ out

(* record, and noteExit.                                                   *)
Hear(w) ==
    LET p == copy[w]
        event == Head(coming[w])
    IN  /\ coming[w] # <<>>
        /\ coming' = [coming EXCEPT ![w] = Tail(@)]
        /\ \/ event.is = "started" /\ Keeps(w, [p EXCEPT !.working = TRUE])
           \/ /\ event.is = "finished"
              /\ IF p.queue # <<>> /\ ~QueueIsElsewhere(w)
                 THEN Drains(w, [p EXCEPT !.working = FALSE, !.queue = Waiting(@)])
                 ELSE Keeps(w, [p EXCEPT !.working = FALSE])
           \/ event.is = "failed" /\ Keeps(w, Held([p EXCEPT !.working = FALSE]))
           \/ event.is = "echo" /\ Keeps(w, [p EXCEPT !.queue = Echoed(@, event.word)])
           \/ /\ event.is = "exit"
              /\ Keeps(w, Held([p EXCEPT !.working = FALSE, !.ended = TRUE,
                                         !.queue = Mark(@, Words, FALSE)]))
        /\ dropped' = IF event.is = "finished"
                      THEN dropped \cup {m \in Words : steers[w][m] # "none"} ELSE dropped
        /\ UNCHANGED <<opening, alive, running, taken, written, clicks, steers, adrift, moveVars,
                       torn, crossed>>

(* attach: the replay, then what was held of it.  The replay has no exits. *)
Attached(p) == [p EXCEPT !.session = TRUE, !.working = running, !.ended = FALSE]

(* claimOrClose in the main window, whether or not the pane is out.        *)
ClaimOrClose ==
    /\ opening
    /\ opening' = FALSE
    /\ copy' = [copy EXCEPT !["main"] = Attached(@)]
    /\ UNCHANGED <<alive, running, coming, taken, written, clicks, callVars, moveVars,
                   dropped, torn, crossed, left>>

-----------------------------------------------------------------------------
(* The pane moves                                                          *)

ByMove == UNCHANGED <<opening, alive, running, taken, written, clicks, dropped>>
BySession == ByMove /\ UNCHANGED coming

Calling(w) == draining[w] # NoCall \/ \E m \in Words : steers[w][m] # "none"

(* popOut: the state is taken, and the pane is out before its window is.   *)
PopOut(i) ==
    /\ ~out
    /\ popped[i].stage = "none" /\ \A j \in 1 .. i - 1 : popped[j].stage # "none"
    /\ out' = TRUE
    /\ popped' = [popped EXCEPT ![i] = [stage |-> "going", state |-> StateOf("main")]]
    /\ torn' = (torn \/ Calling("main") \/ opening)
    /\ BySession
    /\ UNCHANGED <<copy, callVars, entry, frame, front, last, report,
                   inbox, crossed, left>>

(* pop_out, up to the build: a window is there and is focused, or the      *)
(* entry goes in first.                                                    *)
Insert(i) ==
    /\ popped[i].stage = "going"
    /\ \/ /\ frame # "none"
          /\ popped' = [popped EXCEPT ![i] = [stage |-> "done", state |-> NoState]]
          /\ UNCHANGED entry
       \/ /\ frame = "none" /\ entry # NoState
          /\ popped' = [popped EXCEPT ![i].stage = "failed"]
          /\ UNCHANGED entry
       \/ /\ frame = "none" /\ entry = NoState
          /\ popped' = [popped EXCEPT ![i].stage = "building"]
          /\ entry' = popped[i].state
    /\ BySession
    /\ UNCHANGED <<copy, callVars, out, frame, front, last, report,
                   inbox, torn, crossed, left>>

(* Mutant: a window that could not be built leaves its entry.              *)
Build_Leaves(i) ==
    /\ popped[i].stage = "building"
    /\ \/ /\ frame = "none"
          /\ frame' = "up" /\ front' = "starting"
          /\ popped' = [popped EXCEPT ![i] = [stage |-> "done", state |-> NoState]]
       \/ /\ popped' = [popped EXCEPT ![i].stage = "failed"]
          /\ UNCHANGED <<frame, front>>
    /\ UNCHANGED entry
    /\ BySession
    /\ UNCHANGED <<copy, callVars, out, last, report, inbox,
                   torn, crossed, left>>

Build(i) ==
    /\ popped[i].stage = "building"
    /\ \/ /\ frame = "none"
          /\ frame' = "up" /\ front' = "starting"
          /\ popped' = [popped EXCEPT ![i] = [stage |-> "done", state |-> NoState]]
          /\ UNCHANGED entry
       \/ /\ popped' = [popped EXCEPT ![i].stage = "failed"]
          /\ entry' = NoState
          /\ UNCHANGED <<frame, front>>
    /\ BySession
    /\ UNCHANGED <<copy, callVars, out, last, report, inbox,
                   torn, crossed, left>>

\* applySync: the frontend-only half of a pane, and its session if it is another.
Synced(state) ==
    LET p == [copy["main"] EXCEPT !.queue = state.queue, !.held = state.held]
    IN  IF state.session = p.session THEN p
        ELSE IF state.session THEN Attached(p)
        ELSE [p EXCEPT !.session = FALSE, !.working = FALSE, !.ended = FALSE]

Take(state) ==
    /\ copy' = [copy EXCEPT !["main"] = Synced(state)]
    /\ coming' = [coming EXCEPT !["main"] = IF state.session = copy["main"].session THEN @ ELSE <<>>]

(* returnPane: the state first, and then the tile.  Nothing tries the      *)
(* queue it brings.                                                        *)
Returned(state) ==
    IF out
    THEN /\ out' = FALSE
         /\ Take(state)
         /\ left' = TRUE
    ELSE UNCHANGED <<out, copy, coming, left>>

(* The call of pop_out_pane fails, and the pane is back at once.           *)
PopFails(i) ==
    /\ popped[i].stage = "failed"
    /\ popped' = [popped EXCEPT ![i] = [stage |-> "done", state |-> NoState]]
    /\ Returned(popped[i].state)
    /\ ByMove
    /\ UNCHANGED <<callVars, entry, frame, front, last, report, inbox,
                   torn, crossed>>

(* pane_window_state as the frontend starts, and adoptSnapshot: the replay *)
(* meets an empty queue, and the queue is set after it.  The window alone  *)
(* changes its entry, so that what it was handed is still there.           *)
Adopt ==
    /\ front = "starting" /\ entry # NoState
    /\ front' = "adopted"
    /\ copy' = [copy EXCEPT !["own"] =
                   [(IF entry.session THEN Attached(Blank) ELSE Blank)
                        EXCEPT !.queue = entry.queue, !.held = entry.held, !.ended = entry.ended]]
    /\ left' = TRUE
    /\ BySession
    /\ UNCHANGED <<callVars, out, popped, entry, frame, last, report, inbox, torn, crossed>>

Lost ==
    /\ front = "starting" /\ entry = NoState
    /\ front' = "lost"
    /\ BySession
    /\ UNCHANGED <<copy, callVars, out, popped, entry, frame, last, report, inbox,
                   torn, crossed, left>>

(* initPaneWindow's first look, taken for what the main window has.        *)
Wire ==
    /\ front = "adopted"
    /\ front' = "wired"
    /\ last' = StateOf("own")
    /\ torn' = (torn \/ StateOf("own") # entry)
    /\ BySession
    /\ UNCHANGED <<copy, callVars, out, popped, entry, frame, report, inbox,
                   crossed, left>>

\* What flushNow would send; one report is on its way at a time, a bound of
\* the model.
Unsent == front = "wired" /\ StateOf("own") # last

Reports ==
    /\ Unsent /\ report = NoState
    /\ report' = StateOf("own")
    /\ last' = StateOf("own")
    /\ BySession
    /\ UNCHANGED <<copy, callVars, out, popped, entry, frame, front, inbox,
                   torn, crossed, left>>

Word(kind, state) == [is |-> kind, state |-> state]

(* sync.                                                                   *)
ReportLands ==
    /\ report # NoState
    /\ report' = NoState
    /\ IF entry = NoState
       THEN UNCHANGED <<entry, inbox>>
       ELSE entry' = report /\ inbox' = Append(inbox, Word("synced", report))
    /\ BySession
    /\ UNCHANGED <<copy, callVars, out, popped, frame, front, last,
                   torn, crossed, left>>

(* The window is asked to close: by its traffic light, by the main         *)
(* window's Put back, or by its own, which makes its report first.         *)
CloseRequested ==
    /\ frame = "up"
    /\ frame' = "closing"
    /\ BySession
    /\ UNCHANGED <<copy, callVars, out, popped, entry, front, last, report,
                   inbox, torn, crossed, left>>

(* The main window's Put back finds no window: the entry is taken to be    *)
(* what is left of one.                                                    *)
CloseUnbuilt ==
    /\ out /\ frame = "none" /\ entry # NoState
    /\ entry' = NoState
    /\ inbox' = Append(inbox, Word("closed", entry))
    /\ crossed' = TRUE
    /\ BySession
    /\ UNCHANGED <<copy, callVars, out, popped, frame, front, last, report,
                   torn, left>>

(* The window has gone, and its frontend with it.                          *)
Destroyed ==
    LET runs == front \in {"adopted", "wired"}
        stale == entry # StateOf("own") \/ Calling("own") \/ report # NoState
        sent == IF draining["own"].stage = "going"
                THEN {[word |-> draining["own"].word, how |-> "send"]} ELSE {}
        steered == {[word |-> m, how |-> "steer"] :
                       m \in {n \in Words : steers["own"][n] = "going"}}
    IN  /\ frame = "closing"
        /\ frame' = "none" /\ front' = "none"
        /\ last' = NoState
        /\ copy' = [copy EXCEPT !["own"] = Blank]
        /\ coming' = [coming EXCEPT !["own"] = <<>>]
        /\ draining' = [draining EXCEPT !["own"] = NoCall]
        /\ steers' = [steers EXCEPT !["own"] = [m \in Words |-> "none"]]
        /\ adrift' = adrift \cup sent \cup steered
        /\ torn' = (torn \/ (runs /\ stale))
        /\ entry' = NoState
        /\ inbox' = IF entry = NoState THEN inbox ELSE Append(inbox, Word("closed", entry))
        /\ ByMove
        /\ UNCHANGED <<out, popped, report, crossed, left>>

(* The main window hears of the pane's window: applyWindowSync, or         *)
(* returnPane.                                                             *)
HearWindow ==
    /\ inbox # <<>>
    /\ inbox' = Tail(inbox)
    /\ \/ /\ Head(inbox).is = "closed"
          /\ Returned(Head(inbox).state)
       \/ /\ Head(inbox).is = "synced"
          /\ IF out THEN Take(Head(inbox).state) ELSE UNCHANGED <<copy, coming>>
          /\ UNCHANGED <<out, left>>
    /\ ByMove
    /\ UNCHANGED <<callVars, popped, entry, frame, front, last, report,
                   torn, crossed>>

PopOutNext ==
    \/ TurnBegins \/ TurnEnds("finished") \/ TurnEnds("failed") \/ Exits \/ ClaimOrClose
    \/ \E w \in Window :
          \/ Interrupt(w) \/ Awaited(w) \/ SendLands(w) \/ SendReplies(w) \/ Hear(w)
          \/ \E m \in Words : Enqueue(w, m) \/ SteerQueued(w, m) \/ RemoveQueued(w, m)
                              \/ SteerLands(w, m) \/ SteerRefused(w, m)
    \/ \E c \in adrift : AdriftLands(c)
    \/ \E i \in Pop : PopOut(i) \/ Insert(i) \/ Build(i) \/ PopFails(i)
    \/ Adopt \/ Lost \/ Wire \/ Reports \/ ReportLands
    \/ CloseRequested \/ CloseUnbuilt \/ Destroyed \/ HearWindow

PopOutSpec == PopOutInit /\ [][PopOutNext]_popOutVars

-----------------------------------------------------------------------------
PopOutTypeOK ==
    /\ \A m \in Words : taken[m] \in 0 .. 2
    /\ \A w \in Window : StateOf(w) \in State /\ Len(coming[w]) <= MaxComing
    /\ \A w \in Window : draining[w].stage \in {"none", "waiting", "going", "yes", "no"}
    /\ {entry, last, report} \subseteq State \cup {NoState}
    /\ frame \in {"none", "up", "closing"}
    /\ front \in {"none", "starting", "lost", "adopted", "wired"}
    /\ (front = "none") = (frame = "none")

(* "Draining here too would send the next message twice": a message is     *)
(* given to the session once.                                              *)
SentOnce == \A m \in Words : taken[m] <= 1

\* No call, report or notice is on its way, and what was said is heard.
Moving == \E i \in Pop : popped[i].stage \in {"going", "building", "failed"}
Quiet ==
    /\ ~Moving /\ inbox = <<>> /\ report = NoState /\ ~Unsent
    /\ \A w \in Window : ~Calling(w) /\ coming[w] = <<>>
    /\ front \in {"none", "wired"} /\ frame # "closing"

Owner == IF out THEN "own" ELSE "main"

Holds(w, m) == \E i \in DOMAIN copy[w].queue : copy[w].queue[i].word = m
Waits(w, m) == [word |-> m, steered |-> FALSE] \in ToSet(copy[w].queue)

(* What the user wrote is sent once and otherwise kept in the queue of the *)
(* window that shows the pane, through every move of it, unless it moved   *)
(* with a state that was not the latest.                                   *)
Delivered ==
    ~torn /\ ~crossed =>
        /\ SentOnce
        /\ Quiet => \A m \in written : taken[m] = 1 \/ Holds(Owner, m) \/ m \in dropped

(* A pane that is out has a window that holds it, and one that is in has   *)
(* none: no pane is stranded outside every window, and none is in two.     *)
Placed ==
    Quiet /\ ~crossed =>
        /\ out = (frame = "up")
        /\ out <=> entry # NoState
        /\ out /\ ~torn => entry = last

(* The main window's record of a pane that is out, which is what it saves, *)
(* is what its window holds.                                               *)
Mirrored ==
    Quiet /\ out /\ ~torn /\ ~crossed =>
        \A m \in Words :
            /\ Waits("own", m) => Holds("main", m)
            /\ Waits("main", m) => Holds("own", m)

(* A queue that neither waits for the turn nor is paused is on its way,    *)
(* unless nothing has tried it since it was put where it is.               *)
Flows ==
    LET p == copy[Owner]
    IN  Quiet /\ ~torn /\ ~crossed /\ p.session /\ Free(p) => left

(* Where a pane is, what the registry keeps of it and what the main window *)
(* shows of it agree once nothing is on its way, as pane_windows.rs has it *)
(* of a pane in a window of its own.                                       *)
PopOutOK == PopOutTypeOK /\ Placed /\ Mirrored /\ Flows /\ Delivered
=============================================================================
