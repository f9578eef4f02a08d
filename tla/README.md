# Verifying worktreemanager (wtm)

wtm is a desktop program (Rust, Tauri, Svelte) that runs coding agents in git
worktrees. Agents can send each other work: an agent's tools can open other
sessions, ask them something and close them; a *Home* conversation sends work to
any session and hears how it went. This directory holds TLA+ models of that
core, the TLC runs that check them, and TLAPS proofs.

    Exchange.tla    what a tracked send promises: one ending, told and logged
    Turns.tla       waiting for a turn to end, and the message log
    Forest.tla      what the parentage of sessions means (pure definitions)
    Handoff.tla     tokens, parentage, and the threads that open and close sessions
    Parentage.tla   the hub's walks of the parentage map, against Forest
    HomeNews.tla    what Home hears of the work it sent out
    Session.tla     an agent session: its threads, its driver's steps, its pipes
    Codex, Claude, Cursor.tla   the three drivers, and their CLIs as they see them
    Sessions.tla    the Protocol trait over the three, and what it promises
    Replay.tla      a session's numbered events, and a window that attaches
    ShellRuns.tla   reviewed commands and the one prompt they compete for
    Hosts.tla       one child process and the threads about it
    Worktrees.tla   making and removing worktrees, by Home and by the dialogs
    Recipes.tla     recipe runs in one worktree
    Browser.tla     browser panes, and the agents that drive them
    PopOut.tla      an agent's pane and its queue, between two windows
    Surface.tla     the panes of the main window and the sessions behind them
    Handles.tla     the numbers by which Home names sessions, across quits
    *Proofs.tla     theorems: TurnsProofs, HandoffProofs and HomeNewsProofs; about
                    Recipes and Worktrees (WorktreeProofs), Hosts, ShellRuns and
                    Browser (ProcessProofs), Replay and PopOut (SessionProofs),
                    Sessions (DriverProofs, SteerProofs)
    MC*.tla, *.cfg  small instances for TLC

Run `tlc -config X.cfg M` for a check (`MCMachines.cfg` with `MCMachines`; a
violation's cfg with the module PROJECT.json names) and `tlapm XProofs.tla` for
a proof. PROJECT.json lists the runs, the mutants that show each property can
fail, the source lines each definition stands for, the findings and the hazards.

## 1. Inventory

### How the program is put together

    window (Svelte) ── commands.rs ── App (app.rs)
                                        ├─ agents: session map, one lock
                                        ├─ turns::Registry       watches
                                        ├─ messages::Log         exchanges
                                        ├─ handoff::Hub          tokens, parentage
                                        ├─ home::Registry        delegations, notices, jobs, handles
                                        ├─ shell_runs, shell_admission
                                        └─ hosts: pipe (agents), pty (shells)
    agent CLI ── pipe host's reader thread ── AgentSession driver ── AgentEventSink ── App
    agent CLI ── MCP over a unix socket ── bridge.rs ── handoff::run / home_tools

Everything is threads and short locks: a Tauri command, a tool call and a
session's reader thread each run on a thread of their own and meet in the
registries above. No lock is held across two registries except `agents`, which
`open_agent` holds while it binds a token. What is hard here is therefore
almost always the order of two threads' short critical sections.

### Components

| Component | State | Operations | What makes it correct |
|---|---|---|---|
| Turn registry (`turns.rs`) | watches by session, a channel each | watch, cancel, observe, gone, wait_until, send_tracked | every waiter is woken once, by its own turn's ending; the limit on watches |
| Message log (`messages.rs`) | a ring of exchanges | begin, settle, fail, settle_turns | an exchange in flight is owed an ending; it settles once, as its caller was told |
| Event sink (`agent_bridge.rs`) | – | on_event, on_exit, on_ready | record before observe before settle before Home, per session |
| Session registry (`app.rs`, `commands.rs`) | agents (scope, flags, approvals, replay), shells, resume list | open, close, end process, record event, terminate a worktree's sessions | what can be seen can be closed; what is closed stays closed |
| Delegation hub (`handoff.rs`, `bridge.rs`) | tokens, pending and recorded children | issue, bind, record, settle, forget, ask_agent, spawn_agents, close_agents | a child is under who opened it; a caller reaches only its own; nobody is left without an owner |
| Home (`home.rs`, `home_tools.rs`) | handles, opened, jobs, delegations, notices, scheduled | message_session, open_session, interrupt, close, worktree jobs | news reaches Home once, and only what it does not know |
| Protocol sessions (`crates/wtm-agent`) | a driver per session: phase, queued and carried messages, approvals | send_turn, steer, interrupt, answer, abandon, on_line | every message delivered once and ended; no steer lost; rest is shown |
| Shell runs (`shell_*.rs`, `home_shells.rs`) | per-shell gate, registry of runs, private socket, grant | prepare, approve, dispatch, consume, report, capture, stop, revoke, close | one command for each empty prompt; what is said of a run is so |
| Recipes (`recipes.rs`) | one run for each worktree, its steps | start, stop, dismiss, step over turns | one driver; each step built on the one before; an end that says what happened |
| Create and remove (`wtm-core/usecase`, `home.rs` jobs) | git, directories, jobs, the count of creations | plan, preflight, add, setup; check, teardown, remove | work is discarded only by force; rows end; one setup at a time where the project says so |
| Process hosts (`wtm-exec`) | sessions, pids, reader threads | spawn, write, signal, reap, wait | an exit is told once, after the last line; a wait answers |
| Browser panes (`browser.rs`, `browser_tools.rs`) | entries, load waiters, pending requests | open, navigate, act, close, callbacks | the cap; nobody sleeps past the load; one driver |
| Configuration and stores (`wtm-config`) | files | load, validate, save, trust | merged layers; whole-file writes |
| Pane windows (`pane_windows.rs`, `pane-windows.svelte.ts`) | the registry of panes that are out | pop out, sync, put back | a pane is in one window; its queue is with it, and sent once |
| Window (`src/lib/state`) | its copy of sessions, their queues | attach, replay, enqueue, steer, drain, open, restart, close, restore, adopt | no event lost or shown twice across a reload; a running session has a pane, and one |
| Everything else | | git, templates, code search, database console, dictation, update, usage | I/O and display |

PROJECT.json "components" repeats this list with what is modelled of each, and
"hazards" lists the places where the code is hard to test.

## 2. What is modelled

A step of every model is what one thread does under one lock, or one message on
a channel; everything a handler does between two locks is in the step after it.

### Turns (with `MCTurns`)

Callers run `admit`, `messages::begin`, `Registry::watch`, `send_agent_turn` and
`wait_until`; one reader thread per session runs `record_agent_event`,
`Registry::observe` (take the watches under the lock, send to each with the lock
released) and `settle_turns`; `on_exit` runs `gone`. Between them: the watches
(`watches`), each watch's channel (`chan`), the log (`ring`, `log`), the pane's
`working` flag, and the lines a session has still to report (`lines`). A turn
carries the prompts it owes an answer to, so that an ending can be called a
caller's own; a person's prompt, and a turn the provider starts by itself, are
actions too. A line may end a turn, report a failure that does not end it
(Claude's usage limit), or start one.

Exchange is what callers and the log may rely on, without watches, channels or
threads: an ending is decided once for each send, the caller is told that ending
or none, and the log shows it or lets the record go. The mapping (`CallStage`,
`EndingOf` in Turns) says when an ending counts as decided: when the reader takes
the watch out of the list, in the one step that other threads cannot split. From
there it is in the reader's hand, then in the channel, then read. The one
exception the code makes is stated in Exchange too: a send that the session
refuses after its watch was taken is written down by its caller and by the
reader, in either order.

`IInv` is the inductive invariant of the proofs, with the type invariant and the
two properties a reader asks for first as consequences (`InFlightIsOwed`,
`NeverLost`). `ToldAsLogged`, `SettledOnce` and `KeepsPromise` (the refinement)
are safety; `InFlightSettles` and `WaiterIsWoken` liveness.

### Handoff (with `MCHandoff`, `Forest`)

A pane stands for its session id and its token. Its opening thread issues the
token (`handoff_server`), spawns the CLI, takes the agents lock, inserts the
entry, binds the token, flushes the token's pending children and lets the lock
go; for a delegated pane the same thread then records the child with its parent
(`record_child_for`, in its two critical sections), waits for the turn and
settles the child. Closers run `close_agent` for a person or `close_children`
for a tool call: the list of closable sessions is asked once, the descendants of
each afresh, and each is ended, its token forgotten, its parentage forgotten. A
CLI may exit by itself at any time, and may call its tools before its own
`open_agent` has returned.

`IInv` holds tokens, parentage and session map together. `ParentIsOpener`,
`ShutForGood`, `ToolReachesOwn` and `ChildrenFirst` are what the code's comments
promise of them; `ChildSettles` and `CloseEnds` are their liveness.

### Parentage

The hub's walks (`collect_closable`, `collect_all`, the fixed point of
`forget_children`) as the code writes them, over every map that a sequence of
record, settle, forget, close and forget-the-worktree calls can build, compared
with the closed-set definitions of Forest, which Handoff uses in their place
(`ParentageOK`). A walk is a recursive function over the places it comes to.

### HomeNews (with `MCHomeNews`)

One Home conversation. A tool call (`deliver` in `home_tools.rs`) arms a watch,
tracks a delegation, sends, and may wait; when it stops waiting it releases the
delegation or takes the reply. A session's reader sends to the watches, then
settles the delegations, and tells Home's registry of approval requests. `file`
puts a notice into the news and starts a courier thread unless one is
`scheduled`; a courier sleeps, takes all the news, drops what is no longer true
(`prune`) and sends one message. Home may interrupt (`quiet`), and may be closed
(`forget`). Endings come at any time, whoever's turn they end: which turn an
ending belongs to is the business of Turns.

`NewsIsCarried`, `HeardOnce`, `TakenIsNoNews` and `StoppedIsSilent` say that no
notice is stranded, sent twice, or repeats what a tool call said or Home did;
`EndIsTold` that the end of a watched delegation reaches Home.

### Sessions (with `Session`, `Codex`, `Claude`, `Cursor`, `MCSessions`)

A session's callers and its reader thread compute steps under the driver's lock
and apply them (`run` in session.rs) after it is released, one at a time, so the
steps of two threads interleave on the CLI's stdin and on the screen. Each
provider's module is its driver's state machine: what queues a message before
the handshake, what starts a turn, what a steer becomes during one, what is
carried into the next, what a refusal, an interrupt, an approval, an abandonment
do. A message is a model value and a turn is known by the messages that started
it. The CLIs are external: they read their stdin in order, run one turn at a
time, read steers into it or answer that it is not the turn, may refuse, ask and
exit; one variant of Claude does not acknowledge steers.

`SessionsOK`: whatever is carried over, queued, clicked in two windows or
abandoned reaches the model, the screen and the wire at most once. `SteerKept`:
once nothing moves a steer has been read, or shown with a failure, or is carried.
`RestIsShown`: once nothing moves every message has had its ending and the pane
says so. `FinishHoldsElsewhere`: when the reader of a Codex or Cursor session
decides that a turn is finished, each message that joined a turn has been read, or
failed on screen, or has a turn of its own ahead: the request for it is with the
CLI, or its refusal is on the way back.

### Replay

`record_agent_event` numbers and keeps an event under one lock and the sink
announces it after; until `open_agent` has made the session's entry its events
wait in a bounded early buffer. A window that attaches asks for what is kept,
holds what arrives meanwhile, and joins the two by number; it may reload at any
moment. Two threads emit for one session. `BuffersOK`: numbers go up, also when
the early buffer becomes the session's, and the bound holds. `DrawnWhole`: each
event is drawn once, each thread's in order, with no hole but for what a bound
dropped (`cut`) or a newer value replaced. `ReplayOK` is both.

### ShellRuns

A run is prepared, approved by a person or by Home's grant, offered to a shell's
prompt through the registry and the gate of admission, taken by the shell's
widget, asked for by a helper with a one-use capability, run, and reported: the
outcome through the socket and the end of its output through the terminal, in
either order or never. The user may type, stop, revoke, adopt or close at any
moment, the five-second timer may fire, the shell, the helper or the command may die.
Home's end is gone through as the code does it, once for a close by its user
(`UserClosesHome`) and once for the exit of its CLI (`HomeExits`), which may overlap:
`close_home_runs` lists its runs and ends them one by one, waits for their children,
drops the grant, lists again, and marks what is not over as interrupted without
releasing it or sending it anything (`ForgetRun`, `left`); only a close takes the
session out of the map after that, an exit has it gone before. Meanwhile runs may be
prepared, dispatched and started, and a grant asked for while Home was there
(`AskGrant`) is given when it is not (`GiveGrant`). Of the runs ended together each is
killed and released in its own time (`Terminate`, `Settle`), in more orders than the
code has.

`ShellOK` (nothing typed is run into, ended runs are forgotten, completed ones whole,
Home's close spares the running), `GrantHolds` and `RunsSettle`. `EndedIsForgotten`
makes an exception of the runs `forget_home` only interrupted, and says for how long:
they keep the shell's place while somebody has still an answer to give that releases
them. `GrantHolds` says that a command which needs the grant starts only while it
stands, and that none of Home's starts once `on_exit` has been through them, though a
grant may stand for a Home that is gone.

### Hosts

One child under the pty or the pipe host: its streams, which a descendant outside
the group may hold open, the readers, the thread that reaps and tells, callers
that kill it or take its pid to signal a group, and a caller of `wait` with its
deadline. `HostOK`: the exit is told after the last line, the wait, the list and
the exit agree, and who gave up waiting finds the command gone. `HostsSettle`: a
wait is answered, and an ended session ends.

### Worktrees

Creation (plan, preflight, `git worktree add`, setup) and removal (checks,
the sessions in it, teardown, git's own removal, the branch), each from Home as a
job with a row and a thread or from a dialog, with a failure possible after every
step, over what git records, the directory, the branch and what is written there
meanwhile. `OnlyForceDiscards`, `NoGhostBlocks`, `RowsSettle`, and the type
invariant with what the count of creations counts.

### Recipes

The registry that admits one run in a worktree, and the thread that drives its
steps, which may be refused when it is to be spawned (`driver` is "never": the record
says running and nobody drives), against a person who stops and dismisses runs, types
into the panes and closes them. A session answers its prompts in order, one turn
perhaps several (the CLI is external), and each turn's ending settles whatever watch
is armed on the session: the reply a step `took` is known by the prompts it answers, a
person's or those of an earlier step that timed out among them. Arming the watch and
sending are one step; what may come between them is the business of Turns.

`RecipesOK`: one run drives, and what is on record as running has its driver or never
had one; a step is `built` on what the step before took for its reply, if that one is
done, and on nothing otherwise; what a step took answers a prompt of its own
conversation, and no step's prompt is answered to two of them (`AnsweredOnce`); a
carried conversation is the same session's; a run's end agrees with its steps. And
`RunsEnd`. That what a step took is not always its own (`NotFromTwoBack`), and that a
run without a driver stays in the way (`StoppingMakesWay`), is in section 5.

### Browser

Entries and their cap, webviews built later on the main thread, navigations that
WebKit starts and ends, waiters woken by a callback, requests to the page with
their deadline, an agent's drive of a pane, closes that drop requests and
waiters one lock at a time. `BrowserOK`.

### PopOut (with `MCPanes`)

An agent's pane has a queue of messages that the window showing it sends, one
when each turn ends; a message may also be steered into the turn, or taken back,
and Stop, a failure or the CLI's exit pauses the queue. Moving the pane into a
window of its own hands a snapshot to the registry, which keeps the latest for
the window's frontend to adopt and for the main window to get back. `copy` is
each window's record, `coming` the events it has still to hear, `draining` and
`steers` its calls on their way, `entry`, `frame`, `front`, `report` and `inbox`
the move. A call whose window goes reaches the session all the same (`adrift`).

`PopOutOK`: what the user wrote is sent once, or is in the queue of the window
that shows the pane (`Delivered`); and once nothing is on its way, a pane that is
out has a window that holds it and one that is in has none (`Placed`), the main
window's record of its queue is the window's (`Mirrored`), and a queue with
nothing in its way is not left standing (`Flows`).

Four things the code does would break these, and each has a history variable
that takes exactly its states out: `torn` (the pane moved with a state that was
not the latest: a send on its way, a CLI still starting, a change not reported
when the window closed), `crossed` (Put back between the entry and the window),
`left` (a queue set after the replay, which nothing tries), `dropped` (a steer
refused after the end of its turn). Section 5 says more of them.

### Surface (with `MCPanes`)

The main window's panes of agents and shells in one worktree (`panes`), and the
sessions of the application (`live`). Opening, restarting, reattaching and
filling a pane wait for the application in the middle: `fills` are these calls,
from the request (`sent`) over the session that runs (`made`) and its replay to
the moment the pane has it or, if the pane has vanished or moved on, closes it
(`claimOrClose`). `waits` are closes a handler waits for, `doomed` those nobody
waits for. `remember` writes `saved` in the step that calls it. Sessions delegate,
die and are released on their own, and the window hears of it later (`news`), in
the order the events were emitted. `Reload` and `Relaunch` leave `saved` and, the
first, what runs: init then hears events, lists the sessions, restores what is
saved, and gives each listed session the pane that was left for it or one more.
A call made before a reload reaches the application all the same.

`SurfaceOK` is the conjunction of: `NoneStranded` (a running session has a pane
that shows it, or somebody about to give it one or to close it), `OnePaneEach`
(no two panes show it), `EndsAreShown` and `EndedIsOver` (a pane says that its
session is over when, and only when, it is), `DetachedIsIdle` (no card offers to
start what runs, but where two panes have one id: `blank` counts from nothing after a
relaunch, and a session announced before the restore takes an id it brings back), `ComesBack` (what is saved puts each running session back in
its pane), `Together` (a restored child is under its parent again, so that
closing the parent finds it).

Where the code allows otherwise a history variable takes exactly those panes or
sessions out: `shared`, `retried`, `doubled`, `missed`, `unheard` and, for
`Together`, `kin`. Section 5 says what each is.

### Handles (with `MCHomeNews`)

Home's tools name a session by a number. A tool call and a courier both ask for
one. Each goes through `ensure_handles` first, as the code does, under one lock after
another: are there handles (`Ensure`), what has the file (`Load`), what does the
transcript mention (`Floor`), and put them in memory over whatever is there by then
(`Install`). So both may load, and the second overwrite what the first has used
(`crossed`): the courier of `home::interrupted` tells a resumed Home of what the last
run was waiting on (`untold`), which may be before any tool call and during the first.
`handle_for` then reads whether the session's conversation has a name, mints or finds
under the registry's lock, and saves: a form taken under one lock is written to the
file under another, while a reader thread may bind the handle to the conversation it
has just been told of. Home may be closed and resumed, or the program may quit or die
and be started again at any step; what is read back is the file and whatever the
transcript mentions, which may be cut short. A write may fail, and the file may forget
this Home. Left out: a Home that is closed while one of its callers loads.

`NeverAnother`: a number that Home has read of one session never comes to name
another. Two things keep this, the file and the transcript, and only if both fail
can a number be given out twice: the file must be behind what was said, or Home
have gone with something that was not in it (`behind`, `lost`); and the transcript
must have been cut short, or a form that a closed Home had still on its way have
been written after the next was resumed, over what that one saves (`cut`, `late`).
Neither helps when two callers load at once (`crossed`): `NeverTwice`, section 5.
`KeepsItsName`: a conversation answers to its old number; it gets a second one if
`behind`, `lost` or `crossed`, or if its name came around the minting (`missed`).
`FileFollows`: once every thread is done the file has what is bound.
`HandlesOK` is all three.

### The runs

| Run | Bounds | Shows |
|---|---|---|
| turns | 2 callers, 1 session, a log of 1 exchange, 2 watches; fair | the log and the caller are told one ending whatever is evicted, refused or given up; every exchange settles, every waiter wakes; Turns implements Exchange |
| handoff | 3 panes, 2 closers | tokens, parentage and the session map at every interleaving |
| home_news | HomeNews: 2 calls, 1 session. Handles: 2 conversations, 2 sessions opened, 1 resumption, a file that keeps 1 handle | the notices at every interleaving; what a number names, through saves, quits, resumptions and two callers that load |
| sessions | 2 messages (one may be Codex's /compact), 1 approval, 2 clicks, every refusal, each provider; two messages meet one click, or Stop and a close, and one message Stop, a close and both clicks | no message doubled, lost in a steer, or left without an ending |
| panes | Surface: 3 sessions, 3 panes, 2 opens on their way, 2 looks at restored shells, a reload and a relaunch. PopOut: 2 messages, 2 events a window has still to hear, 2 clicks, 2 moves. `cast` picks what takes part | a pane for every session and one only, across reloads; where a pane that moves is, its queue, and that nothing is sent twice |
| machines | Replay: 2 sessions, 3 events, 1 reload, an early buffer of 1. Worktrees: three of 4 calls and a pane at one place. Recipes: 2 runs of 3 steps. Browser: 2 calls, 3 panes, a cap of 1 | the safety of four components |
| shell | ShellRuns: 2 runs, one of Home's, or that one alone; 2 prompts, 2 moves of the user, Home or the shell | its safety, through every way a run, the shell and Home end |
| machines_live | Hosts: 1 killer, 1 taker, 1 line a stream. ShellRuns: a run of Home's. Worktrees: a creation and a removal by Home. Recipes: a run of 2 steps. Parentage: 4 sessions. Handoff: 2 panes, 2 closers. HomeNews: 1 call | their liveness, Hosts' and Parentage's safety |
| turns_own_ending, handoff_no_orphan, home_news_told_is_heard, sessions_never_lost | | *violations*, section 5 |

machines and machines_live put components that share no state side by side: a
variable `machine`, fixed by Init, says which of them moves, and the others keep
the first of their initial states. The states of such a run are those of its
components, one after the other, so each property is checked as it would be
alone. In machines `cast` picks which callers of the component take part; where
several do, the bounds on their events together are tighter, as `MachinesNext`
says, and each caller alone has the full bounds; whether the failure of a recipe's last
step stops the run makes no difference, and it does not. In shell two runs share prompts
and moves, and the one alone has two of each. In machines_live Home is closed or ends by itself, not both. In home_news `machine` chooses
between the notices and the handles; handles meet one mishap (a failed or
overtaken write, a transcript cut short, something lost with Home, a second load, a
name that came late, an old handle trimmed) at a time, and a courier while only one
conversation has been opened or, once Home has been resumed, with what the last run was
waiting on. In panes `cast`
chooses between Surface and PopOut. To PopOut's prompts, moves and one queued
message it adds either a second message with a steer or with one taken back, a
steer and the CLI's exit, the exit, Stop and failures, a CLI still starting, or a
second move. For Surface it names the operations that meet (opening agents or
shells, delegation, restart, close, looks, reattaching, exits, the end of the
worktree, reload, relaunch), with as many sessions and panes as these leave room
for; init, claims and what is heard are always there. Where sessions delegate,
one pane is opened by hand.

Three panes give a grandchild, a sibling and a stranger; two closers meet on one
subtree; two calls to one session give two delegations in one batch and one
call's ending settling the other's watch; two messages give a steer and the
message that started the turn, or one carried and the next; a log of one exchange
is full at once; an early buffer of one evicts at the second opening; three
sessions are one, its successor in the same pane and a child; three steps
give a step after a failed one and a carried conversation across it.

Where several facts of one component are checked together, the invariant is a
conjunction of named parts (`SessionsOK`, `ReplayOK`, `ShellOK`, ...), each
stated and explained on its own in its module.

## 3. Bounds, symmetry and fairness

Bounds are constants of the instances and are named where a module declares
them: the numbers of callers, sessions, panes, calls and messages; limits of the
code taken small (the log, the watches, the early buffer, the cap on panes); and
bounds of the model alone, on events, reloads, prompts, navigations and the moves
of users (`MaxEvents`, `MaxReloads`, `MaxPrompts`, `MaxMoves`, `MaxLoads`, `MaxComing`,
`MaxClicks`, `MaxPops`, `MaxOpens`, `MaxHomes`, `MaxSids`, `MaxIds`, `MaxFills`,
`MaxLooks`, `MaxWindows`, `MaxTurns`; Surface closes one pane at a time). `MaxKept` is the code's limit on
the handles a file keeps of one Home, taken small.
Every passing run explores its whole state space. Deadlock is not checked: the
program may rest when nobody sends, opens or closes anything, and in these
models every actor makes a bounded number of moves. Closers, calls, clicks,
PopOut's messages and Handles' conversations are interchangeable and are declared symmetric in the
runs without liveness.

Fairness is assumed only of threads and of what the code starts by itself:

- a thread that can take its next step does (weak fairness of each caller's,
  opener's, closer's, reader's, courier's, timer's, driver's own steps): they
  are ordinary threads on short locks, parking_lot's mutexes being eventually
  fair;
- in Turns, a turn that runs ends or its process goes (weak fairness of
  `TurnLine \/ Exit`); in HomeNews the same, with strong fairness because the
  model lets approval requests come before it without end, and the reader is
  busy with each in turn;
- a deadline the code itself keeps passes: the timer of a reserved run, the
  helper's report deadline, a wait's, a recipe step's;
- in ShellRuns a helper and its command end, which the timeout of `run_inherited`
  sees to;
- nothing is assumed of users, of CLIs, of an escaped descendant, of anyone
  sending, delegating, interrupting or closing.

## 4. What is proved

For any number of callers, sessions, panes, closers and calls, and any limits,
TLAPS checks (`TurnsProofs`, `DriverProofs`, `SteerProofs`, `HandoffProofs`,
`HomeNewsProofs`, `SessionProofs`, `WorktreeProofs`, `ProcessProofs`) that each
specification's inductive invariant `IInv` holds, and from it:

| Theorem | Property |
|---|---|
| TurnsProofs!InFlightOwed | an exchange in flight has an armed watch, a reader that took it, or a caller about to fail it |
| TurnsProofs!NotLost | a waiting caller has an ending to come |
| TurnsProofs!ToldIsLogged | what a caller was handed is what the log shows |
| TurnsProofs!SettlesOnce | an accepted prompt's exchange settles once |
| TurnsProofs!WatchLimit | the limit on watches |
| TurnsProofs!PromiseKept | every step of Turns is a step of Exchange or none |
| DriverProofs!SessionsAreOK | no driver puts a message in a turn twice, shows it twice, or answers an approval twice |
| SteerProofs!FinishesHold | when the reader of a Codex or Cursor session decides that a turn is finished, what joined one was read, failed on screen, or has a turn ahead |
| SteerProofs!SteersAreKept | once nothing moves, a message that joined a turn has been shown, once, and read or failed on screen, or Codex carries it |
| SteerProofs!RestsAreShown | once nothing moves, the pane shows no turn and what a driver past its handshake took has had its ending |
| HandoffProofs!ParentageIsTrue | a child is on record only under its opener, once |
| HandoffProofs!BoundBeforeSeen | what can be looked up has its token bound |
| HandoffProofs!ShutIsShut | what was closed has no token, entry or process again |
| HandoffProofs!ToolStaysBelow | close_agents reaches only its caller's offspring |
| HandoffProofs!ChildrenEndFirst | a closer ends a session after those it has to end below it |
| HandoffProofs!WalksAreWhole | the walks of the parentage map, and the worklist that forgets a subtree, find what Forest says they should |
| HomeNewsProofs!Carried | news on file has a courier that has still to take it |
| HomeNewsProofs!SentOnce | no notice is sent twice |
| HomeNewsProofs!InPerson, Silenced, ReplyFound | a reply taken in person is not news, nor the end of a turn Home stopped; a call that gives up finds its delegation or its reply |
| HomeNewsProofs!HandlesSafe | a number never comes to name another session, a session keeps its handle across quits, the file has what is bound, but for the mishaps sections 2 and 5 name, two callers that load at once among them |
| SessionProofs!ReplaySafe | the window draws a session's events once, each thread's in order, none missing; what is kept is numbered upwards and bounded |
| SessionProofs!PanesKept | once nothing is on its way, a pane is in one window and the main window has what that one holds, its queue does not stand still, and what the user wrote in it was sent once or is there, but for the mishaps section 5 names |
| WorktreeProofs!RecipesSafe | one run drives a worktree at a time; a step is built on what the step before it took for its reply, which answers a prompt of its own conversation and is given to one step; the record says what was done |
| WorktreeProofs!WorktreesCounted | the count that admits a setup is that of the guards held |
| WorktreeProofs!ForceDiscards | only a removal told to force discards work |
| WorktreeProofs!GhostsBlockNothing | a checkout deleted by hand makes no creation fail |
| ProcessProofs!HostSafe | an exit is told last, the answers to all who wait agree, who gave up finds the child gone |
| ProcessProofs!ShellSafe | what is over is released, or was left by Home's closing and has an answer to come that releases it; completed means whole, a command never joins what the user typed, one at a time |
| ProcessProofs!GrantHoldsAlways | a command that needs Home's grant starts only while it is granted, and none of Home's once its exit has been gone through |
| ProcessProofs!BrowserSafe | the cap on panes, nobody sleeps on a load that is over, one call drives a pane |

and type correctness of each. The assumptions are those the modules state
(limits are positive or natural, model values are distinct, `Callers` and
`FirstTabs` are finite, `Shown` are sessions, PopOut's `NoState` is neither a state
nor a message); the bounds on events, reloads, loads
and moves are constants too, so that no theorem depends on a value of theirs.

**Turns.** None of the properties is inductive: that a waiting caller has an
ending to come needs to know where its watch is. `IInv` follows a watch from the
registry (`ArmedInv`: armed, channel empty) through the reader's hand
(`SendingInv`, `SettlingInv`: taken, sent or not, never both) to the caller
(`CallInv`), and says at each place what the log may show. A refused prompt is
the exception throughout: two threads may settle it.

**Turns implements Exchange.** `IInv` and `HandedInv` (what a caller was handed
came out of its channel, and whoever is being refused has the reader's ending
there) make the mapped ending constant from the moment it is decided. One lemma
says that taking a session's watches is `Decide` for all of them at once (or a
stutter when there are none); `Begin`, `Fail`, `WaitEnded`, `GiveUp` and `Settle`
are the other five actions, and every other step leaves the mapped state as it
was.

**Sessions.** `SessionInv` holds for the three drivers under one trait, each of
which is shown to *deal*: what the steps of a call show, hand over and reply to is
what the driver held or was just given, each once, and it holds it no longer
(`CodexDeals`, `ClaudeDeals`, `CursorDeals`). `Shape` gives what drivers, threads,
pipes and CLIs hold; from it `AskOnce` says of each approval, `EchoOnce` of each
message as far as the screen goes and `PromptOnce` as far as the model goes, that
it is in one place. Codex alone takes messages back, when a steer is refused or a
turn ends over it, and `CodexPlace` is what makes that safe: a message the driver
may take back is in no frame, no inbox and no turn. It relates a steer to its
request, the acknowledgement and the item that says that it was read (`SteerPlace`),
and what the driver takes for the active turn to the one the app server runs
(`TurnKnown`, `TurnRuns`).

`FinishHoldsElsewhere` needs three more parts. `HandOK` is the handshake of Codex and
Cursor: at most one of its requests is on its way or of its answers to be heard, and
none once the driver is ready. `EarlyOK` says that Codex sends no turn before that,
so nothing is said of one, and that a message said to have been read is in a turn.
`AllAccounted` gives every message that joined a turn a place: still
with the driver, on its way, in a turn, in a refusal to be heard, or failed on screen.
As the property was first stated, that what joined was read or had failed or was
carried, three messages refute it: a steer may be carried into a `turn/start` that is
on its way behind another message's turn, and for Cursor a prompt may wait in the CLI.
The run had two messages. The statement now allows the request that is with the CLI,
and its refusal on the way back; the theorem holds for any number.

`SteerKept` and `RestIsShown` speak of a session in which nothing moves, so `RestInv`
says of every state what must still move. Of all three: a message that joined a turn
is held to be shown, about to be, or shown, as long as there is a CLI (`EchoesGo`).
Then, by provider. `CodexRest`: the end of a turn that the app server no longer runs
has been told and comes after everything that could open it (`EndsTold`); each steer
and start waited for is on its way or answered (`SteersAsked`, `StartsAsked`); a pane
that shows a turn, or owes an ending, has something under way or an ending about to be
shown (`RunsBusy`, `OwesBusy`). `ClaudeRest`: a driver that is not idle has work ahead
of it, a turn, an inbox or a frame to be read, or a result to be heard (`WorkAhead`),
and what is told of a turn is followed by its result once there is none ahead
(`TurnsEnd`); a message the driver takes to be queued is in the inbox, or the line
that it was taken is still to be heard (`KeptInside`), which is why a result heard while one is queued does not end
the pane's turn. `CursorRest`: every prompt the driver takes to be in flight is on its
way, run or answered (`PromptsAsked`), the same message is never in two of these
(`GivenOnce`), and messages are carried only behind one (`CarriedWaits`). That the thread
of a call writes its prompt after it shows that a turn started is what `CallersWrite` and `CallersStart` are for: in between the pane
shows a turn which nothing but that thread's next step has begun.

**Handoff.** `OrderInv` (panes are numbered after whoever asked), `LiveInv` and
`TokenInv` (how far an opening has come tells where its entry and token are),
`KinInv` (a recorded child names its opener), and `IdleInv`, `CloseInv` (what a
closer has in hand is open, and what it has dropped has no process). That the
tool stays below its caller follows because a walk of recorded children stays
inside the history of who opened whom: a set closed under offspring is closed
under recorded children. That children end first follows the other way round
(`VictimsInv`): of what a closer has to end, everybody but the first opened has its
opener there too, so a descendant of the one it ends that is still on its list
would give it an own child there.

**Parentage.** The walks are recursive functions over `Spots`, a session and how many
of its children have been passed. `HubInv` is what makes them end and find nobody
twice: a child comes after its parent, is on one list, once, and has been recorded.
That there are such functions is proved from the top down (`WalkExists`): the value at
a spot is made of the one before and of all of a later session's. What they give is
proved at a spot of which no value it is made of is wrong (`SpotLeast`): the subtrees
passed, in the order the code finds them, which joins lists because two children's
subtrees have nobody in common (`SubtreesApart`). The count is of a union of disjoint
finite sets. The worklist reads `MaxSessions` times: a list on which no session comes
twice is no longer than that (`NoLonger`, by the pigeonhole principle), so nobody on it
is left unread, and it is closed.

**HomeNews.** `WatchInv` (a settling watch has sent its reply), `RecordInv` (a
waiting call has its delegation on record or its reply in the channel),
`AwaitInv` (while it waits no notice of it exists) and `NoticeInv` (a notice
that a turn ended means its delegation is gone and Home did not stop it).

**Handles.** What may one day name a session is `Claimed`: what has been said, what
is in memory and in the file, and the forms on their way to it from a Home that has
not been resumed since. `NumberInv` says that no number is claimed for two
conversations and that the numbering in memory is past all of them, as long as the
transcript was whole and no old form came late; `FileInv`, as long as the file
follows and nothing was lost, that what has been said is in memory, and when nothing
is in memory, in the file, together with every form on its way. Either gives
`NeverAnother`, as long as nobody has installed over another's handles. That needs
`LoadInv`: what a caller has loaded and not yet installed goes with the file, unless a
mishap is on record, and with what has been said as long as nobody has handles; a
caller that loads nothing looked before Home had a name. `NameInv` adds that a conversation has one handle and that one
which is not bound belongs to a session that has no name yet or whose reader is
about to bind it; `SavedInv` that what is bound is in the file or in the form some
thread is about to take or write. The proof found `NeverAnother` wrong as it was
first stated, without `late`, which takes two resumptions to show; the run has one.

**Replay.** `ReplayOK` speaks of the end of the way, what is drawn; `ReplayInv`
follows an entry along it. An entry is in the buffer (`kept`), in the snapshot on
its way, held, drawn or with the thread that will announce it, and `OnceInv` says
that it is the same entry in all of them, that who has still to announce it is not
held, and that it is drawn already only when its number is not above `through`.
For a session nothing of which was dropped, its number is its place
(`OrderInv`), and `WholeInv` says that the buffer reaches to the last event and
misses nothing above its first but superseded values; that a snapshot does the same
up to its own last, and what comes after is held or still to be announced; and
that after the claim the same is so of what is drawn. `Among`, which
both the buffer and the window use to leave entries out, is a recursive function: that
it keeps the order and exactly the entries asked for (`AmongFacts`) is proved from
the least length for which it would not, by the well-foundedness of the naturals.

**PopOut.** `PopOutOK` speaks of a pane about which nothing is on its way, and does
not survive the first step that moves it. `PaneInv` says at every moment where the
pane is and what must still happen, in ten parts beside the types. *Where it is.*
`PlaceInv`: a pane that is out is in exactly one of a `pop_out` call on its way, a
window, and a last notice that its window closed; it is taken back by that notice
alone. `LinkInv`: only the window the pane is in, its `Owner`, makes calls for it; and
the window's state, its unsent report, the report on its way, the registry's entry and
the last notice in the inbox agree but for what the first of these still carries to the
next. *What is heard of the session.* `HeardInv`: an exit is the last event a window has
to hear and no call is refused before it; what was echoed or acknowledged had been
taken. `MuteInv` and `OpenInv`: a window without a session has nothing to hear, and a
pane is not moved, and knows of no turn, while its session opens. *The queue.* `Kept` is
the queue wherever the pane is, in a record, a snapshot on its way, an entry or a
notice. `KeepInv`: a message was given to the session once, or stands once in `Kept`, or
was dropped; `SendInv`: what is on its way to the session, or waits in `Kept` unmarked,
has not been given to it, so that no step gives it twice; a message marked as steered
was given, or its call is on its way (`RefuseInv`: or its refusal is). `FlowInv`: a queue
with nothing in its way is being sent, or the exit that pauses it is still to be heard.
`MirrorInv`: the main window's record of a pane that is out has the queue which the
registry or an unheard notice has. These hold while the pane has not moved with a state
that was not the latest, or lost its entry (`torn`, `crossed`), and no earlier state was
either. The conjuncts of `PopOutOK` follow one by one (`PaneIsPlaced`, `PaneDelivers`,
`PaneIsMirrored`, `PaneFlows`). `Only`, which leaves entries out of a queue, is a
recursive function, and what it keeps is `AmongFacts` again.

**Recipes.** `RecipesInv` says of each run where its driver may be, given what its
record says, and that of all runs one drives. `RunInv` also follows a prompt from the
session it was sent to (`RunAsks`: it waits there once, and was answered to nobody)
through what the watch was settled with (`RunHears`) to the step that took the answer
(`RunTakes`); the next step is built on that (`RunBuilds`).

**Worktrees.** `CountInv` says who holds a guard, and that `creating` is how many do;
`ResultInv` that whoever has come to its last stage has a result, and that only
Home's calls have a thread and a row; `AskedInv` that a call that has begun has its place. With
these the two action properties are settled step by step: what discards work is
git's removal alone, which has looked at the checkout in that same step and wants
`force`; and a creation prunes git's records before it asks whether its branch is
checked out.

**Hosts.** `ReportInv` follows the reporting thread: it waits for the child after
both streams have ended, and publishes and tells the verdict it reached. `WaitInv`
sets the one who waits against it: when it has answered, its answer is the
outcome, or somebody intervened for another reason before. `EndInv` says that
whoever intervened first ends the child or has it still to do.

**ShellRuns.** `PlacedInv` says how far the start of a run has to be for the
registry, the gate and a helper to know of it; `HelperInv` that there is one helper
at a time, with the shell behind it, and when its child may be alive; `EndedInv`
that what is over is being released or has been, unless Home's closing left it, and
that what completed has its report, its output and a dead child. `OwedInv` goes after
what was left: whoever holds the shell's place or a capability is being released, or
its starter, the shell or its helper has still something to say for which it will be.
`LeavingInv` says that once Home's exit has listed its runs, each is over or on the list. `GateInv` is what `GrantHolds` needs: while a
run has the prompt and no key has outdated its reservation, nothing of the user's is
on the line, and what was validated for a grant is still so.

**Browser.** `SleepInv` says that a call that sleeps and has not been called is on its
pane's list, and that the pane is loading, or its load is ending or the pane being
forgotten by a thread that has yet to go through the list; `LoadsInv` that a
navigation is counted before it is queued, `IdInv` keeps panes, loads and calls
apart, and `DriveInv` says whose turn a pane is.

Model-checked only: all liveness (`InFlightSettles`, `WaiterIsWoken`,
`ChildSettles`, `CloseEnds`, `EndIsTold`, `RowsSettle`, `RunsEnd`, `RunsSettle`,
`HostsSettle`), which is out of the prover's reach; and `SurfaceOK`, which was not
reached: the invariant it needs relates the panes, the sessions behind them and what is stored of both, over every
handler that waits.

## 5. Where the code and what it says of itself disagree

Each of these is a run that TLC ends with a trace; PROJECT.json quotes the line
the code disagrees with.

1. **A foreign turn's ending settles a watch** (`turns.rs`, OwnEnding). `working`
   is read before the watch is armed; a turn that starts and ends around that
   moment hands its reply to the wrong caller.
2. **A child whose parent is closed before it is recorded stays open, with no
   owner** (`app.rs`, NoOrphan).
3. **Home may never hear that a session waits** (`home.rs`, ToldIsHeard): the
   notice is pruned when the user answers quickly, the flag stays, and the next
   request makes no notice.
4. **A steer can be lost from sight** (`codex.rs`, Sessions' NeverLost): refused
   while the next turn/start is on its way, it is carried, and if that start is
   refused too nothing sends or shows it until some later turn ends.

More promises are stated in the modules and fail. PROJECT.json lists no run for them.
Five have a cfg here, with which TLC ends with the trace:

- `NeverTwice` (MCHomeNewsNeverTwice.cfg with MCHomeNews; Handles alone, with nothing
  amiss but the race, as `RaceNext` says): two callers that load Home's handles at once
  give one number twice, though app.rs:2685 says that numbers are never given out twice.
  The first run names a session *a*; the program is started again. The courier that
  tells Home of what was interrupted finds no handles and loads them; so does a tool
  call, which installs them first, mints the next number for *b* and says it; the
  courier installs over that, and the next tool call gives the same number to *c*;
- `NothingRanIsTrue` (ShellRunsNothingRan.cfg with ShellRuns): "Nothing ran", which is
  what shell_commands.rs:240 has a run say that was not taken in time, may be said of a
  command that ran. The five-second timer finds the run reserved under its lock, lets
  go, and ends it, by when the helper may have taken the command and started it. A
  revocation picks its runs in the same way, but `consume_if` looks for the grant under
  the run's lock, so that nothing starts after it unless the grant is given again;
- `ClosingEndsAll` (ShellRunsClosingEnds.cfg with ShellRuns): Home's closing leaves a
  command running, though shell_control.rs:360 speaks of a grace period for all run
  children. `close_home_runs` lists the runs to end, one more is prepared and
  dispatched, and `forget_home` marks it interrupted without a word to its helper. The
  command starts, or runs on, and whatever ends runs later passes it over as settled;
- `NotFromTwoBack` (RecipesTwoBack.cfg with Recipes): a step is built on the reply from
  two steps back, which recipes.rs:1021 says it is not. A step times out and its turn
  goes on; the next is sent to the same session and takes the late reply for its own,
  and the third is built on it;
- `StoppingMakesWay` (RecipesStopping.cfg with Recipes): a run whose thread could not be
  spawned stays in the way. Its record says that it runs, it cannot be dismissed,
  stopping it sets a flag nobody reads, and no other recipe is admitted in the worktree,
  where recipes.rs:307 says to stop it first.

For the others put the formula in the place of the one a cfg checks:

- `FlushedByBind` (INVARIANT, in MCHandoffNoOrphan.cfg): a child can be queued on
  a token that was flushed, as `record_child_for` lets one lock go before it
  takes the other;
- `BusyNeverClosed` (INVARIANT, the same cfg): close_agents can end a busy
  grandchild, as `close_agent` walks the map again;
- `FinishHolds` (PROPERTY, in MCSessionsNeverLost.cfg): Claude's driver shows a
  finish over a steer that its CLI has not acknowledged yet, as it cannot tell
  that from a CLI that never does;
- `OneAtATime` (INVARIANT, of Worktrees with `HomeMakes` of two, `MaxRunningJobs`
  of 2 and `OneGlobally` TRUE): app.rs:805 says that Home refuses to start a
  second creation in a project that allows one, but the count is read before
  planning and taken on the thread started afterwards;
- `SentOnce` (INVARIANT, in MCPanes.cfg): a queued message is sent twice when its
  pane is popped out while the first send is on its way, as sessions.svelte.ts:4472
  says draining in both windows would.

Six cases are left out of what PopOut and Handles state, each by a history
variable, and are things the code can do. A pane moves with a queue that is not
the latest (`torn`). Put back during the build takes the entry of a window that
then comes up with nothing to show (`crossed`). A queue that comes with a pane
after its turn has ended is tried by nobody until the next turn ends (`left`). A
steer that is refused after the end of the turn is gone (`dropped`). What a Home
that has been closed was about to save is written after the next has been resumed
(`late`): it may have a number that nobody had been told yet, and that the resumed
Home has since given to another session; a third Home, which reads that file, takes
the number for the first. And a
session whose conversation is named while its handle is being minted keeps two
numbers (`missed`), of which the older names nobody after a quit, although
app.rs:2684 says that a restored session answers to its old handle.

What Surface leaves out, in the same way (and, without a history variable, the card
of one of two panes that have one id):

- `shared`: two handlers fill one pane. `materialise` run twice fills a restored
  shell twice, as its list is made before it waits and it does not look at the
  pane again; restart beside an open still on its way does the same, as a shell's
  reply looks at no generation and an agent's takes the generation only once the
  session is there. The earlier session then runs with no pane.
- `retried`: a pane that heard of its session's exit while it was restored, or
  got its next session by another way than restart, keeps `ended`: its next
  session is shown as over, and restart then does not close it.
- `doubled`: a session announced while init waits to adopt it gets two panes, as
  `adopt` does not ask `paneBySession`.
- `missed`: an exit heard before any pane has the session is dropped, as nothing
  keeps it the way `readyAhead` keeps readiness; the pane looks alive.
- `unheard`: an open of a window that was reloaded, done after the new one had
  listed the sessions, runs with no pane until the next reload.
- `kin`: a parent that is restarted, or whose first restored session is refused,
  gets no children with its next session, as `claimSession` has let the orphans
  go; closing it then leaves them.

The models reach other cases that no statement of the repository speaks of, so
that there is no property to fail. In Turns and HomeNews: a refused prompt whose
watch the reader took first is settled by two threads and may stay answered; a
Home delegation recorded after its watch was taken stays on record; Home may be
told that a turn ended whose message it was told was not taken; two couriers may
send their batches in the other order; an interrupt that fails leaves its
delegation quiet. In Handoff: a child that settles while it is queued on its
parent's token is flushed as unsettled. In ShellRuns: a run cancelled between the
registry's reservation and the gate's leaves the gate reserved until the shell
refuses it; a grant asked for while Home was there may be given when it has gone, and
stands without starting anything. In Recipes: after a timeout the step's turn goes on while the next
recipe may start. In Worktrees: git's prune, whose error create.rs:196 discards and
which passes over a locked entry, never fails in the model; a session opened between the listing and the end
of a worktree's sessions outlives the directory; an error after `git worktree
add` leaves the worktree there. In Browser: a fast page's end comes before the
mark that it loads, and the mark stays; a request put on record after its pane
was forgotten waits for its deadline; a webview built after its pane was closed
has no entry.

## 6. What is not modelled

Texts (prompts, replies, labels, errors) are abstracted to their identity.
Framing and parsing (JSON-RPC, MCP, the providers' wire formats) are not
modelled: a line is the event it parses to. Timers are nondeterministic: a
deadline may pass at any time. Of the window the join of replay and live events,
the queue, the move between windows, and the panes with what is stored of them are
modelled; layouts and tiles, the caps on panes, side questions, titles and drawing
are not. Of what a relaunch reads back, Home's handles are modelled; the
sessions' file is a list of what to resume.

Not modelled, in PROJECT.json with their reasons: the catalogues and skills,
configuration and the other stores, the core's types, git's parser, templates, code
reading, prototypes, the database console, the platform services,
and the test kit. They read files, run one command or draw, with no state that
two threads contend for; most of the repository's lines are these, and the
parsing, wording, transcript and tool-output code of the components that are
modelled.

## 7. Plan

In order of what matters most to the program:

1. **Core** (done): Turns, Forest, Handoff, Parentage, HomeNews and their
   theorems.
2. **Exchange** (done): the abstract specification of one tracked send, and the
   proof that Turns implements it. Next to it, what Handoff promises of a
   delegated session (opened, on record, settled, closed, once each).
3. **Protocol sessions** (done): the three drivers under one trait.
4. **Replay**, **ShellRuns**, **Hosts**, **Worktrees**, **Recipes**, **Browser**,
   **PopOut**, **Surface**, **Handles** (done): their state machines, safety, and
   liveness where a thread is promised.
5. **Theorems** for the components of 4, as for the core (done for Replay, Recipes,
   Worktrees, Hosts, ShellRuns, Browser, Handles and the sessions under their
   driver, PopOut and Parentage); Surface is left.
6. An abstract specification of what Handoff promises of a delegated session
   (opened, on record, settled, closed, once each), and the refinement.
7. The resume list, the window's tiles (what a pane leaves and comes back to),
   and the mode ceiling of a delegated child as a pure
   function against a reference definition.
