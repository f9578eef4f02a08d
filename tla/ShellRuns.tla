------------------------------ MODULE ShellRuns -----------------------------
(* Reviewed commands and the one shell they compete for                    *)
(* (src-tauri/src/shell_runs.rs, shell_admission.rs, shell_commands.rs,    *)
(* shell_control.rs, home_shells.rs).  A run is approved, by the user or   *)
(* by a grant Home holds; it reserves the shell's empty prompt; the shell, *)
(* told over a private socket, starts a helper, and the helper asks for    *)
(* the command with a capability good for one use.  The user may type,     *)
(* stop, revoke or close at any moment.                                    *)
EXTENDS Integers, Sequences, FiniteSets

CONSTANTS
    RunIds,      \* the runs
    HomeRuns,    \* those a Home session asks for; the others are a person's
    NamedRuns,   \* those that name the shell; the others say "auto"
    MaxPrompts,  \* bounds the prompts of the shell
    MaxMoves,    \* bounds what the user, Home and the shell do unasked
    NoRun

ASSUME ShellRunsAssumption ==
    HomeRuns \subseteq RunIds /\ NamedRuns \subseteq RunIds /\ NoRun \notin RunIds

VARIABLES
    phase,      \* State.phase of each run; "none" before it is prepared
    grant,      \* State.grant
    problem,    \* what the user is told ended it: "nothing ran" or "other"
    pidKnown,   \* the runs whose child's pid the application knows
    killing,    \* the runs whose child an ender has yet to terminate
    settling,   \* the runs an ender has yet to release
    starter,    \* the thread that starts the run, where it stands
    timer,      \* the thread that gives the shell five seconds
    active,     \* Entries.active of the one shell
    capable,    \* the runs with an entry in Entries.capabilities
    gate,       \* the application's Shell
    zsh,        \* the shell itself: mode, prompt epoch, keys not yet read
    down,       \* the socket, to the shell
    up,         \* the socket, from the shell
    serving,    \* the thread that serves the socket
    helper,     \* each run's helper process
    child,      \* each run's command
    frame,      \* the end marker: none, sent (in the terminal), got
    reported,   \* Report::Finished with an outcome: none, got
    granted,    \* Home's grant of the worktree
    home,       \* overview_of: the Home session is in the map, and running
    asked,      \* a set_home_shell_grant that has seen Home run, and what it was asked
    revoking,   \* the runs a revocation is about to cancel
    leaving,    \* close_home_runs, called by close_agent and by on_exit: where each stands
    left,       \* the runs forget_home interrupted: neither released nor told
    looking,    \* the runs that have reported their start to a thread yet to look for Home
    closing,    \* who is closing the shell: nobody, home, user
    moves       \* what they have done so far

runEnds == <<phase, problem, pidKnown, killing, settling>>
registry == <<active, capable>>
socket == <<down, up, serving>>
process == <<helper, child, frame, reported>>
authority == <<granted, home, asked, revoking, leaving, left, looking>>
shellVars == <<runEnds, grant, starter, timer, registry, gate, zsh, socket, process,
               authority, closing, moves>>

Terminal(p) == p \in {"completed", "denied", "cancelled", "interrupted"}
Prepared == {r \in RunIds : phase[r] # "none"}
Placed(r) == starter[r] \in {"reserving", "done"}   \* State.session
Passes == {"close", "exit"}   \* over Home's runs: close_agent's and on_exit's

ShellInit ==
    /\ phase = [r \in RunIds |-> "none"]
    /\ grant = [r \in RunIds |-> FALSE]
    /\ problem = [r \in RunIds |-> "none"]
    /\ pidKnown = {} /\ killing = {} /\ settling = {}
    /\ starter = [r \in RunIds |-> "none"]
    /\ timer = [r \in RunIds |-> "off"]
    /\ active = NoRun /\ capable = {}
    /\ gate = [registered |-> FALSE, connected |-> FALSE, closed |-> FALSE, owner |-> "user",
               opener |-> NoRun, adopted |-> FALSE, prompt |-> 0, generation |-> 0,
               run |-> NoRun, epoch |-> 0, at |-> 0, consumed |-> FALSE]
    /\ zsh = [mode |-> "unborn", epoch |-> 0, keys |-> FALSE]
    /\ down = <<>> /\ up = <<>> /\ serving = FALSE
    /\ helper = [r \in RunIds |-> "none"]
    /\ child = [r \in RunIds |-> "none"]
    /\ frame = [r \in RunIds |-> "none"]
    /\ reported = [r \in RunIds |-> "none"]
    /\ granted \in BOOLEAN /\ home = TRUE /\ asked = "nothing" /\ revoking = {}
    /\ leaving = [c \in Passes |-> [at |-> "no", todo |-> {}, listed |-> {}]]
    /\ left = {} /\ looking = {}
    /\ closing = "nobody"
    /\ moves = 0

(* A bound: one more thing done unasked.                                   *)
Move == moves < MaxMoves /\ moves' = moves + 1

-----------------------------------------------------------------------------
(* Ending a run                                                            *)

(* end_state for each run of S, and the settle that follows it.  A run     *)
(* that is over already is only released again.                            *)
EndRuns(S, to, why) ==
    LET live == {r \in S : ~Terminal(phase[r])}
    IN  /\ phase' = [r \in RunIds |-> IF r \in live THEN to ELSE phase[r]]
        /\ problem' = [r \in RunIds |-> IF r \in live THEN why ELSE problem[r]]
        /\ killing' = killing \cup (live \cap pidKnown)
        /\ pidKnown' = pidKnown \ live
        /\ settling' = settling \cup S

Interrupt(r, why) == EndRuns({r}, "interrupted", why)

(* finish_ends: the child's group and the helper are terminated.           *)
Terminate(r) ==
    /\ r \in killing
    /\ killing' = killing \ {r}
    /\ child' = [child EXCEPT ![r] = "dead"]
    /\ helper' = [helper EXCEPT ![r] = "gone"]
    /\ UNCHANGED <<phase, problem, pidKnown, settling, grant, starter, timer, registry, gate, zsh,
                   socket, frame, reported, authority, closing, moves>>

(* release: the reservation goes if it is this run's, and the run's        *)
(* entries.  A second ender does not wait for the first one's kill.        *)
Settle(r) ==
    /\ r \in settling
    /\ settling' = settling \ {r}
    /\ gate' = IF gate.registered /\ Placed(r) /\ gate.run = r
               THEN [gate EXCEPT !.run = NoRun] ELSE gate
    /\ active' = IF active = r THEN NoRun ELSE active
    /\ capable' = capable \ {r}
    /\ UNCHANGED <<phase, problem, pidKnown, killing, grant, starter, timer, zsh, socket, process,
                   authority, closing, moves>>

-----------------------------------------------------------------------------
(* Authority, and the start of a run                                       *)

OwnedUntouched == gate.registered /\ gate.owner = "home" /\ ~gate.adopted

(* validate, but for the target's identity, which is left out.             *)
ValidRun(r) ==
    r \in HomeRuns =>
        home /\ (grant[r] => granted /\ (Placed(r) => OwnedUntouched))

Availability ==
    IF gate.closed THEN "closed"
    ELSE IF gate.run # NoRun THEN IF gate.consumed THEN "running" ELSE "reserved"
    ELSE IF ~gate.connected THEN "unknown"
    ELSE IF zsh.mode # "prompt" \/ gate.prompt = 0 THEN "busy"
    ELSE "ready"

(* A run is prepared; a Home that holds a grant has it started at once.    *)
(* The tool call that prepares it has looked for Home some time before.    *)
Prepare(r) ==
    /\ phase[r] = "none"
    /\ grant' = [grant EXCEPT ![r] = r \in HomeRuns /\ granted
                                     /\ (r \in NamedRuns => OwnedUntouched)]
    /\ phase' = [phase EXCEPT ![r] = IF r \in HomeRuns /\ ~grant'[r] THEN "awaitingApproval"
                                     ELSE "prepared"]
    /\ UNCHANGED <<problem, pidKnown, killing, settling, starter, timer, registry, gate, zsh,
                   socket, process, authority, closing, moves>>

Deny(r) ==
    /\ Move
    /\ phase[r] \in {"prepared", "awaitingApproval"}
    /\ phase' = [phase EXCEPT ![r] = "denied"]
    /\ UNCHANGED <<problem, pidKnown, killing, settling, grant, starter, timer, registry, gate,
                   zsh, socket, process, authority, closing>>

(* start, as far as Run::approve.                                          *)
Approve(r) ==
    /\ phase[r] \in {"prepared", "awaitingApproval"} /\ starter[r] = "none"
    /\ IF ValidRun(r)
       THEN /\ phase' = [phase EXCEPT ![r] = "awaitingPane"]
            /\ starter' = [starter EXCEPT ![r] = "choosing"]
            /\ UNCHANGED <<problem, pidKnown, killing, settling>>
       ELSE Interrupt(r, "nothing ran") /\ UNCHANGED starter
    /\ UNCHANGED <<grant, timer, registry, gate, zsh, socket, process, authority, closing, moves>>

(* The rest of start_inner: a shell that is ready and may be used; a named *)
(* one or none; a new pane.                                                *)
ChooseShell(r) ==
    LET mayUse == gate.registered /\ Availability = "ready"
                  /\ (r \in HomeRuns /\ (r \notin NamedRuns \/ grant[r]) => OwnedUntouched)
    IN  /\ starter[r] = "choosing"
        /\ \/ /\ mayUse
              /\ starter' = [starter EXCEPT ![r] = "dispatching"]
              /\ UNCHANGED runEnds
           \/ /\ ~mayUse /\ r \in NamedRuns
              /\ starter' = [starter EXCEPT ![r] = "failed"]
              /\ Interrupt(r, "nothing ran")
           \/ /\ ~mayUse /\ r \notin NamedRuns
              /\ starter' = [starter EXCEPT ![r] = "placing"]
              /\ UNCHANGED runEnds
        /\ UNCHANGED <<grant, timer, registry, gate, zsh, socket, process, authority,
                       closing, moves>>

(* open_admitted, as far as the spawn: there is room for one shell.        *)
OpenShell(r) ==
    /\ starter[r] = "placing" /\ phase[r] = "awaitingPane"
    /\ IF ValidRun(r) /\ zsh.mode = "unborn"
       THEN /\ phase' = [phase EXCEPT ![r] = "openingShell"]
            /\ starter' = [starter EXCEPT ![r] = "opening"]
            /\ zsh' = [zsh EXCEPT !.mode = "booting"]
            /\ gate' = [gate EXCEPT !.registered = TRUE,
                                    !.owner = IF r \in HomeRuns THEN "home" ELSE "user",
                                    !.opener = r]
            /\ UNCHANGED <<problem, pidKnown, killing, settling>>
       ELSE /\ starter' = [starter EXCEPT ![r] = "failed"]
            /\ Interrupt(r, "nothing ran")
            /\ UNCHANGED <<zsh, gate>>
    /\ UNCHANGED <<grant, timer, registry, socket, process, authority, closing, moves>>

(* A shell the user opens.                                                 *)
OpenOwnShell ==
    /\ zsh.mode = "unborn"
    /\ zsh' = [zsh EXCEPT !.mode = "booting"]
    /\ gate' = [gate EXCEPT !.registered = TRUE]
    /\ UNCHANGED <<runEnds, grant, starter, timer, registry, socket, process, authority,
                   closing, moves>>

(* open_admitted waits for a verified prompt, and closes the shell if the  *)
(* request is over or the wait is.                                         *)
FirstPrompt(r) ==
    /\ starter[r] = "opening"
    /\ \/ /\ phase[r] = "openingShell" /\ Availability = "ready"
          /\ phase' = [phase EXCEPT ![r] = "awaitingPane"]
          /\ starter' = [starter EXCEPT ![r] = "dispatching"]
          /\ UNCHANGED <<problem, pidKnown, killing, settling, closing>>
       \/ /\ closing = "nobody"
          /\ closing' = "user"
          /\ starter' = [starter EXCEPT ![r] = "failed"]
          /\ Interrupt(r, "nothing ran")
    /\ UNCHANGED <<grant, timer, registry, gate, zsh, socket, process, authority, moves>>

(* A run that cannot be dispatched to the shell it opened has it closed.   *)
AbandonShell(r) ==
    closing' = IF gate.opener = r /\ closing = "nobody" THEN "user" ELSE closing

(* dispatch, as far as Registry::reserve: the run is reserved, and has a   *)
(* capability, before the shell is asked.                                  *)
Dispatch(r) ==
    /\ starter[r] = "dispatching"
    /\ IF ValidRun(r) /\ gate.registered /\ phase[r] = "awaitingPane" /\ active = NoRun
       THEN /\ starter' = [starter EXCEPT ![r] = "reserving"]
            /\ phase' = [phase EXCEPT ![r] = "reserved"]
            /\ active' = r /\ capable' = capable \cup {r}
            /\ UNCHANGED <<problem, pidKnown, killing, settling, closing>>
       ELSE /\ starter' = [starter EXCEPT ![r] = "failed"]
            /\ Interrupt(r, "nothing ran") /\ AbandonShell(r)
            /\ UNCHANGED registry
    /\ UNCHANGED <<grant, timer, gate, zsh, socket, process, authority, moves>>

(* Shell::reserve, whatever has become of the run: the prompt is reserved, *)
(* the shell told, and a thread watches the clock.                         *)
ReservePrompt(r) ==
    /\ starter[r] = "reserving"
    /\ starter' = [starter EXCEPT ![r] = "done"]
    /\ IF Availability = "ready"
       THEN /\ gate' = [gate EXCEPT !.run = r, !.epoch = gate.prompt, !.at = gate.generation,
                                    !.consumed = FALSE]
            /\ down' = Append(down, [run |-> r, epoch |-> gate.prompt])
            /\ timer' = [timer EXCEPT ![r] = "looking"]
            /\ UNCHANGED <<runEnds, closing>>
       ELSE /\ Interrupt(r, "nothing ran") /\ AbandonShell(r)
            /\ UNCHANGED <<gate, down, timer>>
    /\ UNCHANGED <<grant, registry, zsh, up, serving, process, authority, moves>>

(* The thread looks under the run's lock and cancels after dropping it.    *)
TimerLooks(r) ==
    /\ timer[r] = "looking"
    /\ timer' = [timer EXCEPT ![r] = IF phase[r] = "reserved" THEN "expired" ELSE "off"]
    /\ UNCHANGED <<runEnds, grant, starter, registry, gate, zsh, socket, process, authority,
                   closing, moves>>

TimerCancels(r) ==
    /\ timer[r] = "expired"
    /\ timer' = [timer EXCEPT ![r] = "off"]
    /\ Interrupt(r, "nothing ran")
    /\ UNCHANGED <<grant, starter, registry, gate, zsh, socket, process, authority, closing, moves>>

-----------------------------------------------------------------------------
(* The shell (shell_integration.zsh)                                       *)

NewPrompt ==
    /\ zsh' = [zsh EXCEPT !.mode = "prompt", !.epoch = @ + 1]
    /\ up' = Append(up, [kind |-> "prompt", epoch |-> zsh.epoch + 1])

Boot ==
    /\ zsh.mode = "booting" /\ ~gate.closed
    /\ NewPrompt
    /\ gate' = [gate EXCEPT !.connected = TRUE]
    /\ serving' = TRUE
    /\ UNCHANGED <<runEnds, grant, starter, timer, registry, down, process, authority,
                   closing, moves>>

HandedOver == \E r \in RunIds : helper[r] \in {"launching", "started", "running", "marked"}

(* Mutant: the keystroke only marks the shell as the user's.               *)
Type_NoGeneration ==
    /\ Move
    /\ gate.registered /\ zsh.mode \notin {"unborn", "ended"}
    /\ gate' = [gate EXCEPT !.adopted = TRUE]
    /\ zsh' = [zsh EXCEPT !.keys = @ \/ ~HandedOver]
    /\ UNCHANGED <<runEnds, grant, starter, timer, registry, socket, process, authority, closing>>

(* pty_write, under the gate: the reservation is outdated with the first   *)
(* key.  What is typed before a command has been handed over waits for the *)
(* line editor.                                                            *)
Type ==
    /\ Move
    /\ gate.registered /\ zsh.mode \notin {"unborn", "ended"}
    /\ gate' = [gate EXCEPT !.generation = @ + 1, !.adopted = TRUE, !.prompt = 0]
    /\ zsh' = [zsh EXCEPT !.keys = @ \/ ~HandedOver]
    /\ UNCHANGED <<runEnds, grant, starter, timer, registry, socket, process, authority, closing>>

(* The user enters what is typed, or deletes it.                           *)
Enter ==
    /\ zsh.mode = "prompt" /\ zsh.keys
    /\ \/ /\ zsh' = [zsh EXCEPT !.mode = "command", !.keys = FALSE]
          /\ up' = Append(up, [kind |-> "busy", epoch |-> zsh.epoch])
       \/ /\ zsh' = [zsh EXCEPT !.keys = FALSE]
          /\ UNCHANGED up
    /\ UNCHANGED <<runEnds, grant, starter, timer, registry, gate, down, serving, process,
                   authority, closing, moves>>

CommandEnds ==
    /\ zsh.mode = "command" /\ zsh.epoch < MaxPrompts
    /\ NewPrompt
    /\ UNCHANGED <<runEnds, grant, starter, timer, registry, gate, down, serving, process,
                   authority, closing, moves>>

(* _wtm_control_widget, which the line editor calls at a prompt.           *)
Widget ==
    /\ zsh.mode = "prompt" /\ down # <<>> /\ ~gate.closed
    /\ down' = Tail(down)
    /\ IF Head(down).epoch = zsh.epoch /\ ~zsh.keys
       THEN /\ zsh' = [zsh EXCEPT !.mode = "helper"]
            /\ helper' = [helper EXCEPT ![Head(down).run] = "asking"]
            /\ UNCHANGED up
       ELSE /\ up' = Append(up, [kind |-> "refused", run |-> Head(down).run])
            /\ UNCHANGED <<zsh, helper>>
    /\ UNCHANGED <<runEnds, grant, starter, timer, registry, gate, serving, child, frame,
                   reported, authority, closing, moves>>

HelperExits ==
    /\ zsh.mode = "helper" /\ zsh.epoch < MaxPrompts
    /\ \A r \in RunIds : helper[r] \in {"none", "gone"}
    /\ NewPrompt
    /\ UNCHANGED <<runEnds, grant, starter, timer, registry, gate, down, serving, process,
                   authority, closing, moves>>

ShellExits ==
    /\ Move
    /\ zsh.mode \notin {"unborn", "ended", "reaped"}
    /\ zsh' = [zsh EXCEPT !.mode = "ended"]
    /\ UNCHANGED <<runEnds, grant, starter, timer, registry, gate, socket, process, authority,
                   closing>>

-----------------------------------------------------------------------------
(* What the application hears (serve)                                      *)

HearShell ==
    /\ serving /\ up # <<>>
    /\ up' = Tail(up)
    /\ CASE Head(up).kind = "prompt" ->
                /\ gate' = IF gate.closed THEN gate ELSE [gate EXCEPT !.prompt = Head(up).epoch]
                /\ UNCHANGED runEnds
         [] Head(up).kind = "busy" ->
                gate' = [gate EXCEPT !.prompt = 0] /\ UNCHANGED runEnds
         [] OTHER ->
                /\ UNCHANGED gate
                /\ IF Head(up).run \in capable THEN Interrupt(Head(up).run, "nothing ran")
                   ELSE UNCHANGED runEnds
    /\ UNCHANGED <<grant, starter, timer, registry, zsh, down, serving, process, authority,
                   closing, moves>>

CloseGate == [gate EXCEPT !.closed = TRUE, !.prompt = 0, !.connected = FALSE]

(* The socket ends, and the runs of a shell still registered with it.      *)
SocketEnds ==
    /\ serving /\ up = <<>> /\ (gate.closed \/ zsh.mode = "ended")
    /\ serving' = FALSE
    /\ gate' = CloseGate
    /\ EndRuns(IF gate.registered THEN {r \in Prepared : Placed(r)} ELSE {}, "interrupted", "other")
    /\ UNCHANGED <<grant, starter, timer, registry, zsh, down, up, process, authority,
                   closing, moves>>

(* on_exit, when the terminal has been read to its end.                    *)
OnExit ==
    /\ zsh.mode = "ended"
    /\ zsh' = [zsh EXCEPT !.mode = "reaped"]
    /\ gate' = [CloseGate EXCEPT !.registered = FALSE]
    /\ EndRuns({active} \ {NoRun}, "interrupted", "other")
    /\ UNCHANGED <<grant, starter, timer, registry, socket, process, authority, closing, moves>>

(* The helper asks: by_capability and validate.                            *)
HelperAsks(r) ==
    /\ helper[r] = "asking"
    /\ IF r \in capable /\ ValidRun(r)
       THEN helper' = [helper EXCEPT ![r] = "validated"] /\ UNCHANGED runEnds
       ELSE /\ helper' = [helper EXCEPT ![r] = "gone"]
            /\ IF r \in capable THEN Interrupt(r, "nothing ran") ELSE UNCHANGED runEnds
    /\ UNCHANGED <<grant, starter, timer, registry, gate, zsh, socket, child, frame, reported,
                   authority, closing, moves>>

Reserved(r) ==
    /\ gate.registered /\ ~gate.closed
    /\ gate.run = r /\ ~gate.consumed /\ gate.at = gate.generation /\ gate.prompt = gate.epoch

(* Mutant: authority was checked when the helper asked.                    *)
Consume_NoAuthorize(r) ==
    /\ helper[r] = "validated"
    /\ IF Reserved(r) /\ phase[r] = "reserved"
       THEN /\ phase' = [phase EXCEPT ![r] = "running"]
            /\ gate' = [gate EXCEPT !.consumed = TRUE, !.prompt = 0]
            /\ capable' = capable \ {r}
            /\ helper' = [helper EXCEPT ![r] = "launching"]
            /\ UNCHANGED <<problem, pidKnown, killing, settling>>
       ELSE /\ helper' = [helper EXCEPT ![r] = "gone"]
            /\ IF r \in capable THEN Interrupt(r, "nothing ran") ELSE UNCHANGED runEnds
            /\ UNCHANGED <<gate, capable>>
    /\ UNCHANGED <<grant, starter, timer, active, zsh, socket, child, frame, reported,
                   authority, closing, moves>>

(* consume_if, the run's lock taken under the gate's.                      *)
Consume(r) ==
    /\ helper[r] = "validated"
    /\ IF Reserved(r) /\ phase[r] = "reserved" /\ (grant[r] => granted)
       THEN /\ phase' = [phase EXCEPT ![r] = "running"]
            /\ gate' = [gate EXCEPT !.consumed = TRUE, !.prompt = 0]
            /\ capable' = capable \ {r}
            /\ helper' = [helper EXCEPT ![r] = "launching"]
            /\ UNCHANGED <<problem, pidKnown, killing, settling>>
       ELSE /\ helper' = [helper EXCEPT ![r] = "gone"]
            /\ IF r \in capable THEN Interrupt(r, "nothing ran") ELSE UNCHANGED runEnds
            /\ UNCHANGED <<gate, capable>>
    /\ UNCHANGED <<grant, starter, timer, active, zsh, socket, child, frame, reported,
                   authority, closing, moves>>

-----------------------------------------------------------------------------
(* The helper (run_helper, run_inherited)                                  *)

(* It has its command, and starts it; or its socket was shut first.        *)
Launch(r) ==
    /\ helper[r] = "launching"
    /\ \/ /\ helper' = [helper EXCEPT ![r] = "started"]
          /\ child' = [child EXCEPT ![r] = "alive"]
       \/ /\ Terminal(phase[r]) /\ r \notin left
          /\ helper' = [helper EXCEPT ![r] = "gone"]
          /\ UNCHANGED child
    /\ UNCHANGED <<runEnds, grant, starter, timer, registry, gate, zsh, socket, frame, reported,
                   authority, closing, moves>>

(* Report::Started, or a socket that is shut: the child is not left behind.*)
(* The run of a Home that has been forgotten has its socket open still:    *)
(* its report is refused, and it goes on.                                  *)
ReportStart(r) ==
    /\ helper[r] = "started"
    /\ IF phase[r] = "running"
       THEN /\ pidKnown' = pidKnown \cup {r}
            /\ looking' = looking \cup ({r} \cap HomeRuns)
            /\ helper' = [helper EXCEPT ![r] = "running"]
            /\ UNCHANGED <<child, settling>>
       ELSE IF r \in left
       THEN /\ settling' = settling \cup {r}
            /\ helper' = [helper EXCEPT ![r] = "running"]
            /\ UNCHANGED <<child, pidKnown, looking>>
       ELSE /\ helper' = [helper EXCEPT ![r] = "gone"]
            /\ child' = [child EXCEPT ![r] = "dead"]
            /\ UNCHANGED <<pidKnown, settling, looking>>
    /\ UNCHANGED <<phase, problem, killing, grant, starter, timer, registry, gate, zsh, socket,
                   frame, reported, granted, home, asked, revoking, leaving, left, closing, moves>>

(* Then the thread looks whether Home is there.                            *)
LookForHome(r) ==
    /\ r \in looking
    /\ looking' = looking \ {r}
    /\ IF home THEN UNCHANGED runEnds ELSE Interrupt(r, "other")
    /\ UNCHANGED <<grant, starter, timer, registry, gate, zsh, socket, process, granted, home,
                   asked, revoking, leaving, left, closing, moves>>

(* The command ends, or is timed out.                                      *)
ChildEnds(r) ==
    /\ child[r] = "alive"
    /\ child' = [child EXCEPT ![r] = "dead"]
    /\ UNCHANGED <<runEnds, grant, starter, timer, registry, gate, zsh, socket, helper, frame,
                   reported, authority, closing, moves>>

(* Its watcher reads the end of a socket end_state shut.                   *)
HelperCancelled(r) ==
    /\ helper[r] = "running" /\ child[r] = "alive" /\ Terminal(phase[r]) /\ r \notin left
    /\ child' = [child EXCEPT ![r] = "dead"]
    /\ UNCHANGED <<runEnds, grant, starter, timer, registry, gate, zsh, socket, helper, frame,
                   reported, authority, closing, moves>>

(* The end marker goes to the terminal, and then the report to the socket, *)
(* which may say that the command could not be followed to its end.        *)
MarkEnd(r) ==
    /\ helper[r] = "running" /\ child[r] = "dead"
    /\ helper' = [helper EXCEPT ![r] = "marked"]
    /\ frame' = [frame EXCEPT ![r] = "sent"]
    /\ UNCHANGED <<runEnds, grant, starter, timer, registry, gate, zsh, socket, child, reported,
                   authority, closing, moves>>

ReportFinish(r) ==
    /\ helper[r] = "marked" /\ r \notin looking
    /\ helper' = [helper EXCEPT ![r] = "gone"]
    /\ IF Terminal(phase[r]) THEN UNCHANGED <<pidKnown, reported>>
       ELSE /\ pidKnown' = pidKnown \ {r}
            /\ reported' \in {reported, [reported EXCEPT ![r] = "got"]}
    /\ UNCHANGED <<phase, problem, killing, settling, grant, starter, timer, registry, gate,
                   zsh, socket, child, frame, authority, closing, moves>>

(* capture: the terminal's reader meets the marker; what it reads while    *)
(* the shell has no run, or another, is not this run's.                    *)
Capture(r) ==
    /\ frame[r] = "sent" /\ active = r
    /\ frame' = [frame EXCEPT ![r] = "got"]
    /\ IF phase[r] = "running" /\ reported[r] = "got"
       THEN /\ phase' = [phase EXCEPT ![r] = "completed"]
            /\ settling' = settling \cup {r}
       ELSE UNCHANGED <<phase, settling>>
    /\ UNCHANGED <<problem, pidKnown, killing, grant, starter, timer, registry, gate, zsh, socket,
                   helper, child, reported, authority, closing, moves>>

(* Mutant: the marker is waited for, however long.                         *)
Conclude_NoDeadline(r) ==
    /\ phase[r] = "running" /\ reported[r] = "got" /\ frame[r] = "got"
    /\ phase' = [phase EXCEPT ![r] = "completed"]
    /\ problem' = problem
    /\ settling' = settling \cup {r}
    /\ UNCHANGED <<pidKnown, killing, grant, starter, timer, registry, gate, zsh, socket, process,
                   authority, closing, moves>>

(* serve, when the helper has reported: the marker, or five seconds.       *)
Conclude(r) ==
    /\ phase[r] = "running" /\ reported[r] = "got"
    /\ phase' = [phase EXCEPT ![r] = IF frame[r] = "got" THEN "completed" ELSE "interrupted"]
    /\ problem' = [problem EXCEPT ![r] = IF frame[r] = "got" THEN "none" ELSE "other"]
    /\ settling' = settling \cup {r}
    /\ UNCHANGED <<pidKnown, killing, grant, starter, timer, registry, gate, zsh, socket, process,
                   authority, closing, moves>>

(* A helper that went without reporting an outcome.                        *)
HelperLost(r) ==
    /\ phase[r] = "running" /\ helper[r] = "gone" /\ reported[r] = "none"
    /\ Interrupt(r, "other")
    /\ UNCHANGED <<grant, starter, timer, registry, gate, zsh, socket, process, authority,
                   closing, moves>>

(* When its helper has reported, or gone, a run that was only interrupted  *)
(* is released.                                                            *)
ReleaseLeft(r) ==
    /\ r \in left /\ helper[r] = "gone" /\ active = r /\ r \notin settling
    /\ settling' = settling \cup {r}
    /\ UNCHANGED <<phase, problem, pidKnown, killing, grant, starter, timer, registry, gate, zsh,
                   socket, process, authority, closing, moves>>

-----------------------------------------------------------------------------
(* The user and Home                                                       *)

Stop(r) ==
    /\ Move
    /\ phase[r] \notin {"none"} /\ ~Terminal(phase[r])
    /\ EndRuns({r}, "cancelled", "other")
    /\ UNCHANGED <<grant, starter, timer, registry, gate, zsh, socket, process, authority,
                   closing>>

(* set_home_shell_grant looks for Home first.                              *)
AskGrant ==
    /\ Move
    /\ home /\ asked = "nothing"
    /\ asked' = IF granted THEN "revoke" ELSE "grant"
    /\ UNCHANGED <<runEnds, grant, starter, timer, registry, gate, zsh, socket, process, granted,
                   home, revoking, leaving, left, looking, closing>>

GiveGrant ==
    /\ asked = "grant"
    /\ asked' = "nothing" /\ granted' = TRUE
    /\ UNCHANGED <<runEnds, grant, starter, timer, registry, gate, zsh, socket, process, home,
                   revoking, leaving, left, looking, closing, moves>>

(* The runs to cancel are looked at under their locks, and cancelled after.*)
RevokeGrant ==
    /\ asked = "revoke"
    /\ asked' = "nothing" /\ granted' = FALSE
    /\ revoking' = {r \in Prepared : grant[r] /\ ~Terminal(phase[r]) /\ phase[r] # "running"}
    /\ UNCHANGED <<runEnds, grant, starter, timer, registry, gate, zsh, socket, process, home,
                   leaving, left, looking, closing, moves>>

CancelRevoked(r) ==
    /\ r \in revoking
    /\ revoking' = revoking \ {r}
    /\ Interrupt(r, "nothing ran")
    /\ UNCHANGED <<grant, starter, timer, registry, gate, zsh, socket, process, granted, home,
                   asked, leaving, left, looking, closing, moves>>

-----------------------------------------------------------------------------
(* Home goes                                                               *)

(* close_agent, for Home's pane: its runs first, its session after.        *)
UserClosesHome ==
    /\ Move
    /\ leaving["close"].at = "no"
    /\ leaving' = [leaving EXCEPT !["close"].at = "begun"]
    /\ UNCHANGED <<runEnds, grant, starter, timer, registry, gate, zsh, socket, process, granted,
                   home, asked, revoking, left, looking, closing>>

(* on_exit: by then the session is not running, closed or not.             *)
HomeExits ==
    /\ leaving["exit"].at = "no"
    /\ home => moves < MaxMoves
    /\ moves' = IF home THEN moves + 1 ELSE moves
    /\ home' = FALSE
    /\ leaving' = [leaving EXCEPT !["exit"].at = "begun"]
    /\ UNCHANGED <<runEnds, grant, starter, timer, registry, gate, zsh, socket, process, granted,
                   asked, revoking, left, looking, closing>>

(* all, twice: for close_home_runs, and for forget_home once it has        *)
(* dropped the grant.                                                      *)
ListHomeRuns(c) ==
    /\ leaving[c].at \in {"begun", "dropped"}
    /\ leaving' = [leaving EXCEPT ![c] =
            [at |-> IF leaving[c].at = "begun" THEN "ending" ELSE "forgetting",
             todo |-> HomeRuns \cap Prepared, listed |-> HomeRuns \cap Prepared]]
    /\ UNCHANGED <<runEnds, grant, starter, timer, registry, gate, zsh, socket, process, granted,
                   home, asked, revoking, left, looking, closing, moves>>

(* interrupt_many, one run after the other.                                *)
EndListed(c, r) ==
    /\ leaving[c].at = "ending" /\ r \in leaving[c].todo
    /\ leaving' = [leaving EXCEPT ![c].todo = @ \ {r}]
    /\ Interrupt(r, "other")
    /\ UNCHANGED <<grant, starter, timer, registry, gate, zsh, socket, process, granted, home,
                   asked, revoking, left, looking, closing, moves>>

(* forget_home, when their children are terminated and they are released.  *)
DropGrant(c) ==
    /\ leaving[c].at = "ending" /\ leaving[c].todo = {}
    /\ leaving[c].listed \cap (killing \cup settling) = {}
    /\ leaving' = [leaving EXCEPT ![c].at = "dropped"]
    /\ granted' = FALSE
    /\ UNCHANGED <<runEnds, grant, starter, timer, registry, gate, zsh, socket, process, home,
                   asked, revoking, left, looking, closing, moves>>

(* Run::interrupt: what was prepared since is said to be over.  Its        *)
(* child's pid is kept where no ender looks for it again.                  *)
ForgetRun(c, r) ==
    /\ leaving[c].at = "forgetting" /\ r \in leaving[c].todo
    /\ leaving' = [leaving EXCEPT ![c].todo = @ \ {r}]
    /\ IF Terminal(phase[r]) THEN UNCHANGED <<phase, problem, pidKnown, left>>
       ELSE /\ phase' = [phase EXCEPT ![r] = "interrupted"]
            /\ problem' = [problem EXCEPT ![r] = "other"]
            /\ pidKnown' = pidKnown \ {r}
            /\ left' = left \cup {r}
    /\ UNCHANGED <<killing, settling, grant, starter, timer, registry, gate, zsh, socket, process,
                   granted, home, asked, revoking, looking, closing, moves>>

(* close_agent goes on: the session leaves the map.                        *)
FinishLeaving(c) ==
    /\ leaving[c].at = "forgetting" /\ leaving[c].todo = {}
    /\ leaving' = [leaving EXCEPT ![c] = [at |-> "done", todo |-> {}, listed |-> {}]]
    /\ home' = (home /\ c # "close")
    /\ UNCHANGED <<runEnds, grant, starter, timer, registry, gate, zsh, socket, process, granted,
                   asked, revoking, left, looking, closing, moves>>

LeavingStep(c) ==
    \/ ListHomeRuns(c) \/ DropGrant(c) \/ FinishLeaving(c)
    \/ \E r \in RunIds : EndListed(c, r) \/ ForgetRun(c, r)

(* Home's close_shell: the shell must be Home's, untouched and idle, and   *)
(* is closed to runs in the same step.                                     *)
HomeClosesShell ==
    /\ Move
    /\ home /\ closing = "nobody" /\ OwnedUntouched /\ Availability = "ready"
    /\ closing' = "home"
    /\ gate' = CloseGate
    /\ UNCHANGED <<runEnds, grant, starter, timer, registry, zsh, socket, process, authority>>

UserClosesShell ==
    /\ Move
    /\ closing = "nobody" /\ gate.registered
    /\ closing' = "user"
    /\ UNCHANGED <<runEnds, grant, starter, timer, registry, gate, zsh, socket, process,
                   authority>>

(* App::close_shell: the run that has the shell, the gate, the process.    *)
CloseShell ==
    /\ closing \in {"home", "user"} /\ gate.registered
    /\ EndRuns({active} \ {NoRun}, "interrupted", "other")
    /\ gate' = [CloseGate EXCEPT !.registered = FALSE]
    /\ zsh' = [zsh EXCEPT !.mode = IF @ = "reaped" THEN @ ELSE "ended"]
    /\ UNCHANGED <<grant, starter, timer, registry, socket, process, authority, closing, moves>>

RunStep(r) ==
    \/ Terminate(r) \/ Settle(r) \/ Approve(r) \/ ChooseShell(r) \/ OpenShell(r)
    \/ FirstPrompt(r) \/ Dispatch(r) \/ ReservePrompt(r) \/ TimerLooks(r) \/ TimerCancels(r)
    \/ HelperAsks(r) \/ Consume(r) \/ Launch(r) \/ ReportStart(r) \/ ChildEnds(r)
    \/ HelperCancelled(r) \/ MarkEnd(r) \/ ReportFinish(r) \/ Capture(r) \/ Conclude(r)
    \/ HelperLost(r) \/ LookForHome(r) \/ ReleaseLeft(r) \/ CancelRevoked(r)

ShellNext ==
    \/ \E r \in RunIds : RunStep(r) \/ Prepare(r) \/ Deny(r) \/ Stop(r)
    \/ OpenOwnShell \/ Boot \/ Type \/ Enter \/ CommandEnds \/ Widget \/ HelperExits
    \/ ShellExits \/ HearShell \/ SocketEnds \/ OnExit
    \/ AskGrant \/ GiveGrant \/ RevokeGrant
    \/ UserClosesHome \/ HomeExits \/ \E c \in Passes : LeavingStep(c)
    \/ HomeClosesShell \/ UserClosesShell \/ CloseShell

(* Each thread of the application runs: the timer's, whoever ended a run's, *)
(* the one that offers the command, and the one that serves the helper;    *)
(* the helper runs, and a command ends or is timed out.  The user and the  *)
(* shell owe nothing.                                                      *)
ShellFairness ==
    \A r \in RunIds :
        /\ WF_shellVars(TimerLooks(r) \/ TimerCancels(r))
        /\ WF_shellVars(Terminate(r) \/ Settle(r))
        /\ WF_shellVars(ReservePrompt(r))
        /\ WF_shellVars(Launch(r) \/ ReportStart(r) \/ ChildEnds(r) \/ MarkEnd(r)
                        \/ ReportFinish(r))
        /\ WF_shellVars(Conclude(r) \/ HelperLost(r) \/ LookForHome(r) \/ ReleaseLeft(r))

ShellSpec == ShellInit /\ [][ShellNext]_shellVars
ShellFairSpec == ShellSpec /\ ShellFairness

-----------------------------------------------------------------------------
ShellTypeOK ==
    /\ phase \in [RunIds -> {"none", "prepared", "awaitingApproval", "awaitingPane",
                             "openingShell", "reserved", "running", "completed", "denied",
                             "cancelled", "interrupted"}]
    /\ active \in RunIds \cup {NoRun} /\ gate.run \in RunIds \cup {NoRun}
    /\ capable \subseteq {r \in RunIds : Placed(r)}
    /\ pidKnown \subseteq {r \in RunIds : phase[r] = "running"}
    /\ Cardinality({r \in RunIds : child[r] = "alive"}) <= 1

(* What the user typed before the command was handed over is never the     *)
(* command's input, nor does a command start over a line half typed: the   *)
(* widget refuses what it has read, and the gate what is still on its way. *)
NothingTypedIsRunInto ==
    \A r \in RunIds : child[r] = "alive" => ~zsh.keys

(* A command that needs Home's grant starts only while it is granted, in a *)
(* shell of Home's that the user has not typed into, whatever was checked, *)
(* and whenever it was adopted or revoked, on the way; and once on_exit    *)
(* has gone through Home's runs none starts, granted or approved, though a *)
(* grant asked for before may be given after.                              *)
GrantHolds ==
    [][\A r \in RunIds : phase[r] # "running" /\ phase'[r] = "running" =>
           /\ grant[r] => granted /\ OwnedUntouched
           /\ r \in HomeRuns =>
                 leaving["exit"].at \in {"no", "begun"} \/ r \in leaving["exit"].todo]_shellVars

(* "Does not stop a running command": a shell Home is closing has none.    *)
HomeCloseSparesRunning ==
    closing = "home" /\ gate.registered => \A r \in RunIds : phase[r] # "running"

Offered(r) == \E i \in DOMAIN down : down[i].run = r
Refused(r) == \E i \in DOMAIN up : up[i].kind = "refused" /\ up[i].run = r

(* Its starter has yet to offer it, the shell to take it or to say that it *)
(* refused, its helper to ask or to report, or the thread that served the  *)
(* helper, which has the command, to hear that it went.                    *)
Owed(r) ==
    \/ starter[r] = "reserving" \/ Offered(r) \/ Refused(r)
    \/ helper[r] # "none" /\ (helper[r] = "gone" => r \notin capable)

(* A run that is over, and released, holds neither the shell's place nor a *)
(* capability, though it was ended while it was being dispatched; and one  *)
(* that forget_home only interrupted holds them no longer than somebody    *)
(* has an answer to give for which it is released.                         *)
EndedIsForgotten ==
    \A r \in RunIds : Terminal(phase[r]) /\ r \notin settling /\ (active = r \/ r \in capable) =>
        r \in left /\ Owed(r)

(* Completed is said only when the command ended, its outcome was reported *)
(* and its output read to the end.                                         *)
CompletedIsWhole ==
    \A r \in RunIds : phase[r] = "completed" =>
        child[r] = "dead" /\ reported[r] = "got" /\ frame[r] = "got"

(* A shell that never takes the command it was offered does not keep the   *)
(* run waiting.                                                            *)
ReservedSettles == \A r \in RunIds : phase[r] = "reserved" ~> phase[r] # "reserved"

(* A run that began is over some time: its end marker may be lost, its     *)
(* helper or its shell may die, its child may have to be timed out.        *)
RunningSettles == \A r \in RunIds : phase[r] = "running" ~> Terminal(phase[r])

(* shell_commands.rs, of the five seconds: "The shell did not accept Run   *)
(* in time. Nothing ran."  What a run is said to have ended of is true:    *)
(* when nothing is said to have run, nothing ran.                          *)
NothingRanIsTrue ==
    \A r \in RunIds : problem[r] = "nothing ran" => child[r] = "none"

(* shell_control.rs: "App/Home closure and worktree removal pay one grace  *)
(* period for all run children".  When Home has closed, a command of its   *)
(* that still runs has been told to stop.                                  *)
ClosingEndsAll ==
    ~home /\ (\A c \in Passes : leaving[c].at \in {"no", "done"}) /\ leaving["exit"].at = "done" =>
        \A r \in HomeRuns : child[r] = "alive" => r \notin left

(* The registry, the shell and the helper agree on what runs, and none of  *)
(* them says more than it knows: over means released, completed means      *)
(* whole, a shell Home closes has nothing running in it, and nothing that  *)
(* is running reads what the user typed.                                   *)
ShellOK ==
    /\ ShellTypeOK /\ EndedIsForgotten /\ CompletedIsWhole /\ HomeCloseSparesRunning
    /\ NothingTypedIsRunInto

(* A run that is offered to a shell, or running, does not stay so.         *)
RunsSettle == ReservedSettles /\ RunningSettles
=============================================================================
