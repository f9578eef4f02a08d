------------------------------- MODULE Session -------------------------------
(* An agent session (crates/wtm-agent/src/session.rs): what its threads    *)
(* share, whatever the provider.  A call computes its steps under the      *)
(* driver's lock and applies them after letting it go, one at a time; so   *)
(* does the reader thread for every line the CLI prints.                   *)
(*                                                                         *)
(* A request has no number here: it is known by the messages it carries,   *)
(* and so is the turn it starts.                                           *)
EXTENDS Naturals, Sequences, FiniteSets, SequencesExt

CONSTANTS
    Msgs,       \* the messages users, parents and Home hand to the session
    Asks,       \* the approvals the CLI may ask for
    Clicks,     \* the answers given to cards, from any window
    Refusals,   \* the requests a CLI may refuse for reasons of its own
    None

ASSUME SessionAssumption == "reader" \notin Msgs \cup Clicks /\ None \notin Seq(Msgs)

Callers == Msgs \cup Clicks \cup {"stop", "close"}
Threads == Callers \cup {"reader"}

VARIABLES
    provider,   \* whose CLI it is; never changes
    drv,        \* the driver (Box<dyn Protocol>)
    todo,       \* the steps each thread has still to apply
    called,     \* the calls made
    wire,       \* the CLI's stdin
    lines,      \* its stdout
    alive,      \* whether its process is there
    cli,        \* what it is doing
    turns,      \* how often each message has been put in a turn
    replies,    \* how often each approval has been answered on the wire
    echoed,     \* how often each message has been shown
    cards,      \* the cards on screen
    working,    \* whether the pane says that a turn is running
    owed,       \* messages taken since an ending was last shown
    steered,    \* messages taken as part of a running turn
    failures    \* whether the user was told of a failure

procVars == <<wire, lines, alive, cli, turns, replies>>
userVars == <<echoed, cards, working, owed, failures>>
vars == <<provider, drv, todo, called, procVars, userVars, steered>>

Once(n) == IF n = 0 THEN 1 ELSE 2

(* Step, and the vector of them a driver returns with its new state.       *)
Write(frame) == [do |-> "write", it |-> frame]
Emit(event)  == [do |-> "emit", it |-> event]
Result(d, steps) == [drv |-> d, steps |-> steps]
Then(r, steps) == [r EXCEPT !.steps = @ \o steps]

Echo(m)   == Emit([is |-> "echo", msg |-> m])
Started   == Emit([is |-> "started"])
Finished  == Emit([is |-> "finished"])
Failed    == Emit([is |-> "failed"])
Card(a)   == Emit([is |-> "card", ask |-> a])
Settled(a) == Emit([is |-> "settled", ask |-> a])
Echoes(ms) == [i \in DOMAIN ms |-> Echo(ms[i])]

(* Frames and lines that all three protocols have.                         *)
Reply(a) == [is |-> "reply", ask |-> a]
Interrupt(turn) == [is |-> "interrupt", turn |-> turn]
Ask(a, kind) == [is |-> "ask", ask |-> a, kind |-> kind]

(* A reply to every approval in `as`, each of which is then settled.       *)
Dismiss(as) ==
    LET list == SetToSeq(as)
    IN  [i \in 1 .. 2 * Len(list) |->
            IF i % 2 = 1 THEN Write(Reply(list[(i + 1) \div 2])) ELSE Settled(list[i \div 2])]

-----------------------------------------------------------------------------
(* Session::send_turn, steer, answer, interrupt and close, up to the end   *)
(* of the lock; and Relay::on_line, which the reader calls once it has     *)
(* applied the steps of the line before.                                   *)
Compute(t, r) ==
    /\ drv' = r.drv
    /\ todo' = [todo EXCEPT ![t] = r.steps]

Call(t, r) ==
    /\ t \notin called
    /\ called' = called \cup {t}
    /\ Compute(t, r)

(* The sink's view of an event: EventSink::on_event (agent_bridge.rs) as   *)
(* far as the pane, its cards and its working flag go.                     *)
Show(event) ==
    /\ echoed' = IF event.is = "echo" THEN [echoed EXCEPT ![event.msg] = Once(@)] ELSE echoed
    /\ cards' = CASE event.is = "card" -> cards \cup {event.ask}
                  [] event.is = "settled" -> cards \ {event.ask}
                  [] OTHER -> cards
    /\ working' = CASE event.is = "started" -> TRUE
                    [] event.is \in {"finished", "failed"} -> FALSE
                    [] OTHER -> working
    /\ owed' = IF event.is \in {"finished", "failed"} THEN {} ELSE owed
    /\ failures' = (failures \/ event.is = "failed")

(* `run`: the next step of a thread.                                       *)
EmitStep(t) ==
    /\ todo[t] # <<>>
    /\ Head(todo[t]).do = "emit"
    /\ Show(Head(todo[t]).it)
    /\ todo' = [todo EXCEPT ![t] = Tail(@)]
    /\ UNCHANGED <<provider, drv, called, procVars, steered>>

WriteStep(t) ==
    /\ todo[t] # <<>>
    /\ Head(todo[t]).do = "write"
    /\ alive
    /\ wire' = Append(wire, Head(todo[t]).it)
    /\ todo' = [todo EXCEPT ![t] = Tail(@)]
    /\ UNCHANGED <<provider, drv, called, lines, alive, cli, turns, replies, userVars, steered>>

(* The pipe is gone: the steps that are left are dropped, a caller gets    *)
(* the error, and `apply` shows it when the thread is the reader.          *)
BrokenPipe(t) ==
    /\ todo[t] # <<>>
    /\ Head(todo[t]).do = "write"
    /\ ~alive
    /\ todo' = [todo EXCEPT ![t] = <<>>]
    /\ IF t = "reader" THEN Show([is |-> "failed"]) ELSE UNCHANGED userVars
    /\ UNCHANGED <<provider, drv, called, procVars, steered>>

(* `close` ends the process once its steps are applied; it may also exit   *)
(* by itself.                                                              *)
Exit == alive /\ alive' = FALSE /\ UNCHANGED <<provider, drv, todo, called, wire, lines, cli,
                                              turns, replies, userVars, steered>>

(* Relay::on_exit, once stdout is drained: every caller is released.       *)
OnExit ==
    /\ ~alive
    /\ lines = <<>>
    /\ todo["reader"] = <<>>
    /\ owed # {}
    /\ owed' = {}
    /\ UNCHANGED <<provider, drv, todo, called, procVars, echoed, cards, working, failures,
                   steered>>

(* The CLI prints lines, takes messages in a turn, reads a reply.          *)
Says(new) == lines' = lines \o new
Take(ms) == turns' = [m \in Msgs |-> IF m \in ms THEN Once(turns[m]) ELSE turns[m]]
Answered(a) == replies' = [replies EXCEPT ![a] = Once(@)]
Elsewhere == UNCHANGED <<provider, drv, todo, called, alive, userVars, steered>>

(* Nothing is on its way between the threads and the CLI.                  *)
Settling ==
    \/ \E t \in Threads : todo[t] # <<>>
    \/ wire # <<>>
    \/ lines # <<>>
=============================================================================
