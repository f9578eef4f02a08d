------------------------------ MODULE Sessions -------------------------------
(* A session of each provider, driven by its callers, its reader thread    *)
(* and its CLI: the Protocol trait (crates/wtm-agent/src/provider.rs) and  *)
(* what it asks of every implementation.                                   *)
EXTENDS Codex, Claude, Cursor

-----------------------------------------------------------------------------
(* The trait's methods, by provider.                                       *)
PromptCall(m, how) ==
    CASE provider = "codex" -> CodexCall(drv, m, how)
      [] provider = "claude" -> ClaudeCall(drv, m)
      [] provider = "cursor" -> CursorCall(drv, m, how)

AnswerCall(a, allow) ==
    CASE provider = "codex" -> CodexAnswer(drv, a)
      [] provider = "claude" -> ClaudeAnswer(drv, a)
      [] provider = "cursor" -> CursorAnswer(drv, a, allow)

InterruptCall ==
    CASE provider = "codex" -> CodexInterrupt(drv)
      [] provider = "claude" -> ClaudeInterrupt(drv)
      [] provider = "cursor" -> CursorInterrupt(drv)

AbandonCall ==
    CASE provider = "codex" -> CodexAbandon(drv)
      [] provider = "claude" -> ClaudeAbandon(drv)
      [] provider = "cursor" -> CursorInterrupt(drv)

LineCall(line) ==
    CASE provider = "codex" -> CodexOnLine(drv, line)
      [] provider = "claude" -> ClaudeOnLine(drv, line)
      [] provider = "cursor" -> CursorOnLine(drv, line)

(* Whether the driver has a turn that a steer joins rather than starts.    *)
Joins(m) ==
    CASE provider = "codex" -> drv.active # None
      [] provider = "claude" -> drv.state # "idle"
      [] provider = "cursor" -> drv.phase = "ready" /\ drv.prompts # {}

Init ==
    /\ \/ provider = "codex" /\ drv = CodexNew /\ cli = CodexCli
       \/ provider = "claude" /\ drv = ClaudeNew /\ \E mute \in BOOLEAN : cli = ClaudeCli(mute)
       \/ provider = "cursor" /\ (\E auto \in BOOLEAN : drv = CursorNew(auto)) /\ cli = CursorCli
    /\ wire = IF provider = "claude" THEN <<>> ELSE <<[is |-> "init"]>>
    /\ todo = [t \in Threads |-> <<>>]
    /\ called = {} /\ lines = <<>> /\ alive = TRUE
    /\ turns = [m \in Msgs |-> 0] /\ replies = [a \in Asks |-> 0]
    /\ echoed = [m \in Msgs |-> 0]
    /\ cards = {} /\ working = FALSE /\ owed = {} /\ steered = {} /\ failures = FALSE

-----------------------------------------------------------------------------
(* The session's callers: a message is sent or steered once; a card on     *)
(* screen is clicked, in either window; Stop is pressed; the pane closed.  *)
Send(m, how) ==
    /\ "close" \notin called
    /\ Call(m, PromptCall(m, how))
    /\ owed' = owed \cup {m}
    /\ steered' = IF Joins(m) THEN steered \cup {m} ELSE steered
    /\ UNCHANGED <<provider, procVars, echoed, cards, working, failures>>

Click(c, a, allow) ==
    /\ a \in cards
    /\ Call(c, AnswerCall(a, allow))
    /\ UNCHANGED <<provider, procVars, userVars, steered>>

Stop ==
    /\ working
    /\ Call("stop", InterruptCall)
    /\ UNCHANGED <<provider, procVars, userVars, steered>>

Close ==
    /\ Call("close", AbandonCall)
    /\ UNCHANGED <<provider, procVars, userVars, steered>>

(* The reader thread takes the next line.                                  *)
OnLine ==
    /\ lines # <<>>
    /\ todo["reader"] = <<>>
    /\ Compute("reader", LineCall(Head(lines)))
    /\ lines' = Tail(lines)
    /\ UNCHANGED <<provider, called, wire, alive, cli, turns, replies, userVars, steered>>

Thread(t) == EmitStep(t) \/ WriteStep(t) \/ BrokenPipe(t)

Kinds ==
    CASE provider = "codex" -> {"approval", "elicitation", "unknown"}
      [] provider = "claude" -> {"approval", "unknown"}
      [] provider = "cursor" -> {"approval", "plan", "unknown"}

Serve == CodexServe \/ ClaudeServe \/ CursorServe

Work ==
    \/ \E m \in Msgs : CodexAck(m)
    \/ CodexRead
    \/ ClaudeFold
    \/ ClaudeNextTurn
    \/ ClaudeError

Asking == \E a \in Asks, kind \in Kinds :
    CodexAsks(a, kind) \/ ClaudeAsks(a, kind) \/ CursorAsks(a, kind)

Finish ==
    \/ \E failed \in BOOLEAN : CodexFinish(failed)
    \/ \E how \in {"done", "failed", "stopped"} : ClaudeFinish(how)
    \/ \E ok \in BOOLEAN : CursorFinish(ok)

Next ==
    \/ \E m \in Msgs, how \in {"send", "steer"} : Send(m, how)
    \/ \E c \in Clicks, a \in Asks, allow \in BOOLEAN : Click(c, a, allow)
    \/ Stop
    \/ Close
    \/ OnLine
    \/ \E t \in Threads : Thread(t)
    \/ Serve \/ Work \/ Asking \/ Finish
    \/ Exit
    \/ OnExit

Spec == Init /\ [][Next]_vars

-----------------------------------------------------------------------------
TypeOK ==
    /\ provider \in {"codex", "claude", "cursor"}
    /\ called \subseteq Callers
    /\ DOMAIN todo = Threads
    /\ alive \in BOOLEAN /\ working \in BOOLEAN /\ failures \in BOOLEAN
    /\ turns \in [Msgs -> 0..2] /\ replies \in [Asks -> 0..2] /\ echoed \in [Msgs -> 0..2]
    /\ cards \subseteq Asks /\ owed \subseteq Msgs /\ steered \subseteq Msgs
    /\ drv.pending \subseteq Asks

(* A message reaches the model at most once and is shown at most once,     *)
(* whatever it was carried through.                                        *)
OncePerMessage == \A m \in Msgs : turns[m] < 2 /\ echoed[m] < 2

(* An approval is answered at most once, whoever clicks, stops or closes.  *)
OncePerAsk == \A a \in Asks : replies[a] < 2

Quiet ==
    /\ alive /\ ~Settling
    /\ CASE provider = "codex" -> cli.turn = None /\ cli.acks = {}
         [] provider = "claude" -> ~cli.turn /\ cli.inbox = <<>>
         [] provider = "cursor" -> cli.turn = None

(* A steered message is read by the model, or shown with the failure that  *)
(* kept it from it, or it waits for the turn after the next: it is in one  *)
(* of these places once nothing moves.                                     *)
SteerKept ==
    Quiet => \A m \in steered :
                \/ echoed[m] = 1 /\ (turns[m] = 1 \/ failures)
                \/ provider = "codex" /\ m \in ToSet(drv.carried)

(* "A steered message is never silently lost": once nothing moves, it is   *)
(* on screen.                                                              *)
NeverLost == Quiet => \A m \in steered : echoed[m] = 1

(* Every message taken by a session that is past its handshake is followed *)
(* by an ending, which its callers wait for.                               *)
EndingShown == Quiet /\ (provider # "claude" => drv.phase = "ready") => owed = {}

(* Once nothing moves the pane says so.                                    *)
IdleIsShown == Quiet => ~working

Showing(t, step) == todo[t] # <<>> /\ Head(todo[t]) = step /\ todo'[t] = Tail(todo[t])

(* "The turn does not finish while a steered message is unanswered": no    *)
(* message that joined a turn is still to be read when a finish is shown.  *)
FinishHolds ==
    [][(\E t \in Threads : Showing(t, Finished)) => \A m \in steered : turns[m] > 0]_vars

(* The reader takes a line and decides what to show for it.                *)
Decides(step) == todo["reader"] = <<>> /\ step \in ToSet(todo'["reader"])

(* A turn of its own has been asked for: the request is with the CLI, or   *)
(* its refusal is on the way back.                                         *)
OwnTurn(m) ==
    \/ \E i \in DOMAIN wire :
          wire[i].is \in {"turn/start", "prompt"} /\ m \in ToSet(wire[i].msgs)
    \/ \E i \in DOMAIN lines :
          \/ lines[i].is = "start" /\ ~lines[i].ok /\ m \in ToSet(lines[i].turn)
          \/ lines[i].is = "prompt" /\ ~lines[i].ok /\ m \in ToSet(lines[i].msgs)

(* The drivers that learn of every message they hand over keep to it: when *)
(* they decide that a turn is finished, each message that joined a turn    *)
(* has been read, or failed on screen, or has its own turn ahead.          *)
FinishHoldsElsewhere ==
    [][(provider # "claude" /\ Decides(Finished))
          => \A m \in steered : turns[m] > 0 \/ failures \/ OwnTurn(m)]_vars

(* Nothing that is carried over, queued, clicked twice or abandoned is     *)
(* delivered twice.                                                        *)
SessionsOK == TypeOK /\ OncePerMessage /\ OncePerAsk

(* Once nothing moves every message has had its ending, and the pane says  *)
(* that it is at rest.                                                     *)
RestIsShown == EndingShown /\ IdleIsShown
=============================================================================
