------------------------------- MODULE Claude --------------------------------
(* The driver of a Claude session (crates/wtm-agent/src/claude.rs), and    *)
(* the CLI as the driver's comments describe it: it reads a message sent   *)
(* during a turn into that turn after a tool result, or runs it as a turn  *)
(* of its own once this one has ended, and says which if the message has   *)
(* an id.  Text, tools, token counts and fast mode are left out.           *)
EXTENDS Session

ClaudeNew == [state |-> "idle", steers |-> {}, queued |-> {}, carried |-> 0, pending |-> {}]

(* user_frame: only a steer has an id.                                     *)
User(m, id) == [is |-> "user", msg |-> m, id |-> id]

ClaudeSteer(d, m) == Result([d EXCEPT !.steers = @ \cup {m}], <<Write(User(m, TRUE))>>)

(* send_turn and steer are the same, whichever is called.                  *)
ClaudeCall(d, m) ==
    IF d.state # "idle" THEN ClaudeSteer(d, m)
    ELSE Result([d EXCEPT !.state = "running"], <<Echo(m), Started, Write(User(m, FALSE))>>)

ClaudeAnswer(d, a) ==
    IF a \notin d.pending THEN Result(d, <<>>)
    ELSE Result([d EXCEPT !.pending = @ \ {a}], <<Write(Reply(a)), Settled(a)>>)

ClaudeInterrupt(d) ==
    Result([d EXCEPT !.state = IF @ = "running" THEN "stopping" ELSE @],
           <<Write(Interrupt(None))>>)

ClaudeAbandon(d) ==
    Result([d EXCEPT !.pending = {}], Dismiss(d.pending))

(* on_result: the end of one of the CLI's turns.                           *)
ClaudeOnResult(d, line) ==
    LET excused == d.state = "stopping" /\ line.how = "stopped"
        d1 == [d EXCEPT !.state = IF @ = "stopping" THEN "running" ELSE @]
        said == IF line.how # "done" /\ ~excused THEN <<Failed>> ELSE <<>>
    IN  IF d.queued # {} THEN Result(d1, said)
        ELSE Result([d1 EXCEPT !.state = "idle", !.steers = {},
                               !.carried = @ + Cardinality(d.steers)],
                    said \o Echoes(SetToSeq(d.steers)) \o <<Finished>>)

(* on_lifecycle: where a steer is in the CLI's own queue.                  *)
ClaudeOnQueued(d, m) ==
    Result([d EXCEPT !.queued = IF m \in d.steers THEN @ \cup {m} ELSE @], <<>>)

(* Mutant: a steer taken is still counted as queued. *)
ClaudeOnTaken_StillQueued(d, m) ==
    IF m \notin d.steers THEN Result(d, <<>>)
    ELSE Result([d EXCEPT !.steers = @ \ {m}, !.state = IF @ = "idle" THEN "running" ELSE @],
                IF d.state = "idle" THEN <<Started, Echo(m)>> ELSE <<Echo(m)>>)

ClaudeOnTaken(d, m) ==
    IF m \notin d.steers THEN Result(d, <<>>)
    ELSE Result([d EXCEPT !.steers = @ \ {m}, !.queued = @ \ {m},
                          !.state = IF @ = "idle" THEN "running" ELSE @],
                IF d.state = "idle" THEN <<Started, Echo(m)>> ELSE <<Echo(m)>>)

(* `init` opens a turn: one nobody announced is a steer's that an old CLI  *)
(* never acknowledged.                                                     *)
ClaudeOnInit(d) ==
    IF d.state = "idle" /\ d.carried > 0
    THEN Result([d EXCEPT !.carried = @ - 1, !.state = "running"], <<Started>>)
    ELSE Result(d, <<>>)

ClaudeOnLine(d, line) ==
    CASE line.is = "turn" -> ClaudeOnInit(d)
      [] line.is = "queued" -> ClaudeOnQueued(d, line.msg)
      [] line.is = "taken" -> ClaudeOnTaken(d, line.msg)
      [] line.is = "result" -> ClaudeOnResult(d, line)
      [] line.is = "error" -> Result(d, <<Failed>>)
      [] line.is = "ask" ->
            Result([d EXCEPT !.pending = @ \cup {line.ask}],
                   IF line.kind = "unknown" THEN <<>> ELSE <<Card(line.ask)>>)

-----------------------------------------------------------------------------
(* The CLI: whether it runs a turn, what it has read since, the approvals  *)
(* it waits for and those it has asked for, whether it has told of an error *)
(* (once at most here).  One that is `mute` is too old to report a          *)
(* message's lifecycle.                                                    *)
ClaudeCli(mute) == [turn |-> FALSE, inbox |-> <<>>, asked |-> {}, spent |-> {}, mute |-> mute,
                    erred |-> FALSE]

Tell(what, f) == IF f.id /\ ~cli.mute THEN <<[is |-> what, msg |-> f.msg]>> ELSE <<>>
ResultLine(how) == [is |-> "result", how |-> how]

ClaudeServe ==
    /\ provider = "claude" /\ alive /\ wire # <<>>
    /\ wire' = Tail(wire)
    /\ LET f == Head(wire) IN
       \/ /\ f.is = "user" /\ ~cli.turn
          /\ cli' = [cli EXCEPT !.turn = TRUE]
          /\ Says(Tell("queued", f) \o <<[is |-> "turn"]>> \o Tell("taken", f))
          /\ Take({f.msg})
          /\ UNCHANGED replies
       \/ /\ f.is = "user" /\ cli.turn
          /\ cli' = [cli EXCEPT !.inbox = Append(@, f)]
          /\ Says(Tell("queued", f))
          /\ UNCHANGED <<turns, replies>>
       \/ /\ f.is = "interrupt"
          /\ cli' = [cli EXCEPT !.turn = FALSE, !.asked = {}]
          /\ Says(IF cli.turn THEN <<ResultLine("stopped")>> ELSE <<>>)
          /\ UNCHANGED <<turns, replies>>
       \/ /\ f.is = "reply"
          /\ cli' = [cli EXCEPT !.asked = @ \ {f.ask}]
          /\ Answered(f.ask)
          /\ UNCHANGED <<lines, turns>>
    /\ Elsewhere

(* A tool result: the next message joins the turn.                         *)
ClaudeFold ==
    /\ provider = "claude" /\ alive
    /\ cli.turn /\ cli.asked = {} /\ cli.inbox # <<>>
    /\ cli' = [cli EXCEPT !.inbox = Tail(@)]
    /\ Says(Tell("taken", Head(cli.inbox)))
    /\ Take({Head(cli.inbox).msg})
    /\ UNCHANGED <<wire, replies>>
    /\ Elsewhere

(* The next message runs as a turn of its own.                             *)
ClaudeNextTurn ==
    /\ provider = "claude" /\ alive
    /\ ~cli.turn /\ cli.inbox # <<>>
    /\ cli' = [cli EXCEPT !.turn = TRUE, !.inbox = Tail(@)]
    /\ Says(<<[is |-> "turn"]>> \o Tell("taken", Head(cli.inbox)))
    /\ Take({Head(cli.inbox).msg})
    /\ UNCHANGED <<wire, replies>>
    /\ Elsewhere

ClaudeAsks(a, kind) ==
    /\ provider = "claude" /\ alive
    /\ cli.turn /\ cli.asked = {} /\ a \notin cli.spent
    /\ cli' = [cli EXCEPT !.asked = {a}, !.spent = @ \cup {a}]
    /\ Says(<<Ask(a, kind)>>)
    /\ UNCHANGED <<wire, turns, replies>>
    /\ Elsewhere

ClaudeFinish(how) ==
    /\ provider = "claude" /\ alive
    /\ cli.turn /\ cli.asked = {}
    /\ cli' = [cli EXCEPT !.turn = FALSE]
    /\ Says(<<ResultLine(how)>>)
    /\ UNCHANGED <<wire, turns, replies>>
    /\ Elsewhere

(* An `error`, or a limit that has run out, told in the middle of a turn.  *)
ClaudeError ==
    /\ provider = "claude" /\ alive
    /\ cli.turn /\ ~cli.erred
    /\ cli' = [cli EXCEPT !.erred = TRUE]
    /\ Says(<<[is |-> "error"]>>)
    /\ UNCHANGED <<wire, turns, replies>>
    /\ Elsewhere
=============================================================================
