-------------------------------- MODULE Codex --------------------------------
(* The driver of a Codex session (crates/wtm-agent/src/codex.rs), and the  *)
(* app server as the driver's comments describe it: one turn at a time, a  *)
(* steer accepted only for the turn it names and dropped if that turn is   *)
(* interrupted first.  Skills, token counts and items are left out.        *)
EXTENDS Session

CONSTANT Compacts    \* the messages that are "/compact"

CodexNew == [phase |-> "initializing", active |-> None, startId |-> None, queued |-> <<>>,
             steers |-> {}, unanswered |-> {}, carried |-> <<>>,
             pending |-> {}, elicitations |-> {}]

TurnStart(ms)   == [is |-> "turn/start", msgs |-> ms]
TurnSteer(m, turn) == [is |-> "turn/steer", msg |-> m, turn |-> turn]

CodexFrame(d, ms) == Result([d EXCEPT !.startId = ms], <<Write(TurnStart(ms))>>)

(* Mutant: what is flushed stays carried. *)
CodexFlush_Keeps(d) ==
    IF d.carried = <<>> \/ d.active # None \/ d.startId # None THEN Result(d, <<>>)
    ELSE LET r == CodexFrame(d, d.carried)
         IN  [r EXCEPT !.steps = Echoes(d.carried) \o @]

CodexFlush(d) ==
    IF d.carried = <<>> \/ d.active # None \/ d.startId # None THEN Result(d, <<>>)
    ELSE LET r == CodexFrame([d EXCEPT !.carried = <<>>], d.carried)
         IN  [r EXCEPT !.steps = Echoes(d.carried) \o @]

CodexSteer(d, m) ==
    Result([d EXCEPT !.steers = @ \cup {m}, !.unanswered = @ \cup {m}],
           <<Write(TurnSteer(m, d.active))>>)

(* send_turn; `steer` with no turn running is the same thing.              *)
CodexSend(d, m) ==
    CASE d.phase = "ready" /\ d.active # None -> CodexSteer(d, m)
      [] d.phase = "ready" /\ d.active = None /\ m \in Compacts ->
            Result(d, <<Echo(m), Write([is |-> "compact", msgs |-> <<m>>])>>)
      [] d.phase = "ready" /\ d.active = None /\ m \notin Compacts ->
            [CodexFrame(d, <<m>>) EXCEPT !.steps = <<Echo(m)>> \o @]
      [] OTHER -> Result([d EXCEPT !.queued = Append(@, m)], <<Echo(m)>>)

CodexCall(d, m, how) ==
    IF how = "steer" /\ d.active # None THEN CodexSteer(d, m) ELSE CodexSend(d, m)

CodexAnswer(d, a) ==
    IF a \notin d.pending THEN Result(d, <<>>)
    ELSE Result([d EXCEPT !.pending = @ \ {a}], <<Write(Reply(a)), Settled(a)>>)

CodexInterrupt(d) ==
    IF d.active = None THEN Result(d, <<>>)
    ELSE LET asked == d.pending \cap d.elicitations
         IN  Result([d EXCEPT !.pending = @ \ asked],
                    Append(Dismiss(asked), Write(Interrupt(d.active))))

CodexAbandon(d) == Result([d EXCEPT !.pending = {}], Dismiss(d.pending))

-----------------------------------------------------------------------------
(* on_reply, by the request that is answered.                              *)
CodexOnStart(d, line) ==
    LET known == line.turn = d.startId
        d1 == [d EXCEPT !.startId = IF known THEN None ELSE @,
                        !.active = IF known /\ line.ok THEN line.turn ELSE @]
    IN  Result(d1, IF line.ok THEN <<>> ELSE <<Failed>>)

(* Mutant: a refused steer is forgotten. *)
CodexOnSteer_Dropped(d, line) ==
    Result([d EXCEPT !.unanswered = @ \ {line.msg},
                     !.steers = IF line.ok THEN @ ELSE @ \ {line.msg}], <<>>)

CodexOnSteer(d, line) ==
    LET d1 == [d EXCEPT !.unanswered = @ \ {line.msg}]
        orphaned == line.ok /\ d.active = None
    IN  IF (line.ok /\ ~orphaned) \/ line.msg \notin d.steers THEN Result(d1, <<>>)
        ELSE CodexFlush([d1 EXCEPT !.steers = @ \ {line.msg}, !.carried = Append(@, line.msg)])

(* The thread is open: everything queued is sent.                          *)
CodexOnOpen(d) ==
    LET d1 == [d EXCEPT !.phase = "ready", !.queued = <<>>]
    IN  Result([d1 EXCEPT !.startId = IF d.queued = <<>> THEN @ ELSE <<Last(d.queued)>>],
               [i \in DOMAIN d.queued |-> Write(TurnStart(<<d.queued[i]>>))])

(* Mutant: only an answered steer holds the finish.                        *)
CodexOnCompleted_Eager(d, failed) ==
    LET answered == d.steers \ d.unanswered
        d1 == [d EXCEPT !.active = None, !.steers = @ \cap d.unanswered,
                        !.carried = @ \o SetToSeq(answered)]
    IN  IF d1.carried # <<>> THEN CodexFlush(d1)
        ELSE Result(d1, IF failed THEN <<Failed>> ELSE <<Finished>>)

(* turn/completed.                                                         *)
CodexOnCompleted(d, failed) ==
    LET answered == d.steers \ d.unanswered
        awaiting == d.steers \cap d.unanswered
        d1 == [d EXCEPT !.active = None, !.steers = awaiting,
                        !.carried = @ \o SetToSeq(answered)]
    IN  CASE failed -> [CodexFlush(d1) EXCEPT !.steps = <<Failed>> \o @]
          [] ~failed /\ (d1.carried # <<>> \/ awaiting # {}) -> CodexFlush(d1)
          [] OTHER -> Result(d1, <<Finished>>)

(* A server request: a card, or a refusal on the spot.                     *)
CodexOnAsk(d, line) ==
    IF line.kind = "unknown" THEN Result(d, <<Write(Reply(line.ask))>>)
    ELSE Result([d EXCEPT !.pending = @ \cup {line.ask},
                          !.elicitations = IF line.kind = "elicitation" THEN @ \cup {line.ask} ELSE @],
                <<Card(line.ask)>>)

CodexOnLine(d, line) ==
    CASE line.is = "init" ->
            IF line.ok THEN Result([d EXCEPT !.phase = "starting"], <<Write([is |-> "open"])>>)
            ELSE Result(d, <<Failed>>)
      [] line.is = "open" -> IF line.ok THEN CodexOnOpen(d) ELSE Result(d, <<Failed>>)
      [] line.is = "start" -> CodexOnStart(d, line)
      [] line.is = "steer" -> CodexOnSteer(d, line)
      [] line.is = "error" -> Result(d, <<Failed>>)
      [] line.is = "started" ->
            Result([d EXCEPT !.active = line.turn, !.startId = None], <<Started>>)
      [] line.is = "item" ->
            IF line.msg \notin d.steers THEN Result(d, <<>>)
            ELSE Result([d EXCEPT !.steers = @ \ {line.msg}], <<Echo(line.msg)>>)
      [] line.is = "completed" -> CodexOnCompleted(d, line.failed)
      [] line.is = "ask" -> CodexOnAsk(d, line)
      [] line.is = "resolved" ->
            IF line.ask \notin d.pending THEN Result(d, <<>>)
            ELSE Result([d EXCEPT !.pending = @ \ {line.ask}], <<Settled(line.ask)>>)

-----------------------------------------------------------------------------
(* The app server: the turn it runs, the steers it has accepted and not    *)
(* read, those it has still to acknowledge, the approvals it waits for and *)
(* those it has asked for.                                                 *)
CodexCli == [turn |-> None, inbox |-> <<>>, acks |-> {}, asked |-> {}, spent |-> {}]

Ok(what)      == [is |-> what, ok |-> TRUE]
No(what)      == [is |-> what, ok |-> FALSE]
StartOk(turn) == [is |-> "start", ok |-> TRUE, turn |-> turn]
StartNo(turn) == [is |-> "start", ok |-> FALSE, turn |-> turn]
SteerOk(m)    == [is |-> "steer", ok |-> TRUE, msg |-> m]
SteerNo(m)    == [is |-> "steer", ok |-> FALSE, msg |-> m]
Completed(failed) == [is |-> "completed", failed |-> failed]

CompactTurn(turn) == turn # None /\ \E i \in DOMAIN turn : turn[i] \in Compacts

(* It ends its turn: unread steers are dropped, approvals are settled.     *)
CodexEnd(failed) ==
    /\ cli' = [cli EXCEPT !.turn = None, !.inbox = <<>>, !.asked = {}]
    /\ Says(<<Completed(failed)>> \o
             SetToSeq({[is |-> "resolved", ask |-> a] : a \in cli.asked}))

CodexServe ==
    /\ provider = "codex" /\ alive /\ wire # <<>>
    /\ wire' = Tail(wire)
    /\ LET f == Head(wire) IN
       \/ /\ f.is \in {"init", "open"}
          /\ \/ Says(<<Ok(f.is)>>)
             \/ f.is \in Refusals /\ Says(<<No(f.is)>>)
          /\ UNCHANGED <<cli, turns, replies>>
       \/ /\ f.is \in {"turn/start", "compact"}
          /\ \/ /\ cli.turn = None
                /\ cli' = [cli EXCEPT !.turn = f.msgs]
                /\ Says((IF f.is = "compact" THEN <<>> ELSE <<StartOk(f.msgs)>>)
                         \o <<[is |-> "started", turn |-> f.msgs]>>)
                /\ Take(ToSet(f.msgs))
             \/ /\ cli.turn # None \/ "turn/start" \in Refusals
                /\ Says(<<IF f.is = "compact" THEN [is |-> "error"] ELSE StartNo(f.msgs)>>)
                /\ UNCHANGED <<cli, turns>>
          /\ UNCHANGED replies
       \/ /\ f.is = "turn/steer"
          /\ IF cli.turn # None /\ cli.turn = f.turn /\ ~CompactTurn(f.turn)
             THEN /\ cli' = [cli EXCEPT !.inbox = Append(@, f.msg), !.acks = @ \cup {f.msg}]
                  /\ UNCHANGED lines
             ELSE /\ Says(<<SteerNo(f.msg)>>)
                  /\ UNCHANGED cli
          /\ UNCHANGED <<turns, replies>>
       \/ /\ f.is = "interrupt"
          /\ IF cli.turn # None /\ cli.turn = f.turn THEN CodexEnd(FALSE)
             ELSE UNCHANGED cli /\ Says(<<[is |-> "error"]>>)
          /\ UNCHANGED <<turns, replies>>
       \/ /\ f.is = "reply"
          /\ cli' = [cli EXCEPT !.asked = @ \ {f.ask}]
          /\ Answered(f.ask)
          /\ UNCHANGED <<lines, turns>>
    /\ Elsewhere

CodexAck(m) ==
    /\ provider = "codex" /\ alive
    /\ m \in cli.acks
    /\ cli' = [cli EXCEPT !.acks = @ \ {m}]
    /\ Says(<<SteerOk(m)>>)
    /\ UNCHANGED <<wire, turns, replies>>
    /\ Elsewhere

(* The model's next step reads a steer.                                    *)
CodexRead ==
    /\ provider = "codex" /\ alive
    /\ cli.inbox # <<>> /\ cli.asked = {}
    /\ cli' = [cli EXCEPT !.inbox = Tail(@)]
    /\ Says(<<[is |-> "item", msg |-> Head(cli.inbox)]>>)
    /\ Take({Head(cli.inbox)})
    /\ UNCHANGED <<wire, replies>>
    /\ Elsewhere

CodexAsks(a, kind) ==
    /\ provider = "codex" /\ alive
    /\ cli.turn # None /\ cli.asked = {}
    /\ a \notin cli.spent
    /\ cli' = [cli EXCEPT !.asked = {a}, !.spent = @ \cup {a}]
    /\ Says(<<Ask(a, kind)>>)
    /\ UNCHANGED <<wire, turns, replies>>
    /\ Elsewhere

CodexFinish(failed) ==
    /\ provider = "codex" /\ alive
    /\ cli.turn # None /\ cli.asked = {}
    /\ failed \/ cli.inbox = <<>>
    /\ failed => "turn" \in Refusals
    /\ CodexEnd(failed)
    /\ UNCHANGED <<wire, turns, replies>>
    /\ Elsewhere
=============================================================================
