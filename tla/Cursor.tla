------------------------------- MODULE Cursor --------------------------------
(* The driver of a Cursor session (crates/wtm-agent/src/cursor.rs), and    *)
(* the agent as ACP and the driver's comments describe it: one prompt at a *)
(* time, ended by a reply, and a cancelled prompt is answered too.  Tools, *)
(* the picker's options and the agenda are left out.                       *)
EXTENDS Session

CursorNew(auto) == [phase |-> "initializing", prompts |-> {}, queued |-> <<>>, carried |-> <<>>,
              cancelling |-> FALSE, pending |-> {}, plans |-> {}, auto |-> auto]

Prompt(ms) == [is |-> "prompt", msgs |-> ms]
PromptSteps(ms) == <<Started, Write(Prompt(ms))>>

CursorFlush(d) ==
    IF d.carried = <<>> \/ d.prompts # {} THEN Result(d, <<>>)
    ELSE Result([d EXCEPT !.carried = <<>>, !.prompts = {d.carried}],
                Echoes(d.carried) \o PromptSteps(d.carried))

CursorSend(d, m) ==
    CASE d.phase = "ready" /\ d.prompts # {} ->
            Result([d EXCEPT !.carried = Append(@, m)], <<>>)
      [] d.phase = "ready" /\ d.prompts = {} ->
            Result([d EXCEPT !.prompts = {<<m>>}], <<Echo(m)>> \o PromptSteps(<<m>>))
      [] OTHER -> Result([d EXCEPT !.queued = Append(@, m)], <<Echo(m)>>)

(* interrupt, and abandon: the cancel, then an answer to every request.    *)
CursorInterrupt(d) ==
    IF d.phase # "ready" THEN Result(d, <<>>)
    ELSE Result([d EXCEPT !.pending = {}],
                <<Write(Interrupt(None))>> \o Dismiss(d.pending))

CursorSteer(d, m) ==
    IF d.phase # "ready" \/ d.prompts = {} THEN CursorSend(d, m)
    ELSE LET d1 == [d EXCEPT !.carried = Append(@, m), !.cancelling = TRUE]
         IN  IF d.cancelling THEN Result(d1, <<>>) ELSE CursorInterrupt(d1)

CursorCall(d, m, how) == IF how = "steer" THEN CursorSteer(d, m) ELSE CursorSend(d, m)

(* An approved plan puts the session in Auto: permissions are then answered*)
(* without a card.                                                         *)
CursorAnswer(d, a, allow) ==
    IF a \notin d.pending THEN Result(d, <<>>)
    ELSE Result([d EXCEPT !.pending = @ \ {a}, !.auto = @ \/ (allow /\ a \in d.plans)],
                <<Write(Reply(a)), Settled(a)>>)

(* on_reply: a prompt's end, whether it was cancelled or refused.          *)
CursorOnPrompt(d, line) ==
    LET d1 == [d EXCEPT !.prompts = @ \ {line.msgs},
                        !.cancelling = IF line.msgs \in d.prompts THEN FALSE ELSE @]
        known == line.msgs \in d.prompts
    IN  CASE ~line.ok -> (IF known THEN [CursorFlush(d1) EXCEPT !.steps = <<Failed>> \o @]
                          ELSE Result(d1, <<Failed>>))
          [] line.ok /\ known /\ d1.carried = <<>> -> Result(d1, <<Finished>>)
          [] line.ok /\ known /\ d1.carried # <<>> -> CursorFlush(d1)
          [] OTHER -> Result(d1, <<>>)

CursorOnOpen(d) ==
    Result([d EXCEPT !.phase = "ready", !.queued = <<>>,
                     !.prompts = {<<m>> : m \in ToSet(d.queued)}],
           [i \in 1 .. 2 * Len(d.queued) |->
               IF i % 2 = 1 THEN Started ELSE Write(Prompt(<<d.queued[i \div 2]>>))])

CursorOnAsk(d, line) ==
    CASE line.kind = "unknown" -> Result(d, <<>>)
      [] line.kind = "approval" /\ d.auto -> Result(d, <<Write(Reply(line.ask)), Settled(line.ask)>>)
      [] OTHER -> Result([d EXCEPT !.pending = @ \cup {line.ask},
                                   !.plans = IF line.kind = "plan" THEN @ \cup {line.ask} ELSE @],
                         <<Card(line.ask)>>)

CursorOnLine(d, line) ==
    CASE line.is = "init" ->
            IF line.ok THEN Result([d EXCEPT !.phase = "authenticating"], <<Write([is |-> "auth"])>>)
            ELSE Result(d, <<Failed>>)
      [] line.is = "auth" ->
            IF line.ok THEN Result([d EXCEPT !.phase = "starting"], <<Write([is |-> "open"])>>)
            ELSE Result(d, <<Failed>>)
      [] line.is = "open" -> IF line.ok THEN CursorOnOpen(d) ELSE Result(d, <<Failed>>)
      [] line.is = "prompt" -> CursorOnPrompt(d, line)
      [] line.is = "ask" -> CursorOnAsk(d, line)

-----------------------------------------------------------------------------
(* The agent: the prompt it runs, the requests it waits for and those it   *)
(* has made.                                                               *)
CursorCli == [turn |-> None, asked |-> {}, spent |-> {}]

PromptReply(ms, ok) == [is |-> "prompt", msgs |-> ms, ok |-> ok]

CursorServe ==
    /\ provider = "cursor" /\ alive /\ wire # <<>>
    /\ wire' = Tail(wire)
    /\ LET f == Head(wire) IN
       \/ /\ f.is \in {"init", "auth", "open"}
          /\ \E ok \in BOOLEAN :
                /\ ok \/ f.is \in Refusals
                /\ Says(<<[is |-> f.is, ok |-> ok]>>)
          /\ UNCHANGED <<cli, turns, replies>>
       \/ /\ f.is = "prompt"
          /\ \/ /\ cli.turn = None
                /\ cli' = [cli EXCEPT !.turn = f.msgs]
                /\ Take(ToSet(f.msgs))
                /\ UNCHANGED lines
             \/ /\ cli.turn # None \/ "prompt" \in Refusals
                /\ Says(<<PromptReply(f.msgs, FALSE)>>)
                /\ UNCHANGED <<cli, turns>>
          /\ UNCHANGED replies
       \/ /\ f.is = "interrupt"
          /\ cli' = [cli EXCEPT !.turn = None, !.asked = {}]
          /\ Says(IF cli.turn = None THEN <<>> ELSE <<PromptReply(cli.turn, TRUE)>>)
          /\ UNCHANGED <<turns, replies>>
       \/ /\ f.is = "reply"
          /\ cli' = [cli EXCEPT !.asked = @ \ {f.ask}]
          /\ Answered(f.ask)
          /\ UNCHANGED <<lines, turns>>
    /\ Elsewhere

CursorAsks(a, kind) ==
    /\ provider = "cursor" /\ alive
    /\ cli.turn # None /\ cli.asked = {} /\ a \notin cli.spent
    /\ cli' = [cli EXCEPT !.asked = {a}, !.spent = @ \cup {a}]
    /\ Says(<<Ask(a, kind)>>)
    /\ UNCHANGED <<wire, turns, replies>>
    /\ Elsewhere

CursorFinish(ok) ==
    /\ provider = "cursor" /\ alive
    /\ cli.turn # None /\ cli.asked = {}
    /\ ok \/ "turn" \in Refusals
    /\ cli' = [cli EXCEPT !.turn = None]
    /\ Says(<<PromptReply(cli.turn, ok)>>)
    /\ UNCHANGED <<wire, turns, replies>>
    /\ Elsewhere
=============================================================================
