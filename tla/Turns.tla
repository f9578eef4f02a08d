-------------------------------- MODULE Turns --------------------------------
(***************************************************************************)
(* Waiting for an agent's turn to end (src-tauri/src/turns.rs), the log of *)
(* exchanges it settles (src-tauri/src/messages.rs) and the threads that   *)
(* meet there: the callers running `send_tracked` and `wait_until`, and    *)
(* the one reader thread per session that feeds `Registry::observe` and    *)
(* `Registry::gone` through AgentEventSink (src-tauri/src/agent_bridge.rs).*)
(*                                                                         *)
(* A caller makes one call, so its name also names the exchange it begins  *)
(* and the watch it arms.  A step is what one thread does under one lock.  *)
(***************************************************************************)
EXTENDS Naturals, Sequences, FiniteSets

CONSTANTS
    Callers,        \* threads that each send one tracked turn
    Sessions,       \* agent sessions, by wtm's own id
    MaxWatches,     \* MAX_WATCHES_PER_SESSION
    MaxExchanges,   \* MAX_EXCHANGES, the length of the log's ring
    User,           \* the prompt a person types into the pane
    None

Prompts  == Callers \cup {User}
Outcomes == {"finished", "failed", "gone"}

(* An event that ends a turn, with the prompts that turn had to answer.    *)
Ending == [how : Outcomes, owed : SUBSET Prompts]

ASSUME TurnsAssumption ==
    /\ MaxWatches \in Nat \ {0}
    /\ MaxExchanges \in Nat \ {0}
    /\ IsFiniteSet(Callers)
    /\ User \notin Callers
    /\ None \notin Callers \cup Sessions \cup Outcomes
    /\ None \notin Ending

VARIABLES
    watches,    \* Registry.watches: the callers whose watch is armed on a session
    chan,       \* the channel of each caller's watch
    ring,       \* Log.ring: the exchanges kept, oldest first
    log,        \* the state the log shows for each exchange
    proc,       \* a session: "open", "ending" (refuses prompts), "gone" (on_exit has run)
    turn,       \* the prompts a session's driver still owes an ending
    working,    \* the sessions whose AgentEntry.working is up, what `admit` reads
    lines,      \* a session's reader thread: the endings it has still to report,
    now,        \* the one it is reporting,
    sending,    \* the watches it took and has still to send to,
    settling,   \* and those whose exchanges it has still to settle
    pc,         \* where each caller is in send_tracked and wait
    to,         \* the session a caller is sending to
    got,        \* the ending a caller was handed
    endedBy     \* history: whether the ending that took the watch was its own turn's

regVars  == <<watches, chan, endedBy>>
logVars  == <<ring, log>>
procVars == <<proc, turn, working>>
sinkVars == <<lines, now, sending, settling>>
callVars == <<pc, to, got>>
vars == <<watches, chan, endedBy, ring, log, proc, turn, working,
          lines, now, sending, settling, pc, to, got>>

Settled == {"answered", "failed"}

(* How Log::settle writes an outcome down.                                 *)
StateOf(how) == IF how = "finished" THEN "answered" ELSE "failed"

(* Log::settle finds nothing once the ring has let the exchange go.        *)
SettleLog(c, how) ==
    log' = IF log[c] \in {"none", "dropped"} THEN log
           ELSE [log EXCEPT ![c] = StateOf(how)]

Init ==
    /\ watches = [s \in Sessions |-> {}]
    /\ chan    = [c \in Callers |-> "empty"]
    /\ ring    = <<>>
    /\ log     = [c \in Callers |-> "none"]
    /\ proc    = [s \in Sessions |-> "open"]
    /\ turn    = [s \in Sessions |-> {}]
    /\ working = {}
    /\ lines   = [s \in Sessions |-> <<>>]
    /\ now     = [s \in Sessions |-> None]
    /\ sending  = [s \in Sessions |-> {}]
    /\ settling = [s \in Sessions |-> {}]
    /\ pc      = [c \in Callers |-> "new"]
    /\ to      = [c \in Callers |-> None]
    /\ got     = [c \in Callers |-> None]
    /\ endedBy = [c \in Callers |-> None]

-----------------------------------------------------------------------------
(* The callers: admit, then send_tracked, then wait_until.                 *)

(* The check before sending: the session is there and not in a turn.  What *)
(* it read may be stale by the time the watch is armed.                    *)
Admit(c, s) ==
    /\ pc[c] = "new"
    /\ proc[s] = "open"
    /\ s \notin working
    /\ pc' = [pc EXCEPT ![c] = "admitted"]
    /\ to' = [to EXCEPT ![c] = s]
    /\ UNCHANGED <<got, regVars, logVars, procVars, sinkVars>>

(* messages::begin: a new record at the end of the ring, the oldest out.   *)
Begin(c) ==
    /\ pc[c] = "admitted"
    /\ pc' = [pc EXCEPT ![c] = "begun"]
    /\ IF Len(ring) < MaxExchanges
       THEN /\ ring' = Append(ring, c)
            /\ log' = [log EXCEPT ![c] = "in_flight"]
       ELSE /\ ring' = Append(Tail(ring), c)
            /\ log' = [log EXCEPT ![Head(ring)] = "dropped", ![c] = "in_flight"]
    /\ UNCHANGED <<to, got, regVars, procVars, sinkVars>>

(* Registry::watch, refused once the session carries its limit.            *)
Watch(c) ==
    /\ pc[c] = "begun"
    /\ IF Cardinality(watches[to[c]]) >= MaxWatches
       THEN /\ pc' = [pc EXCEPT ![c] = "failing"]
            /\ UNCHANGED watches
       ELSE /\ pc' = [pc EXCEPT ![c] = "armed"]
            /\ watches' = [watches EXCEPT ![to[c]] = @ \cup {c}]
    /\ UNCHANGED <<to, got, chan, endedBy, logVars, procVars, sinkVars>>

(* App::send_agent_turn took the prompt.  Some providers announce the turn *)
(* at once, others on a later line, so `working` may lag.                  *)
SendOk(c) ==
    /\ pc[c] = "armed"
    /\ proc[to[c]] = "open"
    /\ pc' = [pc EXCEPT ![c] = "waiting"]
    /\ turn' = [turn EXCEPT ![to[c]] = @ \cup {c}]
    /\ working' \in {working, working \cup {to[c]}}
    /\ UNCHANGED <<to, got, regVars, logVars, proc, sinkVars>>

(* It did not: the session has left the map, or its stdin is gone.         *)
SendRefused(c) ==
    /\ pc[c] = "armed"
    /\ proc[to[c]] # "open"
    /\ pc' = [pc EXCEPT ![c] = "refused"]
    /\ UNCHANGED <<to, got, regVars, logVars, procVars, sinkVars>>

(* Registry::cancel.  Nothing to disarm when an ending has taken the watch;*)
(* a watch that goes this way closes its channel unsettled.                *)
Cancel(c) ==
    /\ pc[c] = "refused"
    /\ pc' = [pc EXCEPT ![c] = "failing"]
    /\ IF c \in watches[to[c]]
       THEN /\ watches' = [watches EXCEPT ![to[c]] = @ \ {c}]
            /\ chan' = [chan EXCEPT ![c] = "lost"]
       ELSE UNCHANGED <<watches, chan>>
    /\ UNCHANGED <<to, got, endedBy, logVars, procVars, sinkVars>>

(* messages::fail, then Err(SendFailure::Refused) to the caller.           *)
Fail(c) ==
    /\ pc[c] = "failing"
    /\ pc' = [pc EXCEPT ![c] = "rejected"]
    /\ SettleLog(c, "failed")
    /\ UNCHANGED <<ring, to, got, regVars, procVars, sinkVars>>

(* wait_until: the ending has arrived.                                     *)
WaitEnded(c) ==
    /\ pc[c] = "waiting"
    /\ chan[c] \in Outcomes
    /\ pc' = [pc EXCEPT ![c] = "returned"]
    /\ got' = [got EXCEPT ![c] = chan[c]]
    /\ chan' = [chan EXCEPT ![c] = "taken"]
    /\ UNCHANGED <<to, watches, endedBy, logVars, procVars, sinkVars>>

(* Mutant: a caller that gives up fails the exchange itself.               *)
GiveUp_Fails(c) ==
    /\ pc[c] = "waiting"
    /\ chan[c] = "empty"
    /\ pc' = [pc EXCEPT ![c] = "gaveup"]
    /\ SettleLog(c, "failed")
    /\ UNCHANGED <<ring, to, got, regVars, procVars, sinkVars>>

(* wait_until: the receive timed out, and the deadline has passed or the   *)
(* caller's own condition said stop (or nobody waits at all: `send`).  The *)
(* watch stays armed.                                                      *)
GiveUp(c) ==
    /\ pc[c] = "waiting"
    /\ chan[c] = "empty"
    /\ pc' = [pc EXCEPT ![c] = "gaveup"]
    /\ UNCHANGED <<to, got, regVars, logVars, procVars, sinkVars>>

-----------------------------------------------------------------------------
(* The session: its driver, and the reader thread inside the event sink.   *)

(* A person sends a turn from the pane; nothing is watching for it.        *)
UserTurn(s) ==
    /\ proc[s] = "open"
    /\ turn' = [turn EXCEPT ![s] = @ \cup {User}]
    /\ working' = working \cup {s}
    /\ UNCHANGED <<proc, sinkVars, regVars, logVars, callVars>>

AtRest(s) == lines[s] = <<>> /\ now[s] = None
ReaderFree(s) == AtRest(s) /\ proc[s] # "gone"

(* A TurnStarted line.                                                     *)
TurnStarted(s) ==
    /\ ReaderFree(s)
    /\ turn[s] # {}
    /\ s \notin working
    /\ working' = working \cup {s}
    /\ UNCHANGED <<proc, turn, sinkVars, regVars, logVars, callVars>>

(* A line that closes the running turn, with everything folded into it.    *)
(* Claude reports a failure or a limit and then the ordinary finish.       *)
TurnLine(s) ==
    /\ ReaderFree(s)
    /\ turn[s] # {}
    /\ LET end(how) == [how |-> how, owed |-> turn[s]] IN
       \E ends \in {<<end("finished")>>, <<end("failed"), end("finished")>>} :
          lines' = [lines EXCEPT ![s] = ends]
    /\ turn' = [turn EXCEPT ![s] = {}]
    /\ UNCHANGED <<proc, working, now, sending, settling, regVars, logVars, callVars>>

(* A failure or a limit reported on its own.  The driver may go on with    *)
(* the turn, or carry what it had queued into the next one.                *)
FailureLine(s) ==
    /\ ReaderFree(s)
    /\ turn[s] # {}
    /\ lines' = [lines EXCEPT ![s] = << [how |-> "failed", owed |-> turn[s]] >>]
    /\ \E carried \in SUBSET turn[s] : turn' = [turn EXCEPT ![s] = carried]
    /\ UNCHANGED <<proc, working, now, sending, settling, regVars, logVars, callVars>>

(* on_event, first half: App::record_agent_event puts the pane's flag down.*)
Record(s) ==
    /\ now[s] = None
    /\ lines[s] # <<>>
    /\ now' = [now EXCEPT ![s] = Head(lines[s])]
    /\ lines' = [lines EXCEPT ![s] = Tail(@)]
    /\ working' = working \ {s}
    /\ UNCHANGED <<proc, turn, sending, settling, regVars, logVars, callVars>>

(* The watches an ending takes, all of the session's at once.              *)
TakeWatches(s, end) ==
    /\ watches' = [watches EXCEPT ![s] = {}]
    /\ endedBy' = [c \in Callers |->
          IF c \notin watches[s] THEN endedBy[c]
          ELSE IF c \in end.owed THEN "own" ELSE "foreign"]
    /\ sending' = [sending EXCEPT ![s] = watches[s]]
    /\ now' = [now EXCEPT ![s] = IF watches[s] = {} THEN None ELSE end]
    /\ UNCHANGED <<lines, settling>>

(* Mutant: the watches are copied out of the list, not taken out of it.    *)
Observe_Copies(s) ==
    /\ now[s] # None
    /\ sending[s] = {} /\ settling[s] = {}
    /\ sending' = [sending EXCEPT ![s] = watches[s]]
    /\ now' = [now EXCEPT ![s] = IF watches[s] = {} THEN None ELSE @]
    /\ UNCHANGED <<regVars, lines, settling, logVars, procVars, callVars>>

(* on_event, second half: Registry::observe empties the session's list and *)
(* lets its lock go before anything is sent.                               *)
Observe(s) ==
    /\ now[s] # None
    /\ sending[s] = {} /\ settling[s] = {}
    /\ TakeWatches(s, now[s])
    /\ UNCHANGED <<chan, logVars, procVars, callVars>>

(* Mutant: the ending is logged but never sent.                            *)
Send_Unheard(s, c) ==
    /\ c \in sending[s]
    /\ sending' = [sending EXCEPT ![s] = @ \ {c}]
    /\ settling' = [settling EXCEPT ![s] = @ \cup {c}]
    /\ UNCHANGED <<lines, now, regVars, logVars, procVars, callVars>>

(* Watch::settle: the ending goes to one waiter, if it still listens.      *)
Send(s, c) ==
    /\ c \in sending[s]
    /\ chan' = [chan EXCEPT ![c] = now[s].how]
    /\ sending' = [sending EXCEPT ![s] = @ \ {c}]
    /\ settling' = [settling EXCEPT ![s] = @ \cup {c}]
    /\ UNCHANGED <<lines, now, watches, endedBy, logVars, procVars, callVars>>

(* Mutant: every ending is logged as an answer.                            *)
Settle_Answered(s, c) ==
    /\ sending[s] = {}
    /\ c \in settling[s]
    /\ SettleLog(c, "finished")
    /\ settling' = [settling EXCEPT ![s] = @ \ {c}]
    /\ now' = [now EXCEPT ![s] = IF settling[s] = {c} THEN None ELSE @]
    /\ UNCHANGED <<lines, sending, ring, regVars, procVars, callVars>>

(* messages::settle_turns, one exchange, after every waiter has been sent. *)
Settle(s, c) ==
    /\ sending[s] = {}
    /\ c \in settling[s]
    /\ SettleLog(c, now[s].how)
    /\ settling' = [settling EXCEPT ![s] = @ \ {c}]
    /\ now' = [now EXCEPT ![s] = IF settling[s] = {c} THEN None ELSE @]
    /\ UNCHANGED <<lines, sending, ring, regVars, procVars, callVars>>

(* The pane is closed, or the process dies: no more prompts.               *)
End(s) ==
    /\ proc[s] = "open"
    /\ proc' = [proc EXCEPT ![s] = "ending"]
    /\ UNCHANGED <<turn, working, sinkVars, regVars, logVars, callVars>>

(* Mutant: an exit is not reported to those who wait.                      *)
Exit_Silent(s) ==
    /\ proc[s] = "ending"
    /\ AtRest(s)
    /\ proc' = [proc EXCEPT ![s] = "gone"]
    /\ turn' = [turn EXCEPT ![s] = {}]
    /\ UNCHANGED <<working, sinkVars, regVars, logVars, callVars>>

(* on_exit, after the last line: Registry::gone takes what is left.        *)
Exit(s) ==
    /\ proc[s] = "ending"
    /\ AtRest(s)
    /\ proc' = [proc EXCEPT ![s] = "gone"]
    /\ turn' = [turn EXCEPT ![s] = {}]
    /\ TakeWatches(s, [how |-> "gone", owed |-> turn[s]])
    /\ UNCHANGED <<working, chan, logVars, callVars>>

-----------------------------------------------------------------------------
CallerStep(c) ==
    \/ \E s \in Sessions : Admit(c, s)
    \/ Begin(c) \/ Watch(c)
    \/ SendOk(c) \/ SendRefused(c) \/ Cancel(c) \/ Fail(c)
    \/ WaitEnded(c) \/ GiveUp(c)

SinkStep(s) ==
    \/ Record(s) \/ Observe(s)
    \/ \E c \in Callers : Send(s, c) \/ Settle(s, c)

SessionStep(s) ==
    \/ UserTurn(s) \/ TurnStarted(s) \/ TurnLine(s) \/ FailureLine(s)
    \/ End(s) \/ Exit(s)

Next ==
    \/ \E c \in Callers : CallerStep(c)
    \/ \E s \in Sessions : SinkStep(s) \/ SessionStep(s)

Spec == Init /\ [][Next]_vars

(* Threads that can run do run.  A turn closes in the end (it finishes, or *)
(* the process goes); nothing is assumed of deadlines, users or `admit`.   *)
Fairness ==
    /\ \A c \in Callers :
          /\ WF_vars(Begin(c) \/ Watch(c) \/ SendOk(c) \/ SendRefused(c))
          /\ WF_vars(Cancel(c) \/ Fail(c) \/ WaitEnded(c))
    /\ \A s \in Sessions : WF_vars(SinkStep(s)) /\ WF_vars(TurnLine(s) \/ Exit(s))

FairSpec == Spec /\ Fairness

-----------------------------------------------------------------------------
(* Every variable has its type.                                            *)
TypeOK ==
    /\ watches \in [Sessions -> SUBSET Callers]
    /\ chan \in [Callers -> Outcomes \cup {"empty", "lost", "taken"}]
    /\ ring \in Seq(Callers)
    /\ log \in [Callers -> Settled \cup {"none", "in_flight", "dropped"}]
    /\ proc \in [Sessions -> {"open", "ending", "gone"}]
    /\ turn \in [Sessions -> SUBSET Prompts]
    /\ working \in SUBSET Sessions
    /\ lines \in [Sessions -> Seq(Ending)]
    /\ now \in [Sessions -> Ending \cup {None}]
    /\ sending \in [Sessions -> SUBSET Callers]
    /\ settling \in [Sessions -> SUBSET Callers]
    /\ pc \in [Callers -> {"new", "admitted", "begun", "armed", "refused", "failing",
                           "waiting", "rejected", "gaveup", "returned"}]
    /\ to \in [Callers -> Sessions \cup {None}]
    /\ got \in [Callers -> Outcomes \cup {None}]
    /\ endedBy \in [Callers -> {"own", "foreign", None}]

(* An exchange drawn as in flight has somebody who will still settle it:   *)
(* an armed watch, the reader thread that took the watch, or a caller on   *)
(* its way to `messages::fail`.  Without that the wire stays for ever.     *)
InFlightIsOwed ==
    \A c \in Callers : log[c] = "in_flight" =>
        \/ pc[c] \in {"begun", "refused", "failing"}
        \/ c \in watches[to[c]]
        \/ c \in sending[to[c]] \cup settling[to[c]]

(* A caller that waits has an ending to come: its watch is armed, or the   *)
(* reader holds it, or it is in the channel.  `Wait::Lost` is "which only  *)
(* cancel does", and a waiting caller never cancelled.                     *)
NeverLost ==
    \A c \in Callers : pc[c] = "waiting" =>
        \/ chan[c] = "empty" /\ c \in watches[to[c]] \cup sending[to[c]]
        \/ chan[c] \in Outcomes

(* What a caller was handed and what the log shows are the same ending:    *)
(* the log has it, is about to (the reader settles it next), or has let    *)
(* the exchange go.  A failure cannot be read as an answer.                *)
ToldAsLogged ==
    \A c \in Callers : pc[c] = "returned" =>
        \/ log[c] = StateOf(got[c])
        \/ log[c] = "dropped"
        \/ /\ log[c] = "in_flight"
           /\ c \in settling[to[c]]
           /\ now[to[c]].how = got[c]

(* The watches on one session stay within their limit, those of callers    *)
(* that gave up included.                                                  *)
WatchesBounded == \A s \in Sessions : Cardinality(watches[s]) <= MaxWatches

(* The exchange of a prompt the session took settles once, and for good:   *)
(* only a refused prompt is settled by two threads, its caller and the     *)
(* reader, in either order.                                                *)
SettledOnce ==
    [][\A c \in Callers :
          log[c] \in Settled /\ log'[c] # log[c] =>
             log'[c] = "dropped" \/ pc[c] \in {"failing", "rejected"}]_vars

(* A prompt that is in flight settles, whether or not anyone waits.        *)
InFlightSettles ==
    \A c \in Callers : log[c] = "in_flight" ~> log[c] # "in_flight"

(* A waiter is let go without its deadline when its turn ends or its       *)
(* session dies.                                                           *)
WaiterIsWoken == \A c \in Callers : pc[c] = "waiting" ~> pc[c] # "waiting"

(* "Arm a watch on `session`'s next turn": the ending that settles a sent  *)
(* prompt is the ending of a turn that had to answer it.                   *)
OwnEnding ==
    \A c \in Callers : pc[c] = "returned" /\ got[c] # "gone" => endedBy[c] = "own"
-----------------------------------------------------------------------------
(* The promise to callers (Exchange), read off the registry and the log.   *)

CallStage(c) ==
    CASE pc[c] \in {"new", "admitted"} -> "idle"
      [] pc[c] = "returned" -> "told"
      [] pc[c] = "gaveup" -> "left"
      [] pc[c] = "rejected" -> "refused"
      [] OTHER -> "open"

(* The ending of c's watch: in the reader's hand, in the channel, or read. *)
EndingOf(c) ==
    IF \E s \in Sessions : c \in sending[s] \cup settling[s]
    THEN now[to[c]].how
    ELSE IF chan[c] \in Outcomes THEN chan[c] ELSE got[c]

Stages  == [c \in Callers |-> CallStage(c)]
Endings == [c \in Callers |-> EndingOf(c)]

Promise == INSTANCE Exchange WITH
    call <- Stages, ending <- Endings, told <- got, record <- log

(* Every step of the callers, the reader threads and the log is a step of  *)
(* Exchange, or none of it: one ending per send, told and logged as it is. *)
KeepsPromise == Promise!Spec
-----------------------------------------------------------------------------
(* The inductive invariant behind the properties above.  Each part follows *)
(* a watch on its way from the registry, through the reader thread and the *)
(* caller's channel, to the log.                                           *)

Live == {"armed", "refused", "waiting", "gaveup"}
Unsettled == {"in_flight", "dropped"}

(* An ending a caller can rely on: the log shows it, will show it when the *)
(* reader's next steps have run, or keeps the exchange no more.            *)
Told(c, how) ==
    \/ log[c] = StateOf(how)
    \/ log[c] = "dropped"
    \/ /\ log[c] = "in_flight"
       /\ c \in settling[to[c]]
       /\ now[to[c]].how = how

(* While the reader holds a watch it is reporting an ending.               *)
BusyInv ==
    \A s \in Sessions :
        sending[s] # {} \/ settling[s] # {} => now[s] \in Ending

(* A caller that has started knows whom it addresses.                      *)
AddressInv == \A c \in Callers : pc[c] = "new" \/ to[c] \in Sessions

(* Whose watch is in a session's list.                                     *)
ArmedInv ==
    \A s \in Sessions : \A c \in watches[s] :
        /\ to[c] = s
        /\ pc[c] \in Live
        /\ chan[c] = "empty"
        /\ c \notin sending[s] \cup settling[s]

(* Whose watch the reader holds, with its ending still to be sent.         *)
SendingInv ==
    \A s \in Sessions : \A c \in sending[s] :
        /\ to[c] = s
        /\ pc[c] \in Live \cup {"failing", "rejected"}
        /\ pc[c] # "rejected" => log[c] \in Unsettled
        /\ chan[c] = "empty"
        /\ c \notin settling[s]

(* Whose ending has been sent, with the exchange still to be settled.      *)
SettlingInv ==
    \A s \in Sessions : \A c \in settling[s] :
        /\ to[c] = s
        /\ pc[c] \in Live \cup {"failing", "rejected", "returned"}
        /\ pc[c] # "rejected" => log[c] \in Unsettled
        /\ pc[c] \in Live => chan[c] = now[s].how
        /\ pc[c] = "returned" => got[c] = now[s].how

(* What a caller can say of its own call.                                  *)
CallOf(c) ==
    /\ pc[c] \in {"new", "admitted"} => log[c] \in {"none", "dropped"}
    /\ pc[c] \in {"new", "admitted", "begun"} => chan[c] = "empty"
    /\ pc[c] = "begun" => log[c] \in Unsettled
    /\ pc[c] \in Live =>
          \/ /\ chan[c] = "empty"
             /\ c \in watches[to[c]] \cup sending[to[c]]
             /\ log[c] \in Unsettled
          \/ chan[c] \in Outcomes /\ Told(c, chan[c])
    /\ pc[c] = "returned" => got[c] \in Outcomes /\ Told(c, got[c])
    /\ pc[c] = "rejected" => log[c] # "in_flight"

CallInv == \A c \in Callers : CallOf(c)

IInv ==
    /\ TypeOK /\ BusyInv /\ AddressInv
    /\ ArmedInv /\ SendingInv /\ SettlingInv /\ CallInv
=============================================================================
