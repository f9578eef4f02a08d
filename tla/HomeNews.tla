------------------------------ MODULE HomeNews ------------------------------
(* What a Home conversation hears of the work it sends out                 *)
(* (src-tauri/src/home.rs): the delegations and notices of Registry, the   *)
(* tool calls that make them (`deliver` in src-tauri/src/home_tools.rs),   *)
(* the reader threads that end and interrupt them, and the threads that    *)
(* carry the notices to Home.                                              *)
(*                                                                         *)
(* One Home conversation; a call stands for its exchange.  Watches are     *)
(* those of Turns, without the log and the prompts a turn owes: here a     *)
(* session may report an ending at any time, whoever's turn it was.        *)
EXTENDS Naturals, FiniteSets

CONSTANTS
    Calls,      \* message_session and open_session calls of this Home
    Sessions,   \* the sessions they address
    None

ASSUME HomeAssumption == None \notin Sessions

Notice == Calls \X {"ended", "waiting"}

VARIABLES
    pc,         \* where each call is in deliver and send_tracked
    to,         \* the session it addresses
    waits,      \* the calls made with `wait: true`
    armed,      \* Registry.watches of each session (turns.rs)
    chan,       \* the channel of each watch
    sending,    \* a session's reader: watches taken, with the reply still to send,
    settling,   \* and those sent, with home::settled still to run
    asking,     \* the sessions whose approval request Home has still to be told of
    asks,       \* the sessions with a pending approval in App.agents
    alive,      \* a session: "open", "ending", "gone"
    kept,       \* Registry.delegations; the three flags of each are
    awaited,    \* Delegation.awaited,
    told,       \* Delegation.told_waiting
    quiet,      \* and Delegation.quiet
    notices,    \* Registry.notices of this Home
    scheduled,  \* whether Registry.scheduled has it
    sleeping,   \* the threads of deliver_soon still in their sleep
    carried,    \* the batches their successors have taken and not yet sent
    heard,      \* what has been sent to Home
    home        \* whether the Home session is there

callVars  == <<pc, to, waits>>
turnVars  == <<armed, chan, sending, settling>>
askVars   == <<asking, asks>>
keptVars  == <<kept, awaited, told, quiet>>
newsVars  == <<notices, scheduled, sleeping>>
carryVars == <<carried, heard>>
vars == <<pc, to, waits, armed, chan, sending, settling, asking, asks, alive,
          kept, awaited, told, quiet, notices, scheduled, sleeping, carried, heard, home>>

Init ==
    /\ pc = [x \in Calls |-> "new"]
    /\ to = [x \in Calls |-> None]
    /\ waits = {}
    /\ armed = [s \in Sessions |-> {}]
    /\ chan = [x \in Calls |-> "empty"]
    /\ sending = [s \in Sessions |-> {}]
    /\ settling = [s \in Sessions |-> {}]
    /\ asking = {} /\ asks = {}
    /\ alive = [s \in Sessions |-> "open"]
    /\ kept = {} /\ awaited = {} /\ told = {} /\ quiet = {}
    /\ notices = {} /\ scheduled = FALSE /\ sleeping = 0
    /\ carried = {} /\ heard = {}
    /\ home = TRUE

Step(x, from, next) == pc[x] = from /\ pc' = [pc EXCEPT ![x] = next]

(* `file`: the notices join the news, and a thread is started to carry     *)
(* them unless one is on its way.                                          *)
File(news) ==
    IF news = {} THEN UNCHANGED newsVars
    ELSE /\ notices' = notices \cup news
         /\ scheduled' = TRUE
         /\ sleeping' = IF scheduled THEN sleeping ELSE sleeping + 1

-----------------------------------------------------------------------------
(* A tool call.  send_tracked arms the watch; what `admit` read of the     *)
(* session before that may be stale.                                       *)
Arm(x, s, wait) ==
    /\ home
    /\ alive[s] = "open"
    /\ Step(x, "new", "armed")
    /\ to' = [to EXCEPT ![x] = s]
    /\ waits' = IF wait THEN waits \cup {x} ELSE waits
    /\ armed' = [armed EXCEPT ![s] = @ \cup {x}]
    /\ UNCHANGED <<chan, sending, settling, askVars, alive, keptVars, newsVars, carryVars, home>>

(* Registry::track, the `armed` callback of send_tracked.                  *)
Track(x) ==
    /\ Step(x, "armed", "tracked")
    /\ kept' = kept \cup {x}
    /\ awaited' = IF x \in waits THEN awaited \cup {x} ELSE awaited
    /\ UNCHANGED <<to, waits, turnVars, askVars, alive, told, quiet, newsVars, carryVars, home>>

(* The prompt goes; a call that does not wait returns "Sent".              *)
Send(x) ==
    /\ Step(x, "tracked", IF x \in waits THEN "waiting" ELSE "sent")
    /\ alive[to[x]] = "open"
    /\ UNCHANGED <<to, waits, turnVars, askVars, alive, keptVars, newsVars, carryVars, home>>

(* It does not: turns::Registry::cancel ...                                *)
Refuse(x) ==
    /\ Step(x, "tracked", "refused")
    /\ alive[to[x]] # "open"
    /\ IF x \in armed[to[x]]
       THEN /\ armed' = [armed EXCEPT ![to[x]] = @ \ {x}]
            /\ chan' = [chan EXCEPT ![x] = "lost"]
       ELSE UNCHANGED <<armed, chan>>
    /\ UNCHANGED <<to, waits, sending, settling, askVars, alive, keptVars, newsVars, carryVars,
                   home>>

(* ... and Registry::untrack; Home reads that the message was not taken.   *)
Untrack(x) ==
    /\ Step(x, "refused", "rejected")
    /\ kept' = kept \ {x}
    /\ UNCHANGED <<to, waits, turnVars, askVars, alive, awaited, told, quiet,
                   newsVars, carryVars, home>>

(* wait_until returns the reply.                                           *)
Reply(x) ==
    /\ chan[x] = "reply"
    /\ Step(x, "waiting", "replied")
    /\ chan' = [chan EXCEPT ![x] = "taken"]
    /\ UNCHANGED <<to, waits, armed, sending, settling, askVars, alive, keptVars,
                   newsVars, carryVars, home>>

(* wait_until stops: the session waits on the user, or time is up.         *)
StopWaiting(x) ==
    /\ chan[x] = "empty"
    /\ \/ Step(x, "waiting", "stopped") /\ to[x] \in asks
       \/ Step(x, "waiting", "late")
    /\ UNCHANGED <<to, waits, turnVars, askVars, alive, keptVars, newsVars, carryVars, home>>

(* Mutant: a call that stops waiting is still taken to wait.               *)
Release_Awaited(x) ==
    /\ pc[x] \in {"stopped", "late"}
    /\ x \in kept
    /\ Step(x, pc[x], IF pc[x] = "stopped" THEN "said" ELSE "working")
    /\ told' = IF pc[x] = "stopped" THEN told \cup {x} ELSE told
    /\ UNCHANGED <<to, waits, turnVars, askVars, alive, kept, awaited, quiet,
                   newsVars, carryVars, home>>

(* Registry::release of a delegation on record: its end is news after all. *)
Release(x) ==
    /\ pc[x] \in {"stopped", "late"}
    /\ x \in kept
    /\ Step(x, pc[x], IF pc[x] = "stopped" THEN "said" ELSE "working")
    /\ awaited' = awaited \ {x}
    /\ told' = IF pc[x] = "stopped" THEN told \cup {x} ELSE told
    /\ UNCHANGED <<to, waits, turnVars, askVars, alive, kept, quiet, newsVars, carryVars, home>>

(* Registry::release finds nothing; Waiter::take has the reply, or not.    *)
Take(x) ==
    /\ pc[x] \in {"stopped", "late"}
    /\ x \notin kept
    /\ Step(x, pc[x], IF chan[x] = "reply" THEN "replied" ELSE "lost")
    /\ chan' = [chan EXCEPT ![x] = IF @ = "reply" THEN "taken" ELSE @]
    /\ UNCHANGED <<to, waits, armed, sending, settling, askVars, alive, keptVars,
                   newsVars, carryVars, home>>

(* interrupt_session, Registry::quiet: the turn's end is Home's own doing. *)
Quiet(s) ==
    /\ home
    /\ LET mine == {x \in kept : to[x] = s} IN
       /\ mine # {}
       /\ quiet' = quiet \cup mine
    /\ UNCHANGED <<callVars, turnVars, askVars, alive, kept, awaited, told,
                   newsVars, carryVars, home>>

-----------------------------------------------------------------------------
(* A session and its reader thread.                                        *)

ReaderFree(s) == sending[s] = {} /\ settling[s] = {} /\ s \notin asking

TakeWatches(s) ==
    /\ sending' = [sending EXCEPT ![s] = armed[s]]
    /\ armed' = [armed EXCEPT ![s] = {}]

(* A turn ends, or a failure is reported: turns::Registry::observe.        *)
Ending(s) ==
    /\ alive[s] # "gone"
    /\ ReaderFree(s)
    /\ armed[s] # {}
    /\ TakeWatches(s)
    /\ UNCHANGED <<callVars, chan, settling, askVars, alive, keptVars, newsVars, carryVars, home>>

(* Watch::settle.                                                          *)
Answer(s, x) ==
    /\ x \in sending[s]
    /\ chan' = [chan EXCEPT ![x] = "reply"]
    /\ sending' = [sending EXCEPT ![s] = @ \ {x}]
    /\ settling' = [settling EXCEPT ![s] = @ \cup {x}]
    /\ UNCHANGED <<callVars, armed, askVars, alive, keptVars, newsVars, carryVars, home>>

(* Mutant: an awaited reply is news as well.                               *)
Settle_Awaited(s, x) ==
    /\ sending[s] = {}
    /\ x \in settling[s]
    /\ settling' = [settling EXCEPT ![s] = @ \ {x}]
    /\ kept' = kept \ {x}
    /\ File(({x} \cap (kept \ quiet)) \X {"ended"})
    /\ UNCHANGED <<callVars, armed, chan, sending, askVars, alive, awaited, told, quiet,
                   carryVars, home>>

(* Mutant: what Home stopped is news to it.                                *)
Settle_Loud(s, x) ==
    /\ sending[s] = {}
    /\ x \in settling[s]
    /\ settling' = [settling EXCEPT ![s] = @ \ {x}]
    /\ kept' = kept \ {x}
    /\ File(({x} \cap (kept \ awaited)) \X {"ended"})
    /\ UNCHANGED <<callVars, armed, chan, sending, askVars, alive, awaited, told, quiet,
                   carryVars, home>>

(* Mutant: the record is settled before the waiters are sent.              *)
Settle_Early(s, x) ==
    /\ x \in (sending[s] \cup settling[s]) \cap kept
    /\ settling' = [settling EXCEPT ![s] = @ \ {x}]
    /\ kept' = kept \ {x}
    /\ File(({x} \cap (kept \ (awaited \cup quiet))) \X {"ended"})
    /\ UNCHANGED <<callVars, armed, chan, sending, askVars, alive, awaited, told, quiet,
                   carryVars, home>>

(* home::settled, Registry::settle: the delegation goes, and is news       *)
(* unless a tool call takes the reply or Home stopped it.                  *)
Settle(s, x) ==
    /\ sending[s] = {}
    /\ x \in settling[s]
    /\ settling' = [settling EXCEPT ![s] = @ \ {x}]
    /\ kept' = kept \ {x}
    /\ File(({x} \cap (kept \ (awaited \cup quiet))) \X {"ended"})
    /\ UNCHANGED <<callVars, armed, chan, sending, askVars, alive, awaited, told, quiet,
                   carryVars, home>>

(* An approval is requested: record_agent_event puts it in App.agents ...  *)
Ask(s) ==
    /\ alive[s] = "open"
    /\ ReaderFree(s)
    /\ s \notin asks
    /\ asks' = asks \cup {s}
    /\ asking' = asking \cup {s}
    /\ UNCHANGED <<callVars, turnVars, alive, keptVars, newsVars, carryVars, home>>

(* ... and then home::approval_requested, Registry::waiting.               *)
TellAsk(s) ==
    /\ s \in asking
    /\ asking' = asking \ {s}
    /\ LET news == {x \in kept \ (awaited \cup quiet \cup told) : to[x] = s} IN
       /\ told' = told \cup news
       /\ File(news \X {"waiting"})
    /\ UNCHANGED <<callVars, turnVars, asks, alive, kept, awaited, quiet, carryVars, home>>

(* The user answers.                                                       *)
Resolve(s) ==
    /\ s \in asks
    /\ asks' = asks \ {s}
    /\ UNCHANGED <<callVars, turnVars, asking, alive, keptVars, newsVars, carryVars, home>>

(* The session is closed, or its process dies.                             *)
End(s) ==
    /\ alive[s] = "open"
    /\ alive' = [alive EXCEPT ![s] = "ending"]
    /\ asks' \in {asks, asks \ {s}}
    /\ UNCHANGED <<callVars, turnVars, asking, keptVars, newsVars, carryVars, home>>

(* on_exit: turns::Registry::gone.                                         *)
Exit(s) ==
    /\ alive[s] = "ending"
    /\ ReaderFree(s)
    /\ alive' = [alive EXCEPT ![s] = "gone"]
    /\ TakeWatches(s)
    /\ UNCHANGED <<callVars, chan, settling, askVars, keptVars, newsVars, carryVars, home>>

-----------------------------------------------------------------------------
(* Home and the threads that carry its news.                               *)

(* prune: a session that waits is news while it does, and while its turn   *)
(* has not ended in the same batch.                                        *)
Prune(batch) ==
    {n \in batch : n[2] = "waiting" => <<n[1], "ended">> \notin batch /\ to[n[1]] \in asks}

(* Mutant: the news is taken, its delivery still counts as on its way.     *)
Wake_Scheduled ==
    /\ sleeping > 0
    /\ sleeping' = sleeping - 1
    /\ notices' = {}
    /\ carried' = carried \cup ({Prune(notices)} \ {{}})
    /\ UNCHANGED <<callVars, turnVars, askVars, alive, keptVars, scheduled, heard, home>>

(* Mutant: the notices are read, and left to be read again.                *)
Wake_Copies ==
    /\ sleeping > 0
    /\ sleeping' = sleeping - 1
    /\ scheduled' = FALSE
    /\ carried' = carried \cup ({Prune(notices)} \ {{}})
    /\ UNCHANGED <<callVars, turnVars, askVars, alive, keptVars, notices, heard, home>>

(* deliver: Registry::take_notices and prune.                              *)
Wake ==
    /\ sleeping > 0
    /\ sleeping' = sleeping - 1
    /\ scheduled' = FALSE
    /\ notices' = {}
    /\ carried' = carried \cup ({Prune(notices)} \ {{}})
    /\ UNCHANGED <<callVars, turnVars, askVars, alive, keptVars, heard, home>>

(* deliver: one message with the whole batch, if Home is still there.      *)
Deliver(batch) ==
    /\ batch \in carried
    /\ carried' = carried \ {batch}
    /\ heard' = IF home THEN heard \cup batch ELSE heard
    /\ UNCHANGED <<callVars, turnVars, askVars, alive, keptVars, newsVars, home>>

(* close_agent of Home itself: Registry::forget.                           *)
CloseHome ==
    /\ home
    /\ home' = FALSE
    /\ kept' = {}
    /\ notices' = {}
    /\ scheduled' = FALSE
    /\ UNCHANGED <<callVars, turnVars, askVars, alive, awaited, told, quiet, sleeping, carryVars>>

-----------------------------------------------------------------------------
CallStep(x) ==
    \/ Track(x) \/ Send(x) \/ Refuse(x) \/ Untrack(x)
    \/ Reply(x) \/ Release(x) \/ Take(x)

ReaderStep(s) ==
    \/ \E x \in Calls : Answer(s, x) \/ Settle(s, x)
    \/ TellAsk(s)

CourierStep == Wake \/ \E batch \in carried : Deliver(batch)

Next ==
    \/ \E x \in Calls :
          \/ \E s \in Sessions, wait \in BOOLEAN : Arm(x, s, wait)
          \/ CallStep(x) \/ StopWaiting(x)
    \/ \E s \in Sessions :
          \/ ReaderStep(s) \/ Quiet(s)
          \/ Ending(s) \/ Ask(s) \/ Resolve(s) \/ End(s) \/ Exit(s)
    \/ CourierStep \/ CloseHome

Spec == Init /\ [][Next]_vars

(* Threads that can run do run, and the line that ends a watched turn      *)
(* comes in the end, however many requests come before it.  Users need not *)
(* answer, nor callers lose patience.                                      *)
Fairness ==
    /\ \A x \in Calls : WF_vars(CallStep(x))
    /\ \A s \in Sessions : WF_vars(ReaderStep(s)) /\ SF_vars(Ending(s) \/ Exit(s))
    /\ WF_vars(CourierStep)

FairSpec == Spec /\ Fairness

-----------------------------------------------------------------------------
(* Every variable has its type.                                            *)
TypeOK ==
    /\ pc \in [Calls -> {"new", "armed", "tracked", "refused", "rejected", "sent", "waiting",
                          "stopped", "late", "said", "working", "replied", "lost"}]
    /\ to \in [Calls -> Sessions \cup {None}]
    /\ waits \subseteq Calls
    /\ armed \in [Sessions -> SUBSET Calls]
    /\ chan \in [Calls -> {"empty", "reply", "taken", "lost"}]
    /\ sending \in [Sessions -> SUBSET Calls] /\ settling \in [Sessions -> SUBSET Calls]
    /\ asking \subseteq Sessions /\ asks \subseteq Sessions
    /\ alive \in [Sessions -> {"open", "ending", "gone"}]
    /\ kept \subseteq Calls /\ awaited \subseteq Calls
    /\ told \subseteq Calls /\ quiet \subseteq Calls
    /\ notices \subseteq Notice
    /\ scheduled \in BOOLEAN
    /\ sleeping \in Nat
    /\ carried \subseteq SUBSET Notice
    /\ heard \subseteq Notice
    /\ home \in BOOLEAN

(* The notices there are, wherever they have come.                         *)
Filed == notices \cup heard \cup UNION carried

(* News never waits with nobody to carry it: the thread that finds         *)
(* `scheduled` up relies on one that has not taken the notices yet.        *)
NewsIsCarried ==
    /\ notices # {} => scheduled
    /\ scheduled => sleeping > 0

(* No notice goes to Home twice, whichever thread filed it, took it or     *)
(* found that a thread was on its way.                                     *)
HeardOnce ==
    /\ notices \cap heard = {}
    /\ \A batch \in carried : batch \cap (notices \cup heard) = {}
    /\ \A b1, b2 \in carried : b1 # b2 => b1 \cap b2 = {}

(* "A reply Home's tool call took in person is not news": however the wait *)
(* ended, and whichever way the reply was found.                           *)
TakenIsNoNews == \A x \in Calls : pc[x] = "replied" => <<x, "ended">> \notin Filed

(* Nor is it news that a session waits on the user when the tool call that *)
(* stopped for it says so.                                                 *)
SaidIsNoNews == \A x \in Calls : pc[x] = "said" => <<x, "waiting">> \notin Filed

(* "Neither is the end of a turn Home stopped itself": whichever thread    *)
(* was settling the delegation when Home stopped it.                       *)
StoppedIsSilent == \A x \in quiet : <<x, "ended">> \notin Filed

(* A call whose delegation has settled finds its reply in the channel: it  *)
(* "was sent to the waiter before it was let go here".                     *)
NeverLost == \A x \in Calls : pc[x] = "lost" => ~home

(* The end of a delegation that is watched reaches Home, unless Home       *)
(* stopped the turn, the session took no prompt, or Home has gone.         *)
EndIsTold ==
    \A x \in Calls :
        x \in kept /\ x \in armed[to[x]] ~>
            \/ pc[x] \in {"replied", "rejected"} \/ <<x, "ended">> \in heard
            \/ x \in quiet \/ ~home

(* `told_waiting`: "Home has heard that the session is waiting on the      *)
(* user, and is not told twice".                                           *)
ToldIsHeard ==
    \A x \in kept \cap told :
        home /\ to[x] \in asks \ asking =>
            pc[x] = "said" \/ <<x, "waiting">> \in Filed
-----------------------------------------------------------------------------
(* The inductive invariant behind the properties that hold.                *)

(* A call that may still take its reply from the channel.                  *)
Waiting == {"waiting", "stopped", "late"}

AddressInv == \A x \in Calls : pc[x] = "new" \/ to[x] \in Sessions

(* Whose watch is where.                                                   *)
WatchInv ==
    \A s \in Sessions : \A x \in Calls :
        /\ x \in armed[s] \cup sending[s] \cup settling[s] => to[x] = s /\ pc[x] # "new"
        /\ x \in settling[s] /\ pc[x] \in Waiting \cup {"armed", "tracked"} => chan[x] = "reply"

(* A call that waits has its delegation on record, or its reply to take.   *)
RecordInv ==
    \A x \in Calls :
        /\ x \in kept => pc[x] \notin {"new", "armed"}
        /\ pc[x] \in Waiting \cup {"tracked"} /\ home => x \in kept \/ chan[x] = "reply"

(* While a call waits, the news of it is its own to tell.                  *)
AwaitInv ==
    \A x \in Calls :
        /\ pc[x] \in Waiting \cup {"replied"} => x \in waits
        /\ x \in waits /\ pc[x] \in Waiting \cup {"tracked", "replied"} =>
              x \in awaited /\ <<x, "ended">> \notin Filed /\ <<x, "waiting">> \notin Filed
        /\ pc[x] = "said" => x \in told

(* What a notice says of its delegation.                                   *)
NoticeInv ==
    \A x \in Calls :
        /\ <<x, "ended">> \in Filed => x \notin kept \cup quiet /\ pc[x] \notin {"new", "armed"}
        /\ <<x, "waiting">> \in Filed => x \in told
        /\ x \in told => pc[x] \notin {"new", "armed"}

IInv ==
    /\ TypeOK /\ AddressInv /\ WatchInv /\ RecordInv /\ AwaitInv /\ NoticeInv
    /\ NewsIsCarried /\ HeardOnce /\ SaidIsNoNews /\ NeverLost
=============================================================================
