------------------------------- MODULE Replay -------------------------------
(* How a transcript reaches the window (src-tauri/src/app.rs,              *)
(* agent_bridge.rs, src/lib/state/sessions.svelte.ts).  Every event a      *)
(* session emits is numbered and kept under one lock and announced after   *)
(* it; a window that has to paint a session it has not heard from the      *)
(* start asks for what is kept, and joins the answer to the announcements  *)
(* that go on arriving by the number alone.                                *)
EXTENDS Integers, Sequences, FiniteSets, SequencesExt

CONSTANTS
    MaxSids,     \* bounds the sessions
    Shown,       \* the sessions that have a pane in this window
    MaxEvents,   \* bounds the events emitted, of all sessions together
    MaxReloads,  \* bounds the reloads of the window
    MaxEarly,    \* MAX_EARLY_REPLAY_SESSIONS
    MaxReplay,   \* MAX_REPLAY, the events kept of one session
    MaxHeld,     \* MAX_EARLY_EVENTS
    MaxHeldSids  \* MAX_EARLY_SESSIONS

ASSUME ReplayAssumption ==
    /\ {MaxSids, MaxEvents, MaxReloads} \subseteq Nat /\ Shown \subseteq 1 .. MaxSids
    /\ {MaxEarly, MaxReplay, MaxHeld, MaxHeldSids} \subseteq Nat \ {0}

Sid == 1 .. MaxSids              \* ordered as ids are, not as sessions open
Emitter == {"reader", "caller"}  \* the threads that emit for one session
Silent == [num |-> -1, event |-> 0, by |-> "reader", kind |-> "said"]

VARIABLES
    life,       \* unborn, opening (spawned), listed (in App.agents), closed
    over,       \* the sessions whose process has ended
    early,      \* the keys of App.early_replay
    kept,       \* the events of a session's ReplayBuffer, wherever it is
    nextNum,    \* ReplayBuffer.next
    emitted,    \* history: how many events the session has emitted
    wire,       \* what each thread has numbered and not yet announced
    listening,  \* the window has subscribed
    tile,       \* none, asked (agentReplay awaited), answered, claimed
    snapshot,   \* the snapshot on its way to the window
    through,    \* Pane.replayedThrough; -1 for null
    held,       \* sessions.eventsAhead, of each session
    heldOrder,  \* its keys, oldest first
    drawn,      \* what the window's transcript was given
    reloads,    \* the reloads so far
    cut         \* history: sessions some of whose events were dropped

replayVars == <<life, over, early, kept, nextNum, emitted, wire, listening, tile,
                snapshot, through, held, heldOrder, drawn, reloads, cut>>

window == <<listening, tile, snapshot, through, held, heldOrder, drawn, reloads>>

ReplayInit ==
    /\ life = [s \in Sid |-> "unborn"]
    /\ over = {}
    /\ early = {}
    /\ kept = [s \in Sid |-> <<>>]
    /\ nextNum = [s \in Sid |-> 0]
    /\ emitted = [s \in Sid |-> 0]
    /\ wire = [s \in Sid |-> [t \in Emitter |-> Silent]]
    /\ listening = TRUE
    /\ tile = [s \in Sid |-> "none"]
    /\ snapshot = [s \in Sid |-> <<>>]
    /\ through = [s \in Sid |-> -1]
    /\ held = [s \in Sid |-> <<>>]
    /\ heldOrder = <<>>
    /\ drawn = [s \in Sid |-> <<>>]
    /\ reloads = 0
    /\ cut = {}

-----------------------------------------------------------------------------
(* The application                                                         *)

\* The entries of `all` that are in `some`, in their order.
Among(all, some) ==
    LET upTo[i \in 0 .. Len(all)] ==
            IF i = 0 THEN <<>>
            ELSE IF all[i] \in some THEN Append(upTo[i - 1], all[i]) ELSE upTo[i - 1]
    IN  upTo[Len(all)]

LastOf(n, all) == IF Len(all) > n THEN SubSeq(all, Len(all) - n + 1, Len(all)) ELSE all

(* ReplayBuffer::push: a newer value of the same state replaces the older, *)
(* and the oldest go when there are too many.                              *)
Pushed(buffer, entry) ==
    LET others == Among(buffer, {e \in ToSet(buffer) : ~(e.kind = "patch" /\ entry.kind = "patch")})
    IN  LastOf(MaxReplay, Append(others, entry))

BeginOpen(s) ==
    /\ life[s] = "unborn"
    /\ life' = [life EXCEPT ![s] = "opening"]
    /\ UNCHANGED <<over, early, kept, nextNum, emitted, wire, cut, window>>

(* The process ends, and its readers have delivered what it said.          *)
Exit(s) ==
    /\ life[s] # "unborn" /\ s \notin over
    /\ over' = over \cup {s}
    /\ UNCHANGED <<life, early, kept, nextNum, emitted, wire, cut, window>>

(* A newcomer to a full App.early_replay evicts the least id there.        *)
Evicted(s) ==
    IF life[s] # "listed" /\ s \notin early /\ Cardinality(early) >= MaxEarly
    THEN {CHOOSE v \in early : \A w \in early : v <= w}
    ELSE {}

\* A bound of the model: the events of all sessions together.
Within == FoldFunction(LAMBDA n, sum : n + sum, 0, emitted) < MaxEvents

(* record_agent_event, where a thread has numbered its event and has yet   *)
(* to announce it.  A session the map does not have keeps its events early.*)
Emit(s, t, kind) ==
    LET evicted == Evicted(s)
        entry == [num |-> nextNum[s], event |-> emitted[s] + 1, by |-> t, kind |-> kind]
    IN  /\ life[s] # "unborn" /\ s \notin over
        /\ wire[s][t] = Silent
        /\ Within
        /\ emitted' = [emitted EXCEPT ![s] = @ + 1]
        /\ early' = IF life[s] = "listed" THEN early ELSE (early \ evicted) \cup {s}
        /\ kept' = [v \in Sid |-> IF v = s THEN Pushed(kept[s], entry)
                                  ELSE IF v \in evicted THEN <<>> ELSE kept[v]]
        /\ nextNum' = [v \in Sid |-> IF v = s THEN nextNum[s] + 1
                                     ELSE IF v \in evicted THEN 0 ELSE nextNum[v]]
        /\ cut' = cut \cup evicted
        /\ wire' = [wire EXCEPT ![s][t] = entry]
        /\ UNCHANGED <<life, over, window>>

(* open_agent drops what is kept of sessions whose process has ended, but  *)
(* for the one it is opening, which is not in the map yet.                 *)
Pruned(s) == {v \in over : v \in early \/ life[v] = "listed"} \ {s}

(* Mutant: the entry starts with a buffer of its own.                      *)
Forgotten_Own(s) == Pruned(s) \cup {s}

Forgotten(s) == Pruned(s)

(* The end of open_agent, under the agents lock: the early buffer becomes  *)
(* the entry's.                                                            *)
FinishOpen(s) ==
    /\ life[s] = "opening"
    /\ life' = [v \in Sid |->
                    IF v = s THEN "listed"
                    ELSE IF v \in Pruned(s) /\ life[v] = "listed" THEN "closed"
                    ELSE life[v]]
    /\ early' = early \ (Pruned(s) \cup {s})
    /\ kept' = [v \in Sid |-> IF v \in Forgotten(s) THEN <<>> ELSE kept[v]]
    /\ nextNum' = [v \in Sid |-> IF v \in Forgotten(s) THEN 0 ELSE nextNum[v]]
    /\ cut' = cut \cup Pruned(s)
    /\ UNCHANGED <<over, emitted, wire, window>>

(* end_agent_process takes the entry, its replay with it, and then ends    *)
(* the process: what the session still says is numbered from 0.            *)
DropEntry(s) ==
    /\ life[s] = "listed"
    /\ life' = [life EXCEPT ![s] = "closed"]
    /\ kept' = [kept EXCEPT ![s] = <<>>]
    /\ nextNum' = [nextNum EXCEPT ![s] = 0]
    /\ cut' = cut \cup {s}
    /\ UNCHANGED <<over, early, emitted, wire, window>>

-----------------------------------------------------------------------------
(* The window                                                              *)

(* What record lets past Pane.replayedThrough.                             *)
Unseen(s, entries) ==
    Among(entries, {e \in ToSet(entries) : e.num > through'[s]})

Draw(s, entries) == drawn' = [drawn EXCEPT ![s] = @ \o entries]

(* holdEvent, when no pane has the session.                                *)
Hold(s, entry) ==
    LET full == s \notin ToSet(heldOrder) /\ Len(heldOrder) >= MaxHeldSids
        order == IF full THEN Tail(heldOrder) ELSE heldOrder
        waiting == Append(held[s], entry)
        spilt == Len(waiting) > MaxHeld
    IN  /\ heldOrder' = IF s \in ToSet(order) THEN order ELSE Append(order, s)
        /\ held' = [v \in Sid |-> IF v = s THEN IF spilt THEN Tail(waiting) ELSE waiting
                                  ELSE IF full /\ v = Head(heldOrder) THEN <<>> ELSE held[v]]
        /\ cut' = cut \cup (IF full THEN {Head(heldOrder)} ELSE {})
                      \cup (IF spilt THEN {s} ELSE {})

(* A thread announces its event, and the window hears it or is not there.  *)
Announce(s, t) ==
    /\ wire[s][t] # Silent
    /\ wire' = [wire EXCEPT ![s][t] = Silent]
    /\ UNCHANGED through
    /\ \/ /\ ~listening
          /\ UNCHANGED <<drawn, held, heldOrder, cut>>
       \/ /\ listening /\ tile[s] = "claimed"
          /\ Draw(s, Unseen(s, <<wire[s][t]>>))
          /\ UNCHANGED <<held, heldOrder, cut>>
       \/ /\ listening /\ tile[s] # "claimed"
          /\ Hold(s, wire[s][t])
          /\ UNCHANGED drawn
    /\ UNCHANGED <<life, over, early, kept, nextNum, emitted, listening, tile, snapshot, reloads>>

(* attach, for a session just opened or one the window finds running.      *)
Ask(s) ==
    /\ listening /\ s \in Shown /\ tile[s] = "none" /\ life[s] = "listed"
    /\ tile' = [tile EXCEPT ![s] = "asked"]
    /\ UNCHANGED <<life, over, early, kept, nextNum, emitted, wire, cut,
                   listening, snapshot, through, held, heldOrder, drawn, reloads>>

(* agent_replay: a session the map has not got has nothing.                *)
AgentReplay(s) ==
    /\ tile[s] = "asked"
    /\ tile' = [tile EXCEPT ![s] = "answered"]
    /\ snapshot' = [snapshot EXCEPT ![s] = IF life[s] = "listed" THEN kept[s] ELSE <<>>]
    /\ UNCHANGED <<life, over, early, kept, nextNum, emitted, wire, cut,
                   listening, through, held, heldOrder, drawn, reloads>>

(* The rest of attach, and claimSession: the snapshot, then what was held. *)
Claim(s) ==
    /\ tile[s] = "answered"
    /\ tile' = [tile EXCEPT ![s] = "claimed"]
    /\ through' = [through EXCEPT ![s] = IF snapshot[s] = <<>> THEN -1 ELSE Last(snapshot[s]).num]
    /\ Draw(s, snapshot[s] \o Unseen(s, held[s]))
    /\ held' = [held EXCEPT ![s] = <<>>]
    /\ heldOrder' = Among(heldOrder, Sid \ {s})
    /\ snapshot' = [snapshot EXCEPT ![s] = <<>>]
    /\ UNCHANGED <<life, over, early, kept, nextNum, emitted, wire, cut, listening, reloads>>

(* The webview reloads, and init subscribes before it adopts anything.     *)
Reload ==
    /\ reloads < MaxReloads
    /\ reloads' = reloads + 1
    /\ listening' = FALSE
    /\ tile' = [s \in Sid |-> "none"]
    /\ snapshot' = [s \in Sid |-> <<>>]
    /\ through' = [s \in Sid |-> -1]
    /\ held' = [s \in Sid |-> <<>>]
    /\ heldOrder' = <<>>
    /\ drawn' = [s \in Sid |-> <<>>]
    /\ UNCHANGED <<life, over, early, kept, nextNum, emitted, wire, cut>>

Listen ==
    /\ ~listening
    /\ listening' = TRUE
    /\ UNCHANGED <<life, over, early, kept, nextNum, emitted, wire, cut,
                   tile, snapshot, through, held, heldOrder, drawn, reloads>>

ReplayNext ==
    \/ \E s \in Sid : BeginOpen(s) \/ Exit(s) \/ FinishOpen(s) \/ DropEntry(s)
                      \/ Ask(s) \/ AgentReplay(s) \/ Claim(s)
    \/ \E s \in Shown : Emit(s, "caller", "said") \/ Emit(s, "reader", "patch")
    \/ \E s \in Sid : Emit(s, "reader", "said")
    \/ \E s \in Sid, t \in Emitter : Announce(s, t)
    \/ Reload
    \/ Listen

ReplaySpec == ReplayInit /\ [][ReplayNext]_replayVars

-----------------------------------------------------------------------------
ReplayTypeOK ==
    /\ life \in [Sid -> {"unborn", "opening", "listed", "closed"}]
    /\ early \subseteq Sid /\ over \subseteq Sid /\ cut \subseteq Sid
    /\ nextNum \in [Sid -> Nat] /\ emitted \in [Sid -> Nat]
    /\ \A s \in Sid : kept[s] # <<>> => s \in early \/ life[s] = "listed"
    /\ tile \in [Sid -> {"none", "asked", "answered", "claimed"}]
    /\ through \in [Sid -> Nat \cup {-1}]
    /\ ToSet(heldOrder) = {s \in Sid : held[s] # <<>>}

(* "drawn twice" cannot happen, whatever was evicted, dropped or reloaded, *)
(* and whichever of two threads announces first: the snapshot and the      *)
(* announcements overlap, and replayedThrough parts them.                  *)
DrawnOnce == \A s \in Sid : IsInjective(drawn[s])

Events(entries) == {entries[i].event : i \in DOMAIN entries}

(* Once a pane has claimed a session nothing is missing below what it has  *)
(* drawn first but a value that a newer one replaced: whatever was emitted *)
(* while the session opened, while the answer was on its way and across a  *)
(* reload has been drawn or is about to be announced.                      *)
NoHole ==
    \A s \in Sid \ cut :
        tile[s] = "claimed" /\ drawn[s] # <<>> =>
            LET seen == Events(drawn[s]) \cup {wire[s][t].event : t \in Emitter}
                first == CHOOSE n \in Events(drawn[s]) : \A m \in Events(drawn[s]) : n <= m
            IN  \A n \in first .. emitted[s] :
                    n \in seen \/ \E i \in DOMAIN drawn[s] :
                                     drawn[s][i].kind = "patch" /\ drawn[s][i].event > n

(* What one thread emits is drawn in the order it emitted it.              *)
ThreadOrder ==
    \A s \in Sid \ cut : \A i, j \in DOMAIN drawn[s] :
        i < j /\ drawn[s][i].by = drawn[s][j].by => drawn[s][i].event < drawn[s][j].event

(* "The number never goes backwards": what is kept is numbered upwards,    *)
(* and below the next number.                                              *)
NumbersGrow ==
    \A s \in Sid : \A i \in DOMAIN kept[s] :
        /\ kept[s][i].num < nextNum[s]
        /\ i > 1 => kept[s][i - 1].num < kept[s][i].num

(* The early buffers stay within their bound, a crowd of openings and of   *)
(* sessions draining after their close included.                           *)
EarlyBounded == Cardinality(early) <= MaxEarly

(* What the application keeps of a session's events, for those on record   *)
(* and for those still opening, is numbered and bounded.                   *)
BuffersOK == ReplayTypeOK /\ NumbersGrow /\ EarlyBounded

(* The window draws a session's thread whole: each event once, each        *)
(* thread's in its order, and none missing.                                *)
DrawnWhole == DrawnOnce /\ NoHole /\ ThreadOrder

(* What the application keeps of a session and what the window draws of it *)
(* are in order and whole.                                                 *)
ReplayOK == BuffersOK /\ DrawnWhole
=============================================================================
