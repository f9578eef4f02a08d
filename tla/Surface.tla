------------------------------- MODULE Surface -------------------------------
(* The panes of a worktree in the main window                              *)
(* (src/lib/state/sessions.svelte.ts) and the sessions behind them.  Panes *)
(* are opened, restarted, closed and restored by handlers that wait for the*)
(* application in the middle; sessions are opened and exit on their own    *)
(* side, and are announced; the window may be reloaded, and the program    *)
(* quit.  A reload has only what was remembered and what still runs.       *)
EXTENDS Integers, Sequences, FiniteSets, SequencesExt

CONSTANTS
    MaxSids,     \* bounds the sessions
    MaxIds,      \* bounds the ids of panes
    MaxFills,    \* bounds the opens on their way
    MaxLooks,    \* bounds the looks at a restored worktree under way
    MaxWindows   \* bounds reloads and relaunches

Sid == 1 .. MaxSids
PaneId == 1 .. MaxIds
Fill == 1 .. MaxFills
Look == 1 .. MaxLooks
No == 0          \* null: no session, no pane, no conversation

VARIABLES
    \* the application
    live,       \* the sessions that run
    minted,     \* how many there have been
    parentOf,   \* who opened each by delegation
    talkOf,     \* the conversation each has
    unsaid,     \* the delegated ones that are still to be announced
    doomed,     \* the sessions with a close on its way that nobody waits for
    \* the window
    panes,      \* Sessions.panes
    nextId,     \* nextPaneId
    orphans,    \* Sessions.orphans, as pairs of child and parent pane
    fills,      \* the opens on their way
    waits,      \* the closes a handler waits for, and what it does then
    closing,    \* the panes close() has still to drop
    looks,      \* the panes each materialise() has still to fill
    boot,       \* how far init has got
    adoptees,   \* the sessions init has still to adopt
    taking,     \* the pane that is being given the first of them
    news,       \* the events the window has still to hear
    saved,      \* the stored surface
    windows,    \* how often the window has begun again
    \* history
    madeFor,    \* the pane each session was opened for
    shared,     \* panes filled or closed by two handlers at once, or by one that was late
    unheard,    \* sessions that opened for a window gone, after the new one had asked
    doubled,    \* sessions announced while they waited to be adopted
    missed,     \* sessions whose exit was heard when no pane had them
    retried,    \* panes whose session was heard to exit before they had their next one
    kin         \* restored children and the panes they were under, till these are given up

appVars == <<live, minted, parentOf, talkOf, unsaid, doomed>>
windowVars == <<panes, nextId, orphans, fills, waits, closing, looks, boot, adoptees, taking, news>>
historyVars == <<madeFor, shared, unheard, doubled, missed, retried, kin>>
surfaceVars == <<appVars, windowVars, saved, windows, historyVars>>

Idle == [stage |-> "idle", id |-> No, kind |-> "agent", talk |-> No, sid |-> No,
         moved |-> FALSE, back |-> FALSE, look |-> No]

-----------------------------------------------------------------------------
(* The records                                                             *)

Empty(kind, id) ==
    [id |-> id, kind |-> kind, sid |-> No, detached |-> FALSE, ended |-> FALSE,
     failed |-> FALSE, parent |-> No, talk |-> No]

\* paneById and paneBySession: the first that matches.
At(ps, Match(_)) == SelectInSeq(ps, Match)
ById(ps, id) == At(ps, LAMBDA p : p.id = id)
BySid(ps, s) == At(ps, LAMBDA p : p.sid = s)
Has(ps, id) == ById(ps, id) # 0
The(id) == panes[ById(panes, id)]
Drop(ps, ids) == SelectSeq(ps, LAMBDA p : p.id \notin ids)
Change(ps, id, F(_)) == IF Has(ps, id) THEN [ps EXCEPT ![ById(ps, id)] = F(@)] ELSE ps

\* The pane a restored child is under: by its parent's session, or as it was stored.
ParentPane(ps, os, p) ==
    LET held == BySid(ps, p.parent)
        kept == {o \in os : o[1] = p.id}
    IN  IF p.parent = No THEN No
        ELSE IF held # 0 THEN ps[held].id
        ELSE IF kept # {} THEN (CHOOSE o \in kept : TRUE)[2] ELSE No

\* What remember writes.
Stored(ps, os) ==
    [i \in DOMAIN ps |->
        [id |-> ps[i].id, kind |-> ps[i].kind, sid |-> ps[i].sid, talk |-> ps[i].talk,
         parent |-> ps[i].parent, under |-> ParentPane(ps, os, ps[i])]]

\* claimSession, and the orphans that learn of it.
Claimed(ps, os, id, s) ==
    LET mine == {o[1] : o \in {o \in os : o[2] = id}}
        given == Change(ps, id, LAMBDA p : [p EXCEPT !.sid = s,
                            !.talk = IF p.kind = "agent" THEN talkOf[s] ELSE @])
    IN  [i \in DOMAIN given |->
            IF given[i].id \in mine THEN [given[i] EXCEPT !.parent = s] ELSE given[i]]
Known(os, id) == {o \in os : o[2] # id}

Claims(ps, os, id, s) ==
    /\ panes' = Claimed(ps, os, id, s)
    /\ orphans' = Known(os, id)
    /\ saved' = Stored(panes', orphans')

(* close_agent ends the session and all that it opened.                    *)
Subtree(s) == {s} \cup {t \in Sid : parentOf[t] = s}

SurfaceInit ==
    /\ live = {} /\ minted = 0
    /\ parentOf = [s \in Sid |-> No] /\ talkOf = [s \in Sid |-> No]
    /\ unsaid = {} /\ doomed = {}
    /\ panes = <<>> /\ nextId = 0 /\ orphans = {}
    /\ fills = [f \in Fill |-> Idle] /\ waits = {} /\ closing = <<>>
    /\ looks = [i \in Look |-> <<>>]
    /\ boot = "up" /\ adoptees = <<>> /\ taking = No /\ news = <<>>
    /\ saved = <<>> /\ windows = 0
    /\ madeFor = [s \in Sid |-> No]
    /\ shared = {} /\ unheard = {} /\ doubled = {} /\ missed = {} /\ retried = {} /\ kin = {}

-----------------------------------------------------------------------------
(* The application                                                         *)

Note(kind, s) == [is |-> kind, sid |-> s]
ExitNotes(gone) == [i \in 1 .. Cardinality(gone) |-> Note("exit", SetToSeq(gone)[i])]

Heard(kind, s) == Note(kind, s) \in ToSet(news)

(* A session is closed, with those it opened; their readers tell the exit. *)
Ends(s) ==
    /\ live' = live \ Subtree(s)
    /\ news' = news \o ExitNotes(live \cap Subtree(s))

\* open_agent or open_terminal has the session running.
Opens(f) ==
    /\ fills[f].stage = "sent" /\ minted < MaxSids
    /\ LET s == minted + 1
           call == fills[f]
       IN  /\ minted' = s /\ live' = live \cup {s}
           /\ talkOf' = [talkOf EXCEPT ![s] = IF call.kind = "shell" THEN No
                                              ELSE IF call.talk # No THEN call.talk ELSE s]
           /\ madeFor' = [madeFor EXCEPT ![s] = call.id]
           /\ fills' = [fills EXCEPT ![f] = IF call.id = No THEN Idle
                                            ELSE [@ EXCEPT !.stage = "made", !.sid = s]]
           /\ unheard' = IF call.id = No /\ boot # "hearing" THEN unheard \cup {s} ELSE unheard
    /\ UNCHANGED <<parentOf, unsaid, doomed, panes, nextId, orphans, waits, closing, looks, boot,
                   adoptees, taking, news, saved, windows, shared, doubled, missed, retried, kin>>

Delegates(s) ==
    /\ s \in live /\ talkOf[s] # No /\ parentOf[s] = No /\ minted < MaxSids
    /\ LET c == minted + 1 IN
       /\ minted' = c /\ live' = live \cup {c} /\ unsaid' = unsaid \cup {c}
       /\ parentOf' = [parentOf EXCEPT ![c] = s]
       /\ talkOf' = [talkOf EXCEPT ![c] = c]
    /\ UNCHANGED <<doomed, windowVars, saved, windows, historyVars>>

Announces(c) ==
    /\ c \in unsaid /\ unsaid' = unsaid \ {c}
    /\ news' = Append(news, Note("spawned", c))
    /\ UNCHANGED <<live, minted, parentOf, talkOf, doomed, panes, nextId, orphans, fills, waits,
                   closing, looks, boot, adoptees, taking, saved, windows, historyVars>>

\* close_agents, by the one that opened it.
Releases(c) ==
    /\ c \in live /\ parentOf[c] # No
    /\ live' = live \ {c}
    /\ \E said \in {<<"exit", "released">>, <<"released", "exit">>} :
          news' = news \o <<Note(said[1], c), Note(said[2], c)>>
    /\ UNCHANGED <<minted, parentOf, talkOf, unsaid, doomed, panes, nextId, orphans, fills, waits,
                   closing, looks, boot, adoptees, taking, saved, windows, historyVars>>

Dies(s) ==
    /\ s \in live
    /\ live' = live \ {s} /\ news' = Append(news, Note("exit", s))
    /\ UNCHANGED <<minted, parentOf, talkOf, unsaid, doomed, panes, nextId, orphans, fills, waits,
                   closing, looks, boot, adoptees, taking, saved, windows, historyVars>>

Closes(s) ==
    /\ s \in doomed /\ doomed' = doomed \ {s}
    /\ Ends(s)
    /\ UNCHANGED <<minted, parentOf, talkOf, unsaid, panes, nextId, orphans, fills, waits, closing,
                   looks, boot, adoptees, taking, saved, windows, historyVars>>

-----------------------------------------------------------------------------
(* A pane is given a session                                               *)

Up == boot = "up"

\* A session is on its way to the pane, its reply not heard yet; or its replay not.
Opening(id) == \E f \in Fill : fills[f].id = id /\ fills[f].stage \in {"sent", "made"}
Filling(id) == \E f \in Fill : fills[f].id = id /\ fills[f].stage \in {"sent", "made", "replay"}

\* The pane's generation goes up: what is on its way for it is out of date.
Passed(fs, id) ==
    [f \in Fill |-> IF fs[f].id = id /\ fs[f].stage \in {"replay", "settle"}
                    THEN [fs[f] EXCEPT !.moved = TRUE] ELSE fs[f]]

Asks(fs, id, kind, talk, back, look) ==
    /\ \E f \in Fill :
          /\ fs[f].stage = "idle" /\ \A g \in Fill : g < f => fs[g].stage # "idle"
          /\ fills' = [fs EXCEPT ![f] = [Idle EXCEPT !.stage = "sent", !.id = id, !.kind = kind,
                                            !.talk = talk, !.back = back, !.look = look]]
    /\ shared' = IF \/ Opening(id) \/ \E w \in waits' : w.pane = id
                    \/ look # No /\ Has(panes, id) /\ ~The(id).detached
                 THEN shared \cup {id} ELSE shared

(* openAgent, openShell.                                                   *)
OpenPane(kind) ==
    /\ Up /\ nextId < MaxIds
    /\ nextId' = nextId + 1
    /\ panes' = Append(panes, Empty(kind, nextId'))
    /\ saved' = Stored(panes', orphans)
    /\ UNCHANGED waits /\ Asks(fills, nextId', kind, No, FALSE, No)
    /\ UNCHANGED <<appVars, orphans, closing, looks, boot, adoptees, taking, news, windows,
                   madeFor, unheard, doubled, missed, retried, kin>>

GivenUp(id) == {k \in kin : k[2] # id}

(* unrestored: the pane stays, with a card that says why.                  *)
Unrestored(ps, id) ==
    Change(ps, id, LAMBDA p : [p EXCEPT !.sid = No, !.detached = TRUE, !.failed = TRUE])

\* The open is refused.
Refused(f) ==
    /\ fills[f].stage = "sent"
    /\ fills' = [fills EXCEPT ![f] = Idle]
    /\ panes' = IF fills[f].back THEN Unrestored(panes, fills[f].id)
                ELSE Change(panes, fills[f].id, LAMBDA p : [p EXCEPT !.failed = TRUE])
    /\ LET had == IF fills[f].back /\ Has(panes, fills[f].id) THEN The(fills[f].id).sid ELSE No IN
       doomed' = doomed \cup ({had} \ {No})
    /\ saved' = IF fills[f].back /\ Has(panes, fills[f].id) THEN Stored(panes', orphans) ELSE saved
    /\ UNCHANGED <<live, minted, parentOf, talkOf, unsaid, nextId, orphans, waits, closing, looks,
                   boot, adoptees, taking, news, windows, historyVars>>

(* Mutant: an open whose pane was closed meanwhile drops the session.      *)
Unclaimed_LetGo(f) ==
    /\ fills' = [fills EXCEPT ![f] = Idle]
    /\ UNCHANGED <<panes, orphans, saved, doomed>>

\* claimOrClose, for a pane that vanished or moved on.
Unclaimed(f) ==
    /\ fills' = [fills EXCEPT ![f] = Idle]
    /\ doomed' = doomed \cup {fills[f].sid}
    /\ UNCHANGED <<panes, orphans, saved>>

(* claimOrClose.                                                           *)
Replies(f) ==
    /\ fills[f].stage = "made"
    /\ IF ~Has(panes, fills[f].id) THEN Unclaimed(f)
       ELSE /\ UNCHANGED doomed
            /\ IF fills[f].kind = "shell"
               THEN /\ Claims(panes, orphans, fills[f].id, fills[f].sid)
                    /\ fills' = [fills EXCEPT ![f] = Idle]
               ELSE /\ fills' = [fills EXCEPT ![f].stage = "replay"]
                    /\ UNCHANGED <<panes, orphans, saved>>
    /\ UNCHANGED <<live, minted, parentOf, talkOf, unsaid, nextId, waits, closing, looks, boot,
                   adoptees, taking, news, windows, historyVars>>

(* attach, once the replay is here.                                        *)
Replayed(f) ==
    /\ fills[f].stage = "replay"
    /\ IF fills[f].moved \/ ~Has(panes, fills[f].id) THEN Unclaimed(f)
       ELSE /\ Claims(panes, orphans, fills[f].id, fills[f].sid)
            /\ fills' = [fills EXCEPT ![f] = IF @.back THEN [@ EXCEPT !.stage = "settle"] ELSE Idle]
            /\ UNCHANGED doomed
    /\ UNCHANGED <<live, minted, parentOf, talkOf, unsaid, nextId, waits, closing, looks, boot,
                   adoptees, taking, news, windows, historyVars>>

(* reattach, once the session is ready or has had its time.                *)
Settles(f) ==
    /\ fills[f].stage = "settle"
    /\ fills' = [fills EXCEPT ![f] = Idle]
    /\ saved' = IF Has(panes, fills[f].id) THEN Stored(panes, orphans) ELSE saved
    /\ UNCHANGED <<appVars, panes, nextId, orphans, waits, closing, looks, boot, adoptees, taking,
                   news, windows, historyVars>>

\* Its CLI refuses the conversation.
Unsettles(f) ==
    /\ fills[f].stage = "settle" /\ ~fills[f].moved /\ Has(panes, fills[f].id)
    /\ The(fills[f].id).sid = fills[f].sid /\ fills[f].sid \in live
    /\ fills' = [fills EXCEPT ![f] = Idle]
    /\ panes' = Unrestored(panes, fills[f].id)
    /\ doomed' = doomed \cup {fills[f].sid}
    /\ kin' = GivenUp(fills[f].id)
    /\ saved' = Stored(panes', orphans)
    /\ UNCHANGED <<live, minted, parentOf, talkOf, unsaid, nextId, orphans, waits, closing, looks,
                   boot, adoptees, taking, news, windows, madeFor, shared, unheard, doubled, missed,
                   retried>>

-----------------------------------------------------------------------------
(* Restored panes                                                          *)

(* reattach: at launch, from a pane's card, or when its tile is looked at. *)
Reattach(id, fresh) ==
    /\ Up /\ Has(panes, id)
    /\ The(id).detached /\ The(id).kind = "agent"
    /\ The(id).talk = No => fresh
    /\ panes' = Change(panes, id, LAMBDA p :
                    [p EXCEPT !.sid = No, !.detached = FALSE, !.failed = FALSE,
                              !.talk = IF fresh THEN No ELSE @])
    /\ UNCHANGED waits /\ Asks(fills, id, "agent", The(id).talk, TRUE, No)
    /\ UNCHANGED <<appVars, nextId, orphans, closing, looks, boot, adoptees, taking, news, saved,
                   windows, madeFor, unheard, doubled, missed, retried, kin>>

(* materialise: fill the shells that were waiting when it looked, in turn. *)
Looks(i, todo) ==
    /\ todo # <<>> /\ \A f \in Fill : fills[f].look # i
    /\ looks' = [looks EXCEPT ![i] = Tail(todo)]
    /\ panes' = Change(panes, Head(todo), LAMBDA p : [p EXCEPT !.detached = FALSE])
    /\ UNCHANGED waits /\ Asks(fills, Head(todo), "shell", No, FALSE, i)
    /\ UNCHANGED <<appVars, nextId, orphans, closing, boot, adoptees, taking, news, saved, windows,
                   madeFor, unheard, doubled, missed, retried, kin>>

Materialise(i) ==
    /\ Up /\ looks[i] = <<>>
    /\ LET waiting == SelectSeq(panes, LAMBDA p : p.detached /\ p.kind = "shell")
       IN  Looks(i, [n \in DOMAIN waiting |-> waiting[n].id])

-----------------------------------------------------------------------------
(* Restart and Close                                                       *)

Wait(id, kind, then) == [pane |-> id, kind |-> kind, sid |-> The(id).sid, then |-> then]

\* Whether something else is about this pane while a handler waits.
Beside(id) == Filling(id) \/ \E w \in waits : w.pane = id

(* restart, once the old session is closed.                                *)
Restarts(id, kind) ==
    /\ panes' = Change(panes, id, LAMBDA p :
                    [p EXCEPT !.sid = No, !.detached = FALSE, !.ended = FALSE, !.failed = FALSE])
    /\ Asks(Passed(fills, id), id, kind, No, FALSE, No)
    /\ kin' = GivenUp(id)

Restart(id) ==
    /\ Up /\ Has(panes, id)
    /\ IF The(id).sid # No /\ ~The(id).ended
       THEN /\ Wait(id, The(id).kind, "restart") \notin waits
            /\ waits' = waits \cup {Wait(id, The(id).kind, "restart")}
            /\ shared' = IF Beside(id) THEN shared \cup {id} ELSE shared
            /\ UNCHANGED <<panes, fills, kin>>
       ELSE UNCHANGED waits /\ Restarts(id, The(id).kind)
    /\ UNCHANGED <<appVars, nextId, orphans, closing, looks, boot, adoptees, taking, news, saved,
                   windows, madeFor, unheard, doubled, missed, retried>>

RestartGoes(w) ==
    /\ w \in waits /\ w.then = "restart"
    /\ waits' = waits \ {w}
    /\ Ends(w.sid)
    /\ Restarts(w.pane, w.kind)
    /\ UNCHANGED <<minted, parentOf, talkOf, unsaid, doomed, nextId, orphans, closing, looks, boot,
                   adoptees, taking, saved, windows, madeFor, unheard, doubled, missed, retried>>

(* close and closeOne: the panes with no session go at once, the first one *)
(* that has one when its session is closed.                                *)
Drops(ps, todo) ==
    LET has(id) == Has(ps, id) /\ ps[ById(ps, id)].sid # No
        next == SelectInSeq(todo, has)
        held == IF next = 0 THEN No ELSE todo[next]
        done == IF next = 0 THEN todo ELSE SubSeq(todo, 1, next - 1)
    IN  /\ panes' = Drop(ps, ToSet(done))
        /\ closing' = SubSeq(todo, Len(done) + 1, Len(todo))
        /\ waits' = {w \in waits : w.then = "restart"} \cup
                    {[pane |-> id, kind |-> ps[ById(ps, id)].kind, sid |-> ps[ById(ps, id)].sid,
                      then |-> "close"] : id \in {held} \ {No}}
        /\ shared' = IF held # No /\ Beside(held) THEN shared \cup {held} ELSE shared
        /\ saved' = IF ps # panes \/ panes' # ps THEN Stored(panes', orphans) ELSE saved

\* childrenOf.
Children(s) ==
    LET kids == SelectSeq(panes, LAMBDA p : s # No /\ p.parent = s)
    IN  [i \in DOMAIN kids |-> kids[i].id]

\* One at a time.
Close(id) ==
    /\ Up /\ closing = <<>> /\ Has(panes, id)
    /\ Drops(panes, Append(Children(The(id).sid), id))
    /\ UNCHANGED <<appVars, nextId, orphans, fills, looks, boot, adoptees, taking, news, windows,
                   madeFor, unheard, doubled, missed, retried, kin>>

CloseGoes(w) ==
    /\ w \in waits /\ w.then = "close"
    /\ Ends(w.sid)
    /\ Drops(Drop(panes, {w.pane}), Tail(closing))
    /\ UNCHANGED <<minted, parentOf, talkOf, unsaid, doomed, nextId, orphans, fills, looks, boot,
                   adoptees, taking, windows, madeFor, unheard, doubled, missed, retried, kin>>

(* reconcile, when the worktree is gone.                                   *)
Reconcile ==
    /\ Up /\ panes # <<>>
    /\ doomed' = doomed \cup {p.sid : p \in {p \in ToSet(panes) : ~p.detached /\ p.sid # No}}
    /\ panes' = <<>> /\ saved' = <<>>
    /\ UNCHANGED <<live, minted, parentOf, talkOf, unsaid, nextId, orphans, fills, waits, closing,
                   looks, boot, adoptees, taking, news, windows, historyVars>>

-----------------------------------------------------------------------------
(* What the window hears                                                   *)

(* adoptSpawned.                                                           *)
HearSpawned(c) ==
    IF BySid(panes, c) # 0
    THEN UNCHANGED <<panes, nextId, orphans, saved, doubled, missed>>
    ELSE /\ nextId < MaxIds
         /\ nextId' = nextId + 1
         /\ Claims(Append(panes, [Empty("agent", nextId') EXCEPT !.parent = parentOf[c]]),
                   orphans, nextId', c)
         /\ doubled' = IF Up THEN doubled ELSE doubled \cup {c}
         /\ missed' = IF c \in live \/ Heard("exit", c) THEN missed ELSE missed \cup {c}

(* noteExit, and the reattach it fails.                                    *)
HearExit(s) ==
    LET k == BySid(panes, s)
        id == IF k = 0 THEN No ELSE panes[k].id
        settling == {f \in Fill : fills[f].stage = "settle" /\ fills[f].id = id}
        over == [panes EXCEPT ![k].ended = TRUE]
    IN  IF k = 0
        THEN /\ missed' = missed \cup {s}
             /\ UNCHANGED <<panes, fills, doomed, saved, retried, kin>>
        ELSE /\ panes' = IF settling = {} THEN over ELSE Unrestored(over, id)
             /\ fills' = [f \in Fill |-> IF f \in settling THEN Idle ELSE fills[f]]
             /\ doomed' = IF settling = {} THEN doomed ELSE doomed \cup {s}
             /\ retried' = IF settling # {} \/ panes[k].detached \/ Filling(id)
                           THEN retried \cup {id} ELSE retried
             /\ kin' = IF settling = {} THEN kin ELSE GivenUp(id)
             /\ saved' = Stored(panes', orphans)
             /\ missed' = IF s \in ToSet(adoptees) THEN missed \cup {s} ELSE missed

(* dropReleased.                                                           *)
HearReleased(s) ==
    LET gone == {p.id : p \in {p \in ToSet(panes) : p.sid = s}}
    IN  /\ panes' = Drop(panes, gone)
        /\ saved' = IF gone = {} THEN saved ELSE Stored(panes', orphans)

HearNext ==
    /\ news # <<>> /\ news' = Tail(news)
    /\ LET e == Head(news) IN
       \/ /\ e.is = "spawned" /\ HearSpawned(e.sid)
          /\ UNCHANGED <<fills, doomed, retried, kin>>
       \/ /\ e.is = "exit" /\ HearExit(e.sid)
          /\ UNCHANGED <<nextId, orphans, doubled>>
       \/ /\ e.is = "released" /\ HearReleased(e.sid)
          /\ UNCHANGED <<nextId, orphans, fills, doomed, doubled, missed, retried, kin>>
    /\ UNCHANGED <<live, minted, parentOf, talkOf, unsaid, waits, closing, looks, boot, adoptees,
                   taking, windows, madeFor, shared, unheard>>

-----------------------------------------------------------------------------
(* init, after a reload or a launch                                        *)

\* The window's state is gone; its calls reach the application all the same.
Begins ==
    /\ windows < MaxWindows /\ windows' = windows + 1
    /\ panes' = <<>> /\ nextId' = 0 /\ orphans' = {}
    /\ waits' = {} /\ closing' = <<>> /\ looks' = [i \in Look |-> <<>>]
    /\ boot' = "hearing" /\ adoptees' = <<>> /\ taking' = No /\ news' = <<>> /\ kin' = {}
    /\ shared' = {} /\ retried' = {}
    /\ UNCHANGED <<minted, parentOf, talkOf, saved, madeFor, unheard, doubled, missed>>

Reload ==
    /\ Begins
    /\ fills' = [f \in Fill |-> IF fills[f].stage = "sent"
                                THEN [fills[f] EXCEPT !.id = No, !.look = No] ELSE Idle]
    /\ doomed' = doomed \cup {w.sid : w \in waits}
    /\ UNCHANGED <<live, unsaid>>

Relaunch ==
    /\ Begins
    /\ fills' = [f \in Fill |-> Idle]
    /\ live' = {} /\ unsaid' = {} /\ doomed' = {}

ListSessions ==
    /\ boot = "hearing" /\ boot' = "listed"
    /\ LET shells == {s \in live : talkOf[s] = No}
       IN  adoptees' = SetToSeq(shells) \o SetToSeq(live \ shells)
    /\ UNCHANGED <<appVars, panes, nextId, orphans, fills, waits, closing, looks, taking, news,
                   saved, windows, historyVars>>

(* restore.                                                                *)
Restore ==
    /\ boot = "listed" /\ boot' = "adopting"
    /\ panes' = panes \o [i \in DOMAIN saved |->
                    [Empty(saved[i].kind, saved[i].id) EXCEPT !.sid = saved[i].sid,
                        !.detached = TRUE, !.talk = saved[i].talk, !.parent = saved[i].parent]]
    /\ orphans' = orphans \cup
           {<<p.id, p.under>> : p \in {p \in ToSet(saved) : p.under # No}}
    /\ kin' = UNION {{<<p.id, q.id>> : q \in {q \in ToSet(saved) : q.sid = p.parent}} :
                      p \in {p \in ToSet(saved) : p.parent # No}}
    /\ nextId' = Max({nextId} \cup {p.id : p \in ToSet(saved)})
    /\ UNCHANGED <<appVars, fills, waits, closing, looks, adoptees, taking, news, saved, windows,
                   madeFor, shared, unheard, doubled, missed, retried>>

(* adopt, up to the replay: the pane that was left for the session, or one *)
(* more.                                                                   *)
Place(s) ==
    LET same == At(panes, LAMBDA p : p.detached /\ p.sid = s)
    IN  IF same # 0 THEN same
        ELSE At(panes, LAMBDA p : p.detached /\ talkOf[s] # No /\ p.talk = talkOf[s])

Adopts ==
    /\ boot = "adopting" /\ taking = No /\ adoptees # <<>>
    /\ LET k == Place(Head(adoptees))
           kind == IF talkOf[Head(adoptees)] = No THEN "shell" ELSE "agent"
       IN  IF k # 0
           THEN /\ panes' = [panes EXCEPT ![k].detached = FALSE, ![k].sid = No]
                /\ taking' = panes[k].id
                /\ UNCHANGED nextId
           ELSE /\ nextId < MaxIds
                /\ nextId' = nextId + 1
                /\ panes' = Append(panes, Empty(kind, nextId'))
                /\ taking' = nextId'
    /\ UNCHANGED <<appVars, orphans, fills, waits, closing, looks, boot, adoptees, news, saved,
                   windows, historyVars>>

Adopted ==
    /\ taking # No
    /\ Claims(panes, orphans, taking, Head(adoptees))
    /\ taking' = No /\ adoptees' = Tail(adoptees)
    /\ UNCHANGED <<appVars, nextId, fills, waits, closing, looks, boot, news, windows, historyVars>>

Boots ==
    /\ boot = "adopting" /\ taking = No /\ adoptees = <<>>
    /\ boot' = "up"
    /\ UNCHANGED <<appVars, panes, nextId, orphans, fills, waits, closing, looks, adoptees, taking,
                   news, saved, windows, historyVars>>

-----------------------------------------------------------------------------
Filled ==
    \E f \in Fill : Opens(f) \/ Refused(f) \/ Replies(f) \/ Replayed(f) \/ Settles(f) \/ Unsettles(f)
Beginning == ListSessions \/ Restore \/ Adopts \/ Adopted \/ Boots
Delegating == \E s \in Sid : Delegates(s) \/ Announces(s) \/ Releases(s)
Restarting == (\E id \in PaneId : Restart(id)) \/ \E w \in waits : RestartGoes(w)
Closing == (\E id \in PaneId : Close(id)) \/ \E w \in waits : CloseGoes(w)
Looking == \E i \in Look : Materialise(i) \/ Looks(i, looks[i])

\* The steps there are when only what is in `parts` happens.
SurfaceSteps(parts) ==
    \/ Filled \/ HearNext \/ Beginning \/ \E s \in Sid : Closes(s)
    \/ \E kind \in parts \cap {"agent", "shell"} : OpenPane(kind)
    \/ "delegate" \in parts /\ Delegating
    \/ "restart" \in parts /\ Restarting
    \/ "close" \in parts /\ Closing
    \/ "looks" \in parts /\ Looking
    \/ "reattach" \in parts /\ \E id \in PaneId, fresh \in BOOLEAN : Reattach(id, fresh)
    \/ "reconcile" \in parts /\ Reconcile
    \/ "dies" \in parts /\ \E s \in Sid : Dies(s)
    \/ "reload" \in parts /\ Reload
    \/ "relaunch" \in parts /\ Relaunch

SurfaceNext ==
    SurfaceSteps({"agent", "shell", "delegate", "restart", "close", "looks", "reattach",
                  "reconcile", "dies", "reload", "relaunch"})

SurfaceSpec == SurfaceInit /\ [][SurfaceNext]_surfaceVars

-----------------------------------------------------------------------------
SurfaceTypeOK ==
    /\ live \subseteq Sid /\ minted \in 0 .. MaxSids
    /\ unsaid \subseteq Sid /\ doomed \subseteq Sid
    /\ nextId \in 0 .. MaxIds /\ taking \in 0 .. MaxIds
    /\ \A i \in DOMAIN panes : panes[i].id \in PaneId /\ panes[i].sid \in 0 .. MaxSids
    /\ boot \in {"up", "hearing", "listed", "adopting"}
    /\ \A f \in Fill : fills[f].stage \in {"idle", "sent", "made", "replay", "settle"}
    /\ closing # <<>> <=> \E w \in waits : w.then = "close"

Shown(s) == \E i \in DOMAIN panes : panes[i].sid = s /\ ~panes[i].detached

\* Somebody has still to show the session, or to close it.
Awaits(s) ==
    \/ \E f \in Fill : fills[f].sid = s /\ fills[f].stage \in {"made", "replay"}
    \/ s \in unsaid \/ Heard("spawned", s)
    \/ boot = "hearing" \/ s \in ToSet(adoptees)
    \/ \E t \in doomed \cup {w.sid : w \in waits} : s \in Subtree(t)

(* A session that runs has a pane that shows it, or somebody about to give *)
(* it one or to close it: claimOrClose, adopt and adoptSpawned see to it   *)
(* whatever is closed, restarted, reloaded or announced in between.  Not   *)
(* so for a pane two handlers had filled (fillShell looks at no generation *)
(* and materialise not again at the pane, and attach takes its generation  *)
(* only once the session is there), for one `ended` was left on (restart   *)
(* does not close its session), or for what opened for a window gone after *)
(* the next one had listed the sessions.                                   *)
NoneStranded ==
    \A s \in live :
        \/ Shown(s) \/ Awaits(s)
        \/ madeFor[s] \in shared \cup retried \/ s \in unheard

(* No two panes show one running session, after a reload too; but for one  *)
(* that was announced while it still waited to be adopted (adopt does not  *)
(* look for a pane that has it already).                                   *)
OnePaneEach ==
    \A i, j \in DOMAIN panes :
        /\ panes[i].sid = panes[j].sid /\ panes[i].sid \in live \ doubled
        /\ ~panes[i].detached /\ ~panes[j].detached
        => i = j

(* A pane whose session is gone says so, or is about to hear of it or be   *)
(* given another; but for an exit that was heard before the session had a  *)
(* pane (noteExit keeps none for later, as `readyAhead` does readiness).   *)
EndsAreShown ==
    \A i \in DOMAIN panes :
        LET p == panes[i] IN
        p.sid # No /\ p.sid \notin live /\ ~p.detached =>
            \/ p.ended \/ p.failed \/ Filling(p.id)
            \/ Heard("exit", p.sid) \/ p.sid \in missed \cup doubled

(* A pane that is shown as over has no session that runs: noteExit is the  *)
(* only one to say so, and restart takes it back; but for a pane that      *)
(* heard of an exit while it was restored or filled (reattach, unrestored  *)
(* and claimSession leave `ended`), or that two sessions had come to.      *)
EndedIsOver ==
    \A i \in DOMAIN panes :
        panes[i].ended /\ panes[i].sid \in live => panes[i].id \in retried \cup shared

(* Once the window is up no card offers to start what runs: adopt has found*)
(* each pane that was left for a session, or for its conversation; but for *)
(* two panes of one id, where a session announced before the restore was   *)
(* given an id that the restore brings back (blank counts from nothing).   *)
DetachedIsIdle ==
    Up => \A i \in DOMAIN panes :
        LET p == panes[i]
            again == {s \in live : p.talk # No /\ talkOf[s] = p.talk /\ Shown(s)}
            twin == \E j \in DOMAIN panes : j # i /\ panes[j].id = p.id
        IN  p.detached /\ ({p.sid} \cap live) \cup again \notin SUBSET doubled =>
                p.id \in shared \/ twin

(* What is stored names each running session with the pane that shows it,  *)
(* so that a reload at any moment puts it back there.                      *)
ComesBack ==
    \A i \in DOMAIN panes :
        LET p == panes[i] IN
        p.sid \in live /\ ~p.detached =>
            \E j \in DOMAIN saved : saved[j].id = p.id /\ saved[j].sid = p.sid

(* A restored child is under its parent again as soon as that has a session*)
(* (so that close finds it), till the parent is restarted or its first     *)
(* session refused: the second is given no children (claimSession has let  *)
(* the orphans go).                                                        *)
Together ==
    \A i, j \in DOMAIN panes :
        /\ <<panes[i].id, panes[j].id>> \in kin /\ panes[j].id \notin shared
        /\ panes[j].sid # No /\ ~panes[j].detached
        => panes[i].parent = panes[j].sid

(* All of these.                                                           *)
SurfaceOK ==
    /\ SurfaceTypeOK /\ NoneStranded /\ OnePaneEach /\ EndsAreShown
    /\ EndedIsOver /\ DetachedIsIdle /\ ComesBack /\ Together
=============================================================================
