------------------------------- MODULE Handoff -------------------------------
(* Delegation (src-tauri/src/handoff.rs): the token a session's tools call *)
(* with, the parentage the tokens imply, and the threads that open and     *)
(* close sessions through them (App::open_agent, App::close_agent in       *)
(* src-tauri/src/app.rs).                                                  *)
(*                                                                         *)
(* A pane stands for its session id and for the token it was issued; panes *)
(* are numbered as they are asked for, and no number is used twice.  Every *)
(* pane has the thread that opens it, which for a delegated pane goes on   *)
(* to record it with its parent and to wait for its first turn.            *)
(* A step is what one thread does under one lock.                          *)
EXTENDS Naturals, Forest

CONSTANTS
    MaxPanes,   \* bounds the panes opened in a run
    Closers     \* threads inside a close command or a close_agents call

ASSUME HandoffAssumption == MaxPanes \in Nat /\ MaxPanes > 0

Pane == 1 .. MaxPanes
Nobody == 0

VARIABLES
    opened,     \* the last pane asked for
    stage,      \* how far each pane's opening thread has come
    by,         \* the pane whose token asked for it, Nobody for a person's
    live,       \* the panes whose CLI is running
    entries,    \* App.agents
    tokens,     \* Hub.tokens: those issued and not forgotten
    bound,      \* the tokens whose caller has a session
    children,   \* Hub.children: the panes recorded under each session
    pending,    \* Hub.pending: the panes recorded under each unbound token
    done,       \* the children whose record says settled
    at,         \* where each closer is
    caller,     \* the session a close_agents call came from
    batch,      \* the sessions it found closable
    todo,       \* those it has still to close
    victims,    \* what the close_agent in hand has still to end
    pane,       \* the session being ended
    shut        \* history: the panes whose end has dropped their token

openVars  == <<opened, stage, by>>
procVars  == <<live, entries>>
tokenVars == <<tokens, bound, shut>>
kinVars   == <<children, pending, done>>
closeVars == <<at, caller, batch, todo, victims, pane>>
vars == <<opened, stage, by, live, entries, tokens, bound, shut,
          children, pending, done, at, caller, batch, todo, victims, pane>>

None == [p \in Pane |-> {}]

Init ==
    /\ opened = 0
    /\ stage = [p \in Pane |-> "unborn"]
    /\ by = [p \in Pane |-> Nobody]
    /\ live = {} /\ entries = {}
    /\ tokens = {} /\ bound = {} /\ shut = {}
    /\ children = None /\ pending = None /\ done = {}
    /\ at = [k \in Closers |-> "idle"]
    /\ caller = [k \in Closers |-> Nobody]
    /\ batch = [k \in Closers |-> {}]
    /\ todo = [k \in Closers |-> {}]
    /\ victims = [k \in Closers |-> {}]
    /\ pane = [k \in Closers |-> Nobody]

(* Stages of a pane that open_agent has returned.                          *)
Open == {"bound", "owned", "queued", "working", "settled"}

(* The agents lock is held from the insert to the end of open_agent.       *)
AgentsFree == \A p \in Pane : stage[p] \notin {"inserted", "tokened"}

Move(p, from, next) == stage[p] = from /\ stage' = [stage EXCEPT ![p] = next]

-----------------------------------------------------------------------------
(* Mutant: the token is handed out but not registered.                     *)
Issue_Unregistered(p, parent) ==
    /\ p = opened + 1
    /\ opened' = p
    /\ Move(p, "unborn", "issued")
    /\ by' = [by EXCEPT ![p] = parent]
    /\ UNCHANGED <<tokenVars, procVars, kinVars, closeVars>>

(* Opening.  handoff_server issues the token before there is a session.    *)
Issue(p, parent) ==
    /\ p = opened + 1
    /\ opened' = p
    /\ Move(p, "unborn", "issued")
    /\ by' = [by EXCEPT ![p] = parent]
    /\ tokens' = tokens \cup {p}
    /\ UNCHANGED <<bound, shut, procVars, kinVars, closeVars>>

UserOpen(p) == Issue(p, Nobody)

(* A running CLI calls ask_agent or spawn_agents with a token that         *)
(* resolves.  It may do so before its own open_agent has returned.         *)
Delegate(parent, p) ==
    /\ parent \in live
    /\ parent \in tokens
    /\ Issue(p, parent)

(* AgentSession::open.                                                     *)
Spawn(p) ==
    /\ Move(p, "issued", "spawned")
    /\ live' = live \cup {p}
    /\ UNCHANGED <<opened, by, entries, tokenVars, kinVars, closeVars>>

(* It failed: Hub::forget_unbound.                                         *)
Fail(p) ==
    /\ Move(p, "issued", "failed")
    /\ IF p \in tokens \ bound
       THEN /\ tokens' = tokens \ {p}
            /\ pending' = [pending EXCEPT ![p] = {}]
       ELSE UNCHANGED <<tokens, pending>>
    /\ UNCHANGED <<opened, by, bound, shut, procVars, children, done, closeVars>>

(* The agents lock is taken; entries whose CLI has exited are pruned.      *)
Insert(p) ==
    /\ AgentsFree
    /\ Move(p, "spawned", "inserted")
    /\ entries' = (entries \cap live) \cup {p}
    /\ UNCHANGED <<opened, by, live, tokenVars, kinVars, closeVars>>

(* Hub::bind_session, under the tokens lock ...                            *)
Bind(p) ==
    /\ Move(p, "inserted", "tokened")
    /\ bound' = bound \cup ({p} \cap tokens)
    /\ UNCHANGED <<opened, by, tokens, shut, procVars, kinVars, closeVars>>

(* Mutant: the children waiting on the token are copied, not moved.        *)
Flush_Copies(p) ==
    /\ Move(p, "tokened", "bound")
    /\ children' = [children EXCEPT ![p] = @ \cup pending[p]]
    /\ UNCHANGED <<opened, by, pending, done, procVars, tokenVars, closeVars>>

(* ... and under the pending one.  The agents lock is let go.              *)
Flush(p) ==
    /\ Move(p, "tokened", "bound")
    /\ children' = [children EXCEPT ![p] = @ \cup pending[p]]
    /\ pending' = [pending EXCEPT ![p] = {}]
    /\ UNCHANGED <<opened, by, done, procVars, tokenVars, closeVars>>

(* Hub::record_child_for reads under the tokens lock whether the parent's  *)
(* token has a session ...                                                 *)
Claim(p) ==
    /\ by[p] # Nobody
    /\ Move(p, "bound", IF by[p] \in bound THEN "owned" ELSE "queued")
    /\ UNCHANGED <<opened, by, procVars, tokenVars, kinVars, closeVars>>

(* ... and files the child on what it read.                                *)
Record(p) ==
    /\ \/ /\ Move(p, "owned", "working")
          /\ children' = [children EXCEPT ![by[p]] = @ \cup {p}]
          /\ UNCHANGED pending
       \/ /\ Move(p, "queued", "working")
          /\ pending' = [pending EXCEPT ![by[p]] = @ \cup {p}]
          /\ UNCHANGED children
    /\ UNCHANGED <<opened, by, done, procVars, tokenVars, closeVars>>

(* Mutant: an outcome that is no answer leaves the child unsettled.        *)
Settle_Answers(p) ==
    /\ Move(p, "working", "settled")
    /\ done' = done \cup {q \in {p} \cap live : \E r \in Pane : q \in children[r]}
    /\ UNCHANGED <<opened, by, children, pending, procVars, tokenVars, closeVars>>

(* send_and_wait has come back, one way or another: Hub::settle_child.     *)
Settle(p) ==
    /\ Move(p, "working", "settled")
    /\ done' = done \cup {q \in {p} : \E r \in Pane : q \in children[r]}
    /\ UNCHANGED <<opened, by, children, pending, procVars, tokenVars, closeVars>>

(* A CLI exits by itself.                                                  *)
Die(p) ==
    /\ p \in live
    /\ live' = live \ {p}
    /\ UNCHANGED <<entries, openVars, tokenVars, kinVars, closeVars>>

-----------------------------------------------------------------------------
(* Closing.  A person closes a pane: close_agent_session.                  *)
UserClose(k, p) ==
    /\ at[k] = "idle"
    /\ stage[p] \in Open /\ p \notin shut
    /\ at' = [at EXCEPT ![k] = "next"]
    /\ caller' = [caller EXCEPT ![k] = Nobody]
    /\ batch' = [batch EXCEPT ![k] = {}]
    /\ todo' = [todo EXCEPT ![k] = {p}]
    /\ UNCHANGED <<victims, pane, openVars, procVars, tokenVars, kinVars>>

(* Mutant: everything that has settled is offered, whoever opened it.      *)
ToolClose_Everyone(k, parent) ==
    /\ at[k] = "idle"
    /\ parent \in live /\ parent \in bound
    /\ done # {}
    /\ at' = [at EXCEPT ![k] = "next"]
    /\ caller' = [caller EXCEPT ![k] = parent]
    /\ batch' = [batch EXCEPT ![k] = done]
    /\ todo' = [todo EXCEPT ![k] = done]
    /\ UNCHANGED <<victims, pane, openVars, procVars, tokenVars, kinVars>>

(* A CLI calls close_agents: close_children asks Hub::settled_children     *)
(* once, for everything it will close.                                     *)
ToolClose(k, parent) ==
    /\ at[k] = "idle"
    /\ parent \in live /\ parent \in bound
    /\ LET found == Closable(children, done, parent) IN
       /\ found # {}
       /\ at' = [at EXCEPT ![k] = "next"]
       /\ caller' = [caller EXCEPT ![k] = parent]
       /\ batch' = [batch EXCEPT ![k] = found]
       /\ todo' = [todo EXCEPT ![k] = found]
    /\ UNCHANGED <<victims, pane, openVars, procVars, tokenVars, kinVars>>

(* Mutant: the lists come in the order of their children's opening.        *)
Deepest_First(S) == {p \in S : \A q \in S : p <= q}

(* Both lists a closer works through come with descendants first.          *)
Deepest(S) == {p \in S : \A q \in S : by[q] # p}

(* App::close_agent asks Hub::descendants, afresh, for what is below p.    *)
Target(k, p) ==
    /\ at[k] = "next"
    /\ p \in Deepest(todo[k])
    /\ at' = [at EXCEPT ![k] = "end"]
    /\ todo' = [todo EXCEPT ![k] = @ \ {p}]
    /\ victims' = [victims EXCEPT ![k] = Subtree(children, p)]
    /\ UNCHANGED <<caller, batch, pane, openVars, procVars, tokenVars, kinVars>>

(* Mutant: a busy map is skipped rather than waited for.                   *)
EndProcess_TryLock(k, p) ==
    /\ at[k] = "end"
    /\ p \in Deepest(victims[k])
    /\ at' = [at EXCEPT ![k] = "token"]
    /\ pane' = [pane EXCEPT ![k] = p]
    /\ victims' = [victims EXCEPT ![k] = @ \ {p}]
    /\ IF AgentsFree
       THEN live' = live \ ({p} \cap entries) /\ entries' = entries \ {p}
       ELSE UNCHANGED procVars
    /\ UNCHANGED <<caller, batch, todo, openVars, tokenVars, kinVars>>

(* App::end_agent_process: only what is in the map can be signalled.       *)
EndProcess(k, p) ==
    /\ at[k] = "end"
    /\ p \in Deepest(victims[k])
    /\ AgentsFree
    /\ at' = [at EXCEPT ![k] = "token"]
    /\ pane' = [pane EXCEPT ![k] = p]
    /\ victims' = [victims EXCEPT ![k] = @ \ {p}]
    /\ live' = live \ ({p} \cap entries)
    /\ entries' = entries \ {p}
    /\ UNCHANGED <<caller, batch, todo, openVars, tokenVars, kinVars>>

(* Mutant: a closed session's token lives on.                              *)
ForgetToken_Keeps(k) ==
    /\ at[k] = "token"
    /\ at' = [at EXCEPT ![k] = "kin"]
    /\ shut' = shut \cup {pane[k]}
    /\ UNCHANGED <<tokens, bound, caller, batch, todo, victims, pane,
                   openVars, procVars, kinVars>>

(* Hub::forget_session, under the tokens lock: the token bound to it ...   *)
ForgetToken(k) ==
    /\ at[k] = "token"
    /\ at' = [at EXCEPT ![k] = "kin"]
    /\ tokens' = tokens \ ({pane[k]} \cap bound)
    /\ bound' = bound \ {pane[k]}
    /\ shut' = shut \cup {pane[k]}
    /\ UNCHANGED <<caller, batch, todo, victims, pane, openVars, procVars, kinVars>>

(* ... and, under the children lock, its parentage.                        *)
ForgetKin(k) ==
    /\ at[k] = "kin"
    /\ at' = [at EXCEPT ![k] = IF victims[k] # {} THEN "end"
                               ELSE IF todo[k] # {} THEN "next" ELSE "last"]
    /\ children' = Without(children, {pane[k]})
    /\ UNCHANGED <<caller, batch, todo, victims, pane, pending, done,
                   openVars, procVars, tokenVars>>

(* close_children forgets the whole batch again; a person's close is over. *)
Finish(k) ==
    /\ at[k] = "last"
    /\ at' = [at EXCEPT ![k] = "idle"]
    /\ children' = Without(children, batch[k])
    /\ caller' = [caller EXCEPT ![k] = Nobody]
    /\ batch' = [batch EXCEPT ![k] = {}]
    /\ pane' = [pane EXCEPT ![k] = Nobody]
    /\ UNCHANGED <<todo, victims, pending, done, openVars, procVars, tokenVars>>

-----------------------------------------------------------------------------
OpenerStep(p) ==
    \/ Spawn(p) \/ Fail(p) \/ Insert(p) \/ Bind(p) \/ Flush(p)
    \/ Claim(p) \/ Record(p) \/ Settle(p)

CloserStep(k) ==
    \/ \E p \in Pane : Target(k, p) \/ EndProcess(k, p)
    \/ ForgetToken(k) \/ ForgetKin(k) \/ Finish(k)

Next ==
    \/ \E p \in Pane :
          \/ UserOpen(p) \/ OpenerStep(p) \/ Die(p)
          \/ \E parent \in Pane : Delegate(parent, p)
    \/ \E k \in Closers :
          \/ CloserStep(k)
          \/ \E p \in Pane : UserClose(k, p) \/ ToolClose(k, p)

Spec == Init /\ [][Next]_vars

(* A thread that can run does: an opener (its wait has a deadline) and a   *)
(* closer.  Nobody has to open, to delegate or to close anything.          *)
Fairness ==
    /\ \A p \in Pane : WF_vars(OpenerStep(p))
    /\ \A k \in Closers : WF_vars(CloserStep(k))

FairSpec == Spec /\ Fairness

-----------------------------------------------------------------------------
(* Every variable has its type.                                            *)
TypeOK ==
    /\ opened \in 0 .. MaxPanes
    /\ stage \in [Pane -> Open \cup {"unborn", "issued", "failed", "spawned",
                                     "inserted", "tokened"}]
    /\ by \in [Pane -> Pane \cup {Nobody}]
    /\ live \subseteq Pane /\ entries \subseteq Pane
    /\ tokens \subseteq Pane /\ bound \subseteq Pane /\ shut \subseteq Pane
    /\ children \in [Pane -> SUBSET Pane] /\ pending \in [Pane -> SUBSET Pane]
    /\ done \subseteq Pane
    /\ at \in [Closers -> {"idle", "next", "end", "token", "kin", "last"}]
    /\ caller \in [Closers -> Pane \cup {Nobody}]
    /\ batch \in [Closers -> SUBSET Pane]
    /\ todo \in [Closers -> SUBSET Pane]
    /\ victims \in [Closers -> SUBSET Pane]
    /\ pane \in [Closers -> Pane \cup {Nobody}]

(* The parentage map tells the truth, whoever files in it and however the  *)
(* filing races bind_session and the closers: a child is under the session *)
(* whose token opened it and no other, in one place at a time, and opened  *)
(* after it, so no walk of the map runs in a circle.                       *)
ParentIsOpener ==
    \A p \in Pane : \A q \in children[p] \cup pending[p] :
        /\ by[q] = p
        /\ p < q
        /\ q \notin children[p] \cap pending[p]

(* A session that can be looked up in App.agents has its token bound, or   *)
(* the lookup has to wait: nobody can close a session and leave its token  *)
(* behind because the token did not name it yet.                           *)
VisibleIsBound ==
    \A p \in entries : p \in bound \/ ~AgentsFree

(* "Closing the session is the moment the token can no longer be           *)
(* presented": it does not come back, nor does the session's entry, even   *)
(* when opening and closing overlap.                                       *)
ShutForGood == shut \cap (tokens \cup bound \cup entries \cup live) = {}

(* The panes each pane's token opened, in history.                         *)
Offspring == [p \in Pane |-> {q \in Pane : by[q] = p}]

(* close_agents reaches only what its caller's own delegations opened:     *)
(* never its caller, a sibling or a pane a person opened.                  *)
ToolReachesOwn ==
    \A k \in Closers : caller[k] # Nobody =>
        todo[k] \cup victims[k] \cup ({pane[k]} \ {Nobody}) \subseteq Below(Offspring, caller[k])

(* A CLI's process is ended after those of the children it has on record:  *)
(* what a closer has ended has nobody recorded below it but those who came *)
(* after the closer looked.  Stated for the moment of ending.              *)
ChildrenFirst ==
    [][\A k \in Closers, p \in Pane :
          p \in victims[k] \ victims'[k] /\ at[k] = "end" =>
             \A q \in victims[k] : q \notin Below(Offspring, p)]_vars

(* A child its parent has on record becomes closable, or is forgotten.     *)
ChildSettles ==
    \A p \in Pane :
        stage[p] = "working" /\ p \in children[by[p]] ~>
            p \in done \/ \A q \in Pane : p \notin children[q]

(* A close in hand ends what it set out to end.                            *)
CloseEnds ==
    \A p \in Pane : (\E k \in Closers : p \in todo[k] \cup victims[k]) ~> p \notin live

(* "the child is queued on the token and flushed by bind_session".         *)
FlushedByBind ==
    \A p \in Pane : stage[p] \in Open => pending[p] = {}

(* "unsettled children are counted and reported, never closed".            *)
BusyNeverClosed ==
    \A k \in Closers : caller[k] # Nobody => victims[k] \subseteq done

(* "a child that delegated does not leave a live CLI with no parent": when *)
(* no close is going on, a child on record has a parent that is not shut.  *)
NoOrphan ==
    (\A k \in Closers : at[k] = "idle") =>
        \A p \in live : stage[p] \in {"working", "settled"} => by[p] \notin shut
-----------------------------------------------------------------------------
(* The inductive invariant behind the properties that hold.                *)

Registered == {"inserted", "tokened"} \cup Open
Recorded == {"working", "settled"}

(* Panes are numbered as they are asked for, after whoever asks.           *)
OrderInv ==
    \A p \in Pane :
        /\ stage[p] = "unborn" <=> p > opened
        /\ stage[p] = "unborn" => by[p] = Nobody
        /\ by[p] < p

(* A pane runs only once it has been spawned, and while it does the map    *)
(* has it, from the insert on.                                             *)
LiveInv ==
    \A p \in Pane :
        /\ p \in live => stage[p] \in {"spawned"} \cup Registered
        /\ p \in live /\ stage[p] \in Registered => p \in entries
        /\ p \in entries => stage[p] = "inserted" \/ p \in bound

(* A token is there until its pane's opening has bound it.                 *)
TokenInv ==
    \A p \in Pane :
        /\ stage[p] \in {"issued", "spawned", "inserted"} => p \in tokens
        /\ p \in bound <=> p \in tokens /\ stage[p] \in {"tokened"} \cup Open

(* What the parentage map holds.                                           *)
KinInv ==
    \A p \in Pane : \A q \in children[p] \cup pending[p] :
        /\ by[q] = p
        /\ stage[q] \in Recorded
        /\ q \notin children[p] \cap pending[p]

(* A closer has nothing in hand but while it works on it.                  *)
IdleInv ==
    \A k \in Closers :
        /\ at[k] \in {"idle", "next", "last"} => victims[k] = {}
        /\ at[k] \in {"idle", "last"} => todo[k] = {}
        /\ at[k] = "idle" => pane[k] = Nobody

(* What a closer has in hand, and what it has dropped.                     *)
CloseInv ==
    /\ \A k \in Closers :
          /\ \A p \in todo[k] \cup victims[k] : stage[p] \in Open
          /\ pane[k] # Nobody => stage[pane[k]] \in Open
          /\ at[k] \in {"token", "kin"} =>
                pane[k] \in Pane /\ pane[k] \notin entries \cup live
    /\ \A p \in shut : stage[p] \in Open /\ p \notin tokens \cup entries \cup live

IInv ==
    /\ TypeOK /\ OrderInv /\ LiveInv /\ TokenInv /\ KinInv
    /\ IdleInv /\ CloseInv /\ ToolReachesOwn
=============================================================================
