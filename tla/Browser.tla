------------------------------- MODULE Browser -----------------------------
(* The browser panes (src-tauri/src/browser.rs): the host's entries, the   *)
(* webviews behind them, whose callbacks all run on the main thread, and   *)
(* the threads that open panes, drive them for an agent (browser_tools.rs) *)
(* and wait for a page to load or to answer.  WebKit and the pages are     *)
(* external.                                                               *)
EXTENDS Integers, FiniteSets

CONSTANTS
    Tabs,       \* the ids a pane may be given
    FirstTabs,  \* those open to begin with
    ToolCalls,  \* the threads of tool calls
    MaxTotal,   \* browser.rs MAX_TOTAL: the panes there may be
    MaxLoads,   \* bounds the navigations
    NoTab, NoCaller

ASSUME BrowserAssumption ==
    /\ FirstTabs \subseteq Tabs /\ NoTab \notin Tabs /\ NoCaller \notin ToolCalls
    /\ IsFiniteSet(FirstTabs) /\ Cardinality(FirstTabs) <= MaxTotal
    /\ MaxTotal \in Nat /\ MaxLoads \in Nat

VARIABLES
    entries,     \* Host.entries: the panes there are
    loading,     \* Entry.loading
    driving,     \* Entry.driving
    drivers,     \* the calls that have said they drive a pane
    webviews,    \* the webviews that have been built and not closed
    unused,      \* the ids not given out yet
    queued,      \* of each webview, the navigations it has yet to start
    fetching,    \* the webviews that load a page
    loads,       \* how many navigations there have been
    callback,    \* what a callback of the main thread has yet to do, and for which pane
    forgetting,  \* what is left to do of each pane's close
    sleepers,    \* Host.load_waiters, by pane
    owed,        \* Host.pending: who is owed an answer, by pane
    toolCall,    \* where each call is
    tab,         \* the pane it is about
    woken        \* what the channel it waits on has brought

host == <<entries, loading, driving, drivers>>
webkit == <<queued, fetching, loads>>
waits == <<sleepers, owed, woken>>
browserVars == <<host, webviews, unused, webkit, callback, forgetting, waits, toolCall, tab>>

Idle == <<"idle", NoTab>>

BrowserInit ==
    /\ entries = FirstTabs /\ webviews = FirstTabs /\ unused = Tabs \ FirstTabs
    /\ loading = {}
    /\ driving = [b \in Tabs |-> NoCaller] /\ drivers = {}
    /\ queued = [b \in Tabs |-> 0] /\ fetching = {} /\ loads = 0
    /\ callback = Idle
    /\ forgetting = [b \in Tabs |-> "no"]
    /\ sleepers = [b \in Tabs |-> {}] /\ owed = [b \in Tabs |-> {}]
    /\ toolCall = [c \in ToolCalls |-> "none"]
    /\ tab = [c \in ToolCalls |-> NoTab]
    /\ woken = [c \in ToolCalls |-> "nothing"]

Goes(c, s) == toolCall' = [toolCall EXCEPT ![c] = s]
Return(c) == Goes(c, "over") /\ tab' = [tab EXCEPT ![c] = NoTab]
\* Senders dropped or used: whoever waits on them hears.
Notify(cs, what) == woken' = [c \in ToolCalls |-> IF c \in cs THEN what ELSE woken[c]]
\* Host::update changes an entry that is still there.
Update(b, on) ==
    loading' = IF b \notin entries THEN loading ELSE IF on THEN loading \cup {b} ELSE loading \ {b}

-----------------------------------------------------------------------------
(* Opening a pane                                                          *)

\* A new id: one is like another.
Fresh == CHOOSE b \in unused : TRUE

\* The slot is taken before the webview is built.
TakeSlot(c) ==
    /\ toolCall[c] = "none"
    /\ \/ /\ Cardinality(entries) < MaxTotal
          /\ unused # {}
          /\ entries' = entries \cup {Fresh} /\ unused' = unused \ {Fresh}
          /\ tab' = [tab EXCEPT ![c] = Fresh]
          /\ Goes(c, "building")
       \/ Cardinality(entries) >= MaxTotal /\ Goes(c, "over") /\ UNCHANGED <<entries, unused, tab>>
    /\ UNCHANGED <<loading, driving, drivers, webviews, webkit, callback, forgetting, waits>>

\* webview.navigate.
Queue(b) == queued' = [queued EXCEPT ![b] = @ + 1]
\* One navigation more, within the bound.
Counted == loads < MaxLoads /\ loads' = loads + 1

\* add_child, or the entry forgotten.  A pane that has somewhere to go is marked
\* as loading before its load is queued; a blank one is done.
Build(c) ==
    /\ toolCall[c] = "building"
    /\ LET b == tab[c] IN
       \/ /\ webviews' = webviews \cup {b}
          /\ \/ Counted /\ Update(b, TRUE) /\ Goes(c, "starting") /\ UNCHANGED tab
             \/ Return(c) /\ UNCHANGED <<loading, loads>>
          /\ UNCHANGED entries
       \/ /\ entries' = entries \ {b} /\ loading' = loading \ {b} /\ Return(c)
          /\ UNCHANGED <<webviews, loads>>
    /\ UNCHANGED <<driving, drivers, unused, queued, fetching, callback, forgetting, waits>>

\* A navigation of a webview that is gone goes nowhere.
StartLoad(c) ==
    /\ toolCall[c] = "starting"
    /\ IF tab[c] \in webviews THEN Queue(tab[c]) /\ UNCHANGED loading
                              ELSE Update(tab[c], FALSE) /\ UNCHANGED queued
    /\ Goes(c, "waiting")
    /\ UNCHANGED <<entries, driving, drivers, webviews, unused, fetching, loads, callback,
                   forgetting, waits, tab>>

-----------------------------------------------------------------------------
(* Driving one: browser_navigate, and the snapshot that follows it         *)

\* begin_driving refuses a pane that another call is acting on.
Begin(c) ==
    /\ toolCall[c] = "none"
    /\ \E b \in entries :
          \/ /\ driving[b] = NoCaller
             /\ driving' = [driving EXCEPT ![b] = c] /\ tab' = [tab EXCEPT ![c] = b]
             /\ drivers' = drivers \cup {c} /\ Goes(c, "driving")
          \/ driving[b] # NoCaller /\ Goes(c, "over") /\ UNCHANGED <<driving, drivers, tab>>
    /\ UNCHANGED <<entries, loading, webviews, unused, webkit, callback, forgetting, waits>>

\* navigate queues the load, and then marks it; the target may be refused.
Navigate(c) ==
    /\ toolCall[c] = "driving"
    /\ \/ tab[c] \in webviews /\ Counted /\ Queue(tab[c]) /\ Goes(c, "marking")
       \/ Goes(c, "ending") /\ UNCHANGED <<queued, loads>>
    /\ UNCHANGED <<host, webviews, unused, fetching, callback, forgetting, waits, tab>>

Mark(c) ==
    /\ toolCall[c] = "marking"
    /\ Update(tab[c], TRUE)
    /\ Goes(c, IF tab[c] \in entries THEN "waiting" ELSE "ending")
    /\ UNCHANGED <<entries, driving, drivers, webviews, unused, webkit, callback, forgetting,
                   waits, tab>>

(* Mutant: what is loading is read without the lock of the waiters.        *)
WaitForLoad_Unlocked(c) ==
    /\ \/ toolCall[c] = "waiting" /\ Goes(c, IF tab[c] \in loading THEN "peeked" ELSE "asking")
          /\ UNCHANGED sleepers
       \/ /\ toolCall[c] = "peeked"
          /\ sleepers' = [sleepers EXCEPT ![tab[c]] = @ \cup {c}]
          /\ Goes(c, "sleeping")
    /\ UNCHANGED <<host, webviews, unused, webkit, callback, forgetting, owed, woken, tab>>

\* wait_for_load looks and takes its place under one lock.
WaitForLoad(c) ==
    /\ toolCall[c] = "waiting"
    /\ IF tab[c] \in loading
       THEN sleepers' = [sleepers EXCEPT ![tab[c]] = @ \cup {c}] /\ Goes(c, "sleeping")
       ELSE Goes(c, "asking") /\ UNCHANGED sleepers
    /\ UNCHANGED <<host, webviews, unused, webkit, callback, forgetting, owed, woken, tab>>

\* Woken, dropped, or past LOAD_TIMEOUT; the next thing is a snapshot.
Wake(c) ==
    /\ toolCall[c] = "sleeping"
    /\ woken' = [woken EXCEPT ![c] = "nothing"]
    /\ Goes(c, "asking")
    /\ UNCHANGED <<host, webviews, unused, webkit, callback, forgetting, sleepers, owed, tab>>

\* call: the request is on record before it is dispatched.
AskPage(c) ==
    /\ toolCall[c] = "asking"
    /\ IF tab[c] \in webviews
       THEN owed' = [owed EXCEPT ![tab[c]] = @ \cup {c}] /\ Goes(c, "asked")
       ELSE Goes(c, "ending") /\ UNCHANGED owed
    /\ UNCHANGED <<host, webviews, unused, webkit, callback, forgetting, sleepers, woken, tab>>

HearAnswer(c) ==
    /\ toolCall[c] = "asked" /\ woken[c] # "nothing"
    /\ woken' = [woken EXCEPT ![c] = "nothing"]
    /\ Goes(c, "ending")
    /\ UNCHANGED <<host, webviews, unused, webkit, callback, forgetting, sleepers, owed, tab>>

\* The answer did not come within the timeout.
AnswerTooLate(c) ==
    /\ toolCall[c] = "asked"
    /\ owed' = [owed EXCEPT ![tab[c]] = @ \ {c}]
    /\ woken' = [woken EXCEPT ![c] = "nothing"]
    /\ Goes(c, "ending")
    /\ UNCHANGED <<host, webviews, unused, webkit, callback, forgetting, sleepers, tab>>

\* end_driving, whatever act returned; a call that opened the pane drives nothing.
End(c) ==
    /\ toolCall[c] = "ending"
    /\ driving' = [b \in Tabs |-> IF c \in drivers /\ b = tab[c] THEN NoCaller ELSE driving[b]]
    /\ drivers' = drivers \ {c} /\ Return(c)
    /\ UNCHANGED <<entries, loading, webviews, unused, webkit, callback, forgetting, waits>>

-----------------------------------------------------------------------------
(* The main thread's callbacks                                             *)

\* A page's own links navigate too.
Link(b) ==
    /\ b \in webviews /\ Counted /\ Queue(b)
    /\ UNCHANGED <<host, webviews, unused, fetching, callback, forgetting, waits, toolCall, tab>>

\* PageLoadEvent::Started: a load under way is cancelled by it.
LoadStarts(b) ==
    /\ callback = Idle /\ b \in webviews /\ queued[b] > 0
    /\ queued' = [queued EXCEPT ![b] = @ - 1]
    /\ fetching' = fetching \cup {b}
    /\ Update(b, TRUE)
    /\ UNCHANGED <<entries, driving, drivers, webviews, unused, loads, callback, forgetting,
                   waits, toolCall, tab>>

\* Finished, or a failure that no newer navigation caused: the entry first, the
\* waiters next.
LoadEnds(b) ==
    /\ callback = Idle /\ b \in fetching
    /\ fetching' = fetching \ {b}
    /\ Update(b, FALSE)
    /\ callback' = <<"loaded", b>>
    /\ UNCHANGED <<entries, driving, drivers, webviews, unused, queued, loads, forgetting,
                   waits, toolCall, tab>>

\* The page's process is gone: what it owed is answered as well.
ProcessDies(b) ==
    /\ callback = Idle /\ b \in webviews
    /\ fetching' = fetching \ {b}
    /\ Update(b, FALSE)
    /\ callback' = <<"loaded and failing", b>>
    /\ UNCHANGED <<entries, driving, drivers, webviews, unused, queued, loads, forgetting,
                   waits, toolCall, tab>>

\* Host::loaded.
Loaded ==
    /\ callback[1] \in {"loaded", "loaded and failing"}
    /\ LET b == callback[2] IN
       /\ Notify({c \in sleepers[b] : toolCall[c] = "sleeping"}, "loaded")
       /\ sleepers' = [sleepers EXCEPT ![b] = {}]
       /\ callback' = IF callback[1] = "loaded" THEN Idle ELSE <<"failing", b>>
    /\ UNCHANGED <<host, webviews, unused, webkit, forgetting, owed, toolCall, tab>>

\* Host::fail_pending.
FailPending ==
    /\ callback[1] = "failing"
    /\ Notify(owed[callback[2]], "failed")
    /\ owed' = [owed EXCEPT ![callback[2]] = {}]
    /\ callback' = Idle
    /\ UNCHANGED <<host, webviews, unused, webkit, forgetting, sleepers, toolCall, tab>>

\* Host::resolve, with the page's answer.
Answers(b) ==
    /\ callback = Idle /\ b \in webviews
    /\ \E c \in owed[b] : Notify({c}, "answered") /\ owed' = [owed EXCEPT ![b] = @ \ {c}]
    /\ UNCHANGED <<host, webviews, unused, webkit, callback, forgetting, sleepers, toolCall, tab>>

-----------------------------------------------------------------------------
(* close: the entry, then its requests, then its waiters, then the webview *)

Close(b) ==
    /\ forgetting[b] = "no" /\ b \in entries
    /\ entries' = entries \ {b} /\ loading' = loading \ {b}
    /\ driving' = [driving EXCEPT ![b] = NoCaller]
    /\ forgetting' = [forgetting EXCEPT ![b] = "requests"]
    /\ UNCHANGED <<drivers, webviews, unused, webkit, callback, waits, toolCall, tab>>

DropRequests(b) ==
    /\ forgetting[b] = "requests"
    /\ Notify(owed[b], "closed")
    /\ owed' = [owed EXCEPT ![b] = {}]
    /\ forgetting' = [forgetting EXCEPT ![b] = "waiters"]
    /\ UNCHANGED <<host, webviews, unused, webkit, callback, sleepers, toolCall, tab>>

DropWaiters(b) ==
    /\ forgetting[b] = "waiters"
    /\ Notify({c \in sleepers[b] : toolCall[c] = "sleeping"}, "closed")
    /\ sleepers' = [sleepers EXCEPT ![b] = {}]
    /\ forgetting' = [forgetting EXCEPT ![b] = "webview"]
    /\ UNCHANGED <<host, webviews, unused, webkit, callback, owed, toolCall, tab>>

CloseWebview(b) ==
    /\ forgetting[b] = "webview"
    /\ webviews' = webviews \ {b}
    /\ queued' = [queued EXCEPT ![b] = 0] /\ fetching' = fetching \ {b}
    /\ forgetting' = [forgetting EXCEPT ![b] = "done"]
    /\ UNCHANGED <<host, unused, loads, callback, waits, toolCall, tab>>

-----------------------------------------------------------------------------
BrowserNext ==
    \/ \E c \in ToolCalls :
          \/ TakeSlot(c) \/ Begin(c)
          \/ Build(c) \/ StartLoad(c) \/ Navigate(c) \/ Mark(c) \/ WaitForLoad(c)
          \/ Wake(c) \/ AskPage(c) \/ HearAnswer(c) \/ AnswerTooLate(c) \/ End(c)
    \/ \E b \in Tabs :
          \/ Link(b) \/ LoadStarts(b) \/ LoadEnds(b) \/ ProcessDies(b) \/ Answers(b)
          \/ Close(b) \/ DropRequests(b) \/ DropWaiters(b) \/ CloseWebview(b)
    \/ Loaded \/ FailPending

BrowserSpec == BrowserInit /\ [][BrowserNext]_browserVars

-----------------------------------------------------------------------------
(* Properties                                                              *)

\* Every variable keeps its shape, and concurrent opens never pass the cap
\* together.
BrowserTypeOK ==
    /\ entries \subseteq Tabs /\ loading \subseteq entries /\ webviews \subseteq Tabs \ unused
    /\ Cardinality(entries) <= MaxTotal
    /\ driving \in [Tabs -> ToolCalls \cup {NoCaller}] /\ drivers \subseteq ToolCalls
    /\ queued \in [Tabs -> 0 .. MaxLoads] /\ fetching \subseteq webviews
    /\ callback \in {"idle", "loaded", "loaded and failing", "failing"} \X (Tabs \cup {NoTab})
    /\ forgetting \in [Tabs -> {"no", "requests", "waiters", "webview", "done"}]
    /\ {sleepers, owed} \subseteq [Tabs -> SUBSET ToolCalls]
    /\ toolCall \in [ToolCalls -> {"none", "building", "starting", "driving", "marking", "waiting",
                               "sleeping", "asking", "asked", "ending", "over"}]
    /\ tab \in [ToolCalls -> Tabs \cup {NoTab}]
    /\ woken \in [ToolCalls -> {"nothing", "loaded", "closed", "failed", "answered"}]

\* Nobody sleeps past the load they wait for, however the load's end, its
\* failure or the pane's close falls among the steps of going to sleep.
NobodySleepsOn ==
    \A c \in ToolCalls : toolCall[c] = "sleeping" /\ woken[c] = "nothing" =>
        \/ tab[c] \in loading
        \/ callback[2] = tab[c]
        \/ forgetting[tab[c]] \in {"requests", "waiters"}

\* An agent's call acts on a pane only while the pane says it is that call's, and
\* no other call's: a pane is driven by one at a time.
DrivenByOne ==
    \A c \in ToolCalls : toolCall[c] \in {"driving", "marking"} /\ tab[c] \in entries =>
        driving[tab[c]] = c

\* The cap, the waiters and the driver of a pane survive opens, loads, crashes of
\* the page and closes in every order.
BrowserOK == BrowserTypeOK /\ NobodySleepsOn /\ DrivenByOne
=============================================================================
