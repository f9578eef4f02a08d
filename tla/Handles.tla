-------------------------------- MODULE Handles -------------------------------
(* The handles by which a Home conversation names sessions (src-tauri/src/ *)
(* home.rs, app.rs; crates/wtm-config/src/home_handles.rs).  They are      *)
(* minted in memory, bound to conversations as providers name them, saved  *)
(* in a file, and read back when Home is resumed, after a quit or within   *)
(* one run, numbered past what its transcript mentions.                    *)
EXTENDS Integers, FiniteSets

CONSTANTS
    Conversations,   \* what the sessions hold
    MaxOpens,        \* bounds the sessions opened
    MaxKept,         \* the handles the file keeps of one Home conversation
    MaxHomes,        \* bounds the times Home is resumed
    NoHandles        \* nothing in memory, or in the file

NoSession == 0     \* a handle bound to a conversation

\* Of the handles in a book or a form each has a higher number than those minted
\* before it, so that they need no other order.
Handle == [n : Nat, conv : Conversations, session : Nat]
Book == [home : BOOLEAN, next : Nat, named : SUBSET Handle]
Form == [next : Nat, named : SUBSET Handle]

ASSUME HandlesAssumption ==
    /\ MaxKept \in Nat \ {0} /\ MaxOpens \in Nat /\ MaxHomes \in Nat
    /\ NoHandles \notin Book /\ NoHandles \notin Form

Tool == <<"tool", 0>>        \* one tool call of Home at a time
Courier == <<"courier", 0>>
Callers == {Tool, Courier}
\* A conversation, and which of the sessions that have held it.
Holders == Conversations \X (1 .. MaxOpens)
Threads == Callers \cup Holders
VARIABLES
    homeNamed,   \* Home's provider has named its conversation
    pane,        \* of each conversation: never, unnamed, named, shut, lost
    opens,       \* the sessions that have held it
    handles,     \* Home's handles in memory
    file,        \* Home's handles in the file
    thread,      \* where each thread is
    untold,      \* what Home was waiting on in the last run, and is to be told of
    adrift,      \* forms on their way to the file from a Home since closed, and
                 \* whether it has been resumed since
    said,        \* history: the numbers Home has read, and of what
    homes,       \* how often Home has been resumed
    behind,      \* history: a write of the file failed, or an older form
                 \* overwrote a newer, or the file forgot this Home
    cut,         \* history: Home was resumed with a transcript cut short
    lost,        \* history: Home went with something that was not in the file: not
                 \* bound yet, on its way there, not kept, or Home not named itself
    late,        \* history: such a form was written after Home had been resumed
    crossed,     \* history: one caller's load overwrote handles that had moved on
                 \* since another installed them
    missed,      \* history: a handle was minted around its session's naming: without
                 \* the name it had, or before the older handle was bound
    trimmed      \* history: the file kept fewer handles than it was given

handlesVars == <<homeNamed, pane, opens, handles, file, thread, untold, adrift, said,
                 homes, behind, cut, lost, late, crossed, missed, trimmed>>
history == <<behind, cut, lost, late, crossed, missed, trimmed>>

Idle == [at |-> "idle"]
Loading == {"ensure", "load", "floor", "install"}

HandlesInit ==
    /\ homeNamed = FALSE
    /\ pane = [c \in Conversations |-> "never"]
    /\ opens = [c \in Conversations |-> 0]
    /\ handles = NoHandles /\ file = NoHandles
    /\ thread = [t \in Threads |-> Idle]
    /\ untold = {} /\ adrift = {} /\ said = {} /\ homes = 0
    /\ behind = FALSE /\ cut = FALSE /\ lost = FALSE /\ late = FALSE
    /\ crossed = FALSE /\ missed = FALSE /\ trimmed = FALSE

-----------------------------------------------------------------------------
(* The registry                                                            *)

Said == {p.n : p \in said}

\* saved_form: session-bound handles are left out.
SavedForm == [next |-> handles.next,
              named |-> {e \in handles.named : e.session = NoSession}]

\* The handle of a session, by the session or by its conversation if it is known.
Found(c, k, known) ==
    {e \in handles.named : e.conv = c /\ (e.session = k \/ (e.session = NoSession /\ known))}

First(found) == CHOOSE e \in found : \A f \in found : e.n <= f.n

(* Mutant: the numbering of a resumed Home starts past what was saved, and *)
(* not past what its transcript mentions.                                  *)
Installed_NoFloor(named, saved, floor) ==
    [home |-> named,
     next |-> IF saved = NoHandles THEN 0 ELSE saved.next,
     named |-> IF saved = NoHandles THEN {} ELSE saved.named]

\* install_handles.
Installed(named, saved, floor) ==
    [home |-> named,
     next |-> IF saved # NoHandles /\ saved.next > floor THEN saved.next ELSE floor,
     named |-> IF saved = NoHandles THEN {} ELSE saved.named]

-----------------------------------------------------------------------------
(* App's handles: ensure_handles first, then what the caller wants.  What  *)
(* is in memory, the file, the transcript and the registry are each looked *)
(* at under a lock of their own.                                           *)

Ensures(t, next) ==
    thread' = [thread EXCEPT ![t] = [at |-> "ensure", known |-> homeNamed, next |-> next]]

(* session_for, as far as it changes anything.                             *)
Consult ==
    /\ thread[Tool] = Idle
    /\ handles # NoHandles => ~handles.home /\ homeNamed
    /\ Ensures(Tool, Idle)
    /\ UNCHANGED <<homeNamed, pane, opens, handles, file, untold, adrift, said, homes, history>>

\* The courier has news of what a tool call has named, and of what home::interrupted
\* was given after a relaunch: that may come before any tool call.
Given(c) == c \in untold \/ (handles # NoHandles /\ \E e \in handles.named : e.conv = c)

(* handle_for, for a session that is open or that Home is to be told of.   *)
HandleFor(t, c) ==
    /\ thread[t] = Idle
    /\ pane[c] \in {"unnamed", "named"}
    /\ t = Courier => Given(c)
    /\ Ensures(t, [at |-> "look", conv |-> c, session |-> opens[c]])
    /\ untold' = IF t = Courier THEN untold \ {c} ELSE untold
    /\ UNCHANGED <<homeNamed, pane, opens, handles, file, adrift, said, homes, history>>

(* has_handles, and note_home_conversation.                                *)
Ensure(t) ==
    LET call == thread[t]
    IN  /\ call.at = "ensure"
        /\ IF handles = NoHandles
           THEN /\ thread' = [thread EXCEPT ![t] =
                      [at |-> "load", known |-> call.known, next |-> call.next]]
                /\ UNCHANGED handles
           ELSE /\ handles' = [handles EXCEPT !.home = @ \/ call.known]
                /\ thread' = [thread EXCEPT ![t] =
                      IF call.known /\ ~handles.home THEN [at |-> "form", next |-> call.next]
                      ELSE call.next]
        /\ UNCHANGED <<homeNamed, pane, opens, file, untold, adrift, said, homes, history>>

Load(t) ==
    LET call == thread[t]
    IN  /\ call.at = "load"
        /\ thread' = [thread EXCEPT ![t] =
              [at |-> "floor", known |-> call.known, next |-> call.next,
               saved |-> IF call.known THEN file ELSE NoHandles]]
        /\ adrift' = {[a EXCEPT !.past = TRUE] : a \in adrift}
        /\ UNCHANGED <<homeNamed, pane, opens, handles, file, untold, said, homes, history>>

(* highest_handle_said: what the transcript mentions is read from a replay *)
(* that may be cut short.                                                  *)
Floor(t) ==
    LET call == thread[t]
    IN  /\ call.at = "floor"
        /\ \E floor \in {0} \cup Said :
              /\ thread' = [thread EXCEPT ![t] =
                    [at |-> "install", known |-> call.known, next |-> call.next,
                     saved |-> call.saved, floor |-> floor]]
              /\ cut' = (cut \/ \E n \in Said : floor < n)
        /\ UNCHANGED <<homeNamed, pane, opens, handles, file, untold, adrift, said, homes,
                       behind, lost, late, crossed, missed, trimmed>>

(* install_handles: whatever another caller has put there meanwhile.       *)
Install(t) ==
    LET call == thread[t]
        new == Installed(call.known, call.saved, call.floor)
    IN  /\ call.at = "install"
        /\ handles' = new
        /\ thread' = [thread EXCEPT ![t] = call.next]
        /\ crossed' = (crossed \/ (handles # NoHandles
                          /\ <<handles.next, handles.named>> # <<new.next, new.named>>))
        /\ UNCHANGED <<homeNamed, pane, opens, file, untold, adrift, said, homes,
                       behind, cut, lost, late, missed, trimmed>>

\* conversation_of.
Look(t) ==
    LET call == thread[t]
    IN  /\ call.at = "look"
        /\ thread' = [thread EXCEPT ![t] =
              [at |-> "mint", conv |-> call.conv, session |-> call.session,
               known |-> pane[call.conv] = "named" /\ opens[call.conv] = call.session]]
        /\ UNCHANGED <<homeNamed, pane, opens, handles, file, untold, adrift, said, homes, history>>

\* Those of mine are bound to their conversations.
Binding(named, mine) == (named \ mine) \cup {[e EXCEPT !.session = NoSession] : e \in mine}

(* Registry::handle_for: found, found and bound, or minted.                *)
Mint(t) ==
    LET call == thread[t]
        found == Found(call.conv, call.session, call.known)
        e == First(found)
        bound == IF call.known THEN NoSession ELSE call.session
        say(n) == [at |-> "say", n |-> n, conv |-> call.conv]
        save(n) == [at |-> "form", next |-> say(n)]
    IN  /\ call.at = "mint"
        /\ \/ /\ found = {}
              /\ handles' = [handles EXCEPT
                    !.next = @ + 1,
                    !.named = @ \cup {[n |-> handles.next + 1, conv |-> call.conv, session |-> bound]}]
              /\ thread' = [thread EXCEPT ![t] = save(handles.next + 1)]
              /\ missed' = (missed \/ (~call.known /\ pane[call.conv] \in {"named", "shut"})
                            \/ \E s \in Holders : s[1] = call.conv /\ thread[s].at = "bind")
           \/ /\ found # {}
              /\ IF e.session # NoSession /\ call.known
                 THEN /\ handles' = [handles EXCEPT !.named = Binding(@, {e})]
                      /\ thread' = [thread EXCEPT ![t] = save(e.n)]
                 ELSE /\ thread' = [thread EXCEPT ![t] = say(e.n)]
                      /\ UNCHANGED handles
              /\ UNCHANGED missed
        /\ UNCHANGED <<homeNamed, pane, opens, file, untold, adrift, said, homes, behind, cut, lost, late,
                       crossed, trimmed>>

(* The reply, or the news, is in Home's transcript.                        *)
Say(t) ==
    /\ thread[t].at = "say"
    /\ said' = said \cup {[n |-> thread[t].n, conv |-> thread[t].conv]}
    /\ thread' = [thread EXCEPT ![t] = Idle]
    /\ UNCHANGED <<homeNamed, pane, opens, handles, file, untold, adrift, homes, history>>

(* save_handles: the form is taken under one lock, and written under       *)
(* another.                                                                *)
TakeForm(t) ==
    /\ thread[t].at = "form"
    /\ thread' = [thread EXCEPT ![t] =
          IF handles # NoHandles /\ handles.home
          THEN [at |-> "write", form |-> SavedForm, next |-> thread[t].next]
          ELSE thread[t].next]
    /\ UNCHANGED <<homeNamed, pane, opens, handles, file, untold, adrift, said, homes, history>>

Kept(form) ==
    [form EXCEPT !.named = {e \in @ : Cardinality({f \in @ : f.n > e.n}) < MaxKept}]

\* The file holds what this form has not.
Older(form) ==
    /\ file # NoHandles
    /\ form.next < file.next \/ ~(file.named \subseteq form.named)

Put(form, past) ==
    \/ /\ file' = Kept(form)
       /\ behind' = (behind \/ Older(form))
       /\ trimmed' = (trimmed \/ Kept(form) # form)
       /\ late' = (late \/ past)
    \/ behind' = TRUE /\ UNCHANGED <<file, trimmed, late>>

Write(t) ==
    /\ thread[t].at = "write"
    /\ Put(thread[t].form, FALSE)
    /\ thread' = [thread EXCEPT ![t] = thread[t].next]
    /\ UNCHANGED <<homeNamed, pane, opens, handles, untold, adrift, said, homes, cut, lost, crossed,
                   missed>>

WriteAdrift(a) ==
    /\ a \in adrift
    /\ Put(a.form, a.past)
    /\ adrift' = adrift \ {a}
    /\ UNCHANGED <<homeNamed, pane, opens, handles, thread, untold, said, homes, cut, lost, crossed,
                   missed>>

(* The file forgets a Home when enough others have been written since, and *)
(* everything when it cannot be read.                                      *)
Forgets ==
    /\ file # NoHandles
    /\ file' = NoHandles /\ behind' = TRUE
    /\ UNCHANGED <<homeNamed, pane, opens, handles, thread, untold, adrift, said, homes, cut,
                   lost, late, crossed, missed, trimmed>>

-----------------------------------------------------------------------------
(* Holders come, are named, and go                                        *)

HomeIsNamed ==
    /\ ~homeNamed /\ homeNamed' = TRUE
    /\ UNCHANGED <<pane, opens, handles, file, thread, untold, adrift, said, homes, history>>

OpenPane(c) ==
    /\ opens[c] < MaxOpens
    /\ \/ pane[c] = "never" /\ pane' = [pane EXCEPT ![c] = "unnamed"]
       \/ pane[c] = "shut" /\ pane' = [pane EXCEPT ![c] = "named"]
    /\ opens' = [opens EXCEPT ![c] = @ + 1]
    /\ UNCHANGED <<homeNamed, handles, file, thread, untold, adrift, said, homes, history>>

(* note_provider_session: the entry first, and then Home's handles.  A     *)
(* resumed session has its name from the start, and nothing to bind.       *)
Named(c) ==
    /\ pane[c] = "unnamed"
    /\ pane' = [pane EXCEPT ![c] = "named"]
    /\ thread' = [thread EXCEPT ![<<c, opens[c]>>] = [at |-> "bind"]]
    /\ UNCHANGED <<homeNamed, opens, handles, file, untold, adrift, said, homes, history>>

(* bind_conversation.                                                      *)
Bind(c, k) ==
    LET mine == IF handles = NoHandles THEN {} ELSE {e \in handles.named : e.conv = c /\ e.session = k}
    IN  /\ thread[<<c, k>>].at = "bind"
        /\ IF mine # {}
           THEN /\ handles' = [handles EXCEPT !.named = Binding(@, mine)]
                /\ thread' = [thread EXCEPT ![<<c, k>>] = [at |-> "form", next |-> Idle]]
           ELSE thread' = [thread EXCEPT ![<<c, k>>] = Idle] /\ UNCHANGED handles
        /\ UNCHANGED <<homeNamed, pane, opens, file, untold, adrift, said, homes, history>>

Shut(state) ==
    CASE state = "named" -> "shut" [] state = "unnamed" -> "lost" [] OTHER -> state

ClosePane(c) ==
    /\ pane[c] \in {"unnamed", "named"}
    /\ pane' = [pane EXCEPT ![c] = Shut(@)]
    /\ UNCHANGED <<homeNamed, opens, handles, file, thread, untold, adrift, said, homes, history>>

\* The file has not all of what is in memory.
Unsaved ==
    IF file = NoHandles THEN handles.next > 0
    ELSE \/ handles.next > file.next
         \/ ~(handles.named \subseteq file.named)

Resumes ==
    /\ homeNamed /\ homes < MaxHomes
    /\ homes' = homes + 1
    /\ handles' = NoHandles
    /\ lost' = (lost \/ (handles # NoHandles /\ Unsaved))
    /\ UNCHANGED <<homeNamed, opens, file, said, behind, cut, late, crossed, missed, trimmed>>

(* Home is closed and resumed: its threads work for nobody, but for what   *)
(* they were about to write.  One closed while a caller is loading handles *)
(* is left out.                                                            *)
ReopenHome ==
    /\ Resumes
    /\ \A t \in Callers : thread[t].at \notin Loading
    /\ untold' \in {untold, {}}
    /\ adrift' = adrift \cup {[form |-> thread[t].form, past |-> FALSE] :
                                 t \in {u \in Threads : thread[u].at = "write"}}
    /\ thread' = [t \in Threads |-> IF thread[t].at = "bind" THEN thread[t] ELSE Idle]
    /\ UNCHANGED pane

(* The program quits or dies, and is started again: its window tells Home  *)
(* of some of the sessions it had delegated to.                            *)
Relaunch ==
    /\ Resumes
    /\ untold' \in SUBSET (untold \cup {e.conv : e \in IF handles = NoHandles THEN {} ELSE handles.named})
    /\ adrift' = {}
    /\ thread' = [t \in Threads |-> Idle]
    /\ pane' = [c \in Conversations |-> Shut(pane[c])]

HandlesNext ==
    \/ Consult \/ Forgets \/ HomeIsNamed \/ ReopenHome \/ Relaunch
    \/ \E t \in Callers :
          \/ Ensure(t) \/ Load(t) \/ Floor(t) \/ Install(t)
          \/ Look(t) \/ Mint(t) \/ Say(t)
          \/ \E c \in Conversations : HandleFor(t, c)
    \/ \E t \in Threads : TakeForm(t) \/ Write(t)
    \/ \E a \in adrift : WriteAdrift(a)
    \/ \E c \in Conversations : OpenPane(c) \/ Named(c) \/ ClosePane(c)
    \/ \E s \in Holders : Bind(s[1], s[2])

HandlesSpec == HandlesInit /\ [][HandlesNext]_handlesVars

-----------------------------------------------------------------------------
HandlesTypeOK ==
    /\ \A c \in Conversations :
          pane[c] \in {"never", "unnamed", "named", "shut", "lost"} /\ opens[c] \in 0 .. MaxOpens
    /\ \A t \in Threads :
          thread[t].at \in {"idle", "look", "mint", "say", "form", "write", "bind"} \cup Loading
    /\ untold \subseteq Conversations
    /\ handles # NoHandles =>
          \A e \in handles.named : e.n \in 1 .. handles.next /\ e.conv \in Conversations
    /\ file # NoHandles => Cardinality(file.named) <= MaxKept

\* No number has named two conversations.
NumbersOnce ==
    /\ \A p, q \in said : p.n = q.n => p.conv = q.conv
    /\ handles # NoHandles =>
          \A e \in handles.named, p \in said : e.n = p.n => e.conv = p.conv

(* A number Home has read of one session never comes to name another,      *)
(* unless the file is not what was said and the transcript is cut short as *)
(* well, or an old form came late, or two callers loaded at once.          *)
NeverAnother == ~crossed /\ ~((behind \/ lost) /\ (cut \/ late)) => NumbersOnce

(* "A restored session answers to its old handle; ... numbers are never    *)
(* given out twice" (app.rs:2684-2685), with nothing amiss of a file or of *)
(* a transcript.                                                           *)
NeverTwice == ~behind /\ ~lost /\ ~cut /\ ~late => NumbersOnce

(* "A restored session answers to its old handle."                         *)
KeepsItsName ==
    ~behind /\ ~lost /\ ~crossed /\ ~missed => \A p, q \in said : p.conv = q.conv => p.n = q.n

(* With every thread done, the file has every handle that is bound.        *)
FileFollows ==
    (\A t \in Threads : thread[t] = Idle) /\ adrift = {} /\ ~behind
        /\ handles # NoHandles /\ handles.home /\ ~trimmed =>
        IF file = NoHandles THEN SavedForm.named = {}
        ELSE SavedForm.named \subseteq file.named

(* What a number names, what it is called, and what is kept of it, across  *)
(* quits and resumptions of Home.                                          *)
HandlesOK == HandlesTypeOK /\ NeverAnother /\ KeepsItsName /\ FileFollows
=============================================================================
