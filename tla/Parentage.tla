------------------------------ MODULE Parentage ------------------------------
(* Hub's parentage map as the code keeps it and walks it                   *)
(* (src-tauri/src/handoff.rs): a list of children for each session,        *)
(* collect_all, collect_closable and the worklist of forget_children, over *)
(* every map a sequence of calls can build.  One thread: Handoff has the   *)
(* threads, and takes from Forest what is shown here of the walks.         *)
EXTENDS Naturals, Sequences, FiniteSets, SequencesExt, Forest

CONSTANT MaxSessions    \* bounds the sessions; a child is opened after its parent

ASSUME ParentageAssumption == MaxSessions \in Nat

Session == 1 .. MaxSessions

VARIABLES
    recorded,   \* Hub.children: the sessions recorded under each, in order
    finished,   \* those whose record says settled
    known       \* history: the sessions that have been recorded

hubVars == <<recorded, finished, known>>

Sets == [p \in Session |-> ToSet(recorded[p])]

HubInit ==
    /\ recorded = [p \in Session |-> <<>>]
    /\ finished = {}
    /\ known = {}

-----------------------------------------------------------------------------
\* Where a walk has come: at a session, and through so many of its children.
Spots == {at \in Session \X Nat : at[2] <= Len(recorded[at[1]])}
Kid(at) == recorded[at[1]][at[2]]
Earlier(at) == <<at[1], at[2] - 1>>
All(p) == <<p, Len(recorded[p])>>

(* collect_all: each child after everyone below it.                        *)
CollectAll(p) ==
    LET out[at \in Spots] ==
            IF at[2] = 0 THEN <<>>
            ELSE out[Earlier(at)] \o Append(out[All(Kid(at))], Kid(at))
    IN  out[All(p)]

(* collect_closable: the closable sessions and how many still work.        *)
CollectClosable(p) ==
    LET found[at \in Spots] ==
            IF at[2] = 0 THEN [list |-> <<>>, busy |-> 0]
            ELSE LET sum == found[Earlier(at)]
                     below == found[All(Kid(at))]
                 IN  IF Kid(at) \in finished /\ below.busy = 0
                     THEN [sum EXCEPT !.list = @ \o Append(below.list, Kid(at))]
                     ELSE [sum EXCEPT !.busy = @ + below.busy
                                                + (IF Kid(at) \in finished THEN 0 ELSE 1)]
    IN  found[All(p)]

\* Vec::retain.
Retain(list, S) ==
    LET upTo[i \in 0 .. Len(list)] ==
            IF i = 0 THEN <<>>
            ELSE IF list[i] \in S THEN Append(upTo[i - 1], list[i]) ELSE upTo[i - 1]
    IN  upTo[Len(list)]

(* Mutant: only the sessions named are forgotten.                          *)
Grow_Named(sessions) == sessions

(* forget_children grows its list as it reads it, by the children of each  *)
(* that are not on it: one reading for each session there may be.          *)
Grow(sessions) ==
    LET read[i \in 0 .. MaxSessions] ==
            IF i = 0 THEN sessions
            ELSE LET drop == read[i - 1] IN
                 IF i > Len(drop) THEN drop
                 ELSE drop \o Retain(recorded[drop[i]], Session \ ToSet(drop))
    IN  read[MaxSessions]

(* Hub::forget_children: the keys of all that go, and their places.        *)
ForgetChildren(sessions) ==
    LET drop == ToSet(Grow(sessions)) IN
    recorded' = [p \in Session |-> IF p \in drop THEN <<>> ELSE Retain(recorded[p], Session \ drop)]

-----------------------------------------------------------------------------
(* record_child: once for each session, and under one opened before it.    *)
RecordChild(p, c) ==
    /\ p < c
    /\ c \notin known
    /\ recorded' = [recorded EXCEPT ![p] = Append(@, c)]
    /\ known' = known \cup {c}
    /\ UNCHANGED finished

SettleChild(c) ==
    /\ \E p \in Session : c \in Sets[p]
    /\ c \notin finished
    /\ finished' = finished \cup {c}
    /\ UNCHANGED <<recorded, known>>

(* The half of forget_session that is about children: any pane may close,  *)
(* one that is recorded under its parent only later included.              *)
ForgetSession(p) ==
    /\ ForgetChildren(<<p>>)
    /\ UNCHANGED <<finished, known>>

(* close_children forgets what it found closable.                          *)
CloseChildren(p) ==
    LET closed == CollectClosable(p).list IN
    /\ closed # <<>>
    /\ ForgetChildren(closed)
    /\ UNCHANGED <<finished, known>>

(* The half of forget_worktree that is about children: those opened in it  *)
(* go from every list, and what they parented elsewhere stays.             *)
ForgetWorktree(S) ==
    /\ \E p \in Session : Sets[p] \cap S # {}
    /\ recorded' = [p \in Session |-> Retain(recorded[p], Session \ S)]
    /\ UNCHANGED <<finished, known>>

HubNext ==
    \/ \E p, c \in Session : RecordChild(p, c)
    \/ \E p \in Session : SettleChild(p) \/ ForgetSession(p) \/ CloseChildren(p)
    \/ \E S \in SUBSET Session : ForgetWorktree(S)

HubSpec == HubInit /\ [][HubNext]_hubVars

-----------------------------------------------------------------------------
(* Every variable has its type.                                            *)
HubTypeOK ==
    /\ recorded \in [Session -> Seq(Session)]
    /\ finished \subseteq Session /\ known \subseteq Session

(* Nobody is named twice, and nobody before someone below it.              *)
DescendantsFirst(list) ==
    /\ IsInjective(list)
    /\ \A i, j \in DOMAIN list : i < j => list[j] \notin Below(Sets, list[i])

(* Hub::descendants, "every descendant of `parent`, deepest first".        *)
WalksAll ==
    \A p \in Session :
        /\ ToSet(CollectAll(p)) = Below(Sets, p)
        /\ DescendantsFirst(CollectAll(p))

(* Hub::settled_children: "a direct child's whole subtree is offered       *)
(* together or not at all", and nobody who works is offered.  The count is *)
(* of everyone below who still works, wherever in the tree.                *)
OffersSettled ==
    \A p \in Session :
        LET got == CollectClosable(p) IN
        /\ ToSet(got.list) = Closable(Sets, finished, p)
        /\ ToSet(got.list) \subseteq finished
        /\ DescendantsFirst(got.list)
        /\ got.busy = Cardinality(Below(Sets, p) \ finished)

(* The worklist of forget_children stops, with all that is below and each  *)
(* session once: "Descendant keys go too".                                 *)
ForgetsWhole ==
    \A p \in Session :
        /\ ToSet(Grow(<<p>>)) = Subtree(Sets, p)
        /\ IsInjective(Grow(<<p>>))

(* The recursive walks over the hub's lists find what Forest's definitions *)
(* say they should, whatever was recorded, settled and forgotten.          *)
ParentageOK == HubTypeOK /\ WalksAll /\ OffersSettled /\ ForgetsWhole
=============================================================================
