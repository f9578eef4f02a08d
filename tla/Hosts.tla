-------------------------------- MODULE Hosts -------------------------------
(* One child process and the threads of the application about it           *)
(* (crates/wtm-exec: pty.rs, pipe.rs, signal.rs): the threads that read    *)
(* it and reap it, a caller that waits for it with a deadline, and callers *)
(* that kill it.  A pty has one stream, and may be waited for; a pipe      *)
(* session has two.  A descendant that left the child's group may keep a   *)
(* stream open for as long as it likes.                                    *)
EXTENDS Integers, FiniteSets

CONSTANTS
    Killers,        \* the callers of kill
    Takers,         \* the callers of take_pids and terminate_groups
    MaxLines        \* bounds what is written to each stream

ASSUME HostsAssumption == Killers \cap Takers = {} /\ MaxLines \in Nat

VARIABLES
    kind,       \* "pty" or "pipe"
    proc,       \* the child: running, exited, reaped
    holders,    \* of each stream, who has it open: the child, a descendant
    written,    \* of each stream, what is yet to be read
    ended,      \* the streams whose reader has met their end
    main,       \* the reader thread that reports the exit
    cause,      \* Session.intervention
    verdict,    \* what that thread is about to publish
    outcome,    \* Session.outcome
    told,       \* what on_exit was given
    registered, \* the session is in the host's map
    waiter,     \* the caller of wait
    why,        \* its cause, once it has one
    answer,     \* what wait returned
    caller      \* each caller of kill or take_pids

streams == <<holders, written, ended>>
session == <<cause, outcome, registered>>
report == <<verdict, told>>
waiting == <<waiter, why, answer>>
hostVars == <<kind, proc, streams, main, session, report, waiting, caller>>

Streams == IF kind = "pty" THEN {"out"} ELSE {"out", "err"}
Callers == Killers \cup Takers
Interventions == {"killed", "cancelled", "timedOut", "lineTooLong"}

HostInit ==
    /\ kind \in {"pty", "pipe"}
    /\ proc = "running"
    /\ holders = [s \in Streams |-> {"child"}]
    /\ written = [s \in Streams |-> 0]
    /\ ended = {}
    /\ main = "reading"
    /\ cause = "none" /\ verdict = "none" /\ outcome = "none" /\ told = "none"
    /\ registered = FALSE
    /\ waiter = "none" /\ why = "none" /\ answer = "none"
    /\ caller = [c \in Callers |-> "none"]

-----------------------------------------------------------------------------
(* The child                                                               *)

Write(s) ==
    /\ holders[s] # {} /\ written[s] < MaxLines
    /\ written' = [written EXCEPT ![s] = @ + 1]
    /\ UNCHANGED <<kind, proc, holders, ended, main, session, report, waiting, caller>>

(* A descendant leaves the group with the child's streams.                 *)
Escape ==
    /\ proc = "running"
    /\ holders' = [s \in Streams |-> IF "child" \in holders[s] THEN {"child", "descendant"}
                                     ELSE holders[s]]
    /\ UNCHANGED <<kind, proc, written, ended, main, session, report, waiting, caller>>

LetGo(s, who) ==
    /\ who \in holders[s]
    /\ holders' = [holders EXCEPT ![s] = @ \ {who}]
    /\ UNCHANGED <<kind, proc, written, ended, main, session, report, waiting, caller>>

Dies ==
    /\ proc' = IF proc = "running" THEN "exited" ELSE proc
    /\ holders' = [s \in Streams |-> holders[s] \ {"child"}]

ChildExits ==
    /\ proc = "running"
    /\ Dies
    /\ UNCHANGED <<kind, written, ended, main, session, report, waiting, caller>>

-----------------------------------------------------------------------------
(* The readers                                                             *)

Reading(s) == s \notin ended /\ (s = "out" => main = "reading")

(* A line, or a chunk, is delivered.                                       *)
Read(s) ==
    /\ Reading(s) /\ written[s] > 0
    /\ written' = [written EXCEPT ![s] = @ - 1]
    /\ UNCHANGED <<kind, proc, holders, ended, main, session, report, waiting, caller>>

(* Mutant: the exit is reported without waiting for the other reader.      *)
Eof_NoJoin(s) ==
    /\ Reading(s) /\ written[s] = 0 /\ holders[s] = {}
    /\ ended' = ended \cup {s}
    /\ main' = IF s = "out" THEN "waiting" ELSE main
    /\ UNCHANGED <<kind, proc, holders, written, session, report, waiting, caller>>

Eof(s) ==
    /\ Reading(s) /\ written[s] = 0 /\ holders[s] = {}
    /\ ended' = ended \cup {s}
    /\ main' = IF s = "out" THEN "joining" ELSE main
    /\ UNCHANGED <<kind, proc, holders, written, session, report, waiting, caller>>

(* A line of stdout past MAX_LINE_BYTES ends the session, in place of any  *)
(* cause there was; the rest of the stream is dropped with its reader.     *)
Overflow ==
    /\ kind = "pipe" /\ Reading("out") /\ written["out"] > 0
    /\ ended' = ended \cup {"out"}
    /\ written' = [written EXCEPT !["out"] = 0]
    /\ cause' = "lineTooLong"
    /\ main' = "term"
    /\ UNCHANGED <<kind, proc, holders, outcome, registered, report, waiting, caller>>

Join ==
    /\ main = "joining" /\ Streams \subseteq ended
    /\ main' = "waiting"
    /\ UNCHANGED <<kind, proc, streams, session, report, waiting, caller>>

(* child.wait()                                                            *)
Reap ==
    /\ main = "waiting" /\ proc = "exited"
    /\ proc' = "reaped"
    /\ main' = "deciding"
    /\ UNCHANGED <<kind, streams, session, report, waiting, caller>>

(* The cause, or else the status, is what will be said.                    *)
Decide ==
    /\ main = "deciding"
    /\ main' = "publishing"
    /\ verdict' = IF cause = "none" THEN "status" ELSE cause
    /\ UNCHANGED <<kind, proc, streams, session, told, waiting, caller>>

Publish ==
    /\ main = "publishing"
    /\ main' = "telling"
    /\ outcome' = verdict
    /\ UNCHANGED <<kind, proc, streams, cause, registered, report, waiting, caller>>

Tell ==
    /\ main = "telling"
    /\ main' = "done"
    /\ told' = verdict
    /\ UNCHANGED <<kind, proc, streams, session, verdict, waiting, caller>>

(* spawn ends: the threads have been running for a while.                  *)
Register ==
    /\ ~registered
    /\ registered' = TRUE
    /\ UNCHANGED <<kind, proc, streams, main, cause, outcome, report, waiting, caller>>

-----------------------------------------------------------------------------
(* terminate_groups: SIGTERM, which the child may outlast, a grace, and    *)
(* SIGKILL unless there was nobody to signal.                              *)

Signalled(at, next) ==
    \/ /\ at = "term"
       /\ next \in {"kill", "sent"}
       /\ next = "sent" <=> proc = "reaped"
       /\ \/ Dies
          \/ UNCHANGED <<proc, holders>>
    \/ /\ at = "kill" /\ next = "sent"
       /\ Dies

CallerSignals(c) ==
    /\ \E next \in {"kill", "sent"} :
           Signalled(caller[c], next) /\ caller' = [caller EXCEPT ![c] = next]
    /\ UNCHANGED <<kind, written, ended, main, session, report, waiting>>

WaiterSignals ==
    /\ \E next \in {"kill", "sent"} : Signalled(waiter, next) /\ waiter' = next
    /\ UNCHANGED <<kind, written, ended, main, session, report, why, answer, caller>>

MainSignals ==
    /\ \E next \in {"kill", "sent"} :
           Signalled(main, next) /\ main' = IF next = "sent" THEN "joining" ELSE next
    /\ UNCHANGED <<kind, written, ended, session, report, waiting, caller>>

(* intervene: who comes second leaves the signalling to the first.         *)
Kill(c) ==
    /\ registered /\ caller[c] = "none"
    /\ cause' = IF cause = "none" THEN "killed" ELSE cause
    /\ caller' = [caller EXCEPT ![c] = IF cause = "none" THEN "term" ELSE "sent"]
    /\ UNCHANGED <<kind, proc, streams, main, outcome, registered, report, waiting>>

(* take_pids: what has not ended is signalled, whoever else is at it.      *)
Take(c) ==
    /\ registered /\ caller[c] = "none" /\ outcome = "none"
    /\ cause' = IF cause = "none" THEN "killed" ELSE cause
    /\ caller' = [caller EXCEPT ![c] = "term"]
    /\ UNCHANGED <<kind, proc, streams, main, outcome, registered, report, waiting>>

-----------------------------------------------------------------------------
(* wait_for_outcome                                                        *)

BeginWait ==
    /\ kind = "pty" /\ registered /\ waiter = "none"
    /\ waiter' = "polling"
    /\ UNCHANGED <<kind, proc, streams, main, session, report, why, answer, caller>>

SeeOutcome ==
    /\ waiter \in {"polling", "sent"} /\ outcome # "none"
    /\ waiter' = "answered"
    /\ answer' = outcome
    /\ UNCHANGED <<kind, proc, streams, main, session, report, why, caller>>

(* The caller cancels, or the time is up.                                  *)
Intervene(reason) ==
    /\ waiter = "polling" /\ outcome = "none"
    /\ why' = reason
    /\ cause' = IF cause = "none" THEN reason ELSE cause
    /\ waiter' = IF cause = "none" THEN "term" ELSE "sent"
    /\ UNCHANGED <<kind, proc, streams, main, outcome, registered, report, answer, caller>>

(* FINAL_OUTCOME_WAIT_MS after that, wait answers for itself.  It is longer*)
(* than an escalation's grace, and than a thread that can run takes to     *)
(* publish.                                                                *)
Patience == main \in {"reading", "joining", "waiting"} /\ ~(main = "waiting" /\ proc = "exited")
            /\ \A c \in Callers : caller[c] \notin {"term", "kill"}

(* Mutant: the reader is trusted to publish some day.                      *)
GiveUp_Never ==
    /\ waiter = "sent" /\ outcome # "none"
    /\ waiter' = "answered"
    /\ answer' = why
    /\ UNCHANGED <<kind, proc, streams, main, session, report, why, caller>>

GiveUp ==
    /\ waiter = "sent" /\ outcome = "none" /\ Patience
    /\ waiter' = "answered"
    /\ answer' = why
    /\ outcome' = why
    /\ UNCHANGED <<kind, proc, streams, main, cause, registered, report, why, caller>>

HostNext ==
    \/ \E s \in Streams : Write(s) \/ Read(s) \/ Eof(s)
                          \/ \E who \in {"child", "descendant"} : LetGo(s, who)
    \/ Escape \/ ChildExits \/ Overflow \/ Join \/ Reap \/ Decide \/ Publish \/ Tell
    \/ Register
    \/ \E c \in Killers : Kill(c)
    \/ \E c \in Takers : Take(c)
    \/ \E c \in Callers : CallerSignals(c)
    \/ WaiterSignals \/ MainSignals
    \/ BeginWait \/ SeeOutcome \/ GiveUp
    \/ \E reason \in {"cancelled", "timedOut"} : Intervene(reason)

(* The application's threads run and time passes; the child and its        *)
(* descendants owe nothing.                                                *)
HostFairness ==
    /\ \A s \in {"out", "err"} : WF_hostVars(s \in Streams /\ (Read(s) \/ Eof(s)))
    /\ WF_hostVars(Join \/ Reap \/ Decide \/ Publish \/ Tell \/ MainSignals)
    /\ WF_hostVars(SeeOutcome \/ GiveUp \/ WaiterSignals \/ Intervene("timedOut"))
    /\ \A c \in Callers : WF_hostVars(CallerSignals(c))

HostSpec == HostInit /\ [][HostNext]_hostVars
HostFairSpec == HostSpec /\ HostFairness

-----------------------------------------------------------------------------
HostTypeOK ==
    /\ cause \in Interventions \cup {"none"}
    /\ {outcome, verdict, told, answer} \subseteq Interventions \cup {"none", "status"}
    /\ why \in {"none", "cancelled", "timedOut"}
    /\ ended \subseteq Streams
    /\ main \in {"deciding", "publishing", "telling", "done"} <=> proc = "reaped"

(* "The UI can never be told a session ended while its output is still     *)
(* arriving": both readers have met the end of their stream by then.       *)
ExitIsLast == told # "none" => ended = Streams

(* What wait answers is what the session is listed with and what on_exit   *)
(* says later, unless a kill was recorded before the wait's own cause.     *)
AnswersAgree ==
    /\ answer # "none" /\ cause \in {"none", why} => outcome = answer
    /\ answer # "none" /\ told # "none" /\ cause \in {"none", why} => told = answer

(* A caller that waits and has given up finds the command gone, whoever    *)
(* began to end it: the next step of a pipeline never overlaps it.         *)
GaveUpOnTheDead == answer # "none" => proc # "running"

(* wait answers, though a descendant keep the terminal open for ever.      *)
WaitAnswers == waiter = "polling" ~> waiter = "answered"

(* A session somebody ended ends: that the first to intervene is the only  *)
(* one to signal leaves none running.                                      *)
EndedSessionEnds == cause # "none" ~> proc # "running"

(* A wait answers, and a session somebody ends is ended.                   *)
HostsSettle == WaitAnswers /\ EndedSessionEnds

(* What a host says of a session is so: to a wait, in its list, and when   *)
(* it tells of the exit.                                                   *)
HostOK == HostTypeOK /\ ExitIsLast /\ AnswersAgree /\ GaveUpOnTheDead
=============================================================================
