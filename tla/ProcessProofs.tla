---------------------------- MODULE ProcessProofs ----------------------------
(* Proofs about the processes the application starts: one child process and*)
(* its threads (Hosts), for any callers and any output, the commands run   *)
(* in a shell (ShellRuns), for any number of runs, and the browser panes   *)
(* (Browser), for any number of panes, calls and navigations.              *)
EXTENDS Hosts, ShellRuns, Browser, FiniteSetTheorems, TLAPS

-----------------------------------------------------------------------------
(* Hosts: the inductive invariant.                                         *)

Waited == {"none", "polling", "term", "kill", "sent", "answered"}

HostShape ==
    /\ kind \in {"pty", "pipe"} /\ proc \in {"running", "exited", "reaped"}
    /\ ended \subseteq Streams
    /\ main \in {"reading", "term", "kill", "joining", "waiting", "deciding", "publishing",
                 "telling", "done"}
    /\ cause \in Interventions \cup {"none"}
    /\ {outcome, verdict, told, answer} \subseteq Interventions \cup {"none", "status"}
    /\ why \in {"none", "cancelled", "timedOut"}
    /\ waiter \in Waited
    /\ caller \in [Callers -> {"none", "term", "kill", "sent"}]

\* The reporting thread: it waits for the child after both streams, decides once it
\* has reaped it, and publishes and tells what it decided.
ReportInv ==
    /\ main \in {"deciding", "publishing", "telling", "done"} <=> proc = "reaped"
    /\ main \in {"waiting", "deciding", "publishing", "telling", "done"} => Streams \subseteq ended
    /\ verdict # "none" <=> main \in {"publishing", "telling", "done"}
    /\ main \in {"telling", "done"} => outcome = verdict
    /\ told # "none" => main = "done" /\ told = verdict
    /\ verdict \notin {"none", "status"} => cause = verdict

\* The caller that waits: what it intervened for is a cause or came after one; if it
\* answered before there was a verdict, the verdict is the cause.
WaitInv ==
    /\ why # "none" => cause # "none"
    /\ waiter \in {"term", "kill", "sent"} => why # "none"
    /\ answer # "none" <=> waiter = "answered"
    /\ outcome # "none" /\ main \notin {"telling", "done"} =>
          waiter = "answered" /\ answer = why /\ outcome = why /\ verdict # "status"
    /\ waiter = "answered" /\ main \in {"telling", "done"} =>
          answer = outcome \/ cause \notin {"none", why}
    /\ waiter = "answered" => outcome # "none"

\* Who intervened first ends the child, or has it still to do.
EndInv ==
    /\ cause # "none" =>
          \/ proc # "running"
          \/ main \in {"term", "kill"} \/ waiter \in {"term", "kill"}
          \/ \E c \in Callers : caller[c] \in {"term", "kill"}
    /\ answer # "none" => proc # "running"

HostInv == HostShape /\ ReportInv /\ WaitInv /\ EndInv

-----------------------------------------------------------------------------
\* The shapes survive every step.
LEMMA HostShapeStep ==
    ASSUME HostShape, [HostNext]_hostVars
    PROVE  HostShape'
<1> USE DEF HostShape, Streams, Callers, Interventions, Waited, streams, session, report, waiting, Reading
<1>1. ASSUME NEW s \in Streams, Write(s) PROVE HostShape'
  BY <1>1 DEF Write
<1>2. ASSUME NEW s \in Streams, Read(s) PROVE HostShape'
  BY <1>2 DEF Read
<1>3. ASSUME NEW s \in Streams, Eof(s) PROVE HostShape'
  BY <1>3 DEF Eof
<1>4. ASSUME NEW s \in Streams, NEW who \in {"child", "descendant"}, LetGo(s, who) PROVE HostShape'
  BY <1>4 DEF LetGo
<1>5. ASSUME Escape PROVE HostShape'
  BY <1>5 DEF Escape
<1>6. ASSUME ChildExits PROVE HostShape'
  BY <1>6 DEF ChildExits, Dies
<1>7. ASSUME Overflow PROVE HostShape'
  BY <1>7 DEF Overflow
<1>8. ASSUME Join PROVE HostShape'
  BY <1>8 DEF Join
<1>9. ASSUME Reap PROVE HostShape'
  BY <1>9 DEF Reap
<1>10. ASSUME Decide PROVE HostShape'
  BY <1>10 DEF Decide
<1>11. ASSUME Publish PROVE HostShape'
  BY <1>11 DEF Publish
<1>12. ASSUME Tell PROVE HostShape'
  BY <1>12 DEF Tell
<1>13. ASSUME Register PROVE HostShape'
  BY <1>13 DEF Register
<1>14. ASSUME NEW c \in Killers, Kill(c) PROVE HostShape'
  BY <1>14 DEF Kill
<1>15. ASSUME NEW c \in Takers, Take(c) PROVE HostShape'
  BY <1>15 DEF Take
<1>16. ASSUME NEW c \in Callers, CallerSignals(c) PROVE HostShape'
  BY <1>16 DEF CallerSignals, Signalled, Dies
<1>17. ASSUME WaiterSignals PROVE HostShape'
  BY <1>17 DEF WaiterSignals, Signalled, Dies
<1>18. ASSUME MainSignals PROVE HostShape'
  BY <1>18 DEF MainSignals, Signalled, Dies
<1>19. ASSUME BeginWait PROVE HostShape'
  BY <1>19 DEF BeginWait
<1>20. ASSUME SeeOutcome PROVE HostShape'
  BY <1>20 DEF SeeOutcome
<1>21. ASSUME GiveUp PROVE HostShape'
  BY <1>21 DEF GiveUp, Patience
<1>22. ASSUME NEW reason \in {"cancelled", "timedOut"}, Intervene(reason) PROVE HostShape'
  BY <1>22 DEF Intervene
<1>23. CASE UNCHANGED hostVars
  BY <1>23 DEF hostVars
<1> QED BY <1>1, <1>2, <1>3, <1>4, <1>5, <1>6, <1>7, <1>8, <1>9, <1>10, <1>11, <1>12, <1>13, <1>14, <1>15, <1>16, <1>17, <1>18, <1>19, <1>20, <1>21, <1>22, <1>23 DEF HostNext

\* The exit is decided after the streams have ended and the child is reaped.
LEMMA ReportStep ==
    ASSUME HostShape, ReportInv, WaitInv, [HostNext]_hostVars
    PROVE  ReportInv'
<1> USE DEF HostShape, ReportInv, WaitInv, Streams, Callers, Interventions, Waited, streams, session, report, waiting, Reading
<1>1. ASSUME NEW s \in Streams, Write(s) PROVE ReportInv'
  BY <1>1 DEF Write
<1>2. ASSUME NEW s \in Streams, Read(s) PROVE ReportInv'
  BY <1>2 DEF Read
<1>3. ASSUME NEW s \in Streams, Eof(s) PROVE ReportInv'
  BY <1>3 DEF Eof
<1>4. ASSUME NEW s \in Streams, NEW who \in {"child", "descendant"}, LetGo(s, who) PROVE ReportInv'
  BY <1>4 DEF LetGo
<1>5. ASSUME Escape PROVE ReportInv'
  BY <1>5 DEF Escape
<1>6. ASSUME ChildExits PROVE ReportInv'
  BY <1>6 DEF ChildExits, Dies
<1>7. ASSUME Overflow PROVE ReportInv'
  BY <1>7 DEF Overflow
<1>8. ASSUME Join PROVE ReportInv'
  BY <1>8 DEF Join
<1>9. ASSUME Reap PROVE ReportInv'
  BY <1>9 DEF Reap
<1>10. ASSUME Decide PROVE ReportInv'
  BY <1>10 DEF Decide
<1>11. ASSUME Publish PROVE ReportInv'
  BY <1>11 DEF Publish
<1>12. ASSUME Tell PROVE ReportInv'
  BY <1>12 DEF Tell
<1>13. ASSUME Register PROVE ReportInv'
  BY <1>13 DEF Register
<1>14. ASSUME NEW c \in Killers, Kill(c) PROVE ReportInv'
  BY <1>14 DEF Kill
<1>15. ASSUME NEW c \in Takers, Take(c) PROVE ReportInv'
  BY <1>15 DEF Take
<1>16. ASSUME NEW c \in Callers, CallerSignals(c) PROVE ReportInv'
  BY <1>16 DEF CallerSignals, Signalled, Dies
<1>17. ASSUME WaiterSignals PROVE ReportInv'
  BY <1>17 DEF WaiterSignals, Signalled, Dies
<1>18. ASSUME MainSignals PROVE ReportInv'
  BY <1>18 DEF MainSignals, Signalled, Dies
<1>19. ASSUME BeginWait PROVE ReportInv'
  BY <1>19 DEF BeginWait
<1>20. ASSUME SeeOutcome PROVE ReportInv'
  BY <1>20 DEF SeeOutcome
<1>21. ASSUME GiveUp PROVE ReportInv'
  BY <1>21 DEF GiveUp, Patience
<1>22. ASSUME NEW reason \in {"cancelled", "timedOut"}, Intervene(reason) PROVE ReportInv'
  BY <1>22 DEF Intervene
<1>23. CASE UNCHANGED hostVars
  BY <1>23 DEF hostVars
<1> QED BY <1>1, <1>2, <1>3, <1>4, <1>5, <1>6, <1>7, <1>8, <1>9, <1>10, <1>11, <1>12, <1>13, <1>14, <1>15, <1>16, <1>17, <1>18, <1>19, <1>20, <1>21, <1>22, <1>23 DEF HostNext

\* A wait's answer is the outcome, or a cause that came first.
LEMMA WaitStep ==
    ASSUME HostShape, ReportInv, WaitInv, [HostNext]_hostVars
    PROVE  WaitInv'
<1> USE DEF HostShape, ReportInv, WaitInv, Streams, Callers, Interventions, Waited, streams, session, report, waiting, Reading
<1>1. ASSUME NEW s \in Streams, Write(s) PROVE WaitInv'
  BY <1>1 DEF Write
<1>2. ASSUME NEW s \in Streams, Read(s) PROVE WaitInv'
  BY <1>2 DEF Read
<1>3. ASSUME NEW s \in Streams, Eof(s) PROVE WaitInv'
  BY <1>3 DEF Eof
<1>4. ASSUME NEW s \in Streams, NEW who \in {"child", "descendant"}, LetGo(s, who) PROVE WaitInv'
  BY <1>4 DEF LetGo
<1>5. ASSUME Escape PROVE WaitInv'
  BY <1>5 DEF Escape
<1>6. ASSUME ChildExits PROVE WaitInv'
  BY <1>6 DEF ChildExits, Dies
<1>7. ASSUME Overflow PROVE WaitInv'
  BY <1>7 DEF Overflow
<1>8. ASSUME Join PROVE WaitInv'
  BY <1>8 DEF Join
<1>9. ASSUME Reap PROVE WaitInv'
  BY <1>9 DEF Reap
<1>10. ASSUME Decide PROVE WaitInv'
  BY <1>10 DEF Decide
<1>11. ASSUME Publish PROVE WaitInv'
  BY <1>11 DEF Publish
<1>12. ASSUME Tell PROVE WaitInv'
  BY <1>12 DEF Tell
<1>13. ASSUME Register PROVE WaitInv'
  BY <1>13 DEF Register
<1>14. ASSUME NEW c \in Killers, Kill(c) PROVE WaitInv'
  BY <1>14 DEF Kill
<1>15. ASSUME NEW c \in Takers, Take(c) PROVE WaitInv'
  BY <1>15 DEF Take
<1>16. ASSUME NEW c \in Callers, CallerSignals(c) PROVE WaitInv'
  BY <1>16 DEF CallerSignals, Signalled, Dies
<1>17. ASSUME WaiterSignals PROVE WaitInv'
  BY <1>17 DEF WaiterSignals, Signalled, Dies
<1>18. ASSUME MainSignals PROVE WaitInv'
  BY <1>18 DEF MainSignals, Signalled, Dies
<1>19. ASSUME BeginWait PROVE WaitInv'
  BY <1>19 DEF BeginWait
<1>20. ASSUME SeeOutcome PROVE WaitInv'
  BY <1>20 DEF SeeOutcome
<1>21. ASSUME GiveUp PROVE WaitInv'
  BY <1>21 DEF GiveUp, Patience
<1>22. ASSUME NEW reason \in {"cancelled", "timedOut"}, Intervene(reason) PROVE WaitInv'
  BY <1>22 DEF Intervene
<1>23. CASE UNCHANGED hostVars
  BY <1>23 DEF hostVars
<1> QED BY <1>1, <1>2, <1>3, <1>4, <1>5, <1>6, <1>7, <1>8, <1>9, <1>10, <1>11, <1>12, <1>13, <1>14, <1>15, <1>16, <1>17, <1>18, <1>19, <1>20, <1>21, <1>22, <1>23 DEF HostNext

\* Whoever comes second finds the child ended or being ended.
LEMMA EndStep ==
    ASSUME HostShape, ReportInv, WaitInv, EndInv, [HostNext]_hostVars
    PROVE  EndInv'
<1> USE DEF HostShape, ReportInv, WaitInv, EndInv, Streams, Callers, Interventions, Waited, streams, session, report, waiting, Reading
<1>1. ASSUME NEW s \in Streams, Write(s) PROVE EndInv'
  BY <1>1 DEF Write
<1>2. ASSUME NEW s \in Streams, Read(s) PROVE EndInv'
  BY <1>2 DEF Read
<1>3. ASSUME NEW s \in Streams, Eof(s) PROVE EndInv'
  BY <1>3 DEF Eof
<1>4. ASSUME NEW s \in Streams, NEW who \in {"child", "descendant"}, LetGo(s, who) PROVE EndInv'
  BY <1>4 DEF LetGo
<1>5. ASSUME Escape PROVE EndInv'
  BY <1>5 DEF Escape
<1>6. ASSUME ChildExits PROVE EndInv'
  BY <1>6 DEF ChildExits, Dies
<1>7. ASSUME Overflow PROVE EndInv'
  BY <1>7 DEF Overflow
<1>8. ASSUME Join PROVE EndInv'
  BY <1>8 DEF Join
<1>9. ASSUME Reap PROVE EndInv'
  BY <1>9 DEF Reap
<1>10. ASSUME Decide PROVE EndInv'
  BY <1>10 DEF Decide
<1>11. ASSUME Publish PROVE EndInv'
  BY <1>11 DEF Publish
<1>12. ASSUME Tell PROVE EndInv'
  BY <1>12 DEF Tell
<1>13. ASSUME Register PROVE EndInv'
  BY <1>13 DEF Register
<1>14. ASSUME NEW c \in Killers, Kill(c) PROVE EndInv'
  BY <1>14 DEF Kill
<1>15. ASSUME NEW c \in Takers, Take(c) PROVE EndInv'
  BY <1>15 DEF Take
<1>16. ASSUME NEW c \in Callers, CallerSignals(c) PROVE EndInv'
  BY <1>16 DEF CallerSignals, Signalled, Dies
<1>17. ASSUME WaiterSignals PROVE EndInv'
  BY <1>17 DEF WaiterSignals, Signalled, Dies
<1>18. ASSUME MainSignals PROVE EndInv'
  BY <1>18 DEF MainSignals, Signalled, Dies
<1>19. ASSUME BeginWait PROVE EndInv'
  BY <1>19 DEF BeginWait
<1>20. ASSUME SeeOutcome PROVE EndInv'
  BY <1>20 DEF SeeOutcome
<1>21. ASSUME GiveUp PROVE EndInv'
  BY <1>21 DEF GiveUp, Patience
<1>22. ASSUME NEW reason \in {"cancelled", "timedOut"}, Intervene(reason) PROVE EndInv'
  BY <1>22 DEF Intervene
<1>23. CASE UNCHANGED hostVars
  BY <1>23 DEF hostVars
<1> QED BY <1>1, <1>2, <1>3, <1>4, <1>5, <1>6, <1>7, <1>8, <1>9, <1>10, <1>11, <1>12, <1>13, <1>14, <1>15, <1>16, <1>17, <1>18, <1>19, <1>20, <1>21, <1>22, <1>23 DEF HostNext

-----------------------------------------------------------------------------
\* Hosts: an exit is told after the last of the output, a wait's answer agrees with
\* what is listed and told, and who gave up waiting finds the child gone (pty.rs,
\* pipe.rs, signal.rs).
THEOREM HostSafe == HostSpec => []HostOK
<1>1. HostInit => HostInv
  BY DEF HostInit, HostInv, HostShape, ReportInv, WaitInv, EndInv, Waited, Interventions, Streams
<1>2. HostInv /\ [HostNext]_hostVars => HostInv'
  BY HostShapeStep, ReportStep, WaitStep, EndStep DEF HostInv
<1>3. HostInv => HostOK
  BY DEF HostInv, HostOK, HostShape, ReportInv, WaitInv, EndInv, HostTypeOK, ExitIsLast,
     AnswersAgree, GaveUpOnTheDead
<1> QED BY <1>1, <1>2, <1>3, PTL DEF HostSpec
-----------------------------------------------------------------------------
(* ShellRuns: the inductive invariant.                                     *)

Phases == {"none", "prepared", "awaitingApproval", "awaitingPane", "openingShell", "reserved",
           "running", "completed", "denied", "cancelled", "interrupted"}

Heard == [kind : {"prompt", "busy"}, epoch : Nat] \cup [kind : {"refused"}, run : RunIds]

GateRecords ==
    [registered : BOOLEAN, connected : BOOLEAN, closed : BOOLEAN, owner : {"user", "home"},
     opener : RunIds \cup {NoRun}, adopted : BOOLEAN, prompt : Nat, generation : Nat,
     run : RunIds \cup {NoRun}, epoch : Nat, at : Nat, consumed : BOOLEAN]

ZshRecords ==
    [mode : {"unborn", "booting", "prompt", "command", "helper", "ended", "reaped"},
     epoch : Nat, keys : BOOLEAN]

Messages == [run : RunIds, epoch : Nat]

RunsShape ==
    /\ phase \in [RunIds -> Phases] /\ grant \in [RunIds -> BOOLEAN]
    /\ pidKnown \subseteq RunIds /\ killing \subseteq RunIds /\ settling \subseteq RunIds
    /\ starter \in [RunIds -> {"none", "choosing", "placing", "opening", "dispatching",
                               "reserving", "done", "failed"}]
    /\ active \in RunIds \cup {NoRun} /\ capable \subseteq RunIds

Passing ==
    [at : {"no", "begun", "ending", "dropped", "forgetting", "done"},
     todo : SUBSET RunIds, listed : SUBSET RunIds]

AuthorityShape ==
    /\ granted \in BOOLEAN /\ home \in BOOLEAN
    /\ revoking \subseteq RunIds /\ left \subseteq RunIds /\ looking \subseteq RunIds
    /\ leaving \in [Passes -> Passing]

HelpersShape ==
    /\ helper \in [RunIds -> {"none", "asking", "validated", "launching", "started", "running",
                              "marked", "gone"}]
    /\ child \in [RunIds -> {"none", "alive", "dead"}]
    /\ frame \in [RunIds -> {"none", "sent", "got"}]
    /\ reported \in [RunIds -> {"none", "got"}]

GateShape ==
    /\ gate \in GateRecords /\ zsh \in ZshRecords
    /\ down \in Seq(Messages) /\ up \in Seq(Heard)
    /\ closing \in {"nobody", "home", "user"}

ShellShape == RunsShape /\ AuthorityShape /\ HelpersShape /\ GateShape

\* How far a run has come: what there is of it in the registry, at the gate, on the
\* way to the shell and in the shell, there is only once it has been placed.
PlacedInv ==
    /\ \A r \in RunIds :
          /\ phase[r] \in {"none", "prepared", "awaitingApproval"} => starter[r] = "none"
          /\ active = r \/ r \in capable => Placed(r)
          /\ gate.run = r \/ helper[r] # "none" => starter[r] = "done"
          /\ grant[r] => r \in HomeRuns
    /\ \A i \in DOMAIN down :
          starter[down[i].run] = "done" /\ helper[down[i].run] = "none"
    /\ \A i, j \in DOMAIN down : down[i].run = down[j].run => i = j

\* The shell has one helper at a time, and is its until the helper is gone.
HelperInv ==
    /\ \A r \in RunIds :
          helper[r] \notin {"none", "gone"} => zsh.mode \in {"helper", "ended", "reaped"}
    /\ \A q, r \in RunIds : {helper[q], helper[r]} \cap {"none", "gone"} = {} => q = r
    /\ \A r \in RunIds :
          /\ child[r] = "alive" => helper[r] \in {"started", "running"}
          /\ helper[r] \in {"none", "asking", "validated", "launching"} => child[r] = "none"
          /\ helper[r] = "marked" => child[r] = "dead"
          /\ reported[r] = "got" => helper[r] = "gone" /\ child[r] = "dead"

\* Who is over is being released, or has been, unless forget_home said so alone; who is
\* being killed was running.
EndedInv ==
    \A r \in RunIds :
        /\ r \in settling => Terminal(phase[r])
        /\ r \in killing => Terminal(phase[r]) /\ helper[r] \in {"running", "marked", "gone"}
        /\ r \in left => Terminal(phase[r])
        /\ r \in pidKnown => phase[r] = "running" /\ helper[r] \in {"running", "marked"}
        /\ Terminal(phase[r]) /\ r \notin settling /\ (active = r \/ r \in capable) => r \in left
        /\ phase[r] = "completed" => child[r] = "dead" /\ reported[r] = "got" /\ frame[r] = "got"

\* What holds of the shell while a run has its prompt: the keys that came after the
\* reservation have outdated it.
GateInv ==
    /\ gate.at <= gate.generation
    /\ \A r \in RunIds :
          /\ phase[r] = "running" => gate.run = r
          /\ helper[r] \in {"launching", "started", "running", "marked"} => ~zsh.keys
          /\ helper[r] \in {"asking", "validated"} /\ gate.run = r /\ gate.at = gate.generation
                => ~zsh.keys
          /\ helper[r] = "validated" /\ gate.run = r /\ gate.at = gate.generation /\ grant[r]
                => gate.owner = "home" /\ ~gate.adopted
    /\ closing = "home" => gate.closed /\ \A r \in RunIds : phase[r] # "running"

ShellInv == ShellShape /\ PlacedInv /\ HelperInv /\ EndedInv /\ GateInv

-----------------------------------------------------------------------------
(* What most steps do to the runs: they end some of them, move one between *)
(* the phases of its start, or neither.                                    *)

Starting == {"awaitingPane", "openingShell"}

Ending ==
    /\ phase' \in [RunIds -> Phases]
    /\ \A r \in RunIds : phase'[r] # phase[r] =>
          \/ /\ ~Terminal(phase[r]) /\ phase'[r] \in {"cancelled", "interrupted"}
             /\ r \in settling' \cup left' /\ r \notin pidKnown'
          \/ phase[r] \in Starting /\ phase'[r] \in Starting
    /\ settling \subseteq settling' /\ settling' \subseteq RunIds
    /\ pidKnown' \subseteq pidKnown
    /\ killing' \subseteq killing \cup pidKnown
    /\ \A r \in RunIds :
          r \in settling' \ settling \/ r \in killing' \ killing => Terminal(phase'[r])

LEMMA EndRunsEnding ==
    ASSUME ShellShape, NEW S \in SUBSET RunIds, NEW to \in {"cancelled", "interrupted"}, NEW y,
           EndRuns(S, to, y)
    PROVE  Ending
BY DEF Ending, EndRuns, ShellShape, RunsShape, Terminal, Phases

LEMMA InterruptEnding ==
    ASSUME ShellShape, NEW r \in RunIds, NEW y, Interrupt(r, y)
    PROVE  Ending
BY EndRunsEnding DEF Interrupt

LEMMA NothingEnding ==
    ASSUME ShellShape, UNCHANGED runEnds
    PROVE  Ending
BY DEF Ending, runEnds, ShellShape, RunsShape

\* The gate and the shell as such a step may leave them.
GateCalm ==
    /\ gate' \in GateRecords /\ zsh' \in ZshRecords /\ up' \in Seq(Heard) /\ down' = down
    /\ gate'.run = gate.run /\ gate'.at = gate.at /\ gate'.generation = gate.generation
    /\ gate'.adopted = gate.adopted /\ (gate.closed => gate'.closed)
    /\ gate'.owner = gate.owner \/ zsh.mode = "unborn"
    /\ zsh'.keys => zsh.keys
    /\ zsh.mode \in {"helper", "ended", "reaped"} =>
          zsh'.mode \in {"helper", "ended", "reaped"} \/ \A r \in RunIds : helper[r] \in {"none", "gone"}

\* A starter that goes on, or fails; a helper that is sent away.
StarterCalm ==
    /\ starter' \in [RunIds -> {"none", "choosing", "placing", "opening", "dispatching",
                                "reserving", "done", "failed"}]
    /\ \A r \in RunIds :
          /\ starter[r] \in {"none", "done"} => starter'[r] = starter[r]
          /\ starter[r] = "reserving" => starter'[r] \in {"reserving", "done"}

HelperCalm ==
    /\ helper' \in [RunIds -> {"none", "asking", "validated", "launching", "started", "running",
                               "marked", "gone"}]
    /\ \A r \in RunIds : helper'[r] # helper[r] =>
          helper[r] \in {"asking", "validated"} /\ helper'[r] = "gone"

Calm ==
    /\ Ending /\ GateCalm /\ StarterCalm /\ HelperCalm
    /\ UNCHANGED <<grant, active, capable, child, frame, reported>>
    /\ AuthorityShape' /\ left \subseteq left'
    /\ \A r \in RunIds : r \in left' \ left => Terminal(phase'[r])
    /\ closing' \in {closing, "user"}

LEMMA CalmKeeps ==
    ASSUME ShellInv, Calm
    PROVE  ShellInv'
<1> USE DEF ShellInv, Calm
<1>1. ShellShape'
  <2>1. RunsShape'
    BY DEF ShellShape, RunsShape, Ending, StarterCalm
  <2>2. HelpersShape'
    BY DEF ShellShape, HelpersShape, HelperCalm
  <2>3. GateShape'
    BY DEF ShellShape, GateShape, GateCalm
  <2> QED BY <2>1, <2>2, <2>3 DEF ShellShape
<1>2. PlacedInv'
  <2>1. \A r \in RunIds : phase'[r] \in {"none", "prepared", "awaitingApproval"} => starter'[r] = "none"
    BY DEF PlacedInv, Ending, StarterCalm, Starting
  <2>2. \A r \in RunIds : active' = r \/ r \in capable' => Placed(r)'
    BY DEF PlacedInv, StarterCalm, Placed
  <2>3. \A r \in RunIds : gate'.run = r \/ helper'[r] # "none" => starter'[r] = "done"
    BY DEF PlacedInv, StarterCalm, HelperCalm, GateCalm
  <2>4. ASSUME NEW i \in DOMAIN down
        PROVE  starter'[down[i].run] = "done" /\ helper'[down[i].run] = "none"
    <3>1. down \in Seq(Messages)
      BY DEF ShellShape, GateShape
    <3>2. down[i] \in Messages
      BY <3>1
    <3>3. down[i].run \in RunIds
      BY <3>2 DEF Messages
    <3> QED BY <3>3 DEF PlacedInv, StarterCalm, HelperCalm
  <2> QED BY <2>1, <2>2, <2>3, <2>4 DEF PlacedInv, GateCalm
<1>3. HelperInv'
  <2>1. \A r \in RunIds : helper'[r] \notin {"none", "gone"} => helper'[r] = helper[r]
    BY DEF HelperCalm
  <2>2. \A r \in RunIds :
           helper'[r] \notin {"none", "gone"} => zsh'.mode \in {"helper", "ended", "reaped"}
    BY <2>1 DEF HelperInv, GateCalm
  <2>3. \A q, r \in RunIds : {helper'[q], helper'[r]} \cap {"none", "gone"} = {} => q = r
    BY <2>1 DEF HelperInv
  <2>4. ASSUME NEW r \in RunIds
        PROVE  /\ child[r] = "alive" => helper'[r] \in {"started", "running"}
               /\ helper'[r] \in {"none", "asking", "validated", "launching"} => child[r] = "none"
               /\ helper'[r] = "marked" => child[r] = "dead"
               /\ reported[r] = "got" => helper'[r] = "gone" /\ child[r] = "dead"
    BY DEF HelperInv, HelperCalm
  <2> QED BY <2>2, <2>3, <2>4 DEF HelperInv
<1>4. EndedInv'
  <2> SUFFICES ASSUME NEW r \in RunIds
               PROVE  /\ r \in settling' => Terminal(phase'[r])
                      /\ r \in killing' =>
                            Terminal(phase'[r]) /\ helper'[r] \in {"running", "marked", "gone"}
                      /\ r \in left' => Terminal(phase'[r])
                      /\ r \in pidKnown' =>
                            phase'[r] = "running" /\ helper'[r] \in {"running", "marked"}
                      /\ Terminal(phase'[r]) /\ r \notin settling' /\ (active = r \/ r \in capable) =>
                            r \in left'
                      /\ phase'[r] = "completed" =>
                            child[r] = "dead" /\ reported[r] = "got" /\ frame[r] = "got"
    BY DEF EndedInv, Terminal
  <2>1. /\ helper[r] \in {"running", "marked", "gone"} => helper'[r] = helper[r]
        /\ helper[r] \in {"running", "marked"} => helper'[r] = helper[r]
    BY DEF HelperCalm
  <2>2. Terminal(phase[r]) => phase'[r] = phase[r]
    BY DEF Ending, Terminal, Starting
  <2>3. phase[r] = "running" /\ phase'[r] # "running" => r \notin pidKnown' /\ Terminal(phase'[r])
    BY DEF Ending, Terminal, Starting
  <2>4. phase'[r] = phase[r] \/ phase'[r] \in {"cancelled", "interrupted"} \/ phase'[r] \in Starting
    BY DEF Ending
  <2>5. Terminal(phase'[r]) /\ r \notin settling' /\ r \notin left' =>
           phase'[r] = phase[r] /\ r \notin settling /\ r \notin left
    BY DEF Ending, Terminal, Starting
  <2> QED BY <2>1, <2>2, <2>3, <2>4, <2>5 DEF EndedInv, Ending, Terminal, Starting
<1>5. GateInv'
  <2>1. \A r \in RunIds : phase'[r] = "running" => phase[r] = "running"
    BY DEF Ending, Starting
  <2>2. \A r \in RunIds : helper'[r] = helper[r] \/ helper'[r] = "gone"
    BY DEF HelperCalm
  <2>3. \A r \in RunIds : helper[r] = "validated" => gate'.owner = gate.owner
    BY DEF HelperInv, GateCalm
  <2> QED BY <2>1, <2>2, <2>3 DEF GateInv, GateCalm
<1> QED BY <1>1, <1>2, <1>3, <1>4, <1>5

\* The steps that leave the gate, the starters and the helpers as they are.
LEMMA StillCalm ==
    ASSUME ShellInv
    PROVE  /\ UNCHANGED <<gate, zsh, down, up>> => GateCalm
           /\ UNCHANGED starter => StarterCalm
           /\ UNCHANGED helper => HelperCalm
           /\ UNCHANGED authority =>
                 /\ AuthorityShape' /\ left \subseteq left'
                 /\ \A r \in RunIds : r \in left' \ left => Terminal(phase'[r])
BY DEF ShellInv, ShellShape, RunsShape, HelpersShape, GateShape, AuthorityShape, authority, GateCalm,
   StarterCalm, HelperCalm

\* A starter that fails, or goes on to the next thing it does.
LEMMA StarterMoves ==
    ASSUME ShellInv, NEW r \in RunIds,
           NEW to \in {"placing", "opening", "dispatching", "done", "failed"},
           starter' = [starter EXCEPT ![r] = to],
           starter[r] \notin {"none", "done"}, starter[r] = "reserving" => to = "done"
    PROVE  StarterCalm
BY DEF ShellInv, ShellShape, RunsShape, StarterCalm

LEMMA HelperSentAway ==
    ASSUME ShellInv, NEW r \in RunIds, helper[r] \in {"asking", "validated"},
           helper' = [helper EXCEPT ![r] = "gone"]
    PROVE  HelperCalm
BY DEF ShellInv, ShellShape, HelpersShape, HelperCalm

\* The runs: who ends them, and the threads that only look.
LEMMA EndersKeep ==
    ASSUME ShellInv, NEW r \in RunIds,
           \/ TimerLooks(r) \/ TimerCancels(r) \/ HelperLost(r) \/ CancelRevoked(r) \/ Stop(r)
           \/ LookForHome(r) \/ ReleaseLeft(r)
    PROVE  ShellInv'
<1> USE DEF socket, process, authority, registry
<1>1. ShellShape
  BY DEF ShellInv
<1>2. Ending
  <2>1. CASE ReleaseLeft(r)
    <3>1. Terminal(phase[r])
      BY <2>1 DEF ReleaseLeft, ShellInv, EndedInv
    <3> QED BY <1>1, <2>1, <3>1 DEF ReleaseLeft, Ending, ShellShape, RunsShape
  <2> QED BY <1>1, <2>1, EndRunsEnding, InterruptEnding, NothingEnding
          DEF TimerLooks, TimerCancels, HelperLost, CancelRevoked, Stop, LookForHome
<1>3. UNCHANGED <<grant, starter, registry, gate, zsh, socket, process, left, closing>>
  BY DEF TimerLooks, TimerCancels, HelperLost, CancelRevoked, Stop, LookForHome, ReleaseLeft
<1>4. AuthorityShape'
  BY <1>1 DEF TimerLooks, TimerCancels, HelperLost, CancelRevoked, Stop, LookForHome, ReleaseLeft,
     ShellShape, AuthorityShape
<1> QED BY <1>2, <1>3, <1>4, StillCalm, CalmKeeps DEF Calm

LEMMA ChooseShellKeeps ==
    ASSUME ShellInv, NEW r \in RunIds, ChooseShell(r)
    PROVE  ShellInv'
<1> USE DEF socket, process, authority, registry
<1>1. ShellShape
  BY DEF ShellInv
<1>2. Ending
  BY <1>1, InterruptEnding, NothingEnding DEF ChooseShell
<1>3. StarterCalm
  BY StarterMoves DEF ChooseShell
<1>4. UNCHANGED <<grant, registry, gate, zsh, socket, process, authority, closing>>
  BY DEF ChooseShell
<1> QED BY <1>2, <1>3, <1>4, StillCalm, CalmKeeps DEF Calm

LEMMA OpenShellKeeps ==
    ASSUME ShellInv, NEW r \in RunIds, OpenShell(r)
    PROVE  ShellInv'
<1> USE DEF socket, process, authority, registry
<1>1. ShellShape
  BY DEF ShellInv
<1>2. Ending
  <2>1. CASE Interrupt(r, "nothing ran")
    BY <1>1, <2>1, InterruptEnding
  <2>2. CASE phase' = [phase EXCEPT ![r] = "openingShell"]
             /\ UNCHANGED <<problem, pidKnown, killing, settling>>
    BY <1>1, <2>2 DEF OpenShell, Ending, Starting, Phases, ShellShape, RunsShape
  <2> QED BY <2>1, <2>2 DEF OpenShell
<1>3. StarterCalm
  BY StarterMoves DEF OpenShell
<1>4. UNCHANGED <<grant, registry, socket, process, authority, closing>>
  BY DEF OpenShell
<1>5. GateCalm
  <2>1. CASE UNCHANGED <<zsh, gate>>
    BY <1>4, <2>1, StillCalm
  <2>2. CASE ~UNCHANGED <<zsh, gate>>
    <3>1. /\ zsh.mode = "unborn" /\ zsh' = [zsh EXCEPT !.mode = "booting"]
          /\ gate' = [gate EXCEPT !.registered = TRUE,
                                  !.owner = IF r \in HomeRuns THEN "home" ELSE "user",
                                  !.opener = r]
      BY <2>2 DEF OpenShell
    <3>2. gate \in GateRecords /\ zsh \in ZshRecords /\ up \in Seq(Heard)
      BY <1>1 DEF ShellShape, GateShape
    <3>3. gate' \in GateRecords
      BY <3>1, <3>2 DEF GateRecords
    <3>4. zsh' \in ZshRecords /\ zsh'.keys = zsh.keys
      BY <3>1, <3>2 DEF ZshRecords
    <3>5. /\ gate'.run = gate.run /\ gate'.at = gate.at /\ gate'.generation = gate.generation
          /\ gate'.adopted = gate.adopted /\ gate'.closed = gate.closed
      BY <3>1, <3>2 DEF GateRecords
    <3> QED BY <1>4, <3>1, <3>2, <3>3, <3>4, <3>5 DEF GateCalm
  <2> QED BY <2>1, <2>2
<1> QED BY <1>2, <1>3, <1>4, <1>5, StillCalm, CalmKeeps DEF Calm

LEMMA FirstPromptKeeps ==
    ASSUME ShellInv, NEW r \in RunIds, FirstPrompt(r)
    PROVE  ShellInv'
<1> USE DEF socket, process, authority, registry
<1>1. ShellShape
  BY DEF ShellInv
<1>2. Ending
  <2>1. CASE Interrupt(r, "nothing ran")
    BY <1>1, <2>1, InterruptEnding
  <2>2. CASE phase' = [phase EXCEPT ![r] = "awaitingPane"] /\ phase[r] = "openingShell"
             /\ UNCHANGED <<problem, pidKnown, killing, settling>>
    BY <1>1, <2>2 DEF Ending, Starting, Phases, ShellShape, RunsShape
  <2> QED BY <2>1, <2>2 DEF FirstPrompt
<1>3. StarterCalm
  BY StarterMoves DEF FirstPrompt
<1>4. UNCHANGED <<grant, registry, gate, zsh, socket, process, authority>>
      /\ closing' \in {closing, "user"}
  BY DEF FirstPrompt
<1> QED BY <1>2, <1>3, <1>4, StillCalm, CalmKeeps DEF Calm

\* What only touches the gate and the shell, whatever runs it ends.
LEMMA GateOnly ==
    ASSUME ShellInv, Ending, GateCalm,
           UNCHANGED <<grant, starter, registry, process, authority>>, closing' \in {closing, "user"}
    PROVE  ShellInv'
<1> QED BY StillCalm, CalmKeeps DEF Calm, registry, process, authority

\* The shell, and the end of it.
LEMMA ShellMovesKeep ==
    ASSUME ShellInv, OpenOwnShell \/ Boot \/ Enter \/ CommandEnds \/ HelperExits \/ ShellExits
    PROVE  ShellInv'
<1>1. gate \in GateRecords /\ zsh \in ZshRecords /\ up \in Seq(Heard) /\ ShellShape
  BY DEF ShellInv, ShellShape, GateShape
<1>2. Ending
  BY <1>1, NothingEnding
     DEF OpenOwnShell, Boot, Enter, CommandEnds, HelperExits, ShellExits, NewPrompt
<1>3. gate' \in GateRecords /\ gate'.run = gate.run /\ gate'.at = gate.at
      /\ gate'.generation = gate.generation /\ gate'.adopted = gate.adopted
      /\ gate'.closed = gate.closed /\ gate'.owner = gate.owner
  BY <1>1 DEF OpenOwnShell, Boot, Enter, CommandEnds, HelperExits, ShellExits, GateRecords
<1>4. zsh' \in ZshRecords /\ (zsh'.keys => zsh.keys)
  <2>1. CASE OpenOwnShell
    BY <1>1, <2>1 DEF OpenOwnShell, ZshRecords
  <2>2. CASE Boot \/ CommandEnds \/ HelperExits
    <3>1. zsh' = [zsh EXCEPT !.mode = "prompt", !.epoch = zsh.epoch + 1]
      BY <2>2 DEF Boot, CommandEnds, HelperExits, NewPrompt
    <3>2. zsh.epoch + 1 \in Nat
      BY <1>1 DEF ZshRecords
    <3> QED BY <1>1, <3>1, <3>2 DEF ZshRecords
  <2>3. CASE Enter
    BY <1>1, <2>3 DEF Enter, ZshRecords
  <2>4. CASE ShellExits
    BY <1>1, <2>4 DEF ShellExits, ZshRecords
  <2> QED BY <2>1, <2>2, <2>3, <2>4
<1>5. up' \in Seq(Heard)
  <2>1. ASSUME NEW k \in {"prompt", "busy"}, NEW e \in Nat
        PROVE  Append(up, [kind |-> k, epoch |-> e]) \in Seq(Heard)
    <3>1. [kind |-> k, epoch |-> e] \in Heard
      BY DEF Heard
    <3> QED BY <1>1, <3>1
  <2>2. zsh.epoch \in Nat /\ zsh.epoch + 1 \in Nat
    BY <1>1 DEF ZshRecords
  <2> QED BY <1>1, <2>1, <2>2
          DEF OpenOwnShell, Boot, Enter, CommandEnds, HelperExits, ShellExits, NewPrompt, socket
<1>6. zsh.mode \in {"helper", "ended", "reaped"} =>
         zsh'.mode \in {"helper", "ended", "reaped"} \/ \A r \in RunIds : helper[r] \in {"none", "gone"}
  BY <1>1 DEF OpenOwnShell, Boot, Enter, CommandEnds, HelperExits, ShellExits, NewPrompt,
     ZshRecords
<1>7. UNCHANGED <<down, grant, starter, registry, process, authority, closing>>
  BY DEF OpenOwnShell, Boot, Enter, CommandEnds, HelperExits, ShellExits, socket
<1> QED BY <1>1, <1>2, <1>3, <1>4, <1>5, <1>6, <1>7, GateOnly DEF GateCalm

LEMMA GateClosed ==
    ASSUME gate \in GateRecords
    PROVE  /\ CloseGate \in GateRecords /\ CloseGate.closed
           /\ CloseGate.run = gate.run /\ CloseGate.at = gate.at /\ CloseGate.owner = gate.owner
           /\ CloseGate.generation = gate.generation /\ CloseGate.adopted = gate.adopted
           /\ [CloseGate EXCEPT !.registered = FALSE] \in GateRecords
           /\ [CloseGate EXCEPT !.registered = FALSE].closed
           /\ [CloseGate EXCEPT !.registered = FALSE].run = gate.run
           /\ [CloseGate EXCEPT !.registered = FALSE].at = gate.at
           /\ [CloseGate EXCEPT !.registered = FALSE].owner = gate.owner
           /\ [CloseGate EXCEPT !.registered = FALSE].generation = gate.generation
           /\ [CloseGate EXCEPT !.registered = FALSE].adopted = gate.adopted
BY DEF CloseGate, GateRecords

\* What the application hears from the shell and of its end.
LEMMA HearShellKeeps ==
    ASSUME ShellInv, HearShell
    PROVE  ShellInv'
<1>1. gate \in GateRecords /\ zsh \in ZshRecords /\ up \in Seq(Heard) /\ ShellShape
  BY DEF ShellInv, ShellShape, GateShape
<1>2. up # <<>> /\ up' = Tail(up)
  BY DEF HearShell
<1>3. Head(up) \in Heard /\ up' \in Seq(Heard)
  BY <1>1, <1>2
<1>4. Head(up).kind \notin {"prompt", "busy"} => Head(up).run \in RunIds
  BY <1>3 DEF Heard
<1>5. Head(up).kind = "prompt" => Head(up).epoch \in Nat
  BY <1>3 DEF Heard
<1>6. Ending
  BY <1>1, <1>4, InterruptEnding, NothingEnding DEF HearShell
<1>7. \/ UNCHANGED gate
      \/ \E n \in Nat : gate' = [gate EXCEPT !.prompt = n]
  BY <1>5 DEF HearShell
<1>8. gate' \in GateRecords /\ gate'.run = gate.run /\ gate'.at = gate.at
      /\ gate'.generation = gate.generation /\ gate'.adopted = gate.adopted
      /\ gate'.closed = gate.closed /\ gate'.owner = gate.owner
  BY <1>1, <1>7 DEF GateRecords
<1>9. UNCHANGED <<grant, starter, registry, zsh, down, process, authority, closing>>
  BY DEF HearShell
<1> QED BY <1>1, <1>3, <1>6, <1>8, <1>9, GateOnly DEF GateCalm

LEMMA ShellEndsKeep ==
    ASSUME ShellInv, SocketEnds \/ OnExit \/ CloseShell
    PROVE  ShellInv'
<1>1. /\ gate \in GateRecords /\ zsh \in ZshRecords /\ up \in Seq(Heard) /\ ShellShape
      /\ active \in RunIds \cup {NoRun}
  BY DEF ShellInv, ShellShape, GateShape, RunsShape
<1>2. Ending
  <2>1. {active} \ {NoRun} \in SUBSET RunIds
    BY <1>1
  <2>2. (IF gate.registered THEN {r \in Prepared : Placed(r)} ELSE {}) \in SUBSET RunIds
    BY DEF Prepared
  <2> QED BY <1>1, <2>1, <2>2, EndRunsEnding DEF SocketEnds, OnExit, CloseShell
<1>3. gate' \in {CloseGate, [CloseGate EXCEPT !.registered = FALSE]}
  BY DEF SocketEnds, OnExit, CloseShell
<1>4. gate' \in GateRecords /\ gate'.run = gate.run /\ gate'.at = gate.at
      /\ gate'.generation = gate.generation /\ gate'.adopted = gate.adopted
      /\ gate'.closed /\ gate'.owner = gate.owner
  BY <1>1, <1>3, GateClosed
<1>5. zsh' \in ZshRecords /\ zsh'.keys = zsh.keys
      /\ (zsh'.mode = zsh.mode \/ zsh'.mode \in {"ended", "reaped"})
  BY <1>1 DEF SocketEnds, OnExit, CloseShell, ZshRecords
<1>6. UNCHANGED <<grant, starter, registry, down, up, process, authority, closing>>
  BY DEF SocketEnds, OnExit, CloseShell, socket
<1> QED BY <1>1, <1>2, <1>4, <1>5, <1>6, GateOnly DEF GateCalm

\* Home's grant, Home itself, and the user's close.
LEMMA AuthorityKeeps ==
    ASSUME ShellInv, AskGrant \/ GiveGrant \/ RevokeGrant \/ UserClosesShell \/ UserClosesHome \/ HomeExits
    PROVE  ShellInv'
<1> USE DEF socket, process, authority, registry
<1>1. ShellShape /\ AuthorityShape
  BY DEF ShellInv, ShellShape
<1>2. Ending
  BY <1>1, NothingEnding
     DEF AskGrant, GiveGrant, RevokeGrant, UserClosesShell, UserClosesHome, HomeExits
<1>3. UNCHANGED <<grant, starter, registry, gate, zsh, socket, process, left>>
      /\ closing' \in {closing, "user"}
  BY DEF AskGrant, GiveGrant, RevokeGrant, UserClosesShell, UserClosesHome, HomeExits
<1>4. leaving' \in [Passes -> Passing]
  BY <1>1 DEF AuthorityShape, Passes, Passing, AskGrant, GiveGrant, RevokeGrant, UserClosesShell,
     UserClosesHome, HomeExits
<1>5. AuthorityShape'
  BY <1>1, <1>4 DEF AuthorityShape, AskGrant, GiveGrant, RevokeGrant, UserClosesShell, UserClosesHome,
     HomeExits, Prepared
<1> QED BY <1>2, <1>3, <1>5, StillCalm, CalmKeeps DEF Calm

\* Home's going: the passes over its runs.
LEMMA LeavingKeeps ==
    ASSUME ShellInv, NEW c \in Passes, LeavingStep(c)
    PROVE  ShellInv'
<1> USE DEF socket, process, authority, registry
<1>1. ShellShape /\ AuthorityShape
  BY DEF ShellInv, ShellShape
<1>2. CASE ListHomeRuns(c) \/ DropGrant(c) \/ FinishLeaving(c)
  <2>1. Ending
    BY <1>1, <1>2, NothingEnding DEF ListHomeRuns, DropGrant, FinishLeaving
  <2>2. UNCHANGED <<grant, starter, registry, gate, zsh, socket, process, left, closing>>
    BY <1>2 DEF ListHomeRuns, DropGrant, FinishLeaving
  <2>3. leaving' \in [Passes -> Passing]
    <3>1. HomeRuns \cap Prepared \in SUBSET RunIds
      BY DEF Prepared
    <3>2. CASE ListHomeRuns(c)
      BY <1>1, <3>1, <3>2 DEF AuthorityShape, Passing, ListHomeRuns
    <3>3. CASE DropGrant(c) \/ FinishLeaving(c)
      BY <1>1, <3>3 DEF AuthorityShape, Passing, DropGrant, FinishLeaving
    <3> QED BY <1>2, <3>2, <3>3
  <2>4. AuthorityShape'
    BY <1>1, <1>2, <2>3 DEF AuthorityShape, ListHomeRuns, DropGrant, FinishLeaving
  <2> QED BY <2>1, <2>2, <2>4, StillCalm, CalmKeeps DEF Calm
<1>3. ASSUME NEW r \in RunIds, EndListed(c, r)
      PROVE  ShellInv'
  <2>1. Ending
    BY <1>1, <1>3, InterruptEnding DEF EndListed
  <2>2. UNCHANGED <<grant, starter, registry, gate, zsh, socket, process, left, closing>>
    BY <1>3 DEF EndListed
  <2>3. AuthorityShape'
    BY <1>1, <1>3 DEF AuthorityShape, Passing, EndListed
  <2> QED BY <2>1, <2>2, <2>3, StillCalm, CalmKeeps DEF Calm
<1>4. ASSUME NEW r \in RunIds, ForgetRun(c, r)
      PROVE  ShellInv'
  <2>1. /\ UNCHANGED <<grant, starter, registry, gate, zsh, socket, process, closing>>
        /\ UNCHANGED <<killing, settling>>
    BY <1>4 DEF ForgetRun
  <2>2. Ending
    BY <1>1, <1>4, <2>1 DEF ForgetRun, Ending, Terminal, Phases, ShellShape, RunsShape
  <2>3. AuthorityShape' /\ left \subseteq left'
    BY <1>1, <1>4 DEF AuthorityShape, Passing, ForgetRun
  <2>4. \A q \in RunIds : q \in left' \ left => Terminal(phase'[q])
    BY <1>1, <1>4 DEF ForgetRun, Terminal, ShellShape, RunsShape
  <2> QED BY <2>1, <2>2, <2>3, <2>4, StillCalm, CalmKeeps DEF Calm
<1> QED BY <1>2, <1>3, <1>4 DEF LeavingStep

-----------------------------------------------------------------------------
(* The steps of a run that do more.                                        *)

LEMMA PrepareKeeps ==
    ASSUME ShellInv, NEW r \in RunIds, Prepare(r)
    PROVE  ShellInv'
<1> USE DEF ShellInv, socket, process, authority, registry
<1>1. /\ phase[r] = "none" /\ starter[r] = "none" /\ ShellShape
      /\ r \notin settling /\ r \notin killing /\ r \notin pidKnown
      /\ active # r /\ r \notin capable /\ helper[r] = "none" /\ gate.run # r
  BY DEF Prepare, PlacedInv, EndedInv, Placed, Terminal
<1>2. /\ UNCHANGED <<pidKnown, killing, settling, starter, registry, gate, zsh,
                     socket, process, authority, closing>>
      /\ phase' \in [RunIds -> Phases] /\ phase'[r] \in {"prepared", "awaitingApproval"}
      /\ grant' \in [RunIds -> BOOLEAN] /\ (grant'[r] => r \in HomeRuns)
      /\ \A q \in RunIds \ {r} : phase'[q] = phase[q] /\ grant'[q] = grant[q]
  BY DEF Prepare, ShellShape, RunsShape, Phases
<1>3. ShellShape'
  BY <1>2 DEF ShellShape, RunsShape, AuthorityShape, HelpersShape, GateShape
<1>4. PlacedInv'
  BY <1>1, <1>2 DEF PlacedInv, Placed
<1>5. HelperInv'
  BY <1>2 DEF HelperInv
<1>6. EndedInv'
  BY <1>1, <1>2 DEF EndedInv, Terminal
<1>7. GateInv'
  BY <1>1, <1>2 DEF GateInv
<1> QED BY <1>3, <1>4, <1>5, <1>6, <1>7

LEMMA DenyKeeps ==
    ASSUME ShellInv, NEW r \in RunIds, Deny(r)
    PROVE  ShellInv'
<1> USE DEF ShellInv, socket, process, authority, registry
<1>1. /\ starter[r] = "none" /\ ShellShape /\ phase[r] \in {"prepared", "awaitingApproval"}
      /\ r \notin killing /\ r \notin pidKnown /\ active # r /\ r \notin capable
  BY DEF Deny, PlacedInv, EndedInv, Placed, Terminal
<1>2. /\ UNCHANGED <<pidKnown, killing, settling, grant, starter, registry, gate, zsh,
                     socket, process, authority, closing>>
      /\ phase' \in [RunIds -> Phases] /\ phase'[r] = "denied"
      /\ \A q \in RunIds \ {r} : phase'[q] = phase[q]
  BY DEF Deny, ShellShape, RunsShape, Phases
<1>3. ShellShape'
  BY <1>2 DEF ShellShape, RunsShape, AuthorityShape, HelpersShape, GateShape
<1>4. PlacedInv'
  BY <1>1, <1>2 DEF PlacedInv, Placed
<1>5. HelperInv'
  BY <1>2 DEF HelperInv
<1>6. EndedInv'
  BY <1>1, <1>2 DEF EndedInv, Terminal
<1>7. GateInv'
  BY <1>1, <1>2 DEF GateInv
<1> QED BY <1>3, <1>4, <1>5, <1>6, <1>7

\* A placed run whose helper goes from one state to another.
LEMMA HelperGoesOn ==
    ASSUME ShellShape, PlacedInv, NEW r \in RunIds, helper[r] # "none", helper'[r] # "none",
           \A q \in RunIds \ {r} : helper'[q] = helper[q],
           UNCHANGED <<phase, grant, starter, active, capable, gate, down>>
    PROVE  PlacedInv'
<1>1. ASSUME NEW i \in DOMAIN down
      PROVE  down[i].run \in RunIds
  <2>1. down \in Seq(Messages)
    BY DEF ShellShape, GateShape
  <2>2. down[i] \in Messages
    BY <2>1
  <2> QED BY <2>2 DEF Messages
<1>2. \A i \in DOMAIN down : down[i].run # r
  BY DEF PlacedInv
<1> QED BY <1>1, <1>2 DEF PlacedInv, Placed

\* What the shell has been told names runs.
LEMMA ToldRuns ==
    ASSUME ShellShape
    PROVE  \A i \in DOMAIN down : down[i].run \in RunIds
<1>1. down \in Seq(Messages)
  BY DEF ShellShape, GateShape
<1>2. \A i \in DOMAIN down : down[i] \in Messages
  BY <1>1
<1> QED BY <1>2 DEF Messages

\* A run that is not with the shell yet, and whose starter goes on.
LEMMA StarterOnly ==
    ASSUME ShellShape, PlacedInv, NEW r \in RunIds, gate.run # r, helper[r] = "none",
           starter[r] \in {"none", "dispatching"}, starter'[r] \in {"choosing", "reserving"},
           phase'[r] \notin {"none", "prepared", "awaitingApproval"},
           \A q \in RunIds \ {r} : phase'[q] = phase[q] /\ starter'[q] = starter[q],
           \A q \in RunIds \ {r} : (active' = q => active = q) /\ (q \in capable' => q \in capable),
           active' = r \/ r \in capable' => starter'[r] = "reserving",
           UNCHANGED <<grant, helper, gate, down>>
    PROVE  PlacedInv'
<1>1. \A i \in DOMAIN down : down[i].run \in RunIds \ {r}
  <2>1. down \in Seq(Messages)
    BY DEF ShellShape, GateShape
  <2>2. \A i \in DOMAIN down : down[i] \in Messages
    BY <2>1
  <2> QED BY <2>2 DEF Messages, PlacedInv
<1>2. \A q \in RunIds : phase'[q] \in {"none", "prepared", "awaitingApproval"} => starter'[q] = "none"
  BY DEF PlacedInv
<1>3. \A q \in RunIds : /\ active' = q \/ q \in capable' => Placed(q)'
                        /\ gate'.run = q \/ helper'[q] # "none" => starter'[q] = "done"
                        /\ grant'[q] => q \in HomeRuns
  BY DEF PlacedInv, Placed
<1> QED BY <1>1, <1>2, <1>3 DEF PlacedInv

LEMMA TerminateKeeps ==
    ASSUME ShellInv, NEW r \in RunIds, Terminate(r)
    PROVE  ShellInv'
<1> USE DEF ShellInv, socket, process, authority, registry, runEnds
<1>1. /\ ShellShape /\ Terminal(phase[r]) /\ helper[r] # "none" /\ starter[r] = "done"
  BY DEF Terminate, PlacedInv, EndedInv
<1>2. /\ helper' \in [RunIds -> {"none", "asking", "validated", "launching", "started", "running",
                                  "marked", "gone"}]
      /\ child' \in [RunIds -> {"none", "alive", "dead"}]
      /\ helper'[r] = "gone" /\ child'[r] = "dead" /\ killing' = killing \ {r}
      /\ \A q \in RunIds \ {r} : helper'[q] = helper[q] /\ child'[q] = child[q]
      /\ UNCHANGED <<phase, pidKnown, settling, grant, starter, registry, gate, zsh, socket,
                     frame, reported, authority, closing>>
  BY <1>1 DEF Terminate, ShellShape, HelpersShape
<1>3. ShellShape'
  BY <1>1, <1>2 DEF ShellShape, RunsShape, AuthorityShape, HelpersShape, GateShape
<1>4. PlacedInv'
  BY <1>1, <1>2, HelperGoesOn
<1>5. HelperInv'
  BY <1>1, <1>2 DEF HelperInv
<1>6. EndedInv'
  BY <1>1, <1>2 DEF EndedInv, Terminal
<1>7. GateInv'
  BY <1>1, <1>2 DEF GateInv
<1> QED BY <1>3, <1>4, <1>5, <1>6, <1>7

LEMMA SettleKeeps ==
    ASSUME ShellInv, NEW r \in RunIds, Settle(r)
    PROVE  ShellInv'
<1> USE DEF ShellInv, socket, process, authority, registry, runEnds
<1>1. /\ ShellShape /\ Terminal(phase[r]) /\ gate \in GateRecords
  BY DEF Settle, EndedInv, ShellShape, GateShape
<1>2. /\ gate' \in GateRecords /\ gate'.run \in {gate.run, NoRun}
      /\ gate.run # r => gate'.run = gate.run
      /\ gate'.at = gate.at /\ gate'.generation = gate.generation /\ gate'.owner = gate.owner
      /\ gate'.adopted = gate.adopted /\ gate'.closed = gate.closed
      /\ settling' = settling \ {r} /\ capable' = capable \ {r}
      /\ active' = (IF active = r THEN NoRun ELSE active)
      /\ UNCHANGED <<phase, pidKnown, killing, grant, starter, zsh, socket, process, authority,
                     closing>>
  BY <1>1 DEF Settle, GateRecords
<1>3. ShellShape'
  BY <1>1, <1>2 DEF ShellShape, RunsShape, AuthorityShape, HelpersShape, GateShape
<1>8. \A q \in RunIds : gate'.run = q => gate.run = q
  BY <1>2, ShellRunsAssumption
<1>9. \A q \in RunIds : (active' = q => active = q /\ q # r) /\ (q \in capable' => q \in capable /\ q # r)
  BY <1>2, ShellRunsAssumption
<1>4. PlacedInv'
  BY <1>8, <1>9, <1>2 DEF PlacedInv, Placed
<1>5. HelperInv'
  BY <1>1, <1>2 DEF HelperInv
<1>6. EndedInv'
  BY <1>1, <1>2, <1>9 DEF EndedInv, Terminal
<1>7. GateInv'
  BY <1>1, <1>2, <1>8 DEF GateInv, Terminal
<1> QED BY <1>3, <1>4, <1>5, <1>6, <1>7

LEMMA LaunchKeeps ==
    ASSUME ShellInv, NEW r \in RunIds, Launch(r)
    PROVE  ShellInv'
<1> USE DEF ShellInv, socket, process, authority, registry, runEnds
<1>1. /\ ShellShape /\ helper[r] = "launching" /\ child[r] = "none" /\ starter[r] = "done"
      /\ reported[r] = "none"
  BY DEF Launch, PlacedInv, HelperInv, ShellShape, HelpersShape
<1>2. /\ helper' \in [RunIds -> {"none", "asking", "validated", "launching", "started", "running",
                                  "marked", "gone"}]
      /\ child' \in [RunIds -> {"none", "alive", "dead"}]
      /\ \/ helper'[r] = "started" /\ child'[r] = "alive"
         \/ helper'[r] = "gone" /\ child'[r] = "none"
      /\ \A q \in RunIds \ {r} : helper'[q] = helper[q] /\ child'[q] = child[q]
      /\ UNCHANGED <<runEnds, grant, starter, registry, gate, zsh, socket, frame, reported,
                     authority, closing>>
  BY <1>1 DEF Launch, ShellShape, HelpersShape
<1>3. ShellShape'
  BY <1>1, <1>2 DEF ShellShape, RunsShape, AuthorityShape, HelpersShape, GateShape
<1>4. PlacedInv'
  BY <1>1, <1>2, HelperGoesOn
<1>5. HelperInv'
  BY <1>1, <1>2 DEF HelperInv
<1>6. EndedInv'
  BY <1>1, <1>2 DEF EndedInv, Terminal
<1>7. GateInv'
  BY <1>1, <1>2 DEF GateInv
<1> QED BY <1>3, <1>4, <1>5, <1>6, <1>7

LEMMA ReportStartKeeps ==
    ASSUME ShellInv, NEW r \in RunIds, ReportStart(r)
    PROVE  ShellInv'
<1> USE DEF ShellInv, socket, process, authority, registry, runEnds
<1>1. /\ ShellShape /\ helper[r] = "started" /\ starter[r] = "done" /\ reported[r] = "none"
  BY DEF ReportStart, PlacedInv, HelperInv, ShellShape, HelpersShape
<1>2. /\ helper' \in [RunIds -> {"none", "asking", "validated", "launching", "started", "running",
                                  "marked", "gone"}]
      /\ child' \in [RunIds -> {"none", "alive", "dead"}]
      /\ \/ /\ helper'[r] = "running" /\ child'[r] = child[r]
            /\ phase[r] = "running" /\ pidKnown' = pidKnown \cup {r} /\ settling' = settling
         \/ /\ helper'[r] = "running" /\ child'[r] = child[r]
            /\ r \in left /\ pidKnown' = pidKnown /\ settling' = settling \cup {r}
         \/ /\ helper'[r] = "gone" /\ child'[r] = "dead"
            /\ UNCHANGED <<pidKnown, settling>>
      /\ looking' \in {looking, looking \cup ({r} \cap HomeRuns)}
      /\ \A q \in RunIds \ {r} : helper'[q] = helper[q] /\ child'[q] = child[q]
      /\ UNCHANGED <<phase, killing, grant, starter, registry, gate, zsh, socket, frame,
                     reported, granted, home, revoking, leaving, left, closing>>
  BY <1>1 DEF ReportStart, ShellShape, HelpersShape
<1>3. ShellShape'
  BY <1>1, <1>2 DEF ShellShape, RunsShape, AuthorityShape, HelpersShape, GateShape
<1>4. PlacedInv'
  BY <1>1, <1>2, HelperGoesOn
<1>5. HelperInv'
  BY <1>1, <1>2 DEF HelperInv
<1>6. EndedInv'
  BY <1>1, <1>2 DEF EndedInv, Terminal
<1>7. GateInv'
  BY <1>1, <1>2 DEF GateInv
<1> QED BY <1>3, <1>4, <1>5, <1>6, <1>7

LEMMA ChildEndsKeeps ==
    ASSUME ShellInv, NEW r \in RunIds, ChildEnds(r)
    PROVE  ShellInv'
<1> USE DEF ShellInv, socket, process, authority, registry, runEnds
<1>1. /\ ShellShape /\ child[r] = "alive" /\ helper[r] \in {"started", "running"}
  BY DEF ChildEnds, HelperInv
<1>2. /\ child' \in [RunIds -> {"none", "alive", "dead"}] /\ child'[r] = "dead"
      /\ \A q \in RunIds \ {r} : child'[q] = child[q]
      /\ UNCHANGED <<runEnds, grant, starter, registry, gate, zsh, socket, helper, frame, reported,
                     authority, closing>>
  BY <1>1 DEF ChildEnds, ShellShape, HelpersShape
<1>3. ShellShape'
  BY <1>1, <1>2 DEF ShellShape, RunsShape, AuthorityShape, HelpersShape, GateShape
<1>4. PlacedInv'
  BY <1>1, <1>2 DEF PlacedInv, Placed
<1>5. HelperInv'
  BY <1>1, <1>2 DEF HelperInv
<1>6. EndedInv'
  BY <1>1, <1>2 DEF EndedInv, Terminal
<1>7. GateInv'
  BY <1>1, <1>2 DEF GateInv
<1> QED BY <1>3, <1>4, <1>5, <1>6, <1>7

LEMMA HelperCancelledKeeps ==
    ASSUME ShellInv, NEW r \in RunIds, HelperCancelled(r)
    PROVE  ShellInv'
<1> USE DEF ShellInv, socket, process, authority, registry, runEnds
<1>1. /\ ShellShape /\ child[r] = "alive" /\ helper[r] \in {"started", "running"}
  BY DEF HelperCancelled, HelperInv
<1>2. /\ child' \in [RunIds -> {"none", "alive", "dead"}] /\ child'[r] = "dead"
      /\ \A q \in RunIds \ {r} : child'[q] = child[q]
      /\ UNCHANGED <<runEnds, grant, starter, registry, gate, zsh, socket, helper, frame, reported,
                     authority, closing>>
  BY <1>1 DEF HelperCancelled, ShellShape, HelpersShape
<1>3. ShellShape'
  BY <1>1, <1>2 DEF ShellShape, RunsShape, AuthorityShape, HelpersShape, GateShape
<1>4. PlacedInv'
  BY <1>1, <1>2 DEF PlacedInv, Placed
<1>5. HelperInv'
  BY <1>1, <1>2 DEF HelperInv
<1>6. EndedInv'
  BY <1>1, <1>2 DEF EndedInv, Terminal
<1>7. GateInv'
  BY <1>1, <1>2 DEF GateInv
<1> QED BY <1>3, <1>4, <1>5, <1>6, <1>7

LEMMA MarkEndKeeps ==
    ASSUME ShellInv, NEW r \in RunIds, MarkEnd(r)
    PROVE  ShellInv'
<1> USE DEF ShellInv, socket, process, authority, registry, runEnds
<1>1. /\ ShellShape /\ helper[r] = "running" /\ child[r] = "dead" /\ starter[r] = "done"
  BY DEF MarkEnd, PlacedInv
<1>2. /\ helper' \in [RunIds -> {"none", "asking", "validated", "launching", "started", "running",
                                  "marked", "gone"}]
      /\ frame' \in [RunIds -> {"none", "sent", "got"}]
      /\ helper'[r] = "marked" /\ reported[r] = "none"
      /\ \A q \in RunIds \ {r} : helper'[q] = helper[q] /\ frame'[q] = frame[q]
      /\ UNCHANGED <<runEnds, grant, starter, registry, gate, zsh, socket, child, reported,
                     authority, closing>>
  BY <1>1 DEF MarkEnd, ShellShape, HelpersShape, HelperInv
<1>3. ShellShape'
  BY <1>1, <1>2 DEF ShellShape, RunsShape, AuthorityShape, HelpersShape, GateShape
<1>4. PlacedInv'
  BY <1>1, <1>2, HelperGoesOn
<1>5. HelperInv'
  BY <1>1, <1>2 DEF HelperInv
<1>6. EndedInv'
  BY <1>1, <1>2 DEF EndedInv, Terminal
<1>7. GateInv'
  BY <1>1, <1>2 DEF GateInv
<1> QED BY <1>3, <1>4, <1>5, <1>6, <1>7

LEMMA ReportFinishKeeps ==
    ASSUME ShellInv, NEW r \in RunIds, ReportFinish(r)
    PROVE  ShellInv'
<1> USE DEF ShellInv, socket, process, authority, registry, runEnds
<1>1. /\ ShellShape /\ helper[r] = "marked" /\ child[r] = "dead" /\ starter[r] = "done"
  BY DEF ReportFinish, PlacedInv, HelperInv
<1>2. /\ helper' \in [RunIds -> {"none", "asking", "validated", "launching", "started", "running",
                                  "marked", "gone"}]
      /\ reported' \in [RunIds -> {"none", "got"}] /\ pidKnown' \subseteq pidKnown
      /\ helper'[r] = "gone" /\ r \notin pidKnown'
      /\ \A q \in RunIds \ {r} : helper'[q] = helper[q] /\ reported'[q] = reported[q]
      /\ phase[r] = "completed" => reported'[r] = reported[r]
      /\ UNCHANGED <<phase, killing, settling, grant, starter, registry, gate, zsh, socket, child,
                     frame, authority, closing>>
  BY <1>1 DEF ReportFinish, ShellShape, HelpersShape, EndedInv, Terminal
<1>3. ShellShape'
  BY <1>1, <1>2 DEF ShellShape, RunsShape, AuthorityShape, HelpersShape, GateShape
<1>4. PlacedInv'
  BY <1>1, <1>2, HelperGoesOn
<1>5. HelperInv'
  BY <1>1, <1>2 DEF HelperInv
<1>6. EndedInv'
  BY <1>1, <1>2 DEF EndedInv, Terminal
<1>7. GateInv'
  BY <1>1, <1>2 DEF GateInv
<1> QED BY <1>3, <1>4, <1>5, <1>6, <1>7

LEMMA CaptureKeeps ==
    ASSUME ShellInv, NEW r \in RunIds, Capture(r)
    PROVE  ShellInv'
<1> USE DEF ShellInv, socket, process, authority, registry, runEnds
<1>1. /\ ShellShape /\ r \in RunIds
  BY DEF ShellShape
<1>2. /\ phase' \in [RunIds -> Phases] /\ settling' \subseteq RunIds
      /\ frame' \in [RunIds -> {"none", "sent", "got"}] /\ frame'[r] = "got"
      /\ \/ UNCHANGED <<phase, settling>>
         \/ /\ phase[r] = "running" /\ reported[r] = "got"
            /\ phase'[r] = "completed" /\ settling' = settling \cup {r}
      /\ \A q \in RunIds \ {r} : phase'[q] = phase[q] /\ frame'[q] = frame[q]
      /\ UNCHANGED <<pidKnown, killing, grant, starter, registry, gate, zsh, socket, helper, child,
                     reported, authority, closing>>
  BY <1>1 DEF Capture, ShellShape, RunsShape, HelpersShape, Phases
<1>3. ShellShape'
  BY <1>1, <1>2 DEF ShellShape, RunsShape, AuthorityShape, HelpersShape, GateShape
<1>4. PlacedInv'
  BY <1>1, <1>2 DEF PlacedInv, Placed
<1>5. HelperInv'
  BY <1>1, <1>2 DEF HelperInv
<1>6. EndedInv'
  <2>1. reported[r] = "got" => child[r] = "dead" /\ r \notin pidKnown
    BY DEF HelperInv, EndedInv
  <2>2. phase[r] = "running" => r \notin settling /\ r \notin killing
    BY DEF EndedInv, Terminal
  <2> QED BY <1>1, <1>2, <2>1, <2>2 DEF EndedInv, Terminal
<1>7. GateInv'
  BY <1>1, <1>2 DEF GateInv
<1> QED BY <1>3, <1>4, <1>5, <1>6, <1>7

LEMMA ConcludeKeeps ==
    ASSUME ShellInv, NEW r \in RunIds, Conclude(r)
    PROVE  ShellInv'
<1> USE DEF ShellInv, socket, process, authority, registry, runEnds
<1>1. /\ ShellShape /\ phase[r] = "running" /\ reported[r] = "got"
  BY DEF Conclude
<1>2. /\ phase' \in [RunIds -> Phases] /\ settling' \subseteq RunIds
      /\ phase'[r] = (IF frame[r] = "got" THEN "completed" ELSE "interrupted")
      /\ settling' = settling \cup {r}
      /\ \A q \in RunIds \ {r} : phase'[q] = phase[q]
      /\ UNCHANGED <<pidKnown, killing, grant, starter, registry, gate, zsh, socket, process,
                     authority, closing>>
  BY <1>1 DEF Conclude, ShellShape, RunsShape, Phases
<1>3. ShellShape'
  BY <1>1, <1>2 DEF ShellShape, RunsShape, AuthorityShape, HelpersShape, GateShape
<1>4. PlacedInv'
  BY <1>1, <1>2 DEF PlacedInv, Placed
<1>5. HelperInv'
  BY <1>1, <1>2 DEF HelperInv
<1>6. EndedInv'
  <2>1. reported[r] = "got" => child[r] = "dead" /\ r \notin pidKnown
    BY DEF HelperInv, EndedInv
  <2>2. phase[r] = "running" => r \notin settling /\ r \notin killing
    BY DEF EndedInv, Terminal
  <2> QED BY <1>1, <1>2, <2>1, <2>2 DEF EndedInv, Terminal
<1>7. GateInv'
  BY <1>1, <1>2 DEF GateInv
<1> QED BY <1>3, <1>4, <1>5, <1>6, <1>7

LEMMA ApproveKeeps ==
    ASSUME ShellInv, NEW r \in RunIds, Approve(r)
    PROVE  ShellInv'
<1> USE DEF socket, process, authority, registry
<1>1. ShellShape
  BY DEF ShellInv
<1>2. CASE ~ValidRun(r)
  <2>1. Ending
    BY <1>1, <1>2, InterruptEnding DEF Approve
  <2>2. UNCHANGED <<grant, starter, registry, gate, zsh, socket, process, authority, closing>>
    BY <1>2 DEF Approve
  <2> QED BY <2>1, <2>2, StillCalm, CalmKeeps DEF Calm
<1>3. CASE ValidRun(r)
  <2> USE DEF ShellInv
  <2>1. /\ phase[r] \in {"prepared", "awaitingApproval"} /\ starter[r] = "none"
        /\ r \notin settling /\ r \notin killing /\ r \notin pidKnown
        /\ active # r /\ r \notin capable /\ helper[r] = "none" /\ gate.run # r
    BY DEF Approve, PlacedInv, EndedInv, Placed, Terminal
  <2>2. /\ phase' \in [RunIds -> Phases] /\ phase'[r] = "awaitingPane"
        /\ starter' \in [RunIds -> {"none", "choosing", "placing", "opening", "dispatching",
                                    "reserving", "done", "failed"}]
        /\ starter'[r] = "choosing"
        /\ \A q \in RunIds \ {r} : phase'[q] = phase[q] /\ starter'[q] = starter[q]
        /\ UNCHANGED <<pidKnown, killing, settling, grant, registry, gate, zsh, socket, process,
                       authority, closing>>
    BY <1>1, <1>3 DEF Approve, ShellShape, RunsShape, Phases
  <2>3. ShellShape'
    BY <1>1, <2>2 DEF ShellShape, RunsShape, AuthorityShape, HelpersShape, GateShape
  <2>4. PlacedInv'
    BY <2>1, <2>2, <1>1, StarterOnly
  <2>5. HelperInv'
    BY <2>2 DEF HelperInv
  <2>6. EndedInv'
    BY <2>1, <2>2 DEF EndedInv, Terminal
  <2>7. GateInv'
    BY <2>1, <2>2 DEF GateInv
  <2> QED BY <2>3, <2>4, <2>5, <2>6, <2>7
<1> QED BY <1>2, <1>3

LEMMA DispatchKeeps ==
    ASSUME ShellInv, NEW r \in RunIds, Dispatch(r)
    PROVE  ShellInv'
<1> USE DEF socket, process, authority, registry
<1> DEFINE taken == ValidRun(r) /\ gate.registered /\ phase[r] = "awaitingPane" /\ active = NoRun
<1>1. ShellShape
  BY DEF ShellInv
<1>2. CASE ~taken
  <2>1. Ending
    BY <1>1, <1>2, InterruptEnding DEF Dispatch
  <2>2. UNCHANGED <<grant, registry, gate, zsh, socket, process, authority>>
        /\ closing' \in {closing, "user"}
    BY <1>2 DEF Dispatch, AbandonShell
  <2>4. StarterCalm
    BY <1>2, StarterMoves DEF Dispatch
  <2> QED BY <2>1, <2>2, <2>4, StillCalm, CalmKeeps DEF Calm
<1>3. CASE taken
  <2> USE DEF ShellInv
  <2>1. /\ phase[r] = "awaitingPane" /\ starter[r] = "dispatching" /\ active = NoRun
        /\ r \notin settling /\ r \notin killing /\ r \notin pidKnown
        /\ r \notin capable /\ helper[r] = "none" /\ gate.run # r
    BY <1>3 DEF Dispatch, PlacedInv, EndedInv, Placed, Terminal
  <2>2. /\ phase' \in [RunIds -> Phases] /\ phase'[r] = "reserved"
        /\ starter' \in [RunIds -> {"none", "choosing", "placing", "opening", "dispatching",
                                    "reserving", "done", "failed"}]
        /\ starter'[r] = "reserving" /\ active' = r /\ capable' = capable \cup {r}
        /\ \A q \in RunIds \ {r} : phase'[q] = phase[q] /\ starter'[q] = starter[q]
        /\ UNCHANGED <<pidKnown, killing, settling, grant, gate, zsh, socket, process,
                       authority, closing>>
    BY <1>1, <1>3 DEF Dispatch, ShellShape, RunsShape, Phases
  <2>3. ShellShape'
    BY <1>1, <2>2 DEF ShellShape, RunsShape, AuthorityShape, HelpersShape, GateShape
  <2>4. PlacedInv'
    BY <2>1, <2>2, <1>1, StarterOnly
  <2>5. HelperInv'
    BY <2>2 DEF HelperInv
  <2>6. EndedInv'
    BY <2>1, <2>2 DEF EndedInv, Terminal
  <2>7. GateInv'
    BY <2>1, <2>2 DEF GateInv
  <2> QED BY <2>3, <2>4, <2>5, <2>6, <2>7
<1> QED BY <1>2, <1>3

LEMMA ReservePromptKeeps ==
    ASSUME ShellInv, NEW r \in RunIds, ReservePrompt(r)
    PROVE  ShellInv'
<1> USE DEF socket, process, authority, registry
<1>1. ShellShape
  BY DEF ShellInv
<1>2. CASE Availability # "ready"
  <2>1. Ending
    BY <1>1, <1>2, InterruptEnding DEF ReservePrompt
  <2>2. UNCHANGED <<grant, registry, gate, zsh, socket, process, authority>>
        /\ closing' \in {closing, "user"}
    BY <1>2 DEF ReservePrompt, AbandonShell
  <2>4. StarterCalm
    BY <1>2, StarterMoves DEF ReservePrompt
  <2> QED BY <2>1, <2>2, <2>4, StillCalm, CalmKeeps DEF Calm
<1>3. CASE Availability = "ready"
  <2> USE DEF ShellInv
  <2>1. starter[r] = "reserving" /\ helper[r] = "none" /\ gate.run = NoRun /\ ~gate.closed
    BY <1>3 DEF ReservePrompt, PlacedInv, Availability
  <2>2. /\ gate \in GateRecords /\ down \in Seq(Messages)
        /\ [run |-> r, epoch |-> gate.prompt] \in Messages
    BY <1>1 DEF ShellShape, GateShape, GateRecords, Messages
  <2>3. /\ gate' \in GateRecords /\ gate'.run = r /\ gate'.at = gate.generation
        /\ gate'.generation = gate.generation /\ gate'.owner = gate.owner
        /\ gate'.adopted = gate.adopted /\ gate'.closed = gate.closed
    <3>1. gate' = [gate EXCEPT !.run = r, !.epoch = gate.prompt, !.at = gate.generation,
                               !.consumed = FALSE]
      BY <1>3 DEF ReservePrompt
    <3> QED BY <2>2, <3>1 DEF GateRecords
  <2>4. /\ starter' \in [RunIds -> {"none", "choosing", "placing", "opening", "dispatching",
                                    "reserving", "done", "failed"}]
        /\ starter'[r] = "done"
        /\ \A q \in RunIds \ {r} : starter'[q] = starter[q]
        /\ down' = Append(down, [run |-> r, epoch |-> gate.prompt])
        /\ UNCHANGED <<runEnds, grant, registry, zsh, up, serving, process, authority, closing>>
    BY <1>1, <1>3 DEF ReservePrompt, ShellShape, RunsShape
  <2>5. down' \in Seq(Messages)
    BY <2>2, <2>4
  <2>6. ShellShape'
    BY <1>1, <2>3, <2>4, <2>5 DEF ShellShape, RunsShape, AuthorityShape, HelpersShape, GateShape, runEnds
  <2>7. \A i \in DOMAIN down' :
           \/ i \in DOMAIN down /\ down'[i] = down[i]
           \/ i = Len(down) + 1 /\ down'[i].run = r
    BY <2>2, <2>4
  <2>8. \A i \in DOMAIN down : down[i].run \in RunIds
    <3>1. \A i \in DOMAIN down : down[i] \in Messages
      BY <2>2
    <3> QED BY <3>1 DEF Messages
  <2>9. \A i \in DOMAIN down : down[i].run # r
    BY <2>1 DEF PlacedInv
  <2>10. PlacedInv'
    <3>1. \A q \in RunIds : phase'[q] \in {"none", "prepared", "awaitingApproval"} => starter'[q] = "none"
      BY <2>1, <2>4 DEF PlacedInv, runEnds
    <3>2. \A q \in RunIds : /\ active' = q \/ q \in capable' => Placed(q)'
                            /\ gate'.run = q \/ helper'[q] # "none" => starter'[q] = "done"
                            /\ grant'[q] => q \in HomeRuns
      BY <2>1, <2>3, <2>4 DEF PlacedInv, Placed
    <3>3. \A i \in DOMAIN down' : starter'[down'[i].run] = "done" /\ helper'[down'[i].run] = "none"
      BY <2>1, <2>4, <2>7, <2>8, <2>9 DEF PlacedInv
    <3>4. \A i, j \in DOMAIN down' : down'[i].run = down'[j].run => i = j
      BY <2>7, <2>9 DEF PlacedInv
    <3> QED BY <3>1, <3>2, <3>3, <3>4 DEF PlacedInv
  <2>11. HelperInv'
    BY <2>4 DEF HelperInv
  <2>12. EndedInv'
    BY <2>4 DEF EndedInv, Terminal, runEnds
  <2>13. GateInv'
    BY <2>1, <2>3, <2>4, ShellRunsAssumption, <2>2 DEF GateInv, runEnds, GateRecords
  <2> QED BY <2>6, <2>10, <2>11, <2>12, <2>13
<1> QED BY <1>2, <1>3

LEMMA HelperAsksKeeps ==
    ASSUME ShellInv, NEW r \in RunIds, HelperAsks(r)
    PROVE  ShellInv'
<1> USE DEF socket, process, authority, registry
<1>1. ShellShape
  BY DEF ShellInv
<1>2. CASE ~(r \in capable /\ ValidRun(r))
  <2>1. Ending
    BY <1>1, <1>2, InterruptEnding, NothingEnding DEF HelperAsks
  <2>2. UNCHANGED <<grant, starter, registry, gate, zsh, socket, child, frame, reported, authority,
                    closing>>
    BY <1>2 DEF HelperAsks
  <2>4. HelperCalm
    BY <1>2, HelperSentAway DEF HelperAsks
  <2> QED BY <2>1, <2>2, <2>4, StillCalm, CalmKeeps DEF Calm
<1>3. CASE r \in capable /\ ValidRun(r)
  <2> USE DEF ShellInv
  <2>1. /\ helper[r] = "asking" /\ starter[r] = "done" /\ child[r] = "none" /\ reported[r] = "none"
    BY <1>1 DEF HelperAsks, PlacedInv, HelperInv, ShellShape, HelpersShape
  <2>2. grant[r] => gate.owner = "home" /\ ~gate.adopted
    BY <1>3, <2>1 DEF ValidRun, OwnedUntouched, Placed, PlacedInv
  <2>3. /\ helper' \in [RunIds -> {"none", "asking", "validated", "launching", "started", "running",
                                   "marked", "gone"}]
        /\ helper'[r] = "validated"
        /\ \A q \in RunIds \ {r} : helper'[q] = helper[q]
        /\ UNCHANGED <<runEnds, grant, starter, registry, gate, zsh, socket, child, frame, reported,
                       authority, closing>>
    BY <1>1, <1>3 DEF HelperAsks, ShellShape, HelpersShape
  <2>4. ShellShape'
    BY <1>1, <2>3 DEF ShellShape, RunsShape, AuthorityShape, HelpersShape, GateShape, runEnds
  <2>5. PlacedInv'
    BY <1>1, <2>1, <2>3, HelperGoesOn DEF runEnds
  <2>6. HelperInv'
    BY <2>1, <2>3 DEF HelperInv
  <2>7. EndedInv'
    BY <2>1, <2>3 DEF EndedInv, Terminal, runEnds
  <2>8. GateInv'
    BY <2>1, <2>2, <2>3 DEF GateInv, runEnds
  <2> QED BY <2>4, <2>5, <2>6, <2>7, <2>8
<1> QED BY <1>2, <1>3

LEMMA ConsumeKeeps ==
    ASSUME ShellInv, NEW r \in RunIds, Consume(r)
    PROVE  ShellInv'
<1> USE DEF socket, process, authority, registry
<1> DEFINE taken == Reserved(r) /\ phase[r] = "reserved" /\ (grant[r] => granted)
<1>1. ShellShape
  BY DEF ShellInv
<1>2. CASE ~taken
  <2>1. Ending
    BY <1>1, <1>2, InterruptEnding, NothingEnding DEF Consume
  <2>2. UNCHANGED <<grant, starter, registry, gate, zsh, socket, child, frame, reported, authority,
                    closing>>
    BY <1>2 DEF Consume
  <2>4. HelperCalm
    BY <1>2, HelperSentAway DEF Consume
  <2> QED BY <2>1, <2>2, <2>4, StillCalm, CalmKeeps DEF Calm
<1>3. CASE taken
  <2> USE DEF ShellInv
  <2>11. /\ helper[r] = "validated" /\ phase[r] = "reserved" /\ gate.run = r /\ ~gate.closed
         /\ gate.at = gate.generation
    BY <1>3 DEF Consume, Reserved
  <2>1. /\ helper[r] = "validated" /\ starter[r] = "done" /\ child[r] = "none"
        /\ reported[r] = "none" /\ phase[r] = "reserved"
        /\ gate.run = r /\ ~gate.closed /\ gate.at = gate.generation
        /\ r \notin settling /\ r \notin killing /\ r \notin pidKnown
    BY <1>1, <2>11 DEF PlacedInv, HelperInv, EndedInv, Terminal, ShellShape, HelpersShape
  <2>2. ~zsh.keys
    BY <2>1 DEF GateInv
  <2>3. gate \in GateRecords
    BY <1>1 DEF ShellShape, GateShape
  <2>4. /\ gate' \in GateRecords /\ gate'.run = gate.run /\ gate'.at = gate.at
        /\ gate'.generation = gate.generation /\ gate'.owner = gate.owner
        /\ gate'.adopted = gate.adopted /\ gate'.closed = gate.closed
    <3>1. gate' = [gate EXCEPT !.consumed = TRUE, !.prompt = 0]
      BY <1>3 DEF Consume
    <3> QED BY <2>3, <3>1 DEF GateRecords
  <2>5. /\ helper' \in [RunIds -> {"none", "asking", "validated", "launching", "started", "running",
                                   "marked", "gone"}]
        /\ phase' \in [RunIds -> Phases]
        /\ helper'[r] = "launching" /\ phase'[r] = "running" /\ capable' = capable \ {r}
        /\ \A q \in RunIds \ {r} : helper'[q] = helper[q] /\ phase'[q] = phase[q]
        /\ UNCHANGED <<pidKnown, killing, settling, grant, starter, active, zsh, socket, child,
                       frame, reported, authority, closing>>
    BY <1>1, <1>3, ZenonT(60) DEF Consume, ShellShape, HelpersShape, RunsShape, Phases
  <2>6. ShellShape'
    BY <1>1, <2>4, <2>5 DEF ShellShape, RunsShape, AuthorityShape, HelpersShape, GateShape
  <2>7. PlacedInv'
    <3>1. \A i \in DOMAIN down : down[i].run \in RunIds \ {r}
      BY <1>1, <2>1, ToldRuns DEF PlacedInv
    <3>2. \A q \in RunIds :
             /\ phase'[q] \in {"none", "prepared", "awaitingApproval"} => starter'[q] = "none"
             /\ active' = q \/ q \in capable' => Placed(q)'
             /\ gate'.run = q \/ helper'[q] # "none" => starter'[q] = "done"
             /\ grant'[q] => q \in HomeRuns
      BY <2>1, <2>4, <2>5 DEF PlacedInv, Placed
    <3> QED BY <3>1, <3>2, <2>5 DEF PlacedInv
  <2>8. HelperInv'
    BY <2>1, <2>5 DEF HelperInv
  <2>9. EndedInv'
    BY <2>1, <2>5 DEF EndedInv, Terminal
  <2>10. GateInv'
    BY <2>1, <2>2, <2>4, <2>5 DEF GateInv
  <2> QED BY <2>6, <2>7, <2>8, <2>9, <2>10
<1> QED BY <1>2, <1>3

LEMMA TypeKeeps ==
    ASSUME ShellInv, Type
    PROVE  ShellInv'
<1> USE DEF ShellInv, socket, process, authority, registry, runEnds
<1>1. ShellShape /\ gate \in GateRecords /\ zsh \in ZshRecords
  BY DEF ShellShape, GateShape
<1>2. /\ gate' \in GateRecords /\ gate'.run = gate.run /\ gate'.at = gate.at
      /\ gate'.generation = gate.generation + 1 /\ gate'.owner = gate.owner
      /\ gate'.closed = gate.closed
  <2>1. gate.generation + 1 \in Nat
    BY <1>1 DEF GateRecords
  <2>2. gate' = [gate EXCEPT !.generation = gate.generation + 1, !.adopted = TRUE, !.prompt = 0]
    BY DEF Type
  <2> QED BY <1>1, <2>1, <2>2 DEF GateRecords
<1>3. /\ zsh' \in ZshRecords /\ zsh'.mode = zsh.mode
      /\ HandedOver => zsh'.keys = zsh.keys
  BY <1>1 DEF Type, ZshRecords
<1>4. UNCHANGED <<runEnds, grant, starter, registry, socket, process, authority, closing>>
  BY DEF Type
<1>5. ShellShape'
  BY <1>1, <1>2, <1>3, <1>4 DEF ShellShape, RunsShape, AuthorityShape, HelpersShape, GateShape
<1>6. PlacedInv'
  BY <1>2, <1>4 DEF PlacedInv, Placed
<1>7. HelperInv'
  BY <1>3, <1>4 DEF HelperInv
<1>8. EndedInv'
  BY <1>4 DEF EndedInv, Terminal
<1>9. GateInv'
  <2>1. gate.at \in Nat /\ gate.generation \in Nat /\ gate'.at < gate'.generation
    BY <1>1, <1>2 DEF GateInv, GateRecords
  <2>2. \A q \in RunIds : helper[q] \in {"launching", "started", "running", "marked"} => ~zsh'.keys
    BY <1>3 DEF GateInv, HandedOver
  <2> QED BY <1>2, <1>4, <2>1, <2>2 DEF GateInv
<1> QED BY <1>5, <1>6, <1>7, <1>8, <1>9

LEMMA WidgetKeeps ==
    ASSUME ShellInv, Widget
    PROVE  ShellInv'
<1> USE DEF ShellInv, process, authority, registry, runEnds
<1> DEFINE r == Head(down).run
<1>1. /\ ShellShape /\ zsh \in ZshRecords /\ up \in Seq(Heard) /\ down \in Seq(Messages)
      /\ down # <<>> /\ down' = Tail(down)
  BY DEF Widget, ShellShape, GateShape
<1>2. /\ down' \in Seq(Messages) /\ r = down[1].run /\ 1 \in DOMAIN down
      /\ \A i \in DOMAIN down' : i + 1 \in DOMAIN down /\ down'[i] = down[i + 1]
  BY <1>1
<1>3. /\ \A i \in DOMAIN down : down[i].run \in RunIds
      /\ starter[r] = "done" /\ helper[r] = "none" /\ child[r] = "none" /\ r \in RunIds
      /\ reported[r] = "none"
  BY <1>1, <1>2, ToldRuns DEF PlacedInv, HelperInv, ShellShape, HelpersShape
<1> HIDE DEF r
<1>4. \A q \in RunIds : helper[q] \in {"none", "gone"}
  BY DEF Widget, HelperInv
<1>5. \A i \in DOMAIN down' : down'[i].run \in RunIds \ {r}
  BY <1>2, <1>3 DEF PlacedInv
<1>6. UNCHANGED <<runEnds, grant, starter, registry, gate, child, frame, reported, authority,
                  closing>>
  BY DEF Widget
<1>7. /\ zsh' \in ZshRecords /\ zsh'.keys = zsh.keys
      /\ helper' \in [RunIds -> {"none", "asking", "validated", "launching", "started", "running",
                                 "marked", "gone"}]
      /\ \/ UNCHANGED helper
         \/ zsh'.mode = "helper" /\ helper'[r] = "asking" /\ ~zsh.keys
      /\ \A q \in RunIds \ {r} : helper'[q] = helper[q]
  <2>1. helper \in [RunIds -> {"none", "asking", "validated", "launching", "started", "running",
                               "marked", "gone"}]
    BY <1>1 DEF ShellShape, HelpersShape
  <2>2. CASE UNCHANGED <<zsh, helper>>
    BY <1>1, <2>1, <2>2
  <2>3. CASE /\ ~zsh.keys /\ zsh' = [zsh EXCEPT !.mode = "helper"]
             /\ helper' = [helper EXCEPT ![r] = "asking"]
    <3>1. zsh' \in ZshRecords /\ zsh'.keys = zsh.keys /\ zsh'.mode = "helper"
      BY <1>1, <2>3 DEF ZshRecords
    <3> QED BY <1>3, <2>1, <2>3, <3>1
  <2> QED BY <2>2, <2>3 DEF Widget, r
<1>8. up' \in Seq(Heard)
  <2>1. [kind |-> "refused", run |-> r] \in Heard
    BY <1>3 DEF Heard
  <2>2. up' = up \/ up' = Append(up, [kind |-> "refused", run |-> r])
    BY DEF Widget, r
  <2> QED BY <1>1, <2>1, <2>2, SMTT(30)
<1>9. ShellShape'
  BY <1>1, <1>2, <1>6, <1>7, <1>8 DEF ShellShape, RunsShape, AuthorityShape, HelpersShape, GateShape
<1>10. PlacedInv'
  <2>1. \A q \in RunIds :
           /\ phase'[q] \in {"none", "prepared", "awaitingApproval"} => starter'[q] = "none"
           /\ active' = q \/ q \in capable' => Placed(q)'
           /\ gate'.run = q \/ helper'[q] # "none" => starter'[q] = "done"
           /\ grant'[q] => q \in HomeRuns
    BY <1>3, <1>6, <1>7 DEF PlacedInv, Placed
  <2>2. \A i \in DOMAIN down' : starter'[down'[i].run] = "done" /\ helper'[down'[i].run] = "none"
    BY <1>2, <1>5, <1>6, <1>7 DEF PlacedInv
  <2>3. \A i, j \in DOMAIN down' : down'[i].run = down'[j].run => i = j
    <3>1. DOMAIN down' \subseteq Nat
      BY <1>2
    <3> QED BY <1>2, <3>1 DEF PlacedInv
  <2> QED BY <2>1, <2>2, <2>3 DEF PlacedInv
<1>11. HelperInv'
  BY <1>3, <1>4, <1>6, <1>7 DEF HelperInv
<1>12. EndedInv'
  BY <1>3, <1>6, <1>7 DEF EndedInv, Terminal
<1>13. GateInv'
  BY <1>3, <1>4, <1>6, <1>7 DEF GateInv
<1> QED BY <1>9, <1>10, <1>11, <1>12, <1>13

LEMMA HomeClosesShellKeeps ==
    ASSUME ShellInv, HomeClosesShell
    PROVE  ShellInv'
<1> USE DEF ShellInv, socket, process, authority, registry, runEnds
<1>1. ShellShape /\ gate \in GateRecords /\ gate.run = NoRun
  BY DEF HomeClosesShell, Availability, ShellShape, GateShape
<1>2. gate' \in GateRecords /\ gate'.run = gate.run /\ gate'.at = gate.at
      /\ gate'.generation = gate.generation /\ gate'.adopted = gate.adopted
      /\ gate'.closed /\ gate'.owner = gate.owner
  BY <1>1, GateClosed DEF HomeClosesShell
<1>3. /\ UNCHANGED <<runEnds, grant, starter, registry, zsh, socket, process, authority>>
      /\ closing' = "home"
  BY DEF HomeClosesShell
<1>4. ShellShape'
  BY <1>1, <1>2, <1>3 DEF ShellShape, RunsShape, AuthorityShape, HelpersShape, GateShape
<1>5. PlacedInv'
  BY <1>2, <1>3 DEF PlacedInv, Placed
<1>6. HelperInv'
  BY <1>3 DEF HelperInv
<1>7. EndedInv'
  BY <1>3 DEF EndedInv, Terminal
<1>8. GateInv'
  BY <1>1, <1>2, <1>3, ShellRunsAssumption DEF GateInv
<1> QED BY <1>4, <1>5, <1>6, <1>7, <1>8

LEMMA ShellStep ==
    ASSUME ShellInv, [ShellNext]_shellVars
    PROVE  ShellInv'
<1>1. CASE UNCHANGED shellVars
  BY <1>1 DEF shellVars, ShellInv, ShellShape, RunsShape, AuthorityShape, HelpersShape, GateShape, PlacedInv,
     Placed, HelperInv, EndedInv, GateInv, Terminal, runEnds, registry, socket, process, authority
<1>2. ASSUME NEW r \in RunIds, RunStep(r) \/ Prepare(r) \/ Deny(r) \/ Stop(r)
      PROVE  ShellInv'
  BY <1>2, EndersKeep, ChooseShellKeeps, OpenShellKeeps, FirstPromptKeeps, PrepareKeeps, DenyKeeps,
     TerminateKeeps, SettleKeeps, LaunchKeeps, ReportStartKeeps, ChildEndsKeeps,
     HelperCancelledKeeps, MarkEndKeeps, ReportFinishKeeps, CaptureKeeps, ConcludeKeeps,
     ApproveKeeps, DispatchKeeps, ReservePromptKeeps, HelperAsksKeeps, ConsumeKeeps DEF RunStep
<1> QED BY <1>1, <1>2, ShellMovesKeep, ShellEndsKeep, AuthorityKeeps, HearShellKeeps, TypeKeeps,
           WidgetKeeps, HomeClosesShellKeeps, LeavingKeeps DEF ShellNext

LEMMA ShellStart ==
    ASSUME ShellInit
    PROVE  ShellInv
<1>1. ShellShape
  <2>1. RunsShape /\ HelpersShape
    BY DEF ShellInit, RunsShape, HelpersShape, Phases
  <2>2. gate \in GateRecords /\ zsh \in ZshRecords
    BY DEF ShellInit, GateRecords, ZshRecords
  <2>3. GateShape
    BY <2>2 DEF ShellInit, GateShape
  <2>4. AuthorityShape
    BY DEF ShellInit, AuthorityShape, Passing, Passes
  <2> QED BY <2>1, <2>3, <2>4 DEF ShellShape
<1>2. PlacedInv
  BY ShellRunsAssumption DEF ShellInit, PlacedInv, Placed
<1>3. HelperInv
  BY DEF ShellInit, HelperInv
<1>4. EndedInv
  BY DEF ShellInit, EndedInv, Terminal
<1>5. GateInv
  BY DEF ShellInit, GateInv
<1> QED BY <1>1, <1>2, <1>3, <1>4, <1>5 DEF ShellInv

-----------------------------------------------------------------------------
(* Who has an answer to give for the run that has the shell.               *)

\* What has the shell's place or a capability is being released, or somebody owes an
\* answer for it; and it keeps its capability until its helper has the command.
OwedInv ==
    \A r \in RunIds :
        /\ active = r \/ r \in capable => r \in settling \/ Owed(r)
        /\ active = r /\ helper[r] \in {"none", "asking", "validated"} => r \in capable
        /\ r \in capable /\ r \notin settling => helper[r] \in {"none", "asking", "validated"}

HasTaker(r) == starter[r] = "reserving" \/ Offered(r) \/ Refused(r)

\* A helper as most steps leave it, or as the next step of its own finds it.
HelperOn(r) ==
    \/ helper'[r] = helper[r]
    \/ helper[r] \in {"none", "asking"} /\ helper'[r] \in {"asking", "validated"}
    \/ helper[r] # "none" /\ helper'[r] = "gone" /\ (r \in capable => r \in settling')
    \/ /\ helper[r] \in {"launching", "started", "running", "marked"}
       /\ helper'[r] \in {"started", "running", "marked"}

LEMMA OwedKept ==
    ASSUME OwedInv, active' = active, capable' = capable, settling \subseteq settling',
           \A r \in RunIds : HelperOn(r),
           \A r \in RunIds : r \in capable /\ HasTaker(r) =>
               HasTaker(r)' \/ helper'[r] = "asking" \/ r \in settling'
    PROVE  OwedInv'
<1> SUFFICES ASSUME NEW r \in RunIds
             PROVE  /\ active = r \/ r \in capable => r \in settling' \/ Owed(r)'
                    /\ active = r /\ helper'[r] \in {"none", "asking", "validated"} => r \in capable
                    /\ r \in capable /\ r \notin settling' =>
                          helper'[r] \in {"none", "asking", "validated"}
  BY DEF OwedInv
<1>1. /\ active = r \/ r \in capable => r \in settling \/ HasTaker(r)
             \/ (helper[r] # "none" /\ (helper[r] = "gone" => r \notin capable))
      /\ active = r /\ helper[r] \in {"none", "asking", "validated"} => r \in capable
      /\ r \in capable /\ r \notin settling => helper[r] \in {"none", "asking", "validated"}
  BY DEF OwedInv, Owed, HasTaker
<1>2. Owed(r)' <=> HasTaker(r)' \/ (helper'[r] # "none" /\ (helper'[r] = "gone" => r \notin capable))
  BY DEF Owed, HasTaker
<1>3. HelperOn(r)
  OBVIOUS
<1>4. /\ r \in capable /\ HasTaker(r) => HasTaker(r)' \/ helper'[r] = "asking" \/ r \in settling'
      /\ r \in settling => r \in settling'
  OBVIOUS
<1> HIDE DEF HasTaker
<1> QED BY <1>1, <1>2, <1>3, <1>4 DEF HelperOn

LEMMA OwedStep ==
    ASSUME ShellInv, OwedInv, [ShellNext]_shellVars
    PROVE  OwedInv'
<1> DEFINE still == \A r \in RunIds : HelperOn(r)
           awaited == \A r \in RunIds : r \in capable /\ HasTaker(r) =>
                        HasTaker(r)' \/ helper'[r] = "asking" \/ r \in settling'
<1>1. /\ UNCHANGED helper => still
      /\ UNCHANGED <<starter, down, up>> => awaited
  BY DEF HelperOn, HasTaker, Offered, Refused
<1>2. ASSUME NEW S, NEW to, NEW y, EndRuns(S, to, y)
      PROVE  settling' = settling \cup S
  BY <1>2 DEF EndRuns
<1>3. ASSUME NEW r, NEW y, Interrupt(r, y)
      PROVE  settling' = settling \cup {r}
  BY <1>2, <1>3 DEF Interrupt
<1>4. helper \in [RunIds -> {"none", "asking", "validated", "launching", "started", "running",
                             "marked", "gone"}]
      /\ starter \in [RunIds -> {"none", "choosing", "placing", "opening", "dispatching",
                                 "reserving", "done", "failed"}]
  BY DEF ShellInv, ShellShape, HelpersShape, RunsShape
<1>5. CASE UNCHANGED shellVars
  BY <1>1, <1>5, OwedKept DEF shellVars, runEnds, registry, socket, process
<1>6. CASE \/ OpenOwnShell \/ Type \/ ShellExits \/ AskGrant \/ GiveGrant \/ RevokeGrant
           \/ UserClosesHome \/ HomeExits \/ HomeClosesShell \/ UserClosesShell
  <2>1. UNCHANGED <<runEnds, starter, registry, socket, process>>
    BY <1>6 DEF OpenOwnShell, Type, ShellExits, AskGrant, GiveGrant, RevokeGrant, UserClosesHome,
       HomeExits, HomeClosesShell, UserClosesShell
  <2> QED BY <1>1, <2>1, OwedKept DEF runEnds, registry, socket, process
<1>7. CASE SocketEnds \/ OnExit \/ CloseShell
  <2>1. UNCHANGED <<starter, registry, down, up, process>>
    BY <1>7 DEF SocketEnds, OnExit, CloseShell, socket
  <2>2. settling \subseteq settling'
    BY <1>2, <1>7 DEF SocketEnds, OnExit, CloseShell
  <2> QED BY <1>1, <2>1, <2>2, OwedKept DEF registry, process
<1>8. CASE Boot \/ Enter \/ CommandEnds \/ HelperExits
  <2>1. /\ UNCHANGED <<runEnds, starter, registry, down, process>>
        /\ up' = up \/ \E m \in {Append(up, [kind |-> "busy", epoch |-> zsh.epoch]),
                               Append(up, [kind |-> "prompt", epoch |-> zsh.epoch + 1])} : up' = m
    BY <1>8 DEF Boot, Enter, CommandEnds, HelperExits, NewPrompt, socket
  <2>2. up \in Seq(Heard)
    BY DEF ShellInv, ShellShape, GateShape
  <2>3. \A r \in RunIds : Refused(r) => Refused(r)'
    <3>1. \A i \in DOMAIN up : i \in DOMAIN up' /\ up'[i] = up[i]
      BY <2>1, <2>2
    <3> QED BY <3>1 DEF Refused
  <2>4. awaited
    BY <2>1, <2>3 DEF HasTaker, Offered
  <2> QED BY <1>1, <2>1, <2>4, OwedKept DEF runEnds, registry, process
<1>9. CASE HearShell
  <2>1. up \in Seq(Heard) /\ up # <<>> /\ up' = Tail(up)
    BY <1>9 DEF HearShell, ShellInv, ShellShape, GateShape
  <2>2. UNCHANGED <<starter, registry, down, process>>
    BY <1>9 DEF HearShell
  <2>3. settling \subseteq settling'
    BY <1>3, <1>9 DEF HearShell, runEnds
  <2>4. Head(up).kind = "refused" /\ Head(up).run \in capable => Head(up).run \in settling'
    BY <1>3, <1>9 DEF HearShell
  <2>5. \A r \in RunIds : r \in capable /\ Refused(r) => Refused(r)' \/ r \in settling'
    <3>1. \A i \in DOMAIN up : (i = 1 /\ up[i] = Head(up)) \/ (i - 1 \in DOMAIN up' /\ up'[i - 1] = up[i])
      BY <2>1
    <3> QED BY <2>4, <3>1 DEF Refused
  <2>6. awaited
    BY <2>2, <2>5 DEF HasTaker, Offered
  <2> QED BY <1>1, <2>2, <2>3, <2>6, OwedKept DEF registry, process
<1>10. CASE Widget
  <2>0. /\ up \in Seq(Heard) /\ down \in Seq(Messages) /\ down # <<>> /\ down' = Tail(down)
        /\ Head(down) \in Messages
    BY <1>10 DEF Widget, ShellInv, ShellShape, GateShape
  <2>1. PICK x \in RunIds : x = Head(down).run
    BY <2>0 DEF Messages
  <2>2. /\ UNCHANGED <<runEnds, starter, registry>>
        /\ \/ /\ helper' = [helper EXCEPT ![x] = "asking"] /\ up' = up
           \/ /\ up' = Append(up, [kind |-> "refused", run |-> x]) /\ helper' = helper
    BY <1>10, <2>1 DEF Widget
  <2>3. \A r \in RunIds : Offered(r) => Offered(r)' \/ r = x
    <3>1. \A i \in DOMAIN down :
             (i = 1 /\ down[i] = Head(down)) \/ (i - 1 \in DOMAIN down' /\ down'[i - 1] = down[i])
      BY <2>0
    <3> QED BY <2>1, <3>1 DEF Offered
  <2>4. \A r \in RunIds : Refused(r) => Refused(r)'
    <3>1. up' = up \/ up' = Append(up, [kind |-> "refused", run |-> x])
      BY <2>2
    <3>2. \A i \in DOMAIN up : i \in DOMAIN up' /\ up'[i] = up[i]
      BY <2>0, <3>1
    <3> QED BY <3>2 DEF Refused
  <2>5. helper'[x] = "asking" \/ Refused(x)'
    <3>1. CASE up' = Append(up, [kind |-> "refused", run |-> x])
      <4>1. Len(up) + 1 \in DOMAIN up' /\ up'[Len(up) + 1] = [kind |-> "refused", run |-> x]
        BY <2>0, <3>1
      <4>2. up'[Len(up) + 1].kind = "refused" /\ up'[Len(up) + 1].run = x
        BY <4>1
      <4> QED BY <4>1, <4>2 DEF Refused
    <3> QED BY <1>4, <2>2, <3>1
  <2>6. awaited
    <3>1. ASSUME NEW r \in RunIds, HasTaker(r)
          PROVE  HasTaker(r)' \/ helper'[r] = "asking"
      <4>1. CASE Offered(r) /\ r = x
        BY <2>5, <4>1 DEF HasTaker
      <4>2. CASE ~(Offered(r) /\ r = x)
        <5>1. starter'[r] = starter[r]
          BY <2>2
        <5> QED BY <2>3, <2>4, <3>1, <4>2, <5>1 DEF HasTaker
      <4> QED BY <4>1, <4>2
    <3> QED BY <3>1
  <2>7. helper[x] = "none"
    <3>1. 1 \in DOMAIN down /\ x = down[1].run
      BY <2>1, <2>0
    <3> QED BY <3>1 DEF ShellInv, PlacedInv
  <2>8. still
    BY <1>4, <2>2, <2>7 DEF HelperOn
  <2> QED BY <2>2, <2>6, <2>8, OwedKept DEF runEnds, registry
<1>11. ASSUME NEW c \in Passes, LeavingStep(c)
       PROVE  OwedInv'
  <2>1. UNCHANGED <<starter, registry, socket, process>> /\ settling \subseteq settling'
    BY <1>3, <1>11 DEF LeavingStep, ListHomeRuns, DropGrant, FinishLeaving, EndListed, ForgetRun,
       runEnds
  <2> QED BY <1>1, <2>1, OwedKept DEF registry, socket, process
<1>12. ASSUME NEW r \in RunIds, RunStep(r) \/ Prepare(r) \/ Deny(r) \/ Stop(r)
       PROVE  OwedInv'
  <2>1. CASE \/ TimerLooks(r) \/ TimerCancels(r) \/ Capture(r) \/ Conclude(r) \/ HelperLost(r)
             \/ LookForHome(r) \/ ReleaseLeft(r) \/ CancelRevoked(r) \/ Prepare(r) \/ Deny(r) \/ Stop(r)
             \/ ChildEnds(r) \/ HelperCancelled(r)
    <3>1. UNCHANGED <<starter, registry, socket, helper>>
      BY <2>1 DEF TimerLooks, TimerCancels, Capture, Conclude, HelperLost, LookForHome, ReleaseLeft,
         CancelRevoked, Prepare, Deny, Stop, ChildEnds, HelperCancelled, process
    <3>2. settling \subseteq settling'
      BY <1>2, <1>3, <2>1 DEF TimerLooks, TimerCancels, Capture, Conclude, HelperLost, LookForHome,
         ReleaseLeft, CancelRevoked, Prepare, Deny, Stop, ChildEnds, HelperCancelled, runEnds
    <3> QED BY <1>1, <3>1, <3>2, OwedKept DEF registry, socket
  <2>2. CASE Approve(r) \/ ChooseShell(r) \/ OpenShell(r) \/ FirstPrompt(r)
    <3>1. UNCHANGED <<registry, socket, helper>>
      BY <2>2 DEF Approve, ChooseShell, OpenShell, FirstPrompt, process
    <3>2. settling \subseteq settling'
      BY <1>3, <2>2 DEF Approve, ChooseShell, OpenShell, FirstPrompt, runEnds
    <3>3. starter[r] # "reserving" /\ \A q \in RunIds \ {r} : starter'[q] = starter[q]
      BY <1>4, <2>2 DEF Approve, ChooseShell, OpenShell, FirstPrompt
    <3>4. awaited
      BY <3>1, <3>3 DEF HasTaker, Offered, Refused, socket
    <3> QED BY <1>1, <3>1, <3>2, <3>4, OwedKept DEF registry
  <2>3. CASE Dispatch(r)
    <3>1. UNCHANGED <<socket, helper>> /\ starter[r] = "dispatching"
          /\ \A q \in RunIds \ {r} : starter'[q] = starter[q]
      BY <1>4, <2>3 DEF Dispatch, process
    <3>2. CASE UNCHANGED registry /\ settling \subseteq settling'
      <4>1. awaited
        BY <3>1 DEF HasTaker, Offered, Refused, socket
      <4> QED BY <1>1, <3>1, <3>2, <4>1, OwedKept DEF registry
    <3>3. CASE /\ starter'[r] = "reserving" /\ active' = r /\ capable' = capable \cup {r}
               /\ settling' = settling
      <4>1. helper[r] = "none"
        BY <1>4, <3>1 DEF ShellInv, PlacedInv
      <4>2. \A q \in RunIds \ {r} : Owed(q) => Owed(q)'
        BY <3>1, <3>3 DEF Owed, Offered, Refused, socket
      <4>3. Owed(r)'
        BY <3>3 DEF Owed
      <4>4. \A q \in RunIds \ {r} : active' # q
        BY <3>3
      <4> QED BY <3>1, <3>3, <4>1, <4>2, <4>3, <4>4 DEF OwedInv
    <3> QED BY <1>3, <1>4, <2>3, <3>2, <3>3 DEF Dispatch
  <2>4. CASE ReservePrompt(r)
    <3>1. UNCHANGED <<registry, up, helper>> /\ \A q \in RunIds \ {r} : starter'[q] = starter[q]
      BY <1>4, <2>4 DEF ReservePrompt, process
    <3>2. settling \subseteq settling' /\ (r \in settling' \/ down' = Append(down, [run |-> r, epoch |-> gate.prompt]))
          /\ (down' = down \/ down' = Append(down, [run |-> r, epoch |-> gate.prompt]))
      BY <1>3, <2>4 DEF ReservePrompt, runEnds
    <3>3. down \in Seq(Messages)
      BY DEF ShellInv, ShellShape, GateShape
    <3>4. \A i \in DOMAIN down : i \in DOMAIN down' /\ down'[i] = down[i]
      BY <3>2, <3>3
    <3>5. r \in settling' \/ Offered(r)'
      <4>1. CASE down' = Append(down, [run |-> r, epoch |-> gate.prompt])
        <5>1. Len(down) + 1 \in DOMAIN down' /\ down'[Len(down) + 1].run = r
          BY <3>3, <4>1
        <5> QED BY <5>1 DEF Offered
      <4> QED BY <3>2, <4>1
    <3>6. \A q \in RunIds : Offered(q) => Offered(q)'
      BY <3>4 DEF Offered
    <3>7. awaited
      BY <3>1, <3>5, <3>6 DEF HasTaker, Refused
    <3> QED BY <1>1, <3>1, <3>2, <3>7, OwedKept DEF registry
  <2>5. CASE Terminate(r)
    <3>1. helper[r] \in {"running", "marked", "gone"}
      BY <2>5 DEF Terminate, ShellInv, EndedInv
    <3>2. UNCHANGED <<starter, registry, socket, settling>> /\ helper'[r] = "gone"
          /\ \A q \in RunIds \ {r} : helper'[q] = helper[q]
      BY <1>4, <2>5 DEF Terminate
    <3>3. r \in capable => r \in settling
      BY <3>1 DEF OwedInv
    <3>4. still
      BY <3>1, <3>2, <3>3 DEF HelperOn
    <3> QED BY <1>1, <3>2, <3>4, OwedKept DEF registry, socket
  <2>6. CASE HelperAsks(r) \/ (Consume(r) /\ UNCHANGED registry)
    <3>1. helper[r] \in {"asking", "validated"} /\ UNCHANGED <<starter, registry, socket>>
          /\ \A q \in RunIds \ {r} : helper'[q] = helper[q]
      BY <1>4, <2>6 DEF HelperAsks, Consume
    <3>2. settling \subseteq settling'
      BY <1>3, <2>6 DEF HelperAsks, Consume, runEnds
    <3>3. \/ helper[r] = "asking" /\ helper'[r] = "validated"
          \/ helper'[r] = "gone" /\ (r \in capable => r \in settling')
          \/ r \notin capable /\ helper'[r] = "launching"
      BY <1>3, <1>4, <2>6 DEF HelperAsks, Consume, registry
    <3>4. CASE r \notin capable /\ helper'[r] = "launching"
      <4>1. active # r
        BY <3>1, <3>4 DEF OwedInv
      <4>2. \A q \in RunIds \ {r} : Owed(q) => Owed(q)'
        BY <3>1 DEF Owed, Offered, Refused, registry, socket
      <4> QED BY <3>1, <3>2, <3>4, <4>1, <4>2 DEF OwedInv, registry
    <3>5. CASE ~(r \notin capable /\ helper'[r] = "launching")
      <4>1. still
        BY <3>1, <3>3, <3>5 DEF HelperOn
      <4> QED BY <1>1, <3>1, <3>2, <4>1, OwedKept DEF registry, socket
    <3> QED BY <3>4, <3>5
  <2>7. CASE Consume(r) /\ ~UNCHANGED registry
    <3>1. /\ helper[r] = "validated" /\ helper'[r] = "launching" /\ capable' = capable \ {r}
          /\ \A q \in RunIds \ {r} : helper'[q] = helper[q]
          /\ UNCHANGED <<starter, active, down, up, settling>>
      BY <1>4, <2>7 DEF Consume, registry, socket, runEnds
    <3>2. \A q \in RunIds \ {r} : Owed(q) => Owed(q)'
      BY <3>1 DEF Owed, Offered, Refused
    <3>3. Owed(r)'
      BY <3>1 DEF Owed
    <3> QED BY <3>1, <3>2, <3>3 DEF OwedInv
  <2>8. CASE Launch(r) \/ ReportStart(r) \/ MarkEnd(r) \/ ReportFinish(r)
    <3>1. /\ helper[r] \in {"launching", "started", "running", "marked"}
          /\ helper'[r] \in {"started", "running", "marked", "gone"}
          /\ \A q \in RunIds \ {r} : helper'[q] = helper[q]
          /\ UNCHANGED <<starter, registry, socket>> /\ settling \subseteq settling'
      BY <1>4, <2>8 DEF Launch, ReportStart, MarkEnd, ReportFinish, runEnds
    <3>2. r \in capable => r \in settling
      BY <3>1 DEF OwedInv
    <3>3. still
      BY <3>1, <3>2 DEF HelperOn
    <3> QED BY <1>1, <3>1, <3>3, OwedKept DEF registry, socket
  <2>9. CASE Settle(r)
    <3>1. /\ active' = (IF active = r THEN NoRun ELSE active) /\ capable' = capable \ {r}
          /\ settling' = settling \ {r} /\ UNCHANGED <<starter, socket, helper>>
      BY <2>9 DEF Settle, process
    <3>2. \A q \in RunIds : Owed(q) => Owed(q)'
      BY <3>1 DEF Owed, Offered, Refused, socket
    <3> QED BY <3>1, <3>2, ShellRunsAssumption DEF OwedInv
  <2> QED BY <1>12, <2>1, <2>2, <2>3, <2>4, <2>5, <2>6, <2>7, <2>8, <2>9 DEF RunStep
<1> HIDE DEF still, awaited
<1> QED BY <1>5, <1>6, <1>7, <1>8, <1>9, <1>10, <1>11, <1>12 DEF ShellNext

\* What the invariants say of the shell.
LEMMA ShellInvSays ==
    ASSUME ShellInv, OwedInv
    PROVE  ShellOK
<1> USE DEF ShellInv
<1>1. Cardinality({r \in RunIds : child[r] = "alive"}) <= 1
  <2> DEFINE A == {r \in RunIds : child[r] = "alive"}
  <2>1. \A q, r \in A : q = r
    BY DEF HelperInv
  <2> HIDE DEF A
  <2>2. CASE A = {}
    BY <2>2, FS_EmptySet DEF A
  <2>3. ASSUME NEW r \in A
        PROVE  Cardinality(A) <= 1
    <3>1. A = {r}
      BY <2>1, <2>3
    <3>2. Cardinality({r}) = 1
      BY FS_Singleton
    <3> QED BY <3>1, <3>2
  <2>4. Cardinality(A) <= 1
    BY <2>2, <2>3, FS_EmptySet
  <2> QED BY <2>4 DEF A
<1>2. ShellTypeOK
  <2>1. capable \subseteq {r \in RunIds : Placed(r)} /\ pidKnown \subseteq {r \in RunIds : phase[r] = "running"}
    BY DEF ShellShape, RunsShape, PlacedInv, EndedInv
  <2>2. gate.run \in RunIds \cup {NoRun}
    BY DEF ShellShape, GateShape, GateRecords
  <2> QED BY <1>1, <2>1, <2>2 DEF ShellTypeOK, ShellShape, RunsShape, Phases
<1>3. NothingTypedIsRunInto
  BY DEF NothingTypedIsRunInto, HelperInv, GateInv
<1>4. EndedIsForgotten
  BY DEF EndedIsForgotten, EndedInv, OwedInv
<1> QED BY <1>2, <1>3, <1>4 DEF ShellOK, CompletedIsWhole, HomeCloseSparesRunning, EndedInv, GateInv

\* ShellRuns: over means released, or that somebody still answers for it; completed
\* means whole, a shell Home closes has nothing running in it, nothing that runs reads
\* what the user typed, and there is one command at a time, also while Home's closing
\* goes through its runs (shell_runs.rs, shell_admission.rs, shell_control.rs).
THEOREM ShellSafe == ShellSpec => []ShellOK
<1>1. ShellInit => ShellInv /\ OwedInv
  <2>1. ASSUME ShellInit
        PROVE  OwedInv
    BY <2>1, ShellRunsAssumption DEF ShellInit, OwedInv
  <2> QED BY <2>1, ShellStart
<1>2. ShellInv /\ OwedInv /\ [ShellNext]_shellVars => (ShellInv /\ OwedInv)'
  BY ShellStep, OwedStep
<1>3. ShellInv /\ OwedInv => ShellOK
  BY ShellInvSays
<1> QED BY <1>1, <1>2, <1>3, PTL DEF ShellSpec

-----------------------------------------------------------------------------
(* Home's going, and what may still start.                                 *)

\* Home has exited before on_exit looks; and a run that was let through while Home was
\* there is in its list, and is over when it has gone through it.
LeavingInv ==
    /\ leaving["exit"].at # "no" => ~home
    /\ \A r \in HomeRuns :
          starter[r] # "none" /\ leaving["exit"].at \notin {"no", "begun"} =>
              Terminal(phase[r]) \/ (leaving["exit"].at = "ending" /\ r \in leaving["exit"].todo)

\* Whatever ends runs, or starts one, makes none of them running but consume_if.
LEMMA StartsRunning ==
    ASSUME phase \in [RunIds -> Phases], [ShellNext]_shellVars, NEW r \in RunIds,
           phase[r] # "running", phase'[r] = "running"
    PROVE  /\ Consume(r)
           /\ Reserved(r) /\ phase[r] = "reserved" /\ (grant[r] => granted)
<1>1. ASSUME NEW S, NEW to \in {"cancelled", "interrupted"}, NEW y, EndRuns(S, to, y)
      PROVE  FALSE
  BY <1>1 DEF EndRuns
<1>2. ASSUME NEW q, NEW y, Interrupt(q, y)
      PROVE  FALSE
  BY <1>1, <1>2 DEF Interrupt
<1>3. phase' # phase
  OBVIOUS
<1>4. ShellNext
  BY <1>3 DEF shellVars, runEnds
<1>5. ~(\/ OpenOwnShell \/ Boot \/ Type \/ Enter \/ CommandEnds \/ Widget \/ HelperExits
        \/ ShellExits \/ AskGrant \/ GiveGrant \/ RevokeGrant \/ UserClosesHome \/ HomeExits
        \/ HomeClosesShell \/ UserClosesShell)
  BY <1>3 DEF OpenOwnShell, Boot, Type, Enter, CommandEnds, Widget, HelperExits, ShellExits,
     AskGrant, GiveGrant, RevokeGrant, UserClosesHome, HomeExits, HomeClosesShell, UserClosesShell,
     runEnds, NewPrompt
<1>6. ~(SocketEnds \/ OnExit \/ CloseShell) /\ ~\E c \in Passes : LeavingStep(c)
  <2>1. ~(SocketEnds \/ OnExit \/ CloseShell)
    BY <1>1 DEF SocketEnds, OnExit, CloseShell
  <2>2. ASSUME NEW c \in Passes
        PROVE  ~LeavingStep(c)
    BY <1>2, <1>3 DEF LeavingStep, ListHomeRuns, DropGrant, FinishLeaving, EndListed, ForgetRun, runEnds
  <2> QED BY <2>1, <2>2
<1>7. ~HearShell
  BY <1>2, <1>3 DEF HearShell, runEnds
<1>8. PICK q \in RunIds : RunStep(q) \/ Prepare(q) \/ Deny(q) \/ Stop(q)
  BY <1>4, <1>5, <1>6, <1>7 DEF ShellNext
<1>9. ~(\/ Terminate(q) \/ Settle(q) \/ TimerLooks(q) \/ Launch(q) \/ ReportStart(q)
        \/ ChildEnds(q) \/ HelperCancelled(q) \/ MarkEnd(q) \/ ReportFinish(q))
  BY <1>3 DEF Terminate, Settle, TimerLooks, Launch, ReportStart, ChildEnds, HelperCancelled,
     MarkEnd, ReportFinish, runEnds
<1>10. ~(\/ TimerCancels(q) \/ HelperLost(q) \/ CancelRevoked(q) \/ Stop(q) \/ ReservePrompt(q)
         \/ ChooseShell(q) \/ HelperAsks(q) \/ LookForHome(q) \/ ReleaseLeft(q))
  BY <1>1, <1>2, <1>3 DEF LookForHome, ReleaseLeft, TimerCancels, HelperLost, CancelRevoked, Stop, ReservePrompt, ChooseShell,
     HelperAsks, runEnds
<1>11. ~(Approve(q) \/ OpenShell(q) \/ FirstPrompt(q) \/ Dispatch(q))
  BY <1>2 DEF Approve, OpenShell, FirstPrompt, Dispatch
<1>12. ~(Prepare(q) \/ Deny(q) \/ Capture(q) \/ Conclude(q))
  BY DEF Prepare, Deny, Capture, Conclude
<1>13. Consume(q)
  BY <1>8, <1>9, <1>10, <1>11, <1>12 DEF RunStep
<1>14. Reserved(q) /\ phase[q] = "reserved" /\ (grant[q] => granted) /\ q = r
  BY <1>2, <1>3, <1>13 DEF Consume, runEnds
<1> QED BY <1>13, <1>14

\* What is over stays over, and who gets past the first look at Home finds it there.
LEMMA OverStays ==
    ASSUME ShellInv, [ShellNext]_shellVars, NEW r \in RunIds
    PROVE  /\ Terminal(phase[r]) => Terminal(phase'[r])
           /\ r \in HomeRuns /\ starter[r] = "none" /\ starter'[r] # "none" => home
<1>1. phase \in [RunIds -> Phases] /\ starter \in [RunIds -> {"none", "choosing", "placing",
                                            "opening", "dispatching", "reserving", "done", "failed"}]
  BY DEF ShellInv, ShellShape, RunsShape
<1>2. ASSUME NEW S, NEW to, NEW y, EndRuns(S, to, y)
      PROVE  Terminal(phase[r]) => Terminal(phase'[r])
  BY <1>2 DEF EndRuns
<1>3. ASSUME NEW q, NEW y, Interrupt(q, y)
      PROVE  Terminal(phase[r]) => Terminal(phase'[r])
  BY <1>2, <1>3 DEF Interrupt
<1>4. CASE UNCHANGED shellVars
  BY <1>4 DEF shellVars, runEnds
<1>5. CASE \/ OpenOwnShell \/ Boot \/ Type \/ Enter \/ CommandEnds \/ Widget \/ HelperExits
           \/ ShellExits \/ AskGrant \/ GiveGrant \/ RevokeGrant \/ UserClosesHome \/ HomeExits
           \/ HomeClosesShell \/ UserClosesShell
  <2>1. UNCHANGED <<phase, starter>>
    BY <1>5 DEF OpenOwnShell, Boot, Type, Enter, CommandEnds, Widget, HelperExits, ShellExits,
       AskGrant, GiveGrant, RevokeGrant, UserClosesHome, HomeExits, HomeClosesShell, UserClosesShell,
       runEnds, NewPrompt
  <2> QED BY <2>1
<1>6. CASE SocketEnds \/ OnExit \/ CloseShell \/ HearShell
  <2>1. UNCHANGED starter
    BY <1>6 DEF SocketEnds, OnExit, CloseShell, HearShell
  <2>2. Terminal(phase[r]) => Terminal(phase'[r])
    BY <1>2, <1>3, <1>6 DEF SocketEnds, OnExit, CloseShell, HearShell, runEnds
  <2> QED BY <2>1, <2>2
<1>7. ASSUME NEW c \in Passes, LeavingStep(c)
      PROVE  UNCHANGED starter /\ (Terminal(phase[r]) => Terminal(phase'[r]))
  BY <1>1, <1>3, <1>7 DEF LeavingStep, ListHomeRuns, DropGrant, FinishLeaving, EndListed, ForgetRun,
     runEnds
<1>8. ASSUME NEW q \in RunIds, RunStep(q) \/ Prepare(q) \/ Deny(q) \/ Stop(q)
      PROVE  /\ Terminal(phase[r]) => Terminal(phase'[r])
             /\ r \in HomeRuns /\ starter[r] = "none" /\ starter'[r] # "none" => home
  <2>1. CASE \/ Terminate(q) \/ Settle(q) \/ TimerLooks(q) \/ TimerCancels(q) \/ HelperAsks(q)
             \/ Launch(q) \/ ReportStart(q) \/ ChildEnds(q) \/ HelperCancelled(q) \/ MarkEnd(q)
             \/ ReportFinish(q) \/ HelperLost(q) \/ LookForHome(q) \/ ReleaseLeft(q)
             \/ CancelRevoked(q) \/ Stop(q)
    <3>1. UNCHANGED starter
      BY <2>1 DEF Terminate, Settle, TimerLooks, TimerCancels, HelperAsks, Launch, ReportStart,
         ChildEnds, HelperCancelled, MarkEnd, ReportFinish, HelperLost, LookForHome, ReleaseLeft,
         CancelRevoked, Stop
    <3>2. Terminal(phase[r]) => Terminal(phase'[r])
      BY <1>2, <1>3, <2>1 DEF Terminate, Settle, TimerLooks, TimerCancels, HelperAsks, Launch,
         ReportStart, ChildEnds, HelperCancelled, MarkEnd, ReportFinish, HelperLost, LookForHome,
         ReleaseLeft, CancelRevoked, Stop, runEnds
    <3> QED BY <3>1, <3>2
  <2>2. CASE Consume(q) \/ Capture(q) \/ Conclude(q) \/ Prepare(q) \/ Deny(q)
    <3>1. UNCHANGED starter
      BY <2>2 DEF Consume, Capture, Conclude, Prepare, Deny
    <3>2. Terminal(phase[r]) => Terminal(phase'[r])
      BY <1>1, <1>3, <2>2 DEF Consume, Capture, Conclude, Prepare, Deny, Terminal, runEnds
    <3> QED BY <3>1, <3>2
  <2>3. CASE Approve(q)
    BY <1>1, <1>3, <2>3 DEF Approve, ValidRun, Terminal
  <2>4. CASE ChooseShell(q) \/ OpenShell(q) \/ FirstPrompt(q) \/ Dispatch(q) \/ ReservePrompt(q)
    <3>1. starter[q] # "none" /\ \A x \in RunIds \ {q} : starter'[x] = starter[x]
      BY <1>1, <2>4 DEF ChooseShell, OpenShell, FirstPrompt, Dispatch, ReservePrompt
    <3>2. Terminal(phase[r]) => Terminal(phase'[r])
      BY <1>1, <1>3, <2>4 DEF ChooseShell, OpenShell, FirstPrompt, Dispatch, ReservePrompt, Terminal,
         runEnds
    <3> QED BY <3>1, <3>2
  <2> QED BY <1>8, <2>1, <2>2, <2>3, <2>4 DEF RunStep
<1> QED BY <1>4, <1>5, <1>6, <1>7, <1>8 DEF ShellNext

LEMMA LeavingInvStep ==
    ASSUME ShellInv, LeavingInv, [ShellNext]_shellVars
    PROVE  LeavingInv'
<1>0. home \in BOOLEAN
  BY DEF ShellInv, ShellShape, AuthorityShape
<1>1. \A r \in HomeRuns : /\ Terminal(phase[r]) => Terminal(phase'[r])
                          /\ starter[r] = "none" /\ starter'[r] # "none" => home
  BY OverStays, ShellRunsAssumption
<1>2. leaving \in [Passes -> Passing] /\ "exit" \in Passes
  BY DEF ShellInv, ShellShape, AuthorityShape, Passes
<1>3. CASE UNCHANGED <<leaving, home>>
  <2>1. leaving' = leaving /\ home' = home
    BY <1>3
  <2>2. ASSUME NEW r \in HomeRuns, starter'[r] # "none", leaving["exit"].at \notin {"no", "begun"}
        PROVE  Terminal(phase'[r]) \/ (leaving["exit"].at = "ending" /\ r \in leaving["exit"].todo)
    <3>1. starter[r] # "none"
      BY <1>1, <2>2 DEF LeavingInv
    <3> QED BY <1>1, <2>2, <3>1 DEF LeavingInv
  <2> QED BY <2>1, <2>2 DEF LeavingInv, Terminal
<1>4. CASE UserClosesHome \/ HomeExits
  <2>1. UNCHANGED <<phase, starter>>
    BY <1>4 DEF UserClosesHome, HomeExits, runEnds
  <2>2. \/ leaving'["exit"] = leaving["exit"] /\ home' = home
        \/ leaving'["exit"].at = "begun" /\ ~home'
    BY <1>2, <1>4 DEF UserClosesHome, HomeExits, Passing
  <2> QED BY <2>1, <2>2 DEF LeavingInv
<1>5. ASSUME NEW c \in Passes, LeavingStep(c)
      PROVE  LeavingInv'
  <2>1. UNCHANGED starter /\ (home' => home)
    BY <1>0, <1>5 DEF LeavingStep, ListHomeRuns, DropGrant, FinishLeaving, EndListed, ForgetRun
  <2>2. CASE c # "exit"
    <3>1. leaving'["exit"] = leaving["exit"]
      BY <1>2, <1>5, <2>2 DEF LeavingStep, ListHomeRuns, DropGrant, FinishLeaving, EndListed, ForgetRun
    <3> QED BY <1>1, <2>1, <3>1 DEF LeavingInv, Terminal
  <2>3. CASE c = "exit"
    <3>1. leaving["exit"].at # "no" /\ ~home
      BY <1>5, <2>3 DEF LeavingStep, ListHomeRuns, DropGrant, FinishLeaving, EndListed, ForgetRun,
         LeavingInv
    <3>2. CASE ListHomeRuns("exit")
      <4>1. \A r \in HomeRuns : starter[r] # "none" => r \in HomeRuns \cap Prepared
        BY ShellRunsAssumption DEF ShellInv, PlacedInv, Prepared
      <4>2. \/ leaving'["exit"].at = "ending" /\ leaving'["exit"].todo = HomeRuns \cap Prepared
            \/ leaving["exit"].at = "dropped" /\ leaving'["exit"].at = "forgetting"
        BY <1>2, <3>2 DEF ListHomeRuns
      <4>3. UNCHANGED phase
        BY <3>2 DEF ListHomeRuns, runEnds
      <4> QED BY <2>1, <3>1, <4>1, <4>2, <4>3 DEF LeavingInv
    <3>3. CASE DropGrant("exit") \/ FinishLeaving("exit")
      <4>1. /\ leaving["exit"].at \in {"ending", "forgetting"} /\ leaving["exit"].todo = {}
            /\ leaving'["exit"].at \in {"dropped", "done"} /\ UNCHANGED phase
        BY <1>2, <3>3 DEF DropGrant, FinishLeaving, runEnds, Passing
      <4> QED BY <2>1, <3>1, <4>1 DEF LeavingInv
    <3>4. ASSUME NEW r \in RunIds, EndListed("exit", r)
          PROVE  LeavingInv'
      <4>1. /\ leaving["exit"].at = "ending" /\ leaving'["exit"].at = "ending"
            /\ leaving'["exit"].todo = leaving["exit"].todo \ {r}
        BY <1>2, <3>4 DEF EndListed, Passing
      <4>2. Terminal(phase'[r])
        BY <3>4 DEF EndListed, Interrupt, EndRuns, Terminal
      <4> QED BY <1>1, <2>1, <3>1, <4>1, <4>2 DEF LeavingInv, Terminal
    <3>5. ASSUME NEW r \in RunIds, ForgetRun("exit", r)
          PROVE  LeavingInv'
      <4>1. leaving["exit"].at = "forgetting" /\ leaving'["exit"].at = "forgetting"
        BY <1>2, <3>5 DEF ForgetRun, Passing
      <4> QED BY <1>1, <2>1, <3>1, <4>1 DEF LeavingInv, Terminal
    <3> QED BY <1>5, <2>3, <3>2, <3>3, <3>4, <3>5 DEF LeavingStep
  <2> QED BY <2>2, <2>3
<1>6. ASSUME NEW r \in RunIds, RunStep(r) \/ Prepare(r) \/ Deny(r) \/ Stop(r)
      PROVE  UNCHANGED <<leaving, home>>
  BY <1>6 DEF RunStep, Prepare, Deny, Stop, Terminate, Settle, Approve, ChooseShell, OpenShell,
     FirstPrompt, Dispatch, ReservePrompt, TimerLooks, TimerCancels, HelperAsks, Consume, Launch,
     ReportStart, ChildEnds, HelperCancelled, MarkEnd, ReportFinish, Capture, Conclude, HelperLost,
     LookForHome, ReleaseLeft, CancelRevoked, authority
<1>7. CASE \/ OpenOwnShell \/ Boot \/ Type \/ Enter \/ CommandEnds \/ Widget \/ HelperExits
           \/ ShellExits \/ HearShell \/ SocketEnds \/ OnExit \/ AskGrant \/ GiveGrant \/ RevokeGrant
           \/ HomeClosesShell \/ UserClosesShell \/ CloseShell
  <2>1. UNCHANGED <<leaving, home>>
    BY <1>7 DEF OpenOwnShell, Boot, Type, Enter, CommandEnds, Widget, HelperExits, ShellExits,
       HearShell, SocketEnds, OnExit, AskGrant, GiveGrant, RevokeGrant, HomeClosesShell,
       UserClosesShell, CloseShell, authority
  <2> QED BY <1>3, <2>1
<1>8. CASE UNCHANGED shellVars
  BY <1>3, <1>8 DEF shellVars, authority
<1> QED BY <1>3, <1>4, <1>5, <1>6, <1>7, <1>8 DEF ShellNext

\* Only consume_if starts a command, and by then the shell is Home's, untouched and
\* idle, the grant still stands, and on_exit has yet to come to the run.
LEMMA ConsumeIsGranted ==
    ASSUME ShellInv, LeavingInv, [ShellNext]_shellVars, NEW r \in RunIds,
           phase[r] # "running", phase'[r] = "running"
    PROVE  /\ grant[r] => granted /\ OwnedUntouched
           /\ r \in HomeRuns =>
                 leaving["exit"].at \in {"no", "begun"} \/ r \in leaving["exit"].todo
<1>1. phase \in [RunIds -> Phases]
  BY DEF ShellInv, ShellShape, RunsShape
<1>2. Reserved(r) /\ (grant[r] => granted) /\ helper[r] = "validated" /\ phase[r] = "reserved"
  BY <1>1, StartsRunning DEF Consume
<1>3. starter[r] = "done" /\ ~Terminal(phase[r])
  BY <1>2 DEF ShellInv, PlacedInv, Terminal
<1> QED BY <1>2, <1>3 DEF ShellInv, GateInv, Reserved, OwnedUntouched, LeavingInv

\* A command that needs Home's grant starts only while it is granted, in a shell of
\* Home's that the user has not typed into: what was checked when the helper asked
\* still holds when the command is handed over; and none of Home's starts, granted or
\* approved, that on_exit has gone through, or that it did not find (shell_admission.rs,
\* consume_if; app.rs, close_home_runs).
THEOREM GrantHoldsAlways == ShellSpec => GrantHolds
<1>1. ShellInv /\ LeavingInv /\ [ShellNext]_shellVars =>
         [\A r \in RunIds : phase[r] # "running" /\ phase'[r] = "running" =>
             /\ grant[r] => granted /\ OwnedUntouched
             /\ r \in HomeRuns =>
                   leaving["exit"].at \in {"no", "begun"} \/ r \in leaving["exit"].todo]_shellVars
  BY ConsumeIsGranted
<1>2. ShellInit => ShellInv /\ LeavingInv
  <2>1. ASSUME ShellInit
        PROVE  LeavingInv
    BY <2>1, ShellRunsAssumption DEF ShellInit, LeavingInv, Passes
  <2> QED BY <2>1, ShellStart
<1>3. ShellInv /\ LeavingInv /\ [ShellNext]_shellVars => (ShellInv /\ LeavingInv)'
  BY ShellStep, LeavingInvStep
<1> QED BY <1>1, <1>2, <1>3, PTL DEF ShellSpec, GrantHolds


-----------------------------------------------------------------------------
(* Browser: the inductive invariant.                                       *)

CallStages == {"none", "building", "starting", "driving", "marking", "waiting", "sleeping", "asking",
               "asked", "ending", "over"}

EntriesShape ==
    /\ entries \subseteq Tabs /\ loading \subseteq Tabs /\ unused \subseteq Tabs
    /\ IsFiniteSet(entries) /\ Cardinality(entries) <= MaxTotal
    /\ driving \in [Tabs -> ToolCalls \cup {NoCaller}] /\ drivers \subseteq ToolCalls
    /\ forgetting \in [Tabs -> {"no", "requests", "waiters", "webview", "done"}]

PagesShape == webviews \subseteq Tabs /\ fetching \subseteq webviews
LoadsShape == queued \in [Tabs -> Nat] /\ loads \in Nat /\ loads <= MaxLoads
CallbackShape ==
    /\ callback \in {"idle", "loaded", "loaded and failing", "failing"} \X (Tabs \cup {NoTab})
    /\ callback[1] # "idle" => callback[2] \in Tabs
WebShape == PagesShape /\ LoadsShape /\ CallbackShape

ToolsShape ==
    /\ sleepers \in [Tabs -> SUBSET ToolCalls] /\ owed \in [Tabs -> SUBSET ToolCalls]
    /\ toolCall \in [ToolCalls -> CallStages]
    /\ tab \in [ToolCalls -> Tabs \cup {NoTab}]
    /\ woken \in [ToolCalls -> {"nothing", "loaded", "closed", "failed", "answered"}]

PaneShape == EntriesShape /\ WebShape /\ ToolsShape

\* Ids are used once: what has been given out is not given out again, and the webview
\* of a pane being built is there only when that is done.
IdInv ==
    /\ entries \cap unused = {} /\ webviews \cap unused = {} /\ loading \subseteq entries
    /\ \A b \in Tabs : forgetting[b] # "no" => b \notin entries /\ b \notin unused
    /\ \A c \in ToolCalls : toolCall[c] \notin {"none", "over"} => tab[c] \in Tabs \ unused
    /\ \A c, d \in ToolCalls :
          {toolCall[c], toolCall[d]} \subseteq {"building", "starting"} /\ tab[c] = tab[d] => c = d
    /\ \A c \in ToolCalls :
          /\ toolCall[c] = "building" =>
                /\ tab[c] \notin webviews /\ tab[c] \notin loading
                /\ \A d \in ToolCalls : toolCall[d] = "marking" => tab[d] # tab[c]
          /\ toolCall[c] = "starting" => tab[c] \in webviews \/ forgetting[tab[c]] = "done"

\* A navigation is counted before it is queued.
LoadsInv ==
    /\ \A b \in Tabs : queued[b] <= loads
    /\ \A c \in ToolCalls : toolCall[c] = "starting" => queued[tab[c]] < loads

\* Who sleeps and has not been called is on the list that the end of the load, or of
\* the pane, will go through.
SleepInv ==
    \A c \in ToolCalls : toolCall[c] = "sleeping" /\ woken[c] = "nothing" =>
        /\ c \in sleepers[tab[c]]
        /\ \/ tab[c] \in loading
           \/ callback[1] \in {"loaded", "loaded and failing"} /\ callback[2] = tab[c]
           \/ forgetting[tab[c]] \in {"requests", "waiters"}

\* A driver has its pane until it says it is done, or the pane is closed.
DriveInv ==
    \A c \in ToolCalls :
        /\ toolCall[c] \in {"driving", "marking"} => c \in drivers
        /\ c \in drivers => toolCall[c] \notin {"none", "building", "starting", "over"}
        /\ c \in drivers /\ tab[c] \in entries => driving[tab[c]] = c

BrowserInv == PaneShape /\ IdInv /\ LoadsInv /\ SleepInv /\ DriveInv

-----------------------------------------------------------------------------
(* What the steps have in common.                                          *)

\* A call that goes on, with its pane.
GoesOn(c, to) ==
    /\ toolCall' \in [ToolCalls -> CallStages] /\ toolCall'[c] = to
    /\ \A d \in ToolCalls \ {c} : toolCall'[d] = toolCall[d]

LEMMA GoesEffect ==
    ASSUME ToolsShape, NEW c \in ToolCalls, NEW s \in CallStages, Goes(c, s)
    PROVE  GoesOn(c, s)
BY DEF Goes, GoesOn, ToolsShape

LEMMA NotifyEffect ==
    ASSUME ToolsShape, NEW cs, NEW what \in {"loaded", "closed", "failed", "answered"},
           Notify(cs, what)
    PROVE  /\ woken' \in [ToolCalls -> {"nothing", "loaded", "closed", "failed", "answered"}]
           /\ \A c \in ToolCalls : woken'[c] = "nothing" => woken[c] = "nothing" /\ c \notin cs
BY DEF Notify, ToolsShape

\* A call that holds a pane and goes on to what does not touch the panes.
LEMMA QuietKeeps ==
    ASSUME BrowserInv, NEW c \in ToolCalls,
           NEW s \in {"waiting", "sleeping", "asking", "asked", "ending"}, GoesOn(c, s),
           toolCall[c] \notin {"none", "over"},
           UNCHANGED <<host, webviews, unused, webkit, callback, forgetting, tab>>
    PROVE  EntriesShape' /\ WebShape' /\ IdInv' /\ LoadsInv' /\ DriveInv'
<1> USE DEF BrowserInv, PaneShape, WebShape, host, webkit
<1>1. EntriesShape' /\ WebShape'
  BY DEF EntriesShape, PagesShape, LoadsShape, CallbackShape
<1>2. IdInv'
  BY DEF IdInv, GoesOn
<1>3. LoadsInv'
  BY DEF LoadsInv, GoesOn
<1>4. DriveInv'
  BY DEF DriveInv, GoesOn
<1> QED BY <1>1, <1>2, <1>3, <1>4

\* A step of nobody's call: the pages, the main thread and the closes.
LEMMA NobodysKeep ==
    ASSUME BrowserInv, UNCHANGED <<toolCall, tab>>,
           entries' \subseteq entries, loading' \subseteq entries',
           \A b \in loading' : b \in loading \/ b \in webviews,
           webviews' \subseteq webviews, unused' = unused,
           \A b \in Tabs : forgetting'[b] # "no" => b \notin entries' /\ b \notin unused,
           \A b \in webviews : b \in webviews' \/ forgetting'[b] = "done",
           \A b \in Tabs : forgetting[b] = "done" => forgetting'[b] = "done"
    PROVE  IdInv'
<1> USE DEF BrowserInv, PaneShape, WebShape
<1>1. /\ entries' \cap unused' = {} /\ webviews' \cap unused' = {} /\ loading' \subseteq entries'
      /\ \A b \in Tabs : forgetting'[b] # "no" => b \notin entries' /\ b \notin unused'
  BY DEF IdInv
<1>2. /\ \A c \in ToolCalls : toolCall'[c] \notin {"none", "over"} => tab'[c] \in Tabs \ unused'
      /\ \A c, d \in ToolCalls :
            {toolCall'[c], toolCall'[d]} \subseteq {"building", "starting"} /\ tab'[c] = tab'[d]
                => c = d
  BY DEF IdInv
<1>3. ASSUME NEW c \in ToolCalls
      PROVE  /\ toolCall[c] = "building" =>
                    /\ tab[c] \notin webviews' /\ tab[c] \notin loading'
                    /\ \A d \in ToolCalls : toolCall[d] = "marking" => tab[d] # tab[c]
             /\ toolCall[c] = "starting" => tab[c] \in webviews' \/ forgetting'[tab[c]] = "done"
  BY DEF IdInv
<1> QED BY <1>1, <1>2, <1>3 DEF IdInv

-----------------------------------------------------------------------------
(* The calls.                                                              *)

LEMMA TakeSlotKeeps ==
    ASSUME BrowserInv, NEW c \in ToolCalls, TakeSlot(c)
    PROVE  BrowserInv'
<1> USE DEF BrowserInv, PaneShape, WebShape, host, webkit, waits
<1>1. CASE UNCHANGED <<entries, unused, tab>> /\ Goes(c, "over")
  <2>1. GoesOn(c, "over") /\ toolCall[c] = "none"
    BY <1>1, GoesEffect DEF TakeSlot, CallStages
  <2>2. UNCHANGED <<host, webviews, unused, webkit, callback, forgetting, waits, tab>>
    BY <1>1 DEF TakeSlot
  <2>3. PaneShape'
    BY <2>1, <2>2 DEF EntriesShape, PagesShape, LoadsShape, CallbackShape, ToolsShape, GoesOn
  <2>4. IdInv'
    BY <2>1, <2>2 DEF IdInv, GoesOn
  <2>5. LoadsInv' /\ SleepInv' /\ DriveInv'
    BY <2>1, <2>2 DEF LoadsInv, SleepInv, DriveInv, GoesOn
  <2> QED BY <2>3, <2>4, <2>5
<1>2. CASE ~(UNCHANGED <<entries, unused, tab>> /\ Goes(c, "over"))
  <2> DEFINE b == Fresh
  <2>1. /\ Cardinality(entries) < MaxTotal /\ unused # {} /\ toolCall[c] = "none"
        /\ entries' = entries \cup {b} /\ unused' = unused \ {b}
        /\ tab' = [tab EXCEPT ![c] = b] /\ Goes(c, "building")
        /\ UNCHANGED <<loading, driving, drivers, webviews, webkit, callback, forgetting, waits>>
    BY <1>2 DEF TakeSlot
  <2>2. b \in unused
    BY <2>1 DEF Fresh
  <2> HIDE DEF b
  <2>3. GoesOn(c, "building")
    BY <2>1, GoesEffect DEF CallStages
  <2>4. /\ b \in Tabs /\ b \notin entries /\ b \notin webviews /\ b \notin loading
        /\ \A d \in ToolCalls : toolCall[d] \notin {"none", "over"} => tab[d] # b
    BY <2>2 DEF EntriesShape, IdInv
  <2>5. /\ tab' \in [ToolCalls -> Tabs \cup {NoTab}] /\ tab'[c] = b
        /\ \A d \in ToolCalls \ {c} : tab'[d] = tab[d]
    BY <2>1, <2>4 DEF ToolsShape
  <2>6. EntriesShape'
    <3>1. IsFiniteSet(entries') /\ Cardinality(entries') <= MaxTotal
      <4>1. IsFiniteSet(entries) /\ Cardinality(entries) \in Nat
        BY FS_CardinalityType DEF EntriesShape
      <4>2. IsFiniteSet(entries') /\ Cardinality(entries') = Cardinality(entries) + 1
        BY <2>1, <2>4, <4>1, FS_AddElement
      <4> QED BY <2>1, <4>1, <4>2, BrowserAssumption
    <3> QED BY <2>1, <2>4, <3>1 DEF EntriesShape
  <2>7. WebShape' /\ ToolsShape'
    BY <2>1, <2>3, <2>5 DEF PagesShape, LoadsShape, CallbackShape, ToolsShape, GoesOn
  <2>8. IdInv'
    <3>1. /\ entries' \cap unused' = {} /\ webviews' \cap unused' = {} /\ loading' \subseteq entries'
          /\ \A q \in Tabs : forgetting'[q] # "no" => q \notin entries' /\ q \notin unused'
      BY <2>1, <2>2, <2>4 DEF IdInv
    <3>2. \A d \in ToolCalls : toolCall'[d] \notin {"none", "over"} => tab'[d] \in Tabs \ unused'
      BY <2>1, <2>3, <2>4, <2>5 DEF IdInv, GoesOn
    <3>3. ASSUME NEW d \in ToolCalls, NEW e \in ToolCalls,
                 {toolCall'[d], toolCall'[e]} \subseteq {"building", "starting"}, tab'[d] = tab'[e]
          PROVE  d = e
      BY <2>3, <2>4, <2>5, <3>3 DEF IdInv, GoesOn
    <3>4. ASSUME NEW d \in ToolCalls
          PROVE  /\ toolCall'[d] = "building" =>
                        /\ tab'[d] \notin webviews' /\ tab'[d] \notin loading'
                        /\ \A e \in ToolCalls : toolCall'[e] = "marking" => tab'[e] # tab'[d]
                 /\ toolCall'[d] = "starting" => tab'[d] \in webviews' \/ forgetting'[tab'[d]] = "done"
      BY <2>1, <2>3, <2>4, <2>5 DEF IdInv, GoesOn
    <3> QED BY <3>1, <3>2, <3>3, <3>4 DEF IdInv
  <2>9. LoadsInv'
    BY <2>1, <2>3, <2>5 DEF LoadsInv, GoesOn
  <2>10. SleepInv'
    BY <2>1, <2>3, <2>5 DEF SleepInv, GoesOn
  <2>11. DriveInv'
    BY <2>1, <2>3, <2>4, <2>5 DEF DriveInv, GoesOn
  <2> QED BY <2>6, <2>7, <2>8, <2>9, <2>10, <2>11
<1> QED BY <1>1, <1>2

LEMMA BuildKeeps ==
    ASSUME BrowserInv, NEW c \in ToolCalls, Build(c)
    PROVE  BrowserInv'
<1> USE BrowserAssumption DEF BrowserInv, PaneShape, WebShape, host, webkit, waits
<1> DEFINE b == tab[c]
<1>1. /\ toolCall[c] = "building" /\ b \in Tabs \ unused /\ b \notin webviews /\ b \notin loading
      /\ \A d \in ToolCalls \ {c} : toolCall[d] \in {"building", "starting"} => tab[d] # b
      /\ \A d \in ToolCalls : toolCall[d] = "marking" => tab[d] # b
      /\ c \notin drivers
  BY DEF Build, IdInv, DriveInv
<1>2. \/ /\ GoesOn(c, "starting") /\ UNCHANGED <<entries, tab>> /\ webviews' = webviews \cup {b}
         /\ loading' = (IF b \in entries THEN loading \cup {b} ELSE loading)
         /\ loads' = loads + 1 /\ loads < MaxLoads
      \/ /\ GoesOn(c, "over") /\ UNCHANGED <<entries, loading, loads>> /\ webviews' = webviews \cup {b}
         /\ tab' = [tab EXCEPT ![c] = NoTab]
      \/ /\ GoesOn(c, "over") /\ UNCHANGED <<webviews, loads>>
         /\ entries' = entries \ {b} /\ loading' = loading
         /\ tab' = [tab EXCEPT ![c] = NoTab]
  BY <1>1, GoesEffect DEF Build, Return, Counted, Update, CallStages
<1>3. UNCHANGED <<driving, drivers, unused, queued, fetching, callback, forgetting, waits>>
  BY DEF Build
<1>4. /\ tab' \in [ToolCalls -> Tabs \cup {NoTab}] /\ tab'[c] \in {tab[c], NoTab}
      /\ \A d \in ToolCalls \ {c} : tab'[d] = tab[d]
      /\ toolCall' \in [ToolCalls -> CallStages] /\ toolCall'[c] \in {"starting", "over"}
      /\ toolCall'[c] = "starting" => tab'[c] = b /\ b \in webviews' /\ loads' = loads + 1
      /\ \A d \in ToolCalls \ {c} : toolCall'[d] = toolCall[d]
  BY <1>2 DEF ToolsShape, GoesOn
<1>5. /\ entries' \subseteq entries /\ loading' \subseteq entries' /\ loading \subseteq loading'
      /\ \A q \in Tabs : q \in loading' => q \in loading \/ q = b
      /\ webviews \subseteq webviews' /\ webviews' \subseteq webviews \cup {b}
      /\ loads' \in {loads, loads + 1} /\ loads' <= MaxLoads /\ loads \in Nat
  <2>1. loads \in Nat /\ loads <= MaxLoads
    BY DEF LoadsShape
  <2>2. loads' \in {loads, loads + 1} /\ loads' <= MaxLoads
    BY <1>2, <2>1
  <2>3. loading' \subseteq entries'
    BY <1>1, <1>2 DEF IdInv
  <2> QED BY <1>1, <1>2, <2>1, <2>2, <2>3
<1> HIDE DEF b
<1>6. EntriesShape'
  <2>1. IsFiniteSet(entries') /\ Cardinality(entries') <= MaxTotal
    <3>1. IsFiniteSet(entries) /\ Cardinality(entries) \in Nat /\ Cardinality(entries) <= MaxTotal
      BY FS_CardinalityType DEF EntriesShape
    <3>2. IsFiniteSet(entries') /\ Cardinality(entries') <= Cardinality(entries)
      BY <1>5, <3>1, FS_Subset
    <3>3. Cardinality(entries') \in Nat
      BY <3>2, FS_CardinalityType
    <3> QED BY <3>1, <3>2, <3>3
  <2> QED BY <1>3, <1>5, <2>1 DEF EntriesShape
<1>7. WebShape' /\ ToolsShape'
  <2>1. PagesShape'
    BY <1>1, <1>3, <1>5 DEF PagesShape
  <2>2. LoadsShape'
    BY <1>3, <1>5 DEF LoadsShape
  <2>3. CallbackShape' /\ ToolsShape'
    BY <1>3, <1>4 DEF CallbackShape, ToolsShape
  <2> QED BY <2>1, <2>2, <2>3
<1>8. IdInv'
  <2>1. /\ entries' \cap unused' = {} /\ webviews' \cap unused' = {} /\ loading' \subseteq entries'
        /\ \A q \in Tabs : forgetting'[q] # "no" => q \notin entries' /\ q \notin unused'
    BY <1>1, <1>3, <1>5 DEF IdInv
  <2>2. \A d \in ToolCalls : toolCall'[d] \notin {"none", "over"} => tab'[d] \in Tabs \ unused'
    BY <1>1, <1>3, <1>4 DEF IdInv
  <2>3. ASSUME NEW d \in ToolCalls, NEW e \in ToolCalls,
               {toolCall'[d], toolCall'[e]} \subseteq {"building", "starting"}, tab'[d] = tab'[e]
        PROVE  d = e
    BY <1>1, <1>4, <2>3 DEF IdInv
  <2>4. ASSUME NEW d \in ToolCalls
        PROVE  /\ toolCall'[d] = "building" =>
                      /\ tab'[d] \notin webviews' /\ tab'[d] \notin loading'
                      /\ \A e \in ToolCalls : toolCall'[e] = "marking" => tab'[e] # tab'[d]
               /\ toolCall'[d] = "starting" => tab'[d] \in webviews' \/ forgetting'[tab'[d]] = "done"
    BY <1>1, <1>3, <1>4, <1>5 DEF IdInv
  <2> QED BY <2>1, <2>2, <2>3, <2>4 DEF IdInv
<1>9. LoadsInv'
  <2>1. \A q \in Tabs : queued'[q] = queued[q] /\ queued[q] \in Nat /\ queued[q] <= loads
    BY <1>3 DEF LoadsInv, LoadsShape
  <2>2. \A q \in Tabs : queued'[q] <= loads'
    BY <1>5, <2>1
  <2>3. ASSUME NEW d \in ToolCalls, toolCall'[d] = "starting"
        PROVE  queued'[tab'[d]] < loads'
    <3>1. CASE d = c
      BY <1>1, <1>4, <1>5, <2>1, <2>3, <3>1
    <3>2. CASE d # c
      <4>1. tab'[d] \in Tabs /\ queued[tab'[d]] < loads
        BY <1>4, <2>3, <3>2 DEF LoadsInv, IdInv
      <4> QED BY <1>5, <2>1, <4>1
    <3> QED BY <3>1, <3>2
  <2> QED BY <2>2, <2>3 DEF LoadsInv
<1>10. SleepInv'
  BY <1>3, <1>4, <1>5 DEF SleepInv
<1>11. DriveInv'
  BY <1>1, <1>3, <1>4, <1>5 DEF DriveInv
<1> QED BY <1>6, <1>7, <1>8, <1>9, <1>10, <1>11

LEMMA StartLoadKeeps ==
    ASSUME BrowserInv, NEW c \in ToolCalls, StartLoad(c)
    PROVE  BrowserInv'
<1> USE DEF BrowserInv, PaneShape, WebShape, host, webkit, waits
<1>1. /\ toolCall[c] = "starting" /\ tab[c] \in Tabs \ unused
      /\ tab[c] \in webviews \/ forgetting[tab[c]] = "done"
      /\ \A d \in ToolCalls \ {c} : toolCall[d] = "starting" => tab[d] # tab[c]
      /\ c \notin drivers /\ queued[tab[c]] < loads
  BY DEF StartLoad, IdInv, DriveInv, LoadsInv
<1>2. tab[c] \notin webviews => tab[c] \notin entries
  BY <1>1 DEF IdInv
<1>3. /\ GoesOn(c, "waiting") /\ loading' = loading
      /\ queued' = queued \/ queued' = [queued EXCEPT ![tab[c]] = @ + 1]
      /\ UNCHANGED <<entries, driving, drivers, webviews, unused, fetching, loads, callback,
                     forgetting, waits, tab>>
  BY <1>2, GoesEffect DEF StartLoad, Update, Queue, CallStages
<1>4. /\ queued' \in [Tabs -> Nat]
      /\ \A q \in Tabs \ {tab[c]} : queued'[q] = queued[q]
      /\ queued'[tab[c]] <= loads
  <2>1. queued[tab[c]] \in Nat /\ queued[tab[c]] + 1 \in Nat /\ loads \in Nat
    BY <1>1 DEF LoadsShape
  <2> QED BY <1>1, <1>3, <2>1 DEF LoadsShape
<1>5. PaneShape'
  BY <1>3, <1>4 DEF EntriesShape, PagesShape, LoadsShape, CallbackShape, ToolsShape, GoesOn
<1>6. IdInv'
  BY <1>1, <1>3 DEF IdInv, GoesOn
<1>7. LoadsInv'
  <2>1. \A b \in Tabs : queued'[b] <= loads'
    BY <1>3, <1>4 DEF LoadsInv
  <2>2. ASSUME NEW d \in ToolCalls, toolCall'[d] = "starting"
        PROVE  queued'[tab'[d]] < loads'
    <3>1. d # c /\ toolCall[d] = "starting" /\ tab[d] # tab[c] /\ tab[d] \in Tabs
      BY <1>1, <1>3, <2>2 DEF GoesOn, IdInv
    <3> QED BY <1>3, <1>4, <3>1 DEF LoadsInv
  <2> QED BY <2>1, <2>2 DEF LoadsInv
<1>8. SleepInv'
  BY <1>3 DEF SleepInv, GoesOn
<1>9. DriveInv'
  BY <1>1, <1>3 DEF DriveInv, GoesOn
<1> QED BY <1>5, <1>6, <1>7, <1>8, <1>9

LEMMA BeginKeeps ==
    ASSUME BrowserInv, NEW c \in ToolCalls, Begin(c)
    PROVE  BrowserInv'
<1> USE DEF BrowserInv, PaneShape, WebShape, host, webkit, waits
<1>1. /\ toolCall[c] = "none" /\ c \notin drivers
      /\ UNCHANGED <<entries, loading, webviews, unused, webkit, callback, forgetting, waits>>
  BY DEF Begin, DriveInv
<1>2. PICK b \in entries :
          \/ /\ driving[b] = NoCaller
             /\ driving' = [driving EXCEPT ![b] = c] /\ tab' = [tab EXCEPT ![c] = b]
             /\ drivers' = drivers \cup {c} /\ GoesOn(c, "driving")
          \/ GoesOn(c, "over") /\ UNCHANGED <<driving, drivers, tab>>
  BY GoesEffect DEF Begin, CallStages
<1>3. b \in Tabs /\ b \notin unused
  BY DEF EntriesShape, IdInv
<1>4. CASE GoesOn(c, "over") /\ UNCHANGED <<driving, drivers, tab>>
  <2>1. PaneShape'
    BY <1>1, <1>4 DEF EntriesShape, PagesShape, LoadsShape, CallbackShape, ToolsShape, GoesOn
  <2>2. IdInv'
    BY <1>1, <1>4 DEF IdInv, GoesOn
  <2>3. LoadsInv' /\ SleepInv' /\ DriveInv'
    BY <1>1, <1>4 DEF LoadsInv, SleepInv, DriveInv, GoesOn
  <2> QED BY <2>1, <2>2, <2>3
<1>5. CASE ~(GoesOn(c, "over") /\ UNCHANGED <<driving, drivers, tab>>)
  <2>1. /\ driving[b] = NoCaller /\ drivers' = drivers \cup {c} /\ GoesOn(c, "driving")
        /\ tab' \in [ToolCalls -> Tabs \cup {NoTab}] /\ tab'[c] = b
        /\ \A d \in ToolCalls \ {c} : tab'[d] = tab[d]
        /\ driving' \in [Tabs -> ToolCalls \cup {NoCaller}] /\ driving'[b] = c
        /\ \A q \in Tabs \ {b} : driving'[q] = driving[q]
    BY <1>2, <1>3, <1>5 DEF ToolsShape, EntriesShape
  <2>2. EntriesShape' /\ WebShape'
    BY <1>1, <2>1 DEF EntriesShape, PagesShape, LoadsShape, CallbackShape
  <2>3. ToolsShape'
    BY <1>1, <2>1 DEF ToolsShape, GoesOn
  <2>4. IdInv'
    BY <1>1, <1>3, <2>1 DEF IdInv, GoesOn
  <2>5. LoadsInv'
    BY <1>1, <2>1 DEF LoadsInv, GoesOn
  <2>6. SleepInv'
    BY <1>1, <2>1 DEF SleepInv, GoesOn
  <2>7. DriveInv'
    <3>1. \A d \in drivers : d \in ToolCalls /\ tab[d] \in entries => tab[d] # b
      BY <2>1, BrowserAssumption DEF DriveInv, EntriesShape
    <3> QED BY <1>1, <1>3, <2>1, <3>1 DEF DriveInv, GoesOn, EntriesShape
  <2> QED BY <2>2, <2>3, <2>4, <2>5, <2>6, <2>7
<1> QED BY <1>4, <1>5

LEMMA NavigateKeeps ==
    ASSUME BrowserInv, NEW c \in ToolCalls, Navigate(c)
    PROVE  BrowserInv'
<1> USE BrowserAssumption DEF BrowserInv, PaneShape, WebShape, host, webkit, waits
<1>1. /\ toolCall[c] = "driving" /\ c \in drivers /\ tab[c] \in Tabs \ unused
      /\ UNCHANGED <<host, webviews, unused, fetching, callback, forgetting, waits, tab>>
  BY DEF Navigate, DriveInv, IdInv
<1>2. CASE UNCHANGED <<queued, loads>> /\ Goes(c, "ending")
  <2>1. GoesOn(c, "ending")
    BY <1>2, GoesEffect DEF CallStages
  <2>2. EntriesShape' /\ WebShape' /\ IdInv' /\ LoadsInv' /\ DriveInv'
    BY <1>1, <1>2, <2>1, QuietKeeps
  <2>3. ToolsShape' /\ SleepInv'
    BY <1>1, <2>1 DEF ToolsShape, SleepInv, GoesOn
  <2> QED BY <2>2, <2>3
<1>3. CASE ~(UNCHANGED <<queued, loads>> /\ Goes(c, "ending"))
  <2>1. /\ tab[c] \in webviews /\ loads < MaxLoads /\ loads' = loads + 1
        /\ queued' = [queued EXCEPT ![tab[c]] = @ + 1] /\ GoesOn(c, "marking")
    BY <1>3, GoesEffect DEF Navigate, Counted, Queue, CallStages
  <2>2. PaneShape' /\ LoadsInv'
    <3>1. loads \in Nat /\ loads' \in Nat /\ loads' <= MaxLoads
      BY <2>1 DEF LoadsShape
    <3>2. queued' \in [Tabs -> Nat] /\ \A b \in Tabs : queued'[b] <= loads'
      BY <1>1, <2>1, <3>1 DEF LoadsShape, LoadsInv
    <3>3. PaneShape'
      BY <1>1, <2>1, <3>1, <3>2 DEF EntriesShape, PagesShape, LoadsShape, CallbackShape, ToolsShape, GoesOn
    <3>4. ASSUME NEW d \in ToolCalls, toolCall'[d] = "starting"
          PROVE  queued'[tab'[d]] < loads'
      <4>1. toolCall[d] = "starting" /\ tab[d] \in Tabs /\ queued[tab[d]] < loads
            /\ queued[tab[d]] \in Nat
        BY <2>1, <3>4 DEF GoesOn, LoadsInv, IdInv, LoadsShape
      <4> QED BY <1>1, <2>1, <3>1, <4>1 DEF LoadsShape
    <3> QED BY <3>2, <3>3, <3>4 DEF LoadsInv
  <2>3. IdInv'
    BY <1>1, <2>1 DEF IdInv, GoesOn
  <2>4. SleepInv'
    BY <1>1, <2>1 DEF SleepInv, GoesOn
  <2>5. DriveInv'
    BY <1>1, <2>1 DEF DriveInv, GoesOn
  <2> QED BY <2>2, <2>3, <2>4, <2>5
<1> QED BY <1>2, <1>3

LEMMA MarkKeeps ==
    ASSUME BrowserInv, NEW c \in ToolCalls, Mark(c)
    PROVE  BrowserInv'
<1> USE DEF BrowserInv, PaneShape, WebShape, host, webkit, waits
<1>1. /\ toolCall[c] = "marking" /\ tab[c] \in Tabs \ unused /\ c \in drivers
      /\ UNCHANGED <<entries, driving, drivers, webviews, unused, webkit, callback, forgetting,
                     waits, tab>>
  BY DEF Mark, IdInv, DriveInv
<1>2. loading' = (IF tab[c] \in entries THEN loading \cup {tab[c]} ELSE loading)
  BY DEF Mark, Update
<1>3. PICK s \in {"waiting", "ending"} : GoesOn(c, s)
  BY GoesEffect DEF Mark, CallStages
<1>4. PaneShape'
  BY <1>1, <1>2, <1>3 DEF EntriesShape, PagesShape, LoadsShape, CallbackShape, ToolsShape, GoesOn
<1>5. IdInv'
  BY <1>1, <1>2, <1>3 DEF IdInv, GoesOn
<1>6. LoadsInv'
  BY <1>1, <1>3 DEF LoadsInv, GoesOn
<1>7. SleepInv'
  BY <1>1, <1>2, <1>3 DEF SleepInv, GoesOn
<1>8. DriveInv'
  BY <1>1, <1>3 DEF DriveInv, GoesOn
<1> QED BY <1>4, <1>5, <1>6, <1>7, <1>8

LEMMA WaitForLoadKeeps ==
    ASSUME BrowserInv, NEW c \in ToolCalls, WaitForLoad(c)
    PROVE  BrowserInv'
<1> USE DEF BrowserInv, PaneShape, WebShape, host, webkit, waits
<1>1. /\ toolCall[c] = "waiting" /\ tab[c] \in Tabs
      /\ UNCHANGED <<host, webviews, unused, webkit, callback, forgetting, owed, woken, tab>>
  BY DEF WaitForLoad, IdInv
<1>2. /\ sleepers' \in [Tabs -> SUBSET ToolCalls]
      /\ \A b \in Tabs : sleepers[b] \subseteq sleepers'[b]
      /\ \/ GoesOn(c, "sleeping") /\ tab[c] \in loading /\ c \in sleepers'[tab[c]]
         \/ GoesOn(c, "asking")
  BY <1>1, GoesEffect DEF WaitForLoad, CallStages, ToolsShape
<1>3. EntriesShape' /\ WebShape' /\ IdInv' /\ LoadsInv' /\ DriveInv'
  BY <1>1, <1>2, QuietKeeps
<1>4. ToolsShape'
  BY <1>1, <1>2 DEF ToolsShape, GoesOn
<1>5. SleepInv'
  <2>1. ASSUME NEW d \in ToolCalls, toolCall'[d] = "sleeping", woken[d] = "nothing"
        PROVE  /\ d \in sleepers'[tab[d]]
               /\ \/ tab[d] \in loading
                  \/ callback[1] \in {"loaded", "loaded and failing"} /\ callback[2] = tab[d]
                  \/ forgetting[tab[d]] \in {"requests", "waiters"}
    <3>1. CASE d = c
      BY <1>2, <2>1, <3>1 DEF GoesOn
    <3>2. CASE d # c
      <4>1. toolCall[d] = "sleeping" /\ tab[d] \in Tabs
        BY <1>2, <2>1, <3>2 DEF GoesOn, IdInv
      <4> QED BY <1>2, <2>1, <4>1 DEF SleepInv
    <3> QED BY <3>1, <3>2
  <2> QED BY <1>1, <2>1 DEF SleepInv
<1> QED BY <1>3, <1>4, <1>5

\* What a call does once it has waited.
LEMMA AskingKeeps ==
    ASSUME BrowserInv, NEW c \in ToolCalls,
           Wake(c) \/ AskPage(c) \/ HearAnswer(c) \/ AnswerTooLate(c)
    PROVE  BrowserInv'
<1> USE DEF BrowserInv, PaneShape, WebShape, host, webkit, waits
<1>1. /\ toolCall[c] \in {"sleeping", "asking", "asked"}
      /\ UNCHANGED <<host, webviews, unused, webkit, callback, forgetting, sleepers, tab>>
  BY DEF Wake, AskPage, HearAnswer, AnswerTooLate
<1>2. PICK s \in {"asking", "asked", "ending"} : GoesOn(c, s)
  BY GoesEffect DEF Wake, AskPage, HearAnswer, AnswerTooLate, CallStages
<1>3. owed' \in [Tabs -> SUBSET ToolCalls]
  <2>1. tab[c] \in Tabs
    BY <1>1 DEF IdInv
  <2> QED BY <2>1 DEF Wake, AskPage, HearAnswer, AnswerTooLate, ToolsShape
<1>4. /\ woken' \in [ToolCalls -> {"nothing", "loaded", "closed", "failed", "answered"}]
      /\ \A d \in ToolCalls \ {c} : woken'[d] = woken[d]
  BY DEF Wake, AskPage, HearAnswer, AnswerTooLate, ToolsShape
<1>5. EntriesShape' /\ WebShape' /\ IdInv' /\ LoadsInv' /\ DriveInv'
  BY <1>1, <1>2, QuietKeeps
<1>6. ToolsShape'
  BY <1>1, <1>2, <1>3, <1>4 DEF ToolsShape, GoesOn
<1>7. SleepInv'
  BY <1>1, <1>2, <1>4 DEF SleepInv, GoesOn
<1> QED BY <1>5, <1>6, <1>7

LEMMA EndKeeps ==
    ASSUME BrowserInv, NEW c \in ToolCalls, End(c)
    PROVE  BrowserInv'
<1> USE DEF BrowserInv, PaneShape, WebShape, host, webkit, waits
<1>1. /\ toolCall[c] = "ending" /\ drivers' = drivers \ {c}
      /\ UNCHANGED <<entries, loading, webviews, unused, webkit, callback, forgetting, waits>>
  BY DEF End
<1>2. GoesOn(c, "over")
  BY GoesEffect DEF End, Return, CallStages
<1>3. /\ tab' \in [ToolCalls -> Tabs \cup {NoTab}]
      /\ \A d \in ToolCalls \ {c} : tab'[d] = tab[d]
      /\ driving' \in [Tabs -> ToolCalls \cup {NoCaller}]
      /\ \A q \in Tabs : driving'[q] = driving[q] \/ (c \in drivers /\ q = tab[c])
  BY DEF End, Return, ToolsShape, EntriesShape
<1>4. EntriesShape' /\ WebShape'
  BY <1>1, <1>3 DEF EntriesShape, PagesShape, LoadsShape, CallbackShape
<1>5. ToolsShape'
  BY <1>1, <1>2, <1>3 DEF ToolsShape, GoesOn
<1>6. IdInv'
  BY <1>1, <1>2, <1>3 DEF IdInv, GoesOn
<1>7. LoadsInv'
  BY <1>1, <1>2, <1>3 DEF LoadsInv, GoesOn
<1>8. SleepInv'
  BY <1>1, <1>2, <1>3 DEF SleepInv, GoesOn
<1>9. DriveInv'
  <2>1. ASSUME NEW d \in ToolCalls, d # c, d \in drivers, tab[d] \in entries
        PROVE  driving'[tab[d]] = d
    <3>1. driving[tab[d]] = d /\ tab[d] \in Tabs
      BY <2>1 DEF DriveInv, EntriesShape
    <3>2. ~(c \in drivers /\ tab[d] = tab[c])
      BY <2>1, <3>1 DEF DriveInv
    <3> QED BY <1>3, <3>1, <3>2
  <2> QED BY <1>1, <1>2, <1>3, <2>1 DEF DriveInv, GoesOn
<1> QED BY <1>4, <1>5, <1>6, <1>7, <1>8, <1>9

-----------------------------------------------------------------------------
(* The pages, the main thread and the closes.                              *)

LEMMA LinkKeeps ==
    ASSUME BrowserInv, NEW b \in Tabs, Link(b)
    PROVE  BrowserInv'
<1> USE BrowserAssumption DEF BrowserInv, PaneShape, WebShape, host, webkit, waits
<1>1. /\ loads < MaxLoads /\ loads' = loads + 1 /\ queued' = [queued EXCEPT ![b] = @ + 1]
      /\ UNCHANGED <<host, webviews, unused, fetching, callback, forgetting, waits, toolCall, tab>>
  BY DEF Link, Counted, Queue
<1>2. loads \in Nat /\ loads' \in Nat /\ loads' <= MaxLoads
  BY <1>1 DEF LoadsShape
<1>3. queued' \in [Tabs -> Nat] /\ \A q \in Tabs : queued'[q] <= queued[q] + 1 /\ queued[q] \in Nat
  BY <1>1 DEF LoadsShape
<1>4. PaneShape'
  BY <1>1, <1>2, <1>3 DEF EntriesShape, PagesShape, LoadsShape, CallbackShape, ToolsShape
<1>5. IdInv' /\ SleepInv' /\ DriveInv'
  <2>1. IdInv'
    BY <1>1 DEF IdInv
  <2>2. SleepInv'
    BY <1>1 DEF SleepInv
  <2>3. DriveInv'
    BY <1>1 DEF DriveInv
  <2> QED BY <2>1, <2>2, <2>3
<1>6. LoadsInv'
  <2>1. \A q \in Tabs : queued'[q] <= loads'
    BY <1>1, <1>2, <1>3 DEF LoadsInv
  <2>2. ASSUME NEW d \in ToolCalls, toolCall[d] = "starting"
        PROVE  queued'[tab[d]] < loads'
    <3>1. tab[d] \in Tabs /\ queued[tab[d]] < loads
      BY <2>2 DEF IdInv, LoadsInv
    <3> QED BY <1>1, <1>2, <1>3, <3>1
  <2> QED BY <1>1, <2>1, <2>2 DEF LoadsInv
<1> QED BY <1>4, <1>5, <1>6

LEMMA LoadStartsKeeps ==
    ASSUME BrowserInv, NEW b \in Tabs, LoadStarts(b)
    PROVE  BrowserInv'
<1> USE DEF BrowserInv, PaneShape, WebShape, host, webkit, waits
<1>1. /\ b \in webviews /\ queued[b] > 0 /\ queued' = [queued EXCEPT ![b] = @ - 1]
      /\ fetching' = fetching \cup {b}
      /\ loading' = (IF b \in entries THEN loading \cup {b} ELSE loading)
      /\ UNCHANGED <<entries, driving, drivers, webviews, unused, loads, callback, forgetting,
                     waits, toolCall, tab>>
  BY DEF LoadStarts, Update
<1>2. /\ queued' \in [Tabs -> Nat] /\ loads \in Nat
      /\ \A q \in Tabs : queued'[q] <= queued[q] /\ queued[q] \in Nat /\ queued'[q] \in Nat
  <2>1. queued[b] \in Nat /\ queued[b] - 1 \in Nat
    BY <1>1 DEF LoadsShape
  <2> QED BY <1>1, <2>1 DEF LoadsShape
<1>3. PaneShape'
  BY <1>1, <1>2 DEF EntriesShape, PagesShape, LoadsShape, CallbackShape, ToolsShape
<1>4. IdInv'
  <2>1. loading' \subseteq entries' /\ \A q \in loading' : q \in loading \/ q \in webviews
    BY <1>1 DEF IdInv
  <2> QED BY <1>1, <2>1, NobodysKeep DEF IdInv
<1>5. LoadsInv'
  <2>1. \A q \in Tabs : queued'[q] <= loads
    BY <1>2 DEF LoadsInv
  <2>2. ASSUME NEW d \in ToolCalls, toolCall[d] = "starting"
        PROVE  queued'[tab[d]] < loads
    <3>1. tab[d] \in Tabs /\ queued[tab[d]] < loads
      BY <2>2 DEF IdInv, LoadsInv
    <3> QED BY <1>2, <3>1
  <2> QED BY <1>1, <2>1, <2>2 DEF LoadsInv
<1>6. SleepInv'
  BY <1>1 DEF SleepInv
<1>7. DriveInv'
  BY <1>1 DEF DriveInv
<1> QED BY <1>3, <1>4, <1>5, <1>6, <1>7

\* A load ends, or the page dies under it: who sleeps has the callback to come.
LEMMA LoadEndsKeep ==
    ASSUME BrowserInv, NEW b \in Tabs, LoadEnds(b) \/ ProcessDies(b)
    PROVE  BrowserInv'
<1> USE DEF BrowserInv, PaneShape, WebShape, host, webkit, waits
<1>1. /\ callback = Idle /\ callback' \in {<<"loaded", b>>, <<"loaded and failing", b>>}
      /\ fetching' = fetching \ {b}
      /\ loading' = (IF b \in entries THEN loading \ {b} ELSE loading)
      /\ UNCHANGED <<entries, driving, drivers, webviews, unused, queued, loads, forgetting,
                     waits, toolCall, tab>>
  BY DEF LoadEnds, ProcessDies, Update
<1>2. callback[1] = "idle" /\ callback'[1] \in {"loaded", "loaded and failing"} /\ callback'[2] = b
      /\ callback' \in {"idle", "loaded", "loaded and failing", "failing"} \X (Tabs \cup {NoTab})
  <2>1. callback[1] = "idle"
    BY <1>1 DEF Idle
  <2>2. CASE callback' = <<"loaded", b>>
    BY <2>1, <2>2
  <2>3. CASE callback' = <<"loaded and failing", b>>
    BY <2>1, <2>3
  <2> QED BY <1>1, <2>2, <2>3
<1>3. PaneShape'
  BY <1>1, <1>2 DEF EntriesShape, PagesShape, LoadsShape, CallbackShape, ToolsShape
<1>4. IdInv'
  <2>1. loading' \subseteq entries' /\ \A q \in loading' : q \in loading
    BY <1>1 DEF IdInv
  <2> QED BY <1>1, <2>1, NobodysKeep DEF IdInv
<1>5. LoadsInv' /\ DriveInv'
  BY <1>1 DEF LoadsInv, DriveInv
<1>6. SleepInv'
  BY <1>1, <1>2 DEF SleepInv
<1> QED BY <1>3, <1>4, <1>5, <1>6

LEMMA CallbacksKeep ==
    ASSUME BrowserInv, Loaded \/ FailPending \/ \E b \in Tabs : Answers(b)
    PROVE  BrowserInv'
<1> USE DEF BrowserInv, PaneShape, WebShape, host, webkit, waits
<1>1. /\ UNCHANGED <<host, webviews, unused, webkit, forgetting, toolCall, tab>>
      /\ callback' \in {"idle", "loaded", "loaded and failing", "failing"} \X (Tabs \cup {NoTab})
      /\ callback'[1] # "idle" => callback'[2] \in Tabs
  <2>1. CASE Loaded
    BY <2>1 DEF Loaded, PagesShape, LoadsShape, CallbackShape, Idle
  <2>2. CASE FailPending
    BY <2>2 DEF FailPending, PagesShape, LoadsShape, CallbackShape, Idle
  <2>3. CASE \E b \in Tabs : Answers(b)
    BY <2>3 DEF Answers, PagesShape, LoadsShape, CallbackShape
  <2> QED BY <2>1, <2>2, <2>3
<1>2. EntriesShape' /\ WebShape' /\ IdInv' /\ LoadsInv' /\ DriveInv'
  BY <1>1, ZenonT(60) DEF EntriesShape, PagesShape, LoadsShape, CallbackShape, IdInv, LoadsInv, DriveInv
<1>3. CASE Loaded
  <2> DEFINE b == callback[2]
  <2>1. b \in Tabs /\ callback[1] \in {"loaded", "loaded and failing"}
    BY <1>3 DEF Loaded, PagesShape, LoadsShape, CallbackShape
  <2>2. /\ Notify({c \in sleepers[b] : toolCall[c] = "sleeping"}, "loaded")
        /\ sleepers' = [sleepers EXCEPT ![b] = {}] /\ UNCHANGED owed
    BY <1>3 DEF Loaded
  <2> HIDE DEF b
  <2>3. ToolsShape'
    BY <1>1, <2>1, <2>2, NotifyEffect DEF ToolsShape
  <2>4. ASSUME NEW c \in ToolCalls, toolCall[c] = "sleeping", woken'[c] = "nothing"
        PROVE  /\ c \in sleepers'[tab[c]]
               /\ tab[c] \in loading \/ forgetting[tab[c]] \in {"requests", "waiters"}
    <3>1. woken[c] = "nothing" /\ c \notin sleepers[b]
      BY <2>2, <2>4, NotifyEffect
    <3>2. c \in sleepers[tab[c]] /\ tab[c] \in Tabs
      BY <2>4, <3>1 DEF SleepInv, IdInv
    <3>3. tab[c] # b
      BY <3>1, <3>2
    <3> QED BY <2>1, <2>2, <2>4, <3>1, <3>2, <3>3 DEF SleepInv, ToolsShape, b
  <2>5. SleepInv'
    BY <1>1, <2>4 DEF SleepInv
  <2> QED BY <1>2, <2>3, <2>5
<1>4. CASE FailPending
  <2>1. /\ Notify(owed[callback[2]], "failed") /\ owed' = [owed EXCEPT ![callback[2]] = {}]
        /\ callback[1] = "failing" /\ UNCHANGED sleepers
    BY <1>4 DEF FailPending
  <2>2. ToolsShape'
    BY <1>1, <2>1, NotifyEffect DEF ToolsShape
  <2>3. SleepInv'
    BY <1>1, <2>1, NotifyEffect DEF SleepInv
  <2> QED BY <1>2, <2>2, <2>3
<1>5. ASSUME NEW b \in Tabs, Answers(b)
      PROVE  BrowserInv'
  <2>1. PICK c \in owed[b] : Notify({c}, "answered") /\ owed' = [owed EXCEPT ![b] = @ \ {c}]
    BY <1>5 DEF Answers
  <2>2. UNCHANGED <<sleepers, callback>>
    BY <1>5 DEF Answers
  <2>3. ToolsShape'
    BY <1>1, <2>1, <2>2, NotifyEffect DEF ToolsShape
  <2>4. SleepInv'
    BY <1>1, <2>1, <2>2, NotifyEffect DEF SleepInv
  <2> QED BY <1>2, <2>3, <2>4
<1> QED BY <1>3, <1>4, <1>5

LEMMA CloseKeeps ==
    ASSUME BrowserInv, NEW b \in Tabs, Close(b)
    PROVE  BrowserInv'
<1> USE BrowserAssumption DEF BrowserInv, PaneShape, WebShape, host, webkit, waits
<1>1. /\ forgetting[b] = "no" /\ b \in entries /\ entries' = entries \ {b} /\ loading' = loading \ {b}
      /\ driving' \in [Tabs -> ToolCalls \cup {NoCaller}]
      /\ \A q \in Tabs \ {b} : driving'[q] = driving[q]
      /\ forgetting' \in [Tabs -> {"no", "requests", "waiters", "webview", "done"}]
      /\ forgetting'[b] = "requests" /\ \A q \in Tabs \ {b} : forgetting'[q] = forgetting[q]
      /\ UNCHANGED <<drivers, webviews, unused, webkit, callback, waits, toolCall, tab>>
  BY DEF Close, EntriesShape
<1>2. EntriesShape'
  <2>1. IsFiniteSet(entries') /\ Cardinality(entries') = Cardinality(entries) - 1
        /\ Cardinality(entries) \in Nat
    BY <1>1, FS_RemoveElement, FS_CardinalityType DEF EntriesShape
  <2> QED BY <1>1, <2>1 DEF EntriesShape
<1>3. WebShape' /\ ToolsShape'
  BY <1>1 DEF PagesShape, LoadsShape, CallbackShape, ToolsShape
<1>4. IdInv'
  <2>1. \A q \in Tabs : forgetting'[q] # "no" => q \notin entries' /\ q \notin unused
    BY <1>1 DEF IdInv
  <2>2. loading' \subseteq entries'
    BY <1>1 DEF IdInv
  <2>3. \A q \in Tabs : forgetting[q] = "done" => forgetting'[q] = "done"
    BY <1>1
  <2> QED BY <1>1, <2>1, <2>2, <2>3, NobodysKeep
<1>5. LoadsInv'
  BY <1>1 DEF LoadsInv
<1>6. SleepInv'
  <2>1. \A c \in ToolCalls : toolCall[c] = "sleeping" => tab[c] \in Tabs
    BY DEF IdInv
  <2> QED BY <1>1, <2>1 DEF SleepInv
<1>7. DriveInv'
  BY <1>1 DEF DriveInv, EntriesShape
<1> QED BY <1>2, <1>3, <1>4, <1>5, <1>6, <1>7

\* The steps of a close that answer who waits.
LEMMA DropsKeep ==
    ASSUME BrowserInv, NEW b \in Tabs, DropRequests(b) \/ DropWaiters(b)
    PROVE  BrowserInv'
<1> USE DEF BrowserInv, PaneShape, WebShape, host, webkit, waits
<1>1. /\ UNCHANGED <<host, webviews, unused, webkit, callback, toolCall, tab>>
      /\ forgetting[b] \in {"requests", "waiters"}
      /\ forgetting' \in [Tabs -> {"no", "requests", "waiters", "webview", "done"}]
      /\ forgetting'[b] = (IF forgetting[b] = "requests" THEN "waiters" ELSE "webview")
      /\ \A q \in Tabs \ {b} : forgetting'[q] = forgetting[q]
  BY DEF DropRequests, DropWaiters, EntriesShape
<1>2. EntriesShape' /\ WebShape' /\ LoadsInv' /\ DriveInv'
  BY <1>1 DEF EntriesShape, PagesShape, LoadsShape, CallbackShape, LoadsInv, DriveInv
<1>3. IdInv'
  <2>1. \A q \in Tabs : forgetting'[q] # "no" => q \notin entries' /\ q \notin unused
    BY <1>1 DEF IdInv
  <2>2. \A q \in Tabs : forgetting[q] = "done" => forgetting'[q] = "done"
    BY <1>1
  <2>3. loading' \subseteq entries'
    BY <1>1 DEF IdInv
  <2> QED BY <1>1, <2>1, <2>2, <2>3, NobodysKeep
<1>4. \A c \in ToolCalls : toolCall[c] = "sleeping" => tab[c] \in Tabs
  BY DEF IdInv
<1>5. CASE DropRequests(b)
  <2>1. /\ Notify(owed[b], "closed") /\ owed' = [owed EXCEPT ![b] = {}] /\ UNCHANGED sleepers
        /\ forgetting[b] = "requests"
    BY <1>5 DEF DropRequests
  <2>2. ToolsShape'
    BY <1>1, <2>1, NotifyEffect DEF ToolsShape
  <2>3. SleepInv'
    BY <1>1, <1>4, <2>1, NotifyEffect DEF SleepInv
  <2> QED BY <1>2, <1>3, <2>2, <2>3
<1>6. CASE DropWaiters(b)
  <2>1. /\ Notify({c \in sleepers[b] : toolCall[c] = "sleeping"}, "closed")
        /\ sleepers' = [sleepers EXCEPT ![b] = {}] /\ UNCHANGED owed /\ forgetting[b] = "waiters"
    BY <1>6 DEF DropWaiters
  <2>2. ToolsShape'
    BY <1>1, <2>1, NotifyEffect DEF ToolsShape
  <2>3. ASSUME NEW c \in ToolCalls, toolCall[c] = "sleeping", woken'[c] = "nothing"
        PROVE  /\ c \in sleepers'[tab[c]] /\ woken[c] = "nothing" /\ tab[c] # b
    <3>1. woken[c] = "nothing" /\ c \notin sleepers[b]
      BY <2>1, <2>3, NotifyEffect
    <3>2. c \in sleepers[tab[c]] /\ tab[c] \in Tabs
      BY <1>4, <2>3, <3>1 DEF SleepInv
    <3> QED BY <2>1, <3>1, <3>2 DEF ToolsShape
  <2>4. SleepInv'
    BY <1>1, <1>4, <2>3 DEF SleepInv
  <2> QED BY <1>2, <1>3, <2>2, <2>4
<1> QED BY <1>5, <1>6

LEMMA CloseWebviewKeeps ==
    ASSUME BrowserInv, NEW b \in Tabs, CloseWebview(b)
    PROVE  BrowserInv'
<1> USE DEF BrowserInv, PaneShape, WebShape, host, webkit, waits
<1>1. /\ webviews' = webviews \ {b} /\ fetching' = fetching \ {b} /\ forgetting[b] = "webview"
      /\ queued' = [queued EXCEPT ![b] = 0]
      /\ forgetting' \in [Tabs -> {"no", "requests", "waiters", "webview", "done"}]
      /\ forgetting'[b] = "done" /\ \A q \in Tabs \ {b} : forgetting'[q] = forgetting[q]
      /\ UNCHANGED <<host, unused, loads, callback, waits, toolCall, tab>>
  BY DEF CloseWebview, EntriesShape
<1>2. /\ queued' \in [Tabs -> Nat] /\ loads \in Nat
      /\ \A q \in Tabs : queued'[q] <= queued[q] /\ queued[q] \in Nat /\ queued'[q] \in Nat
  BY <1>1 DEF LoadsShape
<1>3. PaneShape'
  BY <1>1, <1>2 DEF EntriesShape, PagesShape, LoadsShape, CallbackShape, ToolsShape
<1>4. IdInv'
  <2>1. \A q \in Tabs : forgetting'[q] # "no" => q \notin entries' /\ q \notin unused
    BY <1>1 DEF IdInv
  <2>2. /\ \A q \in Tabs : forgetting[q] = "done" => forgetting'[q] = "done"
        /\ \A q \in webviews : q \in webviews' \/ forgetting'[q] = "done"
    BY <1>1
  <2>3. loading' \subseteq entries'
    BY <1>1 DEF IdInv
  <2> QED BY <1>1, <2>1, <2>2, <2>3, NobodysKeep
<1>5. LoadsInv'
  <2>1. \A q \in Tabs : queued'[q] <= loads
    BY <1>2 DEF LoadsInv
  <2>2. ASSUME NEW d \in ToolCalls, toolCall[d] = "starting"
        PROVE  queued'[tab[d]] < loads
    <3>1. tab[d] \in Tabs /\ queued[tab[d]] < loads
      BY <2>2 DEF IdInv, LoadsInv
    <3> QED BY <1>2, <3>1
  <2> QED BY <1>1, <2>1, <2>2 DEF LoadsInv
<1>6. SleepInv'
  <2>1. \A c \in ToolCalls : toolCall[c] = "sleeping" => tab[c] \in Tabs
    BY DEF IdInv
  <2> QED BY <1>1, <2>1 DEF SleepInv
<1>7. DriveInv'
  BY <1>1 DEF DriveInv
<1> QED BY <1>3, <1>4, <1>5, <1>6, <1>7

-----------------------------------------------------------------------------
(* The theorem.                                                            *)

LEMMA BrowserStep ==
    ASSUME BrowserInv, [BrowserNext]_browserVars
    PROVE  BrowserInv'
<1>1. CASE UNCHANGED browserVars
  <2> USE <1>1 DEF browserVars, host, webkit, waits, BrowserInv
  <2>1. PaneShape'
    BY DEF PaneShape, EntriesShape, WebShape, PagesShape, LoadsShape, CallbackShape, ToolsShape
  <2>2. IdInv'
    BY DEF IdInv
  <2>3. LoadsInv'
    BY DEF LoadsInv
  <2>4. SleepInv'
    BY DEF SleepInv
  <2>5. DriveInv'
    BY DEF DriveInv
  <2> QED BY <2>1, <2>2, <2>3, <2>4, <2>5
<1>2. CASE BrowserNext
  BY <1>2, TakeSlotKeeps, BeginKeeps, BuildKeeps, StartLoadKeeps, NavigateKeeps, MarkKeeps,
     WaitForLoadKeeps, AskingKeeps, EndKeeps, LinkKeeps, LoadStartsKeeps, LoadEndsKeep,
     CallbacksKeep, CloseKeeps, DropsKeep, CloseWebviewKeeps DEF BrowserNext
<1> QED BY <1>1, <1>2

LEMMA BrowserStart ==
    ASSUME BrowserInit
    PROVE  BrowserInv
<1> USE BrowserAssumption DEF BrowserInit
<1>1. EntriesShape
  BY DEF EntriesShape
<1>2. WebShape
  <2>1. PagesShape
    BY DEF PagesShape
  <2>2. LoadsShape
    BY DEF LoadsShape
  <2>3. CallbackShape
    BY DEF CallbackShape, Idle
  <2> QED BY <2>1, <2>2, <2>3 DEF WebShape
<1>3. ToolsShape
  BY DEF ToolsShape, CallStages
<1>4. IdInv /\ LoadsInv /\ SleepInv /\ DriveInv
  BY DEF IdInv, LoadsInv, SleepInv, DriveInv
<1> QED BY <1>1, <1>2, <1>3, <1>4 DEF BrowserInv, PaneShape

LEMMA BrowserInvSays ==
    ASSUME BrowserInv
    PROVE  BrowserOK
<1> USE DEF BrowserInv, PaneShape, WebShape
<1>1. BrowserTypeOK
  <2>1. queued \in [Tabs -> 0 .. MaxLoads]
    BY BrowserAssumption DEF LoadsShape, LoadsInv
  <2>2. webviews \subseteq Tabs \ unused
    BY DEF PagesShape, IdInv
  <2> QED BY <2>1, <2>2 DEF BrowserTypeOK, EntriesShape, PagesShape, LoadsShape, CallbackShape, ToolsShape, CallStages, IdInv
<1>2. NobodySleepsOn
  BY DEF NobodySleepsOn, SleepInv
<1>3. DrivenByOne
  BY DEF DrivenByOne, DriveInv
<1> QED BY <1>1, <1>2, <1>3 DEF BrowserOK

\* Browser: concurrent opens never pass the cap, a call that waits for a load is on a
\* list that its end, its failure or the pane's close will go through, and a pane is
\* driven by one call at a time (browser.rs).
THEOREM BrowserSafe == BrowserSpec => []BrowserOK
<1>1. BrowserSpec => []BrowserInv
  BY BrowserStart, BrowserStep, PTL DEF BrowserSpec
<1> QED BY <1>1, BrowserInvSays, PTL
=============================================================================
