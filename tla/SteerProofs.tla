----------------------------- MODULE SteerProofs -----------------------------
(* Proofs about Sessions, continued: what becomes of a message that joins  *)
(* a turn, for any number of messages, and what the pane says of it.       *)
EXTENDS DriverProofs

-----------------------------------------------------------------------------
(* What the steps of a driver have: frames of a kind, or the news that a    *)
(* turn has started or is over.                                             *)

HandFrames == {f \in Frames : f.is \in {"init", "auth", "open"}}
HandLines == {l \in Lines : l.is \in {"init", "auth", "open"}}
TurnFrames == {f \in Frames : f.is \in {"turn/start", "compact", "prompt", "user"}}
OwnFrames(m) == {f \in Frames : f.is \in {"turn/start", "prompt"} /\ m \in ToSet(f.msgs)}
Endings == {Finished, Failed}
Loud == {x \in Steps : x.it.is \in {"init", "auth", "open", "turn/start", "compact", "prompt", "user",
                                    "started", "finished", "failed"}}

LEMMA LoudFacts ==
    ASSUME NEW s, Lacks(s, Loud)
    PROVE  /\ Lacks(s, Writing(HandFrames)) /\ Lacks(s, Writing(TurnFrames))
           /\ Lacks(s, {Started}) /\ Lacks(s, Endings) /\ Lacks(s, {Finished})
<1>1. Writing(HandFrames) \subseteq Loud /\ Writing(TurnFrames) \subseteq Loud
  BY DEF Writing, HandFrames, TurnFrames, Loud
<1>2. {Started, Finished, Failed} \subseteq Loud
  BY EmitsAreSteps DEF Loud, Started, Finished, Failed, Emit
<1> QED BY <1>1, <1>2 DEF Lacks, Endings

LEMMA Mild ==
    /\ Lacks(<<>>, Loud)
    /\ \A x \in Steps : x \notin Loud => Lacks(<<x>>, Loud)
    /\ \A a : Card(a) \notin Loud /\ Settled(a) \notin Loud /\ Write(Reply(a)) \notin Loud
    /\ \A m : Echo(m) \notin Loud /\ \A T : Write(TurnSteer(m, T)) \notin Loud
    /\ \A T : Write(Interrupt(T)) \notin Loud
    /\ \A ms : Lacks(Echoes(ms), Loud)
    /\ \A as : Lacks(Dismiss(as), Loud)
<1>1. /\ \A a : Card(a) \notin Loud /\ Settled(a) \notin Loud /\ Write(Reply(a)) \notin Loud
      /\ \A m : Echo(m) \notin Loud /\ \A T : Write(TurnSteer(m, T)) \notin Loud
      /\ \A T : Write(Interrupt(T)) \notin Loud
  BY DEF Loud, Card, Settled, Write, Reply, Echo, Emit, TurnSteer, Interrupt
<1>2. ASSUME NEW as PROVE Lacks(Dismiss(as), Loud)
  <2> DEFINE s == SetToSeq(as)
             D == Dismiss(as)
  <2>1. \A i \in DOMAIN D : D[i] = Write(Reply(s[(i + 1) \div 2])) \/ D[i] = Settled(s[i \div 2])
    BY DEF Dismiss
  <2> HIDE DEF D, s
  <2> QED BY <1>1, <2>1 DEF Lacks, D
<1>3. \A ms : Lacks(Echoes(ms), Loud)
  BY <1>1 DEF Lacks, Echoes
<1>4. Lacks(<<>>, Loud) /\ \A x \in Steps : x \notin Loud => Lacks(<<x>>, Loud)
  BY DEF Lacks
<1> QED BY <1>1, <1>2, <1>3, <1>4

\* The steps that are of a kind, one by one.
LEMMA OfKind ==
    /\ \A T \in Turn : /\ Write(TurnStart(T)) \in Writing(TurnFrames)
                       /\ Write(TurnStart(T)) \in Writing({TurnStart(T)})
                       /\ Write(TurnStart(T)) \notin Writing(HandFrames)
                       /\ \A m \in ToSet(T) : Write(TurnStart(T)) \in Writing(OwnFrames(m))
                       /\ Write(Prompt(T)) \in Writing(TurnFrames)
                       /\ Write(Prompt(T)) \in Writing({Prompt(T)})
                       /\ Write(Prompt(T)) \notin Writing(HandFrames)
                       /\ \A m \in ToSet(T) : Write(Prompt(T)) \in Writing(OwnFrames(m))
                       /\ Write([is |-> "compact", msgs |-> T]) \in Writing(TurnFrames)
                       /\ Write([is |-> "compact", msgs |-> T]) \notin Writing(HandFrames)
    /\ \A T \in Turn : /\ Write(TurnStart(T)) \notin {Started, Finished, Failed}
                       /\ Write(Prompt(T)) \notin {Started, Finished, Failed}
                       /\ Write([is |-> "compact", msgs |-> T]) \notin {Started, Finished, Failed}
    /\ \A x \in {Started, Finished, Failed} : x \notin Writing(HandFrames) /\ x \notin Writing(TurnFrames)
    /\ \A is \in {"init", "auth", "open"} : /\ Write([is |-> is]) \notin Writing(TurnFrames)
                                            /\ Write([is |-> is]) \notin {Started, Finished, Failed}
    /\ Started \notin Endings /\ Finished \in Endings /\ Failed \in Endings /\ Failed # Finished
<1>1. ASSUME NEW T \in Turn
      PROVE  /\ TurnStart(T) \in TurnFrames /\ Prompt(T) \in TurnFrames
             /\ [is |-> "compact", msgs |-> T] \in TurnFrames
             /\ TurnStart(T) \notin HandFrames /\ Prompt(T) \notin HandFrames
             /\ [is |-> "compact", msgs |-> T] \notin HandFrames
             /\ \A m \in ToSet(T) : TurnStart(T) \in OwnFrames(m) /\ Prompt(T) \in OwnFrames(m)
  BY DEF TurnStart, Prompt, TurnFrames, HandFrames, OwnFrames, Frames
<1>2. \A x, F : Write(x) \in Steps /\ x \in F => Write(x) \in Writing(F)
  BY DEF Write, Writing
<1>3. \A x, F : x \notin F => Write(x) \notin Writing(F)
  BY DEF Write, Writing
<1>4. \A x : Write(x) \notin {Started, Finished, Failed}
  BY DEF Write, Started, Finished, Failed, Emit
<1>5. \A x \in {Started, Finished, Failed} : x \notin Writing(HandFrames) /\ x \notin Writing(TurnFrames)
  BY DEF Writing, Started, Finished, Failed, Emit
<1>6. \A is \in {"init", "auth", "open"} : [is |-> is] \notin TurnFrames
  BY DEF TurnFrames
<1>7. Started \notin Endings /\ Finished \in Endings /\ Failed \in Endings /\ Failed # Finished
  BY DEF Started, Finished, Failed, Emit, Endings
<1> QED BY <1>1, <1>2, <1>3, <1>4, <1>5, <1>6, <1>7, WritesAreSteps

LEMMA JoinLacks ==
    ASSUME NEW s \in Seq(Steps), NEW t \in Seq(Steps), NEW S
    PROVE  s \o t \in Seq(Steps) /\ (Lacks(s \o t, S) <=> Lacks(s, S) /\ Lacks(t, S))
  BY LacksFacts

LEMMA OneLacks ==
    ASSUME NEW x \in Steps
    PROVE  /\ <<x>> \in Seq(Steps)
           /\ \A S : Lacks(<<x>>, S) <=> x \notin S
  BY DEF Lacks


-----------------------------------------------------------------------------
(* What a Codex driver makes of a line: r is the result.                    *)

Busy(d) == d.active # None \/ d.startId # None \/ d.steers \cap d.unanswered # {}
Early(d) == d.active = None /\ d.steers = {} /\ d.carried = <<>>

\* The handshake goes on only when it is answered.
HandHears(d, r, line) ==
    /\ line \notin HandLines => r.drv.phase = d.phase /\ Lacks(r.steps, Writing(HandFrames))
    /\ Single(r.steps, Writing(HandFrames))
    /\ r.drv.phase = "ready" /\ d.phase # "ready" => Lacks(r.steps, Writing(HandFrames))

\* Before it is over nothing is active or steered.
EarlyHears(d, r, line) ==
    r.drv.phase # "ready" /\ Early(d) /\ line \notin Opening =>
        Early(r.drv) /\ Lacks(r.steps, Writing(TurnFrames))

\* A steered message is held, or tried again, or it was read; a finish means that none is held.
KeptHears(d, r, line) ==
    /\ \A m \in CodexShows(d) : \/ m \in CodexShows(r.drv) \/ line = Item(m)
                                \/ ~Lacks(r.steps, Writing(OwnFrames(m)))
    /\ line.is = "start" /\ ~line.ok => ~Lacks(r.steps, {Failed})
    /\ ~Lacks(r.steps, {Finished}) => CodexShows(d) = {}

\* A steer that was answered is held only while a turn is active.
SteerHears(d, r, line) ==
    /\ (d.steers \ d.unanswered # {} => d.active # None) => (r.drv.steers \ r.drv.unanswered # {} => r.drv.active # None)
    /\ line.is = "completed" => r.drv.active = None
    /\ r.drv.steers \cap r.drv.unanswered \subseteq d.steers \cap d.unanswered
    /\ line.is = "steer" => line.msg \notin r.drv.unanswered

\* A start that is awaited has been asked for.
StartHears(d, r, line) ==
    r.drv.startId # None =>
        \/ r.drv.startId = d.startId /\ ~(line.is = "start" /\ line.turn = d.startId)
        \/ ~Lacks(r.steps, Writing({TurnStart(r.drv.startId)}))

\* It goes from busy to idle with an ending.
BusyHears(d, r, line) ==
    /\ Busy(d) => \/ Busy(r.drv) \/ ~Lacks(r.steps, Endings)
                  \/ d.active = None /\ line.is = "item" /\ line.msg \in d.steers
    /\ ~Lacks(r.steps, {Started}) => Busy(r.drv)
    /\ line.is = "started" => Busy(r.drv)
    /\ line.is = "error" \/ (line.is = "start" /\ ~line.ok) => ~Lacks(r.steps, Endings)
    /\ d.queued # <<>> => r.drv.queued # <<>> \/ Busy(r.drv)
    /\ (d.phase = "ready" => d.queued = <<>>) => (r.drv.phase = "ready" => r.drv.queued = <<>>)

CodexHears(d, r, line) ==
    /\ HandHears(d, r, line) /\ EarlyHears(d, r, line) /\ KeptHears(d, r, line)
    /\ SteerHears(d, r, line) /\ StartHears(d, r, line) /\ BusyHears(d, r, line)

LEMMA LackSingle == \A s, S : Lacks(s, S) => Single(s, S)
  BY DEF Lacks, Single

\* Lines that change nothing of this.
LEMMA PlainHears ==
    ASSUME NEW d, NEW r, NEW line \in Lines,
           line.is \notin {"start", "started", "steer", "completed", "item"},
           r.drv.active = d.active, r.drv.startId = d.startId, r.drv.steers = d.steers,
           r.drv.unanswered = d.unanswered, r.drv.carried = d.carried, r.drv.queued = d.queued,
           r.drv.phase = d.phase \/ (line \in HandLines /\ r.drv.phase # "ready"),
           Lacks(r.steps, Writing(HandFrames)) \/ (line \in HandLines /\ r.drv.phase # "ready"),
           Single(r.steps, Writing(HandFrames)),
           Lacks(r.steps, Writing(TurnFrames)), Lacks(r.steps, {Started}), Lacks(r.steps, {Finished}),
           line.is = "error" => ~Lacks(r.steps, {Failed})
    PROVE  CodexHears(d, r, line)
<1>1. HandHears(d, r, line)
  BY DEF HandHears
<1>2. EarlyHears(d, r, line)
  BY DEF EarlyHears, Early
<1>3. KeptHears(d, r, line)
  BY DEF KeptHears, CodexShows
<1>4. SteerHears(d, r, line)
  BY DEF SteerHears
<1>5. StartHears(d, r, line)
  BY DEF StartHears
<1>6. ~Lacks(r.steps, {Failed}) => ~Lacks(r.steps, Endings)
  BY DEF Lacks, Endings
<1>7. BusyHears(d, r, line)
  BY <1>6 DEF BusyHears, Busy
<1> QED BY <1>1, <1>2, <1>3, <1>4, <1>5, <1>7 DEF CodexHears

\* What is carried is sent once nothing is active and no start is awaited.
LEMMA Flushed ==
    ASSUME NEW d \in CodexDrv, CodexNeat(d)
    PROVE  LET r == CodexFlush(d)
           IN  \/ /\ d.carried = <<>> \/ d.active # None \/ d.startId # None
                  /\ r = Result(d, <<>>)
               \/ /\ d.carried # <<>> /\ d.active = None /\ d.startId = None
                  /\ r.drv = [d EXCEPT !.carried = <<>>, !.startId = d.carried]
                  /\ r = Result(r.drv, r.steps) /\ r.steps \in Seq(Steps)
                  /\ \A m \in ToSet(d.carried) : ~Lacks(r.steps, Writing(OwnFrames(m)))
                  /\ ~Lacks(r.steps, Writing({TurnStart(d.carried)}))
                  /\ Lacks(r.steps, Writing(HandFrames)) /\ Lacks(r.steps, {Started, Finished, Failed})
<1> DEFINE r == CodexFlush(d)
<1>1. CASE d.carried = <<>> \/ d.active # None \/ d.startId # None
  BY <1>1 DEF CodexFlush
<1>2. CASE ~(d.carried = <<>> \/ d.active # None \/ d.startId # None)
  <2> DEFINE c == [d EXCEPT !.carried = <<>>, !.startId = d.carried]
             s == Echoes(d.carried)
             w == Write(TurnStart(d.carried))
  <2>1. r = Result(c, s \o <<w>>)
    BY <1>2 DEF CodexFlush, CodexFrame, Result, CodexDrv
  <2>2. r.drv = c /\ r.steps = s \o <<w>>
    BY <2>1 DEF Result
  <2>3. d.carried \in Turn
    BY CodexFields
  <2>4. s \in Seq(Steps) /\ w \in Steps
    BY <2>3, BearsEchoes, WritesAreSteps DEF CodexNeat, Bears
  <2>5. Lacks(s, Loud)
    BY Mild
  <2>6. Lacks(s, Writing(HandFrames)) /\ Lacks(s, {Started, Finished, Failed})
    <3>1. Lacks(s, {Started}) /\ Lacks(s, Endings) /\ Lacks(s, Writing(HandFrames))
      BY <2>5, LoudFacts
    <3> QED BY <3>1 DEF Lacks, Endings
  <2>7. /\ w \in Writing({TurnStart(d.carried)}) /\ w \notin Writing(HandFrames)
        /\ \A m \in ToSet(d.carried) : w \in Writing(OwnFrames(m))
        /\ w \notin {Started, Finished, Failed}
    BY <2>3, OfKind
  <2> HIDE DEF c, s, w, r
  <2>8. /\ <<w>> \in Seq(Steps) /\ \A S : Lacks(<<w>>, S) <=> w \notin S
    BY <2>4, OneLacks
  <2>9. /\ s \o <<w>> \in Seq(Steps)
        /\ \A S : Lacks(s \o <<w>>, S) <=> Lacks(s, S) /\ w \notin S
    BY <2>4, <2>8, JoinLacks
  <2>10. /\ \A m \in ToSet(d.carried) : ~Lacks(r.steps, Writing(OwnFrames(m)))
         /\ ~Lacks(r.steps, Writing({TurnStart(d.carried)}))
         /\ Lacks(r.steps, Writing(HandFrames)) /\ Lacks(r.steps, {Started, Finished, Failed})
    BY <2>2, <2>6, <2>7, <2>9
  <2> QED BY <1>2, <2>1, <2>2, <2>9, <2>10 DEF r, c
<1> QED BY <1>1, <1>2


LEMMA CodexHearsLine ==
    ASSUME NEW d \in CodexDrv, CodexNeat(d), NEW line \in Lines, line.is \in CodexSpeaks
    PROVE  CodexHears(d, CodexOnLine(d, line), line)
<1> DEFINE r == CodexOnLine(d, line)
<1> SUFFICES CodexHears(d, r, line)
  OBVIOUS
<1>0. /\ d.steers \in Few(Msgs) /\ d.pending \in Few(Asks) /\ d.active \in Turn \cup {None}
      /\ d.startId \in Turn \cup {None} /\ d.carried \in Turn /\ d.queued \in Turn
      /\ d.steers \subseteq Msgs /\ None \notin Turn
  BY CodexFields, SessionAssumption DEF Turn
<1>1. /\ line \in HandLines <=> line.is \in {"init", "auth", "open"}
      /\ line \in Opening <=> line.is = "started" \/ (line.is = "start" /\ line.ok)
  BY DEF HandLines, Opening
<1>2. /\ Failed \in Steps /\ Started \in Steps /\ Finished \in Steps
      /\ \A x \in Steps : \A S : Lacks(<<x>>, S) <=> x \notin S
      /\ \A S : Lacks(<<>>, S) /\ Single(<<>>, S)
      /\ \A x, S : Single(<<x>>, S)
  BY EmitsAreSteps DEF Lacks, Single
<1>3. CASE line.is \in {"init", "error"} \/ (line.is = "open" /\ ~line.ok)
  <2> DEFINE c == IF line.is = "init" /\ line.ok THEN [d EXCEPT !.phase = "starting"] ELSE d
             x == IF line.is = "init" /\ line.ok THEN Write([is |-> "open"]) ELSE Failed
  <2>1. r.drv = c /\ r.steps = <<x>>
    BY <1>3 DEF CodexOnLine, Result
  <2>2. /\ c.steers = d.steers /\ c.active = d.active /\ c.unanswered = d.unanswered /\ c.startId = d.startId
        /\ c.carried = d.carried /\ c.queued = d.queued
        /\ c.phase = d.phase \/ (line.is = "init" /\ c.phase = "starting")
    BY DEF CodexDrv
  <2>3. /\ x \in Steps /\ x \notin Writing(TurnFrames) /\ x \notin {Started, Finished}
        /\ x \notin Writing(HandFrames) \/ (line.is = "init" /\ c.phase = "starting")
        /\ line.is = "error" => x = Failed
    <3>1. CASE line.is = "init" /\ line.ok
      <4>1. c.phase = "starting"
        BY <3>1 DEF CodexDrv
      <4> QED BY <3>1, <4>1, WritesAreSteps, OfKind
    <3>2. CASE ~(line.is = "init" /\ line.ok)
      <4>1. x = Failed
        BY <3>2
      <4> HIDE DEF x
      <4>2. Started # Failed
        BY DEF Started, Failed, Emit
      <4> QED BY <3>2, <4>1, <4>2, <1>2, OfKind
    <3> QED BY <3>1, <3>2
  <2> HIDE DEF c, x, r
  <2>4. \A S : (Lacks(r.steps, S) <=> x \notin S) /\ Single(r.steps, S)
    BY <1>2, <2>1, <2>3
  <2>5. /\ Lacks(r.steps, Writing(TurnFrames)) /\ Lacks(r.steps, {Started}) /\ Lacks(r.steps, {Finished})
        /\ line.is = "error" => ~Lacks(r.steps, {Failed})
        /\ r.drv.phase = d.phase \/ (line \in HandLines /\ r.drv.phase # "ready")
        /\ Lacks(r.steps, Writing(HandFrames)) \/ (line \in HandLines /\ r.drv.phase # "ready")
    BY <1>1, <2>1, <2>2, <2>3, <2>4
  <2> QED BY <1>3, <2>1, <2>2, <2>4, <2>5, PlainHears
<1>4. CASE line.is \in {"ask", "resolved"}
  <2>0. line.ask \in Asks
    BY <1>4, LineFields
  <2>1. PICK c, s : /\ r = Result(c, s)
                    /\ s = <<>> \/ \E x \in Steps : x \notin Loud /\ s = <<x>>
                    /\ c.steers = d.steers /\ c.active = d.active /\ c.unanswered = d.unanswered
                    /\ c.startId = d.startId /\ c.carried = d.carried /\ c.queued = d.queued /\ c.phase = d.phase
    <3>1. /\ Card(line.ask) \in Steps \ Loud /\ Settled(line.ask) \in Steps \ Loud
          /\ Write(Reply(line.ask)) \in Steps \ Loud
      BY <2>0, Mild, EmitsAreSteps, WritesAreSteps
    <3>2. CASE line.is = "ask" /\ line.kind = "unknown"
      <4>1. r = Result(d, <<Write(Reply(line.ask))>>)
        BY <3>2 DEF CodexOnLine, CodexOnAsk
      <4> QED BY <3>1, <4>1
    <3>3. CASE line.is = "ask" /\ line.kind # "unknown"
      <4> DEFINE c == [d EXCEPT !.pending = @ \cup {line.ask},
                                !.elicitations = IF line.kind = "elicitation" THEN @ \cup {line.ask} ELSE @]
      <4>1. r = Result(c, <<Card(line.ask)>>)
        BY <3>3 DEF CodexOnLine, CodexOnAsk
      <4>2. /\ c.steers = d.steers /\ c.active = d.active /\ c.unanswered = d.unanswered
            /\ c.startId = d.startId /\ c.carried = d.carried /\ c.queued = d.queued /\ c.phase = d.phase
        BY DEF CodexDrv
      <4> HIDE DEF c, r
      <4> QED BY <3>1, <4>1, <4>2
    <3>4. CASE line.is = "resolved"
      <4> DEFINE c == IF line.ask \notin d.pending THEN d ELSE [d EXCEPT !.pending = @ \ {line.ask}]
                 s == IF line.ask \notin d.pending THEN <<>> ELSE <<Settled(line.ask)>>
      <4>1. r = Result(c, s)
        BY <3>4 DEF CodexOnLine
      <4>2. /\ c.steers = d.steers /\ c.active = d.active /\ c.unanswered = d.unanswered
            /\ c.startId = d.startId /\ c.carried = d.carried /\ c.queued = d.queued /\ c.phase = d.phase
        BY DEF CodexDrv
      <4>3. s = <<>> \/ s = <<Settled(line.ask)>>
        OBVIOUS
      <4> HIDE DEF c, r, s
      <4> QED BY <3>1, <4>1, <4>2, <4>3
    <3> QED BY <1>4, <3>2, <3>3, <3>4
  <2>2. Lacks(s, Loud)
    BY <2>1, Mild
  <2> HIDE DEF r
  <2>3. r.drv = c /\ r.steps = s
    BY <2>1 DEF Result
  <2>4. /\ Lacks(s, Writing(HandFrames)) /\ Single(s, Writing(HandFrames)) /\ Lacks(s, Writing(TurnFrames))
        /\ Lacks(s, {Started}) /\ Lacks(s, {Finished})
    BY <2>2, LoudFacts, LackSingle
  <2> HIDE DEF r
  <2> QED BY <1>4, <2>1, <2>3, <2>4, PlainHears
<1>5. CASE line.is = "open" /\ line.ok
  <2> DEFINE x == IF d.queued = <<>> THEN d.startId ELSE <<Last(d.queued)>>
             c == [d EXCEPT !.phase = "ready", !.queued = <<>>, !.startId = x]
             s == [i \in DOMAIN d.queued |-> Write(TurnStart(<<d.queued[i]>>))]
  <2>1. r.drv = c /\ r.steps = s
    BY <1>5 DEF CodexOnLine, CodexOnOpen, Result, CodexDrv
  <2>2. /\ c.steers = d.steers /\ c.active = d.active /\ c.unanswered = d.unanswered /\ c.startId = x
        /\ c.carried = d.carried /\ c.queued = <<>> /\ c.phase = "ready"
    BY DEF CodexDrv
  <2>3. \A i \in DOMAIN d.queued : d.queued[i] \in Msgs /\ <<d.queued[i]>> \in Turn
    BY <1>0 DEF Turn
  <2>4. Lacks(s, Writing(HandFrames)) /\ Lacks(s, {Started, Finished, Failed})
    BY <2>3, OfKind DEF Lacks
  <2>5. d.queued # <<>> => ~Lacks(s, Writing({TurnStart(x)})) /\ x # None
    <3>1. SUFFICES ASSUME d.queued # <<>> PROVE ~Lacks(s, Writing({TurnStart(x)})) /\ x # None
      OBVIOUS
    <3>2. Len(d.queued) \in DOMAIN d.queued /\ x = <<d.queued[Len(d.queued)]>>
      BY <1>0, <3>1 DEF Turn, Last
    <3>3. x \in Turn /\ s[Len(d.queued)] = Write(TurnStart(x)) /\ Len(d.queued) \in DOMAIN s
      BY <2>3, <3>2
    <3> HIDE DEF x, s
    <3> QED BY <1>0, <3>3, OfKind DEF Lacks
  <2>6. x = d.startId \/ d.queued # <<>>
    OBVIOUS
  <2> HIDE DEF c, s, x, r
  <2>7. Lacks(s, {Started}) /\ Lacks(s, {Finished}) /\ Single(s, Writing(HandFrames))
    BY <2>4, LackSingle DEF Lacks
  <2>8. HandHears(d, r, line) /\ EarlyHears(d, r, line)
    BY <1>1, <1>5, <2>1, <2>2, <2>4, <2>7 DEF HandHears, EarlyHears
  <2>9. KeptHears(d, r, line) /\ SteerHears(d, r, line)
    BY <1>5, <2>1, <2>2, <2>7 DEF KeptHears, SteerHears, CodexShows
  <2>10. StartHears(d, r, line) /\ BusyHears(d, r, line)
    BY <1>5, <2>1, <2>2, <2>5, <2>6, <2>7 DEF StartHears, BusyHears, Busy
  <2> QED BY <2>8, <2>9, <2>10 DEF CodexHears
<1>6. CASE line.is = "start"
  <2> DEFINE c == [d EXCEPT !.startId = IF line.turn = d.startId THEN None ELSE @,
                            !.active = IF line.turn = d.startId /\ line.ok THEN line.turn ELSE @]
             s == IF line.ok THEN <<>> ELSE <<Failed>>
  <2>0. line.turn \in Turn
    BY <1>6, LineFields
  <2>1. r.drv = c /\ r.steps = s
    BY <1>6 DEF CodexOnLine, CodexOnStart, Result
  <2>2. /\ c.steers = d.steers /\ c.unanswered = d.unanswered
        /\ c.startId = IF line.turn = d.startId THEN None ELSE d.startId
        /\ c.active = IF line.turn = d.startId /\ line.ok THEN line.turn ELSE d.active
        /\ c.carried = d.carried /\ c.queued = d.queued /\ c.phase = d.phase
    BY DEF CodexDrv
  <2>3. /\ Lacks(s, Writing(HandFrames)) /\ Lacks(s, Writing(TurnFrames)) /\ Lacks(s, {Started})
        /\ Lacks(s, {Finished})
        /\ ~line.ok => ~Lacks(s, {Failed}) /\ ~Lacks(s, Endings)
    <3>1. Started # Failed
      BY DEF Started, Failed, Emit
    <3> QED BY <1>2, <3>1, OfKind
  <2> HIDE DEF c, s, r
  <2>4. HandHears(d, r, line) /\ EarlyHears(d, r, line)
    BY <1>1, <1>6, <2>1, <2>2, <2>3, LackSingle DEF HandHears, EarlyHears, Early
  <2>5. KeptHears(d, r, line) /\ SteerHears(d, r, line)
    BY <1>0, <1>6, <2>0, <2>1, <2>2, <2>3 DEF KeptHears, SteerHears, CodexShows
  <2>6. StartHears(d, r, line) /\ BusyHears(d, r, line)
    BY <1>0, <1>6, <2>0, <2>1, <2>2, <2>3 DEF StartHears, BusyHears, Busy
  <2> QED BY <2>4, <2>5, <2>6 DEF CodexHears
<1>7. CASE line.is = "started"
  <2> DEFINE c == [d EXCEPT !.active = line.turn, !.startId = None]
  <2>0. line.turn \in Turn
    BY <1>7, LineFields
  <2>1. r.drv = c /\ r.steps = <<Started>>
    BY <1>7 DEF CodexOnLine, Result
  <2>2. /\ c.steers = d.steers /\ c.unanswered = d.unanswered /\ c.active = line.turn /\ c.startId = None
        /\ c.carried = d.carried /\ c.queued = d.queued /\ c.phase = d.phase
    BY DEF CodexDrv
  <2>3. /\ Lacks(<<Started>>, Writing(HandFrames)) /\ Lacks(<<Started>>, {Finished})
    <3>1. Started # Finished
      BY DEF Started, Finished, Emit
    <3> QED BY <1>2, <3>1, OfKind
  <2> HIDE DEF c, r
  <2>4. HandHears(d, r, line) /\ EarlyHears(d, r, line)
    BY <1>1, <1>7, <2>1, <2>2, <2>3, LackSingle DEF HandHears, EarlyHears, Early
  <2>5. KeptHears(d, r, line) /\ SteerHears(d, r, line)
    BY <1>0, <1>7, <2>0, <2>1, <2>2, <2>3 DEF KeptHears, SteerHears, CodexShows
  <2>6. StartHears(d, r, line) /\ BusyHears(d, r, line)
    BY <1>0, <1>7, <2>0, <2>1, <2>2, <2>3 DEF StartHears, BusyHears, Busy
  <2> QED BY <2>4, <2>5, <2>6 DEF CodexHears
<1>8. CASE line.is = "item"
  <2> DEFINE c == IF line.msg \notin d.steers THEN d ELSE [d EXCEPT !.steers = @ \ {line.msg}]
             s == IF line.msg \notin d.steers THEN <<>> ELSE <<Echo(line.msg)>>
  <2>0. line.msg \in Msgs /\ line = Item(line.msg)
    BY <1>8 DEF Lines, Item
  <2>1. r.drv = c /\ r.steps = s
    BY <1>8 DEF CodexOnLine, Result
  <2>2. /\ c.steers = d.steers \ {line.msg} /\ c.unanswered = d.unanswered /\ c.active = d.active
        /\ c.startId = d.startId
        /\ c.carried = d.carried /\ c.queued = d.queued /\ c.phase = d.phase
    BY DEF CodexDrv
  <2>3. Lacks(s, Loud)
    BY <2>0, Mild, EmitsAreSteps
  <2> HIDE DEF c, s, r
  <2>4. /\ Lacks(s, Writing(HandFrames)) /\ Lacks(s, Writing(TurnFrames)) /\ Lacks(s, {Started})
        /\ Lacks(s, {Finished}) /\ Single(s, Writing(HandFrames))
    BY <2>3, LoudFacts, LackSingle
  <2>5. HandHears(d, r, line) /\ EarlyHears(d, r, line)
    BY <1>1, <1>8, <2>1, <2>2, <2>4 DEF HandHears, EarlyHears, Early
  <2>6. KeptHears(d, r, line) /\ SteerHears(d, r, line)
    BY <1>8, <2>0, <2>1, <2>2, <2>4 DEF KeptHears, SteerHears, CodexShows
  <2>7. StartHears(d, r, line) /\ BusyHears(d, r, line)
    BY <1>8, <2>0, <2>1, <2>2, <2>4 DEF StartHears, BusyHears, Busy
  <2> QED BY <2>5, <2>6, <2>7 DEF CodexHears
<1>9. CASE line.is = "steer"
  <2> DEFINE c == [d EXCEPT !.unanswered = @ \ {line.msg}]
             g == [c EXCEPT !.steers = @ \ {line.msg}, !.carried = Append(@, line.msg)]
             f == CodexFlush(g)
  <2>0. line.msg \in Msgs
    BY <1>9, LineFields
  <2>1. \/ r = Result(c, <<>>) /\ ((line.ok /\ d.active # None) \/ line.msg \notin d.steers)
        \/ r = f /\ line.msg \in d.steers
    BY <1>9 DEF CodexOnLine, CodexOnSteer
  <2>2. CASE r = Result(c, <<>>) /\ ((line.ok /\ d.active # None) \/ line.msg \notin d.steers)
    <3>1. r.drv = c /\ r.steps = <<>>
      BY <2>2 DEF Result
    <3>2. /\ c.steers = d.steers /\ c.unanswered = d.unanswered \ {line.msg} /\ c.active = d.active
          /\ c.startId = d.startId /\ c.carried = d.carried /\ c.queued = d.queued /\ c.phase = d.phase
      BY DEF CodexDrv
    <3> HIDE DEF c, g, f, r
    <3>3. HandHears(d, r, line) /\ EarlyHears(d, r, line)
      BY <1>1, <1>2, <1>9, <3>1, <3>2 DEF HandHears, EarlyHears, Early
    <3>4. KeptHears(d, r, line) /\ SteerHears(d, r, line)
      BY <1>2, <1>9, <2>0, <2>2, <3>1, <3>2 DEF KeptHears, SteerHears, CodexShows
    <3>5. StartHears(d, r, line) /\ BusyHears(d, r, line)
      BY <1>2, <1>9, <2>0, <2>2, <3>1, <3>2 DEF StartHears, BusyHears, Busy
    <3> QED BY <3>3, <3>4, <3>5 DEF CodexHears
  <2>3. CASE r = f /\ line.msg \in d.steers
    <3> HIDE DEF r, f
    <3>1. /\ Append(d.carried, line.msg) \in Turn /\ IsInjective(Append(d.carried, line.msg))
          /\ ToSet(Append(d.carried, line.msg)) = ToSet(d.carried) \cup {line.msg}
          /\ Append(d.carried, line.msg) # <<>>
      <4>1. d.carried \in Seq(Msgs) /\ IsInjective(d.carried) /\ line.msg \notin ToSet(d.carried)
        BY <1>0, <2>0, <2>3 DEF Turn, CodexNeat
      <4>2. Append(d.carried, line.msg) # <<>>
        BY <2>0, <4>1
      <4> HIDE DEF c, g
      <4> QED BY <2>0, <4>1, <4>2, OneMore DEF Turn
    <3>2. d.steers \ {line.msg} \in Few(Msgs)
      <4> HIDE DEF c, g
      <4>1. d.steers \in Few(Msgs)
        BY <1>0
      <4>2. \A R : d.steers \ R \in Few(Msgs)
        BY <4>1, FewFacts
      <4> QED BY <4>2
    <3>3. /\ g \in CodexDrv /\ g.queued = d.queued /\ g.carried = Append(d.carried, line.msg)
          /\ g.steers = d.steers \ {line.msg} /\ g.unanswered = d.unanswered \ {line.msg} /\ g.active = d.active
          /\ g.startId = d.startId /\ g.phase = d.phase
      BY <3>1, <3>2 DEF CodexDrv
    <3> HIDE DEF c, g
    <3>4. CodexNeat(g)
      BY <2>3, <3>1, <3>3 DEF CodexNeat
    <3>5. CASE r = Result(g, <<>>) /\ (g.active # None \/ g.startId # None)
      <4>1. r.drv = g /\ r.steps = <<>>
        BY <3>5 DEF Result
      <4>2. HandHears(d, r, line) /\ EarlyHears(d, r, line)
        BY <1>1, <1>2, <1>9, <2>3, <3>3, <4>1 DEF HandHears, EarlyHears, Early
      <4>3. KeptHears(d, r, line)
        <5>1. CodexShows(d) \subseteq CodexShows(r.drv)
          BY <3>1, <3>3, <4>1 DEF CodexShows
        <5> QED BY <1>2, <1>9, <4>1, <5>1 DEF KeptHears
      <4>4. SteerHears(d, r, line)
        BY <1>2, <1>9, <3>1, <3>3, <4>1 DEF SteerHears
      <4>5. StartHears(d, r, line) /\ BusyHears(d, r, line)
        BY <1>2, <1>9, <3>3, <3>5, <4>1 DEF StartHears, BusyHears, Busy
      <4> QED BY <4>2, <4>3, <4>4, <4>5 DEF CodexHears
    <3>6. CASE /\ g.active = None
               /\ r.drv = [g EXCEPT !.carried = <<>>, !.startId = g.carried]
               /\ \A m \in ToSet(g.carried) : ~Lacks(r.steps, Writing(OwnFrames(m)))
               /\ ~Lacks(r.steps, Writing({TurnStart(g.carried)}))
               /\ Lacks(r.steps, Writing(HandFrames)) /\ Lacks(r.steps, {Started, Finished, Failed})
      <4>1. /\ r.drv.steers = g.steers /\ r.drv.unanswered = g.unanswered /\ r.drv.active = g.active
            /\ r.drv.carried = <<>> /\ r.drv.startId = g.carried /\ r.drv.queued = g.queued
            /\ r.drv.phase = g.phase
        BY <3>3, <3>6 DEF CodexDrv
      <4>2. Lacks(r.steps, {Started}) /\ Lacks(r.steps, {Finished}) /\ Single(r.steps, Writing(HandFrames))
        BY <3>6, LackSingle DEF Lacks
      <4>3. HandHears(d, r, line) /\ EarlyHears(d, r, line)
        BY <1>1, <1>9, <2>3, <3>3, <3>6, <4>1, <4>2 DEF HandHears, EarlyHears, Early
      <4>4. KeptHears(d, r, line) /\ SteerHears(d, r, line)
        BY <1>9, <3>1, <3>3, <3>6, <4>1, <4>2 DEF KeptHears, SteerHears, CodexShows
      <4>5. StartHears(d, r, line) /\ BusyHears(d, r, line)
        BY <1>0, <1>9, <3>1, <3>3, <3>6, <4>1, <4>2 DEF StartHears, BusyHears, Busy
      <4> QED BY <4>3, <4>4, <4>5 DEF CodexHears
    <3>7. r = CodexFlush(g) /\ g.carried # <<>>
      BY <2>3, <3>1, <3>3 DEF f
    <3> QED BY <3>3, <3>4, <3>5, <3>6, <3>7, Flushed
  <2> QED BY <2>1, <2>2, <2>3
<1>10. CASE line.is = "completed"
  <2> DEFINE g == Ended(d)
             f == CodexFlush(g)
             held == g.carried # <<>> \/ g.steers # {}
  <2>1. \/ line.failed /\ r = [f EXCEPT !.steps = <<Failed>> \o @]
        \/ ~line.failed /\ held /\ r = f
        \/ ~line.failed /\ ~held /\ r = Result(g, <<Finished>>)
    <3>1. g.steers = d.steers \cap d.unanswered
      BY EndedDrv
    <3> QED BY <1>10, <3>1 DEF CodexOnLine, CodexOnCompleted, Ended
  <2>2. /\ g \in CodexDrv /\ CodexNeat(g) /\ g.steers = d.steers \cap d.unanswered /\ g.unanswered = d.unanswered
        /\ g.active = None
    BY EndedDrv
  <2>3. /\ g.startId = d.startId /\ g.queued = d.queued /\ g.phase = d.phase
        /\ ToSet(g.carried) = ToSet(d.carried) \cup (d.steers \ d.unanswered)
        /\ d.steers \ d.unanswered = {} => g.carried = d.carried
    <3> DEFINE answered == d.steers \ d.unanswered
    <3>1. answered \in Few(Msgs) /\ IsFiniteSet(answered) /\ answered \subseteq Msgs
      <4>1. answered \in Few(Msgs)
        BY <1>0, FewFacts
      <4> QED BY <4>1, FewFacts
    <3>2. /\ SetToSeq(answered) \in Seq(Msgs) /\ ToSet(SetToSeq(answered)) = answered
          /\ answered = {} => SetToSeq(answered) = <<>>
      <4>1. SetToSeq(answered) \in Seq(answered) /\ ToSet(SetToSeq(answered)) = answered
        BY <3>1, ListedFacts
      <4>2. answered = {} => SetToSeq(answered) = <<>>
        BY <3>1, ListFacts
      <4> QED BY <3>1, <4>1, <4>2, Wider
    <3>3. /\ g.startId = d.startId /\ g.queued = d.queued /\ g.phase = d.phase
          /\ g.carried = d.carried \o SetToSeq(answered)
      BY DEF CodexDrv, Ended
    <3>4. d.carried \in Seq(Msgs)
      BY <1>0 DEF Turn
    <3> HIDE DEF answered, g
    <3>5. /\ ToSet(d.carried \o SetToSeq(answered)) = ToSet(d.carried) \cup ToSet(SetToSeq(answered))
          /\ d.carried \o <<>> = d.carried
      BY <3>2, <3>4, JoinFacts
    <3> QED BY <3>2, <3>3, <3>5 DEF answered
  <2> HIDE DEF g
  <2>4. /\ f.drv.steers = g.steers /\ f.drv.unanswered = g.unanswered /\ f.drv.active = None
        /\ f.drv.queued = g.queued /\ f.drv.phase = g.phase /\ f.steps \in Seq(Steps)
        /\ \/ f.drv.startId = g.startId /\ f.drv.carried = g.carried /\ (g.carried = <<>> \/ g.startId # None)
              /\ f.steps = <<>>
           \/ /\ f.drv.startId = g.carried /\ f.drv.carried = <<>> /\ g.carried # <<>>
              /\ \A m \in ToSet(g.carried) : ~Lacks(f.steps, Writing(OwnFrames(m)))
              /\ ~Lacks(f.steps, Writing({TurnStart(g.carried)}))
        /\ Lacks(f.steps, Writing(HandFrames)) /\ Lacks(f.steps, {Started, Finished, Failed})
        /\ g.carried = <<>> => f.steps = <<>>
    <3>1. CASE (g.carried = <<>> \/ g.active # None \/ g.startId # None) /\ f = Result(g, <<>>)
      <4>1. f.drv = g /\ f.steps = <<>>
        BY <3>1 DEF Result
      <4>2. Lacks(<<>>, Writing(HandFrames)) /\ Lacks(<<>>, {Started, Finished, Failed}) /\ <<>> \in Seq(Steps)
        BY <1>2
      <4> HIDE DEF f
      <4> QED BY <2>2, <3>1, <4>1, <4>2
    <3>2. CASE /\ g.carried # <<>> /\ f.drv = [g EXCEPT !.carried = <<>>, !.startId = g.carried]
               /\ f.steps \in Seq(Steps)
               /\ \A m \in ToSet(g.carried) : ~Lacks(f.steps, Writing(OwnFrames(m)))
               /\ ~Lacks(f.steps, Writing({TurnStart(g.carried)}))
               /\ Lacks(f.steps, Writing(HandFrames)) /\ Lacks(f.steps, {Started, Finished, Failed})
      <4> HIDE DEF f
      <4>1. /\ f.drv.steers = g.steers /\ f.drv.unanswered = g.unanswered /\ f.drv.active = g.active
            /\ f.drv.queued = g.queued /\ f.drv.phase = g.phase
            /\ f.drv.startId = g.carried /\ f.drv.carried = <<>>
        BY <2>2, <3>2 DEF CodexDrv
      <4> QED BY <2>2, <3>2, <4>1
    <3> QED BY <2>2, <3>1, <3>2, Flushed
  <2>5. /\ r.drv.steers = g.steers /\ r.drv.unanswered = g.unanswered /\ r.drv.active = None
        /\ r.drv.queued = g.queued /\ r.drv.phase = g.phase
        /\ \/ r.drv.startId = g.startId /\ r.drv.carried = g.carried
           \/ /\ r.drv.startId = g.carried /\ r.drv.carried = <<>> /\ g.carried # <<>>
              /\ \A m \in ToSet(g.carried) : ~Lacks(r.steps, Writing(OwnFrames(m)))
              /\ ~Lacks(r.steps, Writing({TurnStart(g.carried)}))
        /\ Lacks(r.steps, Writing(HandFrames)) /\ Lacks(r.steps, {Started})
        /\ ~Lacks(r.steps, {Finished}) => ~held
        /\ ~Lacks(r.steps, Endings) \/ Busy(r.drv)
        /\ g.carried = <<>> => Lacks(r.steps, Writing(TurnFrames))
    <3>1. Lacks(f.steps, {Started}) /\ Lacks(f.steps, {Finished})
      BY <2>4 DEF Lacks
    <3>2. Started # Failed /\ Started # Finished /\ Failed # Finished
      BY DEF Started, Finished, Failed, Emit
    <3>3. CASE r = [f EXCEPT !.steps = <<Failed>> \o @]
      <4>1. DOMAIN f = {"drv", "steps"}
        BY DEF CodexFlush, CodexFrame, Result
      <4>2. r.drv = f.drv /\ r.steps = <<Failed>> \o f.steps
        <5> HIDE DEF f
        <5> QED BY <3>3, <4>1
      <4>3. \A S : Lacks(r.steps, S) <=> Failed \notin S /\ Lacks(f.steps, S)
        <5>1. <<Failed>> \in Seq(Steps) /\ \A S : Lacks(<<Failed>>, S) <=> Failed \notin S
          BY <1>2, OneLacks
        <5>2. r.steps = <<Failed>> \o f.steps /\ f.steps \in Seq(Steps)
          BY <2>4, <4>2
        <5> HIDE DEF r, f
        <5> TAKE S
        <5>3. Lacks(<<Failed>> \o f.steps, S) <=> Lacks(<<Failed>>, S) /\ Lacks(f.steps, S)
          BY <5>1, <5>2, JoinLacks
        <5> QED BY <5>1, <5>2, <5>3
      <4>4. Failed \notin Writing(HandFrames) /\ Failed \notin Writing(TurnFrames) /\ Failed \in Endings
        BY OfKind
      <4>5. g.carried = <<>> => Lacks(f.steps, Writing(TurnFrames))
        BY <1>2, <2>4
      <4> HIDE DEF r, f
      <4> QED BY <2>4, <3>1, <3>2, <4>2, <4>3, <4>4, <4>5
    <3>4. CASE held /\ r = f
      <4>1. g.carried = <<>> => Lacks(f.steps, Writing(TurnFrames))
        BY <1>2, <2>4
      <4>2. g.steers \cap g.unanswered = g.steers
        BY <2>2
      <4>3. g.carried # <<>> => f.drv.startId # None
        <5>1. g.carried \in Turn
          BY <2>2, CodexFields
        <5> HIDE DEF f
        <5> QED BY <1>0, <2>4, <5>1
      <4> HIDE DEF f, r
      <4>4. Busy(f.drv)
        BY <2>4, <3>4, <4>2, <4>3 DEF Busy
      <4> QED BY <2>4, <3>1, <3>4, <4>1, <4>4
    <3>5. CASE ~held /\ r = Result(g, <<Finished>>)
      <4>1. r.drv = g /\ r.steps = <<Finished>>
        BY <3>5 DEF Result
      <4>2. /\ Finished \notin Writing(HandFrames) /\ Finished \notin Writing(TurnFrames) /\ Finished \in Endings
        BY OfKind
      <4> HIDE DEF r, f
      <4> QED BY <1>2, <2>2, <3>2, <3>5, <4>1, <4>2
    <3> HIDE DEF r, f, held
    <3> QED BY <2>1, <3>3, <3>4, <3>5
  <2> HIDE DEF f, r
  <2>6. HandHears(d, r, line) /\ EarlyHears(d, r, line)
    BY <1>1, <1>10, <2>2, <2>3, <2>5, LackSingle DEF HandHears, EarlyHears, Early
  <2>7. KeptHears(d, r, line) /\ SteerHears(d, r, line)
    <3>1. g.carried = <<>> => ToSet(g.carried) = {}
      BY MembersFacts
    <3> QED BY <1>10, <2>2, <2>3, <2>5, <3>1 DEF KeptHears, SteerHears, CodexShows
  <2>8. StartHears(d, r, line) /\ BusyHears(d, r, line)
    BY <1>10, <2>2, <2>3, <2>5 DEF StartHears, BusyHears
  <2> QED BY <2>6, <2>7, <2>8 DEF CodexHears
<1> QED BY <1>3, <1>4, <1>5, <1>6, <1>7, <1>8, <1>9, <1>10, LineFields DEF CodexSpeaks

-----------------------------------------------------------------------------
(* What a call changes of this: new is the message that is handed over.     *)

CodexTold(d, r, new) ==
    /\ r.drv.phase = d.phase /\ r.drv.active = d.active /\ r.drv.carried = d.carried
    /\ \/ r.drv.steers = d.steers /\ r.drv.unanswered = d.unanswered
       \/ /\ d.active # None
          /\ r.drv.steers = d.steers \cup new /\ r.drv.unanswered = d.unanswered \cup new
          /\ \A m \in new : ~Lacks(r.steps, Writing(SteerFrames(m)))
    /\ \/ r.drv.startId = d.startId
       \/ r.drv.startId \in Turn /\ ~Lacks(r.steps, Writing({TurnStart(r.drv.startId)}))
    /\ d.queued # <<>> => r.drv.queued # <<>>
    /\ d.phase = "ready" => r.drv.queued = d.queued
    /\ Lacks(r.steps, Writing(HandFrames)) /\ Lacks(r.steps, {Started, Finished, Failed})
    /\ d.phase # "ready" => Lacks(r.steps, Writing(TurnFrames))
    /\ d.phase = "ready" /\ d.active # None => new \subseteq r.drv.steers
    /\ new = {} \/ Busy(r.drv) \/ r.drv.queued # <<>> \/ ~Lacks(r.steps, Writing(TurnFrames))

LEMMA MildSteps ==
    ASSUME NEW s, Lacks(s, Loud)
    PROVE  /\ Lacks(s, Writing(HandFrames)) /\ Lacks(s, Writing(TurnFrames))
           /\ Lacks(s, {Started, Finished, Failed})
<1>1. Lacks(s, {Started}) /\ Lacks(s, Endings)
  BY LoudFacts
<1> QED BY <1>1, LoudFacts DEF Lacks, Endings

LEMMA CodexTells ==
    ASSUME NEW d \in CodexDrv, CodexNeat(d), NEW m \in Msgs, m \notin CodexKnows(d), NEW how
    PROVE  CodexTold(d, CodexCall(d, m, how), {m})
<1> DEFINE r == CodexCall(d, m, how)
<1>0. /\ d.active \in Turn \cup {None} /\ <<m>> \in Turn /\ m \notin d.steers
      /\ d.startId \in Turn \cup {None} /\ d.queued \in Turn
      /\ None \notin Turn
  BY CodexFields, OneMessage, SessionAssumption DEF CodexKnows, Turn
<1>1. CASE d.active # None /\ r = CodexSteer(d, m)
  <2> DEFINE c == [d EXCEPT !.steers = @ \cup {m}, !.unanswered = @ \cup {m}]
             x == Write(TurnSteer(m, d.active))
  <2>1. r.drv = c /\ r.steps = <<x>>
    BY <1>1 DEF CodexSteer, Result
  <2>2. /\ c.steers = d.steers \cup {m} /\ c.active = d.active /\ c.unanswered = d.unanswered \cup {m}
        /\ c.phase = d.phase /\ c.carried = d.carried /\ c.startId = d.startId /\ c.queued = d.queued
    BY DEF CodexDrv
  <2>3. x \in Steps /\ x \notin Loud
    BY <1>0, <1>1, Mild, WritesAreSteps
  <2>4. Lacks(<<x>>, Loud)
    BY <2>3, Mild
  <2>5. x \in Writing(SteerFrames(m))
    BY <2>3, <1>0, <1>1 DEF Writing, SteerFrames, Write, TurnSteer, Frames
  <2>6. ~Lacks(<<x>>, Writing(SteerFrames(m)))
    BY <2>5 DEF Lacks
  <2>7. /\ Lacks(<<x>>, Writing(HandFrames)) /\ Lacks(<<x>>, Writing(TurnFrames))
        /\ Lacks(<<x>>, {Started, Finished, Failed})
    BY <2>4, MildSteps
  <2> HIDE DEF c, r, x
  <2>8. CodexTold(d, r, {m})
    BY <1>1, <2>1, <2>2, <2>6, <2>7 DEF CodexTold, Busy
  <2> QED BY <2>8 DEF r
<1>2. CASE d.phase = "ready" /\ d.active = None
  <2> DEFINE w == Write(IF m \in Compacts THEN [is |-> "compact", msgs |-> <<m>>] ELSE TurnStart(<<m>>))
             c == IF m \in Compacts THEN d ELSE [d EXCEPT !.startId = <<m>>]
             e == Echo(m)
  <2>1. r.drv = c /\ r.steps = <<e>> \o <<w>>
    BY <1>2 DEF CodexCall, CodexSend, CodexFrame, Result
  <2>2. /\ c.steers = d.steers /\ c.active = d.active /\ c.unanswered = d.unanswered
        /\ c.phase = d.phase /\ c.carried = d.carried /\ c.queued = d.queued
        /\ c.startId = IF m \in Compacts THEN d.startId ELSE <<m>>
    BY DEF CodexDrv
  <2>3. /\ w \in Steps /\ w \in Writing(TurnFrames) /\ w \notin Writing(HandFrames)
        /\ w \notin {Started, Finished, Failed}
        /\ m \notin Compacts => w \in Writing({TurnStart(<<m>>)})
    BY <1>0, WritesAreSteps, OfKind
  <2>4. e \in Steps /\ Lacks(<<e>>, Loud)
    BY Mild, EmitsAreSteps
  <2>5. /\ Lacks(<<e>>, Writing(HandFrames)) /\ Lacks(<<e>>, Writing(TurnFrames))
        /\ Lacks(<<e>>, {Started, Finished, Failed})
    BY <2>4, MildSteps
  <2> HIDE DEF c, r, w, e
  <2>6. \A S : Lacks(<<e>> \o <<w>>, S) <=> Lacks(<<e>>, S) /\ w \notin S
    <3> TAKE S
    <3>1. <<e>> \in Seq(Steps) /\ <<w>> \in Seq(Steps) /\ (Lacks(<<w>>, S) <=> w \notin S)
      BY <2>3, <2>4, OneLacks
    <3> QED BY <3>1, JoinLacks
  <2>7. CodexTold(d, r, {m})
    BY <1>0, <1>2, <2>1, <2>2, <2>3, <2>5, <2>6 DEF CodexTold, Busy
  <2> QED BY <2>7 DEF r
<1>3. CASE d.phase # "ready" /\ r = Result([d EXCEPT !.queued = Append(@, m)], <<Echo(m)>>)
  <2> DEFINE c == [d EXCEPT !.queued = Append(@, m)]
             e == Echo(m)
  <2>1. r.drv = c /\ r.steps = <<e>>
    BY <1>3 DEF Result
  <2>2. /\ c.steers = d.steers /\ c.active = d.active /\ c.unanswered = d.unanswered
        /\ c.phase = d.phase /\ c.carried = d.carried /\ c.startId = d.startId /\ c.queued = Append(d.queued, m)
    BY DEF CodexDrv
  <2>3. c.queued # <<>>
    BY <1>0, <2>2 DEF Turn
  <2>4. e \in Steps /\ Lacks(<<e>>, Loud)
    BY Mild, EmitsAreSteps
  <2>5. /\ Lacks(<<e>>, Writing(HandFrames)) /\ Lacks(<<e>>, Writing(TurnFrames))
        /\ Lacks(<<e>>, {Started, Finished, Failed})
    BY <2>4, MildSteps
  <2> HIDE DEF c, r, e
  <2>6. CodexTold(d, r, {m})
    BY <1>3, <2>1, <2>2, <2>3, <2>5 DEF CodexTold
  <2> QED BY <2>6 DEF r
<1> QED
  <2>1. CASE d.active # None /\ (how = "steer" \/ d.phase = "ready")
    BY <1>1, <2>1 DEF CodexCall, CodexSend
  <2>2. CASE d.phase # "ready" /\ ~(how = "steer" /\ d.active # None)
    BY <1>3, <2>2 DEF CodexCall, CodexSend
  <2> QED BY <1>2, <2>1, <2>2

LEMMA CodexTellsStop ==
    ASSUME NEW d \in CodexDrv, CodexNeat(d), NEW r,
           r \in {CodexInterrupt(d), CodexAbandon(d)} \/ \E a \in Asks : r = CodexAnswer(d, a)
    PROVE  CodexTold(d, r, {})
<1>0. d.active \in Turn \cup {None}
  BY CodexFields
<1>1. ASSUME NEW P, NEW s, r = Result([d EXCEPT !.pending = P], s), Lacks(s, Loud)
      PROVE  CodexTold(d, r, {})
  <2> DEFINE c == [d EXCEPT !.pending = P]
  <2>1. r.drv = c /\ r.steps = s
    BY <1>1 DEF Result
  <2>2. /\ c.steers = d.steers /\ c.active = d.active /\ c.unanswered = d.unanswered
        /\ c.phase = d.phase /\ c.carried = d.carried /\ c.startId = d.startId /\ c.queued = d.queued
    BY DEF CodexDrv
  <2>3. /\ Lacks(s, Writing(HandFrames)) /\ Lacks(s, Writing(TurnFrames))
        /\ Lacks(s, {Started, Finished, Failed})
    BY <1>1, MildSteps
  <2> HIDE DEF c
  <2> QED BY <2>1, <2>2, <2>3 DEF CodexTold
<1>2. CASE r = Result(d, <<>>)
  <2>1. d = [d EXCEPT !.pending = d.pending]
    BY DEF CodexDrv
  <2> QED BY <1>1, <1>2, <2>1, Mild
<1>3. ASSUME NEW a \in Asks, r = CodexAnswer(d, a), a \in d.pending PROVE CodexTold(d, r, {})
  <2>1. Lacks(<<Write(Reply(a)), Settled(a)>>, Loud)
    BY Mild DEF Lacks
  <2> QED BY <1>1, <1>3, <2>1 DEF CodexAnswer
<1>4. CASE r = CodexInterrupt(d) /\ d.active # None
  <2> DEFINE as == d.pending \cap d.elicitations
             x == Write(Interrupt(d.active))
  <2>1. Dismiss(as) \in Seq(Steps) /\ x \in Steps
    <3>1. as \in Few(Asks)
      BY CodexFields, FewFacts
    <3>2. as \subseteq Asks /\ IsFiniteSet(as)
      BY <3>1 DEF Few
    <3> QED BY <1>0, <1>4, <3>2, BearsDismiss, WritesAreSteps DEF Bears
  <2>2. Lacks(Dismiss(as), Loud) /\ x \notin Loud
    BY Mild
  <2>3. r = Result([d EXCEPT !.pending = d.pending \ as], Append(Dismiss(as), x))
    BY <1>4 DEF CodexInterrupt, CodexDrv
  <2> HIDE DEF as, x
  <2>4. Lacks(Append(Dismiss(as), x), Loud)
    BY <2>1, <2>2, AppendFacts
  <2> QED BY <1>1, <2>3, <2>4
<1>5. CASE r = CodexAbandon(d)
  BY <1>1, <1>5, Mild DEF CodexAbandon
<1> QED BY <1>2, <1>3, <1>4, <1>5 DEF CodexAnswer, CodexInterrupt

-----------------------------------------------------------------------------
(* The same of a Cursor driver.                                             *)

\* Each of P is followed by one of Q.
Followed(s, P, Q) == \A i \in DOMAIN s : s[i] \in P => \E j \in DOMAIN s : i < j /\ s[j] \in Q

LEMMA FollowedTail ==
    ASSUME NEW A, NEW s \in Seq(A), s # <<>>, NEW P, NEW Q, P \cap Q = {}, Followed(s, P, Q)
    PROVE  /\ Followed(Tail(s), P, Q)
           /\ Head(s) \in P => ~Lacks(Tail(s), Q)
<1>1. /\ Len(s) \in Nat /\ Len(s) > 0 /\ Len(Tail(s)) = Len(s) - 1 /\ DOMAIN s = 1 .. Len(s)
      /\ DOMAIN Tail(s) = 1 .. (Len(s) - 1) /\ \A i \in 1 .. (Len(s) - 1) : Tail(s)[i] = s[i + 1]
      /\ Head(s) = s[1]
  OBVIOUS
<1>2. ASSUME NEW i \in DOMAIN Tail(s), Tail(s)[i] \in P
      PROVE  \E j \in DOMAIN Tail(s) : i < j /\ Tail(s)[j] \in Q
  <2>1. i + 1 \in DOMAIN s /\ s[i + 1] \in P
    BY <1>1, <1>2
  <2>2. PICK j \in DOMAIN s : i + 1 < j /\ s[j] \in Q
    BY <2>1 DEF Followed
  <2>3. j - 1 \in DOMAIN Tail(s) /\ i < j - 1 /\ Tail(s)[j - 1] = s[j]
    BY <1>1, <2>2
  <2> QED BY <2>2, <2>3
<1>3. ASSUME Head(s) \in P PROVE ~Lacks(Tail(s), Q)
  <2>1. PICK j \in DOMAIN s : 1 < j /\ s[j] \in Q
    BY <1>1, <1>3 DEF Followed
  <2>2. j - 1 \in DOMAIN Tail(s) /\ Tail(s)[j - 1] = s[j]
    BY <1>1, <2>1
  <2> QED BY <2>1, <2>2 DEF Lacks
<1> QED BY <1>2, <1>3 DEF Followed

LEMMA FollowedJoin ==
    ASSUME NEW A, NEW s \in Seq(A), NEW t \in Seq(A), NEW P, NEW Q, Followed(t, P, Q),
           Followed(s, P, Q) \/ ~Lacks(t, Q)
    PROVE  Followed(s \o t, P, Q)
<1>1. /\ Len(s) \in Nat /\ Len(t) \in Nat /\ DOMAIN s = 1 .. Len(s) /\ DOMAIN t = 1 .. Len(t)
      /\ DOMAIN (s \o t) = 1 .. (Len(s) + Len(t))
      /\ \A i \in 1 .. Len(s) : (s \o t)[i] = s[i]
      /\ \A i \in 1 .. Len(t) : (s \o t)[Len(s) + i] = t[i]
  OBVIOUS
<1> DEFINE u == s \o t
<1>2. ASSUME NEW i \in 1 .. (Len(s) + Len(t)), u[i] \in P
      PROVE  \E j \in 1 .. (Len(s) + Len(t)) : i < j /\ u[j] \in Q
  <2>1. CASE i \in 1 .. Len(s)
    <3>1. CASE Followed(s, P, Q)
      <4>1. PICK j \in DOMAIN s : i < j /\ s[j] \in Q
        BY <1>1, <1>2, <2>1, <3>1 DEF Followed
      <4> QED BY <1>1, <4>1
    <3>2. CASE ~Lacks(t, Q)
      <4>1. PICK j \in DOMAIN t : t[j] \in Q
        BY <3>2 DEF Lacks
      <4>2. Len(s) + j \in 1 .. (Len(s) + Len(t)) /\ i < Len(s) + j /\ u[Len(s) + j] = t[j]
        BY <1>1, <2>1, <4>1
      <4> QED BY <4>1, <4>2
    <3> QED BY <3>1, <3>2
  <2>2. CASE i \notin 1 .. Len(s)
    <3>1. i - Len(s) \in 1 .. Len(t) /\ u[i] = t[i - Len(s)]
      <4>1. i - Len(s) \in 1 .. Len(t) /\ Len(s) + (i - Len(s)) = i
        BY <1>1, <2>2
      <4> QED BY <1>1, <4>1
    <3>2. PICK j \in DOMAIN t : i - Len(s) < j /\ t[j] \in Q
      BY <1>1, <1>2, <3>1 DEF Followed
    <3>3. Len(s) + j \in 1 .. (Len(s) + Len(t)) /\ i < Len(s) + j /\ u[Len(s) + j] = t[j]
      BY <1>1, <3>2
    <3> QED BY <3>2, <3>3
  <2> QED BY <2>1, <2>2
<1> QED BY <1>1, <1>2 DEF Followed

LEMMA FollowedNone ==
    ASSUME NEW s, NEW P, NEW Q, Lacks(s, P)
    PROVE  Followed(s, P, Q)
  BY DEF Lacks, Followed

CursorTold(d, r, new) ==
    /\ r.drv.phase = d.phase
    /\ ToSet(d.carried) \subseteq ToSet(r.drv.carried)
    /\ r.drv.carried # <<>> => d.carried # <<>> \/ d.prompts # {}
    /\ \/ r.drv.prompts = d.prompts
       \/ /\ d.prompts = {} /\ d.phase = "ready"
          /\ \E p \in Turn : r.drv.prompts = {p} /\ ~Lacks(r.steps, Writing({Prompt(p)}))
    /\ d.queued # <<>> => r.drv.queued # <<>>
    /\ d.phase = "ready" => r.drv.queued = d.queued
    /\ Lacks(r.steps, Writing(HandFrames)) /\ Lacks(r.steps, {Finished, Failed})
    /\ d.phase # "ready" => r.drv.carried = d.carried
    /\ d.phase = "ready" /\ d.prompts # {} => new \subseteq ToSet(r.drv.carried)
    /\ new = {} \/ r.drv.prompts # {} \/ r.drv.queued # <<>>
    /\ \/ Lacks(r.steps, {Started})
       \/ \E m \in new : r.drv.prompts = {<<m>>} /\ Followed(r.steps, {Started}, Writing({Prompt(<<m>>)}))

LEMMA CursorTells ==
    ASSUME NEW d \in CursorDrv, CursorNeat(d), NEW m \in Msgs, m \notin CursorHands(d), NEW how
    PROVE  CursorTold(d, CursorCall(d, m, how), {m})
<1> DEFINE r == CursorCall(d, m, how)
<1>0. d.queued \in Turn /\ d.carried \in Turn /\ <<m>> \in Turn /\ ToSet(<<m>>) = {m}
  BY CursorFields, OneMessage
<1>1. /\ Append(d.carried, m) \in Turn /\ ToSet(Append(d.carried, m)) = ToSet(d.carried) \cup {m}
      /\ Append(d.queued, m) # <<>>
  BY <1>0, OneMore DEF Turn
<1>2. CASE d.phase = "ready" /\ d.prompts # {}
  <2> DEFINE c == [d EXCEPT !.carried = Append(@, m)]
             g == [d EXCEPT !.carried = Append(@, m), !.cancelling = TRUE]
             b == [d EXCEPT !.carried = Append(@, m), !.cancelling = TRUE, !.pending = {}]
             s == <<Write(Interrupt(None))>> \o Dismiss(g.pending)
  <2>1. \/ r = Result(c, <<>>)
        \/ r = Result(g, <<>>)
        \/ r = Result(b, s)
    <3>1. g.phase = "ready"
      BY <1>2 DEF CursorDrv
    <3>2. CursorInterrupt(g) = Result([g EXCEPT !.pending = {}], s)
      BY <3>1 DEF CursorInterrupt
    <3>3. [g EXCEPT !.pending = {}] = b
      BY DEF CursorDrv
    <3> HIDE DEF b, s
    <3> QED BY <1>2, <3>2, <3>3 DEF CursorCall, CursorSteer, CursorSend
  <2>2. Lacks(s, Loud) /\ Lacks(<<>>, Loud)
    <3>1. g.pending = d.pending
      BY DEF CursorDrv
    <3>2. Bears(Dismiss(d.pending), {}, {}, d.pending) /\ Write(Interrupt(None)) \in Steps
      BY BearsDismiss, CursorFields, WritesAreSteps
    <3>3. <<Write(Interrupt(None))>> \in Seq(Steps) /\ Lacks(<<Write(Interrupt(None))>>, Loud)
      BY <3>2, Mild, OneLacks
    <3>4. Dismiss(d.pending) \in Seq(Steps) /\ Lacks(Dismiss(d.pending), Loud)
      BY <3>2, Mild DEF Bears
    <3> QED BY <3>1, <3>3, <3>4, JoinLacks, Mild
  <2>3. \A x \in {c, g, b} : /\ x.phase = d.phase /\ x.carried = Append(d.carried, m)
                             /\ x.prompts = d.prompts /\ x.queued = d.queued
    BY DEF CursorDrv
  <2> HIDE DEF c, g, b, s, r
  <2>4. PICK x, t : /\ r = Result(x, t) /\ Lacks(t, Loud)
                    /\ x.phase = d.phase /\ x.carried = Append(d.carried, m)
                    /\ x.prompts = d.prompts /\ x.queued = d.queued
    BY <2>1, <2>2, <2>3
  <2>5. r.drv = x /\ r.steps = t
    BY <2>4 DEF Result
  <2>6. Lacks(t, Writing(HandFrames)) /\ Lacks(t, {Finished, Failed}) /\ Lacks(t, {Started})
    <3>1. Lacks(t, Writing(HandFrames)) /\ Lacks(t, {Started, Finished, Failed})
      BY <2>4, MildSteps
    <3> QED BY <3>1 DEF Lacks
  <2>7. CursorTold(d, r, {m})
    BY <1>1, <1>2, <2>4, <2>5, <2>6 DEF CursorTold
  <2> QED BY <2>7 DEF r
<1>3. CASE d.phase = "ready" /\ d.prompts = {}
  <2> DEFINE c == [d EXCEPT !.prompts = {<<m>>}]
             e == Echo(m)
             w == Write(Prompt(<<m>>))
  <2>1. r.drv = c /\ r.steps = <<e, Started, w>>
    <3>1. r.drv = c /\ r.steps = <<e>> \o <<Started, w>>
      BY <1>3 DEF CursorCall, CursorSteer, CursorSend, Result, PromptSteps
    <3> HIDE DEF c, e, w, r
    <3>2. <<Started, w>> = <<Started>> \o <<w>>
      OBVIOUS
    <3>3. <<e>> \o <<Started, w>> = <<e, Started, w>>
      BY <3>2, Thrice
    <3> QED BY <3>1, <3>3
  <2>2. c.phase = d.phase /\ c.carried = d.carried /\ c.prompts = {<<m>>} /\ c.queued = d.queued
    BY DEF CursorDrv
  <2>3. /\ e \notin Writing(HandFrames) /\ e \notin {Finished, Failed}
        /\ Started \notin Writing(HandFrames) /\ Started \notin {Finished, Failed}
        /\ w \notin Writing(HandFrames) /\ w \notin {Finished, Failed} /\ w \in Writing({Prompt(<<m>>)})
        /\ e # Started /\ w # Started
    <3>1. e \notin Writing(HandFrames) /\ e \notin {Started, Finished, Failed} /\ Started \notin {Finished, Failed}
      BY DEF Writing, Echo, Emit, Finished, Failed, Started
    <3> QED BY <1>0, <3>1, OfKind
  <2> HIDE DEF c, e, w, r
  <2>4. /\ Lacks(r.steps, Writing(HandFrames)) /\ Lacks(r.steps, {Finished, Failed})
        /\ ~Lacks(r.steps, Writing({Prompt(<<m>>)}))
        /\ Followed(r.steps, {Started}, Writing({Prompt(<<m>>)}))
    <3> DEFINE t == <<e, Started, w>>
    <3>1. DOMAIN t = {1, 2, 3} /\ t[1] = e /\ t[2] = Started /\ t[3] = w
      OBVIOUS
    <3> HIDE DEF t
    <3>2. Followed(t, {Started}, Writing({Prompt(<<m>>)}))
      BY <2>3, <3>1 DEF Followed
    <3>3. r.steps = t
      BY <2>1 DEF t
    <3> QED BY <2>3, <3>1, <3>2, <3>3 DEF Lacks
  <2>5. CursorTold(d, r, {m})
    BY <1>0, <1>3, <2>1, <2>2, <2>4 DEF CursorTold
  <2> QED BY <2>5 DEF r
<1>4. CASE d.phase # "ready"
  <2> DEFINE c == [d EXCEPT !.queued = Append(@, m)]
             s == <<Echo(m)>>
  <2>1. r.drv = c /\ r.steps = s
    BY <1>4 DEF CursorCall, CursorSteer, CursorSend, Result
  <2>2. c.phase = d.phase /\ c.carried = d.carried /\ c.prompts = d.prompts /\ c.queued = Append(d.queued, m)
    BY DEF CursorDrv
  <2>3. Lacks(s, Writing(HandFrames)) /\ Lacks(s, {Finished, Failed}) /\ Lacks(s, {Started})
    <3>1. Lacks(s, Loud)
      BY Mild, EmitsAreSteps
    <3>2. Lacks(s, Writing(HandFrames)) /\ Lacks(s, {Started, Finished, Failed})
      BY <3>1, MildSteps
    <3> QED BY <3>2 DEF Lacks
  <2> HIDE DEF c, s, r
  <2>4. CursorTold(d, r, {m})
    BY <1>1, <1>4, <2>1, <2>2, <2>3 DEF CursorTold
  <2> QED BY <2>4 DEF r
<1> QED BY <1>2, <1>3, <1>4

LEMMA CursorTellsStop ==
    ASSUME NEW d \in CursorDrv, CursorNeat(d), NEW r,
           r = CursorInterrupt(d) \/ \E a \in Asks, allow \in BOOLEAN : r = CursorAnswer(d, a, allow)
    PROVE  CursorTold(d, r, {})
<1>1. ASSUME NEW c, c.phase = d.phase, c.carried = d.carried, c.prompts = d.prompts, c.queued = d.queued,
             NEW s, r = Result(c, s), Lacks(s, Loud)
      PROVE  CursorTold(d, r, {})
  <2>1. r.drv = c /\ r.steps = s
    BY <1>1 DEF Result
  <2>2. Lacks(s, Writing(HandFrames)) /\ Lacks(s, {Started, Finished, Failed})
    BY <1>1, MildSteps
  <2>3. Lacks(s, {Finished, Failed}) /\ Lacks(s, {Started})
    BY <2>2 DEF Lacks
  <2> QED BY <1>1, <2>1, <2>2, <2>3 DEF CursorTold
<1>2. CASE r = Result(d, <<>>)
  BY <1>1, <1>2, Mild
<1>3. ASSUME NEW a \in Asks, NEW allow \in BOOLEAN, r = CursorAnswer(d, a, allow), a \in d.pending
      PROVE  CursorTold(d, r, {})
  <2> DEFINE c == [d EXCEPT !.pending = @ \ {a}, !.auto = @ \/ (allow /\ a \in d.plans)]
             s == <<Write(Reply(a)), Settled(a)>>
  <2>1. r = Result(c, s)
    BY <1>3 DEF CursorAnswer
  <2>2. c.phase = d.phase /\ c.carried = d.carried /\ c.prompts = d.prompts /\ c.queued = d.queued
    BY DEF CursorDrv
  <2>3. Lacks(s, Loud)
    BY Mild DEF Lacks
  <2> HIDE DEF c, s
  <2> QED BY <1>1, <2>1, <2>2, <2>3
<1>4. CASE r = CursorInterrupt(d) /\ d.phase = "ready"
  <2> DEFINE c == [d EXCEPT !.pending = {}]
             s == <<Write(Interrupt(None))>> \o Dismiss(d.pending)
  <2>1. r = Result(c, s)
    BY <1>4 DEF CursorInterrupt
  <2>2. c.phase = d.phase /\ c.carried = d.carried /\ c.prompts = d.prompts /\ c.queued = d.queued
    BY DEF CursorDrv
  <2>3. Lacks(s, Loud)
    <3>1. Bears(Dismiss(d.pending), {}, {}, d.pending) /\ Write(Interrupt(None)) \in Steps
      BY BearsDismiss, CursorFields, WritesAreSteps
    <3>2. <<Write(Interrupt(None))>> \in Seq(Steps) /\ Lacks(<<Write(Interrupt(None))>>, Loud)
      BY <3>1, Mild, OneLacks
    <3>3. Dismiss(d.pending) \in Seq(Steps) /\ Lacks(Dismiss(d.pending), Loud)
      BY <3>1, Mild DEF Bears
    <3> QED BY <3>2, <3>3, JoinLacks
  <2> HIDE DEF c, s
  <2> QED BY <1>1, <2>1, <2>2, <2>3
<1> QED BY <1>2, <1>3, <1>4 DEF CursorAnswer, CursorInterrupt

\* What it makes of a line.
CursorHears(d, r, line) ==
    /\ HandHears(d, r, line)
    /\ \A m \in ToSet(d.carried) : m \in ToSet(r.drv.carried) \/ ~Lacks(r.steps, Writing(OwnFrames(m)))
    /\ line.is = "prompt" /\ ~line.ok => ~Lacks(r.steps, {Failed})
    /\ ~Lacks(r.steps, {Finished}) => d.carried = <<>>
    /\ r.drv.phase # "ready" /\ d.prompts = {} /\ d.carried = <<>> => r.drv.prompts = {} /\ r.drv.carried = <<>>
    /\ \A p \in r.drv.prompts : \/ p \in d.prompts /\ ~(line.is = "prompt" /\ line.msgs = p)
                                \/ ~Lacks(r.steps, Writing({Prompt(p)}))
    /\ (d.carried # <<>> => d.prompts # {}) /\ line.is # "open"
          => (r.drv.carried # <<>> => r.drv.prompts # {})
    /\ d.carried = <<>> => r.drv.carried = <<>>
    /\ d.prompts # {} /\ line.is # "open" => r.drv.prompts # {} \/ ~Lacks(r.steps, Endings)
    /\ d.queued # <<>> => r.drv.queued # <<>> \/ r.drv.prompts # {}
    /\ (d.phase = "ready" => d.queued = <<>>) => (r.drv.phase = "ready" => r.drv.queued = <<>>)
    /\ ~Lacks(r.steps, {Started}) => r.drv.prompts # {}
    /\ \A p \in d.prompts : p \in r.drv.prompts \/ (line.is = "prompt" /\ line.msgs = p) \/ line.is = "open"

\* Lines that change nothing of this.
LEMMA PlainCursor ==
    ASSUME NEW d, NEW r, NEW line \in Lines, line.is # "prompt", line.is # "open" \/ ~line.ok,
           r.drv.carried = d.carried, r.drv.prompts = d.prompts, r.drv.queued = d.queued,
           r.drv.phase = d.phase \/ (line \in HandLines /\ r.drv.phase # "ready"),
           Lacks(r.steps, Writing(HandFrames)) \/ (line \in HandLines /\ r.drv.phase # "ready"),
           Single(r.steps, Writing(HandFrames)), Lacks(r.steps, {Finished}), Lacks(r.steps, {Started})
    PROVE  CursorHears(d, r, line)
<1>1. HandHears(d, r, line)
  BY DEF HandHears
<1> QED BY <1>1 DEF CursorHears

LEMMA CursorFlushed ==
    ASSUME NEW d \in CursorDrv, CursorNeat(d)
    PROVE  LET r == CursorFlush(d)
           IN  \/ /\ d.carried = <<>> \/ d.prompts # {}
                  /\ r = Result(d, <<>>)
               \/ /\ d.carried # <<>> /\ d.prompts = {}
                  /\ r.drv = [d EXCEPT !.carried = <<>>, !.prompts = {d.carried}]
                  /\ r = Result(r.drv, r.steps) /\ r.steps \in Seq(Steps)
                  /\ \A m \in ToSet(d.carried) : ~Lacks(r.steps, Writing(OwnFrames(m)))
                  /\ ~Lacks(r.steps, Writing({Prompt(d.carried)}))
                  /\ Lacks(r.steps, Writing(HandFrames)) /\ Lacks(r.steps, {Finished, Failed})
<1> DEFINE r == CursorFlush(d)
<1>1. CASE d.carried = <<>> \/ d.prompts # {}
  BY <1>1 DEF CursorFlush
<1>2. CASE ~(d.carried = <<>> \/ d.prompts # {})
  <2> DEFINE c == [d EXCEPT !.carried = <<>>, !.prompts = {d.carried}]
             s == Echoes(d.carried)
             w == Write(Prompt(d.carried))
             u == <<Started>> \o <<w>>
  <2>1. r = Result(c, s \o u)
    <3>1. r = Result(c, s \o <<Started, w>>)
      BY <1>2 DEF CursorFlush, PromptSteps
    <3> HIDE DEF c, s, w, r
    <3>2. <<Started, w>> = <<Started>> \o <<w>>
      OBVIOUS
    <3> QED BY <3>1, <3>2
  <2>2. r.drv = c /\ r.steps = s \o u
    BY <2>1 DEF Result
  <2>3. d.carried \in Turn
    BY CursorFields
  <2>4. s \in Seq(Steps) /\ w \in Steps /\ Started \in Steps
    BY <2>3, BearsEchoes, WritesAreSteps, EmitsAreSteps DEF CursorNeat, Bears
  <2>5. Lacks(s, Writing(HandFrames)) /\ Lacks(s, {Finished, Failed})
    <3>1. Lacks(s, Loud)
      BY Mild
    <3>2. Lacks(s, Writing(HandFrames)) /\ Lacks(s, {Started, Finished, Failed})
      BY <3>1, MildSteps
    <3> QED BY <3>2 DEF Lacks
  <2>6. /\ w \in Writing({Prompt(d.carried)}) /\ w \notin Writing(HandFrames)
        /\ \A m \in ToSet(d.carried) : w \in Writing(OwnFrames(m))
        /\ w \notin {Finished, Failed}
        /\ Started \notin Writing(HandFrames)
    BY <2>3, OfKind
  <2>7. Started \notin {Finished, Failed}
    BY DEF Started, Finished, Failed, Emit
  <2> HIDE DEF c, s, w, r
  <2>8. u \in Seq(Steps) /\ \A S : Lacks(u, S) <=> Started \notin S /\ w \notin S
    <3>1. /\ <<w>> \in Seq(Steps) /\ \A S : Lacks(<<w>>, S) <=> w \notin S
          /\ <<Started>> \in Seq(Steps) /\ \A S : Lacks(<<Started>>, S) <=> Started \notin S
      BY <2>4, OneLacks
    <3> QED BY <3>1, JoinLacks
  <2> HIDE DEF u
  <2>9. /\ s \o u \in Seq(Steps)
        /\ \A S : Lacks(s \o u, S) <=> Lacks(s, S) /\ Started \notin S /\ w \notin S
    BY <2>4, <2>8, JoinLacks
  <2>10. /\ \A m \in ToSet(d.carried) : ~Lacks(r.steps, Writing(OwnFrames(m)))
         /\ ~Lacks(r.steps, Writing({Prompt(d.carried)}))
         /\ Lacks(r.steps, Writing(HandFrames)) /\ Lacks(r.steps, {Finished, Failed})
    BY <2>2, <2>5, <2>6, <2>7, <2>9
  <2> QED BY <1>2, <2>1, <2>2, <2>9, <2>10 DEF r, c
<1> QED BY <1>1, <1>2

LEMMA CursorHearsLine ==
    ASSUME NEW d \in CursorDrv, CursorNeat(d), NEW line \in Lines, line.is \in CursorSpeaks
    PROVE  CursorHears(d, CursorOnLine(d, line), line)
<1> DEFINE r == CursorOnLine(d, line)
<1> SUFFICES CursorHears(d, r, line)
  OBVIOUS
<1>0. d.queued \in Turn /\ d.carried \in Turn /\ d.prompts \subseteq Turn
  BY CursorFields
<1>1. line \in HandLines <=> line.is \in {"init", "auth", "open"}
  BY DEF HandLines
<1>2. /\ Failed \in Steps /\ Started \in Steps /\ Finished \in Steps
      /\ \A x \in Steps : \A S : Lacks(<<x>>, S) <=> x \notin S
      /\ \A S : Lacks(<<>>, S) /\ Single(<<>>, S)
      /\ \A x, S : Single(<<x>>, S)
  BY EmitsAreSteps DEF Lacks, Single
<1>3. CASE line.is \in {"init", "auth"} \/ (line.is = "open" /\ ~line.ok)
  <2> DEFINE c == IF line.is = "init" /\ line.ok THEN [d EXCEPT !.phase = "authenticating"]
                  ELSE IF line.is = "auth" /\ line.ok THEN [d EXCEPT !.phase = "starting"] ELSE d
             x == IF line.is = "init" /\ line.ok THEN Write([is |-> "auth"])
                  ELSE IF line.is = "auth" /\ line.ok THEN Write([is |-> "open"]) ELSE Failed
  <2>1. r.drv = c /\ r.steps = <<x>>
    BY <1>3 DEF CursorOnLine, Result
  <2>2. c.carried = d.carried /\ c.prompts = d.prompts /\ c.queued = d.queued
    BY DEF CursorDrv
  <2>3. x \in Steps /\ x # Finished /\ x # Started
    BY <1>2, WritesAreSteps, OfKind
  <2>4. \/ c = d /\ x = Failed
        \/ c.phase # "ready"
    BY DEF CursorDrv
  <2> HIDE DEF c, x, r
  <2>5. /\ Lacks(r.steps, {Finished}) /\ Lacks(r.steps, {Started}) /\ Single(r.steps, Writing(HandFrames))
        /\ r.drv.phase = d.phase \/ (line \in HandLines /\ r.drv.phase # "ready")
        /\ Lacks(r.steps, Writing(HandFrames)) \/ (line \in HandLines /\ r.drv.phase # "ready")
    BY <1>1, <1>2, <1>3, <2>1, <2>3, <2>4, OfKind
  <2> QED BY <1>3, <2>1, <2>2, <2>5, PlainCursor
<1>4. CASE line.is = "ask"
  <2> DEFINE c == [d EXCEPT !.pending = @ \cup {line.ask},
                            !.plans = IF line.kind = "plan" THEN @ \cup {line.ask} ELSE @]
             y == <<Write(Reply(line.ask)), Settled(line.ask)>>
  <2>1. \/ r = Result(d, <<>>)
        \/ r = Result(d, y)
        \/ r = Result(c, <<Card(line.ask)>>)
    BY <1>4 DEF CursorOnLine, CursorOnAsk
  <2>2. c.carried = d.carried /\ c.prompts = d.prompts /\ c.queued = d.queued /\ c.phase = d.phase
    BY DEF CursorDrv
  <2>3. Lacks(y, Loud) /\ Lacks(<<>>, Loud) /\ Lacks(<<Card(line.ask)>>, Loud)
    BY Mild DEF Lacks
  <2> HIDE DEF c, y, r
  <2>4. PICK x, s : /\ r = Result(x, s) /\ Lacks(s, Loud)
                    /\ x.carried = d.carried /\ x.prompts = d.prompts /\ x.queued = d.queued /\ x.phase = d.phase
    BY <2>1, <2>2, <2>3
  <2>5. r.drv = x /\ r.steps = s
    BY <2>4 DEF Result
  <2>6. Lacks(s, Writing(HandFrames)) /\ Lacks(s, {Finished}) /\ Lacks(s, {Started})
    BY <2>4, LoudFacts
  <2>7. Single(s, Writing(HandFrames))
    BY <2>6, LackSingle
  <2> QED BY <1>4, <2>4, <2>5, <2>6, <2>7, PlainCursor
<1>5. CASE line.is = "open" /\ line.ok
  <2> DEFINE q == d.queued
             n == Len(q)
             ps == {<<m>> : m \in ToSet(q)}
             c == [d EXCEPT !.phase = "ready", !.queued = <<>>, !.prompts = ps]
             s == [i \in 1 .. 2 * n |-> IF i % 2 = 1 THEN Started ELSE Write(Prompt(<<q[i \div 2]>>))]
  <2>1. r.drv = c /\ r.steps = s
    BY <1>5 DEF CursorOnLine, CursorOnOpen, Result
  <2>2. c.carried = d.carried /\ c.prompts = ps /\ c.queued = <<>> /\ c.phase = "ready"
    BY DEF CursorDrv
  <2>3. n \in Nat /\ q \in [1 .. n -> Msgs] /\ DOMAIN q = 1 .. n
    BY <1>0, ListOf DEF Turn
  <2>4. q # <<>> => ps # {}
    <3>1. ToSet(q) = {} => q = <<>>
      BY <1>0, MembersFacts DEF Turn
    <3> QED BY <3>1
  <2>5. \A m \in Msgs : <<m>> \in Turn
    BY OneMessage
  <2> HIDE DEF n, q
  <2>6. ASSUME NEW i \in 1 .. 2 * n
        PROVE  s[i] = Started \/ \E m \in Msgs : s[i] = Write(Prompt(<<m>>))
    <3>1. CASE i % 2 = 1
      BY <3>1
    <3>2. CASE i % 2 # 1
      <4>1. i % 2 = 0 /\ i \div 2 \in 1 .. n
        BY <2>3, <3>2, Halves
      <4>2. q[i \div 2] \in Msgs
        BY <2>3, <4>1
      <4> QED BY <3>2, <4>2
    <3> QED BY <3>1, <3>2
  <2>7. ASSUME NEW m \in ToSet(q) PROVE ~Lacks(s, Writing({Prompt(<<m>>)}))
    <3>1. PICK k \in 1 .. n : q[k] = m
      BY <2>3 DEF ToSet
    <3>2. PICK i \in 1 .. 2 * n : i % 2 = 0 /\ i \div 2 = k
      BY <2>3, Halves
    <3>3. s[i] = Write(Prompt(<<m>>)) /\ i \in DOMAIN s
      BY <3>1, <3>2
    <3>4. <<m>> \in Turn
      BY <2>3, <2>5, <3>1
    <3>5. Write(Prompt(<<m>>)) \in Writing({Prompt(<<m>>)})
      BY <3>4, OfKind
    <3> HIDE DEF s
    <3> QED BY <3>3, <3>5 DEF Lacks
  <2>8. DOMAIN s = 1 .. 2 * n
    OBVIOUS
  <2>12. q = <<>> => Lacks(s, {Started})
    <3>1. q = <<>> => n = 0
      BY DEF n
    <3>2. n = 0 => 1 .. 2 * n = {}
      OBVIOUS
    <3> HIDE DEF s
    <3> QED BY <2>8, <3>1, <3>2 DEF Lacks
  <2> HIDE DEF s, c, r, ps
  <2>9. Lacks(s, Writing(HandFrames)) /\ Lacks(s, {Finished})
    <3>1. Started \notin Writing(HandFrames) /\ Started # Finished
      <4>1. Started # Finished
        BY DEF Started, Finished, Emit
      <4> QED BY <4>1, OfKind
    <3>2. \A m \in Msgs : Write(Prompt(<<m>>)) \notin Writing(HandFrames) /\ Write(Prompt(<<m>>)) # Finished
      BY <2>5, OfKind
    <3> QED BY <2>6, <2>8, <3>1, <3>2 DEF Lacks
  <2>10. HandHears(d, r, line)
    BY <1>1, <1>5, <2>1, <2>2, <2>9, LackSingle DEF HandHears
  <2>11. \A p \in ps : ~Lacks(s, Writing({Prompt(p)}))
    BY <2>7 DEF ps
  <2> QED BY <1>5, <2>1, <2>2, <2>4, <2>12, <2>9, <2>10, <2>11 DEF CursorHears, q
<1>6. CASE line.is = "prompt"
  <2> DEFINE c == [d EXCEPT !.prompts = @ \ {line.msgs},
                            !.cancelling = IF line.msgs \in d.prompts THEN FALSE ELSE @]
             f == CursorFlush(c)
             known == line.msgs \in d.prompts
  <2>0. line.ok \in BOOLEAN
    BY <1>6, LineFields
  <2>1. c \in CursorDrv /\ c.queued = d.queued /\ c.carried = d.carried /\ c.phase = d.phase
        /\ c.prompts = d.prompts \ {line.msgs}
    BY DEF CursorDrv
  <2>2. \/ ~line.ok /\ known /\ r = [f EXCEPT !.steps = <<Failed>> \o @]
        \/ ~line.ok /\ ~known /\ r = Result(c, <<Failed>>)
        \/ line.ok /\ known /\ c.carried = <<>> /\ r = Result(c, <<Finished>>)
        \/ line.ok /\ known /\ c.carried # <<>> /\ r = f
        \/ line.ok /\ ~known /\ r = Result(c, <<>>)
    BY <1>6, <2>0 DEF CursorOnLine, CursorOnPrompt
  <2>3. CursorNeat(c)
    BY <2>1 DEF CursorNeat
  <2>4. DOMAIN f = {"drv", "steps"}
    BY DEF CursorFlush, Result
  <2> HIDE DEF c, r
  <2>5. /\ f.drv.phase = c.phase /\ f.drv.queued = c.queued /\ f.steps \in Seq(Steps)
        /\ \/ f.drv.prompts = c.prompts /\ f.drv.carried = c.carried /\ f.steps = <<>>
              /\ (c.carried = <<>> \/ c.prompts # {})
           \/ /\ f.drv.prompts = {c.carried} /\ f.drv.carried = <<>> /\ c.carried # <<>> /\ c.prompts = {}
              /\ \A m \in ToSet(c.carried) : ~Lacks(f.steps, Writing(OwnFrames(m)))
              /\ ~Lacks(f.steps, Writing({Prompt(c.carried)}))
        /\ Lacks(f.steps, Writing(HandFrames)) /\ Lacks(f.steps, {Finished, Failed})
    <3>1. CASE (c.carried = <<>> \/ c.prompts # {}) /\ f = Result(c, <<>>)
      <4>1. f.drv = c /\ f.steps = <<>>
        BY <3>1 DEF Result
      <4>2. Lacks(<<>>, Writing(HandFrames)) /\ Lacks(<<>>, {Finished, Failed}) /\ <<>> \in Seq(Steps)
        BY <1>2
      <4> HIDE DEF f
      <4> QED BY <3>1, <4>1, <4>2
    <3>2. CASE /\ c.carried # <<>> /\ c.prompts = {} /\ f.drv = [c EXCEPT !.carried = <<>>, !.prompts = {c.carried}]
               /\ f.steps \in Seq(Steps)
               /\ \A m \in ToSet(c.carried) : ~Lacks(f.steps, Writing(OwnFrames(m)))
               /\ ~Lacks(f.steps, Writing({Prompt(c.carried)}))
               /\ Lacks(f.steps, Writing(HandFrames)) /\ Lacks(f.steps, {Finished, Failed})
      <4> HIDE DEF f
      <4>1. /\ f.drv.phase = c.phase /\ f.drv.queued = c.queued
            /\ f.drv.prompts = {c.carried} /\ f.drv.carried = <<>>
        BY <2>1, <3>2 DEF CursorDrv
      <4> QED BY <3>2, <4>1
    <3> QED BY <2>1, <2>3, <3>1, <3>2, CursorFlushed
  <2>6. /\ [f EXCEPT !.steps = <<Failed>> \o @].drv = f.drv
        /\ [f EXCEPT !.steps = <<Failed>> \o @].steps = <<Failed>> \o f.steps
    <3> HIDE DEF f
    <3> QED BY <2>4
  <2> HIDE DEF f, known
  <2>7. /\ r.drv.phase = d.phase /\ r.drv.queued = d.queued
        /\ \/ /\ r.drv.prompts = d.prompts \ {line.msgs} /\ r.drv.carried = d.carried
              /\ d.carried = <<>> \/ d.prompts \ {line.msgs} # {} \/ line.msgs \notin d.prompts
           \/ /\ r.drv.prompts = {d.carried} /\ r.drv.carried = <<>> /\ d.carried # <<>>
              /\ \A m \in ToSet(d.carried) : ~Lacks(r.steps, Writing(OwnFrames(m)))
              /\ ~Lacks(r.steps, Writing({Prompt(d.carried)}))
        /\ Lacks(r.steps, Writing(HandFrames))
        /\ ~line.ok => ~Lacks(r.steps, {Failed}) /\ ~Lacks(r.steps, Endings)
        /\ ~Lacks(r.steps, {Finished}) => d.carried = <<>>
        /\ line.msgs \in d.prompts => r.drv.prompts # {} \/ ~Lacks(r.steps, Endings)
        /\ ~Lacks(r.steps, {Started}) => r.drv.prompts # {}
        /\ d.prompts \ {line.msgs} \subseteq r.drv.prompts
    <3>0. Failed \notin Writing(HandFrames) /\ Finished \notin Writing(HandFrames)
          /\ Failed \in Endings /\ Finished \in Endings /\ Failed # Finished
          /\ Failed # Started /\ Finished # Started
      BY OfKind
    <3>1. CASE ~line.ok /\ r.drv = f.drv /\ r.steps = <<Failed>> \o f.steps
      <4>1. \A S : Lacks(r.steps, S) <=> Failed \notin S /\ Lacks(f.steps, S)
        <5>1. <<Failed>> \in Seq(Steps) /\ \A S : Lacks(<<Failed>>, S) <=> Failed \notin S
          BY <1>2, OneLacks
        <5> TAKE S
        <5>2. Lacks(<<Failed>> \o f.steps, S) <=> Lacks(<<Failed>>, S) /\ Lacks(f.steps, S)
          BY <2>5, <5>1, JoinLacks
        <5> QED BY <3>1, <5>1, <5>2
      <4>2. Lacks(f.steps, {Finished}) /\ Lacks(<<>>, {Started})
        BY <2>5 DEF Lacks
      <4>3. ~Lacks(r.steps, {Started}) => r.drv.prompts # {}
        <5>1. Lacks(r.steps, {Started}) <=> Lacks(f.steps, {Started})
          BY <3>0, <4>1
        <5> QED BY <2>5, <3>1, <4>2, <5>1
      <4>4. d.prompts \ {line.msgs} \subseteq r.drv.prompts
        BY <2>1, <2>5, <3>1
      <4>5. /\ r.drv.phase = d.phase /\ r.drv.queued = d.queued
            /\ Lacks(r.steps, Writing(HandFrames))
            /\ ~Lacks(r.steps, {Failed}) /\ ~Lacks(r.steps, Endings)
            /\ Lacks(r.steps, {Finished})
        BY <2>1, <2>5, <3>0, <3>1, <4>1, <4>2
      <4>6. \/ /\ r.drv.prompts = d.prompts \ {line.msgs} /\ r.drv.carried = d.carried
               /\ d.carried = <<>> \/ d.prompts \ {line.msgs} # {} \/ line.msgs \notin d.prompts
            \/ /\ r.drv.prompts = {d.carried} /\ r.drv.carried = <<>> /\ d.carried # <<>>
               /\ \A m \in ToSet(d.carried) : ~Lacks(r.steps, Writing(OwnFrames(m)))
               /\ ~Lacks(r.steps, Writing({Prompt(d.carried)}))
        BY <2>1, <2>5, <3>1, <4>1
      <4> QED BY <3>1, <4>3, <4>4, <4>5, <4>6
    <3>2. CASE ~line.ok /\ line.msgs \notin d.prompts /\ r.drv = c /\ r.steps = <<Failed>>
      BY <1>2, <2>1, <3>0, <3>2
    <3>3. CASE line.ok /\ d.carried = <<>> /\ r.drv = c /\ r.steps = <<Finished>>
      BY <1>2, <2>1, <3>0, <3>3
    <3>4. CASE line.ok /\ d.carried # <<>> /\ r = f
      <4>1. Lacks(f.steps, {Finished})
        BY <2>5 DEF Lacks
      <4>2. f.drv.prompts # {}
        BY <2>1, <2>5, <3>4
      <4> QED BY <2>1, <2>5, <3>4, <4>1, <4>2
    <3>5. CASE line.ok /\ line.msgs \notin d.prompts /\ r.drv = c /\ r.steps = <<>>
      BY <1>2, <2>1, <3>5
    <3> QED
      <4>1. \A x, y : Result(x, y).drv = x /\ Result(x, y).steps = y
        BY DEF Result
      <4>2. \/ ~line.ok /\ r.drv = f.drv /\ r.steps = <<Failed>> \o f.steps
            \/ ~line.ok /\ line.msgs \notin d.prompts /\ r.drv = c /\ r.steps = <<Failed>>
            \/ line.ok /\ d.carried = <<>> /\ r.drv = c /\ r.steps = <<Finished>>
            \/ line.ok /\ d.carried # <<>> /\ r = f
            \/ line.ok /\ line.msgs \notin d.prompts /\ r.drv = c /\ r.steps = <<>>
        <5>1. ~line.ok /\ r = [f EXCEPT !.steps = <<Failed>> \o @] => r.drv = f.drv /\ r.steps = <<Failed>> \o f.steps
          BY <2>6
        <5>2. r = Result(c, <<Failed>>) => r.drv = c /\ r.steps = <<Failed>>
          BY <4>1
        <5>3. r = Result(c, <<Finished>>) => r.drv = c /\ r.steps = <<Finished>>
          BY <4>1
        <5>4. r = Result(c, <<>>) => r.drv = c /\ r.steps = <<>>
          BY <4>1
        <5>5. known <=> line.msgs \in d.prompts
          BY DEF known
        <5> QED BY <2>1, <2>2, <5>1, <5>2, <5>3, <5>4, <5>5
      <4> QED BY <3>1, <3>2, <3>3, <3>4, <3>5, <4>2
  <2>8. HandHears(d, r, line)
    BY <1>1, <1>6, <2>7, LackSingle DEF HandHears
  <2>9. d.prompts # {} => r.drv.prompts # {} \/ ~Lacks(r.steps, Endings)
    BY <2>7
  <2> QED BY <1>6, <2>7, <2>8, <2>9 DEF CursorHears
<1> QED BY <1>3, <1>4, <1>5, <1>6, LineFields DEF CursorSpeaks

-----------------------------------------------------------------------------
(* The same of a Claude driver.                                             *)

UserFrames == {f \in Frames : f.is = "user"}
UsersOf(m) == {f \in Frames : f.is = "user" /\ f.msg = m}
Results == {l \in Lines : l.is = "result"}
TurnLines == {l \in Lines : l.is \in {"turn", "taken"}}
QueuedLine(m) == [is |-> "queued", msg |-> m]
TakenLine(m) == [is |-> "taken", msg |-> m]

ClaudeTold(d, r, new) ==
    /\ r.drv.queued = d.queued
    /\ d.steers \subseteq r.drv.steers /\ r.drv.steers \subseteq d.steers \cup new
    /\ d.state # "idle" => r.drv.state # "idle"
    /\ new = {} => (r.drv.state = "idle" <=> d.state = "idle") /\ Lacks(r.steps, {Started})
    /\ new # {} => r.drv.state # "idle"
    /\ d.state = "idle" => r.drv.steers = d.steers
    /\ \A m \in new : ~Lacks(r.steps, Writing(UsersOf(m)))
    /\ Followed(r.steps, {Started}, Writing(UserFrames)) /\ Lacks(r.steps, {Finished, Failed})

LEMMA ClaudeTells ==
    ASSUME NEW d \in ClaudeDrv, NEW m \in Msgs
    PROVE  ClaudeTold(d, ClaudeCall(d, m), {m})
<1> DEFINE r == ClaudeCall(d, m)
           y == Write(User(m, TRUE))
           n == Write(User(m, FALSE))
           e == Echo(m)
<1>0. /\ y \in Steps /\ n \in Steps /\ y \in Writing(UsersOf(m)) /\ n \in Writing(UsersOf(m))
      /\ y \in Writing(UserFrames) /\ n \in Writing(UserFrames)
      /\ y \notin {Started, Finished, Failed} /\ n \notin {Started, Finished, Failed}
      /\ e \notin {Started, Finished, Failed} /\ Started \notin {Finished, Failed}
  <2>1. y \in Steps /\ n \in Steps
    BY WritesAreSteps
  <2>2. User(m, TRUE) \in UsersOf(m) /\ User(m, FALSE) \in UsersOf(m)
        /\ User(m, TRUE) \in UserFrames /\ User(m, FALSE) \in UserFrames
    BY DEF User, UsersOf, UserFrames, Frames
  <2>3. /\ y \notin {Started, Finished, Failed} /\ n \notin {Started, Finished, Failed}
        /\ e \notin {Started, Finished, Failed} /\ Started \notin {Finished, Failed}
    BY DEF Write, Started, Finished, Failed, Emit, Echo
  <2> QED BY <2>1, <2>2, <2>3 DEF Writing, Write
<1>1. CASE d.state # "idle"
  <2> DEFINE c == [d EXCEPT !.steers = @ \cup {m}]
  <2>1. r.drv = c /\ r.steps = <<y>>
    BY <1>1 DEF ClaudeCall, ClaudeSteer, Result
  <2>2. c.queued = d.queued /\ c.steers = d.steers \cup {m} /\ c.state = d.state
    BY DEF ClaudeDrv
  <2> HIDE DEF c, y, r
  <2>3. /\ ~Lacks(<<y>>, Writing(UsersOf(m))) /\ Lacks(<<y>>, {Started}) /\ Lacks(<<y>>, {Finished, Failed})
    BY <1>0 DEF Lacks
  <2>4. Followed(<<y>>, {Started}, Writing(UserFrames))
    BY <2>3, FollowedNone
  <2>5. ClaudeTold(d, r, {m})
    BY <1>1, <2>1, <2>2, <2>3, <2>4 DEF ClaudeTold
  <2> QED BY <2>5 DEF r
<1>2. CASE d.state = "idle"
  <2> DEFINE c == [d EXCEPT !.state = "running"]
             t == <<e, Started, n>>
  <2>1. r.drv = c /\ r.steps = t
    BY <1>2 DEF ClaudeCall, Result
  <2>2. c.queued = d.queued /\ c.steers = d.steers /\ c.state = "running"
    BY DEF ClaudeDrv
  <2>3. DOMAIN t = {1, 2, 3} /\ t[1] = e /\ t[2] = Started /\ t[3] = n
    OBVIOUS
  <2> HIDE DEF c, n, e, t, r
  <2>4. ~Lacks(t, Writing(UsersOf(m))) /\ Lacks(t, {Finished, Failed})
    BY <1>0, <2>3 DEF Lacks
  <2>5. Followed(t, {Started}, Writing(UserFrames))
    BY <1>0, <2>3 DEF Followed
  <2>6. ClaudeTold(d, r, {m})
    BY <1>2, <2>1, <2>2, <2>4, <2>5 DEF ClaudeTold
  <2> QED BY <2>6 DEF r
<1> QED BY <1>1, <1>2

LEMMA ClaudeTellsStop ==
    ASSUME NEW d \in ClaudeDrv, NEW r,
           r \in {ClaudeInterrupt(d), ClaudeAbandon(d)} \/ \E a \in Asks : r = ClaudeAnswer(d, a)
    PROVE  ClaudeTold(d, r, {})
<1>1. ASSUME NEW c, c.queued = d.queued, c.steers = d.steers, c.state = "idle" <=> d.state = "idle",
             NEW s, r = Result(c, s), Lacks(s, Loud)
      PROVE  ClaudeTold(d, r, {})
  <2>1. r.drv = c /\ r.steps = s
    BY <1>1 DEF Result
  <2>2. Lacks(s, {Started, Finished, Failed})
    BY <1>1, MildSteps
  <2>3. Lacks(s, {Started}) /\ Lacks(s, {Finished, Failed})
    BY <2>2 DEF Lacks
  <2>4. Followed(s, {Started}, Writing(UserFrames))
    BY <2>3, FollowedNone
  <2> QED BY <1>1, <2>1, <2>3, <2>4 DEF ClaudeTold
<1>2. CASE r = Result(d, <<>>)
  BY <1>1, <1>2, Mild
<1>3. ASSUME NEW a \in Asks, r = ClaudeAnswer(d, a), a \in d.pending PROVE ClaudeTold(d, r, {})
  <2> DEFINE c == [d EXCEPT !.pending = @ \ {a}]
             s == <<Write(Reply(a)), Settled(a)>>
  <2>1. r = Result(c, s)
    BY <1>3 DEF ClaudeAnswer
  <2>2. c.queued = d.queued /\ c.steers = d.steers /\ c.state = d.state
    BY DEF ClaudeDrv
  <2>3. Lacks(s, Loud)
    BY Mild DEF Lacks
  <2> HIDE DEF c, s
  <2> QED BY <1>1, <2>1, <2>2, <2>3
<1>4. CASE r = ClaudeInterrupt(d)
  <2> DEFINE c == [d EXCEPT !.state = IF @ = "running" THEN "stopping" ELSE @]
             s == <<Write(Interrupt(None))>>
  <2>1. r = Result(c, s)
    BY <1>4 DEF ClaudeInterrupt
  <2>2. c.queued = d.queued /\ c.steers = d.steers /\ (c.state = "idle" <=> d.state = "idle")
    BY DEF ClaudeDrv
  <2>3. Lacks(s, Loud)
    BY Mild DEF Lacks
  <2> HIDE DEF c, s
  <2> QED BY <1>1, <2>1, <2>2, <2>3
<1>5. CASE r = ClaudeAbandon(d)
  <2> DEFINE c == [d EXCEPT !.pending = {}]
  <2>1. r = Result(c, Dismiss(d.pending))
    BY <1>5 DEF ClaudeAbandon
  <2>2. c.queued = d.queued /\ c.steers = d.steers /\ c.state = d.state
    BY DEF ClaudeDrv
  <2>3. Lacks(Dismiss(d.pending), Loud)
    BY Mild
  <2> HIDE DEF c
  <2> QED BY <1>1, <2>1, <2>2, <2>3
<1> QED BY <1>2, <1>3, <1>4, <1>5 DEF ClaudeAnswer

\* At rest it holds no steer, and it counts as queued only what it holds.
ClaudeNeat(d) == (d.state = "idle" => d.steers = {}) /\ d.queued \subseteq d.steers

ClaudeHears(d, r, line) ==
    /\ ClaudeNeat(d) => ClaudeNeat(r.drv)
    /\ r.drv.state # "idle" => \/ d.state # "idle" /\ (line \in Results => d.queued # {})
                               \/ line \in TurnLines
    /\ ClaudeNeat(d) =>
         \A m \in r.drv.queued : (m \in d.queued /\ line # TakenLine(m)) \/ line = QueuedLine(m)
    /\ d.state # "idle" => r.drv.state # "idle" \/ ~Lacks(r.steps, {Finished})
    /\ line \in Results => d.queued # {} \/ ~Lacks(r.steps, {Finished})
    /\ ~Lacks(r.steps, {Started}) => line \in TurnLines
    /\ Lacks(r.steps, {Started}) \/ Lacks(r.steps, {Finished})

LEMMA ClaudeHearsLine ==
    ASSUME NEW d \in ClaudeDrv, NEW line \in Lines, line.is \in ClaudeSpeaks
    PROVE  ClaudeHears(d, ClaudeOnLine(d, line), line)
<1> DEFINE r == ClaudeOnLine(d, line)
<1> SUFFICES ClaudeHears(d, r, line)
  OBVIOUS
<1>0. /\ Failed \in Steps /\ Started \in Steps /\ Finished \in Steps
      /\ \A x \in Steps : \A S : Lacks(<<x>>, S) <=> x \notin S
      /\ \A S : Lacks(<<>>, S)
      /\ Started # Finished /\ Failed # Finished /\ Started # Failed
  <2>1. Started # Finished /\ Failed # Finished /\ Started # Failed
    BY DEF Started, Failed, Finished, Emit
  <2> QED BY <2>1, EmitsAreSteps DEF Lacks
<1>1. /\ line \in Results <=> line.is = "result"
      /\ line \in TurnLines <=> line.is \in {"turn", "taken"}
      /\ \A m : line = TakenLine(m) => line.is = "taken" /\ line.msg = m
  BY DEF Results, TurnLines, TakenLine
<1>2. CASE line.is \in {"turn", "error", "ask"}
  <2>1. PICK c, s : /\ r = Result(c, s) /\ c.steers = d.steers /\ c.queued = d.queued
                    /\ c.state = d.state \/ (line.is = "turn" /\ c.state = "running")
                    /\ Lacks(s, {Finished}) /\ (Lacks(s, {Started}) \/ line.is = "turn")
    <3>1. CASE line.is = "turn" /\ d.state = "idle" /\ d.carried > 0
      <4> DEFINE c == [d EXCEPT !.carried = @ - 1, !.state = "running"]
      <4>1. r = Result(c, <<Started>>)
        BY <3>1 DEF ClaudeOnLine, ClaudeOnInit
      <4>2. c.steers = d.steers /\ c.queued = d.queued /\ c.state = "running"
        BY DEF ClaudeDrv
      <4> HIDE DEF c, r
      <4> QED BY <1>0, <3>1, <4>1, <4>2
    <3>2. CASE line.is = "turn" /\ ~(d.state = "idle" /\ d.carried > 0)
      <4>1. r = Result(d, <<>>)
        BY <3>2 DEF ClaudeOnLine, ClaudeOnInit
      <4> HIDE DEF r
      <4> QED BY <1>0, <4>1
    <3>3. CASE line.is = "error"
      <4>1. r = Result(d, <<Failed>>)
        BY <3>3 DEF ClaudeOnLine
      <4> HIDE DEF r
      <4> QED BY <1>0, <4>1
    <3>4. CASE line.is = "ask"
      <4> DEFINE c == [d EXCEPT !.pending = @ \cup {line.ask}]
                 s == IF line.kind = "unknown" THEN <<>> ELSE <<Card(line.ask)>>
      <4>1. r = Result(c, s)
        BY <3>4 DEF ClaudeOnLine
      <4>2. c.steers = d.steers /\ c.queued = d.queued /\ c.state = d.state
        BY DEF ClaudeDrv
      <4>3. Lacks(s, Loud)
        BY Mild DEF Lacks
      <4> HIDE DEF c, s, r
      <4>4. Lacks(s, {Started}) /\ Lacks(s, {Finished})
        BY <4>3, LoudFacts
      <4> QED BY <4>1, <4>2, <4>4
    <3> QED BY <1>2, <3>1, <3>2, <3>3, <3>4
  <2>2. r.drv = c /\ r.steps = s
    <3> HIDE DEF r
    <3> QED BY <2>1 DEF Result
  <2>3. \/ c.state = d.state
        \/ d.state = "idle"
        \/ c.state = "running"
    BY <2>1
  <2> HIDE DEF r
  <2>4. ClaudeNeat(d) => ClaudeNeat(c)
    BY <2>1 DEF ClaudeNeat
  <2> QED BY <1>1, <1>2, <2>1, <2>2, <2>4 DEF ClaudeHears
<1>3. CASE line.is = "queued"
  <2> DEFINE c == [d EXCEPT !.queued = IF line.msg \in d.steers THEN @ \cup {line.msg} ELSE @]
  <2>0. line = QueuedLine(line.msg)
    BY <1>3 DEF Lines, QueuedLine
  <2>1. r = Result(c, <<>>)
    BY <1>3 DEF ClaudeOnLine, ClaudeOnQueued
  <2>2. /\ c.steers = d.steers /\ c.state = d.state
        /\ c.queued = IF line.msg \in d.steers THEN d.queued \cup {line.msg} ELSE d.queued
    BY DEF ClaudeDrv
  <2>3. r.drv = c /\ r.steps = <<>>
    BY <2>1 DEF Result
  <2> HIDE DEF c, r
  <2>4. ClaudeNeat(d) => ClaudeNeat(c)
    BY <2>2 DEF ClaudeNeat
  <2> QED BY <1>0, <1>1, <1>3, <2>0, <2>2, <2>3, <2>4 DEF ClaudeHears
<1>4. CASE line.is = "taken"
  <2> DEFINE b == [d EXCEPT !.steers = @ \ {line.msg}, !.queued = @ \ {line.msg},
                            !.state = IF @ = "idle" THEN "running" ELSE @]
             c == IF line.msg \notin d.steers THEN d ELSE b
             y == IF d.state = "idle" THEN <<Started, Echo(line.msg)>> ELSE <<Echo(line.msg)>>
             s == IF line.msg \notin d.steers THEN <<>> ELSE y
  <2>1. r = Result(c, s)
    BY <1>4 DEF ClaudeOnLine, ClaudeOnTaken
  <2>2. /\ c.steers = d.steers \ {line.msg}
        /\ c.queued = d.queued \ {line.msg} \/ (line.msg \notin d.steers /\ c.queued = d.queued)
        /\ d.state # "idle" => c.state # "idle"
        /\ d.state = "idle" /\ d.steers = {} => c.state = "idle"
        /\ c.state # d.state => c.state # "idle"
    BY DEF ClaudeDrv
  <2>3. Lacks(s, {Finished})
    <3>1. Echo(line.msg) # Finished
      BY DEF Echo, Finished, Emit
    <3> QED BY <1>0, <3>1 DEF Lacks
  <2>4. r.drv = c /\ r.steps = s
    BY <2>1 DEF Result
  <2> HIDE DEF c, s, r
  <2>5. ClaudeNeat(d) => ClaudeNeat(c)
    BY <2>2 DEF ClaudeNeat
  <2>6. ASSUME ClaudeNeat(d), NEW m \in c.queued PROVE m \in d.queued /\ line # TakenLine(m)
    BY <1>1, <2>2, <2>6 DEF ClaudeNeat
  <2>7. line \notin Results /\ line \in TurnLines
    BY <1>1, <1>4
  <2> QED BY <2>2, <2>3, <2>4, <2>5, <2>6, <2>7 DEF ClaudeHears
<1>5. CASE line.is = "result"
  <2> DEFINE excused == d.state = "stopping" /\ line.how = "stopped"
             said == IF line.how # "done" /\ ~excused THEN <<Failed>> ELSE <<>>
             b == [d EXCEPT !.state = IF @ = "stopping" THEN "running" ELSE @]
             c == [b EXCEPT !.state = "idle", !.steers = {}, !.carried = @ + Cardinality(d.steers)]
             e == Echoes(SetToSeq(d.steers))
             s == said \o e \o <<Finished>>
  <2>1. \/ d.queued # {} /\ r = Result(b, said)
        \/ d.queued = {} /\ r = Result(c, s)
    BY <1>5 DEF ClaudeOnLine, ClaudeOnResult
  <2>2. /\ b.steers = d.steers /\ b.queued = d.queued /\ (b.state = "idle" <=> d.state = "idle")
        /\ c.steers = {} /\ c.queued = d.queued /\ c.state = "idle"
    BY DEF ClaudeDrv
  <2>3. said \in Seq(Steps) /\ Lacks(said, {Started}) /\ Lacks(said, {Finished})
    <3>1. said = <<>> \/ said = <<Failed>>
      OBVIOUS
    <3>2. <<>> \in Seq(Steps) /\ <<Failed>> \in Seq(Steps)
      BY <1>0, ShortFacts
    <3>3. Lacks(<<Failed>>, {Started}) /\ Lacks(<<Failed>>, {Finished})
      BY <1>0
    <3>4. Lacks(<<>>, {Started}) /\ Lacks(<<>>, {Finished})
      BY <1>0
    <3> HIDE DEF said, b, c, e, s, r, excused
    <3>5. CASE said = <<>>
      BY <3>2, <3>4, <3>5
    <3>6. CASE said = <<Failed>>
      BY <3>2, <3>3, <3>6
    <3> QED BY <3>1, <3>5, <3>6
  <2>4. e \in Seq(Steps) /\ Lacks(e, {Started})
    <3>1. SetToSeq(d.steers) \in Turn /\ IsInjective(SetToSeq(d.steers))
      <4>1. IsFiniteSet(d.steers) /\ d.steers \subseteq Msgs
        BY ClaudeFields
      <4> QED BY <4>1, ListedFacts, Wider DEF Turn
    <3>2. e \in Seq(Steps)
      BY <3>1, BearsEchoes DEF Bears
    <3>3. Lacks(e, Loud)
      BY Mild
    <3> QED BY <3>2, <3>3, LoudFacts
  <2> HIDE DEF said, b, c, e
  <2>5. s \in Seq(Steps) /\ Lacks(s, {Started}) /\ ~Lacks(s, {Finished})
    <3>1. <<Finished>> \in Seq(Steps) /\ \A S : Lacks(<<Finished>>, S) <=> Finished \notin S
      BY <1>0, OneLacks
    <3>2. said \o e \in Seq(Steps) /\ Lacks(said \o e, {Started})
      BY <2>3, <2>4, JoinLacks
    <3>3. /\ s \in Seq(Steps) /\ (Lacks(s, {Started}) <=> Lacks(said \o e, {Started}) /\ Lacks(<<Finished>>, {Started}))
      BY <3>1, <3>2, JoinLacks
    <3>4. Lacks(s, {Finished}) <=> Lacks(said \o e, {Finished}) /\ Lacks(<<Finished>>, {Finished})
      BY <3>1, <3>2, JoinLacks
    <3> QED BY <1>0, <3>1, <3>2, <3>3, <3>4
  <2> HIDE DEF s, r
  <2>6. CASE d.queued # {} /\ r = Result(b, said)
    <3>1. r.drv = b /\ r.steps = said
      BY <2>6 DEF Result
    <3>2. ClaudeNeat(d) => ClaudeNeat(b)
      BY <2>2 DEF ClaudeNeat
    <3> QED BY <1>1, <1>5, <2>2, <2>3, <2>6, <3>1, <3>2 DEF ClaudeHears
  <2>7. CASE d.queued = {} /\ r = Result(c, s)
    <3>1. r.drv = c /\ r.steps = s
      BY <2>7 DEF Result
    <3>2. ClaudeNeat(c)
      BY <2>2, <2>7 DEF ClaudeNeat
    <3> QED BY <1>1, <1>5, <2>2, <2>5, <2>7, <3>1, <3>2 DEF ClaudeHears
  <2> QED BY <2>1, <2>6, <2>7
<1> QED BY <1>2, <1>3, <1>4, <1>5 DEF ClaudeSpeaks

-----------------------------------------------------------------------------
(* The steps of a session again, with all this.                             *)

\* What its driver makes of a call and of a line.
ToldSo(new, steps) ==
    LET r == [drv |-> drv', steps |-> steps]
    IN  CASE provider = "codex" -> CodexTold(drv, r, new)
          [] provider = "claude" -> ClaudeTold(drv, r, new)
          [] provider = "cursor" -> CursorTold(drv, r, new)

HearsSo(steps) ==
    LET r == [drv |-> drv', steps |-> steps]
        line == Head(lines)
    IN  CASE provider = "codex" -> CodexHears(drv, r, line)
          [] provider = "claude" -> ClaudeHears(drv, r, line)
          [] provider = "cursor" -> CursorHears(drv, r, line)

Calling(t, new, steps) ==
    /\ Called(t, new, steps) /\ ToldSo(new, steps)
    /\ steered' = steered \/ (steered' = steered \cup new /\ \A m \in new : Joins(m))
    /\ owed' = owed \cup new /\ UNCHANGED <<working, failures>>

Hearing(steps) == Heard(steps) /\ HearsSo(steps) /\ UNCHANGED <<userVars, steered>>

Resting ==
    /\ Rests /\ UNCHANGED <<steered, working, failures>>
    /\ owed' = owed \/ (owed' = {} /\ alive' = alive)
    /\ alive' => alive

LEMMA SameResult ==
    ASSUME NEW d, NEW r, NEW x, x.drv = r.drv, x.steps = r.steps
    PROVE  /\ \A new : /\ CodexTold(d, r, new) => CodexTold(d, x, new)
                       /\ ClaudeTold(d, r, new) => ClaudeTold(d, x, new)
                       /\ CursorTold(d, r, new) => CursorTold(d, x, new)
           /\ \A line : /\ CodexHears(d, r, line) => CodexHears(d, x, line)
                        /\ ClaudeHears(d, r, line) => ClaudeHears(d, x, line)
                        /\ CursorHears(d, r, line) => CursorHears(d, x, line)
<1>1. ASSUME NEW new
      PROVE  /\ CodexTold(d, r, new) => CodexTold(d, x, new)
             /\ ClaudeTold(d, r, new) => ClaudeTold(d, x, new)
             /\ CursorTold(d, r, new) => CursorTold(d, x, new)
  <2>1. CodexTold(d, r, new) => CodexTold(d, x, new)
    BY DEF CodexTold
  <2>2. ClaudeTold(d, r, new) => ClaudeTold(d, x, new)
    BY DEF ClaudeTold
  <2>3. CursorTold(d, r, new) => CursorTold(d, x, new)
    BY DEF CursorTold
  <2> QED BY <2>1, <2>2, <2>3
<1>2. ASSUME NEW line
      PROVE  /\ CodexHears(d, r, line) => CodexHears(d, x, line)
             /\ ClaudeHears(d, r, line) => ClaudeHears(d, x, line)
             /\ CursorHears(d, r, line) => CursorHears(d, x, line)
  <2>1. HandHears(d, r, line) => HandHears(d, x, line)
    BY DEF HandHears
  <2>2. CodexHears(d, r, line) => CodexHears(d, x, line)
    BY <2>1 DEF CodexHears, EarlyHears, KeptHears, SteerHears, StartHears, BusyHears
  <2>3. ClaudeHears(d, r, line) => ClaudeHears(d, x, line)
    BY DEF ClaudeHears
  <2>4. CursorHears(d, r, line) => CursorHears(d, x, line)
    BY <2>1 DEF CursorHears
  <2> QED BY <2>2, <2>3, <2>4
<1> QED BY <1>1, <1>2

LEMMA SendGoes ==
    ASSUME Shape, NEW m \in Msgs, NEW how, Send(m, how)
    PROVE  \E steps : Calling(m, {m}, steps)
<1>1. PICK steps : Called(m, {m}, steps)
  BY SendIs
<1> DEFINE r == PromptCall(m, how)
           x == [drv |-> drv', steps |-> steps]
<1>2. m \in Threads /\ WayShape /\ DriverShape /\ DriverMoves(m, steps, {m}, {}, {}) /\ m \notin called /\ Knows \subseteq called
  BY <1>1, ReaderIsNoCaller DEF Called, Shape
<1>3. Compute(m, r)
  BY DEF Send, Call
<1> HIDE DEF r
<1>4. x.drv = r.drv /\ x.steps = r.steps
  BY <1>2, <1>3, StepsAre
<1> HIDE DEF x
<1>5. CASE provider = "codex"
  <2>1. drv \in CodexDrv /\ CodexNeat(drv) /\ m \notin CodexKnows(drv)
    BY <1>2, <1>5 DEF DriverShape, Knows
  <2>2. CodexTold(drv, CodexCall(drv, m, how), {m}) /\ r = CodexCall(drv, m, how)
    BY <1>5, <2>1, CodexTells DEF r, PromptCall
  <2>3. CodexTold(drv, x, {m})
    BY <1>4, <2>2, SameResult
  <2> QED BY <1>1, <1>5, <2>3 DEF Calling, ToldSo, x, Send
<1>6. CASE provider = "claude"
  <2>1. drv \in ClaudeDrv
    BY <1>2, <1>6 DEF DriverShape
  <2>2. ClaudeTold(drv, ClaudeCall(drv, m), {m}) /\ r = ClaudeCall(drv, m)
    BY <1>6, <2>1, ClaudeTells DEF r, PromptCall
  <2>3. ClaudeTold(drv, x, {m})
    BY <1>4, <2>2, SameResult
  <2> QED BY <1>1, <1>6, <2>3 DEF Calling, ToldSo, x, Send
<1>7. CASE provider = "cursor"
  <2>1. drv \in CursorDrv /\ CursorNeat(drv) /\ m \notin CursorHands(drv)
    BY <1>2, <1>7 DEF DriverShape, Knows
  <2>2. CursorTold(drv, CursorCall(drv, m, how), {m}) /\ r = CursorCall(drv, m, how)
    BY <1>7, <2>1, CursorTells DEF r, PromptCall
  <2>3. CursorTold(drv, x, {m})
    BY <1>4, <2>2, SameResult
  <2> QED BY <1>1, <1>7, <2>3 DEF Calling, ToldSo, x, Send
<1> QED BY <1>2, <1>5, <1>6, <1>7 DEF DriverShape

\* The calls that hand over nothing.
LEMMA StopTold ==
    ASSUME Shape, NEW t \in Threads, NEW r, Compute(t, r), NEW steps, Called(t, {}, steps),
           \/ \E a \in Asks, allow \in BOOLEAN : r = AnswerCall(a, allow)
           \/ r \in {InterruptCall, AbandonCall}
    PROVE  ToldSo({}, steps)
<1> DEFINE x == [drv |-> drv', steps |-> steps]
<1>1. WayShape /\ DriverShape /\ DriverMoves(t, steps, {}, {}, {})
  BY DEF Called, Shape
<1>2. x.drv = r.drv /\ x.steps = r.steps
  BY <1>1, StepsAre
<1> HIDE DEF x
<1>3. CASE provider = "codex"
  <2>1. drv \in CodexDrv /\ CodexNeat(drv)
    BY <1>1, <1>3 DEF DriverShape
  <2>2. r \in {CodexInterrupt(drv), CodexAbandon(drv)} \/ \E a \in Asks : r = CodexAnswer(drv, a)
    BY <1>3 DEF AnswerCall, InterruptCall, AbandonCall
  <2>3. CodexTold(drv, r, {})
    BY <2>1, <2>2, CodexTellsStop
  <2>4. CodexTold(drv, x, {})
    BY <1>2, <2>3, SameResult
  <2> QED BY <1>3, <2>4 DEF ToldSo, x
<1>4. CASE provider = "claude"
  <2>1. drv \in ClaudeDrv
    BY <1>1, <1>4 DEF DriverShape
  <2>2. r \in {ClaudeInterrupt(drv), ClaudeAbandon(drv)} \/ \E a \in Asks : r = ClaudeAnswer(drv, a)
    BY <1>4 DEF AnswerCall, InterruptCall, AbandonCall
  <2>3. ClaudeTold(drv, r, {})
    BY <2>1, <2>2, ClaudeTellsStop
  <2>4. ClaudeTold(drv, x, {})
    BY <1>2, <2>3, SameResult
  <2> QED BY <1>4, <2>4 DEF ToldSo, x
<1>5. CASE provider = "cursor"
  <2>1. drv \in CursorDrv /\ CursorNeat(drv)
    BY <1>1, <1>5 DEF DriverShape
  <2>2. r = CursorInterrupt(drv) \/ \E a \in Asks, allow \in BOOLEAN : r = CursorAnswer(drv, a, allow)
    BY <1>5 DEF AnswerCall, InterruptCall, AbandonCall
  <2>3. CursorTold(drv, r, {})
    BY <2>1, <2>2, CursorTellsStop
  <2>4. CursorTold(drv, x, {})
    BY <1>2, <2>3, SameResult
  <2> QED BY <1>5, <2>4 DEF ToldSo, x
<1> QED BY <1>1, <1>3, <1>4, <1>5 DEF DriverShape

LEMMA LineHeard ==
    ASSUME Shape, OnLine, NEW steps, Heard(steps)
    PROVE  Hearing(steps)
<1> DEFINE r == LineCall(Head(lines))
           x == [drv |-> drv', steps |-> steps]
           line == Head(lines)
<1>1. WayShape /\ DriverShape /\ DriverMoves("reader", steps, {}, Back(line), NewAsks(line))
  BY DEF Heard, Shape
<1>2. Compute("reader", r) /\ "reader" \in Threads
  BY ReaderIsNoCaller DEF OnLine
<1>3. line \in Lines /\ line.is \in Speaks
  BY DEF Heard
<1>4. UNCHANGED <<userVars, steered>>
  BY DEF OnLine
<1> HIDE DEF r
<1>5. x.drv = r.drv /\ x.steps = r.steps
  BY <1>1, <1>2, StepsAre
<1> HIDE DEF x
<1>6. CASE provider = "codex"
  <2>1. drv \in CodexDrv /\ CodexNeat(drv) /\ line.is \in CodexSpeaks
    BY <1>1, <1>3, <1>6 DEF DriverShape, Speaks
  <2>2. CodexHears(drv, CodexOnLine(drv, line), line) /\ r = CodexOnLine(drv, line)
    BY <1>3, <1>6, <2>1, CodexHearsLine DEF r, LineCall
  <2>3. CodexHears(drv, x, line)
    BY <1>5, <2>2, SameResult
  <2> QED BY <1>4, <1>6, <2>3 DEF Hearing, HearsSo, x
<1>7. CASE provider = "claude"
  <2>1. drv \in ClaudeDrv /\ line.is \in ClaudeSpeaks
    BY <1>1, <1>3, <1>7 DEF DriverShape, Speaks
  <2>2. ClaudeHears(drv, ClaudeOnLine(drv, line), line) /\ r = ClaudeOnLine(drv, line)
    BY <1>3, <1>7, <2>1, ClaudeHearsLine DEF r, LineCall
  <2>3. ClaudeHears(drv, x, line)
    BY <1>5, <2>2, SameResult
  <2> QED BY <1>4, <1>7, <2>3 DEF Hearing, HearsSo, x
<1>8. CASE provider = "cursor"
  <2>1. drv \in CursorDrv /\ CursorNeat(drv) /\ line.is \in CursorSpeaks
    BY <1>1, <1>3, <1>8 DEF DriverShape, Speaks
  <2>2. CursorHears(drv, CursorOnLine(drv, line), line) /\ r = CursorOnLine(drv, line)
    BY <1>3, <1>8, <2>1, CursorHearsLine DEF r, LineCall
  <2>3. CursorHears(drv, x, line)
    BY <1>5, <2>2, SameResult
  <2> QED BY <1>4, <1>8, <2>3 DEF Hearing, HearsSo, x
<1> QED BY <1>1, <1>6, <1>7, <1>8 DEF DriverShape

Acting(t) == EmitStep(t) \/ WriteStep(t) \/ BrokenPipe(t)

LEMMA StepGoes ==
    ASSUME Shape, AsksOnce, [Next]_vars
    PROVE  \/ \E t, new, steps : Calling(t, new, steps)
           \/ \E steps : Hearing(steps)
           \/ \E t \in Threads : Acting(t)
           \/ Far /\ (Serve \/ Work \/ Asking \/ Finish)
           \/ Resting
<1>1. CASE \E m \in Msgs, how \in {"send", "steer"} : Send(m, how)
  BY <1>1, SendGoes
<1>2. ASSUME NEW c \in Clicks, NEW a \in Asks, NEW allow \in BOOLEAN, Click(c, a, allow)
      PROVE  \E t, new, steps : Calling(t, new, steps)
  <2>1. PICK steps : Called(c, {}, steps)
    BY <1>2, ClickIs
  <2>2. c \in Threads /\ Compute(c, AnswerCall(a, allow))
    BY <1>2 DEF Click, Call, Threads, Callers
  <2>3. ToldSo({}, steps)
    BY <2>1, <2>2, StopTold
  <2>4. Calling(c, {}, steps)
    BY <1>2, <2>1, <2>3 DEF Calling, Click, userVars
  <2> QED BY <2>4
<1>3. ASSUME Stop \/ Close
      PROVE  \E t, new, steps : Calling(t, new, steps)
  <2>0. PICK t \in {"stop", "close"}, r \in {InterruptCall, AbandonCall} :
              \E steps : Call(t, r) /\ Called(t, {}, steps)
    BY <1>3, StopIs
  <2>1. PICK steps :
            Call(t, r) /\ Called(t, {}, steps)
    BY <2>0
  <2>2. t \in Threads /\ Compute(t, r)
    BY <2>1 DEF Call, Threads, Callers
  <2>3. ToldSo({}, steps)
    BY <2>1, <2>2, StopTold
  <2>4. Calling(t, {}, steps)
    BY <1>3, <2>1, <2>3 DEF Calling, Stop, Close, userVars
  <2> QED BY <2>4
<1>4. CASE Serve \/ Work \/ Asking \/ Finish
  BY <1>4, ServeIs
<1>5. CASE Exit \/ OnExit \/ UNCHANGED vars
  <2>1. Rests
    BY <1>5 DEF Rests, Exit, OnExit, vars, procVars, userVars, UserShape, Shape
  <2>2. alive \in BOOLEAN
    BY DEF Shape, UserShape
  <2> QED BY <1>5, <2>1, <2>2 DEF Resting, Exit, OnExit, vars, procVars, userVars
<1>6. CASE \E t \in Threads : Thread(t)
  BY <1>6 DEF Thread, Acting
<1>7. CASE OnLine
  <2>1. Head(lines).is = "ask" => Head(lines).ask \notin drv.pending
    BY <1>7, NotYetAsked DEF OnLine
  <2>2. PICK steps : Heard(steps)
    BY <1>7, <2>1, LineIs
  <2> QED BY <1>7, <2>2, LineHeard
<1> QED BY <1>1, <1>2, <1>3, <1>4, <1>5, <1>6, <1>7 DEF Next

-----------------------------------------------------------------------------
(* What the app server says, for the invariants below.                      *)

Refusing(m) ==
    {l \in Lines : ~l.ok /\ \/ l.is = "start" /\ m \in ToSet(l.turn)
                            \/ l.is = "prompt" /\ m \in ToSet(l.msgs)}
Starts(T) == {l \in Lines : l.is = "start" /\ l.turn = T}
News == {l \in Lines : l.is \in {"started", "error"} \/ (l.is = "start" /\ ~l.ok)}

\* What it says to a frame.
CodexReplies(f, new) ==
    /\ f \notin HandFrames => Lacks(new, HandLines)
    /\ f \notin TurnFrames => Lacks(new, Opening)
    /\ \A m \in Msgs : f \in OwnFrames(m) => turns'[m] # 0 \/ ~Lacks(new, Refusing(m))
    /\ f.is = "turn/start" => ~Lacks(new, Starts(f.msgs))
    /\ f \in TurnFrames => ~Lacks(new, News)
    /\ f.is = "turn/steer" => f.msg \in cli'.acks \/ ~Lacks(new, SteerLines(f.msg))

CodexSays(new) ==
    /\ Saying(new) /\ Single(new, HandLines)
    /\ \/ wire' = wire /\ Lacks(new, HandLines) /\ Lacks(new, Opening)
       \/ Reading(Head(wire)) /\ CodexReplies(Head(wire), new)
    /\ \A m \in Msgs : ~Lacks(new, {Item(m)}) => turns'[m] # 0
    /\ cli'.turn = None => (cli.turn # None => ~Lacks(new, Completions)) /\ Lacks(new, Opening)
    /\ \A m \in cli.acks : m \in cli'.acks \/ ~Lacks(new, SteerLines(m))

LEMMA Twice ==
    ASSUME NEW x, NEW y
    PROVE  <<x>> \o <<y>> = <<x, y>>
<1> DEFINE A == {x, y}
<1>0. x \in A /\ y \in A
  OBVIOUS
<1> HIDE DEF A
<1>1. <<x>> \in Seq(A) /\ <<y>> \in Seq(A)
  BY <1>0
<1>2. \A s, t \in Seq(A) : /\ s \o t \in Seq(A) /\ Len(s \o t) = Len(s) + Len(t)
                           /\ \A i \in 1 .. Len(s) : (s \o t)[i] = s[i]
                           /\ \A i \in 1 .. Len(t) : (s \o t)[Len(s) + i] = t[i]
  OBVIOUS
<1>3. Len(<<x>>) = 1 /\ Len(<<y>>) = 1 /\ <<x>>[1] = x /\ <<y>>[1] = y
  OBVIOUS
<1>4. PICK u \in Seq(A) : u = <<x>> \o <<y>> /\ Len(u) = 2 /\ u[1] = x /\ u[2] = y
  <2>1. (<<x>> \o <<y>>)[1] = <<x>>[1] /\ (<<x>> \o <<y>>)[1 + 1] = <<y>>[1]
    BY <1>1, <1>2, <1>3
  <2>2. <<x>> \o <<y>> \in Seq(A) /\ Len(<<x>> \o <<y>>) = 2 /\ 1 + 1 = 2
    BY <1>1, <1>2, <1>3
  <2> QED BY <1>3, <2>1, <2>2
<1>5. \A s \in Seq(A) : Len(s) = 2 => s = <<s[1], s[2]>>
  OBVIOUS
<1> QED BY <1>4, <1>5

LEMMA SayOne ==
    ASSUME lines \in Seq(Lines), NEW x \in Lines, Says(<<x>>)
    PROVE  /\ Saying(<<x>>) /\ \A S : (Lacks(<<x>>, S) <=> x \notin S) /\ Single(<<x>>, S)
<1>1. <<x>> \in Seq(Lines) /\ \A S : Lacks(<<x>>, S) <=> x \notin S
  BY DEF Lacks
<1>2. \A S : Single(<<x>>, S)
  BY DEF Single
<1> QED BY <1>1, <1>2 DEF Saying, Says

LEMMA SayNone ==
    ASSUME lines \in Seq(Lines), lines' = lines
    PROVE  Saying(<<>>) /\ \A S : Lacks(<<>>, S) /\ Single(<<>>, S)
  BY DEF Saying, Lacks, Single

\* Two lines of the kinds that open a turn, or none of interest.
LEMMA CodexSaysQuiet ==
    ASSUME NEW new, Saying(new), Lacks(new, HandLines), Lacks(new, Opening), \A m : Lacks(new, {Item(m)}),
           wire' = wire \/ (Reading(Head(wire)) /\ Head(wire) \in Frames /\ Head(wire).is \in {"interrupt", "reply"}),
           cli'.turn = cli.turn \/ (cli'.turn = None /\ ~Lacks(new, Completions)), cli'.acks = cli.acks
    PROVE  CodexSays(new)
<1>1. Single(new, HandLines)
  BY LackSingle
<1>2. Head(wire) \in Frames /\ Head(wire).is \in {"interrupt", "reply"} => CodexReplies(Head(wire), new)
  BY DEF CodexReplies, OwnFrames, TurnFrames
<1> QED BY <1>1, <1>2 DEF CodexSays

LEMMA CodexEndSays ==
    ASSUME Shape, provider = "codex", NEW failed \in BOOLEAN, CodexEnd(failed),
           wire' = wire \/ (Reading(Head(wire)) /\ Head(wire) \in Frames /\ Head(wire).is \in {"interrupt", "reply"})
    PROVE  \E new : CodexSays(new)
<1>1. /\ cli'.turn = None /\ cli'.acks = cli.acks
      /\ \E s \in Seq(Lines) : /\ lines' = lines \o (<<Completed(failed)>> \o s)
                               /\ \A i \in DOMAIN s : s[i].is = "resolved"
  BY CodexEnds
<1>2. PICK s \in Seq(Lines) : /\ lines' = lines \o (<<Completed(failed)>> \o s)
                              /\ \A i \in DOMAIN s : s[i].is = "resolved"
  BY <1>1
<1> DEFINE x == Completed(failed)
           new == <<x>> \o s
<1>3. x \in Lines /\ x \in Completions /\ x \notin Opening /\ x \notin HandLines /\ \A m : x # Item(m)
  BY LinesSaid DEF Completed, Completions, Opening, HandLines, Item
<1>4. Lacks(s, Opening) /\ Lacks(s, HandLines) /\ \A m : Lacks(s, {Item(m)})
  BY <1>2 DEF Lacks, Opening, HandLines, Item
<1> HIDE DEF x
<1>5. <<x>> \in Seq(Lines) /\ \A S : Lacks(<<x>>, S) <=> x \notin S
  BY <1>3 DEF Lacks
<1>6. new \in Seq(Lines) /\ \A S : Lacks(new, S) <=> Lacks(<<x>>, S) /\ Lacks(s, S)
  BY <1>5, LacksFacts
<1>7. Saying(new)
  BY <1>2, <1>6 DEF Saying, x
<1> HIDE DEF new
<1>8. CodexSays(new)
  BY <1>1, <1>3, <1>4, <1>5, <1>6, <1>7, CodexSaysQuiet
<1> QED BY <1>8

LEMMA CodexServeSays ==
    ASSUME Shape, CodexServe
    PROVE  \E new : CodexSays(new)
<1> DEFINE f == Head(wire)
<1>0. /\ provider = "codex" /\ Reading(f) /\ wire # <<>>
  BY DEF CodexServe, Elsewhere, Reading
<1>1. f \in Frames
  <2>1. wire \in Seq(Frames)
    BY DEF Shape, WayShape
  <2> QED BY <1>0, <2>1, TailFacts
<1>2. cli \in CodexCliSet /\ lines \in Seq(Lines) /\ None \notin Turn /\ turns \in [Msgs -> 0..2]
  BY <1>0, SteerFacts
<1>3. \/ /\ f.is \in {"init", "open"} /\ UNCHANGED <<cli, turns>>
         /\ \E ok \in BOOLEAN : Says(<<[is |-> f.is, ok |-> ok]>>)
      \/ /\ f.is \in {"turn/start", "compact"}
         /\ cli' = [cli EXCEPT !.turn = f.msgs]
         /\ Says((IF f.is = "compact" THEN <<>> ELSE <<StartOk(f.msgs)>>)
                  \o <<[is |-> "started", turn |-> f.msgs]>>)
         /\ Take(ToSet(f.msgs))
      \/ /\ f.is \in {"turn/start", "compact"} /\ UNCHANGED <<cli, turns>>
         /\ Says(<<IF f.is = "compact" THEN [is |-> "error"] ELSE StartNo(f.msgs)>>)
      \/ /\ f.is = "turn/steer" /\ UNCHANGED <<turns, lines>> /\ cli.turn = f.turn
         /\ cli' = [cli EXCEPT !.inbox = Append(@, f.msg), !.acks = @ \cup {f.msg}]
      \/ /\ f.is = "turn/steer" /\ UNCHANGED <<turns, cli>>
         /\ Says(<<SteerNo(f.msg)>>)
      \/ f.is = "interrupt" /\ UNCHANGED turns /\ CodexEnd(FALSE)
      \/ f.is = "interrupt" /\ UNCHANGED <<turns, cli>> /\ Says(<<[is |-> "error"]>>)
      \/ /\ f.is = "reply" /\ UNCHANGED <<lines, turns>>
         /\ cli' = [cli EXCEPT !.asked = @ \ {f.ask}]
  BY DEF CodexServe, Ok, No
<1> HIDE DEF f
<1>5. CASE /\ f.is \in {"init", "open"} /\ UNCHANGED <<cli, turns>>
           /\ \E ok \in BOOLEAN : Says(<<[is |-> f.is, ok |-> ok]>>)
  <2>1. PICK ok \in BOOLEAN : Says(<<[is |-> f.is, ok |-> ok]>>)
    BY <1>5
  <2> DEFINE x == [is |-> f.is, ok |-> ok]
  <2>2. x \in Lines /\ x \notin Opening /\ \A m : x # Item(m)
    BY <1>5, LinesSaid DEF Opening, Item
  <2>3. f \in HandFrames /\ \A m : f \notin OwnFrames(m)
    BY <1>1, <1>5 DEF HandFrames, OwnFrames
  <2> HIDE DEF x
  <2>4. /\ Saying(<<x>>) /\ \A S : (Lacks(<<x>>, S) <=> x \notin S) /\ Single(<<x>>, S)
    BY <1>2, <2>1, <2>2, SayOne DEF x
  <2>5. CodexReplies(f, <<x>>)
    BY <1>5, <2>2, <2>3, <2>4 DEF CodexReplies, TurnFrames
  <2>6. CodexSays(<<x>>)
    BY <1>0, <1>5, <2>2, <2>4, <2>5 DEF CodexSays, f
  <2> QED BY <2>6
<1>6. CASE /\ f.is \in {"turn/start", "compact"}
           /\ cli' = [cli EXCEPT !.turn = f.msgs]
           /\ Says((IF f.is = "compact" THEN <<>> ELSE <<StartOk(f.msgs)>>)
                    \o <<[is |-> "started", turn |-> f.msgs]>>)
           /\ Take(ToSet(f.msgs))
  <2> DEFINE x == StartOk(f.msgs)
             y == [is |-> "started", turn |-> f.msgs]
             new == IF f.is = "compact" THEN <<y>> ELSE <<x, y>>
  <2>0. f.msgs \in Turn
    BY <1>1, <1>6, FrameFields
  <2>1. /\ x \in Starts(f.msgs) /\ y \in News /\ x \in Lines /\ y \in Lines
        /\ x \notin HandLines /\ y \notin HandLines /\ \A m : x # Item(m) /\ y # Item(m)
    BY <2>0, LinesSaid DEF StartOk, Starts, News, HandLines, Item
  <2>2. new \in Seq(Lines) /\ lines' = lines \o new /\ \A i \in DOMAIN new : new[i] \in {x, y}
    <3>1. CASE f.is = "compact"
      <4>1. lines' = lines \o <<y>>
        <5>1. <<>> \o <<y>> = <<y>>
          OBVIOUS
        <5> QED BY <1>6, <3>1, <5>1 DEF Says
      <4> QED BY <2>1, <3>1, <4>1
    <3>2. CASE f.is # "compact"
      <4>1. lines' = lines \o <<x, y>>
        <5>1. <<x>> \o <<y>> = <<x, y>>
          BY Twice
        <5> QED BY <1>6, <3>2, <5>1 DEF Says
      <4>2. <<x, y>> \in Seq(Lines) /\ \A i \in DOMAIN <<x, y>> : <<x, y>>[i] \in {x, y}
        BY <2>1
      <4> QED BY <3>2, <4>1, <4>2
    <3> QED BY <3>1, <3>2
  <2>3. ~Lacks(new, {y}) /\ (f.is = "turn/start" => ~Lacks(new, {x}))
    <3>1. DOMAIN <<y>> = {1} /\ <<y>>[1] = y /\ DOMAIN <<x, y>> = {1, 2} /\ <<x, y>>[1] = x /\ <<x, y>>[2] = y
      OBVIOUS
    <3> QED BY <3>1 DEF Lacks
  <2> HIDE DEF x, y, new
  <2>4. Lacks(new, HandLines) /\ \A m : Lacks(new, {Item(m)})
    BY <2>1, <2>2 DEF Lacks
  <2>5. ~Lacks(new, News) /\ (f.is = "turn/start" => ~Lacks(new, Starts(f.msgs)))
    BY <2>1, <2>3 DEF Lacks
  <2>6. cli'.turn = f.msgs /\ cli'.acks = cli.acks
    BY <1>2, <1>6 DEF CodexCliSet
  <2>7. \A m \in Msgs : f \in OwnFrames(m) => turns'[m] # 0
    BY <1>2, <1>6, TakenTurns DEF OwnFrames
  <2>8. f \in TurnFrames
    BY <1>1, <1>6 DEF TurnFrames
  <2>9. CodexReplies(f, new)
    BY <1>6, <2>4, <2>5, <2>7, <2>8 DEF CodexReplies
  <2>10. CodexSays(new)
    BY <1>0, <1>2, <2>0, <2>2, <2>4, <2>6, <2>9, LackSingle DEF CodexSays, Saying, f
  <2> QED BY <2>10
<1>7. CASE /\ f.is \in {"turn/start", "compact"} /\ UNCHANGED <<cli, turns>>
           /\ Says(<<IF f.is = "compact" THEN [is |-> "error"] ELSE StartNo(f.msgs)>>)
  <2> DEFINE x == IF f.is = "compact" THEN [is |-> "error"] ELSE StartNo(f.msgs)
  <2>1. f.msgs \in Turn
    BY <1>1, <1>7, FrameFields
  <2>2. /\ x \in Lines /\ x \notin Opening /\ x \notin HandLines /\ x \in News /\ \A m : x # Item(m)
        /\ f.is = "turn/start" => x \in Starts(f.msgs) /\ \A m : m \in ToSet(f.msgs) => x \in Refusing(m)
    BY <2>1, LinesSaid DEF StartNo, Opening, HandLines, News, Item, Starts, Refusing
  <2>3. \A m : f \in OwnFrames(m) => f.is = "turn/start" /\ m \in ToSet(f.msgs)
    BY <1>7 DEF OwnFrames
  <2> HIDE DEF x
  <2>4. /\ Saying(<<x>>) /\ \A S : (Lacks(<<x>>, S) <=> x \notin S) /\ Single(<<x>>, S)
    BY <1>2, <1>7, <2>2, SayOne DEF x
  <2>5. CodexReplies(f, <<x>>)
    BY <1>7, <2>2, <2>3, <2>4 DEF CodexReplies
  <2>6. CodexSays(<<x>>)
    BY <1>0, <1>7, <2>2, <2>4, <2>5 DEF CodexSays, f
  <2> QED BY <2>6
<1>8. CASE /\ f.is = "turn/steer" /\ UNCHANGED <<turns, lines>> /\ cli.turn = f.turn
           /\ cli' = [cli EXCEPT !.inbox = Append(@, f.msg), !.acks = @ \cup {f.msg}]
  <2>1. cli'.turn = cli.turn /\ cli'.acks = cli.acks \cup {f.msg}
    BY <1>2, <1>8 DEF CodexCliSet
  <2>2. Saying(<<>>) /\ \A S : Lacks(<<>>, S) /\ Single(<<>>, S)
    BY <1>2, <1>8, SayNone
  <2>3. \A m : f \notin OwnFrames(m)
    BY <1>8 DEF OwnFrames
  <2>4. CodexReplies(f, <<>>)
    BY <1>8, <2>1, <2>2, <2>3 DEF CodexReplies, TurnFrames
  <2>5. CodexSays(<<>>)
    BY <1>0, <1>8, <2>1, <2>2, <2>4 DEF CodexSays, f
  <2> QED BY <2>5
<1>9. CASE f.is = "turn/steer" /\ UNCHANGED <<turns, cli>> /\ Says(<<SteerNo(f.msg)>>)
  <2> DEFINE x == SteerNo(f.msg)
  <2>1. f.msg \in Msgs
    BY <1>1, <1>9, FrameFields
  <2>2. x \in Lines /\ x \notin Opening /\ x \notin HandLines /\ x \in SteerLines(f.msg) /\ \A m : x # Item(m)
    BY <2>1, LinesSaid DEF SteerNo, Opening, HandLines, SteerLines, Item
  <2>3. \A m : f \notin OwnFrames(m)
    BY <1>9 DEF OwnFrames
  <2> HIDE DEF x
  <2>4. /\ Saying(<<x>>) /\ \A S : (Lacks(<<x>>, S) <=> x \notin S) /\ Single(<<x>>, S)
    BY <1>2, <1>9, <2>2, SayOne DEF x
  <2>5. CodexReplies(f, <<x>>)
    BY <1>9, <2>2, <2>3, <2>4 DEF CodexReplies, TurnFrames
  <2>6. CodexSays(<<x>>)
    BY <1>0, <1>9, <2>2, <2>4, <2>5 DEF CodexSays, f
  <2> QED BY <2>6
<1>10. CASE f.is = "interrupt" /\ UNCHANGED turns /\ CodexEnd(FALSE)
  <2>1. wire' = wire \/ (Reading(Head(wire)) /\ Head(wire) \in Frames /\ Head(wire).is \in {"interrupt", "reply"})
    BY <1>0, <1>1, <1>10 DEF f
  <2> QED BY <1>0, <1>10, <2>1, CodexEndSays
<1>11. CASE f.is = "interrupt" /\ UNCHANGED <<turns, cli>> /\ Says(<<[is |-> "error"]>>)
  <2> DEFINE x == [is |-> "error"]
  <2>1. x \in Lines /\ x \notin Opening /\ x \notin HandLines /\ \A m : x # Item(m)
    BY LinesSaid DEF Opening, HandLines, Item
  <2> HIDE DEF x
  <2>2. /\ Saying(<<x>>) /\ \A S : (Lacks(<<x>>, S) <=> x \notin S) /\ Single(<<x>>, S)
    BY <1>2, <1>11, <2>1, SayOne DEF x
  <2>3. Lacks(<<x>>, HandLines) /\ Lacks(<<x>>, Opening) /\ \A m : Lacks(<<x>>, {Item(m)})
    BY <2>1, <2>2
  <2>4. CodexSays(<<x>>)
    BY <1>0, <1>1, <1>11, <2>2, <2>3, CodexSaysQuiet DEF f
  <2> QED BY <2>4
<1>12. CASE /\ f.is = "reply" /\ UNCHANGED <<lines, turns>>
            /\ cli' = [cli EXCEPT !.asked = @ \ {f.ask}]
  <2>1. cli'.turn = cli.turn /\ cli'.acks = cli.acks
    BY <1>2, <1>12 DEF CodexCliSet
  <2>2. Saying(<<>>) /\ \A S : Lacks(<<>>, S) /\ Single(<<>>, S)
    BY <1>2, <1>12, SayNone
  <2>3. CodexSays(<<>>)
    BY <1>0, <1>1, <1>12, <2>1, <2>2, CodexSaysQuiet DEF f
  <2> QED BY <2>3
<1> QED BY <1>3, <1>5, <1>6, <1>7, <1>8, <1>9, <1>10, <1>11, <1>12


LEMMA CodexFarSays ==
    ASSUME Shape, provider = "codex", Serve \/ Work \/ Asking \/ Finish
    PROVE  \E new : CodexSays(new)
<1>0. /\ cli \in CodexCliSet /\ lines \in Seq(Lines) /\ cli.acks \subseteq Msgs /\ cli.inbox \in Turn
      /\ turns \in [Msgs -> 0..2]
  BY SteerFacts
<1>1. \/ CodexServe
      \/ \E m \in Msgs : CodexAck(m)
      \/ CodexRead
      \/ \E a \in Asks, kind \in Kinds : CodexAsks(a, kind)
      \/ \E failed \in BOOLEAN : CodexFinish(failed)
  BY DEF Serve, Work, Asking, Finish, ClaudeServe, CursorServe, ClaudeFold, ClaudeNextTurn, ClaudeError,
         ClaudeAsks, CursorAsks, ClaudeFinish, CursorFinish
<1>2. CASE CodexServe
  BY <1>2, CodexServeSays
<1>3. ASSUME NEW m \in Msgs, CodexAck(m) PROVE \E new : CodexSays(new)
  <2> DEFINE x == SteerOk(m)
  <2>1. x \in Lines /\ x \in SteerLines(m) /\ x \notin Opening /\ x \notin HandLines /\ \A n : x # Item(n)
    BY LinesSaid DEF SteerOk, SteerLines, Opening, HandLines, Item
  <2>2. cli'.turn = cli.turn /\ cli'.acks = cli.acks \ {m} /\ Says(<<x>>) /\ wire' = wire
    BY <1>0, <1>3 DEF CodexAck, CodexCliSet
  <2> HIDE DEF x
  <2>3. /\ Saying(<<x>>) /\ \A S : (Lacks(<<x>>, S) <=> x \notin S) /\ Single(<<x>>, S)
    BY <1>0, <2>1, <2>2, SayOne
  <2>4. \A n \in cli.acks : n \in cli'.acks \/ ~Lacks(<<x>>, SteerLines(n))
    BY <2>1, <2>2, <2>3
  <2>5. CodexSays(<<x>>)
    BY <2>1, <2>2, <2>3, <2>4 DEF CodexSays
  <2> QED BY <2>5
<1>4. CASE CodexRead
  <2> DEFINE m == Head(cli.inbox)
             x == Item(m)
  <2>1. m \in Msgs
    BY <1>0, <1>4, TailFacts DEF CodexRead, Turn
  <2>2. x \in Lines /\ x \notin Opening /\ x \notin HandLines /\ \A n : x = Item(n) => n = m
    BY <2>1, LinesSaid DEF Item, Opening, HandLines
  <2>3. cli'.turn = cli.turn /\ cli'.acks = cli.acks /\ Says(<<x>>) /\ Take({m}) /\ wire' = wire
    BY <1>0, <1>4 DEF CodexRead, CodexCliSet, Item
  <2> HIDE DEF x, m
  <2>4. /\ Saying(<<x>>) /\ \A S : (Lacks(<<x>>, S) <=> x \notin S) /\ Single(<<x>>, S)
    BY <1>0, <2>2, <2>3, SayOne
  <2>5. turns'[m] # 0
    BY <1>0, <2>1, <2>3, TakenTurns
  <2>6. CodexSays(<<x>>)
    BY <2>2, <2>3, <2>4, <2>5 DEF CodexSays
  <2> QED BY <2>6
<1>5. ASSUME NEW a \in Asks, NEW kind \in Kinds, CodexAsks(a, kind) PROVE \E new : CodexSays(new)
  <2> DEFINE x == Ask(a, kind)
  <2>1. cli'.turn = cli.turn /\ cli'.acks = cli.acks /\ Says(<<x>>) /\ wire' = wire
    BY <1>0, <1>5 DEF CodexAsks, CodexCliSet
  <2>2. kind \in AskKinds
    BY <1>5, KindsAreFew DEF Shape
  <2>3. x \in Lines /\ x \notin Opening /\ x \notin HandLines /\ \A m : x # Item(m)
    BY <2>2, LinesSaid DEF Ask, Opening, HandLines, Item
  <2> HIDE DEF x
  <2>4. /\ Saying(<<x>>) /\ \A S : (Lacks(<<x>>, S) <=> x \notin S) /\ Single(<<x>>, S)
    BY <1>0, <2>1, <2>3, SayOne
  <2>5. CodexSays(<<x>>)
    BY <2>1, <2>3, <2>4, CodexSaysQuiet
  <2> QED BY <2>5
<1>6. ASSUME NEW failed \in BOOLEAN, CodexFinish(failed) PROVE \E new : CodexSays(new)
  BY <1>6, CodexEndSays DEF CodexFinish
<1> QED BY <1>1, <1>2, <1>3, <1>4, <1>5, <1>6

-----------------------------------------------------------------------------
(* The same of the Cursor agent: it takes a prompt, turns one down, answers *)
(* the one it runs, or says something else.                                 *)

PromptLines(p) == {l \in Lines : l.is = "prompt" /\ l.msgs = p}

\* It may read another frame the while.
Aside == wire' = wire \/ (Reading(Head(wire)) /\ Head(wire) \in Frames /\ Head(wire).is \notin {"prompt", "turn/start"})

CursorQuiet(new) ==
    /\ Aside /\ \A i \in DOMAIN new : new[i].is # "prompt"
    /\ ~Lacks(new, HandLines) => Reading(Head(wire)) /\ Head(wire) \in HandFrames
    /\ cli'.turn = cli.turn /\ turns' = turns

CursorStops(new) ==
    /\ Aside /\ cli.turn \in Turn /\ \E ok \in BOOLEAN : new = <<PromptReply(cli.turn, ok)>>
    /\ cli'.turn = None /\ turns' = turns

CursorBegins(new) ==
    \E f \in Frames :
        /\ Reading(f) /\ f.is = "prompt" /\ f.msgs \in Turn /\ new = <<>>
        /\ cli.turn = None /\ cli'.turn = f.msgs /\ Take(ToSet(f.msgs))

CursorRefuses(new) ==
    \E f \in Frames :
        /\ Reading(f) /\ f.is = "prompt" /\ f.msgs \in Turn /\ new = <<PromptReply(f.msgs, FALSE)>>
        /\ cli'.turn = cli.turn /\ turns' = turns

CursorSays(new) ==
    /\ Saying(new) /\ Single(new, HandLines)
    /\ CursorQuiet(new) \/ CursorStops(new) \/ CursorBegins(new) \/ CursorRefuses(new)

LEMMA CursorFarSays ==
    ASSUME Shape, provider = "cursor", Serve \/ Work \/ Asking \/ Finish
    PROVE  \E new : CursorSays(new)
<1> DEFINE f == Head(wire)
<1>0. cli \in CursorCliSet /\ lines \in Seq(Lines) /\ cli.turn \in Turn \cup {None} /\ wire \in Seq(Frames)
  BY CursorCliFields DEF Shape, CliShape, WayShape
<1>1. \/ CursorServe
      \/ \E a \in Asks, kind \in Kinds : CursorAsks(a, kind)
      \/ \E ok \in BOOLEAN : CursorFinish(ok)
  BY DEF Serve, Work, Asking, Finish, ClaudeServe, CodexServe, ClaudeFold, ClaudeNextTurn, ClaudeError,
         ClaudeAsks, CodexAsks, ClaudeFinish, CodexFinish, CodexAck, CodexRead
<1>2. CASE CursorServe
  <2>0. Reading(f) /\ f \in Frames
    BY <1>0, <1>2, TailFacts DEF CursorServe, Reading
  <2>1. \/ /\ f.is \in {"init", "auth", "open"} /\ UNCHANGED <<cli, turns>>
           /\ \E ok \in BOOLEAN : Says(<<[is |-> f.is, ok |-> ok]>>)
        \/ /\ f.is = "prompt" /\ UNCHANGED lines /\ cli.turn = None
           /\ cli' = [cli EXCEPT !.turn = f.msgs]
           /\ Take(ToSet(f.msgs))
        \/ /\ f.is = "prompt" /\ UNCHANGED <<cli, turns>>
           /\ Says(<<PromptReply(f.msgs, FALSE)>>)
        \/ /\ f.is = "interrupt" /\ UNCHANGED turns
           /\ cli' = [cli EXCEPT !.turn = None, !.asked = {}]
           /\ Says(IF cli.turn = None THEN <<>> ELSE <<PromptReply(cli.turn, TRUE)>>)
        \/ /\ f.is = "reply" /\ UNCHANGED <<lines, turns>>
           /\ cli' = [cli EXCEPT !.asked = @ \ {f.ask}]
    BY <1>2 DEF CursorServe
  <2> HIDE DEF f
  <2>2. CASE /\ f.is \in {"init", "auth", "open"} /\ UNCHANGED <<cli, turns>>
             /\ \E ok \in BOOLEAN : Says(<<[is |-> f.is, ok |-> ok]>>)
    <3>1. PICK ok \in BOOLEAN : Says(<<[is |-> f.is, ok |-> ok]>>)
      BY <2>2
    <3> DEFINE x == [is |-> f.is, ok |-> ok]
    <3>2. x \in Lines /\ x.is # "prompt" /\ f \in HandFrames /\ f.is # "prompt"
      BY <2>0, <2>2, LinesSaid DEF HandFrames
    <3> HIDE DEF x
    <3>3. Saying(<<x>>) /\ Single(<<x>>, HandLines) /\ \A i \in DOMAIN <<x>> : <<x>>[i].is # "prompt"
      BY <1>0, <3>1, <3>2, SayOne DEF x
    <3>4. CursorSays(<<x>>)
      BY <2>0, <2>2, <3>2, <3>3 DEF CursorSays, CursorQuiet, Aside, f
    <3> QED BY <3>4
  <2>3. CASE /\ f.is = "prompt" /\ UNCHANGED lines /\ cli.turn = None
             /\ cli' = [cli EXCEPT !.turn = f.msgs]
             /\ Take(ToSet(f.msgs))
    <3>1. f.msgs \in Turn
      BY <2>0, <2>3, FrameFields
    <3>2. cli'.turn = f.msgs
      BY <1>0, <2>3 DEF CursorCliSet
    <3>3. Saying(<<>>) /\ Single(<<>>, HandLines)
      BY <1>0, <2>3, SayNone
    <3>4. CursorSays(<<>>)
      BY <2>0, <2>3, <3>1, <3>2, <3>3 DEF CursorSays, CursorBegins
    <3> QED BY <3>4
  <2>4. CASE /\ f.is = "prompt" /\ UNCHANGED <<cli, turns>>
             /\ Says(<<PromptReply(f.msgs, FALSE)>>)
    <3>1. f.msgs \in Turn
      BY <2>0, <2>4, FrameFields
    <3>2. PromptReply(f.msgs, FALSE) \in Lines
      BY <3>1, LinesSaid
    <3>3. Saying(<<PromptReply(f.msgs, FALSE)>>) /\ Single(<<PromptReply(f.msgs, FALSE)>>, HandLines)
      BY <1>0, <2>4, <3>2, SayOne
    <3>4. CursorSays(<<PromptReply(f.msgs, FALSE)>>)
      BY <2>0, <2>4, <3>1, <3>3 DEF CursorSays, CursorRefuses
    <3> QED BY <3>4
  <2>5. CASE /\ f.is = "interrupt" /\ UNCHANGED turns
             /\ cli' = [cli EXCEPT !.turn = None, !.asked = {}]
             /\ Says(IF cli.turn = None THEN <<>> ELSE <<PromptReply(cli.turn, TRUE)>>)
    <3>0. Aside /\ cli'.turn = None
      BY <1>0, <2>0, <2>5 DEF Aside, CursorCliSet, f
    <3>1. CASE cli.turn = None
      <4>1. lines' = lines
        <5>1. lines \o <<>> = lines
          BY <1>0
        <5> QED BY <2>5, <3>1, <5>1 DEF Says
      <4>2. Saying(<<>>) /\ Single(<<>>, HandLines) /\ Lacks(<<>>, HandLines)
        BY <1>0, <4>1, SayNone
      <4>3. CursorSays(<<>>)
        BY <2>5, <3>0, <3>1, <4>2 DEF CursorSays, CursorQuiet
      <4> QED BY <4>3
    <3>2. CASE cli.turn # None
      <4>1. cli.turn \in Turn
        BY <1>0, <3>2
      <4>2. PromptReply(cli.turn, TRUE) \in Lines
        BY <4>1, LinesSaid
      <4>3. Says(<<PromptReply(cli.turn, TRUE)>>)
        BY <2>5, <3>2
      <4>4. Saying(<<PromptReply(cli.turn, TRUE)>>) /\ Single(<<PromptReply(cli.turn, TRUE)>>, HandLines)
        BY <1>0, <4>2, <4>3, SayOne
      <4>5. CursorSays(<<PromptReply(cli.turn, TRUE)>>)
        BY <2>5, <3>0, <4>1, <4>4 DEF CursorSays, CursorStops
      <4> QED BY <4>5
    <3> QED BY <3>1, <3>2
  <2>6. CASE /\ f.is = "reply" /\ UNCHANGED <<lines, turns>>
             /\ cli' = [cli EXCEPT !.asked = @ \ {f.ask}]
    <3>1. cli'.turn = cli.turn /\ Aside
      BY <1>0, <2>0, <2>6 DEF CursorCliSet, Aside, f
    <3>2. Saying(<<>>) /\ Single(<<>>, HandLines) /\ Lacks(<<>>, HandLines)
      BY <1>0, <2>6, SayNone
    <3>3. CursorSays(<<>>)
      BY <2>6, <3>1, <3>2 DEF CursorSays, CursorQuiet
    <3> QED BY <3>3
  <2> QED BY <2>1, <2>2, <2>3, <2>4, <2>5, <2>6
<1>3. ASSUME NEW a \in Asks, NEW kind \in Kinds, CursorAsks(a, kind) PROVE \E new : CursorSays(new)
  <2> DEFINE x == Ask(a, kind)
  <2>1. cli'.turn = cli.turn /\ Says(<<x>>) /\ Aside /\ turns' = turns
    BY <1>0, <1>3 DEF CursorAsks, CursorCliSet, Aside
  <2>2. kind \in AskKinds
    BY <1>3, KindsAreFew DEF Shape
  <2>3. x \in Lines /\ x \notin HandLines /\ x.is # "prompt"
    BY <2>2, LinesSaid DEF Ask, HandLines
  <2> HIDE DEF x
  <2>4. /\ Saying(<<x>>) /\ Single(<<x>>, HandLines) /\ Lacks(<<x>>, HandLines)
        /\ \A i \in DOMAIN <<x>> : <<x>>[i].is # "prompt"
    BY <1>0, <2>1, <2>3, SayOne
  <2>5. CursorSays(<<x>>)
    BY <2>1, <2>4 DEF CursorSays, CursorQuiet
  <2> QED BY <2>5
<1>4. ASSUME NEW ok \in BOOLEAN, CursorFinish(ok) PROVE \E new : CursorSays(new)
  <2> DEFINE x == PromptReply(cli.turn, ok)
  <2>1. cli.turn \in Turn /\ cli'.turn = None /\ Says(<<x>>) /\ Aside /\ turns' = turns
    BY <1>0, <1>4 DEF CursorFinish, CursorCliSet, Aside
  <2>2. x \in Lines
    BY <2>1, LinesSaid
  <2>3. Saying(<<x>>) /\ Single(<<x>>, HandLines)
    BY <1>0, <2>1, <2>2, SayOne
  <2>4. CursorSays(<<x>>)
    BY <2>1, <2>3 DEF CursorSays, CursorStops
  <2> QED BY <2>4
<1> QED BY <1>1, <1>2, <1>3, <1>4

-----------------------------------------------------------------------------
(* The handshake: one frame of it is on its way at a time, or its answer,   *)
(* and none once the driver is ready.                                       *)

HandOK ==
    provider # "claude" =>
        /\ AtMostOne(Writing(HandFrames), HandFrames)
        /\ Single(lines, HandLines)
        /\ ~Free(HandFrames) => Lacks(lines, HandLines)
        /\ drv.phase = "ready" => Free(HandFrames) /\ Lacks(lines, HandLines)

\* What a step leaves of a list of lines: its tail, or more of it.
LEMMA OnceMoves ==
    ASSUME WayShape, NEW t \in Threads, NEW steps, NEW new, NEW back, NEW asks,
           DriverMoves(t, steps, new, back, asks), todo[t] = <<>>, wire' = wire,
           NEW F, AtMostOne(Writing(F), F), Single(steps, Writing(F)),
           Lacks(steps, Writing(F)) \/ Free(F)
    PROVE  AtMostOne(Writing(F), F)'
<1> DEFINE r == [drv |-> drv', steps |-> steps]
<1>1. Compute(t, r) /\ r.steps = steps
  BY DEF Compute, DriverMoves
<1>2. Sends(Writing(F), F)
  BY WritingSends
<1> HIDE DEF r
<1>3. Single(r.steps, Writing(F)) /\ (Lacks(r.steps, Writing(F)) \/ Clear(Writing(F), F))
  BY <1>1 DEF Free
<1> QED BY <1>1, <1>2, <1>3, ComputeFlows

LEMMA OnceThread ==
    ASSUME Shape, NEW t \in Threads, Acting(t), NEW F, AtMostOne(Writing(F), F)
    PROVE  AtMostOne(Writing(F), F)'
<1>1. Sends(Writing(F), F) /\ WayShape
  BY WritingSends DEF Shape
<1> QED BY <1>1, EmitFlows, WriteFlows, BrokenFlows DEF Acting

\* What a call and a line have in common.
LEMMA CallIs ==
    ASSUME Shape, NEW t, NEW new, NEW steps, Calling(t, new, steps)
    PROVE  /\ t \in Threads /\ t # "reader" /\ todo[t] = <<>> /\ steps \in Seq(Steps)
           /\ todo' = [todo EXCEPT ![t] = steps] /\ DriverMoves(t, steps, new, {}, {})
           /\ todo'[t] = steps /\ \A u \in Threads \ {t} : todo'[u] = todo[u]
           /\ UNCHANGED <<provider, wire, lines, alive, cli, turns, replies, echoed, failures, working>>
           /\ called' = called \cup {t} /\ t \notin called /\ new \subseteq {t} /\ new \subseteq Msgs
           /\ WayShape
<1>1. Called(t, new, steps) /\ UNCHANGED <<failures, working>>
  BY DEF Calling
<1>2. WayShape
  BY DEF Shape
<1>3. t \in Threads /\ t # "reader" /\ todo[t] = <<>>
  BY <1>1, <1>2, ReaderIsNoCaller DEF Called, WayShape
<1>4. steps \in Seq(Steps)
  BY <1>1, StepsDealt DEF Called
<1>5. todo' = [todo EXCEPT ![t] = steps]
  BY <1>1 DEF Called, DriverMoves
<1>6. todo'[t] = steps /\ \A u \in Threads \ {t} : todo'[u] = todo[u]
  BY <1>2, <1>3, <1>5 DEF WayShape
<1> QED BY <1>1, <1>2, <1>3, <1>4, <1>5, <1>6 DEF Called

LEMMA HearIs ==
    ASSUME Shape, NEW steps, Hearing(steps)
    PROVE  /\ "reader" \in Threads /\ todo["reader"] = <<>> /\ steps \in Seq(Steps)
           /\ todo' = [todo EXCEPT !["reader"] = steps]
           /\ DriverMoves("reader", steps, {}, Back(Head(lines)), NewAsks(Head(lines)))
           /\ todo'["reader"] = steps /\ \A u \in Threads \ {"reader"} : todo'[u] = todo[u]
           /\ lines \in Seq(Lines) /\ lines # <<>> /\ lines' = Tail(lines)
           /\ Head(lines) \in Lines /\ Head(lines).is \in Speaks
           /\ UNCHANGED <<provider, called, wire, alive, cli, turns, replies, userVars, steered>>
           /\ WayShape
<1>1. Heard(steps) /\ UNCHANGED <<userVars, steered>>
  BY DEF Hearing
<1>2. WayShape /\ "reader" \in Threads
  BY ReaderIsNoCaller DEF Shape
<1>3. steps \in Seq(Steps)
  BY <1>1, StepsDealt DEF Heard
<1>4. todo' = [todo EXCEPT !["reader"] = steps]
  BY <1>1 DEF Heard, DriverMoves
<1>5. todo'["reader"] = steps /\ \A u \in Threads \ {"reader"} : todo'[u] = todo[u]
  BY <1>2, <1>4 DEF WayShape
<1> QED BY <1>1, <1>2, <1>3, <1>4, <1>5 DEF Heard, WayShape

LEMMA ActIs ==
    ASSUME Shape, NEW t \in Threads, Acting(t)
    PROVE  /\ UNCHANGED <<provider, drv, called, lines, alive, cli, turns, replies, steered>>
           /\ todo[t] # <<>> /\ todo[t] \in Seq(Steps) /\ Head(todo[t]) \in Steps
           /\ \A u \in Threads \ {t} : todo'[u] = todo[u]
           /\ todo'[t] \in {<<>>, Tail(todo[t])} /\ (alive => todo'[t] = Tail(todo[t]))
           /\ wire' = wire \/ (wire' = Append(wire, Head(todo[t]).it) /\ Head(todo[t]).do = "write")
           /\ Head(todo[t]).do = "write" /\ alive => wire' = Append(wire, Head(todo[t]).it)
<1>1. todo \in [Threads -> Seq(Steps)]
  BY DEF Shape, WayShape
<1>2. UNCHANGED <<provider, drv, called, lines, alive, cli, turns, replies, steered>>
  BY DEF Acting, EmitStep, WriteStep, BrokenPipe, procVars
<1>3. todo[t] # <<>> /\ todo[t] \in Seq(Steps)
  BY <1>1 DEF Acting, EmitStep, WriteStep, BrokenPipe
<1>4. Head(todo[t]) \in Steps
  BY <1>3
<1>5. \/ todo' = [todo EXCEPT ![t] = Tail(@)]
      \/ todo' = [todo EXCEPT ![t] = <<>>] /\ ~alive
  BY DEF Acting, EmitStep, WriteStep, BrokenPipe
<1>6. /\ \A u \in Threads \ {t} : todo'[u] = todo[u]
      /\ todo'[t] \in {<<>>, Tail(todo[t])} /\ (alive => todo'[t] = Tail(todo[t]))
  BY <1>1, <1>5
<1>7. /\ wire' = wire \/ (wire' = Append(wire, Head(todo[t]).it) /\ Head(todo[t]).do = "write")
      /\ Head(todo[t]).do = "write" /\ alive => wire' = Append(wire, Head(todo[t]).it)
  BY DEF Acting, EmitStep, WriteStep, BrokenPipe, procVars
<1> QED BY <1>2, <1>3, <1>4, <1>6, <1>7

LEMMA FarIs ==
    ASSUME Shape, Far
    PROVE  /\ UNCHANGED <<provider, drv, todo, called, alive, userVars, steered>>
           /\ wire \in Seq(Frames) /\ lines \in Seq(Lines)
           /\ wire' = wire \/ (wire # <<>> /\ wire' = Tail(wire))
  BY DEF Far, FarShape, Elsewhere, Shape, WayShape

LEMMA HandCalling ==
    ASSUME Shape, HandOK, NEW t, NEW new, NEW steps, Calling(t, new, steps)
    PROVE  HandOK'
<1> SUFFICES ASSUME provider # "claude" PROVE HandOK'
  BY CallIs DEF HandOK
<1>1. /\ t \in Threads /\ todo[t] = <<>> /\ wire' = wire /\ lines' = lines /\ WayShape
      /\ DriverMoves(t, steps, new, {}, {})
  BY CallIs
<1>2. drv'.phase = drv.phase /\ Lacks(steps, Writing(HandFrames))
  <2>1. provider \in {"codex", "cursor"} /\ ToldSo(new, steps)
    BY DEF Shape, DriverShape, Calling
  <2> QED BY <2>1 DEF ToldSo, CodexTold, CursorTold
<1>3. AtMostOne(Writing(HandFrames), HandFrames)'
  BY <1>1, <1>2, OnceMoves, LackSingle DEF HandOK
<1>4. Free(HandFrames) => Free(HandFrames)'
  BY <1>1, <1>2, FreeMoves
<1> QED BY <1>1, <1>2, <1>3, <1>4 DEF HandOK

LEMMA HandHearing ==
    ASSUME Shape, HandOK, NEW steps, Hearing(steps)
    PROVE  HandOK'
<1> SUFFICES ASSUME provider # "claude" PROVE HandOK'
  BY HearIs DEF HandOK
<1> DEFINE line == Head(lines)
           r == [drv |-> drv', steps |-> steps]
<1>1. /\ "reader" \in Threads /\ todo["reader"] = <<>> /\ wire' = wire /\ WayShape
      /\ DriverMoves("reader", steps, {}, Back(line), NewAsks(line))
      /\ lines \in Seq(Lines) /\ lines # <<>> /\ lines' = Tail(lines)
  BY HearIs
<1>2. HandHears(drv, r, line)
  <2>1. provider \in {"codex", "cursor"} /\ HearsSo(steps)
    BY DEF Shape, DriverShape, Hearing
  <2> QED BY <2>1 DEF HearsSo, CodexHears, CursorHears
<1>3. r.drv = drv' /\ r.steps = steps
  OBVIOUS
<1> HIDE DEF r
<1>4. /\ AtMostOne(Writing(HandFrames), HandFrames) /\ Single(lines, HandLines)
      /\ ~Free(HandFrames) => Lacks(lines, HandLines)
      /\ drv.phase = "ready" => Free(HandFrames) /\ Lacks(lines, HandLines)
  BY DEF HandOK
<1>5. /\ Single(Tail(lines), HandLines) /\ (Lacks(lines, HandLines) => Lacks(Tail(lines), HandLines) /\ line \notin HandLines)
      /\ line \in HandLines => Lacks(Tail(lines), HandLines)
  BY <1>1, <1>4, TailFacts
<1>6. CASE line \notin HandLines
  <2>1. drv'.phase = drv.phase /\ Lacks(steps, Writing(HandFrames))
    BY <1>2, <1>3, <1>6 DEF HandHears
  <2>2. AtMostOne(Writing(HandFrames), HandFrames)'
    BY <1>1, <1>4, <2>1, OnceMoves, LackSingle
  <2>3. Free(HandFrames) => Free(HandFrames)'
    BY <1>1, <2>1, FreeMoves
  <2> QED BY <1>1, <1>4, <1>5, <2>1, <2>2, <2>3 DEF HandOK
<1>7. CASE line \in HandLines
  <2>1. Free(HandFrames) /\ Lacks(Tail(lines), HandLines) /\ drv.phase # "ready"
    BY <1>4, <1>5, <1>7
  <2>2. Single(steps, Writing(HandFrames)) /\ (drv'.phase = "ready" => Lacks(steps, Writing(HandFrames)))
    BY <1>2, <1>3, <2>1 DEF HandHears
  <2>3. AtMostOne(Writing(HandFrames), HandFrames)'
    BY <1>1, <1>4, <2>1, <2>2, OnceMoves
  <2>4. drv'.phase = "ready" => Free(HandFrames)'
    BY <1>1, <2>1, <2>2, FreeMoves
  <2> QED BY <1>1, <1>5, <2>1, <2>3, <2>4 DEF HandOK
<1> QED BY <1>6, <1>7

LEMMA HandActing ==
    ASSUME Shape, HandOK, NEW t \in Threads, Acting(t)
    PROVE  HandOK'
<1>1. UNCHANGED <<provider, drv, lines>>
  BY ActIs
<1>2. AtMostOne(Writing(HandFrames), HandFrames) => AtMostOne(Writing(HandFrames), HandFrames)'
  BY OnceThread
<1>3. Free(HandFrames) => Free(HandFrames)'
  BY FreeThread DEF Acting
<1> QED BY <1>1, <1>2, <1>3 DEF HandOK

LEMMA HandFar ==
    ASSUME Shape, HandOK, Far, Serve \/ Work \/ Asking \/ Finish
    PROVE  HandOK'
<1> SUFFICES ASSUME provider # "claude" PROVE HandOK'
  BY FarIs DEF HandOK
<1>1. UNCHANGED <<provider, drv, todo>> /\ lines \in Seq(Lines) /\ WayShape /\ wire \in Seq(Frames)
  BY FarIs DEF Shape
<1>2. PICK new : /\ Saying(new) /\ Single(new, HandLines)
                 /\ ~Lacks(new, HandLines) => Reading(Head(wire)) /\ Head(wire) \in HandFrames
  <2>1. CASE provider = "codex"
    <3>1. PICK new : CodexSays(new)
      BY <2>1, CodexFarSays
    <3> QED BY <3>1 DEF CodexSays, CodexReplies
  <2>2. CASE provider = "cursor"
    <3>1. PICK new : CursorSays(new)
      BY <2>2, CursorFarSays
    <3>2. \A p, ok : Lacks(<<PromptReply(p, ok)>>, HandLines) /\ Lacks(<<>>, HandLines)
      <4>1. \A p, ok : PromptReply(p, ok) \notin HandLines
        BY DEF PromptReply, HandLines
      <4> QED BY <4>1 DEF Lacks
    <3> QED BY <3>1, <3>2 DEF CursorSays, CursorQuiet, CursorStops, CursorBegins, CursorRefuses
  <2> QED BY <2>1, <2>2 DEF Shape, DriverShape
<1>3. /\ AtMostOne(Writing(HandFrames), HandFrames) /\ Single(lines, HandLines)
      /\ ~Free(HandFrames) => Lacks(lines, HandLines)
      /\ drv.phase = "ready" => Free(HandFrames) /\ Lacks(lines, HandLines)
  BY DEF HandOK
<1>4. AtMostOne(Writing(HandFrames), HandFrames)' /\ (Free(HandFrames) => Free(HandFrames)')
  BY <1>3, FarWire, FreeFar
<1>5. lines' = lines \o new /\ new \in Seq(Lines)
  BY <1>2 DEF Saying
<1>6. CASE Lacks(new, HandLines)
  <2>1. (Lacks(lines, HandLines) => Lacks(lines', HandLines)) /\ Single(lines', HandLines)
    BY <1>1, <1>2, <1>3, <1>5, <1>6, LacksFacts
  <2> QED BY <1>1, <1>3, <1>4, <2>1 DEF HandOK
<1>7. CASE ~Lacks(new, HandLines)
  <2>1. Reading(Head(wire)) /\ Head(wire) \in HandFrames
    BY <1>2, <1>7
  <2>2. ~Free(HandFrames)
    BY <2>1, FreeRead DEF Reading
  <2>3. Free(HandFrames)'
    <3>1. Clear(Writing(HandFrames), HandFrames)'
      BY <1>1, <1>3, <2>1, ReadFlows DEF Reading
    <3> QED BY <3>1 DEF Free
  <2>4. Single(lines', HandLines)
    BY <1>1, <1>2, <1>3, <1>5, <2>2, LacksFacts
  <2> QED BY <1>1, <1>3, <1>4, <2>2, <2>3, <2>4 DEF HandOK
<1> QED BY <1>6, <1>7

LEMMA HandRests ==
    ASSUME HandOK, Resting
    PROVE  HandOK'
<1>1. Rests /\ UNCHANGED <<provider, drv, todo, wire, lines>>
  BY DEF Resting, Rests
<1>2. Free(HandFrames)' = Free(HandFrames) /\ AtMostOne(Writing(HandFrames), HandFrames)' = AtMostOne(Writing(HandFrames), HandFrames)
  BY <1>1 DEF Free, Clear, AtMostOne
<1> QED BY <1>1, <1>2 DEF HandOK

LEMMA HandKept ==
    ASSUME Shape, AsksOnce, [Next]_vars, HandOK
    PROVE  HandOK'
<1>1. \/ \E t, new, steps : Calling(t, new, steps)
      \/ \E steps : Hearing(steps)
      \/ \E t \in Threads : Acting(t)
      \/ Far /\ (Serve \/ Work \/ Asking \/ Finish)
      \/ Resting
  BY StepGoes
<1> QED BY <1>1, HandCalling, HandHearing, HandActing, HandFar, HandRests

LEMMA HandStarts ==
    ASSUME Init
    PROVE  HandOK
<1> SUFFICES ASSUME provider # "claude" PROVE HandOK
  BY DEF HandOK
<1>1. todo = [t \in Threads |-> <<>>] /\ lines = <<>> /\ wire = <<[is |-> "init"]>> /\ drv.phase # "ready"
  BY DEF Init, CodexNew, CursorNew
<1>2. \A t \in Threads : todo[t] = <<>>
  BY <1>1
<1>3. AtMostOne(Writing(HandFrames), HandFrames)
  BY <1>1, <1>2 DEF AtMostOne, Single, Lacks
<1> QED BY <1>1, <1>3 DEF HandOK, Single, Lacks

-----------------------------------------------------------------------------
(* Until a Codex driver is ready nothing is active, steered or started, and *)
(* a steer that the app server says it has read has been.                   *)

EarlyOK ==
    provider = "codex" =>
        /\ drv.phase # "ready" => Early(drv) /\ Free(TurnFrames) /\ Lacks(lines, Opening)
        /\ \A m \in Msgs : ~Lacks(lines, {Item(m)}) => turns[m] # 0

LEMMA EarlyCalling ==
    ASSUME Shape, EarlyOK, NEW t, NEW new, NEW steps, Calling(t, new, steps)
    PROVE  EarlyOK'
<1> SUFFICES ASSUME provider = "codex" PROVE EarlyOK'
  BY CallIs DEF EarlyOK
<1>1. /\ t \in Threads /\ todo[t] = <<>> /\ wire' = wire /\ lines' = lines /\ turns' = turns /\ WayShape
      /\ DriverMoves(t, steps, new, {}, {})
  BY CallIs
<1>2. /\ drv'.phase = drv.phase /\ (drv.phase # "ready" => Lacks(steps, Writing(TurnFrames)))
      /\ Early(drv) => Early(drv')
  <2>1. CodexTold(drv, [drv |-> drv', steps |-> steps], new)
    BY DEF Calling, ToldSo
  <2> QED BY <2>1 DEF CodexTold, Early
<1>3. drv.phase # "ready" /\ Free(TurnFrames) => Free(TurnFrames)'
  BY <1>1, <1>2, FreeMoves
<1> QED BY <1>1, <1>2, <1>3 DEF EarlyOK

LEMMA EarlyHearing ==
    ASSUME Shape, EarlyOK, HandOK, NEW steps, Hearing(steps)
    PROVE  EarlyOK'
<1> SUFFICES ASSUME provider = "codex" PROVE EarlyOK'
  BY HearIs DEF EarlyOK
<1> DEFINE line == Head(lines)
           r == [drv |-> drv', steps |-> steps]
<1>1. /\ "reader" \in Threads /\ todo["reader"] = <<>> /\ wire' = wire /\ WayShape /\ turns' = turns
      /\ DriverMoves("reader", steps, {}, Back(line), NewAsks(line))
      /\ lines \in Seq(Lines) /\ lines # <<>> /\ lines' = Tail(lines)
  BY HearIs
<1>2. HandHears(drv, r, line) /\ EarlyHears(drv, r, line)
  BY DEF Hearing, HearsSo, CodexHears
<1>3. r.drv = drv' /\ r.steps = steps
  OBVIOUS
<1> HIDE DEF r
<1>4. drv.phase = "ready" => Lacks(lines, HandLines)
  BY DEF HandOK
<1>5. \A S : Lacks(lines, S) => Lacks(Tail(lines), S) /\ line \notin S
  BY <1>1, TailFacts
<1>6. ASSUME drv'.phase # "ready"
      PROVE  Early(drv') /\ Free(TurnFrames)' /\ Lacks(lines', Opening)
  <2>1. drv.phase # "ready"
    BY <1>2, <1>3, <1>4, <1>5, <1>6 DEF HandHears
  <2>2. Early(drv) /\ Free(TurnFrames) /\ Lacks(lines, Opening)
    BY <2>1 DEF EarlyOK
  <2>3. Early(drv') /\ Lacks(steps, Writing(TurnFrames))
    BY <1>2, <1>3, <1>5, <1>6, <2>2 DEF EarlyHears
  <2>4. Free(TurnFrames)'
    BY <1>1, <2>2, <2>3, FreeMoves
  <2> QED BY <1>1, <1>5, <2>2, <2>3, <2>4
<1>7. \A m \in Msgs : ~Lacks(lines', {Item(m)}) => turns'[m] # 0
  BY <1>1, <1>5 DEF EarlyOK
<1> QED BY <1>6, <1>7 DEF EarlyOK

LEMMA EarlyActing ==
    ASSUME Shape, EarlyOK, NEW t \in Threads, Acting(t)
    PROVE  EarlyOK'
<1>1. UNCHANGED <<provider, drv, lines, turns>>
  BY ActIs
<1>2. Free(TurnFrames) => Free(TurnFrames)'
  BY FreeThread DEF Acting
<1> QED BY <1>1, <1>2 DEF EarlyOK

\* What was in a turn stays so.
LEMMA TurnsGrow ==
    ASSUME Shape, Far, NEW m \in Msgs, turns[m] # 0
    PROVE  turns'[m] # 0
<1>1. turns \in [Msgs -> 0..2]
  BY DEF Shape, UserShape
<1>2. FarPrompts
  BY DEF Far
<1>3. turns'[m] \in {turns[m], Once(turns[m])}
  BY <1>1, <1>2 DEF FarPrompts
<1> QED BY <1>1, <1>3 DEF Once

LEMMA EarlyFar ==
    ASSUME Shape, EarlyOK, Far, Serve \/ Work \/ Asking \/ Finish
    PROVE  EarlyOK'
<1> SUFFICES ASSUME provider = "codex" PROVE EarlyOK'
  BY FarIs DEF EarlyOK
<1>1. UNCHANGED <<provider, drv>> /\ lines \in Seq(Lines)
  BY FarIs
<1>2. PICK new : CodexSays(new)
  BY CodexFarSays
<1>3. lines' = lines \o new /\ new \in Seq(Lines)
  BY <1>2 DEF CodexSays, Saying
<1>4. \A S : Lacks(lines', S) <=> Lacks(lines, S) /\ Lacks(new, S)
  BY <1>1, <1>3, LacksFacts
<1>5. ASSUME drv.phase # "ready"
      PROVE  Free(TurnFrames)' /\ Lacks(lines', Opening)
  <2>1. Free(TurnFrames) /\ Lacks(lines, Opening)
    BY <1>5 DEF EarlyOK
  <2>2. Reading(Head(wire)) => Head(wire) \notin TurnFrames
    BY <2>1, FreeRead DEF Reading
  <2>3. Lacks(new, Opening)
    BY <1>2, <2>2 DEF CodexSays, CodexReplies
  <2> QED BY <1>4, <2>1, <2>3, FreeFar
<1>6. ASSUME NEW m \in Msgs, ~Lacks(lines', {Item(m)}) PROVE turns'[m] # 0
  <2>1. CASE Lacks(lines, {Item(m)})
    BY <1>2, <1>4, <1>6, <2>1 DEF CodexSays
  <2>2. CASE ~Lacks(lines, {Item(m)})
    BY <2>2, TurnsGrow DEF EarlyOK
  <2> QED BY <2>1, <2>2
<1> QED BY <1>1, <1>5, <1>6 DEF EarlyOK

LEMMA EarlyRests ==
    ASSUME EarlyOK, Resting
    PROVE  EarlyOK'
<1>1. Rests /\ UNCHANGED <<provider, drv, lines, turns>>
  BY DEF Resting, Rests
<1>2. Free(TurnFrames)' = Free(TurnFrames)
  BY <1>1, FreeRests
<1> QED BY <1>1, <1>2 DEF EarlyOK

-----------------------------------------------------------------------------
(* Where a steered message is: held to be shown, read, in a request of its  *)
(* own, or failed for all to see.                                           *)

Accounted(m) ==
    \/ m \in Shows
    \/ turns[m] # 0
    \/ failures
    \/ ~Lacks(todo["reader"], {Failed})
    \/ ~Lacks(todo["reader"], Writing(OwnFrames(m)))
    \/ ~Lacks(wire, OwnFrames(m))
    \/ ~Lacks(lines, Refusing(m))

AllAccounted == provider # "claude" => \A m \in steered : Accounted(m)

LEMMA AccCalling ==
    ASSUME Shape, EarlyOK, NEW t, NEW new, NEW steps, Calling(t, new, steps), AllAccounted
    PROVE  AllAccounted'
<1>1. /\ t # "reader" /\ todo'["reader"] = todo["reader"]
      /\ UNCHANGED <<provider, wire, lines, turns, failures>>
  BY CallIs, ReaderIsNoCaller
<1> SUFFICES ASSUME provider # "claude", NEW m \in steered' PROVE Accounted(m)'
  BY <1>1 DEF AllAccounted
<1>2. m \in Shows => m \in Shows'
  <2>1. CASE provider = "codex"
    <3>1. CodexTold(drv, [drv |-> drv', steps |-> steps], new)
      BY <2>1 DEF Calling, ToldSo
    <3>2. drv.steers \subseteq drv'.steers /\ drv'.carried = drv.carried
      BY <3>1 DEF CodexTold
    <3> QED BY <1>1, <2>1, <3>2 DEF Shows, CodexShows
  <2>2. CASE provider = "cursor"
    <3>1. CursorTold(drv, [drv |-> drv', steps |-> steps], new)
      BY <2>2 DEF Calling, ToldSo
    <3>2. ToSet(drv.carried) \subseteq ToSet(drv'.carried)
      BY <3>1 DEF CursorTold
    <3> QED BY <1>1, <2>2, <3>2 DEF Shows
  <2> QED BY <2>1, <2>2 DEF Shape, DriverShape
<1>3. m \in steered \/ (m \in new /\ Joins(m))
  BY DEF Calling
<1>4. CASE m \in steered
  <2>1. Accounted(m)
    BY <1>4 DEF AllAccounted
  <2> QED BY <1>1, <1>2, <2>1 DEF Accounted
<1>5. CASE m \in new /\ Joins(m)
  <2>1. CASE provider = "codex"
    <3>1. CodexTold(drv, [drv |-> drv', steps |-> steps], new)
      BY <2>1 DEF Calling, ToldSo
    <3>2. drv.active # None
      BY <1>5, <2>1 DEF Joins
    <3>3. drv.phase = "ready"
      BY <2>1, <3>2 DEF EarlyOK, Early
    <3>4. m \in drv'.steers
      BY <1>5, <3>1, <3>2, <3>3 DEF CodexTold
    <3> QED BY <1>1, <2>1, <3>4 DEF Shows, CodexShows, Accounted
  <2>2. CASE provider = "cursor"
    <3>1. CursorTold(drv, [drv |-> drv', steps |-> steps], new)
      BY <2>2 DEF Calling, ToldSo
    <3>2. drv.phase = "ready" /\ drv.prompts # {}
      BY <1>5, <2>2 DEF Joins
    <3>3. m \in ToSet(drv'.carried)
      BY <1>5, <3>1, <3>2 DEF CursorTold
    <3> QED BY <1>1, <2>2, <3>3 DEF Shows, Accounted
  <2> QED BY <2>1, <2>2 DEF Shape, DriverShape
<1> QED BY <1>3, <1>4, <1>5

LEMMA AccHearing ==
    ASSUME Shape, EarlyOK, NEW steps, Hearing(steps), AllAccounted
    PROVE  AllAccounted'
<1> DEFINE line == Head(lines)
           r == [drv |-> drv', steps |-> steps]
<1>1. /\ todo["reader"] = <<>> /\ todo'["reader"] = steps /\ UNCHANGED <<provider, wire, turns, failures, steered>>
      /\ lines \in Seq(Lines) /\ lines # <<>> /\ lines' = Tail(lines) /\ line \in Lines
  BY HearIs DEF userVars
<1> SUFFICES ASSUME provider # "claude", NEW m \in steered PROVE Accounted(m)'
  BY <1>1 DEF AllAccounted
<1>2. r.drv = drv' /\ r.steps = steps /\ m \in Msgs
  BY DEF Shape, UserShape
<1>3. /\ m \in Shows => m \in Shows' \/ ~Lacks(steps, Writing(OwnFrames(m))) \/ turns[m] # 0
      /\ line \in Refusing(m) => ~Lacks(steps, {Failed})
  <2>1. CASE provider = "codex"
    <3>1. KeptHears(drv, r, line)
      BY <2>1 DEF Hearing, HearsSo, CodexHears
    <3> HIDE DEF r
    <3>2. line = Item(m) => turns[m] # 0
      <4>1. line = Item(m) => ~Lacks(lines, {Item(m)})
        BY <1>1, TailFacts
      <4> QED BY <1>2, <2>1, <4>1 DEF EarlyOK
    <3>3. line \in Refusing(m) => line.is = "start" /\ ~line.ok
      <4>1. line.is \in CodexSpeaks
        BY <2>1, HearIs DEF Speaks
      <4> QED BY <4>1 DEF Refusing, CodexSpeaks
    <3> QED BY <1>1, <1>2, <2>1, <3>1, <3>2, <3>3 DEF KeptHears, Shows
  <2>2. CASE provider = "cursor"
    <3>1. CursorHears(drv, r, line)
      BY <2>2 DEF Hearing, HearsSo
    <3> HIDE DEF r
    <3>2. line \in Refusing(m) => line.is = "prompt" /\ ~line.ok
      <4>1. line.is \in CursorSpeaks
        BY <2>2, HearIs DEF Speaks
      <4> QED BY <4>1 DEF Refusing, CursorSpeaks
    <3> QED BY <1>1, <1>2, <2>2, <3>1, <3>2 DEF CursorHears, Shows
  <2> QED BY <2>1, <2>2 DEF Shape, DriverShape
<1>4. Lacks(todo["reader"], {Failed}) /\ Lacks(todo["reader"], Writing(OwnFrames(m)))
  BY <1>1 DEF Lacks
<1>5. ~Lacks(lines, Refusing(m)) => ~Lacks(lines', Refusing(m)) \/ line \in Refusing(m)
  BY <1>1, TailFacts
<1>6. Accounted(m)
  BY DEF AllAccounted
<1> HIDE DEF r
<1> QED BY <1>1, <1>3, <1>4, <1>5, <1>6 DEF Accounted

LEMMA AccActing ==
    ASSUME Shape, NEW t \in Threads, Acting(t), AllAccounted
    PROVE  AllAccounted'
<1>1. /\ UNCHANGED <<provider, drv, lines, turns, steered>>
      /\ todo[t] # <<>> /\ todo[t] \in Seq(Steps)
      /\ \A u \in Threads \ {t} : todo'[u] = todo[u]
      /\ todo'[t] \in {<<>>, Tail(todo[t])}
      /\ wire' = wire \/ (wire' = Append(wire, Head(todo[t]).it) /\ Head(todo[t]).do = "write")
      /\ Head(todo[t]).do = "write" /\ alive => wire' = Append(wire, Head(todo[t]).it)
      /\ wire \in Seq(Frames) /\ Head(todo[t]) \in Steps
  BY ActIs DEF Shape, WayShape
<1> SUFFICES ASSUME provider # "claude", NEW m \in steered PROVE Accounted(m)'
  BY <1>1 DEF AllAccounted
<1>2. Shows' = Shows
  BY <1>1, DriverStays
<1>3. failures => failures'
  BY DEF Acting, EmitStep, WriteStep, BrokenPipe, Show, userVars
<1>4. ~Lacks(wire, OwnFrames(m)) => ~Lacks(wire', OwnFrames(m))
  <2>1. CASE wire' = wire
    BY <2>1
  <2>2. CASE wire' = Append(wire, Head(todo[t]).it) /\ Head(todo[t]).do = "write"
    <3>1. Head(todo[t]).it \in Frames
      BY <1>1, <2>2, StepFields DEF Write, Emit
    <3> QED BY <1>1, <2>2, <3>1, AppendFacts
  <2> QED BY <1>1, <2>1, <2>2
<1>5. Accounted(m)
  BY DEF AllAccounted
<1>6. CASE t # "reader"
  <2>1. todo'["reader"] = todo["reader"]
    BY <1>1, <1>6, ReaderIsNoCaller
  <2> QED BY <1>1, <1>2, <1>3, <1>4, <1>5, <2>1 DEF Accounted
<1>7. CASE t = "reader"
  <2> DEFINE x == Head(todo[t])
  <2>1. CASE BrokenPipe(t)
    <3>1. failures'
      BY <1>7, <2>1 DEF BrokenPipe, Show
    <3> QED BY <3>1 DEF Accounted
  <2>2. CASE EmitStep(t) \/ WriteStep(t)
    <3>1. todo'[t] = Tail(todo[t])
      <4>1. todo \in [Threads -> Seq(Steps)] /\ todo' = [todo EXCEPT ![t] = Tail(@)]
        BY <2>2 DEF EmitStep, WriteStep, Shape, WayShape
      <4> QED BY <4>1
    <3>2. \A S : ~Lacks(todo[t], S) => ~Lacks(todo'[t], S) \/ x \in S
      BY <1>1, <3>1, TailFacts
    <3>3. x = Failed => failures'
      <4>1. Failed.do = "emit" /\ Failed.it.is = "failed"
        BY DEF Failed, Emit
      <4> QED BY <2>2, <4>1 DEF EmitStep, WriteStep, Show
    <3>4. x \in Writing(OwnFrames(m)) => ~Lacks(wire', OwnFrames(m))
      <4>1. ASSUME x \in Writing(OwnFrames(m)) PROVE ~Lacks(wire', OwnFrames(m))
        <5>1. x.do = "write" /\ x.it \in OwnFrames(m) /\ x.it \in Frames
          BY <4>1 DEF Writing, OwnFrames
        <5>2. wire' = Append(wire, x.it)
          BY <2>2, <5>1 DEF EmitStep, WriteStep
        <5> QED BY <1>1, <5>1, <5>2, AppendFacts
      <4> QED BY <4>1
    <3> HIDE DEF x
    <3> QED BY <1>1, <1>2, <1>3, <1>4, <1>5, <1>7, <3>2, <3>3, <3>4 DEF Accounted
  <2> QED BY <2>1, <2>2 DEF Acting
<1> QED BY <1>6, <1>7

\* A request that is read puts its messages in a turn, or is refused.
LEMMA OwnRead ==
    ASSUME Shape, provider # "claude", Far, Serve \/ Work \/ Asking \/ Finish, NEW m \in Msgs,
           ~Lacks(wire, OwnFrames(m))
    PROVE  ~Lacks(wire', OwnFrames(m)) \/ turns'[m] # 0 \/ ~Lacks(lines', Refusing(m))
<1>1. wire \in Seq(Frames) /\ lines \in Seq(Lines) /\ turns \in [Msgs -> 0..2]
  BY FarIs DEF Shape, UserShape
<1>2. wire # <<>> /\ wire' = Tail(wire) /\ Head(wire) \notin OwnFrames(m) => ~Lacks(wire', OwnFrames(m))
  BY <1>1, TailFacts
<1>3. CASE provider = "codex"
  <2>1. PICK new : CodexSays(new)
    BY <1>3, CodexFarSays
  <2>2. lines' = lines \o new /\ new \in Seq(Lines)
    BY <2>1 DEF CodexSays, Saying
  <2>3. \A S : ~Lacks(new, S) => ~Lacks(lines', S)
    BY <1>1, <2>2, LacksFacts
  <2> QED BY <1>2, <2>1, <2>3 DEF CodexSays, CodexReplies, Reading
<1>4. CASE provider = "cursor"
  <2>1. PICK new : CursorSays(new)
    BY <1>4, CursorFarSays
  <2>2. lines' = lines \o new /\ new \in Seq(Lines)
    BY <2>1 DEF CursorSays, Saying
  <2>3. CASE Aside
    <3>1. CASE wire' = wire
      BY <3>1
    <3>2. CASE Reading(Head(wire)) /\ Head(wire).is \notin {"prompt", "turn/start"}
      <4>1. wire # <<>> /\ wire' = Tail(wire) /\ Head(wire) \notin OwnFrames(m)
        BY <3>2 DEF Reading, OwnFrames
      <4> QED BY <1>2, <4>1
    <3> QED BY <2>3, <3>1, <3>2 DEF Aside
  <2>4. CASE CursorBegins(new)
    <3>1. PICK f \in Frames : Reading(f) /\ f.is = "prompt" /\ f.msgs \in Turn /\ Take(ToSet(f.msgs))
      BY <2>4 DEF CursorBegins
    <3>2. f \in OwnFrames(m) => turns'[m] # 0
      BY <1>1, <3>1, TakenTurns DEF OwnFrames
    <3> QED BY <1>2, <3>1, <3>2 DEF Reading
  <2>5. CASE CursorRefuses(new)
    <3>1. PICK f \in Frames : Reading(f) /\ f.is = "prompt" /\ f.msgs \in Turn /\ new = <<PromptReply(f.msgs, FALSE)>>
      BY <2>5 DEF CursorRefuses
    <3>2. f \in OwnFrames(m) => ~Lacks(new, Refusing(m))
      <4>1. f \in OwnFrames(m) => PromptReply(f.msgs, FALSE) \in Refusing(m)
        BY <3>1, LinesSaid DEF PromptReply, Refusing, OwnFrames
      <4> DEFINE y == PromptReply(f.msgs, FALSE)
      <4>2. new = <<y>> /\ (f \in OwnFrames(m) => y \in Refusing(m))
        BY <3>1, <4>1
      <4> HIDE DEF y
      <4>3. 1 \in DOMAIN new /\ new[1] = y
        BY <4>2
      <4> QED BY <4>2, <4>3 DEF Lacks
    <3>3. ~Lacks(new, Refusing(m)) => ~Lacks(lines', Refusing(m))
      BY <1>1, <2>2, LacksFacts
    <3> QED BY <1>2, <3>1, <3>2, <3>3 DEF Reading
  <2> QED BY <2>1, <2>3, <2>4, <2>5 DEF CursorSays, CursorQuiet, CursorStops
<1> QED BY <1>3, <1>4 DEF Shape, DriverShape

LEMMA AccFar ==
    ASSUME Shape, Far, Serve \/ Work \/ Asking \/ Finish, AllAccounted
    PROVE  AllAccounted'
<1>1. UNCHANGED <<provider, drv, todo, failures, steered>> /\ lines \in Seq(Lines)
  BY FarIs DEF userVars
<1> SUFFICES ASSUME provider # "claude", NEW m \in steered PROVE Accounted(m)'
  BY <1>1 DEF AllAccounted
<1>2. m \in Msgs /\ Shows' = Shows
  BY <1>1, DriverStays DEF Shape, UserShape
<1>3. ~Lacks(lines, Refusing(m)) => ~Lacks(lines', Refusing(m))
  <2>1. PICK new \in Seq(Lines) : lines' = lines \o new
    BY DEF Far, FarShape
  <2> QED BY <1>1, <2>1, LacksFacts
<1>4. Accounted(m)
  BY DEF AllAccounted
<1> QED BY <1>1, <1>2, <1>3, <1>4, TurnsGrow, OwnRead DEF Accounted

LEMMA AccRests ==
    ASSUME Resting, AllAccounted
    PROVE  AllAccounted'
<1>1. UNCHANGED <<provider, drv, todo, wire, lines, turns, failures, steered>>
  BY DEF Resting, Rests
<1>2. Shows' = Shows
  BY <1>1, DriverStays
<1> QED BY <1>1, <1>2 DEF AllAccounted, Accounted

-----------------------------------------------------------------------------
AccountInv == SessionInv /\ HandOK /\ EarlyOK /\ AllAccounted

LEMMA AccountStarts == Init => AccountInv
<1> SUFFICES ASSUME Init PROVE AccountInv
  OBVIOUS
<1>1. SessionInv /\ HandOK
  BY SessionStarts, HandStarts
<1>2. EarlyOK
  <2> SUFFICES ASSUME provider = "codex" PROVE EarlyOK
    BY DEF EarlyOK
  <2>1. todo = [t \in Threads |-> <<>>] /\ lines = <<>> /\ wire = <<[is |-> "init"]>> /\ drv = CodexNew
    BY DEF Init
  <2>2. \A t \in Threads : todo[t] = <<>>
    BY <2>1
  <2>3. [is |-> "init"] \notin TurnFrames
    BY DEF TurnFrames
  <2>4. Free(TurnFrames)
    BY <2>1, <2>2, <2>3 DEF Free, Clear, Lacks
  <2> QED BY <2>1, <2>4 DEF EarlyOK, Early, CodexNew, Lacks
<1>3. AllAccounted
  BY DEF Init, AllAccounted
<1> QED BY <1>1, <1>2, <1>3 DEF AccountInv

LEMMA AccountKept == AccountInv /\ [Next]_vars => AccountInv'
<1> SUFFICES ASSUME AccountInv, [Next]_vars PROVE AccountInv'
  OBVIOUS
<1>1. Shape /\ AsksOnce /\ HandOK /\ EarlyOK /\ AllAccounted
  BY DEF AccountInv, SessionInv
<1>2. SessionInv' /\ HandOK'
  BY <1>1, SessionKept, HandKept DEF AccountInv
<1>3. \/ \E t, new, steps : Calling(t, new, steps)
      \/ \E steps : Hearing(steps)
      \/ \E t \in Threads : Acting(t)
      \/ Far /\ (Serve \/ Work \/ Asking \/ Finish)
      \/ Resting
  BY <1>1, StepGoes
<1>4. EarlyOK'
  BY <1>1, <1>3, EarlyCalling, EarlyHearing, EarlyActing, EarlyFar, EarlyRests
<1>5. AllAccounted'
  BY <1>1, <1>3, AccCalling, AccHearing, AccActing, AccFar, AccRests
<1> QED BY <1>2, <1>4, <1>5 DEF AccountInv

\* Only the reader thread, with a line, decides that a turn is finished.
LEMMA Deciding ==
    ASSUME AccountInv, [Next]_vars, provider # "claude", Decides(Finished), NEW m \in steered
    PROVE  turns[m] > 0 \/ failures \/ OwnTurn(m)
<1>1. Shape /\ AsksOnce /\ Accounted(m)
  BY DEF AccountInv, SessionInv, AllAccounted
<1>2. \/ \E t, new, steps : Calling(t, new, steps)
      \/ \E steps : Hearing(steps)
      \/ \E t \in Threads : Acting(t)
      \/ Far /\ (Serve \/ Work \/ Asking \/ Finish)
      \/ Resting
  BY <1>1, StepGoes
<1>3. todo["reader"] = <<>> /\ ~Lacks(todo'["reader"], {Finished})
  BY DEF Decides, ToSet, Lacks
<1>4. Lacks(todo["reader"], {Finished}) /\ todo'["reader"] # todo["reader"]
  BY <1>3 DEF Lacks
<1>5. PICK steps : Hearing(steps)
  <2>1. ASSUME NEW t, NEW new, NEW steps, Calling(t, new, steps) PROVE FALSE
    BY <1>1, <1>4, <2>1, CallIs, ReaderIsNoCaller
  <2>2. ASSUME NEW t \in Threads, Acting(t) PROVE FALSE
    BY <1>1, <1>3, <1>4, <2>2, ActIs, ReaderIsNoCaller
  <2>3. CASE Far
    BY <1>1, <1>4, <2>3, FarIs
  <2>4. CASE Resting
    BY <1>4, <2>4 DEF Resting, Rests
  <2> QED BY <1>2, <2>1, <2>2, <2>3, <2>4
<1>6. ~Lacks(steps, {Finished})
  BY <1>1, <1>3, <1>5, HearIs
<1>7. m \notin Shows
  <2> DEFINE r == [drv |-> drv', steps |-> steps]
  <2>1. r.steps = steps
    OBVIOUS
  <2>2. CASE provider = "codex"
    <3>1. KeptHears(drv, r, Head(lines))
      BY <1>5, <2>2 DEF Hearing, HearsSo, CodexHears
    <3> HIDE DEF r
    <3> QED BY <1>6, <2>1, <2>2, <3>1 DEF KeptHears, Shows
  <2>3. CASE provider = "cursor"
    <3>1. CursorHears(drv, r, Head(lines))
      BY <1>5, <2>3 DEF Hearing, HearsSo
    <3> HIDE DEF r
    <3>2. drv.carried = <<>>
      BY <1>6, <2>1, <3>1 DEF CursorHears
    <3> QED BY <2>3, <3>2, MembersFacts DEF Shows
  <2> QED BY <1>1, <2>2, <2>3 DEF Shape, DriverShape
<1>8. /\ Lacks(todo["reader"], {Failed}) /\ Lacks(todo["reader"], Writing(OwnFrames(m)))
  BY <1>3 DEF Lacks
<1>9. turns[m] # 0 \/ failures \/ ~Lacks(wire, OwnFrames(m)) \/ ~Lacks(lines, Refusing(m))
  BY <1>1, <1>7, <1>8 DEF Accounted
<1>10. CASE turns[m] # 0
  <2>1. turns[m] \in 0..2
    BY <1>1 DEF Shape, UserShape
  <2> QED BY <1>10, <2>1
<1>11. ~Lacks(wire, OwnFrames(m)) \/ ~Lacks(lines, Refusing(m)) => OwnTurn(m)
  BY DEF Lacks, OwnFrames, Refusing, OwnTurn
<1> QED BY <1>9, <1>10, <1>11

(* When a driver of Codex or Cursor decides that a turn is finished, every *)
(* message that joined one has been read, or has failed on screen, or has  *)
(* its own turn ahead: for any number of messages.                         *)
THEOREM FinishesHold == Spec => FinishHoldsElsewhere
<1>1. AccountInv /\ [Next]_vars
         => [(provider # "claude" /\ Decides(Finished))
               => \A m \in steered : turns[m] > 0 \/ failures \/ OwnTurn(m)]_vars
  BY Deciding
<1> QED BY <1>1, AccountStarts, AccountKept, PTL DEF Spec, FinishHoldsElsewhere

-----------------------------------------------------------------------------
(* What is on its way stays so until it is read, as long as there is a      *)
(* process to read it.                                                      *)

LEMMA StillMoves ==
    ASSUME WayShape, NEW t \in Threads, NEW steps, todo[t] = <<>>,
           todo' = [todo EXCEPT ![t] = steps], wire' = wire,
           NEW F, ~Free(F) \/ ~Lacks(steps, Writing(F))
    PROVE  ~Free(F)'
<1>1. todo'[t] = steps /\ \A u \in Threads \ {t} : todo'[u] = todo[u]
  BY DEF WayShape
<1>2. Lacks(todo[t], Writing(F))
  BY DEF Lacks
<1>3. Free(F)' => /\ \A u \in Threads : Lacks(todo'[u], Writing(F))
                  /\ Lacks(wire', F)
  BY DEF Free, Clear, Writing
<1> QED BY <1>1, <1>2, <1>3 DEF Free, Clear

LEMMA StillActs ==
    ASSUME Shape, alive, NEW t \in Threads, Acting(t), NEW F, ~Free(F)
    PROVE  ~Free(F)'
<1> DEFINE x == Head(todo[t])
<1>1. /\ todo[t] # <<>> /\ todo[t] \in Seq(Steps) /\ x \in Steps /\ wire \in Seq(Frames)
      /\ \A u \in Threads \ {t} : todo'[u] = todo[u]
      /\ todo'[t] = Tail(todo[t])
      /\ wire' = wire \/ (wire' = Append(wire, x.it) /\ x.do = "write")
      /\ x.do = "write" => wire' = Append(wire, x.it)
  BY ActIs DEF Shape, WayShape
<1>2. \A S : ~Lacks(todo[t], S) => ~Lacks(todo'[t], S) \/ x \in S
  BY <1>1, TailFacts
<1>3. x.do = "write" => x.it \in Frames
  BY <1>1, StepFields DEF Write, Emit
<1> HIDE DEF x
<1>4. ~Lacks(wire, F) => ~Lacks(wire', F)
  BY <1>1, <1>3, AppendFacts
<1>5. ASSUME x \in Writing(F) PROVE ~Lacks(wire', F)
  <2>1. x.do = "write" /\ x.it \in F
    BY <1>5 DEF Writing
  <2>2. x.it \in Frames /\ wire' = Append(wire, x.it)
    BY <1>1, <1>3, <2>1
  <2>3. ~Lacks(Append(wire, x.it), F)
    BY <1>1, <2>1, <2>2, AppendFacts
  <2> QED BY <2>2, <2>3
<1>6. Free(F)' => /\ \A u \in Threads : Lacks(todo'[u], Writing(F))
                  /\ Lacks(wire', F)
  BY DEF Free, Clear, Writing
<1> QED BY <1>1, <1>2, <1>4, <1>5, <1>6 DEF Free, Clear

LEMMA StillFar ==
    ASSUME Shape, Far, NEW F, ~Free(F)
    PROVE  ~Free(F)' \/ (Reading(Head(wire)) /\ Head(wire) \in F)
<1>1. todo' = todo /\ wire \in Seq(Frames) /\ (wire' = wire \/ (wire # <<>> /\ wire' = Tail(wire)))
  BY FarIs
<1>2. Free(F)' => /\ \A u \in Threads : Lacks(todo[u], Writing(F))
                  /\ Lacks(wire', F)
  BY <1>1 DEF Free, Clear, Writing
<1>3. wire # <<>> /\ wire' = Tail(wire) /\ ~Lacks(wire, F) => ~Lacks(wire', F) \/ Head(wire) \in F
  BY <1>1, TailFacts
<1> QED BY <1>1, <1>2, <1>3 DEF Free, Clear, Reading

LEMMA StillRests ==
    ASSUME Resting, NEW F, ~Free(F)
    PROVE  ~Free(F)'
  BY FreeRests DEF Resting

\* What a step of a thread shows.
LEMMA ActShows ==
    ASSUME Shape, alive, NEW t \in Threads, Acting(t)
    PROVE  LET x == Head(todo[t])
           IN  /\ working' <=> x = Started \/ (working /\ x \notin Endings)
               /\ owed' = IF x \in Endings THEN {} ELSE owed
               /\ \A m \in Msgs : x = Echo(m) \/ echoed[m] # 0 => echoed'[m] # 0
<1> DEFINE x == Head(todo[t])
<1>1. x \in Steps /\ echoed \in [Msgs -> 0..2] /\ working \in BOOLEAN
  BY ActIs DEF Shape, UserShape
<1>2. CASE WriteStep(t)
  <2>1. x.do = "write" /\ UNCHANGED <<echoed, working, owed>>
    BY <1>2 DEF WriteStep, userVars
  <2>2. Started.do = "emit" /\ Finished.do = "emit" /\ Failed.do = "emit" /\ \A m : Echo(m).do = "emit"
    BY DEF Started, Finished, Failed, Echo, Emit
  <2> HIDE DEF x
  <2> QED BY <2>1, <2>2 DEF Endings, x
<1>3. CASE EmitStep(t)
  <2>1. x.do = "emit" /\ Show(x.it)
    BY <1>3 DEF EmitStep
  <2>2. x = Emit(x.it) /\ x.it \in Events
    BY <1>1, <2>1, StepFields DEF Write
  <2> DEFINE e == x.it
  <2>3. x = Started <=> e.is = "started"
    BY <2>2 DEF Started, Emit, Events
  <2>4. x \in Endings <=> e.is \in {"finished", "failed"}
    BY <2>2 DEF Endings, Finished, Failed, Emit, Events
  <2>5. \A m \in Msgs : x = Echo(m) => e.is = "echo" /\ e.msg = m
    BY <2>2 DEF Echo, Emit
  <2>6. e.is = "echo" => e.msg \in Msgs
    BY <2>2, EventFields
  <2> HIDE DEF x
  <2>7. working' <=> e.is = "started" \/ (working /\ e.is \notin {"finished", "failed"})
    BY <1>1, <2>1 DEF Show
  <2>8. owed' = IF e.is \in {"finished", "failed"} THEN {} ELSE owed
    BY <2>1 DEF Show
  <2>9. \A m \in Msgs : (e.is = "echo" /\ e.msg = m) \/ echoed[m] # 0 => echoed'[m] # 0
    BY <1>1, <2>1 DEF Show, Once
  <2>10. working' <=> x = Started \/ (working /\ x \notin Endings)
    BY <2>3, <2>4, <2>7
  <2>11. owed' = IF x \in Endings THEN {} ELSE owed
    BY <2>4, <2>8
  <2>12. \A m \in Msgs : x = Echo(m) \/ echoed[m] # 0 => echoed'[m] # 0
    BY <2>5, <2>9
  <2> QED BY <2>10, <2>11, <2>12 DEF x
<1>4. ~BrokenPipe(t)
  BY DEF BrokenPipe
<1> QED BY <1>2, <1>3, <1>4 DEF Acting

\* An ending that the reader thread is about to show.
Due == ~Lacks(todo["reader"], Endings)

LEMMA DueActs ==
    ASSUME Shape, alive, NEW t \in Threads, Acting(t)
    PROVE  /\ Due => Due' \/ (~working' /\ owed' = {})
           /\ \A S : ~Lacks(todo'["reader"], S) => ~Lacks(todo["reader"], S)
           /\ \A S : ~Lacks(todo["reader"], S) =>
                        ~Lacks(todo'["reader"], S) \/ (t = "reader" /\ Head(todo[t]) \in S)
<1>1. /\ todo[t] # <<>> /\ todo[t] \in Seq(Steps)
      /\ \A u \in Threads \ {t} : todo'[u] = todo[u]
      /\ todo'[t] = Tail(todo[t])
  BY ActIs
<1>2. t # "reader" => todo'["reader"] = todo["reader"]
  BY <1>1, ReaderIsNoCaller
<1>3. \A S : ~Lacks(todo'[t], S) => ~Lacks(todo[t], S)
  BY <1>1, TailFacts
<1>4. \A S : ~Lacks(todo[t], S) => ~Lacks(todo'[t], S) \/ Head(todo[t]) \in S
  BY <1>1, TailFacts
<1>5. Head(todo[t]) \in Endings => ~working' /\ owed' = {}
  <2>1. Started \notin Endings
    BY OfKind
  <2> QED BY <2>1, ActShows
<1>6. \A S : ~Lacks(todo'["reader"], S) => ~Lacks(todo["reader"], S)
  BY <1>2, <1>3
<1>7. \A S : ~Lacks(todo["reader"], S) =>
                ~Lacks(todo'["reader"], S) \/ (t = "reader" /\ Head(todo[t]) \in S)
  BY <1>2, <1>4
<1>8. Due => Due' \/ (~working' /\ owed' = {})
  BY <1>5, <1>7 DEF Due, Endings
<1> QED BY <1>6, <1>7, <1>8

-----------------------------------------------------------------------------
(* A steered message is held to be shown, about to be, or shown.            *)

EchoesGo == alive => \A m \in steered : m \in Shows \/ ~NoEcho(m) \/ echoed[m] # 0

LEMMA EchoesMove ==
    ASSUME WayShape, NEW t \in Threads, NEW steps, NEW new, NEW back, NEW asks,
           DriverMoves(t, steps, new, back, asks), todo[t] = <<>>,
           NEW m \in Msgs, m \in Shows \cup new \/ ~NoEcho(m)
    PROVE  m \in Shows' \/ ~NoEcho(m)'
<1>1. PICK e, p, q : Bears(steps, e, p, q) /\ Moved(e, Shows \cup new, Shows')
  BY DEF DriverMoves, Deals
<1>2. todo'[t] = steps /\ \A u \in Threads \ {t} : todo'[u] = todo[u]
  BY DEF WayShape, DriverMoves
<1>3. m \in e => ~Lacks(steps, EchoOf(m))
  BY <1>1 DEF Bears
<1>4. m \in Shows \cup new => m \in e \/ m \in Shows'
  BY <1>1 DEF Moved
<1>5. Lacks(todo[t], EchoOf(m))
  BY DEF Lacks
<1>6. NoEcho(m)' => \A u \in Threads : Lacks(todo'[u], EchoOf(m))
  BY DEF NoEcho, Clear
<1>7. ~NoEcho(m) => \E u \in Threads : ~Lacks(todo[u], EchoOf(m))
  BY DEF NoEcho, Clear, Lacks
<1> QED BY <1>2, <1>3, <1>4, <1>5, <1>6, <1>7

LEMMA EchoesCalling ==
    ASSUME Shape, EchoesGo, NEW t, NEW new, NEW steps, Calling(t, new, steps)
    PROVE  EchoesGo'
<1>1. /\ t \in Threads /\ todo[t] = <<>> /\ WayShape /\ alive' = alive /\ echoed' = echoed
      /\ new \subseteq Msgs /\ DriverMoves(t, steps, new, {}, {})
  BY CallIs
<1>2. steered' \subseteq steered \cup new /\ steered \subseteq Msgs
  BY DEF Calling, Shape, UserShape
<1> SUFFICES ASSUME alive', NEW m \in steered' PROVE m \in Shows' \/ ~NoEcho(m)' \/ echoed'[m] # 0
  BY DEF EchoesGo, NoEcho
<1>3. m \in Shows \cup new \/ ~NoEcho(m) \/ echoed[m] # 0
  BY <1>1, <1>2 DEF EchoesGo
<1> QED BY <1>1, <1>2, <1>3, EchoesMove

LEMMA EchoesHearing ==
    ASSUME Shape, EchoesGo, NEW steps, Hearing(steps)
    PROVE  EchoesGo'
<1>1. /\ "reader" \in Threads /\ todo["reader"] = <<>> /\ WayShape /\ UNCHANGED <<alive, echoed, steered>>
      /\ DriverMoves("reader", steps, {}, Back(Head(lines)), NewAsks(Head(lines)))
  BY HearIs DEF userVars
<1> SUFFICES ASSUME alive', NEW m \in steered' PROVE m \in Shows' \/ ~NoEcho(m)' \/ echoed'[m] # 0
  BY DEF EchoesGo, NoEcho
<1>2. m \in Msgs /\ (m \in Shows \cup {} \/ ~NoEcho(m) \/ echoed[m] # 0)
  BY <1>1 DEF EchoesGo, Shape, UserShape
<1> QED BY <1>1, <1>2, EchoesMove

LEMMA EchoesActing ==
    ASSUME Shape, EchoesGo, NEW t \in Threads, Acting(t)
    PROVE  EchoesGo'
<1>1. /\ UNCHANGED <<provider, drv, alive, steered>>
      /\ todo[t] # <<>> /\ todo[t] \in Seq(Steps)
      /\ \A u \in Threads \ {t} : todo'[u] = todo[u]
      /\ alive => todo'[t] = Tail(todo[t])
  BY ActIs
<1>2. Shows' = Shows
  BY <1>1, DriverStays
<1> SUFFICES ASSUME alive, NEW m \in steered PROVE m \in Shows \/ ~NoEcho(m)' \/ echoed'[m] # 0
  BY <1>1, <1>2 DEF EchoesGo, NoEcho
<1>3. m \in Msgs /\ (m \in Shows \/ ~NoEcho(m) \/ echoed[m] # 0)
  BY DEF EchoesGo, Shape, UserShape
<1>4. Head(todo[t]) = Echo(m) \/ echoed[m] # 0 => echoed'[m] # 0
  BY <1>3, ActShows
<1>5. ~Lacks(todo[t], EchoOf(m)) => ~Lacks(todo'[t], EchoOf(m)) \/ Head(todo[t]) = Echo(m)
  <2>1. Head(todo[t]) \in EchoOf(m) => Head(todo[t]) = Echo(m)
    BY DEF EchoOf
  <2> QED BY <1>1, <2>1, TailFacts
<1>6. NoEcho(m)' => \A u \in Threads : Lacks(todo'[u], EchoOf(m))
  BY DEF NoEcho, Clear
<1>7. ~NoEcho(m) => \E u \in Threads : ~Lacks(todo[u], EchoOf(m))
  BY DEF NoEcho, Clear, Lacks
<1> QED BY <1>1, <1>3, <1>4, <1>5, <1>6, <1>7

LEMMA EchoesFar ==
    ASSUME Shape, EchoesGo, Far
    PROVE  EchoesGo'
<1>1. UNCHANGED <<provider, drv, todo, alive, echoed, steered>>
  BY FarIs DEF userVars
<1>2. Shows' = Shows
  BY <1>1, DriverStays
<1>3. \A m : NoEcho(m) <=> \A u \in Threads : Lacks(todo[u], EchoOf(m))
  BY DEF NoEcho, Clear, Lacks
<1>4. \A m : NoEcho(m)' => \A u \in Threads : Lacks(todo'[u], EchoOf(m))
  BY DEF NoEcho, Clear
<1> QED BY <1>1, <1>2, <1>3, <1>4 DEF EchoesGo

LEMMA EchoesRests ==
    ASSUME EchoesGo, Resting
    PROVE  EchoesGo'
<1>1. UNCHANGED <<provider, drv, todo, wire, echoed, steered>> /\ (alive' => alive)
  BY DEF Resting, Rests
<1>2. Shows' = Shows
  BY <1>1, DriverStays
<1> QED BY <1>1, <1>2 DEF EchoesGo, NoEcho, Clear

LEMMA EchoesKept ==
    ASSUME Shape, AsksOnce, [Next]_vars, EchoesGo
    PROVE  EchoesGo'
<1>1. \/ \E t, new, steps : Calling(t, new, steps)
      \/ \E steps : Hearing(steps)
      \/ \E t \in Threads : Acting(t)
      \/ Far /\ (Serve \/ Work \/ Asking \/ Finish)
      \/ Resting
  BY StepGoes
<1> QED BY <1>1, EchoesCalling, EchoesHearing, EchoesActing, EchoesFar, EchoesRests

-----------------------------------------------------------------------------
(* A Codex session that is at rest: what the driver takes for under way is  *)
(* under way, and what it owes is ahead.                                    *)

\* A steer that was answered is held while a turn is active, and no longer.
AnswersHeld == drv.steers \ drv.unanswered # {} => drv.active # None
\* The end of every turn that the app server does not run has been told.
EndsTold ==
    cli.turn = None =>
        /\ drv.active # None => ~Lacks(lines, Completions)
        /\ Followed(lines, Opening, Completions)
\* What is waited for has been asked for.
SteersAsked ==
    alive => \A m \in drv.steers \cap drv.unanswered :
                ~Free(SteerFrames(m)) \/ m \in cli.acks \/ ~Lacks(lines, SteerLines(m))
StartsAsked ==
    alive => \A T \in Turn : drv.startId = T => ~Free({TurnStart(T)}) \/ ~Lacks(lines, Starts(T))
\* The pane shows a turn, or owes an ending, only when one is to come.
RunsBusy ==
    /\ ~Lacks(todo["reader"], {Started}) => Busy(drv)
    /\ alive /\ working => Busy(drv) \/ Due
OwesBusy ==
    alive /\ owed # {} =>
        Busy(drv) \/ Due \/ ~Free(TurnFrames) \/ ~Lacks(lines, News) \/ drv.queued # <<>>
QueueSent == drv.phase = "ready" => drv.queued = <<>>
CallersMute == \A t \in Callers : Lacks(todo[t], {Started, Finished, Failed})

CodexRest ==
    /\ AnswersHeld /\ EndsTold /\ SteersAsked /\ StartsAsked
    /\ RunsBusy /\ OwesBusy /\ QueueSent /\ CallersMute

LEMMA CodexRestCalling ==
    ASSUME Shape, provider = "codex", CodexRest, NEW t, NEW new, NEW steps, Calling(t, new, steps)
    PROVE  CodexRest'
<1> DEFINE r == [drv |-> drv', steps |-> steps]
<1>1. /\ t \in Threads /\ t # "reader" /\ todo[t] = <<>> /\ WayShape
      /\ todo' = [todo EXCEPT ![t] = steps]
      /\ todo'[t] = steps /\ \A u \in Threads \ {t} : todo'[u] = todo[u]
      /\ UNCHANGED <<wire, lines, alive, cli, working>>
  BY CallIs
<1>2. CodexTold(drv, r, new) /\ owed' = owed \cup new
  BY DEF Calling, ToldSo
<1>3. r.drv = drv' /\ r.steps = steps
  OBVIOUS
<1> HIDE DEF r
<1>4. None \notin Turn
  BY SteerFacts
<1>5. ASSUME NEW F, ~Free(F) \/ ~Lacks(steps, Writing(F)) PROVE ~Free(F)'
  BY <1>1, <1>5, StillMoves
<1>6. todo'["reader"] = todo["reader"] /\ Callers \subseteq Threads
  BY <1>1, ReaderIsNoCaller
<1>7. Due' = Due
  BY <1>6 DEF Due, Endings
<1>8. Busy(drv) => Busy(drv')
  <2>1. drv'.active = drv.active
    BY <1>2, <1>3 DEF CodexTold
  <2>2. drv.startId # None => drv'.startId # None
    BY <1>2, <1>3, <1>4 DEF CodexTold
  <2>3. drv.steers \cap drv.unanswered \subseteq drv'.steers \cap drv'.unanswered
    BY <1>2, <1>3 DEF CodexTold
  <2> QED BY <2>1, <2>2, <2>3 DEF Busy
<1>9. AnswersHeld'
  BY <1>2, <1>3 DEF CodexTold, CodexRest, AnswersHeld
<1>10. EndsTold'
  BY <1>1, <1>2, <1>3 DEF CodexTold, CodexRest, EndsTold
<1>11. SteersAsked'
  <2> SUFFICES ASSUME alive', NEW m \in drv'.steers \cap drv'.unanswered
               PROVE  ~Free(SteerFrames(m))' \/ m \in cli'.acks \/ ~Lacks(lines', SteerLines(m))
    BY DEF SteersAsked, SteerFrames, Free
  <2>1. m \in drv.steers \cap drv.unanswered \/ ~Lacks(steps, Writing(SteerFrames(m)))
    BY <1>2, <1>3 DEF CodexTold
  <2>2. m \in drv.steers \cap drv.unanswered =>
            ~Free(SteerFrames(m)) \/ m \in cli.acks \/ ~Lacks(lines, SteerLines(m))
    BY <1>1 DEF CodexRest, SteersAsked
  <2> QED BY <1>1, <1>5, <2>1, <2>2
<1>12. StartsAsked'
  <2> SUFFICES ASSUME alive', NEW T \in Turn, drv'.startId = T
               PROVE  ~Free({TurnStart(T)})' \/ ~Lacks(lines', Starts(T))
    BY DEF StartsAsked, Free
  <2>1. drv.startId = T \/ ~Lacks(steps, Writing({TurnStart(T)}))
    BY <1>2, <1>3 DEF CodexTold
  <2>2. drv.startId = T => ~Free({TurnStart(T)}) \/ ~Lacks(lines, Starts(T))
    BY <1>1 DEF CodexRest, StartsAsked
  <2> QED BY <1>1, <1>5, <2>1, <2>2
<1>13. RunsBusy'
  BY <1>1, <1>6, <1>7, <1>8 DEF CodexRest, RunsBusy
<1>14. OwesBusy'
  <2> SUFFICES ASSUME alive', owed' # {}
               PROVE  Busy(drv') \/ Due' \/ ~Free(TurnFrames)' \/ ~Lacks(lines', News) \/ drv'.queued # <<>>
    BY DEF OwesBusy
  <2>1. CASE owed # {}
    <3>1. Busy(drv) \/ Due \/ ~Free(TurnFrames) \/ ~Lacks(lines, News) \/ drv.queued # <<>>
      BY <1>1, <2>1 DEF CodexRest, OwesBusy
    <3>2. drv.queued # <<>> => drv'.queued # <<>>
      BY <1>2, <1>3 DEF CodexTold
    <3>3. ~Free(TurnFrames) => ~Free(TurnFrames)'
      BY <1>5
    <3> QED BY <1>1, <1>7, <1>8, <3>1, <3>2, <3>3
  <2>2. CASE new # {}
    <3>1. Busy(drv') \/ drv'.queued # <<>> \/ ~Lacks(steps, Writing(TurnFrames))
      BY <1>2, <1>3, <2>2 DEF CodexTold
    <3>2. ~Lacks(steps, Writing(TurnFrames)) => ~Free(TurnFrames)'
      BY <1>5
    <3> QED BY <3>1, <3>2
  <2> QED BY <1>2, <2>1, <2>2
<1>15. QueueSent'
  BY <1>2, <1>3 DEF CodexTold, CodexRest, QueueSent
<1>16. CallersMute'
  <2>1. Lacks(steps, {Started, Finished, Failed})
    BY <1>2, <1>3 DEF CodexTold
  <2> QED BY <1>1, <1>6, <2>1 DEF CodexRest, CallersMute
<1> QED BY <1>9, <1>10, <1>11, <1>12, <1>13, <1>14, <1>15, <1>16 DEF CodexRest

LEMMA CodexRestHearing ==
    ASSUME Shape, provider = "codex", CodexRest, CodexPlace, EarlyOK, NEW steps, Hearing(steps)
    PROVE  CodexRest'
<1> DEFINE line == Head(lines)
           r == [drv |-> drv', steps |-> steps]
<1>1. /\ "reader" \in Threads /\ todo["reader"] = <<>> /\ WayShape
      /\ todo' = [todo EXCEPT !["reader"] = steps]
      /\ todo'["reader"] = steps /\ \A u \in Threads \ {"reader"} : todo'[u] = todo[u]
      /\ lines \in Seq(Lines) /\ lines # <<>> /\ lines' = Tail(lines) /\ line \in Lines
      /\ UNCHANGED <<wire, alive, cli, turns, working, owed>>
  BY HearIs DEF userVars
<1>2. SteerHears(drv, r, line) /\ StartHears(drv, r, line) /\ BusyHears(drv, r, line)
  BY DEF Hearing, HearsSo, CodexHears
<1>3. r.drv = drv' /\ r.steps = steps
  OBVIOUS
<1>4. /\ drv'.active # drv.active => \/ line \in Completions /\ drv'.active = None
                                     \/ line \in Opening /\ drv'.active = line.turn
  <2>1. LineDoes(drv, r, line)
    BY DEF Hearing, Heard, LineFits
  <2> HIDE DEF r
  <2> QED BY <1>3, <2>1 DEF LineDoes
<1> HIDE DEF r
<1>5. None \notin Turn /\ drv'.startId \in Turn \cup {None}
  <2>1. drv' \in CodexDrv
    BY <1>1 DEF Hearing, Heard, DriverMoves, DriverShape
  <2> QED BY <2>1, SteerFacts, CodexFields
<1>6. ASSUME NEW F, ~Free(F) \/ ~Lacks(steps, Writing(F)) PROVE ~Free(F)'
  BY <1>1, <1>6, StillMoves
<1>7. \A S : ~Lacks(lines, S) => ~Lacks(lines', S) \/ line \in S
  BY <1>1, TailFacts
<1>8. ~Due /\ Lacks(todo["reader"], {Started})
  BY <1>1 DEF Due, Lacks
<1>9. Due' <=> ~Lacks(steps, Endings)
  BY <1>1 DEF Due, Endings
<1>10. Busy(drv) => Busy(drv') \/ Due'
  <2>1. ASSUME drv.active = None, line.is = "item", line.msg \in drv.steers PROVE FALSE
    <3>1. line.msg \in Msgs /\ line = Item(line.msg)
      <4>1. line.msg \in Msgs
        BY <1>1, <2>1, LineFields
      <4>2. line = Item(line.msg)
        BY <1>1, <2>1 DEF Lines, Item
      <4> QED BY <4>1, <4>2
    <3> DEFINE m == line.msg
    <3>2. ~Lacks(lines, {Item(m)})
      BY <1>1, <3>1, TailFacts
    <3> HIDE DEF m
    <3>3. m \in Msgs /\ m \in drv.steers
      BY <2>1, <3>1 DEF m
    <3>4. turns[m] # 0
      BY <3>2, <3>3 DEF EarlyOK
    <3>5. SteerHeld(m)
      BY <3>3 DEF CodexPlace, SteerPlace
    <3> QED BY <2>1, <3>3, <3>4, <3>5 DEF SteerHeld
  <2>2. Busy(drv) => \/ Busy(drv') \/ ~Lacks(steps, Endings)
                     \/ drv.active = None /\ line.is = "item" /\ line.msg \in drv.steers
    BY <1>2, <1>3 DEF BusyHears
  <2> QED BY <1>9, <2>1, <2>2
<1>11. AnswersHeld'
  BY <1>2, <1>3 DEF SteerHears, CodexRest, AnswersHeld
<1>12. EndsTold'
  <2> SUFFICES ASSUME cli.turn = None
               PROVE  /\ drv'.active # None => ~Lacks(lines', Completions)
                      /\ Followed(lines', Opening, Completions)
    BY <1>1 DEF EndsTold
  <2>1. /\ drv.active # None => ~Lacks(lines, Completions)
        /\ Followed(lines, Opening, Completions)
    BY DEF CodexRest, EndsTold
  <2>2. Opening \cap Completions = {}
    BY DEF Opening, Completions
  <2>3. Followed(lines', Opening, Completions) /\ (line \in Opening => ~Lacks(lines', Completions))
    BY <1>1, <2>1, <2>2, FollowedTail
  <2>4. line \in Completions => drv'.active = None
    BY <1>2, <1>3 DEF SteerHears, Completions
  <2>5. drv'.active # None => ~Lacks(lines', Completions)
    BY <1>4, <1>7, <2>1, <2>3, <2>4
  <2> QED BY <2>3, <2>5
<1>13. SteersAsked'
  <2> SUFFICES ASSUME alive', NEW m \in drv'.steers \cap drv'.unanswered
               PROVE  ~Free(SteerFrames(m))' \/ m \in cli'.acks \/ ~Lacks(lines', SteerLines(m))
    BY DEF SteersAsked, SteerFrames, Free
  <2>1. m \in drv.steers \cap drv.unanswered /\ line \notin SteerLines(m)
    BY <1>2, <1>3 DEF SteerHears, SteerLines
  <2>2. ~Free(SteerFrames(m)) \/ m \in cli.acks \/ ~Lacks(lines, SteerLines(m))
    BY <1>1, <2>1 DEF CodexRest, SteersAsked
  <2> QED BY <1>1, <1>6, <1>7, <2>1, <2>2
<1>14. StartsAsked'
  <2> SUFFICES ASSUME alive', NEW T \in Turn, drv'.startId = T
               PROVE  ~Free({TurnStart(T)})' \/ ~Lacks(lines', Starts(T))
    BY DEF StartsAsked, Free
  <2>1. \/ drv.startId = T /\ line \notin Starts(T)
        \/ ~Lacks(steps, Writing({TurnStart(T)}))
    BY <1>2, <1>3, <1>5 DEF StartHears, Starts
  <2>2. drv.startId = T => ~Free({TurnStart(T)}) \/ ~Lacks(lines, Starts(T))
    BY <1>1 DEF CodexRest, StartsAsked
  <2> QED BY <1>6, <1>7, <2>1, <2>2
<1>15. RunsBusy'
  <2>1. ~Lacks(steps, {Started}) => Busy(drv')
    BY <1>2, <1>3 DEF BusyHears
  <2>2. alive /\ working => Busy(drv)
    BY <1>8 DEF CodexRest, RunsBusy
  <2> QED BY <1>1, <1>10, <2>1, <2>2 DEF RunsBusy
<1>16. OwesBusy'
  <2> SUFFICES ASSUME alive', owed' # {}
               PROVE  Busy(drv') \/ Due' \/ ~Free(TurnFrames)' \/ ~Lacks(lines', News) \/ drv'.queued # <<>>
    BY DEF OwesBusy
  <2>1. Busy(drv) \/ ~Free(TurnFrames) \/ ~Lacks(lines, News) \/ drv.queued # <<>>
    BY <1>1, <1>8 DEF CodexRest, OwesBusy
  <2>2. line \in News => Busy(drv') \/ Due'
    BY <1>2, <1>3, <1>9 DEF BusyHears, News
  <2>3. drv.queued # <<>> => drv'.queued # <<>> \/ Busy(drv')
    BY <1>2, <1>3 DEF BusyHears
  <2>4. ~Free(TurnFrames) => ~Free(TurnFrames)'
    BY <1>6
  <2> QED BY <1>7, <1>10, <2>1, <2>2, <2>3, <2>4
<1>17. QueueSent'
  BY <1>2, <1>3 DEF BusyHears, CodexRest, QueueSent
<1>18. CallersMute'
  BY <1>1, ReaderIsNoCaller DEF CodexRest, CallersMute
<1> QED BY <1>11, <1>12, <1>13, <1>14, <1>15, <1>16, <1>17, <1>18 DEF CodexRest

\* What a thread has still to apply only gets less.
LEMMA ActsLess ==
    ASSUME Shape, NEW t \in Threads, Acting(t)
    PROVE  \A S : \A u \in Threads : Lacks(todo[u], S) => Lacks(todo'[u], S)
<1>1. /\ todo[t] # <<>> /\ todo[t] \in Seq(Steps)
      /\ \A u \in Threads \ {t} : todo'[u] = todo[u]
      /\ todo'[t] \in {<<>>, Tail(todo[t])}
  BY ActIs
<1>2. \A S : Lacks(todo[t], S) => Lacks(todo'[t], S)
  <2> SUFFICES ASSUME NEW S, Lacks(todo[t], S) PROVE Lacks(todo'[t], S)
    OBVIOUS
  <2>1. Lacks(<<>>, S)
    BY DEF Lacks
  <2>2. Lacks(Tail(todo[t]), S)
    BY <1>1, TailFacts
  <2> QED BY <1>1, <2>1, <2>2
<1> QED BY <1>1, <1>2

LEMMA CodexRestActing ==
    ASSUME Shape, provider = "codex", CodexRest, NEW t \in Threads, Acting(t)
    PROVE  CodexRest'
<1> DEFINE x == Head(todo[t])
<1>1. /\ UNCHANGED <<drv, lines, alive, cli>> /\ Callers \subseteq Threads
      /\ todo[t] # <<>> /\ todo[t] \in Seq(Steps)
  BY ActIs, ReaderIsNoCaller
<1>2. \A S : \A u \in Threads : Lacks(todo[u], S) => Lacks(todo'[u], S)
  BY ActsLess
<1>3. AnswersHeld' /\ EndsTold' /\ QueueSent'
  BY <1>1 DEF CodexRest, AnswersHeld, EndsTold, QueueSent
<1>4. CallersMute'
  BY <1>1, <1>2 DEF CodexRest, CallersMute
<1>5. ASSUME alive, NEW F, ~Free(F) PROVE ~Free(F)'
  BY <1>5, StillActs
<1>6. SteersAsked'
  <2> SUFFICES ASSUME alive, NEW m \in drv.steers \cap drv.unanswered
               PROVE  ~Free(SteerFrames(m))' \/ m \in cli.acks \/ ~Lacks(lines, SteerLines(m))
    BY <1>1 DEF SteersAsked, SteerFrames, Free
  <2>1. ~Free(SteerFrames(m)) \/ m \in cli.acks \/ ~Lacks(lines, SteerLines(m))
    BY DEF CodexRest, SteersAsked
  <2> QED BY <1>5, <2>1
<1>7. StartsAsked'
  <2> SUFFICES ASSUME alive, NEW T \in Turn, drv.startId = T
               PROVE  ~Free({TurnStart(T)})' \/ ~Lacks(lines, Starts(T))
    BY <1>1 DEF StartsAsked, Free
  <2>1. ~Free({TurnStart(T)}) \/ ~Lacks(lines, Starts(T))
    BY DEF CodexRest, StartsAsked
  <2> QED BY <1>5, <2>1
<1>8. alive => (Due => Due' \/ (~working' /\ owed' = {}))
  BY DueActs
<1>9. alive => /\ working' <=> x = Started \/ (working /\ x \notin Endings)
               /\ owed' = IF x \in Endings THEN {} ELSE owed
  BY ActShows
<1>10. x = Started => t = "reader" /\ ~Lacks(todo["reader"], {Started})
  <2>1. x = Started => ~Lacks(todo[t], {Started})
    BY <1>1, TailFacts
  <2>2. t \in Callers => Lacks(todo[t], {Started})
    BY DEF CodexRest, CallersMute, Lacks
  <2>3. t \in Callers \/ t = "reader"
    BY DEF Threads
  <2> QED BY <2>1, <2>2, <2>3
<1> HIDE DEF x
<1>11. RunsBusy'
  <2>1. ~Lacks(todo'["reader"], {Started}) => ~Lacks(todo["reader"], {Started})
    BY <1>2, ReaderIsNoCaller
  <2>2. alive /\ working' => Busy(drv) \/ Due'
    BY <1>8, <1>9, <1>10 DEF CodexRest, RunsBusy
  <2> QED BY <1>1, <2>1, <2>2 DEF CodexRest, RunsBusy
<1>12. OwesBusy'
  <2> SUFFICES ASSUME alive, owed' # {}
               PROVE  Busy(drv) \/ Due' \/ ~Free(TurnFrames)' \/ ~Lacks(lines, News) \/ drv.queued # <<>>
    BY <1>1 DEF OwesBusy
  <2>1. Busy(drv) \/ Due \/ ~Free(TurnFrames) \/ ~Lacks(lines, News) \/ drv.queued # <<>>
    BY <1>9 DEF CodexRest, OwesBusy
  <2>2. ~Free(TurnFrames) => ~Free(TurnFrames)'
    BY <1>5
  <2> QED BY <1>8, <2>1, <2>2
<1> QED BY <1>3, <1>4, <1>6, <1>7, <1>11, <1>12 DEF CodexRest

LEMMA CodexRestFar ==
    ASSUME Shape, provider = "codex", CodexRest, Far, Serve \/ Work \/ Asking \/ Finish
    PROVE  CodexRest'
<1>1. /\ UNCHANGED <<drv, todo, alive, working, owed>> /\ lines \in Seq(Lines)
  BY FarIs DEF userVars
<1>2. PICK new : CodexSays(new)
  BY CodexFarSays
<1>3. new \in Seq(Lines) /\ lines' = lines \o new
  BY <1>2 DEF CodexSays, Saying
<1>4. \A S : Lacks(lines', S) <=> Lacks(lines, S) /\ Lacks(new, S)
  BY <1>1, <1>3, LacksFacts
<1>5. ASSUME NEW F, ~Free(F) PROVE ~Free(F)' \/ (Head(wire) \in F /\ CodexReplies(Head(wire), new))
  <2>1. ~Free(F)' \/ (Reading(Head(wire)) /\ Head(wire) \in F)
    BY <1>5, StillFar
  <2>2. wire' = wire => ~Free(F)'
    BY <1>1, <1>5 DEF Free, Clear, Writing
  <2>3. wire' = wire \/ CodexReplies(Head(wire), new)
    BY <1>2 DEF CodexSays
  <2> QED BY <2>1, <2>2, <2>3
<1>6. /\ cli'.turn = None => (cli.turn # None => ~Lacks(new, Completions)) /\ Lacks(new, Opening)
      /\ \A m \in cli.acks : m \in cli'.acks \/ ~Lacks(new, SteerLines(m))
  BY <1>2 DEF CodexSays
<1>7. AnswersHeld' /\ QueueSent'
  BY <1>1 DEF CodexRest, AnswersHeld, QueueSent
<1>8. CallersMute'
  BY <1>1 DEF CodexRest, CallersMute
<1>9. EndsTold'
  <2> SUFFICES ASSUME cli'.turn = None
               PROVE  /\ drv.active # None => ~Lacks(lines', Completions)
                      /\ Followed(lines', Opening, Completions)
    BY <1>1 DEF EndsTold
  <2>1. Followed(new, Opening, Completions)
    BY <1>6, FollowedNone
  <2>2. CASE cli.turn = None
    <3>1. /\ drv.active # None => ~Lacks(lines, Completions)
          /\ Followed(lines, Opening, Completions)
      BY <2>2 DEF CodexRest, EndsTold
    <3>2. Followed(lines \o new, Opening, Completions)
      BY <1>1, <1>3, <2>1, <3>1, FollowedJoin
    <3> QED BY <1>3, <1>4, <3>1, <3>2
  <2>3. CASE cli.turn # None
    <3>1. ~Lacks(new, Completions)
      BY <1>6, <2>3
    <3>2. Followed(lines \o new, Opening, Completions)
      BY <1>1, <1>3, <2>1, <3>1, FollowedJoin
    <3> QED BY <1>3, <1>4, <3>1, <3>2
  <2> QED BY <2>2, <2>3
<1>10. SteersAsked'
  <2> SUFFICES ASSUME alive, NEW m \in drv.steers \cap drv.unanswered
               PROVE  ~Free(SteerFrames(m))' \/ m \in cli'.acks \/ ~Lacks(lines', SteerLines(m))
    BY <1>1 DEF SteersAsked, SteerFrames, Free
  <2>1. ~Free(SteerFrames(m)) \/ m \in cli.acks \/ ~Lacks(lines, SteerLines(m))
    BY DEF CodexRest, SteersAsked
  <2>2. Head(wire) \in SteerFrames(m) /\ CodexReplies(Head(wire), new)
           => m \in cli'.acks \/ ~Lacks(new, SteerLines(m))
    BY DEF SteerFrames, CodexReplies
  <2>3. ~Free(SteerFrames(m)) =>
           ~Free(SteerFrames(m))' \/ (Head(wire) \in SteerFrames(m) /\ CodexReplies(Head(wire), new))
    BY <1>5
  <2> QED BY <1>4, <1>6, <2>1, <2>2, <2>3
<1>11. StartsAsked'
  <2> SUFFICES ASSUME alive, NEW T \in Turn, drv.startId = T
               PROVE  ~Free({TurnStart(T)})' \/ ~Lacks(lines', Starts(T))
    BY <1>1 DEF StartsAsked, Free
  <2>1. ~Free({TurnStart(T)}) \/ ~Lacks(lines, Starts(T))
    BY DEF CodexRest, StartsAsked
  <2>2. Head(wire) \in {TurnStart(T)} /\ CodexReplies(Head(wire), new) => ~Lacks(new, Starts(T))
    <3>1. TurnStart(T).is = "turn/start" /\ TurnStart(T).msgs = T
      BY DEF TurnStart
    <3> QED BY <3>1 DEF CodexReplies
  <2>3. ~Free({TurnStart(T)}) =>
           ~Free({TurnStart(T)})' \/ (Head(wire) \in {TurnStart(T)} /\ CodexReplies(Head(wire), new))
    BY <1>5
  <2> QED BY <1>4, <2>1, <2>2, <2>3
<1>12. Due' = Due
  BY <1>1 DEF Due, Endings
<1>13. RunsBusy'
  BY <1>1, <1>12 DEF CodexRest, RunsBusy
<1>14. OwesBusy'
  <2> SUFFICES ASSUME alive, owed # {}
               PROVE  Busy(drv) \/ Due \/ ~Free(TurnFrames)' \/ ~Lacks(lines', News) \/ drv.queued # <<>>
    BY <1>1, <1>12 DEF OwesBusy
  <2>1. Busy(drv) \/ Due \/ ~Free(TurnFrames) \/ ~Lacks(lines, News) \/ drv.queued # <<>>
    BY DEF CodexRest, OwesBusy
  <2>2. Head(wire) \in TurnFrames /\ CodexReplies(Head(wire), new) => ~Lacks(new, News)
    BY DEF CodexReplies
  <2>3. ~Free(TurnFrames) => ~Free(TurnFrames)' \/ (Head(wire) \in TurnFrames /\ CodexReplies(Head(wire), new))
    BY <1>5
  <2> QED BY <1>4, <2>1, <2>2, <2>3
<1> QED BY <1>7, <1>8, <1>9, <1>10, <1>11, <1>13, <1>14 DEF CodexRest

LEMMA CodexRestRests ==
    ASSUME CodexRest, Resting
    PROVE  CodexRest'
<1>1. UNCHANGED <<drv, todo, lines, cli, working>> /\ (alive' => alive) /\ (owed' = owed \/ owed' = {})
  BY DEF Resting, Rests
<1>2. ASSUME NEW F, ~Free(F) PROVE ~Free(F)'
  BY <1>2, StillRests
<1>3. Due' = Due
  BY <1>1 DEF Due, Endings
<1>4. AnswersHeld' /\ EndsTold' /\ QueueSent' /\ CallersMute'
  BY <1>1 DEF CodexRest, AnswersHeld, EndsTold, QueueSent, CallersMute
<1>5. SteersAsked'
  <2> SUFFICES ASSUME alive, NEW m \in drv.steers \cap drv.unanswered
               PROVE  ~Free(SteerFrames(m))' \/ m \in cli.acks \/ ~Lacks(lines, SteerLines(m))
    BY <1>1 DEF SteersAsked, SteerFrames, Free
  <2>1. ~Free(SteerFrames(m)) \/ m \in cli.acks \/ ~Lacks(lines, SteerLines(m))
    BY DEF CodexRest, SteersAsked
  <2> QED BY <1>2, <2>1
<1>6. StartsAsked'
  <2> SUFFICES ASSUME alive, NEW T \in Turn, drv.startId = T
               PROVE  ~Free({TurnStart(T)})' \/ ~Lacks(lines, Starts(T))
    BY <1>1 DEF StartsAsked, Free
  <2>1. ~Free({TurnStart(T)}) \/ ~Lacks(lines, Starts(T))
    BY DEF CodexRest, StartsAsked
  <2> QED BY <1>2, <2>1
<1>7. RunsBusy'
  BY <1>1, <1>3 DEF CodexRest, RunsBusy
<1>8. OwesBusy'
  <2> SUFFICES ASSUME alive, owed # {}
               PROVE  Busy(drv) \/ Due \/ ~Free(TurnFrames)' \/ ~Lacks(lines, News) \/ drv.queued # <<>>
    BY <1>1, <1>3 DEF OwesBusy
  <2>1. Busy(drv) \/ Due \/ ~Free(TurnFrames) \/ ~Lacks(lines, News) \/ drv.queued # <<>>
    BY DEF CodexRest, OwesBusy
  <2> QED BY <1>2, <2>1
<1> QED BY <1>4, <1>5, <1>6, <1>7, <1>8 DEF CodexRest

LEMMA CodexRestStarts ==
    ASSUME Init, provider = "codex"
    PROVE  CodexRest
<1>1. /\ todo = [t \in Threads |-> <<>>] /\ lines = <<>> /\ ~working /\ owed = {}
      /\ drv = CodexNew /\ cli = CodexCli
  BY Start DEF Init
<1>2. /\ drv.active = None /\ drv.startId = None /\ drv.steers = {} /\ drv.queued = <<>>
      /\ None \notin Turn
  BY <1>1, SessionAssumption DEF CodexNew, Turn
<1>3. \A t \in Threads : todo[t] = <<>>
  BY <1>1
<1>4. AnswersHeld /\ QueueSent /\ SteersAsked /\ StartsAsked /\ OwesBusy
  BY <1>1, <1>2 DEF AnswersHeld, QueueSent, SteersAsked, StartsAsked, OwesBusy
<1>5. EndsTold
  BY <1>1, <1>2 DEF EndsTold, Followed
<1>6. RunsBusy /\ CallersMute
  BY <1>1, <1>3, ReaderIsNoCaller DEF RunsBusy, CallersMute, Lacks
<1> QED BY <1>4, <1>5, <1>6 DEF CodexRest

-----------------------------------------------------------------------------
(* The same of a Cursor session.                                            *)

\* A message that the agent was given in a prompt is nowhere else.
PromptsOf(m) == {l \in Lines : l.is = "prompt" /\ m \in ToSet(l.msgs)}
Given(m) == ~Lacks(lines, PromptsOf(m)) \/ (cli.turn # None /\ m \in ToSet(cli.turn))
GivenOnce == \A m \in Msgs : Given(m) => NoPrompt(m) /\ m \notin Hands /\ m \in called

\* What is carried over waits for a prompt to end, and every prompt is on its way, run or answered.
NoneEarly == drv.phase # "ready" => drv.prompts = {} /\ drv.carried = <<>>
CarriedWaits == drv.carried # <<>> => drv.prompts # {}
PromptsAsked ==
    alive => \A p \in drv.prompts : ~Free({Prompt(p)}) \/ cli.turn = p \/ ~Lacks(lines, PromptLines(p))
\* The pane shows a prompt as running while there is one.
RunsPrompt ==
    /\ ~Lacks(todo["reader"], {Started}) => drv.prompts # {}
    /\ alive /\ working => drv.prompts # {} \/ Due
OwesPrompt == alive /\ owed # {} => drv.prompts # {} \/ Due \/ drv.queued # <<>>
OwnPrompt(t) ==
    t \in Msgs /\ <<t>> \in drv.prompts /\ Followed(todo[t], {Started}, Writing({Prompt(<<t>>)}))
CallerStarts(t) ==
    Lacks(todo[t], {Finished, Failed}) /\ (Lacks(todo[t], {Started}) \/ OwnPrompt(t))
CallersStart == \A t \in Callers : CallerStarts(t)

CursorRest ==
    /\ GivenOnce /\ NoneEarly /\ CarriedWaits /\ PromptsAsked
    /\ RunsPrompt /\ OwesPrompt /\ QueueSent /\ CallersStart

LEMMA CursorRestCalling ==
    ASSUME Shape, provider = "cursor", CursorRest, \A m \in Msgs : PromptOnce(m),
           NEW t, NEW new, NEW steps, Calling(t, new, steps)
    PROVE  CursorRest'
<1> DEFINE r == [drv |-> drv', steps |-> steps]
<1>1. /\ t \in Threads /\ t # "reader" /\ todo[t] = <<>> /\ WayShape
      /\ todo' = [todo EXCEPT ![t] = steps] /\ DriverMoves(t, steps, new, {}, {})
      /\ todo'[t] = steps /\ \A u \in Threads \ {t} : todo'[u] = todo[u]
      /\ UNCHANGED <<provider, wire, lines, alive, cli, working>>
      /\ called' = called \cup {t} /\ t \notin called /\ new \subseteq {t} /\ new \subseteq Msgs
  BY CallIs
<1>2. CursorTold(drv, r, new) /\ owed' = owed \cup new
  BY DEF Calling, ToldSo
<1>3. r.drv = drv' /\ r.steps = steps
  OBVIOUS
<1> HIDE DEF r
<1>4. ASSUME NEW F, ~Free(F) \/ ~Lacks(steps, Writing(F)) PROVE ~Free(F)'
  BY <1>1, <1>4, StillMoves
<1>5. todo'["reader"] = todo["reader"] /\ Callers \subseteq Threads
  BY <1>1, ReaderIsNoCaller
<1>6. Due' = Due
  BY <1>5 DEF Due, Endings
<1>7. drv'.prompts = drv.prompts \/ (drv.prompts = {} /\ drv'.prompts # {} /\ drv.phase = "ready")
  BY <1>2, <1>3 DEF CursorTold
<1>8. GivenOnce'
  <2> SUFFICES ASSUME NEW m \in Msgs, Given(m)' PROVE NoPrompt(m)' /\ m \notin Hands' /\ m \in called'
    BY DEF GivenOnce
  <2>1. NoPrompt(m) /\ m \notin Hands /\ m \in called
    BY <1>1 DEF CursorRest, GivenOnce, Given
  <2>2. m \notin Hands \cup new \cup {} /\ m \in called'
    BY <1>1, <2>1
  <2>3. OnePrompt(m)
    BY DEF PromptOnce
  <2>4. NoPrompt(m)' /\ m \notin Hands'
    BY <1>1, <2>1, <2>2, <2>3, PromptDealt
  <2> QED BY <2>2, <2>4
<1>9. NoneEarly' /\ CarriedWaits' /\ QueueSent'
  BY <1>2, <1>3, <1>7 DEF CursorTold, CursorRest, NoneEarly, CarriedWaits, QueueSent
<1>10. PromptsAsked'
  <2> SUFFICES ASSUME alive', NEW p \in drv'.prompts
               PROVE  ~Free({Prompt(p)})' \/ cli'.turn = p \/ ~Lacks(lines', PromptLines(p))
    BY DEF PromptsAsked, Free
  <2>1. p \in drv.prompts \/ ~Lacks(steps, Writing({Prompt(p)}))
    BY <1>2, <1>3 DEF CursorTold
  <2>2. p \in drv.prompts => ~Free({Prompt(p)}) \/ cli.turn = p \/ ~Lacks(lines, PromptLines(p))
    BY <1>1 DEF CursorRest, PromptsAsked
  <2> QED BY <1>1, <1>4, <2>1, <2>2
<1>11. RunsPrompt'
  BY <1>1, <1>5, <1>6, <1>7 DEF CursorRest, RunsPrompt
<1>12. OwesPrompt'
  <2>1. drv.queued # <<>> => drv'.queued # <<>>
    BY <1>2, <1>3 DEF CursorTold
  <2>2. new = {} \/ drv'.prompts # {} \/ drv'.queued # <<>>
    BY <1>2, <1>3 DEF CursorTold
  <2> QED BY <1>1, <1>2, <1>6, <1>7, <2>1, <2>2 DEF CursorRest, OwesPrompt
<1>13. CallersStart'
  <2> SUFFICES ASSUME NEW u \in Callers
               PROVE  CallerStarts(u)'
    BY DEF CallersStart
  <2>1. CASE u # t
    <3>1. todo'[u] = todo[u] /\ CallerStarts(u)
      BY <1>1, <1>5, <2>1 DEF CursorRest, CallersStart
    <3>2. Lacks(todo'[u], {Finished, Failed}) /\ (Lacks(todo'[u], {Started}) \/ OwnPrompt(u))
      BY <3>1 DEF CallerStarts
    <3>3. OwnPrompt(u) => OwnPrompt(u)'
      BY <1>7, <3>1 DEF OwnPrompt, Writing
    <3> QED BY <3>2, <3>3 DEF CallerStarts
  <2>2. CASE u = t
    <3>1. Lacks(steps, {Finished, Failed})
      BY <1>2, <1>3 DEF CursorTold
    <3>2. Lacks(steps, {Started}) \/ \E m \in new : drv'.prompts = {<<m>>} /\ Followed(steps, {Started}, Writing({Prompt(<<m>>)}))
      BY <1>2, <1>3 DEF CursorTold
    <3>3. \A m \in new : m = t /\ t \in Msgs
      BY <1>1
    <3>4. Lacks(todo'[u], {Finished, Failed})
      BY <1>1, <2>2, <3>1
    <3>5. Lacks(todo'[u], {Started}) \/ OwnPrompt(u)'
      BY <1>1, <2>2, <3>2, <3>3 DEF OwnPrompt, Writing
    <3> QED BY <3>4, <3>5 DEF CallerStarts
  <2> QED BY <2>1, <2>2
<1> QED BY <1>8, <1>9, <1>10, <1>11, <1>12, <1>13 DEF CursorRest

LEMMA CursorRestHearing ==
    ASSUME Shape, provider = "cursor", CursorRest, \A m \in Msgs : PromptOnce(m), HandOK,
           NEW steps, Hearing(steps)
    PROVE  CursorRest'
<1> DEFINE line == Head(lines)
           r == [drv |-> drv', steps |-> steps]
<1>1. /\ "reader" \in Threads /\ todo["reader"] = <<>> /\ WayShape
      /\ todo' = [todo EXCEPT !["reader"] = steps]
      /\ DriverMoves("reader", steps, {}, Back(line), NewAsks(line))
      /\ todo'["reader"] = steps /\ \A u \in Threads \ {"reader"} : todo'[u] = todo[u]
      /\ lines \in Seq(Lines) /\ lines # <<>> /\ lines' = Tail(lines) /\ line \in Lines
      /\ UNCHANGED <<provider, called, wire, alive, cli, working, owed>>
  BY HearIs DEF userVars
<1>2. CursorHears(drv, r, line)
  BY DEF Hearing, HearsSo
<1>3. r.drv = drv' /\ r.steps = steps
  OBVIOUS
<1> HIDE DEF r
<1>4. ASSUME NEW F, ~Free(F) \/ ~Lacks(steps, Writing(F)) PROVE ~Free(F)'
  BY <1>1, <1>4, StillMoves
<1>5. \A S : ~Lacks(lines, S) => ~Lacks(lines', S) \/ line \in S
  BY <1>1, TailFacts
<1>6. \A S : ~Lacks(lines', S) => ~Lacks(lines, S)
  BY <1>1, TailFacts
<1>7. drv.phase = "ready" => line \notin HandLines /\ drv'.phase = "ready"
  <2>1. drv.phase = "ready" => Lacks(lines, HandLines)
    BY DEF HandOK
  <2>2. Lacks(lines, HandLines) => line \notin HandLines
    BY <1>1, TailFacts
  <2> QED BY <1>2, <1>3, <2>1, <2>2 DEF CursorHears, HandHears
<1>8. line.is = "open" => drv.prompts = {} /\ drv.carried = <<>>
  <2>1. line.is = "open" => line \in HandLines
    BY <1>1 DEF HandLines
  <2> QED BY <1>7, <2>1 DEF CursorRest, NoneEarly
<1>9. ~Due /\ Lacks(todo["reader"], {Started})
  BY <1>1 DEF Due, Lacks
<1>10. Due' <=> ~Lacks(steps, Endings)
  BY <1>1 DEF Due, Endings
<1>11. drv.prompts # {} => drv'.prompts # {} \/ Due'
  BY <1>2, <1>3, <1>8, <1>10 DEF CursorHears
<1>12. GivenOnce'
  <2> SUFFICES ASSUME NEW m \in Msgs, Given(m)' PROVE NoPrompt(m)' /\ m \notin Hands' /\ m \in called'
    BY DEF GivenOnce
  <2>1. Given(m)
    <3>1. Given(m)' => ~Lacks(lines', PromptsOf(m)) \/ (cli.turn # None /\ m \in ToSet(cli.turn))
      BY <1>1 DEF Given, PromptsOf
    <3> QED BY <1>6, <3>1 DEF Given
  <2>2. NoPrompt(m) /\ m \notin Hands /\ m \in called
    BY <2>1 DEF CursorRest, GivenOnce
  <2>3. Back(line) = {}
    BY DEF Back
  <2>4. OnePrompt(m)
    BY DEF PromptOnce
  <2>5. m \notin Hands \cup {} \cup Back(line)
    BY <2>2, <2>3
  <2>6. NoPrompt(m)' /\ m \notin Hands'
    BY <1>1, <2>2, <2>4, <2>5, PromptDealt
  <2> QED BY <1>1, <2>2, <2>6
<1>13. NoneEarly'
  BY <1>2, <1>3, <1>7 DEF CursorHears, CursorRest, NoneEarly
<1>14. CarriedWaits'
  BY <1>2, <1>3, <1>8 DEF CursorHears, CursorRest, CarriedWaits
<1>15. PromptsAsked'
  <2> SUFFICES ASSUME alive', NEW p \in drv'.prompts
               PROVE  ~Free({Prompt(p)})' \/ cli'.turn = p \/ ~Lacks(lines', PromptLines(p))
    BY DEF PromptsAsked, Free
  <2>1. \/ p \in drv.prompts /\ line \notin PromptLines(p)
        \/ ~Lacks(steps, Writing({Prompt(p)}))
    BY <1>2, <1>3 DEF CursorHears, PromptLines
  <2>2. p \in drv.prompts => ~Free({Prompt(p)}) \/ cli.turn = p \/ ~Lacks(lines, PromptLines(p))
    BY <1>1 DEF CursorRest, PromptsAsked
  <2> QED BY <1>1, <1>4, <1>5, <2>1, <2>2
<1>16. RunsPrompt'
  <2>1. ~Lacks(steps, {Started}) => drv'.prompts # {}
    BY <1>2, <1>3 DEF CursorHears
  <2>2. alive /\ working => drv.prompts # {}
    BY <1>9 DEF CursorRest, RunsPrompt
  <2> QED BY <1>1, <1>11, <2>1, <2>2 DEF RunsPrompt
<1>17. OwesPrompt'
  <2>1. drv.queued # <<>> => drv'.queued # <<>> \/ drv'.prompts # {}
    BY <1>2, <1>3 DEF CursorHears
  <2>2. alive /\ owed # {} => drv.prompts # {} \/ drv.queued # <<>>
    BY <1>9 DEF CursorRest, OwesPrompt
  <2> QED BY <1>1, <1>11, <2>1, <2>2 DEF OwesPrompt
<1>18. QueueSent'
  BY <1>2, <1>3 DEF CursorHears, CursorRest, QueueSent
<1>19. CallersStart'
  <2> SUFFICES ASSUME NEW u \in Callers
               PROVE  CallerStarts(u)'
    BY DEF CallersStart
  <2>1. todo'[u] = todo[u] /\ u \in Threads
    BY <1>1, ReaderIsNoCaller
  <2>2. CallerStarts(u)
    BY DEF CursorRest, CallersStart
  <2>3. ASSUME ~Lacks(todo[u], {Started}) PROVE OwnPrompt(u)'
    <3>1. u \in Msgs /\ <<u>> \in drv.prompts /\ Followed(todo[u], {Started}, Writing({Prompt(<<u>>)}))
      BY <2>2, <2>3 DEF CallerStarts, OwnPrompt
    <3>2. ~Lacks(todo[u], Writing({Prompt(<<u>>)}))
      BY <2>3, <3>1 DEF Lacks, Followed
    <3>3. ~Free({Prompt(<<u>>)})
      BY <2>1, <3>2 DEF Free, Clear
    <3>4. {Prompt(<<u>>)} \subseteq StartFrames(u)
      BY <3>1, OneMessage DEF StartFrames, FramesOf, Prompt, Brings, Frames
    <3>5. ~NoPrompt(u)
      BY <3>1, <3>3, <3>4, FreeFrames, FreeLess
    <3>6. ASSUME line.is = "prompt", line.msgs = <<u>> PROVE FALSE
      <4>1. line \in PromptsOf(u)
        BY <1>1, <3>1, <3>6, OneMessage DEF PromptsOf
      <4>2. ~Lacks(lines, PromptsOf(u))
        BY <1>1, <4>1, TailFacts
      <4> QED BY <3>1, <3>5, <4>2 DEF CursorRest, GivenOnce, Given
    <3>7. <<u>> \in drv'.prompts
      BY <1>2, <1>3, <1>8, <3>1, <3>6 DEF CursorHears
    <3> QED BY <2>1, <3>1, <3>7 DEF OwnPrompt, Writing
  <2>4. Lacks(todo'[u], {Finished, Failed}) /\ (Lacks(todo'[u], {Started}) \/ OwnPrompt(u)')
    BY <2>1, <2>2, <2>3 DEF CallerStarts
  <2> QED BY <2>4 DEF CallerStarts
<1> QED BY <1>12, <1>13, <1>14, <1>15, <1>16, <1>17, <1>18, <1>19 DEF CursorRest

LEMMA CursorRestActing ==
    ASSUME Shape, provider = "cursor", CursorRest, NEW t \in Threads, Acting(t)
    PROVE  CursorRest'
<1> DEFINE x == Head(todo[t])
<1>1. /\ UNCHANGED <<provider, drv, called, lines, alive, cli>> /\ Callers \subseteq Threads
      /\ todo[t] # <<>> /\ todo[t] \in Seq(Steps)
      /\ \A u \in Threads \ {t} : todo'[u] = todo[u]
      /\ todo'[t] \in {<<>>, Tail(todo[t])}
  BY ActIs, ReaderIsNoCaller
<1>2. \A S : \A u \in Threads : Lacks(todo[u], S) => Lacks(todo'[u], S)
  BY ActsLess
<1>3. NoneEarly' /\ CarriedWaits' /\ QueueSent'
  BY <1>1 DEF CursorRest, NoneEarly, CarriedWaits, QueueSent
<1>4. GivenOnce'
  <2> SUFFICES ASSUME NEW m \in Msgs, Given(m)' PROVE NoPrompt(m)' /\ m \notin Hands' /\ m \in called'
    BY DEF GivenOnce
  <2>1. NoPrompt(m) /\ m \notin Hands /\ m \in called
    BY <1>1 DEF CursorRest, GivenOnce, Given
  <2>2. Sends(PromptOf(m), FramesOf(m)) /\ WayShape
    BY PromptSends DEF Shape
  <2>5. NoPrompt(m)'
    BY <2>1, <2>2, EmitFlows, WriteFlows, BrokenFlows DEF Acting, NoPrompt
  <2> QED BY <1>1, <2>1, <2>5 DEF Hands
<1>5. ASSUME alive, NEW F, ~Free(F) PROVE ~Free(F)'
  BY <1>5, StillActs
<1>6. PromptsAsked'
  <2> SUFFICES ASSUME alive, NEW p \in drv.prompts
               PROVE  ~Free({Prompt(p)})' \/ cli.turn = p \/ ~Lacks(lines, PromptLines(p))
    BY <1>1 DEF PromptsAsked, Free
  <2>1. ~Free({Prompt(p)}) \/ cli.turn = p \/ ~Lacks(lines, PromptLines(p))
    BY DEF CursorRest, PromptsAsked
  <2> QED BY <1>5, <2>1
<1>7. alive => (Due => Due' \/ (~working' /\ owed' = {}))
  BY DueActs
<1>8. alive => /\ working' <=> x = Started \/ (working /\ x \notin Endings)
               /\ owed' = IF x \in Endings THEN {} ELSE owed
  BY ActShows
<1>9. x = Started => drv.prompts # {}
  <2>1. x = Started => ~Lacks(todo[t], {Started})
    BY <1>1, TailFacts
  <2>2. t \in Callers => CallerStarts(t)
    BY DEF CursorRest, CallersStart
  <2>3. t \in Callers \/ t = "reader"
    BY DEF Threads
  <2> QED BY <2>1, <2>2, <2>3 DEF CallerStarts, OwnPrompt, CursorRest, RunsPrompt
<1> HIDE DEF x
<1>10. RunsPrompt'
  <2>1. ~Lacks(todo'["reader"], {Started}) => ~Lacks(todo["reader"], {Started})
    BY <1>2, ReaderIsNoCaller
  <2>2. alive /\ working' => drv.prompts # {} \/ Due'
    BY <1>7, <1>8, <1>9 DEF CursorRest, RunsPrompt
  <2> QED BY <1>1, <2>1, <2>2 DEF CursorRest, RunsPrompt
<1>11. OwesPrompt'
  <2>1. alive /\ owed' # {} => owed # {}
    BY <1>8
  <2> QED BY <1>1, <1>7, <2>1 DEF CursorRest, OwesPrompt
<1>12. CallersStart'
  <2> SUFFICES ASSUME NEW u \in Callers
               PROVE  CallerStarts(u)'
    BY DEF CallersStart
  <2>1. CallerStarts(u) /\ u \in Threads
    BY <1>1 DEF CursorRest, CallersStart
  <2>2. Lacks(todo'[u], {Finished, Failed})
    BY <1>2, <2>1 DEF CallerStarts
  <2>3. CASE Lacks(todo[u], {Started})
    <3>1. Lacks(todo'[u], {Started})
      BY <1>2, <2>1, <2>3
    <3> QED BY <2>2, <3>1 DEF CallerStarts
  <2>4. CASE ~Lacks(todo[u], {Started}) /\ u # t
    <3>1. OwnPrompt(u)
      BY <2>1, <2>4 DEF CallerStarts
    <3>2. OwnPrompt(u)'
      BY <1>1, <2>1, <2>4, <3>1 DEF OwnPrompt, Writing
    <3> QED BY <2>2, <3>2 DEF CallerStarts
  <2>5. CASE ~Lacks(todo[u], {Started}) /\ u = t
    <3>1. u \in Msgs /\ <<u>> \in drv.prompts /\ Followed(todo[u], {Started}, Writing({Prompt(<<u>>)}))
      BY <2>1, <2>5 DEF CallerStarts, OwnPrompt
    <3> DEFINE Q == Writing({Prompt(<<u>>)})
    <3>2. {Started} \cap Q = {}
      BY DEF Started, Emit, Writing
    <3> HIDE DEF Q
    <3>3. Followed(todo[u], {Started}, Q)
      BY <3>1 DEF Q
    <3>4. Followed(Tail(todo[u]), {Started}, Q)
      BY <1>1, <2>5, <3>2, <3>3, FollowedTail
    <3>5. Followed(<<>>, {Started}, Q)
      BY DEF Followed
    <3>6. Followed(todo'[u], {Started}, Q)
      BY <1>1, <2>5, <3>4, <3>5
    <3>7. OwnPrompt(u)'
      BY <1>1, <3>1, <3>6 DEF Q, OwnPrompt, Writing
    <3> QED BY <2>2, <3>7 DEF CallerStarts
  <2> QED BY <2>3, <2>4, <2>5
<1> QED BY <1>3, <1>4, <1>6, <1>10, <1>11, <1>12 DEF CursorRest

LEMMA ReadsMessage ==
    ASSUME Shape, Far, NEW f \in Frames, Reading(f), NEW m \in Msgs, Brings(f, m), PromptOnce(m)
    PROVE  NoPrompt(m)' /\ ~NoPrompt(m) /\ m \notin Hands /\ m \in called
<1>1. todo' = todo /\ WayShape /\ f \in FramesOf(m)
  BY FarIs DEF Shape, FramesOf
<1>2. Clear(PromptOf(m), FramesOf(m))' /\ ~Clear(PromptOf(m), FramesOf(m))
  BY <1>1, ReadFlows DEF PromptOnce, OnePrompt, Reading
<1>3. NoPrompt(m)' /\ ~NoPrompt(m)
  BY <1>2 DEF NoPrompt, PromptOf, FramesOf
<1> QED BY <1>3 DEF PromptOnce, Unused

LEMMA CursorRestFar ==
    ASSUME Shape, provider = "cursor", CursorRest, \A m \in Msgs : PromptOnce(m),
           Far, Serve \/ Work \/ Asking \/ Finish
    PROVE  CursorRest'
<1>1. /\ UNCHANGED <<provider, drv, todo, called, alive, working, owed>> /\ lines \in Seq(Lines)
      /\ drv.prompts \subseteq Turn /\ None \notin Turn
  <2>1. drv.prompts \subseteq Turn
    BY CursorFields DEF Shape, DriverShape
  <2> QED BY FarIs, <2>1, SessionAssumption DEF userVars, Turn
<1>2. PICK new : CursorSays(new)
  BY CursorFarSays
<1>3. new \in Seq(Lines) /\ lines' = lines \o new
  BY <1>2 DEF CursorSays, Saying
<1>4. \A S : Lacks(lines', S) <=> Lacks(lines, S) /\ Lacks(new, S)
  BY <1>1, <1>3, LacksFacts
<1>5. CursorQuiet(new) \/ CursorStops(new) \/ CursorBegins(new) \/ CursorRefuses(new)
  BY <1>2 DEF CursorSays
<1>6. \A T, ok : PromptReply(T, ok).is = "prompt" /\ PromptReply(T, ok).msgs = T
  BY DEF PromptReply
<1>7. NoneEarly' /\ CarriedWaits' /\ QueueSent'
  BY <1>1 DEF CursorRest, NoneEarly, CarriedWaits, QueueSent
<1>8. RunsPrompt' /\ OwesPrompt'
  BY <1>1 DEF CursorRest, RunsPrompt, OwesPrompt, Due, Endings
<1>9. CallersStart'
  BY <1>1 DEF CursorRest, CallersStart, CallerStarts, OwnPrompt, Writing
<1>10. GivenOnce'
  <2> SUFFICES ASSUME NEW m \in Msgs, Given(m)' PROVE NoPrompt(m)' /\ m \notin Hands' /\ m \in called'
    BY DEF GivenOnce
  <2>1. PromptOnce(m)
    OBVIOUS
  <2>2. Hands' = Hands
    BY <1>1 DEF Hands
  <2>3. ASSUME Given(m) PROVE NoPrompt(m)' /\ m \notin Hands' /\ m \in called'
    <3>1. NoPrompt(m) /\ m \notin Hands /\ m \in called
      BY <2>3 DEF CursorRest, GivenOnce
    <3>2. NoPrompt(m)'
      BY <3>1, FarWire DEF NoPrompt, PromptOf, FramesOf
    <3> QED BY <1>1, <2>2, <3>1, <3>2
  <2>4. ASSUME NEW f \in Frames, Reading(f), f.is = "prompt", m \in ToSet(f.msgs)
        PROVE  NoPrompt(m)' /\ m \notin Hands' /\ m \in called'
    <3>1. Brings(f, m)
      BY <2>4 DEF Brings
    <3>2. NoPrompt(m)' /\ m \notin Hands /\ m \in called
      BY <2>1, <2>4, <3>1, ReadsMessage
    <3> QED BY <1>1, <2>2, <3>2
  <2>5. ~Lacks(lines', PromptsOf(m)) \/ (cli'.turn # None /\ m \in ToSet(cli'.turn))
    BY DEF Given, PromptsOf
  <2>6. ~Lacks(lines', PromptsOf(m)) => Given(m) \/ ~Lacks(new, PromptsOf(m))
    BY <1>4 DEF Given
  <2>7. CASE CursorQuiet(new)
    <3>1. Lacks(new, PromptsOf(m)) /\ cli'.turn = cli.turn
      BY <2>7 DEF CursorQuiet, Lacks, PromptsOf
    <3> QED BY <2>3, <2>5, <2>6, <3>1 DEF Given
  <2>8. CASE CursorStops(new)
    <3>1. PICK ok \in BOOLEAN : new = <<PromptReply(cli.turn, ok)>>
      BY <2>8 DEF CursorStops
    <3>2. cli.turn \in Turn /\ cli'.turn = None
      BY <2>8 DEF CursorStops
    <3>3. ~Lacks(new, PromptsOf(m)) => m \in ToSet(cli.turn)
      BY <1>6, <3>1 DEF Lacks, PromptsOf
    <3> QED BY <1>1, <2>3, <2>5, <2>6, <3>2, <3>3 DEF Given
  <2>9. CASE CursorBegins(new)
    <3>1. PICK f \in Frames : /\ Reading(f) /\ f.is = "prompt" /\ f.msgs \in Turn /\ new = <<>>
                              /\ cli'.turn = f.msgs
      BY <2>9 DEF CursorBegins
    <3>2. Lacks(new, PromptsOf(m))
      BY <3>1 DEF Lacks
    <3> QED BY <2>3, <2>4, <2>5, <2>6, <3>1, <3>2
  <2>10. CASE CursorRefuses(new)
    <3>1. PICK f \in Frames : /\ Reading(f) /\ f.is = "prompt" /\ f.msgs \in Turn
                              /\ new = <<PromptReply(f.msgs, FALSE)>> /\ cli'.turn = cli.turn
      BY <2>10 DEF CursorRefuses
    <3> DEFINE y == PromptReply(f.msgs, FALSE)
    <3>4. y.is = "prompt" /\ y.msgs = f.msgs /\ new = <<y>>
      BY <3>1 DEF PromptReply
    <3> HIDE DEF y
    <3>2. ~Lacks(new, PromptsOf(m)) => m \in ToSet(f.msgs)
      BY <3>4 DEF Lacks, PromptsOf
    <3>3. Given(m) \/ m \in ToSet(f.msgs)
      BY <2>5, <2>6, <3>1, <3>2 DEF Given
    <3> QED BY <2>3, <2>4, <3>1, <3>3
  <2> QED BY <1>5, <2>7, <2>8, <2>9, <2>10
<1>11. PromptsAsked'
  <2> SUFFICES ASSUME alive, NEW p \in drv.prompts
               PROVE  ~Free({Prompt(p)})' \/ cli'.turn = p \/ ~Lacks(lines', PromptLines(p))
    BY <1>1 DEF PromptsAsked, Free
  <2>1. ~Free({Prompt(p)}) \/ cli.turn = p \/ ~Lacks(lines, PromptLines(p))
    BY DEF CursorRest, PromptsAsked
  <2>2. ~Free({Prompt(p)}) => ~Free({Prompt(p)})' \/ (Reading(Head(wire)) /\ Head(wire) = Prompt(p))
    BY StillFar
  <2>3. ~Lacks(lines, PromptLines(p)) => ~Lacks(lines', PromptLines(p))
    BY <1>4
  <2>4. Prompt(p).is = "prompt" /\ Prompt(p).msgs = p /\ p # None
    BY <1>1 DEF Prompt
  <2>5. wire' = wire => (~Free({Prompt(p)}) => ~Free({Prompt(p)})')
    BY <1>1 DEF Free, Clear, Writing
  <2>6. CASE CursorQuiet(new)
    <3>1. cli'.turn = cli.turn /\ Aside
      BY <2>6 DEF CursorQuiet
    <3>2. ~Free({Prompt(p)}) => ~Free({Prompt(p)})'
      BY <2>2, <2>4, <2>5, <3>1 DEF Aside
    <3> QED BY <2>1, <2>3, <3>1, <3>2
  <2>7. CASE CursorStops(new)
    <3>1. PICK ok \in BOOLEAN : new = <<PromptReply(cli.turn, ok)>>
      BY <2>7 DEF CursorStops
    <3>2. Aside
      BY <2>7 DEF CursorStops
    <3>3. ~Free({Prompt(p)}) => ~Free({Prompt(p)})'
      BY <2>2, <2>4, <2>5, <3>2 DEF Aside
    <3>4. ASSUME cli.turn = p PROVE ~Lacks(new, PromptLines(p))
      <4>1. new[1] = PromptReply(p, ok) /\ 1 \in DOMAIN new
        BY <3>1, <3>4
      <4>2. new[1] \in Lines
        BY <1>3, <4>1
      <4>3. new[1] \in PromptLines(p)
        BY <1>6, <4>1, <4>2 DEF PromptLines
      <4> QED BY <4>1, <4>3 DEF Lacks
    <3> QED BY <1>4, <2>1, <2>3, <3>3, <3>4
  <2>8. CASE CursorBegins(new)
    <3>1. PICK f \in Frames : Reading(f) /\ cli.turn = None /\ cli'.turn = f.msgs
      BY <2>8 DEF CursorBegins
    <3>2. Head(wire) = f
      BY <3>1 DEF Reading
    <3> QED BY <2>1, <2>2, <2>3, <2>4, <3>1, <3>2
  <2>9. CASE CursorRefuses(new)
    <3>1. PICK f \in Frames : Reading(f) /\ cli'.turn = cli.turn /\ new = <<PromptReply(f.msgs, FALSE)>>
      BY <2>9 DEF CursorRefuses
    <3>2. Head(wire) = f
      BY <3>1 DEF Reading
    <3>3. ASSUME f = Prompt(p) PROVE ~Lacks(new, PromptLines(p))
      <4> DEFINE y == PromptReply(f.msgs, FALSE)
      <4>1. y.is = "prompt" /\ y.msgs = p /\ new = <<y>>
        BY <2>4, <3>1, <3>3 DEF PromptReply
      <4> HIDE DEF y
      <4>2. new[1] = y /\ 1 \in DOMAIN new /\ y \in Lines
        BY <1>3, <4>1
      <4>3. y \in PromptLines(p)
        BY <4>1, <4>2 DEF PromptLines
      <4> QED BY <4>2, <4>3 DEF Lacks
    <3> QED BY <1>4, <2>1, <2>2, <2>3, <3>1, <3>2, <3>3
  <2> QED BY <1>5, <2>6, <2>7, <2>8, <2>9
<1> QED BY <1>7, <1>8, <1>9, <1>10, <1>11 DEF CursorRest

LEMMA CursorRestRests ==
    ASSUME CursorRest, Resting
    PROVE  CursorRest'
<1>1. /\ UNCHANGED <<provider, drv, todo, called, wire, lines, cli, working>>
      /\ (alive' => alive) /\ (owed' = owed \/ owed' = {})
  BY DEF Resting, Rests
<1>2. NoneEarly' /\ CarriedWaits' /\ QueueSent'
  BY <1>1 DEF CursorRest, NoneEarly, CarriedWaits, QueueSent
<1>3. RunsPrompt' /\ OwesPrompt'
  BY <1>1 DEF CursorRest, RunsPrompt, OwesPrompt, Due, Endings
<1>4. CallersStart'
  BY <1>1 DEF CursorRest, CallersStart, CallerStarts, OwnPrompt, Writing
<1>5. GivenOnce'
  BY <1>1 DEF CursorRest, GivenOnce, Given, PromptsOf, NoPrompt, Clear, PromptOf, FramesOf, Hands
<1>6. PromptsAsked'
  BY <1>1 DEF CursorRest, PromptsAsked, Free, Clear, Writing, PromptLines
<1> QED BY <1>2, <1>3, <1>4, <1>5, <1>6 DEF CursorRest

LEMMA CursorRestStarts ==
    ASSUME Init, provider = "cursor"
    PROVE  CursorRest
<1>1. /\ todo = [t \in Threads |-> <<>>] /\ lines = <<>> /\ ~working /\ owed = {}
      /\ \E auto \in BOOLEAN : drv = CursorNew(auto)
      /\ cli = CursorCli
  BY DEF Init
<1>2. drv.prompts = {} /\ drv.carried = <<>> /\ drv.queued = <<>> /\ cli.turn = None
  BY <1>1 DEF CursorNew, CursorCli
<1>3. \A S : \A t \in Threads : Lacks(todo[t], S)
  BY <1>1 DEF Lacks
<1>4. NoneEarly /\ CarriedWaits /\ QueueSent /\ PromptsAsked
  BY <1>2 DEF NoneEarly, CarriedWaits, QueueSent, PromptsAsked
<1>5. GivenOnce
  BY <1>1, <1>2 DEF GivenOnce, Given, Lacks
<1>6. RunsPrompt /\ OwesPrompt /\ CallersStart
  BY <1>1, <1>3, ReaderIsNoCaller DEF RunsPrompt, OwesPrompt, CallersStart, CallerStarts
<1> QED BY <1>4, <1>5, <1>6 DEF CursorRest

-----------------------------------------------------------------------------
(* What Claude's CLI does: a message opens a turn, waits in its inbox or    *)
(* joins a turn, a turn ends, or it says something else.                    *)

NoUserRead == wire' = wire \/ (Reading(Head(wire)) /\ Head(wire) \in Frames /\ Head(wire).is # "user")
TurnLine == [is |-> "turn"]
UserOpens(new) ==
    \E f \in Frames :
        /\ Reading(f) /\ f.is = "user" /\ cli'.turn /\ cli'.inbox = cli.inbox /\ Take({f.msg})
        /\ new = (Tell("queued", f) \o <<TurnLine>>) \o Tell("taken", f)
UserWaits(new) ==
    \E f \in Frames :
        /\ Reading(f) /\ f.is = "user" /\ turns' = turns
        /\ cli'.inbox = Append(cli.inbox, f) /\ new = Tell("queued", f)
UserJoins(new) ==
    /\ wire' = wire /\ cli.inbox # <<>> /\ Take({Head(cli.inbox).msg})
    /\ cli'.turn /\ cli'.inbox = Tail(cli.inbox)
    /\ \/ new = Tell("taken", Head(cli.inbox))
       \/ new = <<TurnLine>> \o Tell("taken", Head(cli.inbox))
TurnEnds(new) ==
    /\ NoUserRead /\ turns' = turns /\ cli'.inbox = cli.inbox
    /\ \E x \in Results : new = <<x>>
Mutters(new) ==
    /\ NoUserRead /\ turns' = turns /\ cli'.inbox = cli.inbox /\ cli'.turn = cli.turn
    /\ \A i \in DOMAIN new : new[i].is \notin {"turn", "queued", "taken", "result"}

ClaudeDoes(new) ==
    /\ Saying(new) /\ cli'.mute = cli.mute
    /\ UserOpens(new) \/ UserWaits(new) \/ UserJoins(new) \/ TurnEnds(new) \/ Mutters(new)

LEMMA ClaudeFarIs ==
    ASSUME Shape, provider = "claude", Serve \/ Work \/ Asking \/ Finish
    PROVE  \E new : ClaudeDoes(new)
<1> DEFINE f == Head(wire)
<1>0. /\ cli \in ClaudeCliSet /\ lines \in Seq(Lines) /\ wire \in Seq(Frames) /\ cli.inbox \in Seq(Users)
      /\ TurnLine \in Lines /\ <<TurnLine>> \in Seq(Lines)
  BY ClaudeCliFields, LinesSaid DEF Shape, CliShape, WayShape, TurnLine
<1>1. \/ ClaudeServe
      \/ ClaudeFold
      \/ ClaudeNextTurn
      \/ ClaudeError
      \/ \E a \in Asks, kind \in Kinds : ClaudeAsks(a, kind)
      \/ \E how \in Outcomes : ClaudeFinish(how)
  BY DEF Serve, Work, Asking, Finish, CursorServe, CodexServe, CursorAsks, CodexAsks, CursorFinish,
         CodexFinish, CodexAck, CodexRead, Outcomes
<1>2. CASE ClaudeServe
  <2>0. Reading(f) /\ f \in Frames
    BY <1>0, <1>2, TailFacts DEF ClaudeServe, Reading
  <2>1. \/ /\ f.is = "user"
           /\ cli' = [cli EXCEPT !.turn = TRUE]
           /\ Says(Tell("queued", f) \o <<[is |-> "turn"]>> \o Tell("taken", f))
           /\ Take({f.msg})
        \/ /\ f.is = "user" /\ turns' = turns
           /\ cli' = [cli EXCEPT !.inbox = Append(@, f)]
           /\ Says(Tell("queued", f))
        \/ /\ f.is = "interrupt" /\ turns' = turns
           /\ cli' = [cli EXCEPT !.turn = FALSE, !.asked = {}]
           /\ Says(IF cli.turn THEN <<ResultLine("stopped")>> ELSE <<>>)
        \/ /\ f.is = "reply" /\ UNCHANGED <<lines, turns>>
           /\ cli' = [cli EXCEPT !.asked = @ \ {f.ask}]
    BY <1>2 DEF ClaudeServe
  <2> HIDE DEF f
  <2>2. CASE /\ f.is = "user"
             /\ cli' = [cli EXCEPT !.turn = TRUE]
             /\ Says(Tell("queued", f) \o <<[is |-> "turn"]>> \o Tell("taken", f))
             /\ Take({f.msg})
    <3> DEFINE x == Tell("queued", f)
               z == Tell("taken", f)
               new == (x \o <<TurnLine>>) \o z
    <3>1. lines' = lines \o new
      BY <2>2 DEF Says, TurnLine
    <3>2. x \in Seq(Lines) /\ z \in Seq(Lines)
      BY <2>0, <2>2, UserFrame, Told
    <3>3. cli'.turn /\ cli'.inbox = cli.inbox /\ cli'.mute = cli.mute
      BY <1>0, <2>2 DEF ClaudeCliSet
    <3>4. UserOpens(new)
      BY <2>0, <2>2, <3>3 DEF UserOpens
    <3> HIDE DEF x, z
    <3>5. new \in Seq(Lines)
      BY <1>0, <3>2
    <3> QED BY <3>1, <3>3, <3>4, <3>5 DEF ClaudeDoes, Saying
  <2>3. CASE /\ f.is = "user" /\ turns' = turns
             /\ cli' = [cli EXCEPT !.inbox = Append(@, f)]
             /\ Says(Tell("queued", f))
    <3> DEFINE new == Tell("queued", f)
    <3>1. Saying(new)
      BY <2>0, <2>3, UserFrame, Told DEF Saying, Says
    <3>2. cli'.inbox = Append(cli.inbox, f) /\ cli'.mute = cli.mute
      BY <1>0, <2>3 DEF ClaudeCliSet
    <3>3. UserWaits(new)
      BY <2>0, <2>3, <3>2 DEF UserWaits
    <3> QED BY <3>1, <3>2, <3>3 DEF ClaudeDoes
  <2>4. CASE /\ f.is = "interrupt" /\ turns' = turns
             /\ cli' = [cli EXCEPT !.turn = FALSE, !.asked = {}]
             /\ Says(IF cli.turn THEN <<ResultLine("stopped")>> ELSE <<>>)
    <3>1. NoUserRead /\ cli'.turn = FALSE /\ cli'.inbox = cli.inbox /\ cli'.mute = cli.mute
      BY <1>0, <2>0, <2>4 DEF NoUserRead, ClaudeCliSet, f
    <3>2. CASE cli.turn
      <4> DEFINE x == ResultLine("stopped")
      <4>1. x \in Lines /\ x \in Results
        BY LinesSaid DEF Outcomes, Results, ResultLine
      <4>2. Says(<<x>>)
        BY <2>4, <3>2
      <4> HIDE DEF x
      <4>3. Saying(<<x>>)
        BY <1>0, <4>1, <4>2, SayOne
      <4> QED BY <2>4, <3>1, <4>1, <4>3 DEF ClaudeDoes, TurnEnds
    <3>3. CASE ~cli.turn
      <4>1. lines' = lines
        <5>1. lines \o <<>> = lines
          BY <1>0
        <5> QED BY <2>4, <3>3, <5>1 DEF Says
      <4>2. Saying(<<>>) /\ cli'.turn = cli.turn
        BY <1>0, <3>1, <3>3, <4>1, SayNone DEF ClaudeCliSet
      <4>4. NoUserRead /\ turns' = turns /\ cli'.inbox = cli.inbox
        BY <2>4, <3>1
      <4>3. Mutters(<<>>)
        BY <4>2, <4>4 DEF Mutters
      <4> QED BY <3>1, <4>2, <4>3 DEF ClaudeDoes
    <3> QED BY <3>2, <3>3
  <2>5. CASE /\ f.is = "reply" /\ UNCHANGED <<lines, turns>>
             /\ cli' = [cli EXCEPT !.asked = @ \ {f.ask}]
    <3>1. NoUserRead /\ cli'.turn = cli.turn /\ cli'.inbox = cli.inbox /\ cli'.mute = cli.mute
      BY <1>0, <2>0, <2>5 DEF NoUserRead, ClaudeCliSet, f
    <3>2. Saying(<<>>)
      BY <1>0, <2>5, SayNone
    <3>3. Mutters(<<>>)
      BY <2>5, <3>1 DEF Mutters
    <3> QED BY <3>1, <3>2, <3>3 DEF ClaudeDoes
  <2> QED BY <2>1, <2>2, <2>3, <2>4, <2>5
<1>3. cli.inbox # <<>> => Tell("taken", Head(cli.inbox)) \in Seq(Lines)
  BY <1>0, TailFacts, Told
<1>4. CASE ClaudeFold
  <2> DEFINE new == Tell("taken", Head(cli.inbox))
  <2>1. cli'.turn /\ cli'.inbox = Tail(cli.inbox) /\ cli'.mute = cli.mute
    BY <1>0, <1>4 DEF ClaudeFold, ClaudeCliSet
  <2>2. UserJoins(new)
    BY <1>4, <2>1 DEF ClaudeFold, UserJoins
  <2>3. Saying(new)
    BY <1>3, <1>4 DEF ClaudeFold, Says, Saying
  <2> QED BY <2>1, <2>2, <2>3 DEF ClaudeDoes
<1>5. CASE ClaudeNextTurn
  <2> DEFINE z == Tell("taken", Head(cli.inbox))
             new == <<TurnLine>> \o z
  <2>1. cli'.turn /\ cli'.inbox = Tail(cli.inbox) /\ cli'.mute = cli.mute
    BY <1>0, <1>5 DEF ClaudeNextTurn, ClaudeCliSet
  <2>2. UserJoins(new)
    BY <1>5, <2>1 DEF ClaudeNextTurn, UserJoins
  <2>3. z \in Seq(Lines) /\ lines' = lines \o new
    BY <1>3, <1>5 DEF ClaudeNextTurn, Says, TurnLine
  <2> HIDE DEF z
  <2>4. Saying(new)
    BY <1>0, <2>3 DEF Saying
  <2> QED BY <2>1, <2>2, <2>4 DEF ClaudeDoes
<1>6. ASSUME NEW x \in Lines, Says(<<x>>), x.is \notin {"turn", "queued", "taken", "result"},
             cli'.turn = cli.turn, cli'.inbox = cli.inbox, cli'.mute = cli.mute,
             turns' = turns, wire' = wire
      PROVE  \E new : ClaudeDoes(new)
  <2>1. Saying(<<x>>)
    BY <1>0, <1>6, SayOne
  <2>2. Mutters(<<x>>)
    BY <1>6 DEF Mutters, NoUserRead
  <2> QED BY <1>6, <2>1, <2>2 DEF ClaudeDoes
<1>7. CASE ClaudeError
  <2> DEFINE x == [is |-> "error"]
  <2>1. x \in Lines /\ x.is \notin {"turn", "queued", "taken", "result"} /\ Says(<<x>>)
    BY <1>7, LinesSaid DEF ClaudeError
  <2>2. /\ cli'.turn = cli.turn /\ cli'.inbox = cli.inbox /\ cli'.mute = cli.mute
        /\ turns' = turns /\ wire' = wire
    BY <1>0, <1>7 DEF ClaudeError, ClaudeCliSet
  <2> HIDE DEF x
  <2> QED BY <1>6, <2>1, <2>2
<1>8. ASSUME NEW a \in Asks, NEW kind \in Kinds, ClaudeAsks(a, kind) PROVE \E new : ClaudeDoes(new)
  <2> DEFINE x == Ask(a, kind)
  <2>0. kind \in AskKinds
    BY <1>8, KindsAreFew DEF Shape
  <2>1. x \in Lines /\ x.is \notin {"turn", "queued", "taken", "result"} /\ Says(<<x>>)
    BY <1>8, <2>0, LinesSaid DEF ClaudeAsks, Ask
  <2>2. /\ cli'.turn = cli.turn /\ cli'.inbox = cli.inbox /\ cli'.mute = cli.mute
        /\ turns' = turns /\ wire' = wire
    BY <1>0, <1>8 DEF ClaudeAsks, ClaudeCliSet
  <2> HIDE DEF x
  <2> QED BY <1>6, <2>1, <2>2
<1>9. ASSUME NEW how \in Outcomes, ClaudeFinish(how) PROVE \E new : ClaudeDoes(new)
  <2> DEFINE x == ResultLine(how)
  <2>1. x \in Lines /\ x \in Results /\ Says(<<x>>)
    BY <1>9, LinesSaid DEF ClaudeFinish, Results, ResultLine
  <2>2. cli'.inbox = cli.inbox /\ cli'.mute = cli.mute /\ turns' = turns /\ NoUserRead
    BY <1>0, <1>9 DEF ClaudeFinish, ClaudeCliSet, NoUserRead
  <2> HIDE DEF x
  <2>3. Saying(<<x>>)
    BY <1>0, <2>1, SayOne
  <2> QED BY <2>1, <2>2, <2>3 DEF ClaudeDoes, TurnEnds
<1> QED BY <1>1, <1>2, <1>4, <1>5, <1>7, <1>8, <1>9

-----------------------------------------------------------------------------
(* What follows from it: work that is ahead, and what became of a message.  *)

Ahead == cli.turn \/ cli.inbox # <<>> \/ ~Free(UserFrames)
Inside(m) == ~Lacks(cli.inbox, {User(m, TRUE)})
Arrived(m) == ~Free(UsersOf(m)) \/ turns[m] # 0 \/ ~Lacks(cli.inbox, UsersOf(m))

WorkSaid(new) ==
    /\ Ahead => Ahead' \/ ~Lacks(new, Results)
    /\ ~Ahead' => Followed(new, TurnLines, Results)
MessageSaid(new, m) ==
    /\ ~Lacks(new, {QueuedLine(m)}) => ~cli.mute
    /\ Inside(m) /\ ~cli.mute => Inside(m)' \/ ~Lacks(new, {TakenLine(m)})
    /\ Inside(m)' \/ Followed(new, {QueuedLine(m)}, {TakenLine(m)})
    /\ Arrived(m) => Arrived(m)'

ClaudeSays(new) ==
    /\ Saying(new) /\ cli'.mute = cli.mute
    /\ WorkSaid(new) /\ \A m \in Msgs : MessageSaid(new, m)

\* What it tells of a message's way.
LEMMA TellIs ==
    ASSUME NEW f \in Users
    PROVE  /\ Tell("queued", f) \in Seq(Lines) /\ Tell("taken", f) \in Seq(Lines)
           /\ f.msg \in Msgs
           /\ \A m, S : m # f.msg => Lacks(Tell("queued", f), {QueuedLine(m)})
           /\ \A S : QueuedLine(f.msg) \notin S => Lacks(Tell("queued", f), S)
           /\ \A S : TakenLine(f.msg) \notin S => Lacks(Tell("taken", f), S)
           /\ f = User(f.msg, TRUE) /\ ~cli.mute => ~Lacks(Tell("taken", f), {TakenLine(f.msg)})
           /\ f # User(f.msg, TRUE) \/ cli.mute => Tell("queued", f) = <<>> /\ Tell("taken", f) = <<>>
<1>1. Tell("queued", f) \in Seq(Lines) /\ Tell("taken", f) \in Seq(Lines)
  BY Told
<1>2. f.msg \in Msgs /\ f.id \in BOOLEAN /\ (f = User(f.msg, TRUE) <=> f.id)
  BY DEF Users, User
<1>3. /\ Tell("queued", f) = IF f.id /\ ~cli.mute THEN <<QueuedLine(f.msg)>> ELSE <<>>
      /\ Tell("taken", f) = IF f.id /\ ~cli.mute THEN <<TakenLine(f.msg)>> ELSE <<>>
  BY DEF Tell, QueuedLine, TakenLine
<1>4. \A m : m # f.msg => QueuedLine(m) # QueuedLine(f.msg)
  BY DEF QueuedLine
<1>5. \A x, S : (x \notin S <=> Lacks(<<x>>, S)) /\ Lacks(<<>>, S)
  BY DEF Lacks
<1>6. /\ \A S : QueuedLine(f.msg) \notin S => Lacks(Tell("queued", f), S)
      /\ \A S : TakenLine(f.msg) \notin S => Lacks(Tell("taken", f), S)
  BY <1>3, <1>5
<1>7. \A m : m # f.msg => Lacks(Tell("queued", f), {QueuedLine(m)})
  BY <1>4, <1>6
<1>8. f.id /\ ~cli.mute => ~Lacks(Tell("taken", f), {TakenLine(f.msg)})
  BY <1>3, <1>5
<1>9. ~f.id \/ cli.mute => Tell("queued", f) = <<>> /\ Tell("taken", f) = <<>>
  BY <1>3
<1> QED BY <1>1, <1>2, <1>6, <1>7, <1>8, <1>9

\* The lines that it tells of are of a kind.
LEMMA KindsApart ==
    ASSUME NEW m
    PROVE  /\ QueuedLine(m) \notin TurnLines /\ QueuedLine(m) \notin Results /\ TakenLine(m) \notin Results
           /\ \A n : QueuedLine(m) # TakenLine(n) /\ TurnLine # QueuedLine(m) /\ TurnLine # TakenLine(m)
           /\ TurnLines \cap Results = {}
           /\ m \in Msgs => TakenLine(m) \in TurnLines
<1>1. m \in Msgs => TakenLine(m) \in TurnLines
  BY LinesSaid DEF TurnLines, TakenLine
<1> QED BY <1>1 DEF QueuedLine, TakenLine, TurnLine, TurnLines, Results

LEMMA ClaudeFarSays ==
    ASSUME Shape, provider = "claude", Far, NEW new, ClaudeDoes(new)
    PROVE  ClaudeSays(new)
<1>1. /\ todo' = todo /\ cli.inbox \in Seq(Users) /\ turns \in [Msgs -> 0..2] /\ cli.mute \in BOOLEAN
      /\ Saying(new) /\ cli'.mute = cli.mute /\ WayShape /\ wire \in Seq(Frames)
  BY FarIs, ClaudeCliFields DEF Shape, CliShape, UserShape, ClaudeDoes
<1>2. \A m \in Msgs : turns[m] # 0 => turns'[m] # 0
  BY TurnsGrow
<1>3. \A F : ~Free(F) => ~Free(F)' \/ (Reading(Head(wire)) /\ Head(wire) \in F)
  <2> TAKE F
  <2>1. ASSUME ~Free(F) PROVE ~Free(F)' \/ (Reading(Head(wire)) /\ Head(wire) \in F)
    BY <2>1, StillFar
  <2> QED BY <2>1 DEF Free, Clear, Writing
<1>4. \A m : UsersOf(m) \subseteq UserFrames /\ \A f \in UsersOf(m) : f.msg = m
  BY DEF UsersOf, UserFrames
<1>5. ASSUME NoUserRead, NEW F, F \subseteq UserFrames, ~Free(F) PROVE ~Free(F)'
  <2>1. ~Free(F)' \/ (Reading(Head(wire)) /\ Head(wire) \in UserFrames)
    BY <1>5, StillFar
  <2>2. CASE wire' = wire
    BY <1>1, <1>5, <2>2 DEF Free, Clear, Writing
  <2>3. CASE wire' # wire
    BY <1>5, <2>1, <2>3 DEF NoUserRead, UserFrames
  <2> QED BY <2>2, <2>3
<1>6. CASE UserOpens(new)
  <2>1. PICK f \in Frames : /\ Reading(f) /\ f.is = "user" /\ cli'.turn /\ cli'.inbox = cli.inbox /\ Take({f.msg})
                            /\ new = (Tell("queued", f) \o <<TurnLine>>) \o Tell("taken", f)
    BY <1>6 DEF UserOpens
  <2> DEFINE x == Tell("queued", f)
             z == Tell("taken", f)
             y == x \o <<TurnLine>>
  <2>2. f \in Users
    BY <2>1, UserFrame
  <2>3. /\ x \in Seq(Lines) /\ z \in Seq(Lines) /\ f.msg \in Msgs
        /\ \A m : m # f.msg => Lacks(x, {QueuedLine(m)})
        /\ \A S : TakenLine(f.msg) \notin S => Lacks(z, S)
        /\ f = User(f.msg, TRUE) /\ ~cli.mute => ~Lacks(z, {TakenLine(f.msg)})
        /\ f # User(f.msg, TRUE) \/ cli.mute => x = <<>> /\ z = <<>>
    BY <2>2, TellIs
  <2>4. new = y \o z
    BY <2>1
  <2> HIDE DEF x, z
  <2>5. TurnLine \in Lines /\ <<TurnLine>> \in Seq(Lines)
    BY LinesSaid DEF TurnLine
  <2>6. \A S : Lacks(y, S) <=> Lacks(x, S) /\ TurnLine \notin S
    <3>1. \A S : Lacks(<<TurnLine>>, S) <=> TurnLine \notin S
      BY <2>5, ShortFacts
    <3> QED BY <2>3, <2>5, <3>1, LacksFacts
  <2>7. y \in Seq(Lines)
    BY <2>3, <2>5
  <2> HIDE DEF y
  <2>8. \A S : Lacks(new, S) <=> Lacks(y, S) /\ Lacks(z, S)
    BY <2>3, <2>4, <2>7, LacksFacts
  <2>9. Ahead'
    BY <2>1 DEF Ahead
  <2>10. ASSUME NEW m \in Msgs PROVE MessageSaid(new, m)
    <3>1. Inside(m) => Inside(m)'
      BY <2>1 DEF Inside
    <3>2. Lacks(z, {QueuedLine(m)}) /\ TurnLine \notin {QueuedLine(m)}
      BY <2>3, KindsApart
    <3>3. ~Lacks(new, {QueuedLine(m)}) => ~cli.mute /\ m = f.msg /\ f = User(f.msg, TRUE)
      <4>1. Lacks(<<>>, {QueuedLine(m)})
        BY DEF Lacks
      <4> QED BY <2>3, <2>6, <2>8, <3>2, <4>1
    <3>4. Followed(new, {QueuedLine(m)}, {TakenLine(m)})
      <4>1. CASE Lacks(new, {QueuedLine(m)})
        BY <4>1, FollowedNone
      <4>2. CASE ~Lacks(new, {QueuedLine(m)})
        <5>1. ~Lacks(z, {TakenLine(m)})
          BY <2>3, <3>3, <4>2
        <5>2. Followed(z, {QueuedLine(m)}, {TakenLine(m)})
          BY <3>2, FollowedNone
        <5> DEFINE P == {QueuedLine(m)}
                   Q == {TakenLine(m)}
        <5> HIDE DEF P, Q
        <5>3. Followed(z, P, Q) /\ ~Lacks(z, Q)
          BY <5>1, <5>2 DEF P, Q
        <5>4. Followed(new, P, Q)
          BY <2>3, <2>4, <2>7, <5>3, FollowedJoin
        <5> QED BY <5>4 DEF P, Q
      <4> QED BY <4>1, <4>2
    <3>5. Arrived(m) => Arrived(m)'
      <4>1. turns'[f.msg] # 0
        BY <1>1, <2>1, <2>3, TakenTurns
      <4>2. ~Free(UsersOf(m)) => ~Free(UsersOf(m))' \/ f.msg = m
        BY <1>3, <1>4, <2>1 DEF Reading
      <4> QED BY <1>2, <2>1, <4>1, <4>2 DEF Arrived, UsersOf
    <3> QED BY <3>1, <3>3, <3>4, <3>5 DEF MessageSaid
  <2> QED BY <1>1, <2>9, <2>10 DEF ClaudeSays, WorkSaid
<1>7. CASE UserWaits(new)
  <2>1. PICK f \in Frames : /\ Reading(f) /\ f.is = "user" /\ turns' = turns
                            /\ cli'.inbox = Append(cli.inbox, f) /\ new = Tell("queued", f)
    BY <1>7 DEF UserWaits
  <2>2. f \in Users
    BY <2>1, UserFrame
  <2>3. /\ \A m : m # f.msg => Lacks(new, {QueuedLine(m)})
        /\ \A S : QueuedLine(f.msg) \notin S => Lacks(new, S)
        /\ f # User(f.msg, TRUE) \/ cli.mute => new = <<>>
    BY <2>1, <2>2, TellIs
  <2>4. \A S : Lacks(cli'.inbox, S) <=> Lacks(cli.inbox, S) /\ f \notin S
    BY <1>1, <2>1, <2>2, AppendFacts
  <2>5. Ahead'
    <3>1. ~Lacks(cli'.inbox, {f})
      BY <2>4
    <3>2. cli'.inbox # <<>>
      BY <3>1 DEF Lacks
    <3> QED BY <3>2 DEF Ahead
  <2>6. ASSUME NEW m \in Msgs PROVE MessageSaid(new, m)
    <3>1. Inside(m) => Inside(m)'
      BY <2>4 DEF Inside
    <3>3. ~Lacks(new, {QueuedLine(m)}) => ~cli.mute /\ m = f.msg /\ f = User(f.msg, TRUE)
      <4>1. Lacks(<<>>, {QueuedLine(m)})
        BY DEF Lacks
      <4> QED BY <2>3, <4>1
    <3>4. Inside(m)' \/ Followed(new, {QueuedLine(m)}, {TakenLine(m)})
      <4>1. CASE Lacks(new, {QueuedLine(m)})
        BY <4>1, FollowedNone
      <4>2. CASE ~Lacks(new, {QueuedLine(m)})
        BY <2>4, <3>3, <4>2 DEF Inside
      <4> QED BY <4>1, <4>2
    <3>5. Arrived(m) => Arrived(m)'
      <4>1. ~Free(UsersOf(m)) => ~Free(UsersOf(m))' \/ f \in UsersOf(m)
        BY <1>3, <2>1 DEF Reading
      <4>2. ~Lacks(cli.inbox, UsersOf(m)) \/ f \in UsersOf(m) => ~Lacks(cli'.inbox, UsersOf(m))
        BY <2>4
      <4> QED BY <2>1, <4>1, <4>2 DEF Arrived, UsersOf
    <3> QED BY <3>1, <3>3, <3>4, <3>5 DEF MessageSaid
  <2> QED BY <1>1, <2>5, <2>6 DEF ClaudeSays, WorkSaid
<1>8. CASE UserJoins(new)
  <2> DEFINE f == Head(cli.inbox)
             z == Tell("taken", f)
  <2>1. /\ wire' = wire /\ cli.inbox # <<>> /\ Take({f.msg}) /\ cli'.turn /\ cli'.inbox = Tail(cli.inbox)
        /\ new = z \/ new = <<TurnLine>> \o z
    BY <1>8 DEF UserJoins
  <2>2. f \in Users
    BY <1>1, <2>1, TailFacts
  <2>3. /\ z \in Seq(Lines) /\ f.msg \in Msgs
        /\ \A S : TakenLine(f.msg) \notin S => Lacks(z, S)
        /\ f = User(f.msg, TRUE) /\ ~cli.mute => ~Lacks(z, {TakenLine(f.msg)})
    BY <2>2, TellIs
  <2> HIDE DEF z
  <2>4. \A S : ~Lacks(cli.inbox, S) => ~Lacks(cli'.inbox, S) \/ f \in S
    BY <1>1, <2>1, TailFacts
  <2> HIDE DEF f
  <2>5. TurnLine \in Lines /\ <<TurnLine>> \in Seq(Lines)
    BY LinesSaid DEF TurnLine
  <2>6. \A S : /\ TurnLine \notin S /\ Lacks(z, S) => Lacks(new, S)
               /\ ~Lacks(z, S) => ~Lacks(new, S)
    <3>1. \A S : Lacks(<<TurnLine>>, S) <=> TurnLine \notin S
      BY <2>5, ShortFacts
    <3>2. \A S : Lacks(<<TurnLine>> \o z, S) <=> Lacks(<<TurnLine>>, S) /\ Lacks(z, S)
      BY <2>3, <2>5, LacksFacts
    <3> QED BY <2>1, <3>1, <3>2
  <2>7. Ahead'
    BY <2>1 DEF Ahead
  <2>8. ASSUME NEW m \in Msgs PROVE MessageSaid(new, m)
    <3>1. Lacks(new, {QueuedLine(m)})
      <4>1. TakenLine(f.msg) # QueuedLine(m) /\ TurnLine # QueuedLine(m)
        BY KindsApart
      <4> QED BY <2>3, <2>6, <4>1
    <3>2. Followed(new, {QueuedLine(m)}, {TakenLine(m)})
      BY <3>1, FollowedNone
    <3>3. Inside(m) /\ ~cli.mute => Inside(m)' \/ ~Lacks(new, {TakenLine(m)})
      <4>1. Inside(m) => Inside(m)' \/ f = User(m, TRUE)
        BY <2>4 DEF Inside
      <4>2. f = User(m, TRUE) => f.msg = m
        BY DEF User
      <4> QED BY <2>3, <2>6, <4>1, <4>2
    <3>4. Arrived(m) => Arrived(m)'
      <4>1. ~Free(UsersOf(m)) => ~Free(UsersOf(m))'
        BY <1>1, <2>1 DEF Free, Clear, Writing
      <4>2. turns'[f.msg] # 0
        BY <1>1, <2>1, <2>3, TakenTurns
      <4>3. ~Lacks(cli.inbox, UsersOf(m)) => ~Lacks(cli'.inbox, UsersOf(m)) \/ f.msg = m
        BY <1>4, <2>4
      <4> QED BY <1>2, <4>1, <4>2, <4>3 DEF Arrived, UsersOf
    <3> QED BY <3>1, <3>2, <3>3, <3>4 DEF MessageSaid
  <2> QED BY <1>1, <2>7, <2>8 DEF ClaudeSays, WorkSaid
<1>9. ASSUME NoUserRead, turns' = turns, cli'.inbox = cli.inbox, NEW m \in Msgs,
             Lacks(new, {QueuedLine(m)})
      PROVE  MessageSaid(new, m)
  <2>1. Followed(new, {QueuedLine(m)}, {TakenLine(m)})
    BY <1>9, FollowedNone
  <2>2. Inside(m) => Inside(m)'
    BY <1>9 DEF Inside
  <2>3. ~Free(UsersOf(m)) => ~Free(UsersOf(m))'
    <3>1. ASSUME ~Free(UsersOf(m)) PROVE ~Free(UsersOf(m))'
      <4> DEFINE F == UsersOf(m)
      <4>1. F \subseteq UserFrames /\ ~Free(F)
        BY <1>4, <3>1
      <4>2. ~Free(F)'
        BY <1>5, <1>9, <4>1
      <4> QED BY <4>2
    <3> QED BY <3>1 DEF Free, Clear, Writing
  <2> QED BY <1>9, <2>1, <2>2, <2>3 DEF MessageSaid, Arrived, UsersOf
<1>10. CASE TurnEnds(new)
  <2>1. PICK x \in Results : new = <<x>>
    BY <1>10 DEF TurnEnds
  <2>2. /\ ~Lacks(new, Results) /\ Lacks(new, TurnLines) /\ \A m : Lacks(new, {QueuedLine(m)})
    <3>1. \A m : x # QueuedLine(m)
      BY KindsApart
    <3>2. x \notin TurnLines
      BY KindsApart
    <3> QED BY <2>1, <3>1, <3>2 DEF Lacks
  <2>3. \A m \in Msgs : MessageSaid(new, m)
    BY <1>9, <1>10, <2>2 DEF TurnEnds
  <2>4. WorkSaid(new)
    BY <2>2, FollowedNone DEF WorkSaid
  <2> QED BY <1>1, <2>3, <2>4 DEF ClaudeSays
<1>11. CASE Mutters(new)
  <2>1. /\ Lacks(new, TurnLines) /\ \A m : Lacks(new, {QueuedLine(m)})
    BY <1>11 DEF Mutters, Lacks, TurnLines, QueuedLine
  <2>2. \A m \in Msgs : MessageSaid(new, m)
    BY <1>9, <1>11, <2>1 DEF Mutters
  <2>3. Ahead => Ahead'
    <3>1. ~Free(UserFrames) => ~Free(UserFrames)'
      <4>1. ASSUME ~Free(UserFrames) PROVE ~Free(UserFrames)'
        BY <1>5, <1>11, <4>1 DEF Mutters
      <4> QED BY <4>1 DEF Free, Clear, Writing
    <3> QED BY <1>11, <3>1 DEF Mutters, Ahead
  <2>4. WorkSaid(new)
    BY <2>1, <2>3, FollowedNone DEF WorkSaid
  <2> QED BY <1>1, <2>2, <2>4 DEF ClaudeSays
<1> QED BY <1>6, <1>7, <1>8, <1>10, <1>11 DEF ClaudeDoes

-----------------------------------------------------------------------------
(* A Claude session that is at rest: work that is under way ends, and a     *)
(* message that the CLI keeps is known to be kept until it is taken.        *)

WorkAhead == alive /\ drv.state # "idle" => Ahead \/ ~Lacks(lines, Results)
TurnsEnd == alive /\ ~Ahead => Followed(lines, TurnLines, Results)
KeptOf(m) ==
    /\ m \in drv.queued \/ ~Lacks(lines, {QueuedLine(m)}) => ~cli.mute
    /\ m \in drv.queued => Inside(m) \/ ~Lacks(lines, {TakenLine(m)})
    /\ Inside(m) \/ Followed(lines, {QueuedLine(m)}, {TakenLine(m)})
KeptInside == \A m \in Msgs : KeptOf(m)
SteersArrive == alive => \A m \in steered : Arrived(m)
OwesWork == alive /\ owed # {} => drv.state # "idle" \/ ~Lacks(todo["reader"], {Finished})
RunsWork ==
    alive /\ (working \/ ~Lacks(todo["reader"], {Started})) =>
        Ahead \/ ~Lacks(lines, Results) \/ ~Lacks(todo["reader"], {Finished})
CallersWrite ==
    \A t \in Callers :
        Followed(todo[t], {Started}, Writing(UserFrames)) /\ Lacks(todo[t], {Finished, Failed})
OneNews == Lacks(todo["reader"], {Started}) \/ Lacks(todo["reader"], {Finished})

ClaudeRest ==
    /\ ClaudeNeat(drv) /\ WorkAhead /\ TurnsEnd /\ KeptInside /\ SteersArrive
    /\ OwesWork /\ RunsWork /\ CallersWrite /\ OneNews

LEMMA ClaudeRestCalling ==
    ASSUME Shape, provider = "claude", ClaudeRest, NEW t, NEW new, NEW steps, Calling(t, new, steps)
    PROVE  ClaudeRest'
<1> DEFINE r == [drv |-> drv', steps |-> steps]
<1>1. /\ t \in Threads /\ t # "reader" /\ todo[t] = <<>> /\ WayShape
      /\ todo' = [todo EXCEPT ![t] = steps]
      /\ todo'[t] = steps /\ \A u \in Threads \ {t} : todo'[u] = todo[u]
      /\ UNCHANGED <<provider, wire, lines, alive, cli, working, turns>>
      /\ new \subseteq Msgs
  BY CallIs
<1>2. ClaudeTold(drv, r, new) /\ owed' = owed \cup new /\ steered' \subseteq steered \cup new
  BY DEF Calling, ToldSo
<1>3. r.drv = drv' /\ r.steps = steps
  OBVIOUS
<1> HIDE DEF r
<1>4. ASSUME NEW F, ~Free(F) \/ ~Lacks(steps, Writing(F)) PROVE ~Free(F)'
  BY <1>1, <1>4, StillMoves
<1>5. todo'["reader"] = todo["reader"] /\ Callers \subseteq Threads
  BY <1>1, ReaderIsNoCaller
<1>6. Ahead => Ahead'
  <2>1. ~Free(UserFrames) => ~Free(UserFrames)'
    <3>1. ASSUME ~Free(UserFrames) PROVE ~Free(UserFrames)'
      BY <1>4, <3>1
    <3> QED BY <3>1 DEF Free, Clear, Writing
  <2> QED BY <1>1, <2>1 DEF Ahead
<1>7. ASSUME NEW m \in new PROVE ~Free(UsersOf(m))' /\ Ahead'
  <2>1. ~Lacks(steps, Writing(UsersOf(m)))
    BY <1>2, <1>3 DEF ClaudeTold
  <2>2. Writing(UsersOf(m)) \subseteq Writing(UserFrames)
    BY DEF Writing, UsersOf, UserFrames
  <2>3. ~Lacks(steps, Writing(UserFrames))
    BY <2>1, <2>2, LacksLess
  <2>4. ~Free(UserFrames)'
    BY <1>4, <2>3
  <2> DEFINE F == UsersOf(m)
  <2>5. ~Free(F)'
    BY <1>4, <2>1
  <2>6. ~Free(UsersOf(m))'
    BY <2>5
  <2> QED BY <2>4, <2>6 DEF Ahead
<1>8. ClaudeNeat(drv)'
  <2>1. drv'.state = "idle" => drv.state = "idle" /\ new = {}
    BY <1>2, <1>3 DEF ClaudeTold
  <2>2. ClaudeNeat(drv)
    BY DEF ClaudeRest
  <2>3. /\ drv.state = "idle" => drv'.steers = drv.steers
        /\ drv.steers \subseteq drv'.steers /\ drv'.queued = drv.queued
    BY <1>2, <1>3 DEF ClaudeTold
  <2> QED BY <2>1, <2>2, <2>3 DEF ClaudeNeat
<1>9. WorkAhead'
  <2>1. drv'.state # "idle" => drv.state # "idle" \/ \E m \in new : TRUE
    BY <1>2, <1>3 DEF ClaudeTold
  <2>2. (\E m \in new : TRUE) => Ahead'
    BY <1>7
  <2> QED BY <1>1, <1>6, <2>1, <2>2 DEF ClaudeRest, WorkAhead
<1>10. TurnsEnd'
  BY <1>1, <1>6 DEF ClaudeRest, TurnsEnd, TurnLines, Results
<1>11. KeptInside'
  <2>1. drv'.queued = drv.queued
    BY <1>2, <1>3 DEF ClaudeTold
  <2> QED BY <1>1, <2>1 DEF ClaudeRest, KeptInside, KeptOf, Inside
<1>12. SteersArrive'
  <2> SUFFICES ASSUME alive, NEW m \in steered'
               PROVE  Arrived(m)'
    BY <1>1 DEF SteersArrive
  <2>1. CASE m \in new
    BY <1>7, <2>1 DEF Arrived, UsersOf
  <2>2. CASE m \in steered
    <3>1. Arrived(m)
      BY <2>2 DEF ClaudeRest, SteersArrive
    <3>2. CASE ~Free(UsersOf(m))
      <4> DEFINE F == UsersOf(m)
      <4>1. ~Free(F)'
        BY <1>4, <3>2
      <4>2. ~Free(UsersOf(m))'
        BY <4>1
      <4> QED BY <4>2 DEF Arrived, UsersOf
    <3>3. CASE Free(UsersOf(m))
      BY <1>1, <3>1, <3>3 DEF Arrived, UsersOf
    <3> QED BY <3>2, <3>3
  <2> QED BY <1>2, <2>1, <2>2
<1>13. OwesWork'
  <2>1. new # {} \/ drv.state # "idle" => drv'.state # "idle"
    BY <1>2, <1>3 DEF ClaudeTold
  <2> QED BY <1>1, <1>2, <1>5, <2>1 DEF ClaudeRest, OwesWork
<1>14. RunsWork'
  BY <1>1, <1>5, <1>6 DEF ClaudeRest, RunsWork, Results
<1>15. CallersWrite' /\ OneNews'
  <2>1. Followed(steps, {Started}, Writing(UserFrames)) /\ Lacks(steps, {Finished, Failed})
    BY <1>2, <1>3 DEF ClaudeTold
  <2>2. OneNews'
    BY <1>5 DEF ClaudeRest, OneNews
  <2>3. \A u \in Callers : todo'[u] = todo[u] \/ todo'[u] = steps
    BY <1>1, <1>5
  <2>4. ASSUME NEW u \in Callers
        PROVE  Followed(todo'[u], {Started}, Writing(UserFrames)) /\ Lacks(todo'[u], {Finished, Failed})
    BY <2>1, <2>3 DEF ClaudeRest, CallersWrite
  <2>5. CallersWrite'
    BY <2>4 DEF CallersWrite, Writing
  <2> QED BY <2>2, <2>5
<1> QED BY <1>8, <1>9, <1>10, <1>11, <1>12, <1>13, <1>14, <1>15 DEF ClaudeRest

LEMMA ClaudeRestHearing ==
    ASSUME Shape, provider = "claude", ClaudeRest, NEW steps, Hearing(steps)
    PROVE  ClaudeRest'
<1> DEFINE line == Head(lines)
           r == [drv |-> drv', steps |-> steps]
<1>1. /\ "reader" \in Threads /\ todo["reader"] = <<>> /\ WayShape
      /\ todo' = [todo EXCEPT !["reader"] = steps]
      /\ todo'["reader"] = steps /\ \A u \in Threads \ {"reader"} : todo'[u] = todo[u]
      /\ lines \in Seq(Lines) /\ lines # <<>> /\ lines' = Tail(lines) /\ line \in Lines
      /\ UNCHANGED <<provider, wire, alive, cli, turns, working, owed, steered>>
  BY HearIs DEF userVars
<1>2. ClaudeHears(drv, r, line)
  BY DEF Hearing, HearsSo
<1>3. r.drv = drv' /\ r.steps = steps
  OBVIOUS
<1> HIDE DEF r
<1>4. ASSUME NEW F, ~Free(F) PROVE ~Free(F)'
  BY <1>1, <1>4, StillMoves
<1>5. Ahead => Ahead'
  <2>1. ~Free(UserFrames) => ~Free(UserFrames)'
    <3>1. ASSUME ~Free(UserFrames) PROVE ~Free(UserFrames)'
      BY <1>4, <3>1
    <3> QED BY <3>1 DEF Free, Clear, Writing
  <2> QED BY <1>1, <2>1 DEF Ahead
<1>6. \A S : ~Lacks(lines, S) => ~Lacks(lines', S) \/ line \in S
  BY <1>1, TailFacts
<1>7. \A S : ~Lacks(lines', S) \/ line \in S => ~Lacks(lines, S)
  BY <1>1, TailFacts
<1>8. alive /\ ~Ahead => Followed(lines', TurnLines, Results) /\ (line \in TurnLines => ~Lacks(lines', Results))
  <2> SUFFICES ASSUME alive, ~Ahead
               PROVE  Followed(lines', TurnLines, Results) /\ (line \in TurnLines => ~Lacks(lines', Results))
    OBVIOUS
  <2>1. Followed(lines, TurnLines, Results) /\ TurnLines \cap Results = {}
    BY KindsApart DEF ClaudeRest, TurnsEnd
  <2> DEFINE P == TurnLines
             Q == Results
  <2> HIDE DEF P, Q
  <2>2. Followed(lines, P, Q) /\ P \cap Q = {}
    BY <2>1 DEF P, Q
  <2>3. Followed(Tail(lines), P, Q) /\ (line \in P => ~Lacks(Tail(lines), Q))
    BY <1>1, <2>2, FollowedTail
  <2> QED BY <1>1, <2>3 DEF P, Q
<1>9. ASSUME NEW m \in Msgs
      PROVE  Inside(m) \/ (/\ Followed(lines', {QueuedLine(m)}, {TakenLine(m)})
                           /\ line = QueuedLine(m) => ~Lacks(lines', {TakenLine(m)}))
  <2> SUFFICES ASSUME ~Inside(m)
               PROVE  /\ Followed(lines', {QueuedLine(m)}, {TakenLine(m)})
                      /\ line = QueuedLine(m) => ~Lacks(lines', {TakenLine(m)})
    OBVIOUS
  <2> DEFINE P == {QueuedLine(m)}
             Q == {TakenLine(m)}
  <2>1. Followed(lines, P, Q)
    BY DEF ClaudeRest, KeptInside, KeptOf
  <2>2. P \cap Q = {}
    BY KindsApart
  <2>3. line = QueuedLine(m) => line \in P
    OBVIOUS
  <2> HIDE DEF P, Q
  <2>4. Followed(Tail(lines), P, Q) /\ (line \in P => ~Lacks(Tail(lines), Q))
    BY <1>1, <2>1, <2>2, FollowedTail
  <2>5. Followed(lines', P, Q) /\ (line = QueuedLine(m) => ~Lacks(lines', Q))
    BY <1>1, <2>3, <2>4
  <2> QED BY <2>5 DEF P, Q
<1> HIDE DEF line
<1>10. /\ ClaudeNeat(drv) /\ ClaudeNeat(drv') /\ drv.queued \subseteq Msgs
       /\ \A m \in drv'.queued : (m \in drv.queued /\ line # TakenLine(m)) \/ line = QueuedLine(m)
       /\ drv'.queued \subseteq Msgs
  <2>1. drv.queued \subseteq Msgs
    BY ClaudeFields DEF Shape, DriverShape
  <2>2. drv'.queued \subseteq Msgs
    <3>1. DriverShape'
      BY HearIs DEF DriverMoves
    <3> QED BY <1>1, <3>1, ClaudeFields DEF DriverShape
  <2>3. ClaudeNeat(drv)
    BY DEF ClaudeRest
  <2> QED BY <1>2, <1>3, <2>1, <2>2, <2>3 DEF ClaudeHears
<1>11. ASSUME NEW m \in Msgs PROVE KeptOf(m)'
  <2>1. KeptOf(m) /\ Inside(m)' = Inside(m)
    BY <1>1 DEF ClaudeRest, KeptInside, Inside
  <2>2. m \in drv'.queued => (m \in drv.queued /\ line # TakenLine(m)) \/ line = QueuedLine(m)
    BY <1>10
  <2>3. m \in drv'.queued \/ ~Lacks(lines', {QueuedLine(m)}) => m \in drv.queued \/ ~Lacks(lines, {QueuedLine(m)})
    BY <1>7, <2>2
  <2>4. m \in drv'.queued => Inside(m) \/ ~Lacks(lines', {TakenLine(m)})
    <3>1. ~Lacks(lines, {TakenLine(m)}) => ~Lacks(lines', {TakenLine(m)}) \/ line = TakenLine(m)
      BY <1>6
    <3> QED BY <1>9, <2>1, <2>2, <3>1 DEF KeptOf
  <2>5. Inside(m) \/ Followed(lines', {QueuedLine(m)}, {TakenLine(m)})
    BY <1>9
  <2> QED BY <1>1, <2>1, <2>3, <2>4, <2>5 DEF KeptOf
<1>12. ASSUME alive, line \in TurnLines \/ (line \in Results /\ drv.queued # {})
       PROVE  Ahead \/ ~Lacks(lines', Results)
  <2> SUFFICES ASSUME ~Ahead PROVE ~Lacks(lines', Results)
    OBVIOUS
  <2>1. CASE line \in TurnLines
    BY <1>8, <1>12, <2>1
  <2>2. CASE line \in Results /\ drv.queued # {}
    <3>1. PICK m \in drv.queued : TRUE
      BY <2>2
    <3>2. m \in Msgs
      BY <1>10
    <3>3. ~Inside(m)
      <4>1. cli.inbox = <<>>
        BY DEF Ahead
      <4>2. \A S : Lacks(<<>>, S)
        BY DEF Lacks
      <4> QED BY <4>1, <4>2 DEF Inside
    <3>4. ~Lacks(lines, {TakenLine(m)})
      BY <3>1, <3>2, <3>3 DEF ClaudeRest, KeptInside, KeptOf
    <3>5. line # TakenLine(m) /\ TakenLine(m) \in TurnLines
      BY <2>2, <3>2, KindsApart
    <3>6. ~Lacks(lines', {TakenLine(m)})
      BY <1>6, <3>4, <3>5
    <3>7. ~Lacks(lines', TurnLines)
      BY <3>5, <3>6, LacksLess
    <3>8. Followed(lines', TurnLines, Results)
      BY <1>8, <1>12
    <3> QED BY <3>7, <3>8 DEF Followed, Lacks
  <2> QED BY <1>12, <2>1, <2>2
<1>13. ~Lacks(lines, Results) => ~Lacks(lines', Results) \/ line \in Results
  BY <1>6
<1>14. Lacks(todo["reader"], {Finished}) /\ Lacks(todo["reader"], {Started})
  BY <1>1 DEF Lacks
<1>15. WorkAhead'
  <2> SUFFICES ASSUME alive, drv'.state # "idle" PROVE Ahead \/ ~Lacks(lines', Results)
    BY <1>1, <1>5 DEF WorkAhead, Results
  <2>1. (drv.state # "idle" /\ (line \in Results => drv.queued # {})) \/ line \in TurnLines
    BY <1>2, <1>3 DEF ClaudeHears
  <2>2. drv.state # "idle" => Ahead \/ ~Lacks(lines, Results)
    BY DEF ClaudeRest, WorkAhead
  <2> QED BY <1>12, <1>13, <2>1, <2>2
<1>16. TurnsEnd'
  BY <1>1, <1>5, <1>8 DEF TurnsEnd, TurnLines, Results
<1>17. SteersArrive'
  <2> SUFFICES ASSUME alive, NEW m \in steered
               PROVE  Arrived(m)'
    BY <1>1 DEF SteersArrive
  <2>1. Arrived(m)
    BY DEF ClaudeRest, SteersArrive
  <2>2. CASE ~Free(UsersOf(m))
    <3> DEFINE F == UsersOf(m)
    <3>1. ~Free(F)'
      BY <1>4, <2>2
    <3>2. ~Free(UsersOf(m))'
      BY <3>1
    <3> QED BY <3>2 DEF Arrived, UsersOf
  <2>3. CASE Free(UsersOf(m))
    BY <1>1, <2>1, <2>3 DEF Arrived, UsersOf
  <2> QED BY <2>2, <2>3
<1>18. OwesWork'
  <2>1. drv.state # "idle" => drv'.state # "idle" \/ ~Lacks(steps, {Finished})
    BY <1>2, <1>3 DEF ClaudeHears
  <2>2. alive /\ owed # {} => drv.state # "idle"
    BY <1>14 DEF ClaudeRest, OwesWork
  <2> QED BY <1>1, <2>1, <2>2 DEF OwesWork
<1>19. RunsWork'
  <2> SUFFICES ASSUME alive, working \/ ~Lacks(steps, {Started})
               PROVE  Ahead \/ ~Lacks(lines', Results) \/ ~Lacks(steps, {Finished})
    BY <1>1, <1>5 DEF RunsWork, Results
  <2>1. working => Ahead \/ ~Lacks(lines, Results)
    BY <1>14 DEF ClaudeRest, RunsWork
  <2>2. /\ line \in Results => drv.queued # {} \/ ~Lacks(steps, {Finished})
        /\ ~Lacks(steps, {Started}) => line \in TurnLines
    BY <1>2, <1>3 DEF ClaudeHears
  <2> QED BY <1>12, <1>13, <2>1, <2>2
<1>20. CallersWrite' /\ OneNews'
  <2>1. \A u \in Callers : todo'[u] = todo[u]
    BY <1>1, ReaderIsNoCaller
  <2>2. CallersWrite'
    BY <2>1 DEF ClaudeRest, CallersWrite, Writing, UserFrames
  <2>3. OneNews'
    BY <1>1, <1>2, <1>3 DEF ClaudeHears, OneNews
  <2> QED BY <2>2, <2>3
<1> QED BY <1>1, <1>10, <1>11, <1>15, <1>16, <1>17, <1>18, <1>19, <1>20 DEF ClaudeRest, KeptInside, ClaudeNeat

LEMMA ClaudeRestActing ==
    ASSUME Shape, provider = "claude", ClaudeRest, NEW t \in Threads, Acting(t)
    PROVE  ClaudeRest'
<1> DEFINE x == Head(todo[t])
<1>1. /\ UNCHANGED <<provider, drv, lines, alive, cli, turns, steered>> /\ Callers \subseteq Threads
      /\ todo[t] # <<>> /\ todo[t] \in Seq(Steps) /\ "reader" \in Threads
      /\ \A u \in Threads \ {t} : todo'[u] = todo[u]
      /\ todo'[t] \in {<<>>, Tail(todo[t])} /\ (alive => todo'[t] = Tail(todo[t]))
  BY ActIs, ReaderIsNoCaller DEF Threads
<1>2. \A S : \A u \in Threads : Lacks(todo[u], S) => Lacks(todo'[u], S)
  BY ActsLess
<1>3. ASSUME alive, NEW F, ~Free(F) PROVE ~Free(F)'
  BY <1>3, StillActs
<1>4. alive => (Ahead => Ahead')
  <2>1. ASSUME alive, ~Free(UserFrames) PROVE ~Free(UserFrames)'
    BY <1>3, <2>1
  <2>2. alive => (~Free(UserFrames) => ~Free(UserFrames)')
    BY <2>1 DEF Free, Clear, Writing
  <2> QED BY <1>1, <2>2 DEF Ahead
<1>5. ClaudeNeat(drv)' /\ KeptInside'
  BY <1>1 DEF ClaudeRest, ClaudeNeat, KeptInside, KeptOf, Inside
<1>6. WorkAhead' /\ TurnsEnd'
  BY <1>1, <1>4 DEF ClaudeRest, WorkAhead, TurnsEnd, TurnLines, Results
<1>7. SteersArrive'
  <2> SUFFICES ASSUME alive, NEW m \in steered
               PROVE  Arrived(m)'
    BY <1>1 DEF SteersArrive
  <2>1. Arrived(m)
    BY DEF ClaudeRest, SteersArrive
  <2>2. CASE ~Free(UsersOf(m))
    <3> DEFINE F == UsersOf(m)
    <3>1. ~Free(F)'
      BY <1>3, <2>2
    <3>2. ~Free(UsersOf(m))'
      BY <3>1
    <3> QED BY <3>2 DEF Arrived, UsersOf
  <2>3. CASE Free(UsersOf(m))
    BY <1>1, <2>1, <2>3 DEF Arrived, UsersOf
  <2> QED BY <2>2, <2>3
<1>8. alive => /\ working' <=> x = Started \/ (working /\ x \notin Endings)
               /\ owed' = IF x \in Endings THEN {} ELSE owed
  BY ActShows
<1>9. alive => \A S : ~Lacks(todo["reader"], S) =>
                         ~Lacks(todo'["reader"], S) \/ (t = "reader" /\ x \in S)
  BY DueActs
<1>10. Finished \in Endings /\ Started \notin Endings
  BY OfKind
<1>11. alive /\ ~Lacks(todo["reader"], {Finished}) /\ x \notin Endings => ~Lacks(todo'["reader"], {Finished})
  BY <1>9, <1>10
<1>12. OwesWork'
  <2> SUFFICES ASSUME alive, owed' # {} PROVE drv.state # "idle" \/ ~Lacks(todo'["reader"], {Finished})
    BY <1>1 DEF OwesWork
  <2>1. owed # {} /\ x \notin Endings
    BY <1>8
  <2> QED BY <1>11, <2>1 DEF ClaudeRest, OwesWork
<1>13. ~Lacks(todo["reader"], {Started}) => Lacks(todo["reader"], {Finished})
  BY DEF ClaudeRest, OneNews
<1>14. ASSUME NEW u \in Callers PROVE Followed(todo[u], {Started}, Writing(UserFrames)) /\ Lacks(todo[u], {Finished, Failed})
  BY DEF ClaudeRest, CallersWrite
<1>15. ~Lacks(todo[t], {Started}) \/ x # Started
  BY <1>1, TailFacts
<1>16. ASSUME t \in Callers
       PROVE  /\ Followed(Tail(todo[t]), {Started}, Writing(UserFrames))
              /\ x = Started => ~Lacks(Tail(todo[t]), Writing(UserFrames))
  <2> DEFINE P == {Started}
             Q == Writing(UserFrames)
             s == todo[t]
  <2>1. P \cap Q = {} /\ (x = Started => x \in P)
    BY DEF Started, Emit, Writing
  <2>2. Followed(s, P, Q) /\ s \in Seq(Steps) /\ s # <<>> /\ x = Head(s)
    BY <1>1, <1>14, <1>16
  <2> HIDE DEF P, Q, s, x
  <2>3. Followed(Tail(s), P, Q) /\ (x \in P => ~Lacks(Tail(s), Q))
    BY <2>1, <2>2, FollowedTail
  <2>4. Followed(Tail(s), P, Q) /\ (x = Started => ~Lacks(Tail(s), Q))
    BY <2>1, <2>3
  <2> QED BY <2>4 DEF P, Q, s
<1> HIDE DEF x
<1>17. ASSUME alive, x = Started, t \in Callers PROVE Ahead'
  <2>1. ~Lacks(todo'[t], Writing(UserFrames))
    BY <1>1, <1>16, <1>17
  <2>2. Free(UserFrames)' => Lacks(todo'[t], Writing(UserFrames))
    BY DEF Free, Clear, Writing
  <2> QED BY <2>1, <2>2 DEF Ahead
<1>18. RunsWork'
  <2> SUFFICES ASSUME alive, working' \/ ~Lacks(todo'["reader"], {Started})
               PROVE  Ahead' \/ ~Lacks(lines, Results) \/ ~Lacks(todo'["reader"], {Finished})
    BY <1>1 DEF RunsWork, Results
  <2>1. working \/ ~Lacks(todo["reader"], {Started}) =>
            Ahead \/ ~Lacks(lines, Results) \/ ~Lacks(todo["reader"], {Finished})
    BY DEF ClaudeRest, RunsWork
  <2>2. CASE ~Lacks(todo["reader"], {Started})
    BY <1>4, <1>13, <2>1, <2>2
  <2>3. CASE Lacks(todo["reader"], {Started})
    <3>1. working'
      BY <1>1, <1>2, <2>3
    <3>2. CASE x = Started
      <4>1. t # "reader"
        BY <1>15, <2>3, <3>2
      <4>2. t \in Callers
        BY <4>1 DEF Threads
      <4> QED BY <1>17, <3>2, <4>2
    <3>3. CASE x # Started
      <4>1. working /\ x \notin Endings
        BY <1>8, <3>1, <3>3
      <4> QED BY <1>4, <1>11, <2>1, <4>1
    <3> QED BY <3>2, <3>3
  <2> QED BY <2>2, <2>3
<1>19. CallersWrite'
  <2>1. ASSUME NEW u \in Callers
        PROVE  Followed(todo'[u], {Started}, Writing(UserFrames)) /\ Lacks(todo'[u], {Finished, Failed})
    <3>1. Lacks(todo'[u], {Finished, Failed})
      BY <1>1, <1>2, <1>14
    <3>2. CASE u # t
      <4>1. todo'[u] = todo[u]
        BY <1>1, <3>2
      <4> QED BY <1>14, <3>1, <4>1
    <3>3. CASE u = t
      <4>1. Followed(<<>>, {Started}, Writing(UserFrames))
        BY DEF Followed
      <4>2. Followed(todo'[t], {Started}, Writing(UserFrames))
        BY <1>1, <1>16, <3>3, <4>1
      <4> QED BY <3>1, <3>3, <4>2
    <3> QED BY <3>2, <3>3
  <2> QED BY <2>1 DEF CallersWrite, Writing
<1>20. OneNews'
  BY <1>1, <1>2 DEF ClaudeRest, OneNews
<1> QED BY <1>5, <1>6, <1>7, <1>12, <1>18, <1>19, <1>20 DEF ClaudeRest

LEMMA ClaudeRestFar ==
    ASSUME Shape, provider = "claude", ClaudeRest, Far, Serve \/ Work \/ Asking \/ Finish
    PROVE  ClaudeRest'
<1>1. /\ UNCHANGED <<provider, drv, todo, alive, working, owed, steered>> /\ lines \in Seq(Lines)
      /\ steered \subseteq Msgs
  BY FarIs DEF userVars, Shape, UserShape
<1>2. PICK new : ClaudeSays(new)
  BY ClaudeFarIs, ClaudeFarSays
<1>3. /\ new \in Seq(Lines) /\ lines' = lines \o new /\ cli'.mute = cli.mute
      /\ Ahead => Ahead' \/ ~Lacks(new, Results)
      /\ ~Ahead' => Followed(new, TurnLines, Results)
  BY <1>2 DEF ClaudeSays, Saying, WorkSaid
<1>4. ASSUME NEW m \in Msgs PROVE MessageSaid(new, m)
  BY <1>2 DEF ClaudeSays
<1>5. \A S : Lacks(lines', S) <=> Lacks(lines, S) /\ Lacks(new, S)
  BY <1>1, <1>3, LacksFacts
<1>6. ClaudeNeat(drv)' /\ OwesWork' /\ CallersWrite' /\ OneNews'
  BY <1>1 DEF ClaudeRest, ClaudeNeat, OwesWork, CallersWrite, OneNews, Writing, UserFrames
<1>7. WorkAhead' /\ RunsWork'
  BY <1>1, <1>3, <1>5 DEF ClaudeRest, WorkAhead, RunsWork, Results
<1>8. SteersArrive'
  BY <1>1, <1>4 DEF ClaudeRest, SteersArrive, MessageSaid
<1>9. TurnsEnd'
  <2> SUFFICES ASSUME alive, ~Ahead' PROVE Followed(lines', TurnLines, Results)
    BY <1>1 DEF TurnsEnd, TurnLines, Results
  <2> DEFINE P == TurnLines
             Q == Results
  <2>1. Followed(new, P, Q) /\ (Followed(lines, P, Q) \/ ~Lacks(new, Q))
    BY <1>3 DEF ClaudeRest, TurnsEnd
  <2> HIDE DEF P, Q
  <2>2. Followed(lines', P, Q)
    BY <1>1, <1>3, <2>1, FollowedJoin
  <2> QED BY <2>2 DEF P, Q
<1>10. ASSUME NEW m \in Msgs PROVE KeptOf(m)'
  <2> DEFINE P == {QueuedLine(m)}
             Q == {TakenLine(m)}
  <2>1. /\ ~Lacks(new, P) => ~cli.mute
        /\ Inside(m) /\ ~cli.mute => Inside(m)' \/ ~Lacks(new, Q)
        /\ Inside(m)' \/ Followed(new, P, Q)
    BY <1>4 DEF MessageSaid
  <2>2. /\ m \in drv.queued \/ ~Lacks(lines, P) => ~cli.mute
        /\ m \in drv.queued => Inside(m) \/ ~Lacks(lines, Q)
        /\ Inside(m) \/ Followed(lines, P, Q)
    BY DEF ClaudeRest, KeptInside, KeptOf
  <2> HIDE DEF P, Q
  <2>3. m \in drv.queued \/ ~Lacks(lines', P) => ~cli.mute
    BY <1>5, <2>1, <2>2
  <2>4. m \in drv.queued => Inside(m)' \/ ~Lacks(lines', Q)
    BY <1>5, <2>1, <2>2
  <2>5. Inside(m)' \/ Followed(lines', P, Q)
    <3> SUFFICES ASSUME ~Inside(m)' PROVE Followed(lines', P, Q)
      OBVIOUS
    <3>1. CASE Followed(lines, P, Q) \/ ~Lacks(new, Q)
      BY <1>1, <1>3, <2>1, <3>1, FollowedJoin
    <3>2. CASE ~Followed(lines, P, Q)
      <4>1. Inside(m) /\ ~Lacks(lines, P)
        BY <2>2, <3>2, FollowedNone
      <4> QED BY <2>1, <2>2, <3>1, <4>1
    <3> QED BY <3>1, <3>2
  <2> QED BY <1>1, <1>3, <2>3, <2>4, <2>5 DEF P, Q, KeptOf, QueuedLine, TakenLine
<1> QED BY <1>6, <1>7, <1>8, <1>9, <1>10 DEF ClaudeRest, KeptInside

LEMMA ClaudeRestRests ==
    ASSUME ClaudeRest, Resting
    PROVE  ClaudeRest'
<1>1. /\ UNCHANGED <<provider, drv, todo, wire, lines, cli, turns, working, steered>>
      /\ (alive' => alive) /\ (owed' = owed \/ owed' = {})
  BY DEF Resting, Rests
<1>2. Ahead' = Ahead
  BY <1>1 DEF Ahead, Free, Clear, Writing, UserFrames
<1>3. ClaudeNeat(drv)' /\ OwesWork' /\ CallersWrite' /\ OneNews'
  BY <1>1 DEF ClaudeRest, ClaudeNeat, OwesWork, CallersWrite, OneNews, Writing, UserFrames
<1>4. WorkAhead' /\ RunsWork' /\ TurnsEnd'
  BY <1>1, <1>2 DEF ClaudeRest, WorkAhead, RunsWork, TurnsEnd, Results, TurnLines
<1>5. SteersArrive'
  BY <1>1 DEF ClaudeRest, SteersArrive, Arrived, Free, Clear, Writing, UsersOf
<1>6. KeptInside'
  BY <1>1 DEF ClaudeRest, KeptInside, KeptOf, Inside
<1> QED BY <1>3, <1>4, <1>5, <1>6 DEF ClaudeRest

LEMMA ClaudeRestStarts ==
    ASSUME Init, provider = "claude"
    PROVE  ClaudeRest
<1>1. /\ todo = [t \in Threads |-> <<>>] /\ lines = <<>> /\ ~working /\ owed = {} /\ steered = {}
      /\ drv = ClaudeNew /\ \E mute \in BOOLEAN : cli = ClaudeCli(mute)
  BY DEF Init
<1>2. drv.state = "idle" /\ drv.steers = {} /\ drv.queued = {}
  BY <1>1 DEF ClaudeNew
<1>3. \A t \in Threads : todo[t] = <<>>
  BY <1>1
<1>4. \A S : Lacks(<<>>, S)
  BY DEF Lacks
<1>5. \A P, Q : Followed(<<>>, P, Q)
  BY DEF Followed
<1>6. ClaudeNeat(drv) /\ WorkAhead /\ TurnsEnd /\ SteersArrive /\ OwesWork
  BY <1>1, <1>2, <1>5 DEF ClaudeNeat, WorkAhead, TurnsEnd, SteersArrive, OwesWork
<1>7. KeptInside
  BY <1>1, <1>2, <1>4, <1>5 DEF KeptInside, KeptOf
<1>8. RunsWork /\ CallersWrite /\ OneNews
  BY <1>1, <1>3, <1>4, <1>5, ReaderIsNoCaller DEF RunsWork, CallersWrite, OneNews
<1> QED BY <1>6, <1>7, <1>8 DEF ClaudeRest

-----------------------------------------------------------------------------
(* All of it together, and what it comes to once nothing moves.             *)

RestInv ==
    /\ AccountInv /\ EchoesGo
    /\ provider = "codex" => CodexRest
    /\ provider = "claude" => ClaudeRest
    /\ provider = "cursor" => CursorRest

LEMMA RestStarts == Init => RestInv
<1> SUFFICES ASSUME Init PROVE RestInv
  OBVIOUS
<1>1. EchoesGo
  BY DEF Init, EchoesGo
<1> QED BY <1>1, AccountStarts, CodexRestStarts, ClaudeRestStarts, CursorRestStarts DEF RestInv

LEMMA RestKept == RestInv /\ [Next]_vars => RestInv'
<1> SUFFICES ASSUME RestInv, [Next]_vars PROVE RestInv'
  OBVIOUS
<1>1. /\ Shape /\ AsksOnce /\ HandOK /\ EarlyOK /\ \A m \in Msgs : PromptOnce(m)
      /\ provider = "codex" => CodexPlace
      /\ AccountInv /\ EchoesGo
  BY DEF RestInv, AccountInv, SessionInv
<1>2. AccountInv'
  BY <1>1, AccountKept
<1>3. EchoesGo'
  BY <1>1, EchoesKept
<1>4. \/ \E t, new, steps : Calling(t, new, steps)
      \/ \E steps : Hearing(steps)
      \/ \E t \in Threads : Acting(t)
      \/ Far /\ (Serve \/ Work \/ Asking \/ Finish)
      \/ Resting
  BY <1>1, StepGoes
<1>5. provider' = provider
  <2>1. ASSUME NEW t, NEW new, NEW steps, Calling(t, new, steps) PROVE provider' = provider
    BY <1>1, <2>1, CallIs
  <2>2. ASSUME NEW steps, Hearing(steps) PROVE provider' = provider
    BY <1>1, <2>2, HearIs
  <2>3. ASSUME NEW t \in Threads, Acting(t) PROVE provider' = provider
    BY <1>1, <2>3, ActIs
  <2>4. Far => provider' = provider
    BY <1>1, FarIs
  <2>5. Resting => provider' = provider
    BY DEF Resting, Rests
  <2> QED BY <1>4, <2>1, <2>2, <2>3, <2>4, <2>5
<1>6. provider = "codex" => CodexRest'
  <2> SUFFICES ASSUME provider = "codex" PROVE CodexRest'
    OBVIOUS
  <2>1. CodexRest
    BY DEF RestInv
  <2> QED BY <1>1, <1>4, <2>1, CodexRestCalling, CodexRestHearing, CodexRestActing, CodexRestFar, CodexRestRests
<1>7. provider = "claude" => ClaudeRest'
  <2> SUFFICES ASSUME provider = "claude" PROVE ClaudeRest'
    OBVIOUS
  <2>1. ClaudeRest
    BY DEF RestInv
  <2> QED BY <1>1, <1>4, <2>1, ClaudeRestCalling, ClaudeRestHearing, ClaudeRestActing, ClaudeRestFar, ClaudeRestRests
<1>8. provider = "cursor" => CursorRest'
  <2> SUFFICES ASSUME provider = "cursor" PROVE CursorRest'
    OBVIOUS
  <2>1. CursorRest
    BY DEF RestInv
  <2> QED BY <1>1, <1>4, <2>1, CursorRestCalling, CursorRestHearing, CursorRestActing, CursorRestFar, CursorRestRests
<1> QED BY <1>2, <1>3, <1>5, <1>6, <1>7, <1>8 DEF RestInv

LEMMA QuietIs ==
    ASSUME Quiet
    PROVE  /\ alive /\ \A S : \A t \in Threads : Lacks(todo[t], S)
           /\ \A S : Lacks(wire, S) /\ Lacks(lines, S)
           /\ \A F : Free(F)
           /\ ~Due /\ \A m : NoEcho(m)
<1>1. /\ alive /\ (\A t \in Threads : todo[t] = <<>>) /\ wire = <<>> /\ lines = <<>>
  BY DEF Quiet, Settling
<1>2. \A S : Lacks(<<>>, S)
  BY DEF Lacks
<1>3. /\ \A S : \A t \in Threads : Lacks(todo[t], S)
      /\ \A S : Lacks(wire, S) /\ Lacks(lines, S)
  BY <1>1, <1>2
<1>4. \A F : Free(F)
  BY <1>3 DEF Free, Clear
<1>5. \A m : NoEcho(m)
  BY <1>3 DEF NoEcho, Clear
<1>6. ~Due
  BY <1>3, ReaderIsNoCaller DEF Due
<1> QED BY <1>1, <1>3, <1>4, <1>5, <1>6

\* The driver of a session in which nothing moves.
LEMMA CodexAtRest ==
    ASSUME RestInv, Quiet, provider = "codex"
    PROVE  /\ drv.active = None /\ drv.startId = None /\ drv.steers = {} /\ ~Busy(drv)
           /\ drv.phase = "ready" => owed = {}
           /\ ~working
<1>1. /\ alive /\ (\A S : Lacks(lines, S)) /\ (\A F : Free(F)) /\ ~Due
      /\ cli.turn = None /\ cli.acks = {}
  BY QuietIs DEF Quiet
<1>2. CodexRest
  BY DEF RestInv
<1>3. drv.active = None
  BY <1>1, <1>2 DEF CodexRest, EndsTold
<1>4. drv.steers \ drv.unanswered = {} /\ drv.steers \cap drv.unanswered = {}
  BY <1>1, <1>2, <1>3 DEF CodexRest, AnswersHeld, SteersAsked
<1>5. drv.startId = None
  <2>1. drv.startId \in Turn \cup {None}
    BY CodexFields DEF RestInv, AccountInv, SessionInv, Shape, DriverShape
  <2>2. \A T \in Turn : drv.startId # T
    BY <1>1, <1>2 DEF CodexRest, StartsAsked
  <2> QED BY <2>1, <2>2
<1>6. ~Busy(drv)
  BY <1>3, <1>4, <1>5 DEF Busy
<1>7. drv.phase = "ready" => owed = {}
  BY <1>1, <1>2, <1>6 DEF CodexRest, OwesBusy, QueueSent
<1>8. ~working
  BY <1>1, <1>2, <1>6 DEF CodexRest, RunsBusy
<1> QED BY <1>3, <1>4, <1>5, <1>6, <1>7, <1>8

LEMMA CursorAtRest ==
    ASSUME RestInv, Quiet, provider = "cursor"
    PROVE  /\ drv.prompts = {} /\ drv.carried = <<>>
           /\ drv.phase = "ready" => owed = {}
           /\ ~working
<1>1. /\ alive /\ (\A S : Lacks(lines, S)) /\ (\A F : Free(F)) /\ ~Due /\ cli.turn = None
  BY QuietIs DEF Quiet
<1>2. CursorRest
  BY DEF RestInv
<1>3. drv.prompts = {}
  <2>1. drv.prompts \subseteq Turn /\ None \notin Turn
    BY CursorFields, SessionAssumption DEF RestInv, AccountInv, SessionInv, Shape, DriverShape, Turn
  <2> QED BY <1>1, <1>2, <2>1 DEF CursorRest, PromptsAsked
<1>4. drv.carried = <<>>
  BY <1>2, <1>3 DEF CursorRest, CarriedWaits
<1>5. drv.phase = "ready" => owed = {}
  BY <1>1, <1>2, <1>3 DEF CursorRest, OwesPrompt, QueueSent
<1>6. ~working
  BY <1>1, <1>2, <1>3 DEF CursorRest, RunsPrompt
<1> QED BY <1>3, <1>4, <1>5, <1>6

LEMMA ClaudeAtRest ==
    ASSUME RestInv, Quiet, provider = "claude"
    PROVE  /\ drv.steers = {} /\ owed = {} /\ ~working
           /\ \A m \in steered : turns[m] # 0
<1>1. /\ alive /\ (\A S : Lacks(lines, S)) /\ (\A F : Free(F)) /\ ~cli.turn /\ cli.inbox = <<>>
      /\ \A S : \A t \in Threads : Lacks(todo[t], S)
  BY QuietIs DEF Quiet
<1>2. ClaudeRest
  BY DEF RestInv
<1>3. ~Ahead
  BY <1>1 DEF Ahead
<1>4. drv.state = "idle"
  BY <1>1, <1>2, <1>3 DEF ClaudeRest, WorkAhead
<1>5. drv.steers = {}
  BY <1>2, <1>4 DEF ClaudeRest, ClaudeNeat
<1>6. Lacks(todo["reader"], {Finished})
  BY <1>1, ReaderIsNoCaller
<1>7. owed = {}
  BY <1>1, <1>2, <1>4, <1>6 DEF ClaudeRest, OwesWork
<1>8. ~working
  BY <1>1, <1>2, <1>3, <1>6 DEF ClaudeRest, RunsWork
<1>9. ASSUME NEW m \in steered PROVE turns[m] # 0
  <2>1. Arrived(m)
    BY <1>1, <1>2 DEF ClaudeRest, SteersArrive
  <2>2. Lacks(cli.inbox, UsersOf(m))
    BY <1>1 DEF Lacks
  <2> QED BY <1>1, <2>1, <2>2 DEF Arrived
<1> QED BY <1>5, <1>7, <1>8, <1>9

LEMMA RestKeepsSteers == RestInv => SteerKept
<1> SUFFICES ASSUME RestInv, Quiet, NEW m \in steered
             PROVE  \/ echoed[m] = 1 /\ (turns[m] = 1 \/ failures)
                    \/ provider = "codex" /\ m \in ToSet(drv.carried)
  BY DEF SteerKept
<1>1. Shape /\ EchoesGo /\ AllAccounted /\ \A n \in Msgs : EchoOnce(n) /\ PromptOnce(n)
  BY DEF RestInv, AccountInv, SessionInv
<1>2. m \in Msgs /\ echoed[m] \in 0..2 /\ turns[m] \in 0..2 /\ provider \in {"codex", "claude", "cursor"}
  BY <1>1 DEF Shape, UserShape, DriverShape
<1>3. echoed[m] < 2 /\ turns[m] < 2
  BY <1>1, <1>2 DEF EchoOnce, PromptOnce
<1>4. m \in Shows \/ echoed[m] = 1
  <2>1. m \in Shows \/ echoed[m] # 0
    BY <1>1, QuietIs DEF EchoesGo
  <2> QED BY <1>2, <1>3, <2>1
<1>5. provider # "claude" => m \in Shows \/ turns[m] = 1 \/ failures
  <2> SUFFICES ASSUME provider # "claude" PROVE m \in Shows \/ turns[m] = 1 \/ failures
    OBVIOUS
  <2>1. Accounted(m)
    BY <1>1 DEF AllAccounted
  <2>2. m \in Shows \/ turns[m] # 0 \/ failures
    BY <2>1, QuietIs, ReaderIsNoCaller DEF Accounted
  <2> QED BY <1>2, <1>3, <2>2
<1>6. CASE provider = "codex"
  <2>1. drv.steers = {}
    BY <1>6, CodexAtRest
  <2>2. m \in Shows => m \in ToSet(drv.carried)
    BY <1>6, <2>1 DEF Shows, CodexShows
  <2> QED BY <1>4, <1>5, <1>6, <2>2
<1>7. CASE provider = "claude"
  <2>1. m \notin Shows /\ turns[m] # 0
    BY <1>7, ClaudeAtRest DEF Shows
  <2> QED BY <1>2, <1>3, <1>4, <2>1
<1>8. CASE provider = "cursor"
  <2>1. drv.carried = <<>>
    BY <1>8, CursorAtRest
  <2>2. m \notin Shows
    BY <1>8, <2>1 DEF Shows, ToSet
  <2> QED BY <1>4, <1>5, <1>8, <2>2
<1> QED BY <1>2, <1>6, <1>7, <1>8

LEMMA RestShowsRest == RestInv => RestIsShown
<1> SUFFICES ASSUME RestInv, Quiet
             PROVE  ((provider # "claude" => drv.phase = "ready") => owed = {}) /\ ~working
  BY DEF RestIsShown, EndingShown, IdleIsShown
<1>1. provider \in {"codex", "claude", "cursor"}
  BY DEF RestInv, AccountInv, SessionInv, Shape, DriverShape
<1> QED BY <1>1, CodexAtRest, ClaudeAtRest, CursorAtRest

(* Once nothing moves, a message that joined a turn has been read and shown, *)
(* or has failed on screen, or is carried over to a later Codex turn: for    *)
(* any number of messages, each read and shown once and no more.             *)
THEOREM SteersAreKept == Spec => []SteerKept
<1> QED BY RestStarts, RestKept, RestKeepsSteers, PTL DEF Spec

(* Once nothing moves, the pane shows no turn, and every message that a     *)
(* driver past its handshake took has been followed by an ending.           *)
THEOREM RestsAreShown == Spec => []RestIsShown
<1> QED BY RestStarts, RestKept, RestShowsRest, PTL DEF Spec
==============================================================================
