---------------------------- MODULE DriverProofs -----------------------------
(* Proofs about Sessions: the drivers of the three providers, for any      *)
(* number of messages, approvals and clicks.                               *)
EXTENDS Sessions, FiniteSetTheorems, TLAPS

-----------------------------------------------------------------------------
(* Sequences, and what of them is in a set.                                *)

Lacks(s, S) == \A i \in DOMAIN s : s[i] \notin S
Single(s, S) == \A i, j \in DOMAIN s : s[i] \in S /\ s[j] \in S => i = j

LEMMA LacksFacts ==
    ASSUME NEW A, NEW S, NEW s \in Seq(A), NEW t \in Seq(A)
    PROVE  /\ s \o t \in Seq(A)
           /\ Lacks(s \o t, S) <=> Lacks(s, S) /\ Lacks(t, S)
           /\ Single(s, S) /\ Single(t, S) /\ (Lacks(s, S) \/ Lacks(t, S)) => Single(s \o t, S)
<1>1. /\ s \o t \in Seq(A) /\ Len(s \o t) = Len(s) + Len(t)
      /\ DOMAIN s = 1 .. Len(s) /\ DOMAIN t = 1 .. Len(t)
      /\ DOMAIN (s \o t) = 1 .. Len(s) + Len(t)
      /\ Len(s) \in Nat /\ Len(t) \in Nat
  OBVIOUS
<1>2. \A i \in 1 .. Len(s) : (s \o t)[i] = s[i]
  OBVIOUS
<1>3. \A i \in 1 .. Len(t) : (s \o t)[Len(s) + i] = t[i]
  OBVIOUS
<1>4. \A i \in 1 .. Len(s) + Len(t) : i \in 1 .. Len(s) \/ \E j \in 1 .. Len(t) : i = Len(s) + j
  <2>1. SUFFICES ASSUME NEW i \in 1 .. Len(s) + Len(t), i \notin 1 .. Len(s)
                 PROVE  \E j \in 1 .. Len(t) : i = Len(s) + j
    OBVIOUS
  <2>2. i - Len(s) \in 1 .. Len(t) /\ i = Len(s) + (i - Len(s))
    BY <1>1, <2>1
  <2> QED BY <2>2
<1>5. Lacks(s \o t, S) <=> Lacks(s, S) /\ Lacks(t, S)
  <2>1. ASSUME Lacks(s \o t, S) PROVE Lacks(s, S) /\ Lacks(t, S)
    <3>1. Lacks(s, S)
      BY <1>1, <1>2, <2>1 DEF Lacks
    <3>2. \A i \in 1 .. Len(t) : Len(s) + i \in 1 .. Len(s) + Len(t)
      BY <1>1
    <3>3. Lacks(t, S)
      BY <1>1, <1>3, <2>1, <3>2 DEF Lacks
    <3> QED BY <3>1, <3>3
  <2>2. ASSUME Lacks(s, S), Lacks(t, S) PROVE Lacks(s \o t, S)
    BY <1>1, <1>2, <1>3, <1>4, <2>2 DEF Lacks
  <2> QED BY <2>1, <2>2
<1>6. ASSUME Single(s, S), Single(t, S), Lacks(s, S) \/ Lacks(t, S) PROVE Single(s \o t, S)
  <2>1. CASE Lacks(s, S)
    <3>1. ASSUME NEW i \in 1 .. Len(s) + Len(t), (s \o t)[i] \in S
          PROVE  \E j \in 1 .. Len(t) : i = Len(s) + j /\ t[j] \in S
      BY <1>1, <1>2, <1>3, <1>4, <2>1, <3>1 DEF Lacks
    <3>2. ASSUME NEW i \in 1 .. Len(s) + Len(t), NEW k \in 1 .. Len(s) + Len(t),
                 (s \o t)[i] \in S, (s \o t)[k] \in S
          PROVE  i = k
      <4>1. PICK p \in 1 .. Len(t) : i = Len(s) + p /\ t[p] \in S
        BY <3>1, <3>2
      <4>2. PICK q \in 1 .. Len(t) : k = Len(s) + q /\ t[q] \in S
        BY <3>1, <3>2
      <4> QED BY <1>1, <1>6, <4>1, <4>2 DEF Single
    <3> QED BY <1>1, <3>2 DEF Single
  <2>2. CASE Lacks(t, S)
    <3>1. ASSUME NEW i \in 1 .. Len(s) + Len(t), (s \o t)[i] \in S
          PROVE  i \in 1 .. Len(s) /\ s[i] \in S
      BY <1>1, <1>2, <1>3, <1>4, <2>2, <3>1 DEF Lacks
    <3> QED BY <1>1, <1>6, <3>1 DEF Single
  <2> QED BY <1>6, <2>1, <2>2
<1> QED BY <1>1, <1>5, <1>6

LEMMA TailFacts ==
    ASSUME NEW A, NEW S, NEW s \in Seq(A), s # <<>>
    PROVE  /\ Tail(s) \in Seq(A) /\ Head(s) \in A
           /\ Lacks(s, S) => Lacks(Tail(s), S) /\ Head(s) \notin S
           /\ Single(s, S) => Single(Tail(s), S)
           /\ Single(s, S) /\ Head(s) \in S => Lacks(Tail(s), S)
           /\ Lacks(Tail(s), S) /\ Head(s) \notin S => Lacks(s, S)
<1>1. /\ Tail(s) \in Seq(A) /\ Len(Tail(s)) = Len(s) - 1 /\ Head(s) = s[1] /\ Len(s) \in Nat \ {0}
      /\ DOMAIN s = 1 .. Len(s) /\ DOMAIN Tail(s) = 1 .. Len(s) - 1
      /\ \A i \in 1 .. Len(s) - 1 : Tail(s)[i] = s[i + 1]
  OBVIOUS
<1>2. \A i \in 1 .. Len(s) - 1 : i + 1 \in 1 .. Len(s) /\ i + 1 # 1
  BY <1>1
<1>3. 1 \in 1 .. Len(s) /\ Head(s) \in A
  BY <1>1
<1>4. \A i \in 1 .. Len(s) : i = 1 \/ (i - 1 \in 1 .. Len(s) - 1 /\ i = (i - 1) + 1)
  BY <1>1
<1>5. Lacks(s, S) => Lacks(Tail(s), S) /\ Head(s) \notin S
  BY <1>1, <1>2, <1>3 DEF Lacks
<1>6. Single(s, S) => Single(Tail(s), S)
  BY <1>1, <1>2 DEF Single
<1>7. Single(s, S) /\ Head(s) \in S => Lacks(Tail(s), S)
  BY <1>1, <1>2, <1>3 DEF Single, Lacks
<1>8. Lacks(Tail(s), S) /\ Head(s) \notin S => Lacks(s, S)
  <2>1. ASSUME Lacks(Tail(s), S), Head(s) \notin S, NEW i \in 1 .. Len(s) PROVE s[i] \notin S
    <3>1. CASE i = 1
      BY <1>1, <2>1, <3>1
    <3>2. CASE i # 1
      <4>1. i - 1 \in 1 .. Len(s) - 1 /\ i = (i - 1) + 1
        BY <1>1, <3>2
      <4>2. Tail(s)[i - 1] = s[i]
        BY <1>1, <4>1
      <4> QED BY <1>1, <2>1, <4>1, <4>2 DEF Lacks
    <3> QED BY <3>1, <3>2
  <2> QED BY <1>1, <2>1 DEF Lacks
<1> QED BY <1>1, <1>3, <1>5, <1>6, <1>7, <1>8

LEMMA ShortFacts ==
    ASSUME NEW A, NEW S
    PROVE  /\ <<>> \in Seq(A) /\ Lacks(<<>>, S) /\ Single(<<>>, S)
           /\ \A x \in A : /\ <<x>> \in Seq(A) /\ Single(<<x>>, S)
                           /\ Lacks(<<x>>, S) <=> x \notin S
  BY DEF Lacks, Single

LEMMA AppendFacts ==
    ASSUME NEW A, NEW S, NEW s \in Seq(A), NEW x \in A
    PROVE  /\ Append(s, x) \in Seq(A)
           /\ Lacks(Append(s, x), S) <=> Lacks(s, S) /\ x \notin S
           /\ Single(s, S) /\ (Lacks(s, S) \/ x \notin S) => Single(Append(s, x), S)
<1>1. Append(s, x) = s \o <<x>> /\ <<x>> \in Seq(A)
  OBVIOUS
<1>2. Single(<<x>>, S) /\ (Lacks(<<x>>, S) <=> x \notin S)
  BY ShortFacts
<1> QED BY <1>1, <1>2, LacksFacts

\* The list a set is put in has each of its members once.
LEMMA ListFacts ==
    ASSUME NEW T, IsFiniteSet(T)
    PROVE  /\ SetToSeq(T) \in Seq(T)
           /\ \A i, j \in DOMAIN SetToSeq(T) : SetToSeq(T)[i] = SetToSeq(T)[j] => i = j
           /\ \A x \in T : \E i \in DOMAIN SetToSeq(T) : SetToSeq(T)[i] = x
           /\ T = {} => SetToSeq(T) = <<>>
<1> DEFINE n == Cardinality(T)
           l == SetToSeq(T)
<1>1. n \in Nat /\ ExistsBijection(1 .. n, T)
  BY FS_CardinalityType
<1>2. PICK f \in [1 .. n -> T] : IsInjective(f)
  BY <1>1 DEF ExistsBijection, Bijection, Injection
<1>3. l \in [1 .. n -> T] /\ IsInjective(l)
  BY <1>2 DEF SetToSeq
<1>4. l \in Seq(T) /\ DOMAIN l = 1 .. n
  BY <1>1, <1>3
<1>5. \A i, j \in DOMAIN l : l[i] = l[j] => i = j
  BY <1>3 DEF IsInjective
<1>6. ASSUME NEW x \in T PROVE \E i \in DOMAIN l : l[i] = x
  <2>1. l \in Injection(1 .. n, T)
    BY <1>3 DEF Injection
  <2>2. IsFiniteSet(1 .. n) /\ Cardinality(1 .. n) = n
    BY <1>1, FS_Interval
  <2>3. l \in Surjection(1 .. n, T)
    BY <2>1, <2>2, FS_Injection
  <2> QED BY <2>3, <1>4 DEF Surjection
<1>7. T = {} => l = <<>>
  BY <1>1, <1>4, FS_EmptySet
<1> QED BY <1>4, <1>5, <1>6, <1>7

-----------------------------------------------------------------------------
(* What is on its way                                                      *)

Turn == Seq(Msgs)

AskKinds == {"approval", "elicitation", "plan", "unknown"}
Outcomes == {"done", "failed", "stopped"}

Frames ==
    [is : {"init", "open", "auth"}] \cup [is : {"turn/start", "compact", "prompt"}, msgs : Turn]
    \cup [is : {"turn/steer"}, msg : Msgs, turn : Turn]
    \cup [is : {"interrupt"}, turn : Turn \cup {None}] \cup [is : {"reply"}, ask : Asks]
    \cup [is : {"user"}, msg : Msgs, id : BOOLEAN]

Events ==
    [is : {"echo"}, msg : Msgs] \cup [is : {"started", "finished", "failed"}]
    \cup [is : {"card", "settled"}, ask : Asks]

Steps == [do : {"write"}, it : Frames] \cup [do : {"emit"}, it : Events]

Lines ==
    [is : {"init", "open", "auth"}, ok : BOOLEAN]
    \cup [is : {"start"}, ok : BOOLEAN, turn : Turn] \cup [is : {"steer"}, ok : BOOLEAN, msg : Msgs]
    \cup [is : {"prompt"}, msgs : Turn, ok : BOOLEAN] \cup [is : {"started"}, turn : Turn]
    \cup [is : {"item", "queued", "taken"}, msg : Msgs] \cup [is : {"completed"}, failed : BOOLEAN]
    \cup [is : {"ask"}, ask : Asks, kind : AskKinds] \cup [is : {"resolved"}, ask : Asks]
    \cup [is : {"error", "turn"}] \cup [is : {"result"}, how : Outcomes]

\* What their fields hold.
LEMMA FrameFields ==
    ASSUME NEW f \in Frames
    PROVE  /\ f.is \in {"turn/start", "compact", "prompt"} => f.msgs \in Turn
           /\ f.is = "turn/steer" => f.msg \in Msgs /\ f.turn \in Turn
           /\ f.is = "interrupt" => f.turn \in Turn \cup {None}
           /\ f.is = "reply" => f.ask \in Asks /\ f = Reply(f.ask)
           /\ f.is = "user" => f.msg \in Msgs /\ f.id \in BOOLEAN
           /\ f.is \in {"init", "open", "auth", "turn/start", "compact", "prompt", "turn/steer",
                        "interrupt", "reply", "user"}
  BY DEF Frames, Reply

LEMMA EventFields ==
    ASSUME NEW e \in Events
    PROVE  /\ e.is = "echo" => e.msg \in Msgs /\ Emit(e) = Echo(e.msg)
           /\ e.is \in {"card", "settled"} => e.ask \in Asks
  BY DEF Events, Emit, Echo

LEMMA StepFields ==
    ASSUME NEW x \in Steps
    PROVE  \/ x.do = "write" /\ x.it \in Frames /\ x = Write(x.it)
           \/ x.do = "emit" /\ x.it \in Events /\ x = Emit(x.it)
  BY DEF Steps, Write, Emit

LEMMA LineFields ==
    ASSUME NEW l \in Lines
    PROVE  /\ l.is \in {"init", "open", "auth", "start", "steer", "prompt"} => l.ok \in BOOLEAN
           /\ l.is = "prompt" => l.msgs \in Turn
           /\ l.is \in {"start", "started"} => l.turn \in Turn
           /\ l.is \in {"steer", "item", "queued", "taken"} => l.msg \in Msgs
           /\ l.is \in {"ask", "resolved"} => l.ask \in Asks
           /\ l.is = "completed" => l.failed \in BOOLEAN
  BY DEF Lines

LEMMA WritesAreSteps ==
    /\ \A ms \in Turn : /\ Write(TurnStart(ms)) \in Steps /\ Write(Prompt(ms)) \in Steps
                        /\ Write([is |-> "compact", msgs |-> ms]) \in Steps
    /\ \A m \in Msgs, ms \in Turn : Write(TurnSteer(m, ms)) \in Steps
    /\ \A m \in Msgs, id \in BOOLEAN : Write(User(m, id)) \in Steps
    /\ \A turn \in Turn \cup {None} : Write(Interrupt(turn)) \in Steps
    /\ \A a \in Asks : Write(Reply(a)) \in Steps
    /\ \A is \in {"init", "open", "auth"} : Write([is |-> is]) \in Steps
  BY DEF Steps, Frames, Write, TurnStart, Prompt, TurnSteer, User, Interrupt, Reply

LEMMA EmitsAreSteps ==
    /\ \A m \in Msgs : Echo(m) \in Steps
    /\ Started \in Steps /\ Finished \in Steps /\ Failed \in Steps
    /\ \A a \in Asks : Card(a) \in Steps /\ Settled(a) \in Steps
  BY DEF Steps, Events, Emit, Echo, Started, Finished, Failed, Card, Settled

-----------------------------------------------------------------------------
(* The way from a driver to the CLI: a thread's steps, then the wire.  S is *)
(* a set of steps that a thread may have to apply, F of the frames that it  *)
(* writes when it does.                                                     *)

WayShape ==
    /\ todo \in [Threads -> Seq(Steps)] /\ wire \in Seq(Frames) /\ lines \in Seq(Lines)
    /\ called \subseteq Callers
    /\ \A t \in Callers \ called : todo[t] = <<>>

Sends(S, F) == \A x \in Steps : x.do = "write" => (x \in S <=> x.it \in F)

\* Nothing of S is to be applied, and nothing of F to be read.
Clear(S, F) == (\A t \in Threads : Lacks(todo[t], S)) /\ Lacks(wire, F)

\* One thing is, at the most.
AtMostOne(S, F) ==
    /\ \A t \in Threads : /\ Single(todo[t], S)
                          /\ ~Lacks(todo[t], S) =>
                                Lacks(wire, F) /\ \A u \in Threads \ {t} : Lacks(todo[u], S)
    /\ Single(wire, F)

\* A thread goes on to its next step.
LEMMA TodoGoesOn ==
    ASSUME NEW S, NEW t \in Threads, WayShape, todo[t] # <<>>,
           todo' = [todo EXCEPT ![t] = Tail(@)]
    PROVE  /\ todo' \in [Threads -> Seq(Steps)]
           /\ todo'[t] = Tail(todo[t]) /\ \A u \in Threads \ {t} : todo'[u] = todo[u]
           /\ Head(todo[t]) \in Steps
<1>1. todo[t] \in Seq(Steps)
  BY DEF WayShape
<1>2. Tail(todo[t]) \in Seq(Steps) /\ Head(todo[t]) \in Steps
  BY <1>1, TailFacts
<1> QED BY <1>2 DEF WayShape

LEMMA EmitFlows ==
    ASSUME NEW S, NEW F, NEW t \in Threads, WayShape, Sends(S, F), EmitStep(t)
    PROVE  /\ AtMostOne(S, F) => AtMostOne(S, F)'
           /\ Clear(S, F) => Clear(S, F)'
           /\ AtMostOne(S, F) /\ Head(todo[t]) \in S => Clear(S, F)'
<1>1. /\ todo[t] # <<>> /\ todo' = [todo EXCEPT ![t] = Tail(@)] /\ wire' = wire
      /\ todo[t] \in Seq(Steps)
  BY DEF EmitStep, WayShape, procVars
<1>2. todo'[t] = Tail(todo[t]) /\ \A u \in Threads \ {t} : todo'[u] = todo[u]
  BY <1>1, TodoGoesOn
<1>3. /\ Lacks(todo[t], S) => Lacks(Tail(todo[t]), S) /\ Head(todo[t]) \notin S
      /\ Single(todo[t], S) => Single(Tail(todo[t]), S)
      /\ Single(todo[t], S) /\ Head(todo[t]) \in S => Lacks(Tail(todo[t]), S)
  BY <1>1, TailFacts
<1>4. \A u \in Threads : Lacks(todo[u], S) => Lacks(todo'[u], S)
  BY <1>2, <1>3
<1>5. AtMostOne(S, F) => AtMostOne(S, F)'
  <2>1. SUFFICES ASSUME AtMostOne(S, F) PROVE AtMostOne(S, F)'
    OBVIOUS
  <2>2. ASSUME NEW u \in Threads PROVE Single(todo'[u], S)
    BY <1>2, <1>3, <2>1 DEF AtMostOne
  <2>3. ASSUME NEW u \in Threads, ~Lacks(todo'[u], S)
        PROVE  Lacks(wire, F) /\ \A v \in Threads \ {u} : Lacks(todo'[v], S)
    BY <1>4, <2>1, <2>3 DEF AtMostOne
  <2> QED BY <1>1, <2>1, <2>2, <2>3 DEF AtMostOne
<1>6. Clear(S, F) => Clear(S, F)'
  BY <1>1, <1>4 DEF Clear
<1>7. AtMostOne(S, F) /\ Head(todo[t]) \in S => Clear(S, F)'
  <2>1. SUFFICES ASSUME AtMostOne(S, F), Head(todo[t]) \in S PROVE Clear(S, F)'
    OBVIOUS
  <2>2. Lacks(todo'[t], S) /\ ~Lacks(todo[t], S)
    BY <1>2, <1>3, <2>1 DEF AtMostOne
  <2>3. Lacks(wire, F) /\ \A u \in Threads \ {t} : Lacks(todo[u], S)
    BY <2>1, <2>2 DEF AtMostOne
  <2> QED BY <1>1, <1>2, <2>2, <2>3 DEF Clear
<1> QED BY <1>5, <1>6, <1>7

LEMMA WriteFlows ==
    ASSUME NEW S, NEW F, NEW t \in Threads, WayShape, Sends(S, F), WriteStep(t)
    PROVE  /\ AtMostOne(S, F) => AtMostOne(S, F)'
           /\ Clear(S, F) => Clear(S, F)'
<1> DEFINE x == Head(todo[t])
<1>1. /\ todo[t] # <<>> /\ todo' = [todo EXCEPT ![t] = Tail(@)] /\ wire' = Append(wire, x.it)
      /\ todo[t] \in Seq(Steps) /\ x.do = "write" /\ wire \in Seq(Frames)
  BY DEF WriteStep, WayShape
<1>2. todo'[t] = Tail(todo[t]) /\ (\A u \in Threads \ {t} : todo'[u] = todo[u]) /\ x \in Steps
  BY <1>1, TodoGoesOn
<1>3. x.it \in Frames /\ (x \in S <=> x.it \in F)
  BY <1>1, <1>2, StepFields DEF Sends
<1>4. /\ Lacks(todo[t], S) => Lacks(Tail(todo[t]), S) /\ x \notin S
      /\ Single(todo[t], S) => Single(Tail(todo[t]), S)
      /\ Single(todo[t], S) /\ x \in S => Lacks(Tail(todo[t]), S)
  BY <1>1, TailFacts
<1>5. /\ Lacks(wire', F) <=> Lacks(wire, F) /\ x.it \notin F
      /\ Single(wire, F) /\ (Lacks(wire, F) \/ x.it \notin F) => Single(wire', F)
  BY <1>1, <1>3, AppendFacts
<1>6. \A u \in Threads : Lacks(todo[u], S) => Lacks(todo'[u], S)
  BY <1>2, <1>4
<1>7. AtMostOne(S, F) => AtMostOne(S, F)'
  <2>1. SUFFICES ASSUME AtMostOne(S, F) PROVE AtMostOne(S, F)'
    OBVIOUS
  <2>2. ASSUME NEW u \in Threads PROVE Single(todo'[u], S)
    BY <1>2, <1>4, <2>1 DEF AtMostOne
  <2>3. CASE x \in S
    <3>1. Lacks(todo'[t], S) /\ ~Lacks(todo[t], S)
      BY <1>2, <1>4, <2>1, <2>3 DEF AtMostOne
    <3>2. Lacks(wire, F) /\ \A u \in Threads \ {t} : Lacks(todo[u], S)
      BY <2>1, <3>1 DEF AtMostOne
    <3>3. \A u \in Threads : Lacks(todo'[u], S)
      BY <1>2, <3>1, <3>2
    <3> QED BY <1>5, <2>1, <2>2, <3>2, <3>3 DEF AtMostOne
  <2>4. CASE x \notin S
    <3>1. ASSUME NEW u \in Threads, ~Lacks(todo'[u], S)
          PROVE  Lacks(wire', F) /\ \A v \in Threads \ {u} : Lacks(todo'[v], S)
      BY <1>3, <1>5, <1>6, <2>1, <2>4, <3>1 DEF AtMostOne
    <3> QED BY <1>3, <1>5, <2>1, <2>2, <2>4, <3>1 DEF AtMostOne
  <2> QED BY <2>3, <2>4
<1>8. Clear(S, F) => Clear(S, F)'
  BY <1>3, <1>4, <1>5, <1>6 DEF Clear
<1> QED BY <1>7, <1>8

LEMMA BrokenFlows ==
    ASSUME NEW S, NEW F, NEW t \in Threads, WayShape, Sends(S, F), BrokenPipe(t)
    PROVE  /\ AtMostOne(S, F) => AtMostOne(S, F)'
           /\ Clear(S, F) => Clear(S, F)'
<1>1. /\ todo' = [todo EXCEPT ![t] = <<>>] /\ wire' = wire
  BY DEF BrokenPipe, procVars
<1>2. todo'[t] = <<>> /\ \A u \in Threads \ {t} : todo'[u] = todo[u]
  BY <1>1 DEF WayShape
<1>3. Lacks(<<>>, S) /\ Single(<<>>, S)
  BY ShortFacts
<1>4. \A u \in Threads : Lacks(todo[u], S) => Lacks(todo'[u], S)
  BY <1>2, <1>3
<1>5. AtMostOne(S, F) => AtMostOne(S, F)'
  <2>1. SUFFICES ASSUME AtMostOne(S, F) PROVE AtMostOne(S, F)'
    OBVIOUS
  <2>2. ASSUME NEW u \in Threads PROVE Single(todo'[u], S)
    BY <1>2, <1>3, <2>1 DEF AtMostOne
  <2>3. ASSUME NEW u \in Threads, ~Lacks(todo'[u], S)
        PROVE  Lacks(wire, F) /\ \A v \in Threads \ {u} : Lacks(todo'[v], S)
    BY <1>4, <2>1, <2>3 DEF AtMostOne
  <2> QED BY <1>1, <2>1, <2>2, <2>3 DEF AtMostOne
<1>6. Clear(S, F) => Clear(S, F)'
  BY <1>1, <1>4 DEF Clear
<1> QED BY <1>5, <1>6

\* A driver gives a thread its steps.
LEMMA ComputeFlows ==
    ASSUME NEW S, NEW F, NEW t \in Threads, NEW r, WayShape, Compute(t, r), wire' = wire,
           todo[t] = <<>>, Single(r.steps, S), Lacks(r.steps, S) \/ Clear(S, F)
    PROVE  /\ AtMostOne(S, F) => AtMostOne(S, F)'
           /\ Lacks(r.steps, S) /\ Clear(S, F) => Clear(S, F)'
<1>1. todo'[t] = r.steps /\ \A u \in Threads \ {t} : todo'[u] = todo[u]
  BY DEF WayShape, Compute
<1>2. CASE Lacks(r.steps, S)
  <2>1. \A u \in Threads : Lacks(todo[u], S) => Lacks(todo'[u], S)
    BY <1>1, <1>2
  <2>2. AtMostOne(S, F) => AtMostOne(S, F)'
    <3>1. SUFFICES ASSUME AtMostOne(S, F) PROVE AtMostOne(S, F)'
      OBVIOUS
    <3>2. ASSUME NEW u \in Threads PROVE Single(todo'[u], S)
      BY <1>1, <3>1 DEF AtMostOne
    <3>3. ASSUME NEW u \in Threads, ~Lacks(todo'[u], S)
          PROVE  Lacks(wire, F) /\ \A v \in Threads \ {u} : Lacks(todo'[v], S)
      BY <1>1, <1>2, <2>1, <3>1, <3>3 DEF AtMostOne
    <3> QED BY <3>1, <3>2, <3>3 DEF AtMostOne
  <2> QED BY <2>1, <2>2 DEF Clear
<1>3. CASE ~Lacks(r.steps, S)
  <2>1. Clear(S, F)
    BY <1>3
  <2>2. ASSUME AtMostOne(S, F) PROVE AtMostOne(S, F)'
    <3>1. ASSUME NEW u \in Threads PROVE Single(todo'[u], S)
      BY <1>1, <2>2 DEF AtMostOne
    <3>2. ASSUME NEW u \in Threads, ~Lacks(todo'[u], S) PROVE u = t
      BY <1>1, <2>1, <3>2 DEF Clear
    <3> QED BY <1>1, <2>1, <2>2, <3>1, <3>2 DEF AtMostOne, Clear
  <2> QED BY <1>3, <2>2
<1> QED BY <1>2, <1>3

\* The CLI reads a frame.
LEMMA ReadFlows ==
    ASSUME NEW S, NEW F, WayShape, todo' = todo, wire # <<>>, wire' = Tail(wire)
    PROVE  /\ AtMostOne(S, F) => AtMostOne(S, F)'
           /\ Clear(S, F) => Clear(S, F)'
           /\ AtMostOne(S, F) /\ Head(wire) \in F => Clear(S, F)'
           /\ Clear(S, F) => Head(wire) \notin F
<1>1. wire \in Seq(Frames)
  BY DEF WayShape
<1>2. /\ Lacks(wire, F) => Lacks(Tail(wire), F) /\ Head(wire) \notin F
      /\ Single(wire, F) => Single(Tail(wire), F)
      /\ Single(wire, F) /\ Head(wire) \in F => Lacks(Tail(wire), F)
  BY <1>1, TailFacts
<1>3. AtMostOne(S, F) => AtMostOne(S, F)'
  BY <1>2 DEF AtMostOne
<1>4. Clear(S, F) => Clear(S, F)' /\ Head(wire) \notin F
  BY <1>2 DEF Clear
<1>5. AtMostOne(S, F) /\ Head(wire) \in F => Clear(S, F)'
  BY <1>2 DEF AtMostOne, Clear
<1> QED BY <1>3, <1>4, <1>5

LEMMA StillFlows ==
    ASSUME NEW S, NEW F, todo' = todo, wire' = wire
    PROVE  (AtMostOne(S, F) <=> AtMostOne(S, F)') /\ (Clear(S, F) <=> Clear(S, F)')
  BY DEF AtMostOne, Clear

-----------------------------------------------------------------------------
(* What a list of steps shows, puts in a turn and replies to               *)

Brings(f, m) ==
    \/ f.is \in {"user", "turn/steer"} /\ f.msg = m
    \/ f.is \in {"turn/start", "compact", "prompt"} /\ m \in ToSet(f.msgs)

EchoOf(m) == {Echo(m)}
PromptOf(m) == {x \in Steps : x.do = "write" /\ Brings(x.it, m)}
ReplyOf(a) == {Write(Reply(a))}

\* The steps show the messages of e, hand over those of p and reply to the
\* approvals of q, each of them once, and no others.
Bears(s, e, p, q) ==
    /\ s \in Seq(Steps)
    /\ \A m \in Msgs : Single(s, EchoOf(m)) /\ (Lacks(s, EchoOf(m)) <=> m \notin e)
    /\ \A m \in Msgs : Single(s, PromptOf(m)) /\ (Lacks(s, PromptOf(m)) <=> m \notin p)
    /\ \A a \in Asks : Single(s, ReplyOf(a)) /\ (Lacks(s, ReplyOf(a)) <=> a \notin q)

LEMMA BearsJoin ==
    ASSUME NEW s, NEW t, NEW e1, NEW p1, NEW q1, NEW e2, NEW p2, NEW q2,
           Bears(s, e1, p1, q1), Bears(t, e2, p2, q2),
           e1 \cap e2 = {}, p1 \cap p2 = {}, q1 \cap q2 = {}
    PROVE  Bears(s \o t, e1 \cup e2, p1 \cup p2, q1 \cup q2)
<1>1. s \in Seq(Steps) /\ t \in Seq(Steps)
  BY DEF Bears
<1>2. \A S : /\ s \o t \in Seq(Steps)
             /\ Lacks(s \o t, S) <=> Lacks(s, S) /\ Lacks(t, S)
             /\ Single(s, S) /\ Single(t, S) /\ (Lacks(s, S) \/ Lacks(t, S)) => Single(s \o t, S)
  BY <1>1, LacksFacts
<1>3. ASSUME NEW m \in Msgs
      PROVE  /\ Single(s \o t, EchoOf(m)) /\ (Lacks(s \o t, EchoOf(m)) <=> m \notin e1 \cup e2)
             /\ Single(s \o t, PromptOf(m)) /\ (Lacks(s \o t, PromptOf(m)) <=> m \notin p1 \cup p2)
  BY <1>2 DEF Bears
<1>4. ASSUME NEW a \in Asks
      PROVE  Single(s \o t, ReplyOf(a)) /\ (Lacks(s \o t, ReplyOf(a)) <=> a \notin q1 \cup q2)
  BY <1>2 DEF Bears
<1> QED BY <1>2, <1>3, <1>4 DEF Bears

LEMMA BearsNothing == Bears(<<>>, {}, {}, {})
<1>1. \A S : <<>> \in Seq(Steps) /\ Single(<<>>, S) /\ Lacks(<<>>, S)
  BY ShortFacts
<1> QED BY <1>1 DEF Bears

LEMMA BearsStep ==
    ASSUME NEW x \in Steps
    PROVE  Bears(<<x>>, {m \in Msgs : x = Echo(m)}, {m \in Msgs : x.do = "write" /\ Brings(x.it, m)},
                 {a \in Asks : x = Write(Reply(a))})
<1>1. \A S : <<x>> \in Seq(Steps) /\ Single(<<x>>, S) /\ (Lacks(<<x>>, S) <=> x \notin S)
  BY ShortFacts
<1> QED BY <1>1 DEF Bears, EchoOf, PromptOf, ReplyOf

LEMMA BearsEmits ==
    /\ \A m \in Msgs : Bears(<<Echo(m)>>, {m}, {}, {})
    /\ Bears(<<Started>>, {}, {}, {}) /\ Bears(<<Finished>>, {}, {}, {}) /\ Bears(<<Failed>>, {}, {}, {})
    /\ \A a \in Asks : Bears(<<Card(a)>>, {}, {}, {}) /\ Bears(<<Settled(a)>>, {}, {}, {})
<1>1. ASSUME NEW x \in Steps, x.do # "write" PROVE Bears(<<x>>, {m \in Msgs : x = Echo(m)}, {}, {})
  <2>1. {m \in Msgs : x.do = "write" /\ Brings(x.it, m)} = {}
    BY <1>1
  <2>2. {a \in Asks : x = Write(Reply(a))} = {}
    BY <1>1 DEF Write
  <2> QED BY <2>1, <2>2, BearsStep
<1>2. \A m \in Msgs : Echo(m).do # "write" /\ {n \in Msgs : Echo(m) = Echo(n)} = {m}
  BY DEF Echo, Emit
<1>3. \A x \in {Started, Finished, Failed} : x.do # "write" /\ {n \in Msgs : x = Echo(n)} = {}
  <2>1. ASSUME NEW n \in Msgs, NEW x \in {Started, Finished, Failed} PROVE x # Echo(n) /\ x.do # "write"
    <3>1. x.it.is # "echo" /\ x.do # "write"
      BY DEF Started, Finished, Failed, Emit
    <3>2. Echo(n).it.is = "echo"
      BY DEF Echo, Emit
    <3> QED BY <3>1, <3>2
  <2>2. \A x \in {Started, Finished, Failed} : x.do # "write"
    BY DEF Started, Finished, Failed, Emit
  <2> QED BY <2>1, <2>2
<1>4. \A a \in Asks : \A x \in {Card(a), Settled(a)} : x.do # "write" /\ {n \in Msgs : x = Echo(n)} = {}
  <2>1. ASSUME NEW n \in Msgs, NEW a \in Asks, NEW x \in {Card(a), Settled(a)} PROVE x # Echo(n)
    <3>1. x.it.is # "echo"
      BY DEF Card, Settled, Emit
    <3>2. Echo(n).it.is = "echo"
      BY DEF Echo, Emit
    <3> QED BY <3>1, <3>2
  <2>2. \A a \in Asks : \A x \in {Card(a), Settled(a)} : x.do # "write"
    BY DEF Card, Settled, Emit
  <2> QED BY <2>1, <2>2
<1>5. \A m \in Msgs : Bears(<<Echo(m)>>, {m}, {}, {})
  <2>1. ASSUME NEW m \in Msgs PROVE Bears(<<Echo(m)>>, {m}, {}, {})
    <3>1. Echo(m) \in Steps
      BY EmitsAreSteps
    <3> QED BY <1>1, <1>2, <3>1
  <2> QED BY <2>1
<1>6. \A x \in {Started, Finished, Failed} : Bears(<<x>>, {}, {}, {})
  <2>1. ASSUME NEW x \in {Started, Finished, Failed} PROVE Bears(<<x>>, {}, {}, {})
    <3>1. x \in Steps
      BY EmitsAreSteps
    <3> QED BY <1>1, <1>3, <3>1
  <2> QED BY <2>1
<1>7. \A a \in Asks : \A x \in {Card(a), Settled(a)} : Bears(<<x>>, {}, {}, {})
  <2>1. ASSUME NEW a \in Asks, NEW x \in {Card(a), Settled(a)} PROVE Bears(<<x>>, {}, {}, {})
    <3>1. x \in Steps
      BY EmitsAreSteps
    <3> QED BY <1>1, <1>4, <3>1
  <2> QED BY <2>1
<1> QED BY <1>5, <1>6, <1>7

LEMMA BearsWrites ==
    /\ \A ms \in Turn : /\ Bears(<<Write(TurnStart(ms))>>, {}, ToSet(ms), {})
                        /\ Bears(<<Write(Prompt(ms))>>, {}, ToSet(ms), {})
                        /\ Bears(<<Write([is |-> "compact", msgs |-> ms])>>, {}, ToSet(ms), {})
    /\ \A m \in Msgs, ms \in Turn : Bears(<<Write(TurnSteer(m, ms))>>, {}, {m}, {})
    /\ \A m \in Msgs, id \in BOOLEAN : Bears(<<Write(User(m, id))>>, {}, {m}, {})
    /\ \A turn \in Turn \cup {None} : Bears(<<Write(Interrupt(turn))>>, {}, {}, {})
    /\ \A a \in Asks : Bears(<<Write(Reply(a))>>, {}, {}, {a})
    /\ \A is \in {"init", "open", "auth"} : Bears(<<Write([is |-> is])>>, {}, {}, {})
<1>1. ASSUME NEW f, Write(f) \in Steps
      PROVE  Bears(<<Write(f)>>, {}, {m \in Msgs : Brings(f, m)}, {a \in Asks : f = Reply(a)})
  <2>1. {m \in Msgs : Write(f) = Echo(m)} = {}
    BY DEF Write, Echo, Emit
  <2>2. {m \in Msgs : Write(f).do = "write" /\ Brings(Write(f).it, m)} = {m \in Msgs : Brings(f, m)}
    BY DEF Write
  <2>3. {a \in Asks : Write(f) = Write(Reply(a))} = {a \in Asks : f = Reply(a)}
    BY DEF Write
  <2>4. Bears(<<Write(f)>>, {m \in Msgs : Write(f) = Echo(m)},
              {m \in Msgs : Write(f).do = "write" /\ Brings(Write(f).it, m)},
              {a \in Asks : Write(f) = Write(Reply(a))})
    BY <1>1, BearsStep
  <2> QED BY <2>1, <2>2, <2>3, <2>4
<1>2. ASSUME NEW ms \in Turn,
             NEW f \in {TurnStart(ms), Prompt(ms), [is |-> "compact", msgs |-> ms]}
      PROVE  Bears(<<Write(f)>>, {}, ToSet(ms), {})
  <2>1. Write(f) \in Steps /\ f.is \in {"turn/start", "compact", "prompt"} /\ f.msgs = ms
    <3>1. CASE f = TurnStart(ms)
      BY <3>1, WritesAreSteps DEF TurnStart
    <3>2. CASE f = Prompt(ms)
      BY <3>2, WritesAreSteps DEF Prompt
    <3>3. CASE f = [is |-> "compact", msgs |-> ms]
      BY <3>3, WritesAreSteps
    <3> QED BY <3>1, <3>2, <3>3
  <2>2. {a \in Asks : f = Reply(a)} = {}
    <3>1. \A a \in Asks : Reply(a).is = "reply"
      BY DEF Reply
    <3> QED BY <2>1, <3>1
  <2>3. ToSet(ms) \subseteq Msgs
    BY DEF ToSet, Turn
  <2>4. {m \in Msgs : Brings(f, m)} = ToSet(ms)
    BY <2>1, <2>3 DEF Brings
  <2> QED BY <1>1, <2>1, <2>2, <2>4
<1>3. ASSUME NEW m \in Msgs, NEW ms \in Turn, NEW id \in BOOLEAN,
             NEW f \in {TurnSteer(m, ms), User(m, id)}
      PROVE  Bears(<<Write(f)>>, {}, {m}, {})
  <2>1. Write(f) \in Steps /\ f.is \in {"user", "turn/steer"} /\ f.msg = m
    BY WritesAreSteps DEF TurnSteer, User
  <2>2. {a \in Asks : f = Reply(a)} = {}
    <3>1. \A a \in Asks : Reply(a).is = "reply"
      BY DEF Reply
    <3> QED BY <2>1, <3>1
  <2>3. {n \in Msgs : Brings(f, n)} = {m}
    BY <2>1 DEF Brings
  <2> QED BY <1>1, <2>1, <2>2, <2>3
<1>4. ASSUME NEW turn \in Turn \cup {None}, NEW is \in {"init", "open", "auth"},
             NEW f \in {Interrupt(turn), [is |-> is]}
      PROVE  Bears(<<Write(f)>>, {}, {}, {})
  <2>1. Write(f) \in Steps /\ f.is \in {"interrupt", "init", "open", "auth"}
    BY WritesAreSteps DEF Interrupt
  <2>2. {a \in Asks : f = Reply(a)} = {}
    <3>1. \A a \in Asks : Reply(a).is = "reply"
      BY DEF Reply
    <3> QED BY <2>1, <3>1
  <2>3. {n \in Msgs : Brings(f, n)} = {}
    BY <2>1 DEF Brings
  <2> QED BY <1>1, <2>1, <2>2, <2>3
<1>5. ASSUME NEW a \in Asks PROVE Bears(<<Write(Reply(a))>>, {}, {}, {a})
  <2>1. Write(Reply(a)) \in Steps
    BY WritesAreSteps
  <2>2. {b \in Asks : Reply(a) = Reply(b)} = {a}
    BY DEF Reply
  <2>3. {n \in Msgs : Brings(Reply(a), n)} = {}
    BY DEF Brings, Reply
  <2> QED BY <1>1, <2>1, <2>2, <2>3
<1>6. ASSUME NEW m \in Msgs, NEW ms \in Turn PROVE Bears(<<Write(TurnSteer(m, ms))>>, {}, {m}, {})
  BY <1>3
<1>7. ASSUME NEW m \in Msgs, NEW id \in BOOLEAN PROVE Bears(<<Write(User(m, id))>>, {}, {m}, {})
  <2>1. <<>> \in Turn
    BY DEF Turn
  <2> QED BY <1>3, <2>1
<1>8. None \in Turn \cup {None}
  OBVIOUS
<1> QED BY <1>2, <1>4, <1>5, <1>6, <1>7, <1>8

\* Several messages are shown, each once.
LEMMA BearsEchoes ==
    ASSUME NEW ms \in Turn, IsInjective(ms)
    PROVE  Bears(Echoes(ms), ToSet(ms), {}, {})
<1> DEFINE s == Echoes(ms)
<1>1. DOMAIN s = DOMAIN ms /\ (\A i \in DOMAIN ms : s[i] = Echo(ms[i]) /\ ms[i] \in Msgs)
  BY DEF Echoes, Turn
<1>2. s \in Seq(Steps)
  <2>1. \A i \in 1 .. Len(ms) : Echo(ms[i]) \in Steps
    BY EmitsAreSteps DEF Turn
  <2>2. s = [i \in 1 .. Len(ms) |-> Echo(ms[i])] /\ Len(ms) \in Nat
    BY DEF Echoes, Turn
  <2> QED BY <2>1, <2>2
<1>3. \A m, n \in Msgs : Echo(m) = Echo(n) => m = n
  BY DEF Echo, Emit
<1>4. ASSUME NEW m \in Msgs PROVE Single(s, EchoOf(m)) /\ (Lacks(s, EchoOf(m)) <=> m \notin ToSet(ms))
  <2>1. Single(s, EchoOf(m))
    BY <1>1, <1>3 DEF Single, EchoOf, IsInjective
  <2>2. Lacks(s, EchoOf(m)) <=> m \notin ToSet(ms)
    BY <1>1, <1>3 DEF Lacks, EchoOf, ToSet
  <2> QED BY <2>1, <2>2
<1>5. \A m \in Msgs, n \in Msgs : Echo(n) \notin PromptOf(m)
  BY DEF PromptOf, Echo, Emit
<1>6. \A a \in Asks, n \in Msgs : Echo(n) \notin ReplyOf(a)
  BY DEF ReplyOf, Echo, Emit, Write
<1>7. \A m \in Msgs : Single(s, PromptOf(m)) /\ Lacks(s, PromptOf(m))
  BY <1>1, <1>5 DEF Single, Lacks
<1>8. \A a \in Asks : Single(s, ReplyOf(a)) /\ Lacks(s, ReplyOf(a))
  BY <1>1, <1>6 DEF Single, Lacks
<1> QED BY <1>2, <1>4, <1>7, <1>8 DEF Bears

LEMMA Halves ==
    ASSUME NEW n \in Nat
    PROVE  /\ \A i \in 1 .. 2 * n : \/ i % 2 = 1 /\ (i + 1) \div 2 \in 1 .. n
                                    \/ i % 2 = 0 /\ i \div 2 \in 1 .. n
           /\ \A k \in 1 .. n : \E i \in 1 .. 2 * n : i % 2 = 1 /\ (i + 1) \div 2 = k
           /\ \A k \in 1 .. n : \E i \in 1 .. 2 * n : i % 2 = 0 /\ i \div 2 = k
           /\ \A i, j \in 1 .. 2 * n : i % 2 = 1 /\ j % 2 = 1 /\ (i + 1) \div 2 = (j + 1) \div 2 => i = j
           /\ \A i, j \in 1 .. 2 * n : i % 2 = 0 /\ j % 2 = 0 /\ i \div 2 = j \div 2 => i = j
<1>1. ASSUME NEW i \in 1 .. 2 * n
      PROVE  \/ i % 2 = 1 /\ (i + 1) \div 2 \in 1 .. n
             \/ i % 2 = 0 /\ i \div 2 \in 1 .. n
  OBVIOUS
<1>2. ASSUME NEW k \in 1 .. n PROVE \E i \in 1 .. 2 * n : i % 2 = 1 /\ (i + 1) \div 2 = k
  <2>1. (k + k) - 1 \in 1 .. 2 * n
    OBVIOUS
  <2>2. ((k + k) - 1) % 2 = 1 /\ (((k + k) - 1) + 1) \div 2 = k
    OBVIOUS
  <2> QED BY <2>1, <2>2
<1>3. ASSUME NEW k \in 1 .. n PROVE \E i \in 1 .. 2 * n : i % 2 = 0 /\ i \div 2 = k
  <2>1. k + k \in 1 .. 2 * n
    OBVIOUS
  <2>2. (k + k) % 2 = 0 /\ (k + k) \div 2 = k
    OBVIOUS
  <2> QED BY <2>1, <2>2
<1>4. ASSUME NEW i \in 1 .. 2 * n, NEW j \in 1 .. 2 * n, i % 2 = 1, j % 2 = 1, (i + 1) \div 2 = (j + 1) \div 2
      PROVE  i = j
  BY <1>4
<1>5. ASSUME NEW i \in 1 .. 2 * n, NEW j \in 1 .. 2 * n, i % 2 = 0, j % 2 = 0, i \div 2 = j \div 2 PROVE i = j
  BY <1>5
<1> QED BY <1>1, <1>2, <1>3, <1>4, <1>5

LEMMA ListOf ==
    ASSUME NEW T, NEW s \in Seq(T)
    PROVE  Len(s) \in Nat /\ s \in [1 .. Len(s) -> T] /\ DOMAIN s = 1 .. Len(s)
  OBVIOUS

\* Several approvals are answered, each once.
LEMMA BearsDismiss ==
    ASSUME NEW as, as \subseteq Asks, IsFiniteSet(as)
    PROVE  Bears(Dismiss(as), {}, {}, as)
<1> DEFINE s == Dismiss(as)
<1>1. PICK l \in Seq(as) : /\ l = SetToSeq(as)
                           /\ \A i, j \in DOMAIN l : l[i] = l[j] => i = j
                           /\ \A a \in as : \E i \in DOMAIN l : l[i] = a
  BY ListFacts
<1> DEFINE n == Len(l)
<1>0. n \in Nat /\ l \in [1 .. n -> as] /\ DOMAIN l = 1 .. n
  BY ListOf
<1> HIDE DEF n
<1>2. s = [i \in 1 .. 2 * n |-> IF i % 2 = 1 THEN Write(Reply(l[(i + 1) \div 2])) ELSE Settled(l[i \div 2])]
  BY <1>0, <1>1 DEF Dismiss, n
<1>3. ASSUME NEW i \in 1 .. 2 * n
      PROVE  \/ i % 2 = 1 /\ (i + 1) \div 2 \in 1 .. n
             \/ i % 2 = 0 /\ i \div 2 \in 1 .. n
  BY <1>0, Halves
<1> HIDE DEF s
<1>4. ASSUME NEW i \in 1 .. 2 * n
      PROVE  \/ i % 2 = 1 /\ s[i] = Write(Reply(l[(i + 1) \div 2])) /\ l[(i + 1) \div 2] \in as
             \/ i % 2 # 1 /\ \E a \in as : s[i] = Settled(a)
  <2>1. CASE i % 2 = 1
    <3>1. (i + 1) \div 2 \in 1 .. n
      BY <1>3, <2>1
    <3> QED BY <1>0, <1>2, <2>1, <3>1
  <2>2. CASE i % 2 # 1
    <3>1. i \div 2 \in 1 .. n
      BY <1>3, <2>2
    <3>2. l[i \div 2] \in as
      BY <1>0, <3>1
    <3> QED BY <1>2, <2>2, <3>2
  <2> QED BY <2>1, <2>2
<1>5. \A a \in as : \E i \in 1 .. 2 * n : s[i] = Write(Reply(a))
  <2>1. ASSUME NEW a \in as PROVE \E i \in 1 .. 2 * n : s[i] = Write(Reply(a))
    <3>1. PICK k \in 1 .. n : l[k] = a
      BY <1>0, <1>1, <2>1
    <3>2. PICK i \in 1 .. 2 * n : i % 2 = 1 /\ (i + 1) \div 2 = k
      BY <1>0, Halves
    <3> QED BY <1>2, <3>1, <3>2
  <2> QED BY <2>1
<1>6. DOMAIN s = 1 .. 2 * n
  BY <1>2
<1>7. s \in Seq(Steps)
  <2>1. \A i \in 1 .. 2 * n : s[i] \in Steps
    BY <1>4, WritesAreSteps, EmitsAreSteps
  <2>2. 2 * n \in Nat
    BY <1>0
  <2>3. s \in [1 .. 2 * n -> Steps]
    BY <1>2, <2>1
  <2> QED BY <2>2, <2>3
<1>8. \A a, b \in Asks : Write(Reply(a)) = Write(Reply(b)) => a = b
  BY DEF Write, Reply
<1>9. \A a, b \in Asks : Settled(a) # Write(Reply(b))
  BY DEF Settled, Emit, Write
<1>10. ASSUME NEW a \in Asks PROVE Single(s, ReplyOf(a)) /\ (Lacks(s, ReplyOf(a)) <=> a \notin as)
  <2>1. ASSUME NEW i \in 1 .. 2 * n, s[i] = Write(Reply(a))
        PROVE  i % 2 = 1 /\ l[(i + 1) \div 2] = a /\ a \in as
    BY <1>4, <1>8, <1>9, <2>1
  <2>2. ASSUME NEW i \in 1 .. 2 * n, NEW j \in 1 .. 2 * n, s[i] = Write(Reply(a)), s[j] = Write(Reply(a))
        PROVE  i = j
    <3>1. i % 2 = 1 /\ j % 2 = 1 /\ l[(i + 1) \div 2] = a /\ l[(j + 1) \div 2] = a
      BY <2>1, <2>2
    <3>2. (i + 1) \div 2 \in 1 .. n /\ (j + 1) \div 2 \in 1 .. n
      BY <1>3, <3>1
    <3>3. \A p, k \in 1 .. n : l[p] = l[k] => p = k
      BY <1>0, <1>1
    <3>4. (i + 1) \div 2 = (j + 1) \div 2
      BY <3>1, <3>2, <3>3
    <3> QED BY <1>0, <3>1, <3>4, Halves
  <2>3. Single(s, ReplyOf(a))
    BY <1>6, <2>2 DEF Single, ReplyOf
  <2>4. Lacks(s, ReplyOf(a)) <=> a \notin as
    BY <1>5, <1>6, <2>1 DEF Lacks, ReplyOf
  <2> QED BY <2>3, <2>4
<1>11. ASSUME NEW m \in Msgs, NEW i \in 1 .. 2 * n PROVE s[i] \notin EchoOf(m) /\ s[i] \notin PromptOf(m)
  <2>1. ASSUME NEW a \in Asks
        PROVE  /\ Write(Reply(a)) \notin EchoOf(m) /\ Write(Reply(a)) \notin PromptOf(m)
               /\ Settled(a) \notin EchoOf(m) /\ Settled(a) \notin PromptOf(m)
    <3>1. Write(Reply(a)).do = "write" /\ Write(Reply(a)).it.is = "reply"
      BY DEF Write, Reply
    <3>2. Settled(a).do = "emit" /\ Settled(a).it.is = "settled"
      BY DEF Settled, Emit
    <3>3. Echo(m).do = "emit" /\ Echo(m).it.is = "echo"
      BY DEF Echo, Emit
    <3> QED BY <3>1, <3>2, <3>3 DEF EchoOf, PromptOf, Brings
  <2> QED BY <1>4, <2>1
<1>12. \A m \in Msgs : /\ Single(s, EchoOf(m)) /\ Lacks(s, EchoOf(m))
                       /\ Single(s, PromptOf(m)) /\ Lacks(s, PromptOf(m))
  BY <1>6, <1>11 DEF Single, Lacks
<1> QED BY <1>7, <1>10, <1>12 DEF Bears, s

-----------------------------------------------------------------------------
(* Lists without repetition, and the sets of their members                 *)

LEMMA MembersFacts ==
    ASSUME NEW A
    PROVE  /\ ToSet(<<>>) = {} /\ IsInjective(<<>>)
           /\ \A x \in A : ToSet(<<x>>) = {x} /\ IsInjective(<<x>>)
           /\ \A s \in Seq(A) : ToSet(s) \subseteq A /\ (ToSet(s) = {} => s = <<>>)
<1>1. ASSUME NEW s \in Seq(A), ToSet(s) = {} PROVE s = <<>>
  <2>1. \A i \in 1 .. Len(s) : FALSE
    BY <1>1 DEF ToSet
  <2>2. Len(s) = 0
    BY <2>1
  <2> QED BY <2>2
<1> QED BY <1>1 DEF ToSet, IsInjective

LEMMA JoinFacts ==
    ASSUME NEW A, NEW s \in Seq(A), NEW t \in Seq(A)
    PROVE  /\ s \o t \in Seq(A) /\ ToSet(s \o t) = ToSet(s) \cup ToSet(t)
           /\ IsInjective(s) /\ IsInjective(t) /\ ToSet(s) \cap ToSet(t) = {} => IsInjective(s \o t)
<1>1. \A S : /\ s \o t \in Seq(A)
             /\ Lacks(s \o t, S) <=> Lacks(s, S) /\ Lacks(t, S)
             /\ Single(s, S) /\ Single(t, S) /\ (Lacks(s, S) \/ Lacks(t, S)) => Single(s \o t, S)
  BY LacksFacts
<1>2. \A u, x : x \in ToSet(u) <=> ~Lacks(u, {x})
  BY DEF ToSet, Lacks
<1>3. ToSet(s \o t) = ToSet(s) \cup ToSet(t)
  BY <1>1, <1>2
<1>4. \A u : IsInjective(u) <=> \A x \in ToSet(u) : Single(u, {x})
  BY DEF ToSet, Single, IsInjective
<1>5. ASSUME IsInjective(s), IsInjective(t), ToSet(s) \cap ToSet(t) = {} PROVE IsInjective(s \o t)
  <2>1. \A x : Single(s, {x}) /\ Single(t, {x})
    BY <1>5 DEF IsInjective, Single
  <2>2. \A x : Lacks(s, {x}) \/ Lacks(t, {x})
    BY <1>2, <1>5
  <2> QED BY <1>1, <1>4, <2>1, <2>2
<1> QED BY <1>1, <1>3, <1>5

LEMMA OneMore ==
    ASSUME NEW A, NEW s \in Seq(A), NEW x \in A
    PROVE  /\ Append(s, x) \in Seq(A) /\ ToSet(Append(s, x)) = ToSet(s) \cup {x}
           /\ IsInjective(s) /\ x \notin ToSet(s) => IsInjective(Append(s, x))
<1>1. Append(s, x) = s \o <<x>> /\ <<x>> \in Seq(A)
  OBVIOUS
<1>2. ToSet(<<x>>) = {x} /\ IsInjective(<<x>>)
  BY MembersFacts
<1>3. /\ s \o <<x>> \in Seq(A) /\ ToSet(s \o <<x>>) = ToSet(s) \cup ToSet(<<x>>)
      /\ IsInjective(s) /\ IsInjective(<<x>>) /\ ToSet(s) \cap ToSet(<<x>>) = {} => IsInjective(s \o <<x>>)
  BY <1>1, JoinFacts
<1> QED BY <1>1, <1>2, <1>3

LEMMA OneMessage == \A m \in Msgs : <<m>> \in Turn /\ ToSet(<<m>>) = {m} /\ IsInjective(<<m>>)
<1>1. ASSUME NEW m \in Msgs PROVE <<m>> \in Turn /\ ToSet(<<m>>) = {m} /\ IsInjective(<<m>>)
  <2>1. <<m>> \in Turn
    BY DEF Turn
  <2> QED BY <2>1, MembersFacts
<1> QED BY <1>1

LEMMA Thrice ==
    ASSUME NEW x, NEW y, NEW z
    PROVE  <<x, y, z>> = <<x>> \o (<<y>> \o <<z>>)
<1> DEFINE A == {x, y, z}
<1>0. x \in A /\ y \in A /\ z \in A
  OBVIOUS
<1> HIDE DEF A
<1>1. <<x>> \in Seq(A) /\ <<y>> \in Seq(A) /\ <<z>> \in Seq(A) /\ <<x, y, z>> \in Seq(A)
  BY <1>0
<1>2. \A s, t \in Seq(A) : /\ s \o t \in Seq(A) /\ Len(s \o t) = Len(s) + Len(t)
                           /\ \A i \in 1 .. Len(s) : (s \o t)[i] = s[i]
                           /\ \A i \in 1 .. Len(t) : (s \o t)[Len(s) + i] = t[i]
  OBVIOUS
<1>3. PICK u \in Seq(A) : u = <<y>> \o <<z>> /\ Len(u) = 2 /\ u[1] = y /\ u[2] = z
  <2>1. Len(<<y>>) = 1 /\ Len(<<z>>) = 1 /\ <<y>>[1] = y /\ <<z>>[1] = z
    OBVIOUS
  <2>2. (<<y>> \o <<z>>)[1] = <<y>>[1] /\ (<<y>> \o <<z>>)[1 + 1] = <<z>>[1]
    BY <1>1, <1>2, <2>1
  <2>3. <<y>> \o <<z>> \in Seq(A) /\ Len(<<y>> \o <<z>>) = 2 /\ 1 + 1 = 2
    BY <1>1, <1>2, <2>1
  <2> QED BY <2>1, <2>2, <2>3
<1>4. PICK v \in Seq(A) : v = <<x>> \o u /\ Len(v) = 3 /\ v[1] = x /\ v[2] = y /\ v[3] = z
  <2>1. Len(<<x>>) = 1 /\ <<x>>[1] = x
    OBVIOUS
  <2>2. (<<x>> \o u)[1] = <<x>>[1] /\ (<<x>> \o u)[1 + 1] = u[1] /\ (<<x>> \o u)[1 + 2] = u[2]
    BY <1>1, <1>2, <1>3, <2>1
  <2>3. <<x>> \o u \in Seq(A) /\ Len(<<x>> \o u) = 3 /\ 1 + 1 = 2 /\ 1 + 2 = 3
    BY <1>1, <1>2, <1>3, <2>1
  <2> QED BY <1>3, <2>1, <2>2, <2>3
<1>5. \A s \in Seq(A) : Len(s) = 3 => s = <<s[1], s[2], s[3]>>
  OBVIOUS
<1> QED BY <1>3, <1>4, <1>5

LEMMA ListedFacts ==
    ASSUME NEW T, IsFiniteSet(T)
    PROVE  SetToSeq(T) \in Seq(T) /\ ToSet(SetToSeq(T)) = T /\ IsInjective(SetToSeq(T))
<1>1. /\ SetToSeq(T) \in Seq(T)
      /\ \A i, j \in DOMAIN SetToSeq(T) : SetToSeq(T)[i] = SetToSeq(T)[j] => i = j
      /\ \A x \in T : \E i \in DOMAIN SetToSeq(T) : SetToSeq(T)[i] = x
  BY ListFacts
<1>2. ToSet(SetToSeq(T)) \subseteq T
  BY <1>1, MembersFacts
<1> QED BY <1>1, <1>2 DEF ToSet, IsInjective

LEMMA Wider == \A A, B, s : A \subseteq B /\ s \in Seq(A) => s \in Seq(B)
  OBVIOUS

-----------------------------------------------------------------------------
(* A call of a driver: what its steps bear is what it held, or was given.  *)

Moved(out, held, later) == out \subseteq held /\ later = held \ out

Deals(s, shows, shows2, hands, hands2, asks, asks2) ==
    \E e, p, q :
        /\ Bears(s, e, p, q)
        /\ Moved(e, shows, shows2) /\ Moved(p, hands, hands2)
        /\ q \subseteq asks /\ asks2 \subseteq asks \ q

LEMMA DealsBy ==
    ASSUME NEW s, NEW e, NEW p, NEW q, NEW shows, NEW shows2, NEW hands, NEW hands2,
           NEW asks, NEW asks2, Bears(s, e, p, q), Moved(e, shows, shows2),
           Moved(p, hands, hands2), q \subseteq asks, asks2 \subseteq asks \ q
    PROVE  Deals(s, shows, shows2, hands, hands2, asks, asks2)
  BY DEF Deals

Few(T) == {S \in SUBSET T : IsFiniteSet(S)}

LEMMA FewFacts ==
    ASSUME NEW T, NEW S \in Few(T)
    PROVE  /\ S \subseteq T /\ IsFiniteSet(S) /\ {} \in Few(T)
           /\ \A R : S \ R \in Few(T) /\ S \cap R \in Few(T)
           /\ \A x \in T : S \cup {x} \in Few(T)
<1>1. S \subseteq T /\ IsFiniteSet(S) /\ IsFiniteSet({})
  BY FS_EmptySet DEF Few
<1>2. ASSUME NEW R PROVE S \ R \in Few(T) /\ S \cap R \in Few(T)
  BY <1>1, FS_Subset DEF Few
<1>3. ASSUME NEW x \in T PROVE S \cup {x} \in Few(T)
  BY <1>1, FS_AddElement DEF Few
<1> QED BY <1>1, <1>2, <1>3 DEF Few

-----------------------------------------------------------------------------
(* Codex                                                                   *)

CodexDrv ==
    [phase : {"initializing", "starting", "ready"}, active : Turn \cup {None},
     startId : Turn \cup {None}, queued : Turn, steers : Few(Msgs), unanswered : SUBSET Msgs,
     carried : Turn, pending : Few(Asks), elicitations : SUBSET Asks]

CodexNeat(d) ==
    /\ IsInjective(d.queued) /\ IsInjective(d.carried)
    /\ ToSet(d.queued) \cap ToSet(d.carried) = {}
    /\ d.steers \cap (ToSet(d.queued) \cup ToSet(d.carried)) = {}

CodexKnows(d) == d.steers \cup ToSet(d.queued) \cup ToSet(d.carried)
CodexShows(d) == d.steers \cup ToSet(d.carried)
CodexHands(d) == ToSet(d.queued) \cup ToSet(d.carried)

\* What a call makes of the driver, given a new message, messages that come back to
\* it or a new approval.
CodexDeals(d, r, new, back, asks) ==
    /\ r.drv \in CodexDrv /\ CodexNeat(r.drv)
    /\ CodexKnows(r.drv) \subseteq CodexKnows(d) \cup new
    /\ Deals(r.steps, CodexShows(d) \cup new, CodexShows(r.drv), CodexHands(d) \cup new \cup back,
             CodexHands(r.drv), d.pending \cup asks, r.drv.pending)

LEMMA CodexFields ==
    ASSUME NEW d \in CodexDrv
    PROVE  /\ d.phase \in {"initializing", "starting", "ready"} /\ d.active \in Turn \cup {None}
           /\ d.startId \in Turn \cup {None} /\ d.queued \in Turn /\ d.steers \in Few(Msgs)
           /\ d.unanswered \subseteq Msgs /\ d.carried \in Turn /\ d.pending \in Few(Asks)
           /\ d.elicitations \subseteq Asks
           /\ d.steers \subseteq Msgs /\ IsFiniteSet(d.steers)
           /\ d.pending \subseteq Asks /\ IsFiniteSet(d.pending)
           /\ ToSet(d.queued) \subseteq Msgs /\ ToSet(d.carried) \subseteq Msgs
  BY FewFacts, MembersFacts DEF CodexDrv, Turn

\* A call that changes neither lists nor steers, nor what is pending.
LEMMA CodexKeeps ==
    ASSUME NEW d \in CodexDrv, CodexNeat(d), NEW c \in CodexDrv, NEW s,
           c.queued = d.queued, c.carried = d.carried, c.steers = d.steers,
           NEW q, NEW asks, Bears(s, {}, {}, q), q \subseteq d.pending \cup asks,
           c.pending \subseteq (d.pending \cup asks) \ q
    PROVE  CodexDeals(d, Result(c, s), {}, {}, asks)
<1>1. Moved({}, CodexShows(d) \cup {}, CodexShows(c)) /\ Moved({}, CodexHands(d) \cup {} \cup {}, CodexHands(c))
  BY DEF Moved, CodexShows, CodexHands
<1>2. Deals(s, CodexShows(d) \cup {}, CodexShows(c), CodexHands(d) \cup {} \cup {}, CodexHands(c),
            d.pending \cup asks, c.pending)
  BY <1>1, DealsBy
<1> QED BY <1>2 DEF CodexDeals, CodexNeat, CodexKnows, Result

\* What is carried is sent as one turn, or stays.
LEMMA CodexFlushes ==
    ASSUME NEW d \in CodexDrv, CodexNeat(d)
    PROVE  CodexDeals(d, CodexFlush(d), {}, {}, {})
<1> DEFINE r == CodexFlush(d)
<1>1. CASE d.carried = <<>> \/ d.active # None \/ d.startId # None
  <2>1. r = Result(d, <<>>)
    BY <1>1 DEF CodexFlush
  <2> QED BY <2>1, BearsNothing, CodexKeeps
<1>2. CASE ~(d.carried = <<>> \/ d.active # None \/ d.startId # None)
  <2> DEFINE c == [d EXCEPT !.carried = <<>>, !.startId = d.carried]
             s == Echoes(d.carried) \o <<Write(TurnStart(d.carried))>>
  <2>1. r.drv = c /\ r.steps = s
    BY <1>2 DEF CodexFlush, CodexFrame, Result, CodexDrv
  <2>2. c \in CodexDrv /\ c.queued = d.queued /\ c.steers = d.steers /\ c.carried = <<>> /\ c.pending = d.pending
    <3>1. <<>> \in Turn /\ d.carried \in Turn
      BY CodexFields DEF Turn
    <3> QED BY <3>1 DEF CodexDrv
  <2>3. ToSet(<<>>) = {} /\ IsInjective(<<>>)
    BY MembersFacts
  <2>4. Bears(Echoes(d.carried), ToSet(d.carried), {}, {})
    BY BearsEchoes, CodexFields DEF CodexNeat
  <2>5. Bears(<<Write(TurnStart(d.carried))>>, {}, ToSet(d.carried), {})
    BY BearsWrites, CodexFields
  <2>6. Bears(s, ToSet(d.carried), ToSet(d.carried), {})
    <3>1. Bears(s, ToSet(d.carried) \cup {}, {} \cup ToSet(d.carried), {} \cup {})
      BY <2>4, <2>5, BearsJoin
    <3> QED BY <3>1
  <2>7. Moved(ToSet(d.carried), CodexShows(d) \cup {}, CodexShows(c))
    BY <2>2, <2>3 DEF Moved, CodexShows, CodexNeat
  <2>8. Moved(ToSet(d.carried), CodexHands(d) \cup {} \cup {}, CodexHands(c))
    BY <2>2, <2>3 DEF Moved, CodexHands, CodexNeat
  <2>9. Deals(s, CodexShows(d) \cup {}, CodexShows(c), CodexHands(d) \cup {} \cup {}, CodexHands(c),
              d.pending \cup {}, c.pending)
    BY <2>2, <2>6, <2>7, <2>8, DealsBy
  <2>10. CodexNeat(c) /\ CodexKnows(c) \subseteq CodexKnows(d) \cup {}
    BY <2>2, <2>3 DEF CodexNeat, CodexKnows
  <2> QED BY <2>1, <2>2, <2>9, <2>10 DEF CodexDeals
<1> QED BY <1>1, <1>2

\* send_turn and steer.
LEMMA CodexCalls ==
    ASSUME NEW d \in CodexDrv, CodexNeat(d), NEW m \in Msgs, m \notin CodexKnows(d), NEW how
    PROVE  CodexDeals(d, CodexCall(d, m, how), {m}, {}, {})
<1> DEFINE r == CodexCall(d, m, how)
<1>0. /\ d.queued \in Turn /\ d.carried \in Turn /\ d.steers \in Few(Msgs) /\ d.pending \in Few(Asks)
      /\ <<m>> \in Turn /\ ToSet(<<m>>) = {m}
  BY CodexFields, MembersFacts DEF Turn
<1>1. CASE d.active # None /\ r = CodexSteer(d, m)
  <2> DEFINE c == [d EXCEPT !.steers = @ \cup {m}, !.unanswered = @ \cup {m}]
             s == <<Write(TurnSteer(m, d.active))>>
  <2>1. r.drv = c /\ r.steps = s
    BY <1>1 DEF CodexSteer, Result
  <2>2. d.steers \cup {m} \in Few(Msgs)
    BY <1>0, FewFacts
  <2>3. c \in CodexDrv /\ c.queued = d.queued /\ c.carried = d.carried /\ c.pending = d.pending
        /\ c.steers = d.steers \cup {m}
    BY <2>2 DEF CodexDrv
  <2>4. Bears(s, {}, {m}, {})
    BY <1>1, BearsWrites, CodexFields
  <2>5. Moved({}, CodexShows(d) \cup {m}, CodexShows(c))
    BY <2>3 DEF Moved, CodexShows
  <2>6. Moved({m}, CodexHands(d) \cup {m} \cup {}, CodexHands(c))
    BY <2>3 DEF Moved, CodexHands, CodexKnows
  <2>7. Deals(s, CodexShows(d) \cup {m}, CodexShows(c), CodexHands(d) \cup {m} \cup {}, CodexHands(c),
              d.pending \cup {}, c.pending)
    BY <2>3, <2>4, <2>5, <2>6, DealsBy
  <2>8. CodexNeat(c) /\ CodexKnows(c) \subseteq CodexKnows(d) \cup {m}
    BY <2>3 DEF CodexNeat, CodexKnows
  <2> QED BY <2>1, <2>3, <2>7, <2>8 DEF CodexDeals
<1>2. CASE d.phase = "ready" /\ d.active = None
  <2> DEFINE w == IF m \in Compacts THEN [is |-> "compact", msgs |-> <<m>>] ELSE TurnStart(<<m>>)
             c == IF m \in Compacts THEN d ELSE [d EXCEPT !.startId = <<m>>]
             s == <<Echo(m)>> \o <<Write(w)>>
  <2>1. r.drv = c /\ r.steps = s
    BY <1>2 DEF CodexCall, CodexSend, CodexFrame, Result
  <2>2. /\ c \in CodexDrv /\ c.queued = d.queued /\ c.carried = d.carried /\ c.pending = d.pending
        /\ c.steers = d.steers
    BY <1>0 DEF CodexDrv
  <2>3. Bears(<<Echo(m)>>, {m}, {}, {}) /\ Bears(<<Write(w)>>, {}, {m}, {})
    BY <1>0, BearsEmits, BearsWrites
  <2>4. Bears(s, {m}, {m}, {})
    <3>1. Bears(s, {m} \cup {}, {} \cup {m}, {} \cup {})
      BY <2>3, BearsJoin
    <3> QED BY <3>1
  <2>5. Moved({m}, CodexShows(d) \cup {m}, CodexShows(c))
    BY <2>2 DEF Moved, CodexShows, CodexKnows
  <2>6. Moved({m}, CodexHands(d) \cup {m} \cup {}, CodexHands(c))
    BY <2>2 DEF Moved, CodexHands, CodexKnows
  <2>7. Deals(s, CodexShows(d) \cup {m}, CodexShows(c), CodexHands(d) \cup {m} \cup {}, CodexHands(c),
              d.pending \cup {}, c.pending)
    BY <2>2, <2>4, <2>5, <2>6, DealsBy
  <2>8. CodexNeat(c) /\ CodexKnows(c) \subseteq CodexKnows(d) \cup {m}
    BY <2>2 DEF CodexNeat, CodexKnows
  <2> QED BY <2>1, <2>2, <2>7, <2>8 DEF CodexDeals
<1>3. CASE d.phase # "ready" /\ r = Result([d EXCEPT !.queued = Append(@, m)], <<Echo(m)>>)
  <2> DEFINE c == [d EXCEPT !.queued = Append(@, m)]
             s == <<Echo(m)>>
  <2>1. r.drv = c /\ r.steps = s
    BY <1>3 DEF Result
  <2>2. /\ Append(d.queued, m) \in Turn /\ ToSet(Append(d.queued, m)) = ToSet(d.queued) \cup {m}
        /\ IsInjective(Append(d.queued, m))
    BY <1>0, OneMore DEF Turn, CodexNeat, CodexKnows
  <2>3. /\ c \in CodexDrv /\ c.queued = Append(d.queued, m) /\ c.carried = d.carried /\ c.pending = d.pending
        /\ c.steers = d.steers
    BY <2>2 DEF CodexDrv
  <2>4. Bears(s, {m}, {}, {})
    BY BearsEmits
  <2>5. Moved({m}, CodexShows(d) \cup {m}, CodexShows(c))
    BY <2>3 DEF Moved, CodexShows, CodexKnows
  <2>6. Moved({}, CodexHands(d) \cup {m} \cup {}, CodexHands(c))
    BY <2>2, <2>3 DEF Moved, CodexHands, CodexKnows
  <2>7. Deals(s, CodexShows(d) \cup {m}, CodexShows(c), CodexHands(d) \cup {m} \cup {}, CodexHands(c),
              d.pending \cup {}, c.pending)
    BY <2>3, <2>4, <2>5, <2>6, DealsBy
  <2>8. CodexNeat(c) /\ CodexKnows(c) \subseteq CodexKnows(d) \cup {m}
    BY <2>2, <2>3 DEF CodexNeat, CodexKnows
  <2> QED BY <2>1, <2>3, <2>7, <2>8 DEF CodexDeals
<1> QED
  <2>1. CASE d.active # None /\ (how = "steer" \/ d.phase = "ready")
    BY <1>1, <2>1 DEF CodexCall, CodexSend
  <2>2. CASE d.phase # "ready" /\ ~(how = "steer" /\ d.active # None)
    BY <1>3, <2>2 DEF CodexCall, CodexSend
  <2> QED BY <1>2, <2>1, <2>2

LEMMA CodexAnswers ==
    ASSUME NEW d \in CodexDrv, CodexNeat(d), NEW a \in Asks
    PROVE  CodexDeals(d, CodexAnswer(d, a), {}, {}, {})
<1>1. CASE a \notin d.pending
  BY <1>1, BearsNothing, CodexKeeps DEF CodexAnswer
<1>2. CASE a \in d.pending
  <2> DEFINE c == [d EXCEPT !.pending = @ \ {a}]
             s == <<Write(Reply(a)), Settled(a)>>
  <2>1. CodexAnswer(d, a) = Result(c, s)
    BY <1>2 DEF CodexAnswer
  <2>2. d.pending \ {a} \in Few(Asks)
    BY CodexFields, FewFacts
  <2>3. c \in CodexDrv /\ c.queued = d.queued /\ c.carried = d.carried /\ c.steers = d.steers
        /\ c.pending = d.pending \ {a}
    BY <2>2 DEF CodexDrv
  <2>4. Bears(s, {}, {}, {a})
    <3>1. Bears(<<Write(Reply(a))>> \o <<Settled(a)>>, {} \cup {}, {} \cup {}, {a} \cup {})
      BY BearsWrites, BearsEmits, BearsJoin
    <3>2. s = <<Write(Reply(a))>> \o <<Settled(a)>>
      OBVIOUS
    <3> QED BY <3>1, <3>2
  <2> HIDE DEF c, s
  <2>5. {a} \subseteq d.pending \cup {} /\ c.pending \subseteq (d.pending \cup {}) \ {a}
    BY <1>2, <2>3
  <2>6. CodexDeals(d, Result(c, s), {}, {}, {})
    BY <2>3, <2>4, <2>5, CodexKeeps
  <2> QED BY <2>1, <2>6
<1> QED BY <1>1, <1>2

LEMMA CodexInterrupts ==
    ASSUME NEW d \in CodexDrv, CodexNeat(d)
    PROVE  CodexDeals(d, CodexInterrupt(d), {}, {}, {}) /\ CodexDeals(d, CodexAbandon(d), {}, {}, {})
<1>1. CodexDeals(d, CodexInterrupt(d), {}, {}, {})
  <2>1. CASE d.active = None
    BY <2>1, BearsNothing, CodexKeeps DEF CodexInterrupt
  <2>2. CASE d.active # None
    <3> DEFINE as == d.pending \cap d.elicitations
               c == [d EXCEPT !.pending = @ \ as]
               s == Dismiss(as) \o <<Write(Interrupt(d.active))>>
    <3>0. d.pending \in Few(Asks)
      BY CodexFields
    <3>1. as \subseteq Asks /\ IsFiniteSet(as) /\ d.pending \ as \in Few(Asks)
      <4>1. as \in Few(Asks) /\ d.pending \ as \in Few(Asks)
        BY <3>0, FewFacts
      <4> QED BY <4>1 DEF Few
    <3>2. Bears(Dismiss(as), {}, {}, as) /\ Bears(<<Write(Interrupt(d.active))>>, {}, {}, {})
      BY <3>1, BearsDismiss, BearsWrites, CodexFields
    <3>3. Bears(s, {}, {}, as)
      <4>1. Bears(s, {} \cup {}, {} \cup {}, as \cup {})
        BY <3>2, BearsJoin
      <4> QED BY <4>1
    <3>4. Append(Dismiss(as), Write(Interrupt(d.active))) = s
      <4>1. Dismiss(as) \in Seq(Steps)
        BY <3>2 DEF Bears
      <4> QED BY <4>1
    <3>5. CodexInterrupt(d) = Result(c, s)
      BY <2>2, <3>4 DEF CodexInterrupt
    <3>6. c \in CodexDrv /\ c.queued = d.queued /\ c.carried = d.carried /\ c.steers = d.steers
          /\ c.pending = d.pending \ as
      BY <3>1 DEF CodexDrv
    <3> HIDE DEF s, c
    <3> QED BY <3>3, <3>5, <3>6, CodexKeeps
  <2> QED BY <2>1, <2>2
<1>2. CodexDeals(d, CodexAbandon(d), {}, {}, {})
  <2> DEFINE c == [d EXCEPT !.pending = {}]
  <2>1. Bears(Dismiss(d.pending), {}, {}, d.pending) /\ {} \in Few(Asks)
    BY BearsDismiss, CodexFields, FewFacts
  <2>2. c \in CodexDrv /\ c.queued = d.queued /\ c.carried = d.carried /\ c.steers = d.steers
        /\ c.pending = {}
    BY <2>1 DEF CodexDrv
  <2> HIDE DEF c
  <2>3. CodexAbandon(d) = Result(c, Dismiss(d.pending))
    BY DEF CodexAbandon, c
  <2> QED BY <2>1, <2>2, <2>3, CodexKeeps
<1> QED BY <1>1, <1>2

\* A reply to turn/start; the open thread.
LEMMA CodexStarts ==
    ASSUME NEW d \in CodexDrv, CodexNeat(d), NEW line \in Lines, line.is = "start"
    PROVE  CodexDeals(d, CodexOnStart(d, line), {}, {}, {})
<1> DEFINE c == [d EXCEPT !.startId = IF line.turn = d.startId THEN None ELSE @,
                          !.active = IF line.turn = d.startId /\ line.ok THEN line.turn ELSE @]
           s == IF line.ok THEN <<>> ELSE <<Failed>>
<1>1. CodexOnStart(d, line) = Result(c, s)
  BY DEF CodexOnStart
<1>2. /\ c \in CodexDrv /\ c.queued = d.queued /\ c.carried = d.carried /\ c.pending = d.pending
      /\ c.steers = d.steers
  <2>1. line.turn \in Turn
    BY LineFields
  <2> QED BY <2>1 DEF CodexDrv
<1>3. Bears(s, {}, {}, {})
  BY BearsEmits, BearsNothing
<1> HIDE DEF c, s
<1> QED BY <1>1, <1>2, <1>3, CodexKeeps

\* The queued messages are each a turn of their own.
LEMMA BearsTurns ==
    ASSUME NEW ms \in Turn, IsInjective(ms)
    PROVE  Bears([i \in DOMAIN ms |-> Write(TurnStart(<<ms[i]>>))], {}, ToSet(ms), {})
<1> DEFINE s == [i \in DOMAIN ms |-> Write(TurnStart(<<ms[i]>>))]
<1>1. DOMAIN s = DOMAIN ms /\ (\A i \in DOMAIN ms : s[i] = Write(TurnStart(<<ms[i]>>)) /\ ms[i] \in Msgs)
  BY DEF Turn
<1>2. \A m \in Msgs : <<m>> \in Turn /\ ToSet(<<m>>) = {m}
  BY OneMessage
<1>3. s \in Seq(Steps)
  <2>0. \A i \in 1 .. Len(ms) : ms[i] \in Msgs
    BY DEF Turn
  <2>1. \A i \in 1 .. Len(ms) : Write(TurnStart(<<ms[i]>>)) \in Steps
    BY <1>2, <2>0, WritesAreSteps
  <2>2. s = [i \in 1 .. Len(ms) |-> Write(TurnStart(<<ms[i]>>))] /\ Len(ms) \in Nat
    BY DEF Turn
  <2> QED BY <2>1, <2>2
<1>4. \A m \in Msgs, n \in Msgs : Write(TurnStart(<<n>>)) \in PromptOf(m) <=> m = n
  <2>1. ASSUME NEW m \in Msgs, NEW n \in Msgs PROVE Write(TurnStart(<<n>>)) \in PromptOf(m) <=> m = n
    <3>1. Write(TurnStart(<<n>>)) \in Steps
      BY <1>2, WritesAreSteps
    <3>2. /\ Write(TurnStart(<<n>>)).do = "write" /\ Write(TurnStart(<<n>>)).it.is = "turn/start"
          /\ Write(TurnStart(<<n>>)).it.msgs = <<n>>
      BY DEF Write, TurnStart
    <3> QED BY <1>2, <3>1, <3>2 DEF PromptOf, Brings
  <2> QED BY <2>1
<1>5. \A m \in Msgs, n \in Msgs : Write(TurnStart(<<n>>)) \notin EchoOf(m)
  BY DEF EchoOf, Echo, Emit, Write
<1>6. \A a \in Asks, n \in Msgs : Write(TurnStart(<<n>>)) \notin ReplyOf(a)
  BY DEF ReplyOf, Write, Reply, TurnStart
<1>7. ASSUME NEW m \in Msgs PROVE Single(s, PromptOf(m)) /\ (Lacks(s, PromptOf(m)) <=> m \notin ToSet(ms))
  <2>1. Single(s, PromptOf(m))
    BY <1>1, <1>4 DEF Single, IsInjective
  <2>2. Lacks(s, PromptOf(m)) <=> m \notin ToSet(ms)
    BY <1>1, <1>4 DEF Lacks, ToSet
  <2> QED BY <2>1, <2>2
<1>8. \A m \in Msgs : Single(s, EchoOf(m)) /\ Lacks(s, EchoOf(m))
  BY <1>1, <1>5 DEF Single, Lacks
<1>9. \A a \in Asks : Single(s, ReplyOf(a)) /\ Lacks(s, ReplyOf(a))
  BY <1>1, <1>6 DEF Single, Lacks
<1> QED BY <1>3, <1>7, <1>8, <1>9 DEF Bears

LEMMA CodexOpens ==
    ASSUME NEW d \in CodexDrv, CodexNeat(d)
    PROVE  CodexDeals(d, CodexOnOpen(d), {}, {}, {})
<1> DEFINE x == IF d.queued = <<>> THEN d.startId ELSE <<Last(d.queued)>>
           c == [d EXCEPT !.phase = "ready", !.queued = <<>>, !.startId = x]
           s == [i \in DOMAIN d.queued |-> Write(TurnStart(<<d.queued[i]>>))]
           r == CodexOnOpen(d)
<1>0. d.queued \in Turn /\ d.startId \in Turn \cup {None}
  BY CodexFields
<1>1. x \in Turn \cup {None}
  <2>1. CASE d.queued # <<>>
    <3>1. Last(d.queued) \in Msgs
      BY <1>0, <2>1 DEF Last, Turn
    <3> QED BY <2>1, <3>1 DEF Turn
  <2> QED BY <1>0, <2>1
<1>2. r.drv = c /\ r.steps = s
  BY DEF CodexOnOpen, Result, CodexDrv
<1>3. <<>> \in Turn /\ ToSet(<<>>) = {} /\ IsInjective(<<>>)
  BY MembersFacts DEF Turn
<1> HIDE DEF x
<1>4. /\ c \in CodexDrv /\ c.queued = <<>> /\ c.carried = d.carried /\ c.pending = d.pending
      /\ c.steers = d.steers
  BY <1>1, <1>3 DEF CodexDrv
<1>5. Bears(s, {}, ToSet(d.queued), {})
  BY <1>0, BearsTurns DEF CodexNeat
<1> HIDE DEF c, s, r
<1>6. CodexNeat(c) /\ CodexKnows(c) \subseteq CodexKnows(d) \cup {}
  BY <1>3, <1>4 DEF CodexNeat, CodexKnows
<1>7. Moved({}, CodexShows(d) \cup {}, CodexShows(c))
  BY <1>4 DEF Moved, CodexShows
<1>8. Moved(ToSet(d.queued), CodexHands(d) \cup {} \cup {}, CodexHands(c))
  BY <1>3, <1>4 DEF Moved, CodexHands, CodexNeat
<1>9. {} \subseteq d.pending \cup {} /\ c.pending \subseteq (d.pending \cup {}) \ {}
  BY <1>4
<1>10. Deals(s, CodexShows(d) \cup {}, CodexShows(c), CodexHands(d) \cup {} \cup {}, CodexHands(c),
             d.pending \cup {}, c.pending)
  BY <1>5, <1>7, <1>8, <1>9, DealsBy
<1> QED BY <1>2, <1>4, <1>6, <1>10 DEF r, CodexDeals

\* A driver may be given something more before it flushes: what is said first, what
\* comes back to it.
LEMMA CodexFlushesAfter ==
    ASSUME NEW d \in CodexDrv, NEW c \in CodexDrv, CodexNeat(c), NEW s, NEW back,
           Bears(s, {}, {}, {}), back \subseteq d.steers,
           CodexKnows(c) \subseteq CodexKnows(d), CodexShows(c) = CodexShows(d),
           CodexHands(c) = CodexHands(d) \cup back, c.pending = d.pending
    PROVE  /\ CodexDeals(d, [CodexFlush(c) EXCEPT !.steps = s \o @], {}, back, {})
           /\ CodexDeals(d, CodexFlush(c), {}, back, {})
<1> DEFINE r == CodexFlush(c)
<1>1. /\ r.drv \in CodexDrv /\ CodexNeat(r.drv) /\ CodexKnows(r.drv) \subseteq CodexKnows(c) \cup {}
      /\ Deals(r.steps, CodexShows(c) \cup {}, CodexShows(r.drv), CodexHands(c) \cup {} \cup {},
               CodexHands(r.drv), c.pending \cup {}, r.drv.pending)
  BY CodexFlushes DEF CodexDeals
<1>2. PICK e, p, q : /\ Bears(r.steps, e, p, q)
                     /\ Moved(e, CodexShows(c) \cup {}, CodexShows(r.drv))
                     /\ Moved(p, CodexHands(c) \cup {} \cup {}, CodexHands(r.drv))
                     /\ q \subseteq c.pending \cup {} /\ r.drv.pending \subseteq (c.pending \cup {}) \ q
  BY <1>1 DEF Deals
<1>3. Bears(s \o r.steps, e, p, q)
  <2>1. Bears(s \o r.steps, {} \cup e, {} \cup p, {} \cup q)
    BY <1>2, BearsJoin
  <2> QED BY <2>1
<1>4. /\ Moved(e, CodexShows(d) \cup {}, CodexShows(r.drv))
      /\ Moved(p, CodexHands(d) \cup {} \cup back, CodexHands(r.drv))
      /\ q \subseteq d.pending \cup {} /\ r.drv.pending \subseteq (d.pending \cup {}) \ q
  BY <1>2 DEF Moved
<1>5. /\ Deals(s \o r.steps, CodexShows(d) \cup {}, CodexShows(r.drv), CodexHands(d) \cup {} \cup back,
               CodexHands(r.drv), d.pending \cup {}, r.drv.pending)
      /\ Deals(r.steps, CodexShows(d) \cup {}, CodexShows(r.drv), CodexHands(d) \cup {} \cup back,
               CodexHands(r.drv), d.pending \cup {}, r.drv.pending)
  BY <1>2, <1>3, <1>4, DealsBy
<1>6. CodexKnows(r.drv) \subseteq CodexKnows(d) \cup {}
  BY <1>1
<1>7. [r EXCEPT !.steps = s \o @].drv = r.drv /\ [r EXCEPT !.steps = s \o @].steps = s \o r.steps
  <2>1. DOMAIN r = {"drv", "steps"}
    BY DEF CodexFlush, CodexFrame, Result
  <2> QED BY <2>1
<1> HIDE DEF r
<1>8. CodexDeals(d, [r EXCEPT !.steps = s \o @], {}, back, {})
  BY <1>1, <1>5, <1>6, <1>7 DEF CodexDeals
<1>9. CodexDeals(d, r, {}, back, {})
  BY <1>1, <1>5, <1>6 DEF CodexDeals
<1> QED BY <1>8, <1>9 DEF r

\* The messages that a line brings back to the driver's lists.
CodexBack(d, line) ==
    IF line.is = "steer" /\ (~line.ok \/ d.active = None) THEN {line.msg} \cap d.steers
    ELSE IF line.is = "completed" THEN d.steers \ d.unanswered ELSE {}

LEMMA CodexSteers ==
    ASSUME NEW d \in CodexDrv, CodexNeat(d), NEW line \in Lines, line.is = "steer"
    PROVE  CodexDeals(d, CodexOnSteer(d, line), {}, CodexBack(d, line), {})
<1> DEFINE c == [d EXCEPT !.unanswered = @ \ {line.msg}]
           g == [c EXCEPT !.steers = @ \ {line.msg}, !.carried = Append(@, line.msg)]
<1>0. line.msg \in Msgs /\ line.ok \in BOOLEAN /\ d.carried \in Turn /\ d.steers \in Few(Msgs)
  BY LineFields, CodexFields
<1>1. /\ c \in CodexDrv /\ c.queued = d.queued /\ c.carried = d.carried /\ c.steers = d.steers
      /\ c.pending = d.pending
  BY DEF CodexDrv
<1>2. CASE (line.ok /\ ~(line.ok /\ d.active = None)) \/ line.msg \notin d.steers
  <2>1. CodexOnSteer(d, line) = Result(c, <<>>)
    BY <1>2 DEF CodexOnSteer
  <2>2. CodexBack(d, line) = {}
    BY <1>0, <1>2 DEF CodexBack
  <2> HIDE DEF c
  <2> QED BY <1>1, <2>1, <2>2, BearsNothing, CodexKeeps
<1>3. CASE ~((line.ok /\ ~(line.ok /\ d.active = None)) \/ line.msg \notin d.steers)
  <2>1. CodexOnSteer(d, line) = CodexFlush(g)
    BY <1>3 DEF CodexOnSteer
  <2>2. CodexBack(d, line) = {line.msg} /\ line.msg \in d.steers
    BY <1>0, <1>3 DEF CodexBack
  <2>3. /\ Append(d.carried, line.msg) \in Turn /\ IsInjective(Append(d.carried, line.msg))
        /\ ToSet(Append(d.carried, line.msg)) = ToSet(d.carried) \cup {line.msg}
    BY <1>0, <2>2, OneMore DEF Turn, CodexNeat
  <2>4. d.steers \ {line.msg} \in Few(Msgs)
    BY <1>0, FewFacts
  <2>5. /\ g \in CodexDrv /\ g.queued = d.queued /\ g.carried = Append(d.carried, line.msg)
        /\ g.steers = d.steers \ {line.msg} /\ g.pending = d.pending
    BY <2>3, <2>4 DEF CodexDrv
  <2> HIDE DEF c, g
  <2>6. CodexNeat(g) /\ CodexKnows(g) \subseteq CodexKnows(d)
    BY <2>2, <2>3, <2>5 DEF CodexNeat, CodexKnows
  <2>7. CodexShows(g) = CodexShows(d) /\ CodexHands(g) = CodexHands(d) \cup {line.msg}
    BY <2>2, <2>3, <2>5 DEF CodexShows, CodexHands
  <2>8. CodexDeals(d, CodexFlush(g), {}, {line.msg}, {})
    BY <2>2, <2>5, <2>6, <2>7, BearsNothing, CodexFlushesAfter
  <2> QED BY <2>1, <2>2, <2>8
<1> QED BY <1>2, <1>3

LEMMA CodexCompletes ==
    ASSUME NEW d \in CodexDrv, CodexNeat(d), NEW line \in Lines, line.is = "completed"
    PROVE  CodexDeals(d, CodexOnCompleted(d, line.failed), {}, CodexBack(d, line), {})
<1> DEFINE answered == d.steers \ d.unanswered
           awaiting == d.steers \cap d.unanswered
           c == [d EXCEPT !.active = None, !.steers = awaiting, !.carried = @ \o SetToSeq(answered)]
           r == CodexOnCompleted(d, line.failed)
<1>0. d.carried \in Turn /\ d.steers \in Few(Msgs) /\ line.failed \in BOOLEAN /\ d.queued \in Turn
  BY LineFields, CodexFields
<1>1. answered \in Few(Msgs) /\ awaiting \in Few(Msgs) /\ IsFiniteSet(answered) /\ answered \subseteq Msgs
  <2>1. answered \in Few(Msgs) /\ awaiting \in Few(Msgs)
    BY <1>0, FewFacts
  <2> QED BY <2>1, FewFacts
<1>2. /\ SetToSeq(answered) \in Turn /\ ToSet(SetToSeq(answered)) = answered
      /\ IsInjective(SetToSeq(answered))
  <2>1. /\ SetToSeq(answered) \in Seq(answered) /\ ToSet(SetToSeq(answered)) = answered
        /\ IsInjective(SetToSeq(answered))
    BY <1>1, ListedFacts
  <2> QED BY <1>1, <2>1, Wider DEF Turn
<1>3. /\ c \in CodexDrv /\ c.queued = d.queued /\ c.carried = d.carried \o SetToSeq(answered)
      /\ c.steers = awaiting /\ c.pending = d.pending
  <2>1. d.carried \o SetToSeq(answered) \in Turn
    BY <1>0, <1>2, JoinFacts DEF Turn
  <2> QED BY <1>1, <2>1 DEF CodexDrv
<1>4. ToSet(c.carried) = ToSet(d.carried) \cup answered /\ IsInjective(c.carried)
  <2>1. ToSet(d.carried) \cap ToSet(SetToSeq(answered)) = {}
    BY <1>2 DEF CodexNeat
  <2>2. d.carried \in Seq(Msgs) /\ SetToSeq(answered) \in Seq(Msgs)
    BY <1>0, <1>2 DEF Turn
  <2>3. \A x, y \in Seq(Msgs) : ToSet(x) \cap ToSet(y) = {} =>
            /\ ToSet(x \o y) = ToSet(x) \cup ToSet(y)
            /\ IsInjective(x) /\ IsInjective(y) => IsInjective(x \o y)
    BY JoinFacts
  <2>4. /\ ToSet(d.carried \o SetToSeq(answered)) = ToSet(d.carried) \cup ToSet(SetToSeq(answered))
        /\ IsInjective(d.carried) /\ IsInjective(SetToSeq(answered)) => IsInjective(d.carried \o SetToSeq(answered))
    BY <2>1, <2>2, <2>3
  <2> QED BY <1>2, <1>3, <2>4 DEF CodexNeat
<1>5. CodexBack(d, line) = answered
  BY DEF CodexBack
<1>6. \/ line.failed /\ r = [CodexFlush(c) EXCEPT !.steps = <<Failed>> \o @]
      \/ r = CodexFlush(c)
      \/ r = Result(c, <<Finished>>) /\ c.carried = <<>> /\ awaiting = {}
  BY DEF CodexOnCompleted
<1> HIDE DEF c, r, answered, awaiting
<1>7. CodexNeat(c) /\ CodexKnows(c) \subseteq CodexKnows(d)
  BY <1>3, <1>4 DEF CodexNeat, CodexKnows, answered, awaiting
<1>8. /\ CodexShows(c) = CodexShows(d) /\ CodexHands(c) = CodexHands(d) \cup answered
      /\ answered \subseteq d.steers
  BY <1>3, <1>4 DEF CodexShows, CodexHands, answered, awaiting
<1>9. Bears(<<Failed>>, {}, {}, {}) /\ Bears(<<Finished>>, {}, {}, {})
  BY BearsEmits
<1>10. CASE r = CodexFlush(c) \/ r = [CodexFlush(c) EXCEPT !.steps = <<Failed>> \o @]
  <2>1. /\ CodexDeals(d, [CodexFlush(c) EXCEPT !.steps = <<Failed>> \o @], {}, answered, {})
        /\ CodexDeals(d, CodexFlush(c), {}, answered, {})
    BY <1>3, <1>7, <1>8, <1>9, CodexFlushesAfter
  <2>2. CodexDeals(d, r, {}, answered, {})
    BY <1>10, <2>1
  <2> QED BY <1>5, <2>2 DEF r
<1>11. CASE r = Result(c, <<Finished>>) /\ c.carried = <<>> /\ awaiting = {}
  <2>1. Moved({}, CodexShows(d) \cup {}, CodexShows(c)) /\ Moved({}, CodexHands(d) \cup {} \cup answered, CodexHands(c))
    BY <1>8 DEF Moved
  <2>2. {} \subseteq d.pending \cup {} /\ c.pending \subseteq (d.pending \cup {}) \ {}
    BY <1>3
  <2>3. Deals(<<Finished>>, CodexShows(d) \cup {}, CodexShows(c), CodexHands(d) \cup {} \cup answered, CodexHands(c),
              d.pending \cup {}, c.pending)
    BY <1>9, <2>1, <2>2, DealsBy
  <2>4. CodexDeals(d, r, {}, answered, {})
    BY <1>3, <1>7, <1>11, <2>3 DEF CodexDeals, Result
  <2> QED BY <1>5, <2>4 DEF r
<1> QED BY <1>6, <1>10, <1>11

\* What a line brings that is new: the approval it asks for.
NewAsks(line) == IF line.is = "ask" THEN {line.ask} ELSE {}

CodexSpeaks ==
    {"init", "open", "start", "steer", "error", "started", "item", "completed", "ask", "resolved"}

LEMMA CodexLines ==
    ASSUME NEW d \in CodexDrv, CodexNeat(d), NEW line \in Lines, line.is \in CodexSpeaks,
           line.is = "ask" => line.ask \notin d.pending
    PROVE  CodexDeals(d, CodexOnLine(d, line), {}, CodexBack(d, line), NewAsks(line))
<1>0. /\ \A c \in CodexDrv : \A s :
            /\ c.queued = d.queued /\ c.carried = d.carried /\ c.steers = d.steers /\ c.pending = d.pending
            /\ Bears(s, {}, {}, {})
            => CodexDeals(d, Result(c, s), {}, {}, {})
      /\ d.steers \in Few(Msgs) /\ d.pending \in Few(Asks)
  BY CodexKeeps, CodexFields
<1>1. CASE line.is \in {"init", "error"} \/ (line.is = "open" /\ ~line.ok)
  <2> DEFINE c == IF line.is = "init" /\ line.ok THEN [d EXCEPT !.phase = "starting"] ELSE d
             s == IF line.is = "init" /\ line.ok THEN <<Write([is |-> "open"])>> ELSE <<Failed>>
  <2>1. CodexOnLine(d, line) = Result(c, s)
    BY <1>1 DEF CodexOnLine
  <2>2. /\ c \in CodexDrv /\ c.queued = d.queued /\ c.carried = d.carried /\ c.pending = d.pending
        /\ c.steers = d.steers
    BY DEF CodexDrv
  <2>3. Bears(s, {}, {}, {})
    BY BearsWrites, BearsEmits
  <2>4. CodexBack(d, line) = {} /\ NewAsks(line) = {}
    BY <1>1 DEF CodexBack, NewAsks
  <2> HIDE DEF c, s
  <2> QED BY <1>0, <2>1, <2>2, <2>3, <2>4
<1>2. CASE line.is = "open" /\ line.ok
  BY <1>2, CodexOpens DEF CodexOnLine, CodexBack, NewAsks
<1>3. CASE line.is = "start"
  BY <1>3, CodexStarts DEF CodexOnLine, CodexBack, NewAsks
<1>4. CASE line.is = "steer"
  BY <1>4, CodexSteers DEF CodexOnLine, NewAsks
<1>5. CASE line.is = "completed"
  BY <1>5, CodexCompletes DEF CodexOnLine, NewAsks
<1>6. CASE line.is = "started"
  <2> DEFINE c == [d EXCEPT !.active = line.turn, !.startId = None]
  <2>1. CodexOnLine(d, line) = Result(c, <<Started>>)
    BY <1>6 DEF CodexOnLine
  <2>2. /\ c \in CodexDrv /\ c.queued = d.queued /\ c.carried = d.carried /\ c.pending = d.pending
        /\ c.steers = d.steers
    <3>1. line.turn \in Turn
      BY <1>6, LineFields
    <3> QED BY <3>1 DEF CodexDrv
  <2>3. CodexBack(d, line) = {} /\ NewAsks(line) = {}
    BY <1>6 DEF CodexBack, NewAsks
  <2> HIDE DEF c
  <2> QED BY <1>0, <2>1, <2>2, <2>3, BearsEmits
<1>7. CASE line.is = "item"
  <2>0. CodexBack(d, line) = {} /\ NewAsks(line) = {} /\ line.msg \in Msgs
    BY <1>7, LineFields DEF CodexBack, NewAsks
  <2>1. CASE line.msg \notin d.steers
    <3>1. CodexOnLine(d, line) = Result(d, <<>>)
      BY <1>7, <2>1 DEF CodexOnLine
    <3> QED BY <1>0, <2>0, <3>1, BearsNothing
  <2>2. CASE line.msg \in d.steers
    <3> DEFINE c == [d EXCEPT !.steers = @ \ {line.msg}]
               s == <<Echo(line.msg)>>
    <3>1. CodexOnLine(d, line) = Result(c, s)
      BY <1>7, <2>2 DEF CodexOnLine
    <3>2. d.steers \ {line.msg} \in Few(Msgs)
      BY <1>0, FewFacts
    <3>3. /\ c \in CodexDrv /\ c.queued = d.queued /\ c.carried = d.carried /\ c.pending = d.pending
          /\ c.steers = d.steers \ {line.msg}
      BY <3>2 DEF CodexDrv
    <3>4. Bears(s, {line.msg}, {}, {})
      BY <2>0, BearsEmits
    <3> HIDE DEF c, s
    <3>5. Moved({line.msg}, CodexShows(d) \cup {}, CodexShows(c))
      BY <2>2, <3>3 DEF Moved, CodexShows, CodexNeat
    <3>6. Moved({}, CodexHands(d) \cup {} \cup {}, CodexHands(c))
      BY <3>3 DEF Moved, CodexHands
    <3>7. {} \subseteq d.pending \cup {} /\ c.pending \subseteq (d.pending \cup {}) \ {}
      BY <3>3
    <3>8. Deals(s, CodexShows(d) \cup {}, CodexShows(c), CodexHands(d) \cup {} \cup {}, CodexHands(c),
                d.pending \cup {}, c.pending)
      BY <3>4, <3>5, <3>6, <3>7, DealsBy
    <3>9. CodexNeat(c) /\ CodexKnows(c) \subseteq CodexKnows(d) \cup {}
      BY <3>3 DEF CodexNeat, CodexKnows
    <3>10. CodexDeals(d, Result(c, s), {}, {}, {})
      BY <3>3, <3>8, <3>9 DEF CodexDeals, Result
    <3> QED BY <2>0, <3>1, <3>10
  <2> QED BY <2>1, <2>2
<1>8. CASE line.is = "ask"
  <2> DEFINE a == line.ask
             c == [d EXCEPT !.pending = @ \cup {a},
                            !.elicitations = IF line.kind = "elicitation" THEN @ \cup {a} ELSE @]
  <2>0. CodexBack(d, line) = {} /\ NewAsks(line) = {a} /\ a \in Asks
    BY <1>8, LineFields DEF CodexBack, NewAsks
  <2>1. \/ CodexOnLine(d, line) = Result(d, <<Write(Reply(a))>>)
        \/ CodexOnLine(d, line) = Result(c, <<Card(a)>>)
    BY <1>8 DEF CodexOnLine, CodexOnAsk
  <2>2. d.pending \cup {a} \in Few(Asks)
    BY <1>0, <2>0, FewFacts
  <2>3. /\ c \in CodexDrv /\ c.queued = d.queued /\ c.carried = d.carried /\ c.pending = d.pending \cup {a}
        /\ c.steers = d.steers
    BY <2>0, <2>2 DEF CodexDrv
  <2>4. Bears(<<Card(a)>>, {}, {}, {}) /\ Bears(<<Write(Reply(a))>>, {}, {}, {a})
    BY <2>0, BearsEmits, BearsWrites
  <2> HIDE DEF c
  <2>5. CodexDeals(d, Result(c, <<Card(a)>>), {}, {}, {a})
    <3>1. {} \subseteq d.pending \cup {a} /\ c.pending \subseteq (d.pending \cup {a}) \ {}
      BY <2>3
    <3> QED BY <2>3, <2>4, <3>1, CodexKeeps
  <2>6. CASE CodexOnLine(d, line) = Result(d, <<Write(Reply(a))>>)
    <3>1. {a} \subseteq d.pending \cup {a} /\ d.pending \subseteq (d.pending \cup {a}) \ {a}
      BY <1>8
    <3>2. CodexDeals(d, Result(d, <<Write(Reply(a))>>), {}, {}, {a})
      BY <2>4, <3>1, CodexKeeps
    <3> QED BY <2>0, <2>6, <3>2
  <2> QED BY <2>0, <2>1, <2>5, <2>6
<1>9. CASE line.is = "resolved"
  <2>0. CodexBack(d, line) = {} /\ NewAsks(line) = {} /\ line.ask \in Asks
    BY <1>9, LineFields DEF CodexBack, NewAsks
  <2>1. CASE line.ask \notin d.pending
    <3>1. CodexOnLine(d, line) = Result(d, <<>>)
      BY <1>9, <2>1 DEF CodexOnLine
    <3> QED BY <1>0, <2>0, <3>1, BearsNothing
  <2>2. CASE line.ask \in d.pending
    <3> DEFINE c == [d EXCEPT !.pending = @ \ {line.ask}]
               s == <<Settled(line.ask)>>
    <3>1. CodexOnLine(d, line) = Result(c, s)
      BY <1>9, <2>2 DEF CodexOnLine
    <3>2. d.pending \ {line.ask} \in Few(Asks)
      BY <1>0, FewFacts
    <3>3. /\ c \in CodexDrv /\ c.queued = d.queued /\ c.carried = d.carried /\ c.steers = d.steers
          /\ c.pending = d.pending \ {line.ask}
      BY <3>2 DEF CodexDrv
    <3>4. Bears(s, {}, {}, {})
      BY <2>0, BearsEmits
    <3> HIDE DEF c, s
    <3>5. {} \subseteq d.pending \cup {} /\ c.pending \subseteq (d.pending \cup {}) \ {}
      BY <3>3
    <3>6. CodexDeals(d, Result(c, s), {}, {}, {})
      BY <3>3, <3>4, <3>5, CodexKeeps
    <3> QED BY <2>0, <3>1, <3>6
  <2> QED BY <2>1, <2>2
<1> QED BY <1>1, <1>2, <1>3, <1>4, <1>5, <1>6, <1>7, <1>8, <1>9 DEF CodexSpeaks

-----------------------------------------------------------------------------
(* Claude                                                                  *)

ClaudeDrv ==
    [state : {"idle", "running", "stopping"}, steers : Few(Msgs), queued : SUBSET Msgs,
     carried : Nat, pending : Few(Asks)]

ClaudeDeals(d, r, new, asks) ==
    /\ r.drv \in ClaudeDrv
    /\ r.drv.steers \subseteq d.steers \cup new
    /\ Deals(r.steps, d.steers \cup new, r.drv.steers, {} \cup new, {}, d.pending \cup asks, r.drv.pending)

LEMMA ClaudeFields ==
    ASSUME NEW d \in ClaudeDrv
    PROVE  /\ d.state \in {"idle", "running", "stopping"} /\ d.steers \in Few(Msgs)
           /\ d.queued \subseteq Msgs /\ d.carried \in Nat /\ d.pending \in Few(Asks)
           /\ d.steers \subseteq Msgs /\ IsFiniteSet(d.steers)
           /\ d.pending \subseteq Asks /\ IsFiniteSet(d.pending)
  BY FewFacts DEF ClaudeDrv

LEMMA ClaudeBy ==
    ASSUME NEW d, NEW c \in ClaudeDrv, NEW s, NEW new, NEW asks, NEW e, NEW q,
           Bears(s, e, new, q), Moved(e, d.steers \cup new, c.steers),
           q \subseteq d.pending \cup asks, c.pending \subseteq (d.pending \cup asks) \ q
    PROVE  ClaudeDeals(d, Result(c, s), new, asks)
<1>1. Moved(new, {} \cup new, {})
  BY DEF Moved
<1>2. Deals(s, d.steers \cup new, c.steers, {} \cup new, {}, d.pending \cup asks, c.pending)
  BY <1>1, DealsBy
<1> QED BY <1>2 DEF ClaudeDeals, Result, Moved

LEMMA ClaudeCalls ==
    ASSUME NEW d \in ClaudeDrv, NEW m \in Msgs, m \notin d.steers
    PROVE  ClaudeDeals(d, ClaudeCall(d, m), {m}, {})
<1>1. CASE d.state # "idle"
  <2> DEFINE c == [d EXCEPT !.steers = @ \cup {m}]
             s == <<Write(User(m, TRUE))>>
  <2>1. ClaudeCall(d, m) = Result(c, s)
    BY <1>1 DEF ClaudeCall, ClaudeSteer
  <2>2. d.steers \cup {m} \in Few(Msgs)
    BY ClaudeFields, FewFacts
  <2>3. c \in ClaudeDrv /\ c.steers = d.steers \cup {m} /\ c.pending = d.pending
    BY <2>2 DEF ClaudeDrv
  <2>4. Bears(s, {}, {m}, {})
    BY BearsWrites
  <2> HIDE DEF c, s
  <2>5. Moved({}, d.steers \cup {m}, c.steers)
    BY <2>3 DEF Moved
  <2>6. {} \subseteq d.pending \cup {} /\ c.pending \subseteq (d.pending \cup {}) \ {}
    BY <2>3
  <2>7. ClaudeDeals(d, Result(c, s), {m}, {})
    BY <2>3, <2>4, <2>5, <2>6, ClaudeBy
  <2> QED BY <2>1, <2>7
<1>2. CASE d.state = "idle"
  <2> DEFINE c == [d EXCEPT !.state = "running"]
             s == <<Echo(m)>> \o (<<Started>> \o <<Write(User(m, FALSE))>>)
  <2>0. <<Echo(m), Started, Write(User(m, FALSE))>> = <<Echo(m)>> \o (<<Started>> \o <<Write(User(m, FALSE))>>)
    BY Thrice
  <2>1. ClaudeCall(d, m) = Result(c, s)
    BY <1>2, <2>0 DEF ClaudeCall
  <2>2. c \in ClaudeDrv /\ c.steers = d.steers /\ c.pending = d.pending
    BY DEF ClaudeDrv
  <2>3. Bears(<<Started>> \o <<Write(User(m, FALSE))>>, {} \cup {}, {} \cup {m}, {} \cup {})
    BY BearsEmits, BearsWrites, BearsJoin
  <2>4. Bears(s, {m} \cup ({} \cup {}), {} \cup ({} \cup {m}), {} \cup ({} \cup {}))
    BY <2>3, BearsEmits, BearsJoin
  <2>5. Bears(s, {m}, {m}, {})
    BY <2>4
  <2> HIDE DEF c, s
  <2>6. Moved({m}, d.steers \cup {m}, c.steers)
    BY <2>2 DEF Moved
  <2>7. {} \subseteq d.pending \cup {} /\ c.pending \subseteq (d.pending \cup {}) \ {}
    BY <2>2
  <2>8. ClaudeDeals(d, Result(c, s), {m}, {})
    BY <2>2, <2>5, <2>6, <2>7, ClaudeBy
  <2> QED BY <2>1, <2>8
<1> QED BY <1>1, <1>2

\* A call that adds no message.
LEMMA ClaudeKeeps ==
    ASSUME NEW d \in ClaudeDrv, NEW c \in ClaudeDrv, NEW s, NEW asks, NEW e, NEW q,
           Bears(s, e, {}, q), e \subseteq d.steers, c.steers = d.steers \ e,
           q \subseteq d.pending \cup asks, c.pending \subseteq (d.pending \cup asks) \ q
    PROVE  ClaudeDeals(d, Result(c, s), {}, asks)
<1>1. Moved(e, d.steers \cup {}, c.steers)
  BY DEF Moved
<1> QED BY <1>1, ClaudeBy

LEMMA ClaudeAnswers ==
    ASSUME NEW d \in ClaudeDrv, NEW a \in Asks
    PROVE  ClaudeDeals(d, ClaudeAnswer(d, a), {}, {})
<1>1. CASE a \notin d.pending
  BY <1>1, BearsNothing, ClaudeKeeps DEF ClaudeAnswer
<1>2. CASE a \in d.pending
  <2> DEFINE c == [d EXCEPT !.pending = @ \ {a}]
             s == <<Write(Reply(a)), Settled(a)>>
  <2>1. ClaudeAnswer(d, a) = Result(c, s)
    BY <1>2 DEF ClaudeAnswer
  <2>2. d.pending \ {a} \in Few(Asks)
    BY ClaudeFields, FewFacts
  <2>3. c \in ClaudeDrv /\ c.steers = d.steers /\ c.pending = d.pending \ {a}
    BY <2>2 DEF ClaudeDrv
  <2>4. Bears(s, {}, {}, {a})
    <3>1. Bears(<<Write(Reply(a))>> \o <<Settled(a)>>, {} \cup {}, {} \cup {}, {a} \cup {})
      BY BearsWrites, BearsEmits, BearsJoin
    <3>2. s = <<Write(Reply(a))>> \o <<Settled(a)>>
      OBVIOUS
    <3> QED BY <3>1, <3>2
  <2> HIDE DEF c, s
  <2>5. {a} \subseteq d.pending \cup {} /\ c.pending \subseteq (d.pending \cup {}) \ {a}
    BY <1>2, <2>3
  <2>6. {} \subseteq d.steers /\ c.steers = d.steers \ {}
    BY <2>3
  <2>7. ClaudeDeals(d, Result(c, s), {}, {})
    BY <2>3, <2>4, <2>5, <2>6, ClaudeKeeps
  <2> QED BY <2>1, <2>7
<1> QED BY <1>1, <1>2

LEMMA ClaudeInterrupts ==
    ASSUME NEW d \in ClaudeDrv
    PROVE  ClaudeDeals(d, ClaudeInterrupt(d), {}, {}) /\ ClaudeDeals(d, ClaudeAbandon(d), {}, {})
<1>1. ClaudeDeals(d, ClaudeInterrupt(d), {}, {})
  <2> DEFINE c == [d EXCEPT !.state = IF @ = "running" THEN "stopping" ELSE @]
             s == <<Write(Interrupt(None))>>
  <2>1. c \in ClaudeDrv /\ c.steers = d.steers /\ c.pending = d.pending
    BY DEF ClaudeDrv
  <2>2. Bears(s, {}, {}, {})
    BY BearsWrites
  <2>3. ClaudeInterrupt(d) = Result(c, s)
    BY DEF ClaudeInterrupt
  <2> HIDE DEF c, s
  <2>4. {} \subseteq d.pending \cup {} /\ c.pending \subseteq (d.pending \cup {}) \ {}
    BY <2>1
  <2>5. {} \subseteq d.steers /\ c.steers = d.steers \ {}
    BY <2>1
  <2>6. ClaudeDeals(d, Result(c, s), {}, {})
    BY <2>1, <2>2, <2>4, <2>5, ClaudeKeeps
  <2> QED BY <2>3, <2>6
<1>2. ClaudeDeals(d, ClaudeAbandon(d), {}, {})
  <2> DEFINE c == [d EXCEPT !.pending = {}]
  <2>1. Bears(Dismiss(d.pending), {}, {}, d.pending) /\ {} \in Few(Asks)
    BY BearsDismiss, ClaudeFields, FewFacts
  <2>2. c \in ClaudeDrv /\ c.steers = d.steers /\ c.pending = {}
    BY <2>1 DEF ClaudeDrv
  <2>3. ClaudeAbandon(d) = Result(c, Dismiss(d.pending))
    BY DEF ClaudeAbandon
  <2> HIDE DEF c
  <2>4. d.pending \subseteq d.pending \cup {} /\ c.pending \subseteq (d.pending \cup {}) \ d.pending
    BY <2>2
  <2>5. {} \subseteq d.steers /\ c.steers = d.steers \ {}
    BY <2>2
  <2>6. ClaudeDeals(d, Result(c, Dismiss(d.pending)), {}, {})
    BY <2>1, <2>2, <2>4, <2>5, ClaudeKeeps
  <2> QED BY <2>3, <2>6
<1> QED BY <1>1, <1>2

\* The end of a turn shows every steer at once, or none.
LEMMA ClaudeEnds ==
    ASSUME NEW d \in ClaudeDrv, NEW line
    PROVE  ClaudeDeals(d, ClaudeOnResult(d, line), {}, {})
<1> DEFINE b == [d EXCEPT !.state = IF @ = "stopping" THEN "running" ELSE @]
           said == IF line.how # "done" /\ ~(d.state = "stopping" /\ line.how = "stopped")
                   THEN <<Failed>> ELSE <<>>
           c == [b EXCEPT !.state = "idle", !.steers = {}, !.carried = @ + Cardinality(d.steers)]
           es == Echoes(SetToSeq(d.steers))
<1>1. b \in ClaudeDrv /\ b.steers = d.steers /\ b.pending = d.pending
  BY DEF ClaudeDrv
<1>2. c \in ClaudeDrv /\ c.steers = {} /\ c.pending = d.pending
  <2>1. Cardinality(d.steers) \in Nat /\ d.carried \in Nat /\ {} \in Few(Msgs)
    BY ClaudeFields, FS_CardinalityType, FewFacts
  <2>2. d.carried + Cardinality(d.steers) \in Nat
    BY <2>1
  <2> QED BY <2>1, <2>2 DEF ClaudeDrv
<1>3. Bears(said, {}, {}, {}) /\ Bears(<<Finished>>, {}, {}, {})
  BY BearsEmits, BearsNothing
<1>4. Bears(es, d.steers, {}, {})
  <2>1. /\ SetToSeq(d.steers) \in Seq(d.steers) /\ ToSet(SetToSeq(d.steers)) = d.steers
        /\ IsInjective(SetToSeq(d.steers))
    BY ClaudeFields, ListedFacts
  <2>2. SetToSeq(d.steers) \in Turn
    BY <2>1, ClaudeFields, Wider DEF Turn
  <2>3. Bears(es, ToSet(SetToSeq(d.steers)), {}, {})
    BY <2>1, <2>2, BearsEchoes
  <2> QED BY <2>1, <2>3
<1>5. \/ ClaudeOnResult(d, line) = Result(b, said)
      \/ ClaudeOnResult(d, line) = Result(c, (said \o es) \o <<Finished>>)
  BY DEF ClaudeOnResult
<1> HIDE DEF b, c, said, es
<1>6. Bears(said \o es, {} \cup d.steers, {} \cup {}, {} \cup {})
  BY <1>3, <1>4, BearsJoin
<1>7. Bears((said \o es) \o <<Finished>>, ({} \cup d.steers) \cup {}, ({} \cup {}) \cup {}, ({} \cup {}) \cup {})
  BY <1>3, <1>6, BearsJoin
<1>8. Bears((said \o es) \o <<Finished>>, d.steers, {}, {})
  BY <1>7
<1>9. /\ {} \subseteq d.pending \cup {} /\ c.pending \subseteq (d.pending \cup {}) \ {}
      /\ b.pending \subseteq (d.pending \cup {}) \ {}
  BY <1>1, <1>2
<1>10. {} \subseteq d.steers /\ b.steers = d.steers \ {} /\ d.steers \subseteq d.steers /\ c.steers = d.steers \ d.steers
  BY <1>1, <1>2
<1>11. ClaudeDeals(d, Result(b, said), {}, {})
  BY <1>1, <1>3, <1>9, <1>10, ClaudeKeeps
<1>12. ClaudeDeals(d, Result(c, (said \o es) \o <<Finished>>), {}, {})
  BY <1>2, <1>8, <1>9, <1>10, ClaudeKeeps
<1> QED BY <1>5, <1>11, <1>12

ClaudeSpeaks == {"turn", "queued", "taken", "result", "error", "ask"}

LEMMA ClaudeLines ==
    ASSUME NEW d \in ClaudeDrv, NEW line \in Lines, line.is \in ClaudeSpeaks
    PROVE  ClaudeDeals(d, ClaudeOnLine(d, line), {}, NewAsks(line))
<1>0. d.steers \in Few(Msgs) /\ d.pending \in Few(Asks) /\ d.carried \in Nat
  BY ClaudeFields
<1>1. ASSUME NEW c \in ClaudeDrv, NEW s, c.steers = d.steers, c.pending = d.pending, Bears(s, {}, {}, {})
      PROVE  ClaudeDeals(d, Result(c, s), {}, {})
  <2>1. /\ {} \subseteq d.pending \cup {} /\ c.pending \subseteq (d.pending \cup {}) \ {}
        /\ {} \subseteq d.steers /\ c.steers = d.steers \ {}
    BY <1>1
  <2> QED BY <1>1, <2>1, ClaudeKeeps
<1>2. CASE line.is = "turn"
  <2> DEFINE c == [d EXCEPT !.carried = @ - 1, !.state = "running"]
  <2>1. NewAsks(line) = {}
    BY <1>2 DEF NewAsks
  <2>2. CASE d.state = "idle" /\ d.carried > 0
    <3>1. ClaudeOnLine(d, line) = Result(c, <<Started>>)
      BY <1>2, <2>2 DEF ClaudeOnLine, ClaudeOnInit
    <3>2. d.carried - 1 \in Nat
      BY <1>0, <2>2
    <3>3. c \in ClaudeDrv /\ c.steers = d.steers /\ c.pending = d.pending
      BY <3>2 DEF ClaudeDrv
    <3> HIDE DEF c
    <3> QED BY <1>1, <2>1, <3>1, <3>3, BearsEmits
  <2>3. CASE ~(d.state = "idle" /\ d.carried > 0)
    <3>1. ClaudeOnLine(d, line) = Result(d, <<>>)
      BY <1>2, <2>3 DEF ClaudeOnLine, ClaudeOnInit
    <3> QED BY <1>1, <2>1, <3>1, BearsNothing
  <2> QED BY <2>2, <2>3
<1>3. CASE line.is = "queued"
  <2> DEFINE c == [d EXCEPT !.queued = IF line.msg \in d.steers THEN @ \cup {line.msg} ELSE @]
  <2>1. NewAsks(line) = {} /\ line.msg \in Msgs
    BY <1>3, LineFields DEF NewAsks
  <2>2. ClaudeOnLine(d, line) = Result(c, <<>>)
    BY <1>3 DEF ClaudeOnLine, ClaudeOnQueued
  <2>3. c \in ClaudeDrv /\ c.steers = d.steers /\ c.pending = d.pending
    BY <2>1 DEF ClaudeDrv
  <2> HIDE DEF c
  <2> QED BY <1>1, <2>1, <2>2, <2>3, BearsNothing
<1>4. CASE line.is = "taken"
  <2> DEFINE m == line.msg
             c == [d EXCEPT !.steers = @ \ {m}, !.queued = @ \ {m},
                            !.state = IF @ = "idle" THEN "running" ELSE @]
             s == IF d.state = "idle" THEN <<Started>> \o <<Echo(m)>> ELSE <<Echo(m)>>
  <2>1. NewAsks(line) = {} /\ m \in Msgs
    BY <1>4, LineFields DEF NewAsks
  <2>2. CASE m \notin d.steers
    <3>1. ClaudeOnLine(d, line) = Result(d, <<>>)
      BY <1>4, <2>2 DEF ClaudeOnLine, ClaudeOnTaken
    <3> QED BY <1>1, <2>1, <3>1, BearsNothing
  <2>3. CASE m \in d.steers
    <3>0. <<Started, Echo(m)>> = <<Started>> \o <<Echo(m)>>
      OBVIOUS
    <3>1. ClaudeOnLine(d, line) = Result(c, s)
      BY <1>4, <2>3, <3>0 DEF ClaudeOnLine, ClaudeOnTaken
    <3>2. d.steers \ {m} \in Few(Msgs)
      BY <1>0, FewFacts
    <3>3. c \in ClaudeDrv /\ c.steers = d.steers \ {m} /\ c.pending = d.pending
      BY <3>2 DEF ClaudeDrv
    <3>4. Bears(<<Started>> \o <<Echo(m)>>, {} \cup {m}, {} \cup {}, {} \cup {}) /\ Bears(<<Echo(m)>>, {m}, {}, {})
      BY <2>1, BearsEmits, BearsJoin
    <3>5. Bears(s, {m}, {}, {})
      BY <3>4
    <3> HIDE DEF c, s
    <3>6. /\ {} \subseteq d.pending \cup {} /\ c.pending \subseteq (d.pending \cup {}) \ {}
          /\ {m} \subseteq d.steers /\ c.steers = d.steers \ {m}
      BY <2>3, <3>3
    <3>7. ClaudeDeals(d, Result(c, s), {}, {})
      BY <3>3, <3>5, <3>6, ClaudeKeeps
    <3> QED BY <2>1, <3>1, <3>7
  <2> QED BY <2>2, <2>3
<1>5. CASE line.is = "result"
  BY <1>5, ClaudeEnds DEF ClaudeOnLine, NewAsks
<1>6. CASE line.is = "error"
  BY <1>1, <1>6, BearsEmits DEF ClaudeOnLine, NewAsks
<1>7. CASE line.is = "ask"
  <2> DEFINE c == [d EXCEPT !.pending = @ \cup {line.ask}]
             s == IF line.kind = "unknown" THEN <<>> ELSE <<Card(line.ask)>>
  <2>1. NewAsks(line) = {line.ask} /\ line.ask \in Asks
    BY <1>7, LineFields DEF NewAsks
  <2>2. ClaudeOnLine(d, line) = Result(c, s)
    BY <1>7 DEF ClaudeOnLine
  <2>3. d.pending \cup {line.ask} \in Few(Asks)
    BY <1>0, <2>1, FewFacts
  <2>4. c \in ClaudeDrv /\ c.steers = d.steers /\ c.pending = d.pending \cup {line.ask}
    BY <2>3 DEF ClaudeDrv
  <2>5. Bears(s, {}, {}, {})
    BY <2>1, BearsEmits, BearsNothing
  <2> HIDE DEF c, s
  <2>6. /\ {} \subseteq d.pending \cup {line.ask} /\ c.pending \subseteq (d.pending \cup {line.ask}) \ {}
        /\ {} \subseteq d.steers /\ c.steers = d.steers \ {}
    BY <2>4
  <2>7. ClaudeDeals(d, Result(c, s), {}, {line.ask})
    BY <2>4, <2>5, <2>6, ClaudeKeeps
  <2> QED BY <2>1, <2>2, <2>7
<1> QED BY <1>2, <1>3, <1>4, <1>5, <1>6, <1>7 DEF ClaudeSpeaks

-----------------------------------------------------------------------------
(* Cursor                                                                  *)

CursorDrv ==
    [phase : {"initializing", "authenticating", "starting", "ready"}, prompts : SUBSET Turn,
     queued : Turn, carried : Turn, cancelling : BOOLEAN, pending : Few(Asks),
     plans : SUBSET Asks, auto : BOOLEAN]

CursorNeat(d) ==
    /\ IsInjective(d.queued) /\ IsInjective(d.carried)
    /\ ToSet(d.queued) \cap ToSet(d.carried) = {}

CursorHands(d) == ToSet(d.queued) \cup ToSet(d.carried)

CursorDeals(d, r, new, asks) ==
    /\ r.drv \in CursorDrv /\ CursorNeat(r.drv)
    /\ CursorHands(r.drv) \subseteq CursorHands(d) \cup new
    /\ Deals(r.steps, ToSet(d.carried) \cup new, ToSet(r.drv.carried), CursorHands(d) \cup new,
             CursorHands(r.drv), d.pending \cup asks, r.drv.pending)

LEMMA CursorFields ==
    ASSUME NEW d \in CursorDrv
    PROVE  /\ d.phase \in {"initializing", "authenticating", "starting", "ready"}
           /\ d.prompts \subseteq Turn /\ d.queued \in Turn /\ d.carried \in Turn
           /\ d.cancelling \in BOOLEAN /\ d.pending \in Few(Asks) /\ d.plans \subseteq Asks
           /\ d.auto \in BOOLEAN
           /\ d.pending \subseteq Asks /\ IsFiniteSet(d.pending)
           /\ ToSet(d.queued) \subseteq Msgs /\ ToSet(d.carried) \subseteq Msgs
  BY FewFacts, MembersFacts DEF CursorDrv, Turn

LEMMA CursorBy ==
    ASSUME NEW d, NEW c \in CursorDrv, CursorNeat(c), NEW s, NEW new, NEW asks, NEW e, NEW p, NEW q,
           Bears(s, e, p, q), Moved(e, ToSet(d.carried) \cup new, ToSet(c.carried)),
           Moved(p, CursorHands(d) \cup new, CursorHands(c)),
           q \subseteq d.pending \cup asks, c.pending \subseteq (d.pending \cup asks) \ q
    PROVE  CursorDeals(d, Result(c, s), new, asks)
<1>1. Deals(s, ToSet(d.carried) \cup new, ToSet(c.carried), CursorHands(d) \cup new, CursorHands(c),
            d.pending \cup asks, c.pending)
  BY DealsBy
<1> QED BY <1>1 DEF CursorDeals, Result, Moved

\* A call that leaves the lists alone.
LEMMA CursorKeeps ==
    ASSUME NEW d \in CursorDrv, CursorNeat(d), NEW c \in CursorDrv, NEW s,
           c.queued = d.queued, c.carried = d.carried,
           NEW q, NEW asks, Bears(s, {}, {}, q), q \subseteq d.pending \cup asks,
           c.pending \subseteq (d.pending \cup asks) \ q
    PROVE  CursorDeals(d, Result(c, s), {}, asks)
<1>1. Moved({}, ToSet(d.carried) \cup {}, ToSet(c.carried)) /\ Moved({}, CursorHands(d) \cup {}, CursorHands(c))
  BY DEF Moved, CursorHands
<1>2. CursorNeat(c)
  BY DEF CursorNeat
<1> QED BY <1>1, <1>2, CursorBy

LEMMA BearsPrompt ==
    ASSUME NEW ms \in Turn
    PROVE  Bears(PromptSteps(ms), {}, ToSet(ms), {})
<1>1. Bears(<<Started>> \o <<Write(Prompt(ms))>>, {} \cup {}, {} \cup ToSet(ms), {} \cup {})
  BY BearsEmits, BearsWrites, BearsJoin
<1>2. PromptSteps(ms) = <<Started>> \o <<Write(Prompt(ms))>>
  BY DEF PromptSteps
<1> QED BY <1>1, <1>2

LEMMA CursorFlushes ==
    ASSUME NEW d \in CursorDrv, CursorNeat(d)
    PROVE  CursorDeals(d, CursorFlush(d), {}, {})
<1>1. CASE d.carried = <<>> \/ d.prompts # {}
  <2>1. CursorFlush(d) = Result(d, <<>>)
    BY <1>1 DEF CursorFlush
  <2>2. {} \subseteq d.pending \cup {} /\ d.pending \subseteq (d.pending \cup {}) \ {}
    OBVIOUS
  <2> QED BY <2>1, <2>2, BearsNothing, CursorKeeps
<1>2. CASE ~(d.carried = <<>> \/ d.prompts # {})
  <2> DEFINE c == [d EXCEPT !.carried = <<>>, !.prompts = {d.carried}]
             s == Echoes(d.carried) \o PromptSteps(d.carried)
  <2>1. CursorFlush(d) = Result(c, s)
    BY <1>2 DEF CursorFlush
  <2>2. c \in CursorDrv /\ c.queued = d.queued /\ c.carried = <<>> /\ c.pending = d.pending
    <3>1. <<>> \in Turn /\ d.carried \in Turn
      BY CursorFields DEF Turn
    <3> QED BY <3>1 DEF CursorDrv
  <2>3. ToSet(<<>>) = {} /\ IsInjective(<<>>)
    BY MembersFacts
  <2>4. Bears(Echoes(d.carried), ToSet(d.carried), {}, {}) /\ Bears(PromptSteps(d.carried), {}, ToSet(d.carried), {})
    BY BearsEchoes, BearsPrompt, CursorFields DEF CursorNeat
  <2>5. Bears(s, ToSet(d.carried) \cup {}, {} \cup ToSet(d.carried), {} \cup {})
    BY <2>4, BearsJoin
  <2>6. Bears(s, ToSet(d.carried), ToSet(d.carried), {})
    BY <2>5
  <2> HIDE DEF c, s
  <2>7. /\ Moved(ToSet(d.carried), ToSet(d.carried) \cup {}, ToSet(c.carried))
        /\ Moved(ToSet(d.carried), CursorHands(d) \cup {}, CursorHands(c))
        /\ CursorNeat(c)
    BY <2>2, <2>3 DEF Moved, CursorHands, CursorNeat
  <2>8. {} \subseteq d.pending \cup {} /\ c.pending \subseteq (d.pending \cup {}) \ {}
    BY <2>2
  <2>9. CursorDeals(d, Result(c, s), {}, {})
    BY <2>2, <2>6, <2>7, <2>8, CursorBy
  <2> QED BY <2>1, <2>9
<1> QED BY <1>1, <1>2

\* `interrupt`, in a driver that may have been given a message.
LEMMA CursorCancels ==
    ASSUME NEW d \in CursorDrv, NEW c \in CursorDrv, CursorNeat(c), NEW new, c.pending = d.pending,
           ToSet(c.carried) = ToSet(d.carried) \cup new, CursorHands(c) = CursorHands(d) \cup new
    PROVE  CursorDeals(d, CursorInterrupt(c), new, {})
<1>1. CASE c.phase # "ready"
  <2>1. CursorInterrupt(c) = Result(c, <<>>)
    BY <1>1 DEF CursorInterrupt
  <2>2. /\ Moved({}, ToSet(d.carried) \cup new, ToSet(c.carried))
        /\ Moved({}, CursorHands(d) \cup new, CursorHands(c))
        /\ {} \subseteq d.pending \cup {} /\ c.pending \subseteq (d.pending \cup {}) \ {}
    BY DEF Moved
  <2> QED BY <2>1, <2>2, BearsNothing, CursorBy
<1>2. CASE c.phase = "ready"
  <2> DEFINE b == [c EXCEPT !.pending = {}]
             s == <<Write(Interrupt(None))>> \o Dismiss(c.pending)
  <2>1. CursorInterrupt(c) = Result(b, s)
    BY <1>2 DEF CursorInterrupt
  <2>2. Bears(Dismiss(c.pending), {}, {}, c.pending) /\ Bears(<<Write(Interrupt(None))>>, {}, {}, {})
        /\ {} \in Few(Asks)
    BY BearsDismiss, BearsWrites, CursorFields, FewFacts
  <2>3. b \in CursorDrv /\ b.queued = c.queued /\ b.carried = c.carried /\ b.pending = {}
    BY <2>2 DEF CursorDrv
  <2>4. Bears(s, {} \cup {}, {} \cup {}, {} \cup c.pending)
    BY <2>2, BearsJoin
  <2>5. Bears(s, {}, {}, c.pending)
    BY <2>4
  <2> HIDE DEF b, s
  <2>6. /\ Moved({}, ToSet(d.carried) \cup new, ToSet(b.carried))
        /\ Moved({}, CursorHands(d) \cup new, CursorHands(b))
        /\ c.pending \subseteq d.pending \cup {} /\ b.pending \subseteq (d.pending \cup {}) \ c.pending
        /\ CursorNeat(b)
    BY <2>3 DEF Moved, CursorHands, CursorNeat
  <2>7. CursorDeals(d, Result(b, s), new, {})
    BY <2>3, <2>5, <2>6, CursorBy
  <2> QED BY <2>1, <2>7
<1> QED BY <1>1, <1>2

LEMMA CursorCalls ==
    ASSUME NEW d \in CursorDrv, CursorNeat(d), NEW m \in Msgs, m \notin CursorHands(d), NEW how
    PROVE  CursorDeals(d, CursorCall(d, m, how), {m}, {})
<1>0. d.queued \in Turn /\ d.carried \in Turn /\ <<m>> \in Turn /\ ToSet(<<m>>) = {m}
  BY CursorFields, OneMessage
<1>1. /\ Append(d.carried, m) \in Turn /\ ToSet(Append(d.carried, m)) = ToSet(d.carried) \cup {m}
      /\ IsInjective(Append(d.carried, m))
  BY <1>0, OneMore DEF Turn, CursorNeat, CursorHands
<1>2. CASE d.phase = "ready" /\ d.prompts # {}
  <2> DEFINE c == [d EXCEPT !.carried = Append(@, m)]
             g == [d EXCEPT !.carried = Append(@, m), !.cancelling = TRUE]
  <2>1. /\ c \in CursorDrv /\ c.queued = d.queued /\ c.carried = Append(d.carried, m) /\ c.pending = d.pending
        /\ g \in CursorDrv /\ g.queued = d.queued /\ g.carried = Append(d.carried, m) /\ g.pending = d.pending
    BY <1>1 DEF CursorDrv
  <2>2. \/ CursorCall(d, m, how) = Result(c, <<>>)
        \/ CursorCall(d, m, how) = Result(g, <<>>)
        \/ CursorCall(d, m, how) = CursorInterrupt(g)
    BY <1>2 DEF CursorCall, CursorSteer, CursorSend
  <2> HIDE DEF c, g
  <2>3. ASSUME NEW b \in CursorDrv, b.queued = d.queued, b.carried = Append(d.carried, m), b.pending = d.pending
        PROVE  /\ CursorNeat(b) /\ CursorHands(b) = CursorHands(d) \cup {m}
               /\ ToSet(b.carried) = ToSet(d.carried) \cup {m}
               /\ CursorDeals(d, Result(b, <<>>), {m}, {})
    <3>1. /\ CursorNeat(b) /\ CursorHands(b) = CursorHands(d) \cup {m}
          /\ ToSet(b.carried) = ToSet(d.carried) \cup {m}
      BY <1>1, <2>3 DEF CursorNeat, CursorHands
    <3>2. /\ Moved({}, ToSet(d.carried) \cup {m}, ToSet(b.carried))
          /\ Moved({}, CursorHands(d) \cup {m}, CursorHands(b))
          /\ {} \subseteq d.pending \cup {} /\ b.pending \subseteq (d.pending \cup {}) \ {}
      BY <2>3, <3>1 DEF Moved
    <3> QED BY <2>3, <3>1, <3>2, BearsNothing, CursorBy
  <2>4. CursorDeals(d, Result(c, <<>>), {m}, {}) /\ CursorDeals(d, Result(g, <<>>), {m}, {})
    BY <2>1, <2>3
  <2>5. CursorDeals(d, CursorInterrupt(g), {m}, {})
    BY <2>1, <2>3, CursorCancels
  <2> QED BY <2>2, <2>4, <2>5
<1>3. CASE d.phase = "ready" /\ d.prompts = {}
  <2> DEFINE c == [d EXCEPT !.prompts = {<<m>>}]
             s == <<Echo(m)>> \o PromptSteps(<<m>>)
  <2>1. CursorCall(d, m, how) = Result(c, s)
    BY <1>3 DEF CursorCall, CursorSteer, CursorSend
  <2>2. c \in CursorDrv /\ c.queued = d.queued /\ c.carried = d.carried /\ c.pending = d.pending
    BY <1>0 DEF CursorDrv
  <2>3. Bears(<<Echo(m)>>, {m}, {}, {}) /\ Bears(PromptSteps(<<m>>), {}, {m}, {})
    BY <1>0, BearsEmits, BearsPrompt
  <2>4. Bears(s, {m} \cup {}, {} \cup {m}, {} \cup {})
    BY <2>3, BearsJoin
  <2>5. Bears(s, {m}, {m}, {})
    BY <2>4
  <2> HIDE DEF c, s
  <2>6. /\ Moved({m}, ToSet(d.carried) \cup {m}, ToSet(c.carried))
        /\ Moved({m}, CursorHands(d) \cup {m}, CursorHands(c))
        /\ {} \subseteq d.pending \cup {} /\ c.pending \subseteq (d.pending \cup {}) \ {}
        /\ CursorNeat(c)
    BY <2>2 DEF Moved, CursorHands, CursorNeat
  <2>7. CursorDeals(d, Result(c, s), {m}, {})
    BY <2>2, <2>5, <2>6, CursorBy
  <2> QED BY <2>1, <2>7
<1>4. CASE d.phase # "ready"
  <2> DEFINE c == [d EXCEPT !.queued = Append(@, m)]
             s == <<Echo(m)>>
  <2>1. CursorCall(d, m, how) = Result(c, s)
    BY <1>4 DEF CursorCall, CursorSteer, CursorSend
  <2>2. /\ Append(d.queued, m) \in Turn /\ ToSet(Append(d.queued, m)) = ToSet(d.queued) \cup {m}
        /\ IsInjective(Append(d.queued, m))
    BY <1>0, OneMore DEF Turn, CursorNeat, CursorHands
  <2>3. c \in CursorDrv /\ c.queued = Append(d.queued, m) /\ c.carried = d.carried /\ c.pending = d.pending
    BY <2>2 DEF CursorDrv
  <2>4. Bears(s, {m}, {}, {})
    BY BearsEmits
  <2> HIDE DEF c, s
  <2>5. /\ Moved({m}, ToSet(d.carried) \cup {m}, ToSet(c.carried))
        /\ Moved({}, CursorHands(d) \cup {m}, CursorHands(c))
        /\ {} \subseteq d.pending \cup {} /\ c.pending \subseteq (d.pending \cup {}) \ {}
        /\ CursorNeat(c)
    BY <2>2, <2>3 DEF Moved, CursorHands, CursorNeat
  <2>6. CursorDeals(d, Result(c, s), {m}, {})
    BY <2>3, <2>4, <2>5, CursorBy
  <2> QED BY <2>1, <2>6
<1> QED BY <1>2, <1>3, <1>4

LEMMA CursorAnswers ==
    ASSUME NEW d \in CursorDrv, CursorNeat(d), NEW a \in Asks, NEW allow \in BOOLEAN
    PROVE  CursorDeals(d, CursorAnswer(d, a, allow), {}, {})
<1>1. CASE a \notin d.pending
  <2>1. {} \subseteq d.pending \cup {} /\ d.pending \subseteq (d.pending \cup {}) \ {}
    OBVIOUS
  <2> QED BY <1>1, <2>1, BearsNothing, CursorKeeps DEF CursorAnswer
<1>2. CASE a \in d.pending
  <2> DEFINE c == [d EXCEPT !.pending = @ \ {a}, !.auto = @ \/ (allow /\ a \in d.plans)]
             s == <<Write(Reply(a)), Settled(a)>>
  <2>1. CursorAnswer(d, a, allow) = Result(c, s)
    BY <1>2 DEF CursorAnswer
  <2>2. d.pending \ {a} \in Few(Asks)
    BY CursorFields, FewFacts
  <2>3. c \in CursorDrv /\ c.queued = d.queued /\ c.carried = d.carried /\ c.pending = d.pending \ {a}
    BY <2>2 DEF CursorDrv
  <2>4. Bears(s, {}, {}, {a})
    <3>1. Bears(<<Write(Reply(a))>> \o <<Settled(a)>>, {} \cup {}, {} \cup {}, {a} \cup {})
      BY BearsWrites, BearsEmits, BearsJoin
    <3>2. s = <<Write(Reply(a))>> \o <<Settled(a)>>
      OBVIOUS
    <3> QED BY <3>1, <3>2
  <2> HIDE DEF c, s
  <2>5. {a} \subseteq d.pending \cup {} /\ c.pending \subseteq (d.pending \cup {}) \ {a}
    BY <1>2, <2>3
  <2>6. CursorDeals(d, Result(c, s), {}, {})
    BY <2>3, <2>4, <2>5, CursorKeeps
  <2> QED BY <2>1, <2>6
<1> QED BY <1>1, <1>2

\* A prompt has been answered, and what was carried may be sent.
LEMMA CursorPrompts ==
    ASSUME NEW d \in CursorDrv, CursorNeat(d), NEW line \in Lines, line.is = "prompt"
    PROVE  CursorDeals(d, CursorOnPrompt(d, line), {}, {})
<1> DEFINE c == [d EXCEPT !.prompts = @ \ {line.msgs},
                          !.cancelling = IF line.msgs \in d.prompts THEN FALSE ELSE @]
           f == CursorFlush(c)
           r == CursorOnPrompt(d, line)
<1>0. line.ok \in BOOLEAN
  BY LineFields
<1>1. c \in CursorDrv /\ c.queued = d.queued /\ c.carried = d.carried /\ c.pending = d.pending
  BY DEF CursorDrv
<1>2. \/ r = [f EXCEPT !.steps = <<Failed>> \o @]
      \/ r = f
      \/ \E s \in {<<>>, <<Failed>>, <<Finished>>} : r = Result(c, s)
  BY <1>0 DEF CursorOnPrompt
<1>3. DOMAIN f = {"drv", "steps"}
  BY DEF CursorFlush, Result
<1>4. CursorNeat(c)
  BY <1>1 DEF CursorNeat
<1> HIDE DEF c
<1>5. CursorDeals(c, f, {}, {})
  BY <1>1, <1>4, CursorFlushes
<1> HIDE DEF f, r
<1>6. PICK e, p, q : /\ Bears(f.steps, e, p, q)
                     /\ Moved(e, ToSet(c.carried) \cup {}, ToSet(f.drv.carried))
                     /\ Moved(p, CursorHands(c) \cup {}, CursorHands(f.drv))
                     /\ q \subseteq c.pending \cup {} /\ f.drv.pending \subseteq (c.pending \cup {}) \ q
  BY <1>5 DEF CursorDeals, Deals
<1>7. /\ f.drv \in CursorDrv /\ CursorNeat(f.drv)
      /\ Moved(e, ToSet(d.carried) \cup {}, ToSet(f.drv.carried))
      /\ Moved(p, CursorHands(d) \cup {}, CursorHands(f.drv))
      /\ q \subseteq d.pending \cup {} /\ f.drv.pending \subseteq (d.pending \cup {}) \ q
  BY <1>1, <1>5, <1>6 DEF CursorDeals, CursorHands
<1>8. Bears(<<Failed>> \o f.steps, {} \cup e, {} \cup p, {} \cup q)
  BY <1>6, BearsEmits, BearsJoin
<1>9. Bears(<<Failed>> \o f.steps, e, p, q)
  BY <1>8
<1>10. CursorDeals(d, Result(f.drv, f.steps), {}, {}) /\ CursorDeals(d, Result(f.drv, <<Failed>> \o f.steps), {}, {})
  BY <1>6, <1>7, <1>9, CursorBy
<1>11. CursorDeals(d, f, {}, {}) /\ CursorDeals(d, [f EXCEPT !.steps = <<Failed>> \o @], {}, {})
  <2>1. /\ [f EXCEPT !.steps = <<Failed>> \o @].drv = f.drv
        /\ [f EXCEPT !.steps = <<Failed>> \o @].steps = <<Failed>> \o f.steps
    BY <1>3 DEF f
  <2>2. \A x, y : (x.drv = y.drv /\ x.steps = y.steps) => (CursorDeals(d, x, {}, {}) <=> CursorDeals(d, y, {}, {}))
    BY DEF CursorDeals
  <2>3. /\ Result(f.drv, f.steps).drv = f.drv /\ Result(f.drv, f.steps).steps = f.steps
        /\ Result(f.drv, <<Failed>> \o f.steps).drv = f.drv
        /\ Result(f.drv, <<Failed>> \o f.steps).steps = <<Failed>> \o f.steps
    BY DEF Result
  <2> QED BY <1>10, <2>1, <2>2, <2>3
<1>12. ASSUME NEW s \in {<<>>, <<Failed>>, <<Finished>>} PROVE CursorDeals(d, Result(c, s), {}, {})
  <2>1. Bears(s, {}, {}, {})
    BY BearsEmits, BearsNothing
  <2>2. {} \subseteq d.pending \cup {} /\ c.pending \subseteq (d.pending \cup {}) \ {}
    BY <1>1
  <2> QED BY <1>1, <2>1, <2>2, CursorKeeps
<1>13. CursorDeals(d, r, {}, {})
  BY <1>2, <1>11, <1>12
<1> QED BY <1>13 DEF r

\* The queued messages are each a prompt of their own.
LEMMA BearsPrompts ==
    ASSUME NEW ms \in Turn, IsInjective(ms)
    PROVE  Bears([i \in 1 .. 2 * Len(ms) |->
                     IF i % 2 = 1 THEN Started ELSE Write(Prompt(<<ms[i \div 2]>>))], {}, ToSet(ms), {})
<1> DEFINE n == Len(ms)
           s == [i \in 1 .. 2 * n |-> IF i % 2 = 1 THEN Started ELSE Write(Prompt(<<ms[i \div 2]>>))]
<1>0. n \in Nat /\ ms \in [1 .. n -> Msgs] /\ DOMAIN ms = 1 .. n
  BY ListOf DEF Turn
<1> HIDE DEF n
<1>1. s = [i \in 1 .. 2 * n |-> IF i % 2 = 1 THEN Started ELSE Write(Prompt(<<ms[i \div 2]>>))]
  OBVIOUS
<1> HIDE DEF s
<1>2. \A m \in Msgs : <<m>> \in Turn /\ ToSet(<<m>>) = {m}
  BY OneMessage
<1>3. ASSUME NEW i \in 1 .. 2 * n
      PROVE  \/ s[i] = Started
             \/ i % 2 = 0 /\ i \div 2 \in 1 .. n /\ ms[i \div 2] \in Msgs /\ s[i] = Write(Prompt(<<ms[i \div 2]>>))
  <2>1. CASE i % 2 = 1
    BY <1>1, <2>1
  <2>2. CASE i % 2 # 1
    <3>1. i % 2 = 0 /\ i \div 2 \in 1 .. n
      BY <1>0, <2>2, Halves
    <3>2. ms[i \div 2] \in Msgs
      BY <1>0, <3>1
    <3> QED BY <1>1, <2>2, <3>1, <3>2
  <2> QED BY <2>1, <2>2
<1>4. DOMAIN s = 1 .. 2 * n
  BY <1>1
<1>5. s \in Seq(Steps)
  <2>1. \A i \in 1 .. 2 * n : s[i] \in Steps
    BY <1>2, <1>3, WritesAreSteps, EmitsAreSteps
  <2>2. 2 * n \in Nat
    BY <1>0
  <2>3. s \in [1 .. 2 * n -> Steps]
    BY <1>1, <2>1
  <2> QED BY <2>2, <2>3
<1>6. ASSUME NEW m \in Msgs, NEW k \in Msgs PROVE Write(Prompt(<<k>>)) \in PromptOf(m) <=> m = k
  <2>1. Write(Prompt(<<k>>)) \in Steps
    BY <1>2, WritesAreSteps
  <2>2. /\ Write(Prompt(<<k>>)).do = "write" /\ Write(Prompt(<<k>>)).it.is = "prompt"
        /\ Write(Prompt(<<k>>)).it.msgs = <<k>>
    BY DEF Write, Prompt
  <2> QED BY <1>2, <2>1, <2>2 DEF PromptOf, Brings
<1>7. ASSUME NEW m \in Msgs PROVE Started \notin PromptOf(m) /\ Started \notin EchoOf(m)
  BY DEF PromptOf, EchoOf, Started, Echo, Emit
<1>8. \A m \in Msgs, k \in Msgs : Write(Prompt(<<k>>)) \notin EchoOf(m)
  BY DEF EchoOf, Echo, Emit, Write
<1>9. \A a \in Asks, k \in Msgs : Write(Prompt(<<k>>)) \notin ReplyOf(a)
  BY DEF ReplyOf, Write, Reply, Prompt
<1>10. \A a \in Asks : Started \notin ReplyOf(a)
  BY DEF ReplyOf, Write, Started, Emit
<1>11. ASSUME NEW m \in Msgs PROVE Single(s, PromptOf(m)) /\ (Lacks(s, PromptOf(m)) <=> m \notin ToSet(ms))
  <2>1. ASSUME NEW i \in 1 .. 2 * n, s[i] \in PromptOf(m)
        PROVE  i % 2 = 0 /\ i \div 2 \in 1 .. n /\ ms[i \div 2] = m
    <3>1. s[i] # Started
      BY <1>7, <2>1
    <3>2. i % 2 = 0 /\ i \div 2 \in 1 .. n /\ ms[i \div 2] \in Msgs /\ s[i] = Write(Prompt(<<ms[i \div 2]>>))
      BY <1>3, <3>1
    <3>3. PICK k \in Msgs : k = ms[i \div 2] /\ s[i] = Write(Prompt(<<k>>))
      BY <3>2
    <3>4. k = m
      BY <1>6, <2>1, <3>3
    <3> QED BY <3>2, <3>3, <3>4
  <2>2. \A p, k \in 1 .. n : ms[p] = ms[k] => p = k
    BY <1>0 DEF IsInjective
  <2>3. ASSUME NEW i \in 1 .. 2 * n, NEW j \in 1 .. 2 * n, s[i] \in PromptOf(m), s[j] \in PromptOf(m)
        PROVE  i = j
    <3>1. /\ i % 2 = 0 /\ i \div 2 \in 1 .. n /\ ms[i \div 2] = m
          /\ j % 2 = 0 /\ j \div 2 \in 1 .. n /\ ms[j \div 2] = m
      BY <2>1, <2>3
    <3>2. i \div 2 = j \div 2
      BY <2>2, <3>1
    <3> QED BY <1>0, <3>1, <3>2, Halves
  <2>4. ASSUME NEW k \in 1 .. n, ms[k] = m PROVE \E i \in 1 .. 2 * n : s[i] \in PromptOf(m)
    <3>1. PICK i \in 1 .. 2 * n : i % 2 = 0 /\ i \div 2 = k
      BY <1>0, Halves
    <3>2. s[i] = Write(Prompt(<<m>>))
      BY <1>1, <2>4, <3>1
    <3> QED BY <1>6, <3>2
  <2>5. Single(s, PromptOf(m))
    BY <1>4, <2>3 DEF Single
  <2>6. Lacks(s, PromptOf(m)) <=> m \notin ToSet(ms)
    BY <1>0, <1>4, <2>1, <2>4 DEF Lacks, ToSet
  <2> QED BY <2>5, <2>6
<1>12. \A m \in Msgs : Single(s, EchoOf(m)) /\ Lacks(s, EchoOf(m))
  BY <1>3, <1>4, <1>7, <1>8 DEF Single, Lacks
<1>13. \A a \in Asks : Single(s, ReplyOf(a)) /\ Lacks(s, ReplyOf(a))
  BY <1>3, <1>4, <1>9, <1>10 DEF Single, Lacks
<1>14. Bears(s, {}, ToSet(ms), {})
  BY <1>5, <1>11, <1>12, <1>13 DEF Bears
<1> QED BY <1>14 DEF s, n

LEMMA CursorOpens ==
    ASSUME NEW d \in CursorDrv, CursorNeat(d)
    PROVE  CursorDeals(d, CursorOnOpen(d), {}, {})
<1> DEFINE c == [d EXCEPT !.phase = "ready", !.queued = <<>>, !.prompts = {<<m>> : m \in ToSet(d.queued)}]
           s == [i \in 1 .. 2 * Len(d.queued) |->
                    IF i % 2 = 1 THEN Started ELSE Write(Prompt(<<d.queued[i \div 2]>>))]
<1>1. CursorOnOpen(d) = Result(c, s)
  BY DEF CursorOnOpen
<1>2. c \in CursorDrv /\ c.queued = <<>> /\ c.carried = d.carried /\ c.pending = d.pending
  <2>1. <<>> \in Turn /\ {<<m>> : m \in ToSet(d.queued)} \subseteq Turn
    <3>1. ToSet(d.queued) \subseteq Msgs /\ <<>> \in Turn
      BY CursorFields DEF Turn
    <3> QED BY <3>1, OneMessage
  <2> QED BY <2>1 DEF CursorDrv
<1>3. ToSet(<<>>) = {} /\ IsInjective(<<>>)
  BY MembersFacts
<1>4. Bears(s, {}, ToSet(d.queued), {})
  BY BearsPrompts, CursorFields DEF CursorNeat
<1> HIDE DEF c, s
<1>5. /\ Moved({}, ToSet(d.carried) \cup {}, ToSet(c.carried))
      /\ Moved(ToSet(d.queued), CursorHands(d) \cup {}, CursorHands(c))
      /\ {} \subseteq d.pending \cup {} /\ c.pending \subseteq (d.pending \cup {}) \ {}
      /\ CursorNeat(c)
  BY <1>2, <1>3 DEF Moved, CursorHands, CursorNeat
<1>6. CursorDeals(d, Result(c, s), {}, {})
  BY <1>2, <1>4, <1>5, CursorBy
<1> QED BY <1>1, <1>6

CursorSpeaks == {"init", "auth", "open", "prompt", "ask"}

LEMMA CursorLines ==
    ASSUME NEW d \in CursorDrv, CursorNeat(d), NEW line \in Lines, line.is \in CursorSpeaks,
           line.is = "ask" => line.ask \notin d.pending
    PROVE  CursorDeals(d, CursorOnLine(d, line), {}, NewAsks(line))
<1>0. d.pending \in Few(Asks)
  BY CursorFields
<1>1. CASE line.is \in {"init", "auth"} \/ (line.is = "open" /\ ~line.ok)
  <2> DEFINE c == IF ~line.ok THEN d ELSE [d EXCEPT !.phase = IF line.is = "init" THEN "authenticating" ELSE "starting"]
             s == IF ~line.ok THEN <<Failed>>
                  ELSE IF line.is = "init" THEN <<Write([is |-> "auth"])>> ELSE <<Write([is |-> "open"])>>
  <2>1. CursorOnLine(d, line) = Result(c, s)
    BY <1>1 DEF CursorOnLine
  <2>2. c \in CursorDrv /\ c.queued = d.queued /\ c.carried = d.carried /\ c.pending = d.pending
    BY DEF CursorDrv
  <2>3. Bears(s, {}, {}, {})
    BY BearsWrites, BearsEmits
  <2>4. NewAsks(line) = {} /\ {} \subseteq d.pending \cup {} /\ c.pending \subseteq (d.pending \cup {}) \ {}
    BY <1>1, <2>2 DEF NewAsks
  <2> HIDE DEF c, s
  <2>5. CursorDeals(d, Result(c, s), {}, {})
    BY <2>2, <2>3, <2>4, CursorKeeps
  <2> QED BY <2>1, <2>4, <2>5
<1>2. CASE line.is = "open" /\ line.ok
  BY <1>2, CursorOpens DEF CursorOnLine, NewAsks
<1>3. CASE line.is = "prompt"
  BY <1>3, CursorPrompts DEF CursorOnLine, NewAsks
<1>4. CASE line.is = "ask"
  <2> DEFINE a == line.ask
             c == [d EXCEPT !.pending = @ \cup {a}, !.plans = IF line.kind = "plan" THEN @ \cup {a} ELSE @]
             s == <<Write(Reply(a)), Settled(a)>>
  <2>0. NewAsks(line) = {a} /\ a \in Asks /\ a \notin d.pending
    BY <1>4, LineFields DEF NewAsks
  <2>1. \/ CursorOnLine(d, line) = Result(d, <<>>)
        \/ CursorOnLine(d, line) = Result(d, s)
        \/ CursorOnLine(d, line) = Result(c, <<Card(a)>>)
    BY <1>4 DEF CursorOnLine, CursorOnAsk
  <2>2. d.pending \cup {a} \in Few(Asks)
    BY <1>0, <2>0, FewFacts
  <2>3. c \in CursorDrv /\ c.queued = d.queued /\ c.carried = d.carried /\ c.pending = d.pending \cup {a}
    BY <2>0, <2>2 DEF CursorDrv
  <2>4. Bears(s, {}, {}, {a})
    <3>1. Bears(<<Write(Reply(a))>> \o <<Settled(a)>>, {} \cup {}, {} \cup {}, {a} \cup {})
      BY <2>0, BearsWrites, BearsEmits, BearsJoin
    <3>2. s = <<Write(Reply(a))>> \o <<Settled(a)>>
      OBVIOUS
    <3> QED BY <3>1, <3>2
  <2>5. Bears(<<Card(a)>>, {}, {}, {}) /\ Bears(<<>>, {}, {}, {})
    BY <2>0, BearsEmits, BearsNothing
  <2> HIDE DEF c, s
  <2>6. /\ {} \subseteq d.pending \cup {a} /\ c.pending \subseteq (d.pending \cup {a}) \ {}
        /\ d.pending \subseteq (d.pending \cup {a}) \ {}
        /\ {a} \subseteq d.pending \cup {a} /\ d.pending \subseteq (d.pending \cup {a}) \ {a}
    BY <2>0, <2>3
  <2>7. CursorDeals(d, Result(d, <<>>), {}, {a})
    BY <2>5, <2>6, CursorKeeps
  <2>8. CursorDeals(d, Result(d, s), {}, {a})
    BY <2>4, <2>6, CursorKeeps
  <2>9. CursorDeals(d, Result(c, <<Card(a)>>), {}, {a})
    BY <2>3, <2>5, <2>6, CursorKeeps
  <2> QED BY <2>0, <2>1, <2>7, <2>8, <2>9
<1> QED BY <1>1, <1>2, <1>3, <1>4 DEF CursorSpeaks

-----------------------------------------------------------------------------
(* The session's shape                                                     *)

\* What the driver has still to show and to hand over, and what it knows of; what the
\* CLI has read and not used.
Shows ==
    CASE provider = "codex" -> CodexShows(drv)
      [] provider = "claude" -> drv.steers
      [] provider = "cursor" -> ToSet(drv.carried)
Hands ==
    CASE provider = "codex" -> CodexHands(drv)
      [] provider = "claude" -> {}
      [] provider = "cursor" -> CursorHands(drv)
Knows ==
    CASE provider = "codex" -> CodexKnows(drv)
      [] provider = "claude" -> drv.steers
      [] provider = "cursor" -> CursorHands(drv)

Users == [is : {"user"}, msg : Msgs, id : BOOLEAN]

CodexCliSet ==
    [turn : Turn \cup {None}, inbox : Turn, acks : SUBSET Msgs, asked : Few(Asks), spent : SUBSET Asks]
ClaudeCliSet ==
    [turn : BOOLEAN, inbox : Seq(Users), asked : Few(Asks), spent : SUBSET Asks, mute : BOOLEAN,
     erred : BOOLEAN]
CursorCliSet == [turn : Turn \cup {None}, asked : Few(Asks), spent : SUBSET Asks]

DriverShape ==
    /\ provider \in {"codex", "claude", "cursor"}
    /\ provider = "codex" => drv \in CodexDrv /\ CodexNeat(drv)
    /\ provider = "claude" => drv \in ClaudeDrv
    /\ provider = "cursor" => drv \in CursorDrv /\ CursorNeat(drv)

CliShape ==
    /\ provider = "codex" => cli \in CodexCliSet
    /\ provider = "claude" => cli \in ClaudeCliSet
    /\ provider = "cursor" => cli \in CursorCliSet

Speaks ==
    CASE provider = "codex" -> CodexSpeaks
      [] provider = "claude" -> ClaudeSpeaks
      [] provider = "cursor" -> CursorSpeaks

UserShape ==
    /\ alive \in BOOLEAN /\ working \in BOOLEAN /\ failures \in BOOLEAN
    /\ turns \in [Msgs -> 0..2] /\ replies \in [Asks -> 0..2] /\ echoed \in [Msgs -> 0..2]
    /\ cards \subseteq Asks /\ owed \subseteq Msgs /\ steered \subseteq Msgs

Shape ==
    /\ WayShape /\ DriverShape /\ CliShape /\ UserShape
    /\ \A i \in DOMAIN lines : lines[i].is \in Speaks
    /\ Knows \subseteq called

\* What a step of the driver does, given what it is given.
DriverMoves(t, steps, new, back, asks) ==
    /\ todo' = [todo EXCEPT ![t] = steps]
    /\ DriverShape'
    /\ Knows' \subseteq Knows \cup new
    /\ Deals(steps, Shows \cup new, Shows', Hands \cup new \cup back, Hands',
             drv.pending \cup asks, drv.pending')

Back(line) == IF provider = "codex" THEN CodexBack(drv, line) ELSE {}

LEMMA MovesBy ==
    ASSUME NEW t, NEW r, NEW new, NEW back, NEW asks, Compute(t, r), provider' = provider, DriverShape,
           provider = "codex" => CodexDeals(drv, r, new, back, asks),
           provider = "claude" => ClaudeDeals(drv, r, new, asks) /\ back = {},
           provider = "cursor" => CursorDeals(drv, r, new, asks) /\ back = {}
    PROVE  DriverMoves(t, r.steps, new, back, asks)
<1>0. drv' = r.drv /\ todo' = [todo EXCEPT ![t] = r.steps]
  BY DEF Compute
<1>1. CASE provider = "codex"
  BY <1>0, <1>1 DEF DriverMoves, DriverShape, Knows, Shows, Hands, CodexDeals
<1>2. CASE provider = "claude"
  BY <1>0, <1>2 DEF DriverMoves, DriverShape, Knows, Shows, Hands, ClaudeDeals
<1>3. CASE provider = "cursor"
  BY <1>0, <1>3 DEF DriverMoves, DriverShape, Knows, Shows, Hands, CursorDeals
<1> QED BY <1>1, <1>2, <1>3 DEF DriverShape

LEMMA SendMoves ==
    ASSUME Shape, NEW m \in Msgs, NEW how, Send(m, how)
    PROVE  \E steps : DriverMoves(m, steps, {m}, {}, {})
<1> DEFINE r == PromptCall(m, how)
<1>1. m \notin Knows /\ Compute(m, r) /\ provider' = provider /\ DriverShape
  BY DEF Send, Call, Shape
<1>2. ASSUME provider = "codex" PROVE CodexDeals(drv, r, {m}, {}, {})
  BY <1>1, <1>2, CodexCalls DEF DriverShape, PromptCall, Knows
<1>3. ASSUME provider = "claude" PROVE ClaudeDeals(drv, r, {m}, {})
  BY <1>1, <1>3, ClaudeCalls DEF DriverShape, PromptCall, Knows
<1>4. ASSUME provider = "cursor" PROVE CursorDeals(drv, r, {m}, {})
  BY <1>1, <1>4, CursorCalls DEF DriverShape, PromptCall, Knows
<1> HIDE DEF r
<1>5. DriverMoves(m, r.steps, {m}, {}, {})
  BY <1>1, <1>2, <1>3, <1>4, MovesBy
<1> QED BY <1>5

LEMMA ClickMoves ==
    ASSUME Shape, NEW c, NEW a \in Asks, NEW allow \in BOOLEAN, Click(c, a, allow)
    PROVE  \E steps : DriverMoves(c, steps, {}, {}, {})
<1> DEFINE r == AnswerCall(a, allow)
<1>1. Compute(c, r) /\ provider' = provider /\ DriverShape
  BY DEF Click, Call, Shape
<1>2. ASSUME provider = "codex" PROVE CodexDeals(drv, r, {}, {}, {})
  BY <1>1, <1>2, CodexAnswers DEF DriverShape, AnswerCall
<1>3. ASSUME provider = "claude" PROVE ClaudeDeals(drv, r, {}, {})
  BY <1>1, <1>3, ClaudeAnswers DEF DriverShape, AnswerCall
<1>4. ASSUME provider = "cursor" PROVE CursorDeals(drv, r, {}, {})
  BY <1>1, <1>4, CursorAnswers DEF DriverShape, AnswerCall
<1> HIDE DEF r
<1>5. DriverMoves(c, r.steps, {}, {}, {})
  BY <1>1, <1>2, <1>3, <1>4, MovesBy
<1> QED BY <1>5

LEMMA CursorInterrupts ==
    ASSUME NEW d \in CursorDrv, CursorNeat(d)
    PROVE  CursorDeals(d, CursorInterrupt(d), {}, {})
<1>1. ToSet(d.carried) = ToSet(d.carried) \cup {} /\ CursorHands(d) = CursorHands(d) \cup {}
  OBVIOUS
<1> QED BY <1>1, CursorCancels

LEMMA StopMoves ==
    ASSUME Shape, NEW t, NEW r \in {InterruptCall, AbandonCall}, Compute(t, r), provider' = provider
    PROVE  \E steps : DriverMoves(t, steps, {}, {}, {})
<1>1. DriverShape
  BY DEF Shape
<1>2. ASSUME provider = "codex" PROVE CodexDeals(drv, r, {}, {}, {})
  BY <1>1, <1>2, CodexInterrupts DEF DriverShape, InterruptCall, AbandonCall
<1>3. ASSUME provider = "claude" PROVE ClaudeDeals(drv, r, {}, {})
  BY <1>1, <1>3, ClaudeInterrupts DEF DriverShape, InterruptCall, AbandonCall
<1>4. ASSUME provider = "cursor" PROVE CursorDeals(drv, r, {}, {})
  BY <1>1, <1>4, CursorInterrupts DEF DriverShape, InterruptCall, AbandonCall
<1>5. DriverMoves(t, r.steps, {}, {}, {})
  BY <1>1, <1>2, <1>3, <1>4, MovesBy
<1> QED BY <1>5

LEMMA LineMoves ==
    ASSUME Shape, OnLine, Head(lines).is = "ask" => Head(lines).ask \notin drv.pending
    PROVE  \E steps : DriverMoves("reader", steps, {}, Back(Head(lines)), NewAsks(Head(lines)))
<1> DEFINE line == Head(lines)
           r == LineCall(line)
<1>1. Compute("reader", r) /\ provider' = provider /\ DriverShape /\ lines # <<>> /\ lines \in Seq(Lines)
  BY DEF OnLine, Shape, WayShape
<1>2. line \in Lines /\ line.is \in Speaks
  <2>1. line = lines[1] /\ 1 \in DOMAIN lines /\ line \in Lines
    BY <1>1
  <2> QED BY <2>1 DEF Shape
<1> HIDE DEF line
<1>3. line.is = "ask" => line.ask \notin drv.pending
  BY DEF line
<1>4. ASSUME provider = "codex" PROVE CodexDeals(drv, r, {}, Back(line), NewAsks(line))
  BY <1>1, <1>2, <1>3, <1>4, CodexLines DEF DriverShape, LineCall, Speaks, Back
<1>5. ASSUME provider = "claude" PROVE ClaudeDeals(drv, r, {}, NewAsks(line)) /\ Back(line) = {}
  BY <1>1, <1>2, <1>5, ClaudeLines DEF DriverShape, LineCall, Speaks, Back
<1>6. ASSUME provider = "cursor" PROVE CursorDeals(drv, r, {}, NewAsks(line)) /\ Back(line) = {}
  BY <1>1, <1>2, <1>3, <1>6, CursorLines DEF DriverShape, LineCall, Speaks, Back
<1> HIDE DEF r
<1>7. DriverMoves("reader", r.steps, {}, Back(line), NewAsks(line))
  BY <1>1, <1>4, <1>5, <1>6, MovesBy
<1> QED BY <1>7 DEF line

-----------------------------------------------------------------------------
(* What the CLI does                                                       *)

Inbox == IF provider = "cursor" THEN <<>> ELSE cli.inbox
Carries(m) == IF provider = "codex" THEN {m} ELSE {f \in Users : f.msg = m}
Taken(f) == {m \in Msgs : Brings(f, m)}

\* It says something, and may have read a frame.
FarShape(new) ==
    /\ Elsewhere /\ CliShape'
    /\ wire' = wire \/ (wire # <<>> /\ wire' = Tail(wire))
    /\ new \in Seq(Lines) /\ lines' = lines \o new /\ \A i \in DOMAIN new : new[i].is \in Speaks

\* An answer is read, an approval is asked for, or neither.
FarAsks(new) ==
    \/ /\ wire # <<>> /\ wire' = Tail(wire) /\ new = <<>> /\ cli.spent = cli'.spent
       /\ \E a \in Asks : Head(wire) = Reply(a) /\ replies' = [replies EXCEPT ![a] = Once(@)]
    \/ /\ wire' = wire /\ replies' = replies
       /\ \E a \in Asks, kind \in AskKinds :
             new = <<Ask(a, kind)>> /\ a \notin cli.spent /\ cli'.spent = cli.spent \cup {a}
    \/ /\ replies' = replies /\ cli'.spent = cli.spent
       /\ \A i \in DOMAIN new : new[i].is # "ask"

\* Messages are put in a turn, from the wire or from the inbox, or one joins the inbox.
FarPrompts ==
    \/ /\ wire # <<>> /\ wire' = Tail(wire) /\ Inbox' = Inbox
       /\ turns' = [m \in Msgs |-> IF m \in Taken(Head(wire)) THEN Once(turns[m]) ELSE turns[m]]
    \/ /\ wire # <<>> /\ wire' = Tail(wire) /\ turns' = turns
       /\ \E x : /\ Inbox' = Append(Inbox, x)
                 /\ x \in (IF provider = "codex" THEN Msgs ELSE Users)
                 /\ \A m \in Msgs : x \in Carries(m) <=> Brings(Head(wire), m)
    \/ /\ wire' = wire /\ Inbox # <<>> /\ Inbox' = Tail(Inbox)
       /\ turns' = [m \in Msgs |-> IF Head(Inbox) \in Carries(m) THEN Once(turns[m]) ELSE turns[m]]
    \/ turns' = turns /\ (Inbox' = Inbox \/ Inbox' = <<>>)

Far == \E new : FarShape(new) /\ FarAsks(new) /\ FarPrompts

\* The lines it says.
LEMMA LinesSaid ==
    /\ \A is \in {"init", "open", "auth"}, ok \in BOOLEAN : [is |-> is, ok |-> ok] \in Lines
    /\ \A ms \in Turn : /\ StartOk(ms) \in Lines /\ StartNo(ms) \in Lines
                        /\ [is |-> "started", turn |-> ms] \in Lines
                        /\ \A ok \in BOOLEAN : PromptReply(ms, ok) \in Lines
    /\ \A m \in Msgs : /\ SteerOk(m) \in Lines /\ SteerNo(m) \in Lines
                       /\ \A is \in {"item", "queued", "taken"} : [is |-> is, msg |-> m] \in Lines
    /\ \A failed \in BOOLEAN : Completed(failed) \in Lines
    /\ \A a \in Asks : /\ [is |-> "resolved", ask |-> a] \in Lines
                       /\ \A kind \in AskKinds : Ask(a, kind) \in Lines
    /\ \A is \in {"error", "turn"} : [is |-> is] \in Lines
    /\ \A how \in Outcomes : ResultLine(how) \in Lines
<1>1. /\ \A is \in {"init", "open", "auth"}, ok \in BOOLEAN : [is |-> is, ok |-> ok] \in Lines
      /\ \A is \in {"error", "turn"} : [is |-> is] \in Lines
  BY DEF Lines
<1>2. \A ms \in Turn : StartOk(ms) \in Lines /\ StartNo(ms) \in Lines /\ [is |-> "started", turn |-> ms] \in Lines
  BY DEF Lines, StartOk, StartNo
<1>3. \A ms \in Turn, ok \in BOOLEAN : PromptReply(ms, ok) \in Lines
  BY DEF Lines, PromptReply
<1>4. \A m \in Msgs : SteerOk(m) \in Lines /\ SteerNo(m) \in Lines
  BY DEF Lines, SteerOk, SteerNo
<1>5. \A m \in Msgs, is \in {"item", "queued", "taken"} : [is |-> is, msg |-> m] \in Lines
  BY DEF Lines
<1>6. \A failed \in BOOLEAN : Completed(failed) \in Lines
  BY DEF Lines, Completed
<1>7. \A a \in Asks : [is |-> "resolved", ask |-> a] \in Lines
  BY DEF Lines
<1>8. \A a \in Asks, kind \in AskKinds : Ask(a, kind) \in Lines
  BY DEF Lines, Ask
<1>9. \A how \in Outcomes : ResultLine(how) \in Lines
  BY DEF Lines, ResultLine
<1> QED BY <1>1, <1>2, <1>3, <1>4, <1>5, <1>6, <1>7, <1>8, <1>9

\* A few lines of given kinds.
LEMMA Said ==
    ASSUME NEW K
    PROVE  /\ <<>> \in Seq(Lines) /\ \A i \in DOMAIN <<>> : <<>>[i].is \in K
           /\ \A x \in Lines : x.is \in K => <<x>> \in Seq(Lines) /\ \A i \in DOMAIN <<x>> : <<x>>[i].is \in K
           /\ \A s, t \in Seq(Lines) :
                 /\ s \o t \in Seq(Lines)
                 /\ (\A i \in DOMAIN s : s[i].is \in K) /\ (\A i \in DOMAIN t : t[i].is \in K)
                    => \A i \in DOMAIN (s \o t) : (s \o t)[i].is \in K
<1> DEFINE S == {x \in Lines : x.is \notin K}
<1>1. \A s \in Seq(Lines) : (\A i \in DOMAIN s : s[i].is \in K) <=> Lacks(s, S)
  BY DEF Lacks
<1>2. \A s, t \in Seq(Lines) : s \o t \in Seq(Lines) /\ (Lacks(s \o t, S) <=> Lacks(s, S) /\ Lacks(t, S))
  BY LacksFacts
<1> HIDE DEF S
<1>3. \A s, t \in Seq(Lines) :
         /\ s \o t \in Seq(Lines)
         /\ (\A i \in DOMAIN s : s[i].is \in K) /\ (\A i \in DOMAIN t : t[i].is \in K)
            => \A i \in DOMAIN (s \o t) : (s \o t)[i].is \in K
  BY <1>1, <1>2
<1> QED BY <1>3

LEMMA ResolvedSaid ==
    ASSUME NEW as \in Few(Asks)
    PROVE  LET s == SetToSeq({[is |-> "resolved", ask |-> a] : a \in as})
           IN  s \in Seq(Lines) /\ \A i \in DOMAIN s : s[i].is = "resolved"
<1> DEFINE T == {[is |-> "resolved", ask |-> a] : a \in as}
           f == [a \in as |-> [is |-> "resolved", ask |-> a]]
<1>1. as \subseteq Asks /\ IsFiniteSet(as)
  BY DEF Few
<1>2. f \in Surjection(as, T)
  BY DEF Surjection
<1>3. IsFiniteSet(T)
  BY <1>1, <1>2, FS_Surjection
<1>4. T \subseteq Lines
  BY <1>1, LinesSaid
<1>5. ASSUME NEW x \in T PROVE x.is = "resolved"
  <2>1. PICK a \in as : x = [is |-> "resolved", ask |-> a]
    OBVIOUS
  <2> QED BY <2>1
<1> HIDE DEF T, f
<1>6. SetToSeq(T) \in Seq(T)
  BY <1>3, ListFacts
<1>7. SetToSeq(T) \in Seq(Lines) /\ \A i \in DOMAIN SetToSeq(T) : SetToSeq(T)[i] \in T
  BY <1>4, <1>6, Wider
<1> QED BY <1>5, <1>7 DEF T

LEMMA TakeIs ==
    ASSUME NEW ms, Take(ms), NEW T, \A m \in Msgs : m \in ms <=> m \in T
    PROVE  turns' = [m \in Msgs |-> IF m \in T THEN Once(turns[m]) ELSE turns[m]]
  BY DEF Take

LEMMA FrameTaken ==
    ASSUME NEW f \in Frames
    PROVE  /\ f.is \in {"turn/start", "compact", "prompt"} => \A m \in Msgs : m \in ToSet(f.msgs) <=> m \in Taken(f)
           /\ f.is \in {"user", "turn/steer"} => \A m \in Msgs : m \in {f.msg} <=> m \in Taken(f)
  BY DEF Taken, Brings

LEMMA CodexCliFields ==
    ASSUME NEW c \in CodexCliSet
    PROVE  /\ c.turn \in Turn \cup {None} /\ c.inbox \in Turn /\ c.acks \subseteq Msgs
           /\ c.asked \in Few(Asks) /\ c.spent \subseteq Asks
  BY DEF CodexCliSet

\* What the CLI's end of a turn leaves, and says.
LEMMA CodexEnds ==
    ASSUME Shape, provider = "codex", NEW failed \in BOOLEAN, CodexEnd(failed)
    PROVE  /\ cli' \in CodexCliSet /\ cli'.spent = cli.spent /\ cli'.inbox = <<>> /\ cli'.turn = None
           /\ cli'.acks = cli.acks
           /\ \E s \in Seq(Lines) : /\ lines' = lines \o (<<Completed(failed)>> \o s)
                                    /\ \A i \in DOMAIN s : s[i].is = "resolved"
           /\ \E new \in Seq(Lines) : /\ lines' = lines \o new
                                      /\ \A i \in DOMAIN new : new[i].is \in {"completed", "resolved"}
<1>1. cli \in CodexCliSet
  BY DEF Shape, CliShape
<1>2. cli' \in CodexCliSet /\ cli'.spent = cli.spent /\ cli'.inbox = <<>> /\ cli'.turn = None /\ cli'.acks = cli.acks
  <2>1. {} \in Few(Asks) /\ <<>> \in Turn
    BY <1>1, CodexCliFields, FewFacts DEF Turn
  <2> QED BY <1>1, <2>1 DEF CodexEnd, CodexCliSet
<1>3. PICK s : /\ s = SetToSeq({[is |-> "resolved", ask |-> a] : a \in cli.asked})
               /\ s \in Seq(Lines) /\ \A i \in DOMAIN s : s[i].is = "resolved"
  BY <1>1, CodexCliFields, ResolvedSaid
<1>4. lines' = lines \o (<<Completed(failed)>> \o s)
  BY <1>3 DEF CodexEnd, Says
<1>5. Completed(failed) \in Lines /\ Completed(failed).is = "completed"
  BY LinesSaid DEF Completed
<1>6. /\ <<Completed(failed)>> \in Seq(Lines)
      /\ \A i \in DOMAIN <<Completed(failed)>> : <<Completed(failed)>>[i].is \in {"completed", "resolved"}
  BY <1>5, Said
<1>7. \A i \in DOMAIN s : s[i].is \in {"completed", "resolved"}
  BY <1>3
<1>8. /\ <<Completed(failed)>> \o s \in Seq(Lines)
      /\ \A i \in DOMAIN (<<Completed(failed)>> \o s) : (<<Completed(failed)>> \o s)[i].is \in {"completed", "resolved"}
  BY <1>3, <1>6, <1>7, Said
<1> QED BY <1>2, <1>3, <1>4, <1>8

\* An action that only says something.
LEMMA OnlySays ==
    ASSUME Shape, Elsewhere, NEW new \in Seq(Lines), lines' = lines \o new,
           \A i \in DOMAIN new : new[i].is \in Speaks /\ new[i].is # "ask",
           wire' = wire \/ (wire # <<>> /\ wire' = Tail(wire)),
           CliShape', turns' = turns, replies' = replies, cli'.spent = cli.spent,
           provider # "cursor" => cli'.inbox \in {cli.inbox, <<>>}
    PROVE  Far
<1>1. FarShape(new)
  BY DEF FarShape
<1>2. FarAsks(new)
  BY DEF FarAsks
<1>3. FarPrompts
  BY DEF FarPrompts, Inbox, Elsewhere
<1> QED BY <1>1, <1>2, <1>3 DEF Far

LEMMA CodexServes ==
    ASSUME Shape, CodexServe
    PROVE  Far
<1> DEFINE f == Head(wire)
<1>0. provider = "codex" /\ wire # <<>> /\ wire' = Tail(wire) /\ Elsewhere /\ provider' = provider
  BY DEF CodexServe, Elsewhere
<1>1. f \in Frames /\ wire \in Seq(Frames)
  <2>1. wire \in Seq(Frames)
    BY DEF Shape, WayShape
  <2> QED BY <1>0, <2>1, TailFacts
<1>2. cli \in CodexCliSet /\ Speaks = CodexSpeaks
  BY <1>0 DEF Shape, CliShape, Speaks
<1>3. \/ /\ f.is \in {"init", "open"} /\ UNCHANGED <<cli, turns, replies>>
         /\ \/ Says(<<Ok(f.is)>>)
            \/ Says(<<No(f.is)>>)
      \/ /\ f.is \in {"turn/start", "compact"} /\ UNCHANGED replies
         /\ cli.turn = None
         /\ cli' = [cli EXCEPT !.turn = f.msgs]
         /\ Says((IF f.is = "compact" THEN <<>> ELSE <<StartOk(f.msgs)>>)
                  \o <<[is |-> "started", turn |-> f.msgs]>>)
         /\ Take(ToSet(f.msgs))
      \/ /\ f.is \in {"turn/start", "compact"} /\ UNCHANGED <<cli, turns, replies>>
         /\ Says(<<IF f.is = "compact" THEN [is |-> "error"] ELSE StartNo(f.msgs)>>)
      \/ /\ f.is = "turn/steer" /\ UNCHANGED <<turns, replies, lines>>
         /\ cli' = [cli EXCEPT !.inbox = Append(@, f.msg), !.acks = @ \cup {f.msg}]
      \/ /\ f.is = "turn/steer" /\ UNCHANGED <<turns, replies, cli>>
         /\ Says(<<SteerNo(f.msg)>>)
      \/ f.is = "interrupt" /\ UNCHANGED <<turns, replies>> /\ CodexEnd(FALSE)
      \/ f.is = "interrupt" /\ UNCHANGED <<turns, replies, cli>> /\ Says(<<[is |-> "error"]>>)
      \/ /\ f.is = "reply" /\ UNCHANGED <<lines, turns>>
         /\ cli' = [cli EXCEPT !.asked = @ \ {f.ask}]
         /\ Answered(f.ask)
  BY DEF CodexServe
<1>4. CliShape' <=> cli' \in CodexCliSet
  BY <1>0 DEF CliShape
<1> HIDE DEF f
<1>5. ASSUME NEW x \in Lines, x.is \in CodexSpeaks, x.is # "ask", Says(<<x>>), UNCHANGED <<cli, turns, replies>>
      PROVE  Far
  <2>1. <<x>> \in Seq(Lines) /\ \A i \in DOMAIN <<x>> : <<x>>[i].is \in CodexSpeaks \ {"ask"}
    BY <1>5, Said
  <2> QED BY <1>0, <1>2, <1>4, <1>5, <2>1, OnlySays DEF Says
<1>6. CASE /\ f.is \in {"init", "open"} /\ UNCHANGED <<cli, turns, replies>>
           /\ Says(<<Ok(f.is)>>) \/ Says(<<No(f.is)>>)
  <2>1. /\ Ok(f.is) \in Lines /\ Ok(f.is).is \in CodexSpeaks \ {"ask"}
        /\ No(f.is) \in Lines /\ No(f.is).is \in CodexSpeaks \ {"ask"}
    BY <1>6, LinesSaid DEF Ok, No, CodexSpeaks
  <2> QED BY <1>5, <1>6, <2>1
<1>7. CASE /\ f.is \in {"turn/start", "compact"} /\ UNCHANGED replies
           /\ cli.turn = None
           /\ cli' = [cli EXCEPT !.turn = f.msgs]
           /\ Says((IF f.is = "compact" THEN <<>> ELSE <<StartOk(f.msgs)>>)
                    \o <<[is |-> "started", turn |-> f.msgs]>>)
           /\ Take(ToSet(f.msgs))
  <2> DEFINE s == IF f.is = "compact" THEN <<>> ELSE <<StartOk(f.msgs)>>
             u == <<[is |-> "started", turn |-> f.msgs]>>
             new == s \o u
             K == CodexSpeaks \ {"ask"}
  <2>0. f.msgs \in Turn
    BY <1>1, <1>7, FrameFields
  <2>1. /\ StartOk(f.msgs) \in Lines /\ StartOk(f.msgs).is \in K
        /\ [is |-> "started", turn |-> f.msgs] \in Lines /\ [is |-> "started", turn |-> f.msgs].is \in K
    BY <2>0, LinesSaid DEF StartOk, CodexSpeaks
  <2>2. s \in Seq(Lines) /\ (\A i \in DOMAIN s : s[i].is \in K) /\ u \in Seq(Lines) /\ \A i \in DOMAIN u : u[i].is \in K
    BY <2>1, Said
  <2>3. lines' = lines \o new
    BY <1>7 DEF Says
  <2> HIDE DEF s, u
  <2>4. new \in Seq(Lines) /\ \A i \in DOMAIN new : new[i].is \in K
    BY <2>2, Said
  <2> HIDE DEF new
  <2>5. cli' \in CodexCliSet /\ cli'.spent = cli.spent /\ cli'.inbox = cli.inbox
    BY <1>2, <1>7, <2>0 DEF CodexCliSet
  <2>6. FarShape(new)
    BY <1>0, <1>2, <1>4, <2>3, <2>4, <2>5 DEF FarShape
  <2>7. FarAsks(new)
    BY <1>7, <2>4, <2>5 DEF FarAsks
  <2>8. turns' = [m \in Msgs |-> IF m \in Taken(f) THEN Once(turns[m]) ELSE turns[m]]
    BY <1>1, <1>7, TakeIs, FrameTaken
  <2>9. FarPrompts
    BY <1>0, <2>5, <2>8 DEF FarPrompts, Inbox, f
  <2> QED BY <2>6, <2>7, <2>9 DEF Far
<1>8. CASE /\ f.is \in {"turn/start", "compact"} /\ UNCHANGED <<cli, turns, replies>>
           /\ Says(<<IF f.is = "compact" THEN [is |-> "error"] ELSE StartNo(f.msgs)>>)
  <2> DEFINE x == IF f.is = "compact" THEN [is |-> "error"] ELSE StartNo(f.msgs)
  <2>1. f.msgs \in Turn
    BY <1>1, <1>8, FrameFields
  <2>2. x \in Lines /\ x.is \in CodexSpeaks \ {"ask"}
    BY <2>1, LinesSaid DEF StartNo, CodexSpeaks
  <2> QED BY <1>5, <1>8, <2>2
<1>9. CASE /\ f.is = "turn/steer" /\ UNCHANGED <<turns, replies, lines>>
           /\ cli' = [cli EXCEPT !.inbox = Append(@, f.msg), !.acks = @ \cup {f.msg}]
  <2>1. f.msg \in Msgs
    BY <1>1, <1>9, FrameFields
  <2>2. Append(cli.inbox, f.msg) \in Turn
    BY <1>2, <2>1, CodexCliFields DEF Turn
  <2>3. cli' \in CodexCliSet /\ cli'.spent = cli.spent /\ cli'.inbox = Append(cli.inbox, f.msg)
    BY <1>2, <1>9, <2>1, <2>2 DEF CodexCliSet
  <2>4. <<>> \in Seq(Lines) /\ (\A i \in DOMAIN <<>> : <<>>[i].is \in CodexSpeaks \ {"ask"})
    BY Said
  <2>5. lines' = lines \o <<>>
    BY <1>9 DEF Shape, WayShape
  <2>6. FarShape(<<>>)
    BY <1>0, <1>2, <1>4, <2>3, <2>4, <2>5 DEF FarShape
  <2>7. FarAsks(<<>>)
    BY <1>9, <2>3, <2>4 DEF FarAsks
  <2>8. \A m \in Msgs : f.msg \in Carries(m) <=> Brings(f, m)
    BY <1>0, <1>9 DEF Carries, Brings
  <2>9. FarPrompts
    BY <1>0, <1>9, <2>1, <2>3, <2>8 DEF FarPrompts, Inbox, f
  <2> QED BY <2>6, <2>7, <2>9 DEF Far
<1>10. CASE f.is = "turn/steer" /\ UNCHANGED <<turns, replies, cli>> /\ Says(<<SteerNo(f.msg)>>)
  <2>1. f.msg \in Msgs
    BY <1>1, <1>10, FrameFields
  <2>2. SteerNo(f.msg) \in Lines /\ SteerNo(f.msg).is \in CodexSpeaks \ {"ask"}
    BY <2>1, LinesSaid DEF SteerNo, CodexSpeaks
  <2> QED BY <1>5, <1>10, <2>2
<1>11. CASE f.is = "interrupt" /\ UNCHANGED <<turns, replies>> /\ CodexEnd(FALSE)
  <2>1. PICK new \in Seq(Lines) : /\ lines' = lines \o new
                                  /\ \A i \in DOMAIN new : new[i].is \in {"completed", "resolved"}
    BY <1>0, <1>11, CodexEnds
  <2>2. \A i \in DOMAIN new : new[i].is \in Speaks /\ new[i].is # "ask"
    BY <1>2, <2>1 DEF CodexSpeaks
  <2>3. cli' \in CodexCliSet /\ cli'.spent = cli.spent /\ cli'.inbox = <<>>
    BY <1>0, <1>11, CodexEnds
  <2> QED BY <1>0, <1>4, <1>11, <2>1, <2>2, <2>3, OnlySays
<1>12. CASE f.is = "interrupt" /\ UNCHANGED <<turns, replies, cli>> /\ Says(<<[is |-> "error"]>>)
  <2>1. [is |-> "error"] \in Lines /\ [is |-> "error"].is \in CodexSpeaks \ {"ask"}
    BY LinesSaid DEF CodexSpeaks
  <2> QED BY <1>5, <1>12, <2>1
<1>13. CASE /\ f.is = "reply" /\ UNCHANGED <<lines, turns>>
            /\ cli' = [cli EXCEPT !.asked = @ \ {f.ask}]
            /\ Answered(f.ask)
  <2>1. f.ask \in Asks /\ f = Reply(f.ask)
    BY <1>1, <1>13, FrameFields
  <2>2. cli.asked \ {f.ask} \in Few(Asks)
    BY <1>2, CodexCliFields, FewFacts
  <2>3. cli' \in CodexCliSet /\ cli'.spent = cli.spent /\ cli'.inbox = cli.inbox
    BY <1>2, <1>13, <2>2 DEF CodexCliSet
  <2>4. <<>> \in Seq(Lines) /\ (\A i \in DOMAIN <<>> : <<>>[i].is \in CodexSpeaks)
    BY Said
  <2>5. lines' = lines \o <<>>
    BY <1>13 DEF Shape, WayShape
  <2>6. FarShape(<<>>)
    BY <1>0, <1>2, <1>4, <2>3, <2>4, <2>5 DEF FarShape
  <2>7. FarAsks(<<>>)
    BY <1>0, <1>13, <2>1, <2>3 DEF FarAsks, Answered, f
  <2>8. FarPrompts
    BY <1>0, <1>13, <2>3 DEF FarPrompts, Inbox
  <2> QED BY <2>6, <2>7, <2>8 DEF Far
<1> QED BY <1>3, <1>6, <1>7, <1>8, <1>9, <1>10, <1>11, <1>12, <1>13

\* An action that asks for an approval.
LEMMA OnlyAsks ==
    ASSUME Shape, Elsewhere, NEW a \in Asks, NEW kind \in AskKinds, Says(<<Ask(a, kind)>>),
           CliShape', wire' = wire, turns' = turns, replies' = replies,
           a \notin cli.spent, cli'.spent = cli.spent \cup {a}, "ask" \in Speaks,
           provider # "cursor" => cli'.inbox = cli.inbox
    PROVE  Far
<1>1. Ask(a, kind) \in Lines /\ Ask(a, kind).is = "ask"
  BY LinesSaid DEF Ask
<1>2. <<Ask(a, kind)>> \in Seq(Lines) /\ \A i \in DOMAIN <<Ask(a, kind)>> : <<Ask(a, kind)>>[i].is \in Speaks
  BY <1>1, Said
<1>3. FarShape(<<Ask(a, kind)>>)
  BY <1>2 DEF FarShape, Says
<1>4. FarAsks(<<Ask(a, kind)>>)
  BY DEF FarAsks
<1>5. FarPrompts
  BY DEF FarPrompts, Inbox, Elsewhere
<1> QED BY <1>3, <1>4, <1>5 DEF Far

LEMMA KindsAreFew ==
    ASSUME DriverShape
    PROVE  Kinds \subseteq AskKinds
  BY DEF Kinds, AskKinds, DriverShape

LEMMA CodexWorks ==
    ASSUME Shape,
           \/ \E m \in Msgs : CodexAck(m)
           \/ CodexRead
           \/ \E a \in Asks, kind \in AskKinds : CodexAsks(a, kind)
           \/ \E failed \in BOOLEAN : CodexFinish(failed)
    PROVE  Far
<1>1. /\ provider = "codex" /\ Elsewhere /\ provider' = provider /\ wire' = wire /\ UNCHANGED replies
  BY DEF CodexAck, CodexRead, CodexAsks, CodexFinish, Elsewhere
<1>2. cli \in CodexCliSet /\ Speaks = CodexSpeaks /\ (CliShape' <=> cli' \in CodexCliSet)
  BY <1>1 DEF Shape, CliShape, Speaks
<1>3. ASSUME NEW m \in Msgs, CodexAck(m) PROVE Far
  <2>1. cli' \in CodexCliSet /\ cli'.spent = cli.spent /\ cli'.inbox = cli.inbox
    BY <1>2, <1>3 DEF CodexAck, CodexCliSet
  <2>2. SteerOk(m) \in Lines /\ SteerOk(m).is \in CodexSpeaks \ {"ask"}
    BY LinesSaid DEF SteerOk, CodexSpeaks
  <2>3. <<SteerOk(m)>> \in Seq(Lines) /\ \A i \in DOMAIN <<SteerOk(m)>> : <<SteerOk(m)>>[i].is \in CodexSpeaks \ {"ask"}
    BY <2>2, Said
  <2>4. lines' = lines \o <<SteerOk(m)>> /\ turns' = turns
    BY <1>3 DEF CodexAck, Says
  <2> QED BY <1>1, <1>2, <2>1, <2>3, <2>4, OnlySays
<1>4. ASSUME CodexRead PROVE Far
  <2> DEFINE m == Head(cli.inbox)
             x == [is |-> "item", msg |-> m]
  <2>1. cli.inbox \in Turn /\ cli.inbox # <<>> /\ m \in Msgs /\ Tail(cli.inbox) \in Turn
    <3>1. cli.inbox \in Seq(Msgs) /\ cli.inbox # <<>>
      BY <1>2, <1>4, CodexCliFields DEF Turn, CodexRead
    <3> QED BY <3>1, TailFacts DEF Turn
  <2>2. cli' \in CodexCliSet /\ cli'.spent = cli.spent /\ cli'.inbox = Tail(cli.inbox)
    BY <1>2, <1>4, <2>1 DEF CodexRead, CodexCliSet
  <2>3. x \in Lines /\ x.is \in CodexSpeaks \ {"ask"}
    BY <2>1, LinesSaid DEF CodexSpeaks
  <2>4. <<x>> \in Seq(Lines) /\ \A i \in DOMAIN <<x>> : <<x>>[i].is \in CodexSpeaks \ {"ask"}
    BY <2>3, Said
  <2>5. lines' = lines \o <<x>> /\ Take({m})
    BY <1>4 DEF CodexRead, Says
  <2> HIDE DEF x
  <2>6. FarShape(<<x>>)
    BY <1>1, <1>2, <2>2, <2>4, <2>5 DEF FarShape
  <2>7. FarAsks(<<x>>)
    BY <1>1, <2>2, <2>4 DEF FarAsks
  <2>8. \A n \in Msgs : n \in {m} <=> m \in Carries(n)
    BY <1>1 DEF Carries
  <2>9. turns' = [n \in Msgs |-> IF m \in Carries(n) THEN Once(turns[n]) ELSE turns[n]]
    BY <2>5, <2>8 DEF Take
  <2>10. FarPrompts
    BY <1>1, <2>1, <2>2, <2>9 DEF FarPrompts, Inbox
  <2> QED BY <2>6, <2>7, <2>10 DEF Far
<1>5. ASSUME NEW a \in Asks, NEW kind \in AskKinds, CodexAsks(a, kind) PROVE Far
  <2>1. {a} \in Few(Asks)
    BY FS_Singleton DEF Few
  <2>2. cli' \in CodexCliSet /\ cli'.spent = cli.spent \cup {a} /\ cli'.inbox = cli.inbox
    BY <1>2, <1>5, <2>1 DEF CodexAsks, CodexCliSet
  <2>3. "ask" \in CodexSpeaks
    BY DEF CodexSpeaks
  <2> QED BY <1>1, <1>2, <1>5, <2>2, <2>3, OnlyAsks DEF CodexAsks
<1>6. ASSUME NEW failed \in BOOLEAN, CodexFinish(failed) PROVE Far
  <2>0. CodexEnd(failed) /\ turns' = turns
    BY <1>6 DEF CodexFinish
  <2>1. PICK new \in Seq(Lines) : /\ lines' = lines \o new
                                  /\ \A i \in DOMAIN new : new[i].is \in {"completed", "resolved"}
    BY <1>1, <2>0, CodexEnds
  <2>2. \A i \in DOMAIN new : new[i].is \in Speaks /\ new[i].is # "ask"
    BY <1>2, <2>1 DEF CodexSpeaks
  <2>3. cli' \in CodexCliSet /\ cli'.spent = cli.spent /\ cli'.inbox = <<>>
    BY <1>1, <2>0, CodexEnds
  <2> QED BY <1>1, <1>2, <2>0, <2>1, <2>2, <2>3, OnlySays
<1> QED BY <1>3, <1>4, <1>5, <1>6

-----------------------------------------------------------------------------
LEMMA ClaudeCliFields ==
    ASSUME NEW c \in ClaudeCliSet
    PROVE  /\ c.turn \in BOOLEAN /\ c.inbox \in Seq(Users) /\ c.asked \in Few(Asks) /\ c.spent \subseteq Asks
           /\ c.mute \in BOOLEAN /\ c.erred \in BOOLEAN
  BY DEF ClaudeCliSet

LEMMA UserFrame ==
    ASSUME NEW f \in Frames, f.is = "user"
    PROVE  f \in Users /\ f.msg \in Msgs
  BY DEF Frames, Users

\* What it tells of a message's way.
LEMMA Told ==
    ASSUME NEW what \in {"queued", "taken"}, NEW f \in Users
    PROVE  /\ Tell(what, f) \in Seq(Lines)
           /\ \A i \in DOMAIN Tell(what, f) : Tell(what, f)[i].is \in ClaudeSpeaks \ {"ask"}
<1>1. f.msg \in Msgs /\ [is |-> what, msg |-> f.msg] \in Lines
  <2>1. f.msg \in Msgs
    BY DEF Users
  <2> QED BY <2>1, LinesSaid
<1>2. [is |-> what, msg |-> f.msg].is \in ClaudeSpeaks \ {"ask"}
  BY DEF ClaudeSpeaks
<1>3. /\ <<>> \in Seq(Lines) /\ \A i \in DOMAIN <<>> : <<>>[i].is \in ClaudeSpeaks \ {"ask"}
      /\ <<[is |-> what, msg |-> f.msg]>> \in Seq(Lines)
      /\ \A i \in DOMAIN <<[is |-> what, msg |-> f.msg]>> :
            <<[is |-> what, msg |-> f.msg]>>[i].is \in ClaudeSpeaks \ {"ask"}
  BY <1>1, <1>2, Said
<1> QED BY <1>3 DEF Tell

LEMMA TurnTold ==
    /\ <<[is |-> "turn"]>> \in Seq(Lines)
    /\ \A i \in DOMAIN <<[is |-> "turn"]>> : <<[is |-> "turn"]>>[i].is \in ClaudeSpeaks \ {"ask"}
<1>1. [is |-> "turn"] \in Lines /\ [is |-> "turn"].is \in ClaudeSpeaks \ {"ask"}
  BY LinesSaid DEF ClaudeSpeaks
<1> QED BY <1>1, Said

LEMMA ClaudeServes ==
    ASSUME Shape, ClaudeServe
    PROVE  Far
<1> DEFINE f == Head(wire)
           K == ClaudeSpeaks \ {"ask"}
<1>0. provider = "claude" /\ wire # <<>> /\ wire' = Tail(wire) /\ Elsewhere /\ provider' = provider
  BY DEF ClaudeServe, Elsewhere
<1>1. f \in Frames
  <2>1. wire \in Seq(Frames)
    BY DEF Shape, WayShape
  <2> QED BY <1>0, <2>1, TailFacts
<1>2. cli \in ClaudeCliSet /\ Speaks = ClaudeSpeaks /\ (CliShape' <=> cli' \in ClaudeCliSet)
  BY <1>0 DEF Shape, CliShape, Speaks
<1>3. \/ /\ f.is = "user" /\ UNCHANGED replies
         /\ cli' = [cli EXCEPT !.turn = TRUE]
         /\ Says(Tell("queued", f) \o <<[is |-> "turn"]>> \o Tell("taken", f))
         /\ Take({f.msg})
      \/ /\ f.is = "user" /\ UNCHANGED <<turns, replies>>
         /\ cli' = [cli EXCEPT !.inbox = Append(@, f)]
         /\ Says(Tell("queued", f))
      \/ /\ f.is = "interrupt" /\ UNCHANGED <<turns, replies>>
         /\ cli' = [cli EXCEPT !.turn = FALSE, !.asked = {}]
         /\ Says(IF cli.turn THEN <<ResultLine("stopped")>> ELSE <<>>)
      \/ /\ f.is = "reply" /\ UNCHANGED <<lines, turns>>
         /\ cli' = [cli EXCEPT !.asked = @ \ {f.ask}]
         /\ Answered(f.ask)
  BY DEF ClaudeServe
<1> HIDE DEF f, K
<1>4. CASE /\ f.is = "user" /\ UNCHANGED replies
           /\ cli' = [cli EXCEPT !.turn = TRUE]
           /\ Says(Tell("queued", f) \o <<[is |-> "turn"]>> \o Tell("taken", f))
           /\ Take({f.msg})
  <2> DEFINE x == Tell("queued", f)
             y == <<[is |-> "turn"]>>
             z == Tell("taken", f)
             new == (x \o y) \o z
  <2>1. f \in Users
    BY <1>1, <1>4, UserFrame
  <2>2. /\ x \in Seq(Lines) /\ (\A i \in DOMAIN x : x[i].is \in K)
        /\ y \in Seq(Lines) /\ (\A i \in DOMAIN y : y[i].is \in K)
        /\ z \in Seq(Lines) /\ (\A i \in DOMAIN z : z[i].is \in K)
    BY <2>1, Told, TurnTold DEF K
  <2>3. lines' = lines \o new
    BY <1>4 DEF Says
  <2> HIDE DEF x, y, z
  <2>4. x \o y \in Seq(Lines) /\ \A i \in DOMAIN (x \o y) : (x \o y)[i].is \in K
    BY <2>2, Said
  <2>5. new \in Seq(Lines) /\ \A i \in DOMAIN new : new[i].is \in K
    BY <2>2, <2>4, Said
  <2> HIDE DEF new
  <2>6. cli' \in ClaudeCliSet /\ cli'.spent = cli.spent /\ cli'.inbox = cli.inbox
    BY <1>2, <1>4 DEF ClaudeCliSet
  <2>7. FarShape(new)
    BY <1>0, <1>2, <2>3, <2>5, <2>6 DEF FarShape, K
  <2>8. FarAsks(new)
    BY <1>4, <2>5, <2>6 DEF FarAsks, K
  <2>9. turns' = [m \in Msgs |-> IF m \in Taken(f) THEN Once(turns[m]) ELSE turns[m]]
    BY <1>1, <1>4, TakeIs, FrameTaken
  <2>10. FarPrompts
    BY <1>0, <2>6, <2>9 DEF FarPrompts, Inbox, f
  <2> QED BY <2>7, <2>8, <2>10 DEF Far
<1>5. CASE /\ f.is = "user" /\ UNCHANGED <<turns, replies>>
           /\ cli' = [cli EXCEPT !.inbox = Append(@, f)]
           /\ Says(Tell("queued", f))
  <2> DEFINE new == Tell("queued", f)
  <2>1. f \in Users
    BY <1>1, <1>5, UserFrame
  <2>2. new \in Seq(Lines) /\ (\A i \in DOMAIN new : new[i].is \in K) /\ lines' = lines \o new
    BY <1>5, <2>1, Told DEF K, Says
  <2> HIDE DEF new
  <2>3. Append(cli.inbox, f) \in Seq(Users)
    BY <1>2, <2>1, ClaudeCliFields
  <2>4. cli' \in ClaudeCliSet /\ cli'.spent = cli.spent /\ cli'.inbox = Append(cli.inbox, f)
    BY <1>2, <1>5, <2>3 DEF ClaudeCliSet
  <2>5. FarShape(new)
    BY <1>0, <1>2, <2>2, <2>4 DEF FarShape, K
  <2>6. FarAsks(new)
    BY <1>5, <2>2, <2>4 DEF FarAsks, K
  <2>7. \A m \in Msgs : f \in Carries(m) <=> Brings(f, m)
    BY <1>0, <1>5, <2>1 DEF Carries, Brings
  <2>8. FarPrompts
    BY <1>0, <1>5, <2>1, <2>4, <2>7 DEF FarPrompts, Inbox, f
  <2> QED BY <2>5, <2>6, <2>8 DEF Far
<1>6. CASE /\ f.is = "interrupt" /\ UNCHANGED <<turns, replies>>
           /\ cli' = [cli EXCEPT !.turn = FALSE, !.asked = {}]
           /\ Says(IF cli.turn THEN <<ResultLine("stopped")>> ELSE <<>>)
  <2> DEFINE new == IF cli.turn THEN <<ResultLine("stopped")>> ELSE <<>>
  <2>1. ResultLine("stopped") \in Lines /\ ResultLine("stopped").is \in K
    <3>1. "stopped" \in Outcomes
      BY DEF Outcomes
    <3> QED BY <3>1, LinesSaid DEF ResultLine, ClaudeSpeaks, K
  <2>2. new \in Seq(Lines) /\ (\A i \in DOMAIN new : new[i].is \in K) /\ lines' = lines \o new
    BY <1>6, <2>1, Said DEF Says
  <2> HIDE DEF new
  <2>3. {} \in Few(Asks)
    BY <1>2, ClaudeCliFields, FewFacts
  <2>4. cli' \in ClaudeCliSet /\ cli'.spent = cli.spent /\ cli'.inbox = cli.inbox
    BY <1>2, <1>6, <2>3 DEF ClaudeCliSet
  <2> QED BY <1>0, <1>2, <1>6, <2>2, <2>4, OnlySays DEF K
<1>7. CASE /\ f.is = "reply" /\ UNCHANGED <<lines, turns>>
           /\ cli' = [cli EXCEPT !.asked = @ \ {f.ask}]
           /\ Answered(f.ask)
  <2>1. f.ask \in Asks /\ f = Reply(f.ask)
    BY <1>1, <1>7, FrameFields
  <2>2. cli.asked \ {f.ask} \in Few(Asks)
    BY <1>2, ClaudeCliFields, FewFacts
  <2>3. cli' \in ClaudeCliSet /\ cli'.spent = cli.spent /\ cli'.inbox = cli.inbox
    BY <1>2, <1>7, <2>2 DEF ClaudeCliSet
  <2>4. <<>> \in Seq(Lines) /\ (\A i \in DOMAIN <<>> : <<>>[i].is \in ClaudeSpeaks)
    BY Said
  <2>5. lines' = lines \o <<>>
    BY <1>7 DEF Shape, WayShape
  <2>6. FarShape(<<>>)
    BY <1>0, <1>2, <2>3, <2>4, <2>5 DEF FarShape
  <2>7. FarAsks(<<>>)
    BY <1>0, <1>7, <2>1, <2>3 DEF FarAsks, Answered, f
  <2>8. FarPrompts
    BY <1>0, <1>7, <2>3 DEF FarPrompts, Inbox
  <2> QED BY <2>6, <2>7, <2>8 DEF Far
<1> QED BY <1>3, <1>4, <1>5, <1>6, <1>7

LEMMA ClaudeWorks ==
    ASSUME Shape,
           \/ ClaudeFold
           \/ ClaudeNextTurn
           \/ ClaudeError
           \/ \E a \in Asks, kind \in AskKinds : ClaudeAsks(a, kind)
           \/ \E how \in Outcomes : ClaudeFinish(how)
    PROVE  Far
<1> DEFINE K == ClaudeSpeaks \ {"ask"}
<1>1. /\ provider = "claude" /\ Elsewhere /\ provider' = provider /\ wire' = wire /\ UNCHANGED replies
  BY DEF ClaudeFold, ClaudeNextTurn, ClaudeError, ClaudeAsks, ClaudeFinish, Elsewhere
<1>2. cli \in ClaudeCliSet /\ Speaks = ClaudeSpeaks /\ (CliShape' <=> cli' \in ClaudeCliSet)
  BY <1>1 DEF Shape, CliShape, Speaks
<1>3. ASSUME NEW new \in Seq(Lines), \A i \in DOMAIN new : new[i].is \in K, lines' = lines \o new,
             cli.inbox # <<>>, cli' \in ClaudeCliSet, cli'.spent = cli.spent,
             cli'.inbox = Tail(cli.inbox), Take({Head(cli.inbox).msg})
      PROVE  Far
  <2> DEFINE f == Head(cli.inbox)
  <2>1. f \in Users /\ f.msg \in Msgs
    <3>1. cli.inbox \in Seq(Users)
      BY <1>2, ClaudeCliFields
    <3>2. f \in Users
      BY <1>3, <3>1, TailFacts
    <3> QED BY <3>2 DEF Users
  <2>2. \A n \in Msgs : n \in {f.msg} <=> f \in Carries(n)
    BY <1>1, <2>1 DEF Carries
  <2>3. turns' = [n \in Msgs |-> IF f \in Carries(n) THEN Once(turns[n]) ELSE turns[n]]
    BY <1>3, <2>2 DEF Take
  <2>4. FarShape(new)
    BY <1>1, <1>2, <1>3 DEF FarShape
  <2>5. FarAsks(new)
    BY <1>1, <1>3 DEF FarAsks
  <2>6. FarPrompts
    BY <1>1, <1>3, <2>3 DEF FarPrompts, Inbox
  <2> QED BY <2>4, <2>5, <2>6 DEF Far
<1>4. cli.inbox # <<>> => Head(cli.inbox) \in Users /\ Tail(cli.inbox) \in Seq(Users)
  <2>1. cli.inbox \in Seq(Users)
    BY <1>2, ClaudeCliFields
  <2> QED BY <2>1, TailFacts
<1>5. ASSUME ClaudeFold PROVE Far
  <2> DEFINE new == Tell("taken", Head(cli.inbox))
  <2>1. new \in Seq(Lines) /\ \A i \in DOMAIN new : new[i].is \in K
    BY <1>4, <1>5, Told DEF ClaudeFold
  <2>2. lines' = lines \o new /\ cli.inbox # <<>> /\ Take({Head(cli.inbox).msg})
    BY <1>5 DEF ClaudeFold, Says
  <2> HIDE DEF new, K
  <2>3. cli' \in ClaudeCliSet /\ cli'.spent = cli.spent /\ cli'.inbox = Tail(cli.inbox)
    BY <1>2, <1>4, <1>5 DEF ClaudeFold, ClaudeCliSet
  <2> QED BY <1>3, <2>1, <2>2, <2>3
<1>6. ASSUME ClaudeNextTurn PROVE Far
  <2> DEFINE y == <<[is |-> "turn"]>>
             z == Tell("taken", Head(cli.inbox))
             new == y \o z
  <2>1. /\ y \in Seq(Lines) /\ \A i \in DOMAIN y : y[i].is \in K
        /\ z \in Seq(Lines) /\ \A i \in DOMAIN z : z[i].is \in K
    BY <1>4, <1>6, Told, TurnTold DEF ClaudeNextTurn
  <2>2. lines' = lines \o new /\ cli.inbox # <<>> /\ Take({Head(cli.inbox).msg})
    BY <1>6 DEF ClaudeNextTurn, Says
  <2> HIDE DEF y, z, K
  <2>3. new \in Seq(Lines) /\ \A i \in DOMAIN new : new[i].is \in K
    BY <2>1, Said
  <2> HIDE DEF new
  <2>4. cli' \in ClaudeCliSet /\ cli'.spent = cli.spent /\ cli'.inbox = Tail(cli.inbox)
    BY <1>2, <1>4, <1>6 DEF ClaudeNextTurn, ClaudeCliSet
  <2> QED BY <1>3, <2>2, <2>3, <2>4
<1>7. ASSUME NEW x \in Lines, x.is \in K, Says(<<x>>), cli' \in ClaudeCliSet,
             cli'.spent = cli.spent, cli'.inbox = cli.inbox, turns' = turns
      PROVE  Far
  <2>1. <<x>> \in Seq(Lines) /\ \A i \in DOMAIN <<x>> : <<x>>[i].is \in K
    <3> HIDE DEF K
    <3> QED BY <1>7, Said
  <2> QED BY <1>1, <1>2, <1>7, <2>1, OnlySays DEF Says
<1>8. ASSUME ClaudeError PROVE Far
  <2>1. [is |-> "error"] \in Lines /\ [is |-> "error"].is \in K
    BY LinesSaid DEF ClaudeSpeaks
  <2>2. cli' \in ClaudeCliSet /\ cli'.spent = cli.spent /\ cli'.inbox = cli.inbox
    BY <1>2, <1>8 DEF ClaudeError, ClaudeCliSet
  <2>3. Says(<<[is |-> "error"]>>) /\ turns' = turns
    BY <1>8 DEF ClaudeError
  <2> HIDE DEF K
  <2> QED BY <1>7, <2>1, <2>2, <2>3
<1>9. ASSUME NEW how \in Outcomes, ClaudeFinish(how) PROVE Far
  <2>1. ResultLine(how) \in Lines /\ ResultLine(how).is \in K
    BY LinesSaid DEF ClaudeSpeaks, ResultLine
  <2>2. cli' \in ClaudeCliSet /\ cli'.spent = cli.spent /\ cli'.inbox = cli.inbox
    BY <1>2, <1>9 DEF ClaudeFinish, ClaudeCliSet
  <2>3. Says(<<ResultLine(how)>>) /\ turns' = turns
    BY <1>9 DEF ClaudeFinish
  <2> HIDE DEF K
  <2> QED BY <1>7, <2>1, <2>2, <2>3
<1>10. ASSUME NEW a \in Asks, NEW kind \in AskKinds, ClaudeAsks(a, kind) PROVE Far
  <2>1. {a} \in Few(Asks)
    BY FS_Singleton DEF Few
  <2>2. cli' \in ClaudeCliSet /\ cli'.spent = cli.spent \cup {a} /\ cli'.inbox = cli.inbox
    BY <1>2, <1>10, <2>1 DEF ClaudeAsks, ClaudeCliSet
  <2>3. "ask" \in ClaudeSpeaks
    BY DEF ClaudeSpeaks
  <2> QED BY <1>1, <1>2, <1>10, <2>2, <2>3, OnlyAsks DEF ClaudeAsks
<1> QED BY <1>5, <1>6, <1>8, <1>9, <1>10

-----------------------------------------------------------------------------
LEMMA CursorCliFields ==
    ASSUME NEW c \in CursorCliSet
    PROVE  /\ c.turn \in Turn \cup {None} /\ c.asked \in Few(Asks) /\ c.spent \subseteq Asks
  BY DEF CursorCliSet

LEMMA CursorServes ==
    ASSUME Shape, CursorServe
    PROVE  Far
<1> DEFINE f == Head(wire)
           K == CursorSpeaks \ {"ask"}
<1>0. provider = "cursor" /\ wire # <<>> /\ wire' = Tail(wire) /\ Elsewhere /\ provider' = provider
  BY DEF CursorServe, Elsewhere
<1>1. f \in Frames
  <2>1. wire \in Seq(Frames)
    BY DEF Shape, WayShape
  <2> QED BY <1>0, <2>1, TailFacts
<1>2. cli \in CursorCliSet /\ Speaks = CursorSpeaks /\ (CliShape' <=> cli' \in CursorCliSet)
  BY <1>0 DEF Shape, CliShape, Speaks
<1>3. \/ /\ f.is \in {"init", "auth", "open"} /\ UNCHANGED <<cli, turns, replies>>
         /\ \E ok \in BOOLEAN : Says(<<[is |-> f.is, ok |-> ok]>>)
      \/ /\ f.is = "prompt" /\ UNCHANGED <<lines, replies>>
         /\ cli' = [cli EXCEPT !.turn = f.msgs]
         /\ Take(ToSet(f.msgs))
      \/ /\ f.is = "prompt" /\ UNCHANGED <<cli, turns, replies>>
         /\ Says(<<PromptReply(f.msgs, FALSE)>>)
      \/ /\ f.is = "interrupt" /\ UNCHANGED <<turns, replies>>
         /\ cli' = [cli EXCEPT !.turn = None, !.asked = {}]
         /\ Says(IF cli.turn = None THEN <<>> ELSE <<PromptReply(cli.turn, TRUE)>>)
      \/ /\ f.is = "reply" /\ UNCHANGED <<lines, turns>>
         /\ cli' = [cli EXCEPT !.asked = @ \ {f.ask}]
         /\ Answered(f.ask)
  BY DEF CursorServe
<1> HIDE DEF f, K
<1>4. <<>> \in Seq(Lines) /\ (\A i \in DOMAIN <<>> : <<>>[i].is \in K) /\ lines \o <<>> = lines
  BY Said DEF Shape, WayShape
<1>5. ASSUME NEW x \in Lines, x.is \in K, Says(<<x>>), cli' \in CursorCliSet,
             cli'.spent = cli.spent, turns' = turns, replies' = replies
      PROVE  Far
  <2>1. <<x>> \in Seq(Lines) /\ \A i \in DOMAIN <<x>> : <<x>>[i].is \in K
    BY <1>5, Said
  <2> QED BY <1>0, <1>2, <1>5, <2>1, OnlySays DEF Says, K
<1>6. CASE /\ f.is \in {"init", "auth", "open"} /\ UNCHANGED <<cli, turns, replies>>
           /\ \E ok \in BOOLEAN : Says(<<[is |-> f.is, ok |-> ok]>>)
  <2>1. PICK ok \in BOOLEAN : Says(<<[is |-> f.is, ok |-> ok]>>)
    BY <1>6
  <2>2. [is |-> f.is, ok |-> ok] \in Lines /\ [is |-> f.is, ok |-> ok].is \in K
    BY <1>6, LinesSaid DEF K, CursorSpeaks
  <2> QED BY <1>2, <1>5, <1>6, <2>1, <2>2
<1>7. CASE /\ f.is = "prompt" /\ UNCHANGED <<lines, replies>>
           /\ cli' = [cli EXCEPT !.turn = f.msgs]
           /\ Take(ToSet(f.msgs))
  <2>1. f.msgs \in Turn
    BY <1>1, <1>7, FrameFields
  <2>2. cli' \in CursorCliSet /\ cli'.spent = cli.spent
    BY <1>2, <1>7, <2>1 DEF CursorCliSet
  <2>3. turns' = [m \in Msgs |-> IF m \in Taken(f) THEN Once(turns[m]) ELSE turns[m]]
    BY <1>1, <1>7, TakeIs, FrameTaken
  <2>4. FarShape(<<>>)
    BY <1>0, <1>2, <1>4, <1>7, <2>2 DEF FarShape, K
  <2>5. FarAsks(<<>>)
    BY <1>4, <1>7, <2>2 DEF FarAsks, K
  <2>6. FarPrompts
    BY <1>0, <2>3 DEF FarPrompts, Inbox, f
  <2> QED BY <2>4, <2>5, <2>6 DEF Far
<1>8. CASE /\ f.is = "prompt" /\ UNCHANGED <<cli, turns, replies>>
           /\ Says(<<PromptReply(f.msgs, FALSE)>>)
  <2>1. f.msgs \in Turn
    BY <1>1, <1>8, FrameFields
  <2>2. PromptReply(f.msgs, FALSE) \in Lines /\ PromptReply(f.msgs, FALSE).is \in K
    BY <2>1, LinesSaid DEF K, CursorSpeaks, PromptReply
  <2> QED BY <1>2, <1>5, <1>8, <2>2
<1>9. CASE /\ f.is = "interrupt" /\ UNCHANGED <<turns, replies>>
           /\ cli' = [cli EXCEPT !.turn = None, !.asked = {}]
           /\ Says(IF cli.turn = None THEN <<>> ELSE <<PromptReply(cli.turn, TRUE)>>)
  <2>1. {} \in Few(Asks)
    BY <1>2, CursorCliFields, FewFacts
  <2>2. cli' \in CursorCliSet /\ cli'.spent = cli.spent
    BY <1>2, <1>9, <2>1 DEF CursorCliSet
  <2>3. CASE cli.turn = None
    BY <1>0, <1>2, <1>4, <1>9, <2>2, <2>3, OnlySays DEF K, Says
  <2>4. CASE cli.turn # None
    <3>1. cli.turn \in Turn
      BY <1>2, <2>4, CursorCliFields
    <3>2. PromptReply(cli.turn, TRUE) \in Lines /\ PromptReply(cli.turn, TRUE).is \in K
      BY <3>1, LinesSaid DEF K, CursorSpeaks, PromptReply
    <3> QED BY <1>5, <1>9, <2>2, <2>4, <3>2
  <2> QED BY <2>3, <2>4
<1>10. CASE /\ f.is = "reply" /\ UNCHANGED <<lines, turns>>
            /\ cli' = [cli EXCEPT !.asked = @ \ {f.ask}]
            /\ Answered(f.ask)
  <2>1. f.ask \in Asks /\ f = Reply(f.ask)
    BY <1>1, <1>10, FrameFields
  <2>2. cli.asked \ {f.ask} \in Few(Asks)
    BY <1>2, CursorCliFields, FewFacts
  <2>3. cli' \in CursorCliSet /\ cli'.spent = cli.spent
    BY <1>2, <1>10, <2>2 DEF CursorCliSet
  <2>4. FarShape(<<>>)
    BY <1>0, <1>2, <1>4, <1>10, <2>3 DEF FarShape, K
  <2>5. FarAsks(<<>>)
    BY <1>0, <1>10, <2>1, <2>3 DEF FarAsks, Answered, f
  <2>6. FarPrompts
    BY <1>0, <1>10 DEF FarPrompts, Inbox
  <2> QED BY <2>4, <2>5, <2>6 DEF Far
<1> QED BY <1>3, <1>6, <1>7, <1>8, <1>9, <1>10

LEMMA CursorWorks ==
    ASSUME Shape,
           \/ \E a \in Asks, kind \in AskKinds : CursorAsks(a, kind)
           \/ \E ok \in BOOLEAN : CursorFinish(ok)
    PROVE  Far
<1>1. /\ provider = "cursor" /\ Elsewhere /\ provider' = provider /\ wire' = wire /\ UNCHANGED <<turns, replies>>
  BY DEF CursorAsks, CursorFinish, Elsewhere
<1>2. cli \in CursorCliSet /\ Speaks = CursorSpeaks /\ (CliShape' <=> cli' \in CursorCliSet)
  BY <1>1 DEF Shape, CliShape, Speaks
<1>3. ASSUME NEW a \in Asks, NEW kind \in AskKinds, CursorAsks(a, kind) PROVE Far
  <2>1. {a} \in Few(Asks)
    BY FS_Singleton DEF Few
  <2>2. cli' \in CursorCliSet /\ cli'.spent = cli.spent \cup {a}
    BY <1>2, <1>3, <2>1 DEF CursorAsks, CursorCliSet
  <2>3. "ask" \in CursorSpeaks
    BY DEF CursorSpeaks
  <2> QED BY <1>1, <1>2, <1>3, <2>2, <2>3, OnlyAsks DEF CursorAsks
<1>4. ASSUME NEW ok \in BOOLEAN, CursorFinish(ok) PROVE Far
  <2> DEFINE x == PromptReply(cli.turn, ok)
  <2>1. cli.turn \in Turn
    BY <1>2, <1>4, CursorCliFields DEF CursorFinish
  <2>2. x \in Lines /\ x.is \in CursorSpeaks \ {"ask"}
    BY <2>1, LinesSaid DEF CursorSpeaks, PromptReply
  <2>3. lines' = lines \o <<x>>
    BY <1>4 DEF CursorFinish, Says
  <2> HIDE DEF x
  <2>4. <<x>> \in Seq(Lines) /\ \A i \in DOMAIN <<x>> : <<x>>[i].is \in CursorSpeaks \ {"ask"}
    BY <2>2, Said
  <2>5. cli' \in CursorCliSet /\ cli'.spent = cli.spent
    BY <1>2, <1>4 DEF CursorFinish, CursorCliSet
  <2> QED BY <1>1, <1>2, <2>3, <2>4, <2>5, OnlySays
<1> QED BY <1>3, <1>4

-----------------------------------------------------------------------------
(* What a Codex driver writes: a steer names the turn that is active and   *)
(* is waited for; a turn is started with messages, and none of a steer's.  *)

Unfit(active, c, new) ==
    {x \in Steps :
        /\ x.do = "write"
        /\ \/ /\ x.it.is = "turn/steer"
              /\ \/ x.it.msg \notin new \/ x.it.msg \notin c.unanswered
                 \/ active = None \/ x.it.turn # active
           \/ /\ x.it.is # "turn/steer"
              /\ \/ \E m \in c.steers : Brings(x.it, m)
                 \/ x.it.is \in {"turn/start", "compact"} /\ x.it.msgs = <<>>}

CodexWrites(d, r, new) ==
    Lacks(r.steps, Unfit(d.active, r.drv, new)) /\ r.drv.steers \subseteq d.steers \cup new

\* Steps that are fit whatever the driver.
LEMMA FitSteps ==
    ASSUME NEW active, NEW c, NEW new
    PROVE  LET U == Unfit(active, c, new)
           IN  /\ Lacks(<<>>, U)
               /\ \A x \in Steps : x.do = "emit" => Lacks(<<x>>, U)
               /\ \A a \in Asks : Lacks(<<Write(Reply(a))>>, U)
               /\ \A turn \in Turn \cup {None} : Lacks(<<Write(Interrupt(turn))>>, U)
               /\ \A is \in {"init", "open", "auth"} : Lacks(<<Write([is |-> is])>>, U)
               /\ \A ms \in Turn : ms # <<>> /\ ToSet(ms) \cap c.steers = {}
                     => /\ Lacks(<<Write(TurnStart(ms))>>, U)
                        /\ Lacks(<<Write([is |-> "compact", msgs |-> ms])>>, U)
<1> DEFINE U == Unfit(active, c, new)
<1>1. \A x \in Steps : x.do = "emit" => x \notin U
  BY DEF Unfit
<1>2. \A a \in Asks : Write(Reply(a)) \notin U
  BY DEF Unfit, Write, Reply, Brings
<1>3. \A turn \in Turn \cup {None} : Write(Interrupt(turn)) \notin U
  BY DEF Unfit, Write, Interrupt, Brings
<1>4. \A is \in {"init", "open", "auth"} : Write([is |-> is]) \notin U
  BY DEF Unfit, Write, Brings
<1>5. \A ms \in Turn : ms # <<>> /\ ToSet(ms) \cap c.steers = {} =>
          Write(TurnStart(ms)) \notin U /\ Write([is |-> "compact", msgs |-> ms]) \notin U
  BY DEF Unfit, Write, TurnStart, Brings
<1> HIDE DEF U
<1>6. \A x : x \notin U => Lacks(<<x>>, U)
  BY DEF Lacks
<1>7. Lacks(<<>>, U)
  BY DEF Lacks
<1> QED BY <1>1, <1>2, <1>3, <1>4, <1>5, <1>6, <1>7 DEF U

LEMMA FitEchoes ==
    ASSUME NEW active, NEW c, NEW new, NEW ms \in Turn
    PROVE  Lacks(Echoes(ms), Unfit(active, c, new))
  BY DEF Lacks, Echoes, Echo, Emit, Unfit

LEMMA FitDismiss ==
    ASSUME NEW active, NEW c, NEW new, NEW as
    PROVE  Lacks(Dismiss(as), Unfit(active, c, new))
<1> DEFINE s == SetToSeq(as)
           D == Dismiss(as)
<1>1. \A i \in DOMAIN D : \/ D[i] = Write(Reply(s[(i + 1) \div 2]))
                          \/ D[i] = Settled(s[i \div 2])
  BY DEF Dismiss
<1> HIDE DEF D, s
<1>2. \A a : Write(Reply(a)) \notin Unfit(active, c, new) /\ Settled(a) \notin Unfit(active, c, new)
  BY DEF Unfit, Write, Reply, Settled, Emit, Brings
<1> QED BY <1>1, <1>2 DEF Lacks, D

LEMMA FlushWrites ==
    ASSUME NEW d \in CodexDrv, CodexNeat(d)
    PROVE  LET r == CodexFlush(d)
           IN  /\ CodexWrites(d, r, {}) /\ r.steps \in Seq(Steps)
               /\ r.drv.steers = d.steers /\ r.drv.active = d.active /\ r.drv.unanswered = d.unanswered
<1> DEFINE r == CodexFlush(d)
<1>1. CASE d.carried = <<>> \/ d.active # None \/ d.startId # None
  <2>1. r = Result(d, <<>>)
    BY <1>1 DEF CodexFlush
  <2>2. r.drv = d /\ r.steps = <<>>
    BY <2>1 DEF Result
  <2> HIDE DEF r
  <2> QED BY <2>2, FitSteps DEF CodexWrites, r
<1>2. CASE ~(d.carried = <<>> \/ d.active # None \/ d.startId # None)
  <2> DEFINE c == [d EXCEPT !.carried = <<>>, !.startId = d.carried]
             s == Echoes(d.carried)
             u == <<Write(TurnStart(d.carried))>>
  <2>1. r.drv = c /\ r.steps = s \o u
    BY <1>2 DEF CodexFlush, CodexFrame, Result, CodexDrv
  <2>2. c.steers = d.steers /\ c.active = d.active /\ c.unanswered = d.unanswered
    BY DEF CodexDrv
  <2>3. d.carried \in Turn /\ d.carried # <<>> /\ ToSet(d.carried) \cap d.steers = {}
    BY <1>2, CodexFields DEF CodexNeat
  <2>4. s \in Seq(Steps) /\ u \in Seq(Steps)
    BY <2>3, BearsEchoes, BearsWrites DEF CodexNeat, Bears
  <2>5. Lacks(s, Unfit(d.active, c, {}))
    BY <2>3, FitEchoes
  <2>6. Lacks(u, Unfit(d.active, c, {}))
    <3> HIDE DEF c
    <3> QED BY <2>2, <2>3, FitSteps
  <2> HIDE DEF c, s, u, r
  <2>7. Lacks(s \o u, Unfit(d.active, c, {})) /\ s \o u \in Seq(Steps)
    BY <2>4, <2>5, <2>6, LacksFacts
  <2> QED BY <2>1, <2>2, <2>7 DEF CodexWrites, r
<1> QED BY <1>1, <1>2

LEMMA CallWrites ==
    ASSUME NEW d \in CodexDrv, CodexNeat(d), NEW m \in Msgs, m \notin CodexKnows(d), NEW how
    PROVE  LET r == CodexCall(d, m, how)
           IN  /\ CodexWrites(d, r, {m})
               /\ r.drv.active = d.active /\ d.unanswered \subseteq r.drv.unanswered
<1> DEFINE r == CodexCall(d, m, how)
<1>0. d.active \in Turn \cup {None} /\ <<m>> \in Turn /\ ToSet(<<m>>) = {m} /\ <<m>> # <<>> /\ m \notin d.steers
  BY CodexFields, OneMessage DEF CodexKnows
<1>1. CASE d.active # None /\ r = CodexSteer(d, m)
  <2> DEFINE c == [d EXCEPT !.steers = @ \cup {m}, !.unanswered = @ \cup {m}]
             x == Write(TurnSteer(m, d.active))
  <2>1. r.drv = c /\ r.steps = <<x>>
    BY <1>1 DEF CodexSteer, Result
  <2>2. c.steers = d.steers \cup {m} /\ c.active = d.active /\ c.unanswered = d.unanswered \cup {m}
    BY DEF CodexDrv
  <2> HIDE DEF c, r
  <2>3. x \notin Unfit(d.active, c, {m})
    BY <1>1, <2>2 DEF Unfit, Write, TurnSteer
  <2>4. Lacks(<<x>>, Unfit(d.active, c, {m}))
    BY <2>3 DEF Lacks
  <2> QED BY <2>1, <2>2, <2>4 DEF CodexWrites, r
<1>2. CASE d.phase = "ready" /\ d.active = None
  <2> DEFINE w == IF m \in Compacts THEN [is |-> "compact", msgs |-> <<m>>] ELSE TurnStart(<<m>>)
             c == IF m \in Compacts THEN d ELSE [d EXCEPT !.startId = <<m>>]
             s == <<Echo(m)>>
             u == <<Write(w)>>
  <2>1. r.drv = c /\ r.steps = s \o u
    BY <1>2 DEF CodexCall, CodexSend, CodexFrame, Result
  <2>2. c.steers = d.steers /\ c.active = d.active /\ c.unanswered = d.unanswered
    BY DEF CodexDrv
  <2>3. s \in Seq(Steps) /\ u \in Seq(Steps) /\ Echo(m).do = "emit" /\ Echo(m) \in Steps
    BY <1>0, WritesAreSteps, EmitsAreSteps DEF Echo, Emit
  <2> HIDE DEF c, r
  <2>4. Lacks(s, Unfit(d.active, c, {m}))
    BY <2>3, FitSteps
  <2>5. Lacks(u, Unfit(d.active, c, {m}))
    BY <1>0, <2>2, FitSteps
  <2> HIDE DEF s, u
  <2>6. Lacks(s \o u, Unfit(d.active, c, {m}))
    BY <2>3, <2>4, <2>5, LacksFacts
  <2> QED BY <2>1, <2>2, <2>6 DEF CodexWrites, r
<1>3. CASE d.phase # "ready" /\ r = Result([d EXCEPT !.queued = Append(@, m)], <<Echo(m)>>)
  <2> DEFINE c == [d EXCEPT !.queued = Append(@, m)]
  <2>1. r.drv = c /\ r.steps = <<Echo(m)>>
    BY <1>3 DEF Result
  <2>2. c.steers = d.steers /\ c.active = d.active /\ c.unanswered = d.unanswered
    BY DEF CodexDrv
  <2> HIDE DEF c, r
  <2>3. Echo(m) \in Steps /\ Echo(m).do = "emit"
    BY EmitsAreSteps DEF Echo, Emit
  <2> QED BY <2>1, <2>2, <2>3, FitSteps DEF CodexWrites, r
<1> QED
  <2>1. CASE d.active # None /\ (how = "steer" \/ d.phase = "ready")
    BY <1>1, <2>1 DEF CodexCall, CodexSend
  <2>2. CASE d.phase # "ready" /\ ~(how = "steer" /\ d.active # None)
    BY <1>3, <2>2 DEF CodexCall, CodexSend
  <2> QED BY <1>2, <2>1, <2>2

\* An answer, a stop and a close only answer and interrupt.
LEMMA StopWrites ==
    ASSUME NEW d \in CodexDrv, CodexNeat(d), NEW r,
           r \in {CodexInterrupt(d), CodexAbandon(d)} \/ \E a \in Asks : r = CodexAnswer(d, a)
    PROVE  /\ CodexWrites(d, r, {})
           /\ r.drv.steers = d.steers /\ r.drv.active = d.active /\ d.unanswered = r.drv.unanswered
<1>1. ASSUME NEW c, c \in CodexDrv, c.steers = d.steers, c.active = d.active, c.unanswered = d.unanswered,
             NEW s, r = Result(c, s), Lacks(s, Unfit(d.active, c, {}))
      PROVE  /\ CodexWrites(d, r, {})
             /\ r.drv.steers = d.steers /\ r.drv.active = d.active /\ d.unanswered = r.drv.unanswered
  <2>1. r.drv = c /\ r.steps = s
    BY <1>1 DEF Result
  <2> QED BY <1>1, <2>1 DEF CodexWrites
<1>0. d.pending \in Few(Asks) /\ {} \in Few(Asks) /\ d.active \in Turn \cup {None}
      /\ \A R : d.pending \ R \in Few(Asks)
  BY CodexFields, FewFacts
<1>2. CASE r = Result(d, <<>>)
  BY <1>1, <1>2, FitSteps
<1>3. ASSUME NEW a \in Asks, r = CodexAnswer(d, a), a \in d.pending
      PROVE  /\ CodexWrites(d, r, {})
             /\ r.drv.steers = d.steers /\ r.drv.active = d.active /\ d.unanswered = r.drv.unanswered
  <2> DEFINE c == [d EXCEPT !.pending = @ \ {a}]
             s == <<Write(Reply(a))>>
             u == <<Settled(a)>>
  <2>1. r = Result(c, s \o u)
    <3>1. <<Write(Reply(a)), Settled(a)>> = s \o u
      OBVIOUS
    <3> QED BY <1>3, <3>1 DEF CodexAnswer
  <2>2. c \in CodexDrv /\ c.steers = d.steers /\ c.active = d.active /\ c.unanswered = d.unanswered
    BY <1>0 DEF CodexDrv
  <2>3. s \in Seq(Steps) /\ u \in Seq(Steps) /\ Settled(a).do = "emit" /\ Settled(a) \in Steps
    BY WritesAreSteps, EmitsAreSteps DEF Settled, Emit
  <2>4. Lacks(s, Unfit(d.active, c, {})) /\ Lacks(u, Unfit(d.active, c, {}))
    BY <2>3, FitSteps
  <2> HIDE DEF c, s, u
  <2>5. Lacks(s \o u, Unfit(d.active, c, {}))
    BY <2>3, <2>4, LacksFacts
  <2> QED BY <1>1, <2>1, <2>2, <2>5
<1>4. CASE r = CodexInterrupt(d) /\ d.active # None
  <2> DEFINE as == d.pending \cap d.elicitations
             c == [d EXCEPT !.pending = @ \ as]
             s == Dismiss(as)
             u == <<Write(Interrupt(d.active))>>
  <2>1. as \subseteq Asks /\ IsFiniteSet(as)
    <3>1. as \in Few(Asks)
      BY <1>0, FewFacts
    <3> QED BY <3>1 DEF Few
  <2>2. s \in Seq(Steps) /\ u \in Seq(Steps)
    BY <1>0, <2>1, BearsDismiss, WritesAreSteps DEF Bears
  <2>3. r = Result(c, s \o u)
    <3>1. Append(s, Write(Interrupt(d.active))) = s \o u
      BY <2>2
    <3> QED BY <1>4, <3>1 DEF CodexInterrupt
  <2>4. c \in CodexDrv /\ c.steers = d.steers /\ c.active = d.active /\ c.unanswered = d.unanswered
    BY <1>0 DEF CodexDrv
  <2>5. Lacks(s, Unfit(d.active, c, {})) /\ Lacks(u, Unfit(d.active, c, {}))
    BY <1>0, FitSteps, FitDismiss
  <2> HIDE DEF c, s, u
  <2>6. Lacks(s \o u, Unfit(d.active, c, {}))
    BY <2>2, <2>5, LacksFacts
  <2> QED BY <1>1, <2>3, <2>4, <2>6
<1>5. CASE r = CodexAbandon(d)
  <2> DEFINE c == [d EXCEPT !.pending = {}]
  <2>1. r = Result(c, Dismiss(d.pending))
    BY <1>5 DEF CodexAbandon
  <2>2. c \in CodexDrv /\ c.steers = d.steers /\ c.active = d.active /\ c.unanswered = d.unanswered
    BY <1>0 DEF CodexDrv
  <2> HIDE DEF c
  <2> QED BY <1>1, <2>1, <2>2, FitDismiss
<1> QED BY <1>2, <1>3, <1>4, <1>5 DEF CodexAnswer, CodexInterrupt

\* The lines that tell of a turn that began, and of one that ended.
Opening == {l \in Lines : (l.is = "start" /\ l.ok) \/ l.is = "started"}
Completions == {l \in Lines : l.is = "completed"}
SteerLines(m) == {l \in Lines : l.is = "steer" /\ l.msg = m}

LineDoes(d, r, line) ==
    /\ CodexWrites(d, r, {})
    /\ \A m \in d.unanswered : line \notin SteerLines(m) => m \in r.drv.unanswered
    /\ r.drv.active # d.active => \/ line \in Completions /\ r.drv.active = None
                                  \/ line \in Opening /\ r.drv.active = line.turn
    /\ \A m \in Msgs : line = [is |-> "item", msg |-> m] => m \notin r.drv.steers

LEMMA UnfitAnyway == \A x, y, c : Unfit(x, c, {}) = Unfit(y, c, {})
  BY DEF Unfit

\* The driver that a turn's end leaves, before it flushes.
Ended(d) ==
    [d EXCEPT !.active = None, !.steers = d.steers \cap d.unanswered,
              !.carried = @ \o SetToSeq(d.steers \ d.unanswered)]

LEMMA EndedDrv ==
    ASSUME NEW d \in CodexDrv, CodexNeat(d)
    PROVE  /\ Ended(d) \in CodexDrv /\ CodexNeat(Ended(d))
           /\ Ended(d).active = None /\ Ended(d).steers = d.steers \cap d.unanswered
           /\ Ended(d).unanswered = d.unanswered
<1> DEFINE answered == d.steers \ d.unanswered
           awaiting == d.steers \cap d.unanswered
           c == Ended(d)
<1>0. d.carried \in Turn /\ d.steers \in Few(Msgs) /\ d.queued \in Turn
  BY CodexFields
<1>1. answered \in Few(Msgs) /\ awaiting \in Few(Msgs) /\ IsFiniteSet(answered) /\ answered \subseteq Msgs
  <2>1. answered \in Few(Msgs) /\ awaiting \in Few(Msgs)
    BY <1>0, FewFacts
  <2> QED BY <2>1, FewFacts
<1>2. /\ SetToSeq(answered) \in Turn /\ ToSet(SetToSeq(answered)) = answered
      /\ IsInjective(SetToSeq(answered))
  <2>1. /\ SetToSeq(answered) \in Seq(answered) /\ ToSet(SetToSeq(answered)) = answered
        /\ IsInjective(SetToSeq(answered))
    BY <1>1, ListedFacts
  <2> QED BY <1>1, <2>1, Wider DEF Turn
<1>3. /\ c \in CodexDrv /\ c.queued = d.queued /\ c.carried = d.carried \o SetToSeq(answered)
      /\ c.steers = awaiting /\ c.pending = d.pending /\ c.active = None /\ c.unanswered = d.unanswered
  <2>1. d.carried \o SetToSeq(answered) \in Turn
    BY <1>0, <1>2, JoinFacts DEF Turn
  <2> QED BY <1>1, <2>1 DEF CodexDrv, Ended
<1>4. ToSet(c.carried) = ToSet(d.carried) \cup answered /\ IsInjective(c.carried)
  <2>1. ToSet(d.carried) \cap ToSet(SetToSeq(answered)) = {}
    BY <1>2 DEF CodexNeat
  <2>2. d.carried \in Seq(Msgs) /\ SetToSeq(answered) \in Seq(Msgs)
    BY <1>0, <1>2 DEF Turn
  <2>3. \A x, y \in Seq(Msgs) : ToSet(x) \cap ToSet(y) = {} =>
            /\ ToSet(x \o y) = ToSet(x) \cup ToSet(y)
            /\ IsInjective(x) /\ IsInjective(y) => IsInjective(x \o y)
    BY JoinFacts
  <2>4. /\ ToSet(d.carried \o SetToSeq(answered)) = ToSet(d.carried) \cup ToSet(SetToSeq(answered))
        /\ IsInjective(d.carried) /\ IsInjective(SetToSeq(answered)) => IsInjective(d.carried \o SetToSeq(answered))
    BY <2>1, <2>2, <2>3
  <2> QED BY <1>2, <1>3, <2>4 DEF CodexNeat
<1> HIDE DEF c, answered, awaiting
<1>5. CodexNeat(c)
  BY <1>3, <1>4 DEF CodexNeat, answered, awaiting
<1> QED BY <1>3, <1>5 DEF c, awaiting

LEMMA LineWrites ==
    ASSUME NEW d \in CodexDrv, CodexNeat(d), NEW line \in Lines, line.is \in CodexSpeaks
    PROVE  LineDoes(d, CodexOnLine(d, line), line)
<1> DEFINE r == CodexOnLine(d, line)
<1> SUFFICES LineDoes(d, r, line)
  OBVIOUS
<1>0. d.steers \in Few(Msgs) /\ d.pending \in Few(Asks) /\ d.active \in Turn \cup {None} /\ d.carried \in Turn
      /\ d.steers \subseteq Msgs /\ d.queued \in Turn
  BY CodexFields
<1>1. /\ \A m \in Msgs : line \in SteerLines(m) <=> line.is = "steer" /\ line.msg = m
      /\ line.is = "completed" => line \in Completions
      /\ line.is = "started" \/ (line.is = "start" /\ line.ok) => line \in Opening
  BY DEF SteerLines, Completions, Opening
<1>2. ASSUME NEW c, NEW s, r.drv = c, r.steps = s,
             Lacks(s, Unfit(d.active, c, {})), c.steers \subseteq d.steers,
             \A m \in d.unanswered : line \notin SteerLines(m) => m \in c.unanswered,
             c.active # d.active => \/ line \in Completions /\ c.active = None
                                    \/ line \in Opening /\ c.active = line.turn,
             \A m \in Msgs : line = [is |-> "item", msg |-> m] => m \notin c.steers
      PROVE  LineDoes(d, r, line)
  BY <1>2 DEF LineDoes, CodexWrites
<1>3. ASSUME NEW c, NEW s, r = Result(c, s), line.is # "item",
             Lacks(s, Unfit(d.active, c, {})), c.steers = d.steers, c.unanswered = d.unanswered,
             c.active # d.active => line \in Opening /\ c.active = line.turn
      PROVE  LineDoes(d, r, line)
  <2>1. r.drv = c /\ r.steps = s
    BY <1>3 DEF Result
  <2>2. \A m \in Msgs : line # [is |-> "item", msg |-> m]
    BY <1>3
  <2> HIDE DEF r
  <2> QED BY <1>2, <1>3, <2>1, <2>2
<1>4. CASE line.is \in {"init", "error"} \/ (line.is = "open" /\ ~line.ok)
  <2> DEFINE c == IF line.is = "init" /\ line.ok THEN [d EXCEPT !.phase = "starting"] ELSE d
             s == IF line.is = "init" /\ line.ok THEN <<Write([is |-> "open"])>> ELSE <<Failed>>
  <2>1. r = Result(c, s)
    BY <1>4 DEF CodexOnLine
  <2>2. c.steers = d.steers /\ c.active = d.active /\ c.unanswered = d.unanswered
    BY DEF CodexDrv
  <2>3. Failed \in Steps /\ Failed.do = "emit"
    BY EmitsAreSteps DEF Failed, Emit
  <2>4. Lacks(s, Unfit(d.active, c, {}))
    <3> HIDE DEF c
    <3> QED BY <2>3, FitSteps
  <2> HIDE DEF c, s, r
  <2> QED BY <1>3, <1>4, <2>1, <2>2, <2>4
<1>5. CASE line.is = "open" /\ line.ok
  <2> DEFINE x == IF d.queued = <<>> THEN d.startId ELSE <<Last(d.queued)>>
             c == [d EXCEPT !.phase = "ready", !.queued = <<>>, !.startId = x]
             s == [i \in DOMAIN d.queued |-> Write(TurnStart(<<d.queued[i]>>))]
  <2>1. r.drv = c /\ r.steps = s
    BY <1>5 DEF CodexOnLine, CodexOnOpen, Result, CodexDrv
  <2>2. c.steers = d.steers /\ c.active = d.active /\ c.unanswered = d.unanswered
    BY DEF CodexDrv
  <2>3. Lacks(s, Unfit(d.active, c, {}))
    <3> SUFFICES ASSUME NEW i \in DOMAIN d.queued
                 PROVE  Write(TurnStart(<<d.queued[i]>>)) \notin Unfit(d.active, c, {})
      BY DEF Lacks
    <3>1. d.queued[i] \in Msgs /\ d.queued[i] \in ToSet(d.queued) /\ d.queued[i] \notin d.steers
      BY <1>0 DEF Turn, ToSet, CodexNeat
    <3>2. <<d.queued[i]>> \in Turn /\ ToSet(<<d.queued[i]>>) = {d.queued[i]} /\ <<d.queued[i]>> # <<>>
      BY <3>1, OneMessage
    <3> HIDE DEF c
    <3>3. Lacks(<<Write(TurnStart(<<d.queued[i]>>))>>, Unfit(d.active, c, {}))
      BY <2>2, <3>1, <3>2, FitSteps
    <3> QED BY <3>3 DEF Lacks
  <2>4. \A m \in Msgs : line # [is |-> "item", msg |-> m]
    BY <1>5
  <2> HIDE DEF c, s, r
  <2> QED BY <1>2, <2>1, <2>2, <2>3, <2>4
<1>6. CASE line.is = "start"
  <2> DEFINE c == [d EXCEPT !.startId = IF line.turn = d.startId THEN None ELSE @,
                            !.active = IF line.turn = d.startId /\ line.ok THEN line.turn ELSE @]
             s == IF line.ok THEN <<>> ELSE <<Failed>>
  <2>1. r = Result(c, s)
    BY <1>6 DEF CodexOnLine, CodexOnStart
  <2>2. /\ c.steers = d.steers /\ c.unanswered = d.unanswered
        /\ c.active # d.active => line.ok /\ c.active = line.turn
    BY DEF CodexDrv
  <2>3. Failed \in Steps /\ Failed.do = "emit"
    BY EmitsAreSteps DEF Failed, Emit
  <2>4. Lacks(s, Unfit(d.active, c, {}))
    <3> HIDE DEF c
    <3> QED BY <2>3, FitSteps
  <2> HIDE DEF c, s, r
  <2> QED BY <1>1, <1>3, <1>6, <2>1, <2>2, <2>4
<1>7. CASE line.is = "started"
  <2> DEFINE c == [d EXCEPT !.active = line.turn, !.startId = None]
  <2>1. r = Result(c, <<Started>>)
    BY <1>7 DEF CodexOnLine
  <2>2. c.steers = d.steers /\ c.unanswered = d.unanswered /\ c.active = line.turn
    BY DEF CodexDrv
  <2>3. Started \in Steps /\ Started.do = "emit"
    BY EmitsAreSteps DEF Started, Emit
  <2> HIDE DEF c, r
  <2> QED BY <1>1, <1>3, <1>7, <2>1, <2>2, <2>3, FitSteps
<1>8. CASE line.is = "steer"
  <2> DEFINE c == [d EXCEPT !.unanswered = @ \ {line.msg}]
             g == [c EXCEPT !.steers = @ \ {line.msg}, !.carried = Append(@, line.msg)]
  <2>0. line.msg \in Msgs
    BY <1>8, LineFields
  <2>1. CASE r = Result(c, <<>>)
    <3>1. r.drv = c /\ r.steps = <<>>
      BY <2>1 DEF Result
    <3>2. c.steers = d.steers /\ c.unanswered = d.unanswered \ {line.msg} /\ c.active = d.active
      BY DEF CodexDrv
    <3>3. \A m \in Msgs : line # [is |-> "item", msg |-> m]
      BY <1>8
    <3>4. d.unanswered \subseteq Msgs
      BY CodexFields
    <3>5. \A m \in d.unanswered : line \notin SteerLines(m) => m \in c.unanswered
      BY <1>1, <1>8, <3>2, <3>4
    <3>6. Lacks(<<>>, Unfit(d.active, c, {}))
      BY FitSteps
    <3> HIDE DEF c, r
    <3> QED BY <1>2, <3>1, <3>2, <3>3, <3>5, <3>6
  <2>2. CASE r = CodexFlush(g) /\ line.msg \in d.steers
    <3>1. /\ Append(d.carried, line.msg) \in Turn /\ IsInjective(Append(d.carried, line.msg))
          /\ ToSet(Append(d.carried, line.msg)) = ToSet(d.carried) \cup {line.msg}
      BY <1>0, <2>0, <2>2, OneMore DEF Turn, CodexNeat
    <3>2. d.steers \ {line.msg} \in Few(Msgs)
      BY <1>0, FewFacts
    <3>3. /\ g \in CodexDrv /\ g.queued = d.queued /\ g.carried = Append(d.carried, line.msg)
          /\ g.steers = d.steers \ {line.msg} /\ g.unanswered = d.unanswered \ {line.msg} /\ g.active = d.active
      BY <3>1, <3>2 DEF CodexDrv
    <3> HIDE DEF c, g
    <3>4. CodexNeat(g)
      BY <2>2, <3>1, <3>3 DEF CodexNeat
    <3>5. /\ CodexWrites(g, CodexFlush(g), {}) /\ CodexFlush(g).drv.steers = g.steers
          /\ CodexFlush(g).drv.active = g.active /\ CodexFlush(g).drv.unanswered = g.unanswered
      BY <3>3, <3>4, FlushWrites
    <3>6. \A m \in Msgs : line # [is |-> "item", msg |-> m]
      BY <1>8
    <3>7. d.unanswered \subseteq Msgs
      BY CodexFields
    <3>8. \A m \in d.unanswered : line \notin SteerLines(m) => m \in r.drv.unanswered
      BY <1>1, <1>8, <2>2, <3>3, <3>5, <3>7
    <3>9. Lacks(r.steps, Unfit(d.active, r.drv, {})) /\ r.drv.steers \subseteq d.steers /\ r.drv.active = d.active
      BY <2>2, <3>3, <3>5 DEF CodexWrites
    <3> QED BY <1>2, <3>6, <3>8, <3>9
  <2> QED BY <1>8, <2>1, <2>2 DEF CodexOnLine, CodexOnSteer
<1>9. CASE line.is = "completed"
  <2> DEFINE g == Ended(d)
             f == CodexFlush(g)
  <2>1. \/ r = [f EXCEPT !.steps = <<Failed>> \o @]
        \/ r = f
        \/ r = Result(g, <<Finished>>)
    BY <1>9 DEF CodexOnLine, CodexOnCompleted, Ended
  <2>2. /\ g \in CodexDrv /\ CodexNeat(g) /\ g.steers \subseteq d.steers /\ g.unanswered = d.unanswered
        /\ g.active = None
    BY EndedDrv
  <2>3. /\ CodexWrites(g, f, {}) /\ f.steps \in Seq(Steps)
        /\ f.drv.steers = g.steers /\ f.drv.active = g.active /\ f.drv.unanswered = g.unanswered
    BY <2>2, FlushWrites
  <2>4. Failed \in Steps /\ Failed.do = "emit" /\ Finished \in Steps /\ Finished.do = "emit"
    BY EmitsAreSteps DEF Failed, Finished, Emit
  <2>5. Lacks(f.steps, Unfit(d.active, f.drv, {})) /\ Lacks(<<Failed>>, Unfit(d.active, f.drv, {}))
    BY <2>3, <2>4, UnfitAnyway, FitSteps DEF CodexWrites
  <2>6. <<Failed>> \in Seq(Steps)
    BY <2>4
  <2>7. Lacks(<<Failed>> \o f.steps, Unfit(d.active, f.drv, {}))
    BY <2>3, <2>5, <2>6, LacksFacts
  <2>8. DOMAIN f = {"drv", "steps"}
    BY DEF CodexFlush, CodexFrame, Result
  <2>9. Lacks(<<Finished>>, Unfit(d.active, g, {}))
    BY <2>4, FitSteps
  <2>10. /\ \A m \in Msgs : line # [is |-> "item", msg |-> m]
         /\ line \in Completions
    BY <1>1, <1>9
  <2> HIDE DEF f, g
  <2>11. /\ r.drv \in {f.drv, g} /\ Lacks(r.steps, Unfit(d.active, r.drv, {}))
    <3>1. CASE r = [f EXCEPT !.steps = <<Failed>> \o @]
      <4>1. r.drv = f.drv /\ r.steps = <<Failed>> \o f.steps
        BY <2>8, <3>1
      <4> QED BY <2>7, <4>1
    <3>2. CASE r = f
      BY <2>5, <3>2
    <3>3. CASE r = Result(g, <<Finished>>)
      BY <2>9, <3>3 DEF Result
    <3> HIDE DEF r
    <3> QED BY <2>1, <3>1, <3>2, <3>3
  <2> HIDE DEF r
  <2> QED BY <1>2, <2>2, <2>3, <2>10, <2>11
<1>10. CASE line.is = "item"
  <2> DEFINE c == IF line.msg \notin d.steers THEN d ELSE [d EXCEPT !.steers = @ \ {line.msg}]
             s == IF line.msg \notin d.steers THEN <<>> ELSE <<Echo(line.msg)>>
  <2>0. line.msg \in Msgs
    BY <1>10, LineFields
  <2>1. r.drv = c /\ r.steps = s
    BY <1>10 DEF CodexOnLine, Result
  <2>2. c.steers = d.steers \ {line.msg} /\ c.unanswered = d.unanswered /\ c.active = d.active
    BY DEF CodexDrv
  <2>3. Echo(line.msg) \in Steps /\ Echo(line.msg).do = "emit"
    BY <2>0, EmitsAreSteps DEF Echo, Emit
  <2>4. Lacks(s, Unfit(d.active, c, {}))
    <3> HIDE DEF c
    <3> QED BY <2>3, FitSteps
  <2>5. \A m \in Msgs : line = [is |-> "item", msg |-> m] => m = line.msg
    OBVIOUS
  <2> HIDE DEF c, s, r
  <2> QED BY <1>2, <2>1, <2>2, <2>4, <2>5
<1>11. CASE line.is = "ask"
  <2>0. line.ask \in Asks
    BY <1>11, LineFields
  <2>1. CASE line.kind = "unknown"
    <3>1. r = Result(d, <<Write(Reply(line.ask))>>)
      BY <1>11, <2>1 DEF CodexOnLine, CodexOnAsk
    <3> QED BY <1>3, <1>11, <2>0, <3>1, FitSteps
  <2>2. CASE line.kind # "unknown"
    <3> DEFINE c == [d EXCEPT !.pending = @ \cup {line.ask},
                              !.elicitations = IF line.kind = "elicitation" THEN @ \cup {line.ask} ELSE @]
    <3>1. r = Result(c, <<Card(line.ask)>>)
      BY <1>11, <2>2 DEF CodexOnLine, CodexOnAsk
    <3>2. c.steers = d.steers /\ c.active = d.active /\ c.unanswered = d.unanswered
      BY DEF CodexDrv
    <3>3. Card(line.ask) \in Steps /\ Card(line.ask).do = "emit"
      BY <2>0, EmitsAreSteps DEF Card, Emit
    <3> HIDE DEF c, r
    <3> QED BY <1>3, <1>11, <3>1, <3>2, <3>3, FitSteps
  <2> QED BY <2>1, <2>2
<1>12. CASE line.is = "resolved"
  <2> DEFINE c == IF line.ask \notin d.pending THEN d ELSE [d EXCEPT !.pending = @ \ {line.ask}]
             s == IF line.ask \notin d.pending THEN <<>> ELSE <<Settled(line.ask)>>
  <2>0. line.ask \in Asks
    BY <1>12, LineFields
  <2>1. r = Result(c, s)
    BY <1>12 DEF CodexOnLine
  <2>2. c.steers = d.steers /\ c.active = d.active /\ c.unanswered = d.unanswered
    BY DEF CodexDrv
  <2>3. Settled(line.ask) \in Steps /\ Settled(line.ask).do = "emit"
    BY <2>0, EmitsAreSteps DEF Settled, Emit
  <2>4. Lacks(s, Unfit(d.active, c, {}))
    <3> HIDE DEF c
    <3> QED BY <2>3, FitSteps
  <2> HIDE DEF c, s, r
  <2> QED BY <1>3, <1>12, <2>1, <2>2, <2>4
<1> QED BY <1>4, <1>5, <1>6, <1>7, <1>8, <1>9, <1>10, <1>11, <1>12, LineFields DEF CodexSpeaks

-----------------------------------------------------------------------------
(* The steps of a session, by what they do to a message and to an approval *)

\* What a Codex driver does, besides, in a call and with a line.
CallFits(new, steps) ==
    /\ Lacks(steps, Unfit(drv.active, drv', new)) /\ drv'.steers \subseteq drv.steers \cup new
    /\ drv'.active = drv.active /\ drv.unanswered \subseteq drv'.unanswered

LineFits(steps) == LineDoes(drv, [drv |-> drv', steps |-> steps], Head(lines))

\* A call of one of the session's callers.
Called(t, new, steps) ==
    /\ t \in Callers \ called /\ called' = called \cup {t}
    /\ new \subseteq Msgs /\ new \subseteq {t}
    /\ DriverMoves(t, steps, new, {}, {})
    /\ provider = "codex" => CallFits(new, steps)
    /\ UNCHANGED <<provider, wire, lines, alive, cli, turns, replies, echoed>>
    /\ UserShape'

\* The reader thread has the driver handle a line.
Heard(steps) ==
    /\ lines # <<>> /\ lines' = Tail(lines) /\ todo["reader"] = <<>>
    /\ Head(lines) \in Lines /\ Head(lines).is \in Speaks
    /\ DriverMoves("reader", steps, {}, Back(Head(lines)), NewAsks(Head(lines)))
    /\ provider = "codex" => LineFits(steps)
    /\ UNCHANGED <<provider, called, wire, alive, cli, turns, replies, echoed>>
    /\ UserShape'

Rests ==
    /\ UNCHANGED <<provider, drv, todo, called, wire, lines, cli, turns, replies, echoed>>
    /\ UserShape'

LEMMA ReaderIsNoCaller == "reader" \notin Callers /\ "reader" \in Threads /\ Callers \subseteq Threads
  BY SessionAssumption DEF Callers, Threads

LEMMA StepsAre ==
    ASSUME WayShape, NEW t \in Threads, NEW r, Compute(t, r),
           NEW steps, NEW new, NEW back, NEW asks, DriverMoves(t, steps, new, back, asks)
    PROVE  drv' = r.drv /\ steps = r.steps
<1>1. todo' = [todo EXCEPT ![t] = r.steps] /\ todo' = [todo EXCEPT ![t] = steps] /\ t \in DOMAIN todo
  BY DEF Compute, DriverMoves, WayShape
<1>2. todo'[t] = r.steps /\ todo'[t] = steps
  BY <1>1
<1> QED BY <1>2 DEF Compute

LEMMA SendIs ==
    ASSUME Shape, NEW m \in Msgs, NEW how, Send(m, how)
    PROVE  \E steps : Called(m, {m}, steps)
<1>1. PICK steps : DriverMoves(m, steps, {m}, {}, {})
  BY SendMoves
<1>2. UserShape'
  BY DEF Send, Call, Compute, UserShape, Shape, procVars
<1>3. m \in Callers \ called /\ called' = called \cup {m}
  BY DEF Send, Call, Callers
<1>4. ASSUME provider = "codex" PROVE CallFits({m}, steps)
  <2>1. drv \in CodexDrv /\ CodexNeat(drv) /\ m \notin CodexKnows(drv)
    BY <1>3, <1>4 DEF Shape, DriverShape, Knows
  <2>2. Compute(m, CodexCall(drv, m, how)) /\ WayShape /\ m \in Threads
    BY <1>3, <1>4, ReaderIsNoCaller DEF Send, Call, PromptCall, Shape
  <2> DEFINE r == CodexCall(drv, m, how)
  <2>3. drv' = r.drv /\ steps = r.steps
    BY <1>1, <2>2, StepsAre
  <2>4. CodexWrites(drv, r, {m}) /\ r.drv.active = drv.active /\ drv.unanswered \subseteq r.drv.unanswered
    BY <2>1, CallWrites
  <2> HIDE DEF r
  <2> QED BY <2>3, <2>4 DEF CallFits, CodexWrites
<1>5. Called(m, {m}, steps)
  BY <1>1, <1>2, <1>3, <1>4 DEF Called, Send, procVars
<1> QED BY <1>5

LEMMA StopFits ==
    ASSUME Shape, provider = "codex", NEW t \in Threads, NEW a \in Asks, NEW r, Compute(t, r),
           r \in {CodexAnswer(drv, a), CodexInterrupt(drv), CodexAbandon(drv)},
           NEW steps, DriverMoves(t, steps, {}, {}, {})
    PROVE  CallFits({}, steps)
<1>1. drv \in CodexDrv /\ CodexNeat(drv) /\ WayShape
  BY DEF Shape, DriverShape
<1>2. drv' = r.drv /\ steps = r.steps
  BY <1>1, StepsAre
<1>3. /\ CodexWrites(drv, r, {})
      /\ r.drv.steers = drv.steers /\ r.drv.active = drv.active /\ drv.unanswered = r.drv.unanswered
  BY <1>1, StopWrites
<1> QED BY <1>2, <1>3 DEF CallFits, CodexWrites

LEMMA ClickIs ==
    ASSUME Shape, NEW c \in Clicks, NEW a \in Asks, NEW allow \in BOOLEAN, Click(c, a, allow)
    PROVE  \E steps : Called(c, {}, steps)
<1>1. PICK steps : DriverMoves(c, steps, {}, {}, {})
  BY ClickMoves
<1>2. UserShape'
  BY DEF Click, Call, Compute, UserShape, Shape, procVars, userVars
<1>3. c \in Callers \ called /\ called' = called \cup {c}
  BY DEF Click, Call, Callers
<1>4. ASSUME provider = "codex" PROVE CallFits({}, steps)
  <2>1. Compute(c, CodexAnswer(drv, a)) /\ c \in Threads
    BY <1>3, <1>4, ReaderIsNoCaller DEF Click, Call, AnswerCall
  <2> QED BY <1>1, <1>4, <2>1, StopFits
<1>5. Called(c, {}, steps)
  BY <1>1, <1>2, <1>3, <1>4 DEF Called, Click, procVars, userVars
<1> QED BY <1>5

LEMMA StopIs ==
    ASSUME Shape, Stop \/ Close
    PROVE  \E t \in {"stop", "close"}, r \in {InterruptCall, AbandonCall} :
              \E steps : Call(t, r) /\ Called(t, {}, steps)
<1>1. PICK t \in {"stop", "close"}, r \in {InterruptCall, AbandonCall} : Call(t, r)
  BY DEF Stop, Close
<1>2. PICK steps : DriverMoves(t, steps, {}, {}, {})
  BY <1>1, StopMoves DEF Call, Stop, Close
<1>3. UserShape'
  BY DEF Stop, Close, Call, Compute, UserShape, Shape, procVars, userVars
<1>4. t \in Callers \ called /\ called' = called \cup {t}
  BY <1>1 DEF Call, Callers
<1>5. ASSUME provider = "codex" PROVE CallFits({}, steps)
  <2>1. drv \in CodexDrv /\ CodexNeat(drv) /\ WayShape /\ t \in Threads /\ Compute(t, r)
    BY <1>1, <1>4, <1>5, ReaderIsNoCaller DEF Shape, DriverShape, Call
  <2>2. r \in {CodexInterrupt(drv), CodexAbandon(drv)}
    BY <1>1, <1>5 DEF InterruptCall, AbandonCall
  <2>3. drv' = r.drv /\ steps = r.steps
    BY <1>2, <2>1, StepsAre
  <2>4. /\ CodexWrites(drv, r, {})
        /\ r.drv.steers = drv.steers /\ r.drv.active = drv.active /\ drv.unanswered = r.drv.unanswered
    BY <2>1, <2>2, StopWrites
  <2> QED BY <2>3, <2>4 DEF CallFits, CodexWrites
<1>6. Called(t, {}, steps)
  BY <1>2, <1>3, <1>4, <1>5 DEF Called, Stop, Close, procVars, userVars
<1> QED BY <1>1, <1>6

LEMMA LineIs ==
    ASSUME Shape, OnLine, Head(lines).is = "ask" => Head(lines).ask \notin drv.pending
    PROVE  \E steps : Heard(steps)
<1>1. PICK steps : DriverMoves("reader", steps, {}, Back(Head(lines)), NewAsks(Head(lines)))
  BY LineMoves
<1>2. UserShape'
  BY DEF OnLine, Compute, UserShape, Shape, userVars
<1>3. Head(lines) \in Lines /\ Head(lines).is \in Speaks
  <2>1. Head(lines) = lines[1] /\ 1 \in DOMAIN lines /\ Head(lines) \in Lines
    BY DEF Shape, WayShape, OnLine
  <2> QED BY <2>1 DEF Shape
<1>4. ASSUME provider = "codex" PROVE LineFits(steps)
  <2> DEFINE r == CodexOnLine(drv, Head(lines))
             x == [drv |-> drv', steps |-> steps]
  <2>1. drv \in CodexDrv /\ CodexNeat(drv) /\ WayShape /\ Head(lines).is \in CodexSpeaks
    BY <1>3, <1>4 DEF Shape, DriverShape, Speaks
  <2>2. Compute("reader", r)
    BY <1>4 DEF OnLine, LineCall
  <2>3. LineDoes(drv, r, Head(lines))
    BY <1>3, <2>1, LineWrites
  <2> HIDE DEF r
  <2>4. drv' = r.drv /\ steps = r.steps
    BY <1>1, <2>1, <2>2, StepsAre, ReaderIsNoCaller
  <2>5. x.drv = r.drv /\ x.steps = r.steps
    BY <2>4
  <2>6. LineDoes(drv, x, Head(lines))
    <3> HIDE DEF x
    <3> QED BY <2>3, <2>5 DEF LineDoes, CodexWrites
  <2> QED BY <2>6 DEF LineFits
<1>5. Heard(steps)
  BY <1>1, <1>2, <1>3, <1>4 DEF Heard, OnLine, userVars
<1> QED BY <1>5

LEMMA ServeIs ==
    ASSUME Shape, Serve \/ Work \/ Asking \/ Finish
    PROVE  Far
<1>1. DriverShape
  BY DEF Shape
<1>2. ASSUME NEW kind \in Kinds PROVE kind \in AskKinds
  BY <1>1, <1>2, KindsAreFew
<1>3. CASE Serve
  BY <1>3, CodexServes, ClaudeServes, CursorServes DEF Serve
<1>4. CASE Work
  BY <1>4, CodexWorks, ClaudeWorks DEF Work
<1>5. CASE Asking
  BY <1>2, <1>5, CodexWorks, ClaudeWorks, CursorWorks DEF Asking
<1>6. CASE Finish
  BY <1>6, CodexWorks, ClaudeWorks, CursorWorks DEF Finish, Outcomes
<1> QED BY <1>3, <1>4, <1>5, <1>6

LEMMA StepIs ==
    ASSUME Shape, [Next]_vars
    PROVE  \/ \E t, new, steps : Called(t, new, steps)
           \/ OnLine
           \/ \E t \in Threads : EmitStep(t) \/ WriteStep(t) \/ BrokenPipe(t)
           \/ Far /\ (Serve \/ Work \/ Asking \/ Finish)
           \/ Rests
<1>1. CASE \E m \in Msgs, how \in {"send", "steer"} : Send(m, how)
  BY <1>1, SendIs
<1>2. CASE \E c \in Clicks, a \in Asks, allow \in BOOLEAN : Click(c, a, allow)
  BY <1>2, ClickIs
<1>3. CASE Stop \/ Close
  BY <1>3, StopIs
<1>4. CASE Serve \/ Work \/ Asking \/ Finish
  BY <1>4, ServeIs
<1>5. CASE Exit \/ OnExit \/ UNCHANGED vars
  BY <1>5 DEF Rests, Exit, OnExit, vars, procVars, userVars, UserShape, Shape
<1>6. CASE \E t \in Threads : Thread(t)
  BY <1>6 DEF Thread
<1> QED BY <1>1, <1>2, <1>3, <1>4, <1>5, <1>6 DEF Next

LEMMA StepsDealt ==
    ASSUME NEW t, NEW steps, NEW new, NEW back, NEW asks, DriverMoves(t, steps, new, back, asks)
    PROVE  steps \in Seq(Steps)
  BY DEF DriverMoves, Deals, Bears

LEMMA ShapeCalled ==
    ASSUME Shape, NEW t, NEW new, NEW steps, Called(t, new, steps)
    PROVE  Shape'
<1>1. steps \in Seq(Steps) /\ t \in Threads
  BY StepsDealt DEF Called, Threads
<1>2. todo' \in [Threads -> Seq(Steps)] /\ \A u \in Threads \ {t} : todo'[u] = todo[u]
  BY <1>1 DEF Called, DriverMoves, Shape, WayShape
<1>3. \A u \in Callers \ called' : todo'[u] = <<>>
  BY <1>2 DEF Called, Shape, WayShape, Threads
<1>4. WayShape'
  BY <1>2, <1>3 DEF Called, Shape, WayShape
<1>5. CliShape' /\ \A i \in DOMAIN lines' : lines'[i].is \in Speaks'
  BY DEF Called, Shape, CliShape, Speaks
<1>6. Knows' \subseteq called'
  BY DEF Called, DriverMoves, Shape
<1> QED BY <1>4, <1>5, <1>6 DEF Called, DriverMoves, Shape

LEMMA ShapeHeard ==
    ASSUME Shape, NEW steps, Heard(steps)
    PROVE  Shape'
<1>1. steps \in Seq(Steps)
  BY StepsDealt DEF Heard
<1>2. todo' \in [Threads -> Seq(Steps)] /\ \A u \in Threads \ {"reader"} : todo'[u] = todo[u]
  BY <1>1 DEF Heard, DriverMoves, Shape, WayShape, Threads
<1>3. \A u \in Callers \ called' : todo'[u] = <<>>
  BY <1>2, ReaderIsNoCaller DEF Heard, Shape, WayShape
<1>4. lines \in Seq(Lines) /\ lines # <<>> /\ lines' = Tail(lines)
  BY DEF Heard, Shape, WayShape
<1>5. lines' \in Seq(Lines) /\ \A i \in DOMAIN lines' : lines'[i] = lines[i + 1] /\ i + 1 \in DOMAIN lines
  BY <1>4
<1>6. WayShape'
  BY <1>2, <1>3, <1>5 DEF Heard, Shape, WayShape
<1>7. Speaks' = Speaks /\ CliShape'
  BY DEF Heard, Shape, CliShape, Speaks
<1>8. \A i \in DOMAIN lines' : lines'[i].is \in Speaks'
  BY <1>5, <1>7 DEF Shape
<1>9. Knows' \subseteq called'
  BY DEF Heard, DriverMoves, Shape
<1> QED BY <1>6, <1>7, <1>8, <1>9 DEF Heard, DriverMoves, Shape

\* Nothing that the driver knows changes.
LEMMA DriverStays ==
    ASSUME drv' = drv, provider' = provider
    PROVE  /\ DriverShape' = DriverShape /\ Shows' = Shows /\ Hands' = Hands /\ Knows' = Knows
           /\ Speaks' = Speaks
  BY DEF DriverShape, Shows, Hands, Knows, Speaks

LEMMA ShowKeeps ==
    ASSUME UserShape, NEW e \in Events, Show(e)
    PROVE  /\ alive \in BOOLEAN /\ working' \in BOOLEAN /\ failures' \in BOOLEAN
           /\ echoed' \in [Msgs -> 0..2] /\ cards' \subseteq Asks /\ owed' \subseteq Msgs
<1>1. e.is = "echo" => e.msg \in Msgs
  BY EventFields
<1>2. e.is \in {"card", "settled"} => e.ask \in Asks
  BY EventFields
<1>3. echoed' \in [Msgs -> 0..2]
  BY <1>1 DEF Show, UserShape, Once
<1>4. cards' \subseteq Asks
  BY <1>2 DEF Show, UserShape
<1>5. working' \in BOOLEAN /\ failures' \in BOOLEAN /\ owed' \subseteq Msgs
  BY DEF Show, UserShape
<1> QED BY <1>3, <1>4, <1>5 DEF UserShape

LEMMA ShapeThread ==
    ASSUME Shape, NEW t \in Threads, EmitStep(t) \/ WriteStep(t) \/ BrokenPipe(t)
    PROVE  Shape'
<1>0. /\ WayShape /\ todo[t] # <<>> /\ todo[t] \in Seq(Steps) /\ Head(todo[t]) \in Steps
      /\ UNCHANGED <<provider, drv, called, lines, cli, turns, replies, alive, steered>>
  <2>1. /\ WayShape /\ todo[t] # <<>> /\ todo[t] \in Seq(Steps)
        /\ UNCHANGED <<provider, drv, called, lines, cli, turns, replies, alive, steered>>
    BY DEF Shape, WayShape, EmitStep, WriteStep, BrokenPipe, procVars
  <2> QED BY <2>1, TailFacts
<1>1. todo' \in [Threads -> Seq(Steps)] /\ \A u \in Threads \ {t} : todo'[u] = todo[u]
  <2>1. CASE EmitStep(t) \/ WriteStep(t)
    BY <1>0, <2>1, TodoGoesOn DEF EmitStep, WriteStep
  <2>2. CASE BrokenPipe(t)
    <3>1. <<>> \in Seq(Steps)
      OBVIOUS
    <3> QED BY <1>0, <2>2, <3>1 DEF BrokenPipe, WayShape
  <2> QED BY <2>1, <2>2
<1>2. wire' \in Seq(Frames)
  <2>1. CASE EmitStep(t) \/ BrokenPipe(t)
    BY <2>1 DEF EmitStep, BrokenPipe, procVars, Shape, WayShape
  <2>2. CASE WriteStep(t)
    <3>1. Head(todo[t]).it \in Frames
      BY <1>0, <2>2, StepFields DEF WriteStep
    <3> QED BY <2>2, <3>1, AppendFacts DEF WriteStep, Shape, WayShape
  <2> QED BY <2>1, <2>2
<1>3. \A u \in Callers \ called' : todo'[u] = <<>>
  BY <1>0, <1>1, ReaderIsNoCaller DEF WayShape
<1>4. WayShape'
  BY <1>0, <1>1, <1>2, <1>3 DEF WayShape
<1>5. UserShape'
  <2>0. UserShape
    BY DEF Shape
  <2>1. CASE EmitStep(t)
    <3>1. Head(todo[t]).it \in Events /\ Show(Head(todo[t]).it)
      BY <1>0, <2>1, StepFields DEF EmitStep
    <3> QED BY <1>0, <2>0, <3>1, ShowKeeps DEF UserShape
  <2>2. CASE UNCHANGED userVars
    BY <1>0, <2>0, <2>2 DEF UserShape, userVars
  <2>3. CASE Show([is |-> "failed"])
    <3>1. [is |-> "failed"] \in Events
      BY DEF Events
    <3> QED BY <1>0, <2>0, <2>3, <3>1, ShowKeeps DEF UserShape
  <2> QED BY <2>1, <2>2, <2>3 DEF WriteStep, BrokenPipe
<1>6. DriverShape' /\ Knows' \subseteq called' /\ Speaks' = Speaks
  BY <1>0, DriverStays DEF Shape
<1>7. CliShape'
  BY <1>0 DEF Shape, CliShape
<1> QED BY <1>0, <1>4, <1>5, <1>6, <1>7 DEF Shape

LEMMA ShapeFar ==
    ASSUME Shape, Far
    PROVE  Shape'
<1>1. PICK new : FarShape(new) /\ FarAsks(new) /\ FarPrompts
  BY DEF Far
<1>2. UNCHANGED <<provider, drv, todo, called, alive, userVars, steered>>
  BY <1>1 DEF FarShape, Elsewhere
<1>3. wire' \in Seq(Frames)
  <2>1. wire \in Seq(Frames) /\ (wire' = wire \/ (wire # <<>> /\ wire' = Tail(wire)))
    BY <1>1 DEF FarShape, Shape, WayShape
  <2> QED BY <2>1, TailFacts
<1>4. lines' \in Seq(Lines) /\ \A i \in DOMAIN lines' : lines'[i].is \in Speaks
  <2>1. lines \in Seq(Lines) /\ new \in Seq(Lines) /\ lines' = lines \o new
    BY <1>1 DEF FarShape, Shape, WayShape
  <2>2. (\A i \in DOMAIN lines : lines[i].is \in Speaks) /\ \A i \in DOMAIN new : new[i].is \in Speaks
    BY <1>1 DEF FarShape, Shape
  <2> QED BY <2>1, <2>2, Said
<1>5. WayShape'
  BY <1>2, <1>3, <1>4 DEF Shape, WayShape
<1>6. replies' \in [Asks -> 0..2]
  BY <1>1 DEF FarAsks, Shape, UserShape, Once
<1>7. turns' \in [Msgs -> 0..2]
  <2>1. \A S : [m \in Msgs |-> IF m \in S THEN Once(turns[m]) ELSE turns[m]] \in [Msgs -> 0..2]
    BY DEF Shape, UserShape, Once
  <2>2. \A x : [m \in Msgs |-> IF x \in Carries(m) THEN Once(turns[m]) ELSE turns[m]] \in [Msgs -> 0..2]
    BY DEF Shape, UserShape, Once
  <2>3. turns \in [Msgs -> 0..2]
    BY DEF Shape, UserShape
  <2> QED BY <1>1, <2>1, <2>2, <2>3 DEF FarPrompts
<1>8. UserShape'
  BY <1>2, <1>6, <1>7 DEF Shape, UserShape, userVars
<1>9. DriverShape' /\ Knows' \subseteq called' /\ Speaks' = Speaks
  BY <1>2, DriverStays DEF Shape
<1> QED BY <1>1, <1>4, <1>5, <1>8, <1>9 DEF Shape, FarShape

LEMMA ShapeRests ==
    ASSUME Shape, Rests
    PROVE  Shape'
<1>1. WayShape' /\ CliShape' /\ UserShape'
  BY DEF Rests, Shape, WayShape, CliShape
<1>2. DriverShape' /\ Knows' \subseteq called' /\ Speaks' = Speaks
  BY DriverStays DEF Rests, Shape
<1>3. \A i \in DOMAIN lines' : lines'[i].is \in Speaks'
  BY <1>2 DEF Rests, Shape
<1> QED BY <1>1, <1>2, <1>3 DEF Shape

-----------------------------------------------------------------------------
(* An approval is in one place: asked for and not yet heard of, waiting    *)
(* for an answer, with its reply on the way, or answered.                  *)

AskLines(a) == {l \in Lines : l.is = "ask" /\ l.ask = a}
AskedOf(a) == ~Lacks(lines, AskLines(a))
NoReply(a) == Clear(ReplyOf(a), {Reply(a)})
OneReply(a) == AtMostOne(ReplyOf(a), {Reply(a)})

AskOnce(a) ==
    /\ Single(lines, AskLines(a)) /\ OneReply(a) /\ replies[a] < 2
    /\ AskedOf(a) => a \notin drv.pending /\ NoReply(a) /\ replies[a] = 0
    /\ a \in drv.pending => NoReply(a) /\ replies[a] = 0
    /\ ~NoReply(a) => replies[a] = 0
    /\ a \notin cli.spent => /\ ~AskedOf(a) /\ a \notin drv.pending
                             /\ NoReply(a) /\ replies[a] = 0

AsksOnce == \A a \in Asks : AskOnce(a)

LEMMA ReplySends ==
    ASSUME NEW a \in Asks
    PROVE  Sends(ReplyOf(a), {Reply(a)})
<1>1. ASSUME NEW x \in Steps, x.do = "write" PROVE x \in ReplyOf(a) <=> x.it \in {Reply(a)}
  <2>1. x = Write(x.it)
    BY <1>1, StepFields DEF Write, Emit
  <2>2. Write(Reply(a)).it = Reply(a)
    BY DEF Write
  <2> QED BY <2>1, <2>2 DEF ReplyOf
<1> QED BY <1>1 DEF Sends

\* What holds of an approval after the driver has dealt with it.
LEMMA AskDealt ==
    ASSUME NEW t \in Threads, NEW steps, NEW new, NEW back, NEW asks, WayShape,
           DriverMoves(t, steps, new, back, asks), todo[t] = <<>>, wire' = wire,
           NEW a \in Asks, OneReply(a), a \in drv.pending \cup asks => NoReply(a)
    PROVE  /\ OneReply(a)'
           /\ NoReply(a) /\ a \notin drv.pending \cup asks => NoReply(a)' /\ a \notin drv.pending'
           /\ a \in drv.pending' => NoReply(a)' /\ a \in drv.pending \cup asks
<1>1. PICK e, p, q : Bears(steps, e, p, q) /\ q \subseteq drv.pending \cup asks
                     /\ drv.pending' \subseteq (drv.pending \cup asks) \ q
  BY DEF DriverMoves, Deals
<1>2. Single(steps, ReplyOf(a)) /\ (Lacks(steps, ReplyOf(a)) <=> a \notin q) /\ steps \in Seq(Steps)
  BY <1>1 DEF Bears
<1> DEFINE r == [drv |-> drv', steps |-> steps]
<1>3. Compute(t, r) /\ r.steps = steps
  BY DEF Compute, DriverMoves
<1> HIDE DEF r
<1>4. Lacks(steps, ReplyOf(a)) \/ NoReply(a)
  BY <1>1, <1>2
<1>5. /\ AtMostOne(ReplyOf(a), {Reply(a)}) => AtMostOne(ReplyOf(a), {Reply(a)})'
      /\ Lacks(r.steps, ReplyOf(a)) /\ Clear(ReplyOf(a), {Reply(a)}) => Clear(ReplyOf(a), {Reply(a)})'
  BY <1>2, <1>3, <1>4, ComputeFlows DEF NoReply
<1>6. OneReply(a)' /\ (Lacks(steps, ReplyOf(a)) /\ NoReply(a) => NoReply(a)')
  BY <1>3, <1>5 DEF OneReply, NoReply, ReplyOf
<1> QED BY <1>1, <1>2, <1>6

LEMMA AskCalled ==
    ASSUME Shape, NEW t, NEW new, NEW steps, Called(t, new, steps), NEW a \in Asks, AskOnce(a)
    PROVE  AskOnce(a)'
<1>1. t \in Threads /\ todo[t] = <<>> /\ wire' = wire /\ DriverMoves(t, steps, new, {}, {})
  BY DEF Called, Shape, WayShape, Threads
<1>2. WayShape /\ OneReply(a) /\ (a \in drv.pending \cup {} => NoReply(a))
  BY DEF Shape, AskOnce
<1>3. /\ OneReply(a)'
      /\ NoReply(a) /\ a \notin drv.pending => NoReply(a)' /\ a \notin drv.pending'
      /\ a \in drv.pending' => NoReply(a)' /\ a \in drv.pending
  BY <1>1, <1>2, AskDealt
<1>4. UNCHANGED <<lines, replies, cli>>
  BY DEF Called
<1>5. AskedOf(a)' = AskedOf(a) /\ Single(lines, AskLines(a))' = Single(lines, AskLines(a))
  BY <1>4 DEF AskedOf, Single, Lacks, AskLines
<1> QED BY <1>3, <1>4, <1>5 DEF AskOnce

LEMMA AskHeard ==
    ASSUME Shape, NEW steps, Heard(steps), NEW a \in Asks, AskOnce(a)
    PROVE  AskOnce(a)'
<1> DEFINE line == Head(lines)
<1>1. /\ "reader" \in Threads /\ todo["reader"] = <<>> /\ wire' = wire
      /\ DriverMoves("reader", steps, {}, Back(line), NewAsks(line))
  BY DEF Heard, Threads
<1>2. lines \in Seq(Lines) /\ lines # <<>> /\ lines' = Tail(lines) /\ line \in Lines
  BY DEF Heard, Shape, WayShape
<1>3. /\ Lacks(lines, AskLines(a)) => Lacks(lines', AskLines(a)) /\ line \notin AskLines(a)
      /\ Single(lines, AskLines(a)) => Single(lines', AskLines(a))
      /\ Single(lines, AskLines(a)) /\ line \in AskLines(a) => Lacks(lines', AskLines(a))
      /\ Lacks(lines', AskLines(a)) /\ line \notin AskLines(a) => Lacks(lines, AskLines(a))
  BY <1>2, TailFacts
<1> HIDE DEF line
<1>4. a \in NewAsks(line) <=> line \in AskLines(a)
  BY <1>2 DEF NewAsks, AskLines
<1>5. a \in drv.pending \cup NewAsks(line) => NoReply(a)
  BY <1>3, <1>4 DEF AskOnce, AskedOf
<1>6. WayShape /\ OneReply(a)
  BY DEF Shape, AskOnce
<1>7. /\ OneReply(a)'
      /\ NoReply(a) /\ a \notin drv.pending \cup NewAsks(line) => NoReply(a)' /\ a \notin drv.pending'
      /\ a \in drv.pending' => NoReply(a)' /\ a \in drv.pending \cup NewAsks(line)
  BY <1>1, <1>5, <1>6, AskDealt
<1>8. UNCHANGED <<replies, cli>>
  BY DEF Heard
<1>9. AskedOf(a)' <=> ~Lacks(lines', AskLines(a))
  BY DEF AskedOf, Lacks, AskLines
<1>10. Single(lines, AskLines(a))' <=> Single(lines', AskLines(a))
  BY DEF Single, AskLines
<1> QED BY <1>3, <1>4, <1>7, <1>8, <1>9, <1>10 DEF AskOnce, AskedOf

LEMMA AskThread ==
    ASSUME Shape, NEW t \in Threads, EmitStep(t) \/ WriteStep(t) \/ BrokenPipe(t),
           NEW a \in Asks, AskOnce(a)
    PROVE  AskOnce(a)'
<1>1. UNCHANGED <<lines, replies, cli, drv>>
  BY DEF EmitStep, WriteStep, BrokenPipe, procVars
<1>2. WayShape /\ Sends(ReplyOf(a), {Reply(a)})
  BY ReplySends DEF Shape
<1>3. /\ AtMostOne(ReplyOf(a), {Reply(a)}) => AtMostOne(ReplyOf(a), {Reply(a)})'
      /\ Clear(ReplyOf(a), {Reply(a)}) => Clear(ReplyOf(a), {Reply(a)})'
  BY <1>2, EmitFlows, WriteFlows, BrokenFlows
<1>4. (OneReply(a) => OneReply(a)') /\ (NoReply(a) => NoReply(a)')
  BY <1>3 DEF OneReply, NoReply, ReplyOf
<1>5. AskedOf(a)' = AskedOf(a) /\ Single(lines, AskLines(a))' = Single(lines, AskLines(a))
  BY <1>1 DEF AskedOf, Single, Lacks, AskLines
<1> QED BY <1>1, <1>4, <1>5 DEF AskOnce

LEMMA AskFar ==
    ASSUME Shape, Far, NEW a \in Asks, AskOnce(a)
    PROVE  AskOnce(a)'
<1>1. PICK new : FarShape(new) /\ FarAsks(new)
  BY DEF Far
<1>2. UNCHANGED <<drv, todo>> /\ WayShape /\ lines \in Seq(Lines) /\ new \in Seq(Lines) /\ lines' = lines \o new
  BY <1>1 DEF FarShape, Elsewhere, Shape, WayShape
<1>3. /\ AtMostOne(ReplyOf(a), {Reply(a)}) => AtMostOne(ReplyOf(a), {Reply(a)})'
      /\ Clear(ReplyOf(a), {Reply(a)}) => Clear(ReplyOf(a), {Reply(a)})'
      /\ wire # <<>> /\ wire' = Tail(wire) /\ AtMostOne(ReplyOf(a), {Reply(a)}) /\ Head(wire) = Reply(a)
            => Clear(ReplyOf(a), {Reply(a)})' /\ ~Clear(ReplyOf(a), {Reply(a)})
  <2>1. CASE wire' = wire /\ wire = <<>>
    BY <1>2, <2>1, StillFlows
  <2>2. CASE wire' = wire /\ wire # <<>>
    <3>1. wire \in Seq(Frames)
      BY <1>2 DEF WayShape
    <3>2. wire' # Tail(wire)
      <4>1. Len(Tail(wire)) # Len(wire)
        BY <2>2, <3>1
      <4> QED BY <2>2, <4>1
    <3> QED BY <1>2, <2>2, <3>2, StillFlows
  <2>3. CASE wire # <<>> /\ wire' = Tail(wire)
    BY <1>2, <2>3, ReadFlows
  <2> QED BY <1>1, <2>1, <2>2, <2>3 DEF FarShape
<1>4. /\ OneReply(a) => OneReply(a)'
      /\ NoReply(a) => NoReply(a)'
      /\ wire # <<>> /\ wire' = Tail(wire) /\ OneReply(a) /\ Head(wire) = Reply(a) => NoReply(a)' /\ ~NoReply(a)
  BY <1>3 DEF OneReply, NoReply, ReplyOf
<1>5. /\ Lacks(lines', AskLines(a)) <=> Lacks(lines, AskLines(a)) /\ Lacks(new, AskLines(a))
      /\ Single(lines, AskLines(a)) /\ Single(new, AskLines(a)) /\ (Lacks(lines, AskLines(a)) \/ Lacks(new, AskLines(a)))
            => Single(lines', AskLines(a))
  BY <1>2, LacksFacts
<1>6. (AskedOf(a)' <=> ~Lacks(lines', AskLines(a))) /\ (Single(lines, AskLines(a))' <=> Single(lines', AskLines(a)))
  BY DEF AskedOf, Lacks, Single, AskLines
<1>7. replies \in [Asks -> 0..2]
  BY DEF Shape, UserShape
<1>8. ASSUME \A i \in DOMAIN new : new[i].is # "ask" PROVE Lacks(new, AskLines(a)) /\ Single(new, AskLines(a))
  BY <1>8 DEF Lacks, Single, AskLines
<1>9. CASE /\ wire # <<>> /\ wire' = Tail(wire) /\ new = <<>> /\ cli.spent = cli'.spent
           /\ \E b \in Asks : Head(wire) = Reply(b) /\ replies' = [replies EXCEPT ![b] = Once(@)]
  <2>1. PICK b \in Asks : Head(wire) = Reply(b) /\ replies' = [replies EXCEPT ![b] = Once(@)]
    BY <1>9
  <2>2. Lacks(new, AskLines(a)) /\ Single(new, AskLines(a))
    BY <1>9 DEF Lacks, Single
  <2>3. CASE a = b
    <3>1. NoReply(a)' /\ ~NoReply(a)
      BY <1>4, <1>9, <2>1, <2>3 DEF AskOnce
    <3>2. replies'[a] = 1
      BY <1>7, <2>1, <2>3, <3>1 DEF AskOnce, Once
    <3> QED BY <1>2, <1>4, <1>5, <1>6, <1>9, <2>2, <3>1, <3>2 DEF AskOnce, AskedOf
  <2>4. CASE a # b
    <3>1. replies'[a] = replies[a]
      BY <1>7, <2>1, <2>4
    <3> QED BY <1>2, <1>4, <1>5, <1>6, <1>9, <2>2, <3>1 DEF AskOnce, AskedOf
  <2> QED BY <2>3, <2>4
<1>10. CASE /\ wire' = wire /\ replies' = replies
            /\ \E b \in Asks, kind \in AskKinds :
                  new = <<Ask(b, kind)>> /\ b \notin cli.spent /\ cli'.spent = cli.spent \cup {b}
  <2>1. PICK b \in Asks, kind \in AskKinds :
                  new = <<Ask(b, kind)>> /\ b \notin cli.spent /\ cli'.spent = cli.spent \cup {b}
    BY <1>10
  <2>2. Ask(b, kind).ask = b /\ new[1] = Ask(b, kind) /\ DOMAIN new = {1}
    BY <2>1 DEF Ask
  <2>3. Single(new, AskLines(a))
    BY <2>2 DEF Single
  <2>4. CASE a = b
    BY <1>2, <1>4, <1>5, <1>6, <1>10, <2>1, <2>3, <2>4 DEF AskOnce, AskedOf
  <2>5. CASE a # b
    <3>1. Lacks(new, AskLines(a))
      BY <2>2, <2>5 DEF Lacks, AskLines
    <3> QED BY <1>2, <1>4, <1>5, <1>6, <1>10, <2>1, <2>3, <2>5, <3>1 DEF AskOnce, AskedOf
  <2> QED BY <2>4, <2>5
<1>11. CASE replies' = replies /\ cli'.spent = cli.spent /\ \A i \in DOMAIN new : new[i].is # "ask"
  BY <1>2, <1>4, <1>5, <1>6, <1>8, <1>11 DEF AskOnce, AskedOf
<1> QED BY <1>1, <1>9, <1>10, <1>11 DEF FarAsks

LEMMA AskRests ==
    ASSUME Rests, NEW a \in Asks, AskOnce(a)
    PROVE  AskOnce(a)'
<1>1. UNCHANGED <<drv, todo, wire, lines, cli, replies>>
  BY DEF Rests
<1> QED BY <1>1 DEF AskOnce, AskedOf, NoReply, OneReply, Clear, AtMostOne, Lacks, Single, AskLines, ReplyOf

LEMMA Start ==
    ASSUME Init
    PROVE  /\ Shape /\ AsksOnce
           /\ todo = [t \in Threads |-> <<>>] /\ Lacks(wire, Frames \ [is : {"init"}]) /\ lines = <<>>
           /\ Knows = {} /\ Shows = {} /\ Hands = {} /\ Inbox = <<>> /\ called = {}
           /\ turns = [m \in Msgs |-> 0] /\ echoed = [m \in Msgs |-> 0]
           /\ provider = "codex" => drv = CodexNew /\ cli = CodexCli
<1>1. /\ todo = [t \in Threads |-> <<>>] /\ lines = <<>> /\ called = {}
      /\ turns = [m \in Msgs |-> 0] /\ replies = [a \in Asks |-> 0] /\ echoed = [m \in Msgs |-> 0]
      /\ UserShape
      /\ \/ provider = "codex" /\ drv = CodexNew /\ cli = CodexCli
         \/ provider = "claude" /\ drv = ClaudeNew /\ \E mute \in BOOLEAN : cli = ClaudeCli(mute)
         \/ provider = "cursor" /\ (\E auto \in BOOLEAN : drv = CursorNew(auto)) /\ cli = CursorCli
      /\ wire = <<>> \/ wire = <<[is |-> "init"]>>
  <2>1. UserShape
    <3>1. /\ alive = TRUE /\ working = FALSE /\ failures = FALSE
          /\ turns = [m \in Msgs |-> 0] /\ replies = [a \in Asks |-> 0] /\ echoed = [m \in Msgs |-> 0]
          /\ cards = {} /\ owed = {} /\ steered = {}
      BY DEF Init
    <3>2. turns \in [Msgs -> 0..2] /\ replies \in [Asks -> 0..2] /\ echoed \in [Msgs -> 0..2]
      BY <3>1
    <3> QED BY <3>1, <3>2 DEF UserShape
  <2>2. wire = <<>> \/ wire = <<[is |-> "init"]>>
    BY DEF Init
  <2> QED BY <2>1, <2>2 DEF Init
<1>2. {} \in Few(Asks) /\ {} \in Few(Msgs) /\ <<>> \in Turn /\ ToSet(<<>>) = {} /\ IsInjective(<<>>)
      /\ <<>> \in Seq(Users)
  BY FS_EmptySet, MembersFacts DEF Few, Turn
<1>3. DriverShape
  <2>1. CASE provider = "codex" /\ drv = CodexNew
    BY <1>2, <2>1 DEF DriverShape, CodexDrv, CodexNew, CodexNeat
  <2>2. CASE provider = "claude" /\ drv = ClaudeNew
    BY <1>2, <2>2 DEF DriverShape, ClaudeDrv, ClaudeNew
  <2>3. ASSUME provider = "cursor", NEW auto \in BOOLEAN, drv = CursorNew(auto) PROVE DriverShape
    BY <1>2, <2>3 DEF DriverShape, CursorDrv, CursorNew, CursorNeat
  <2> QED BY <1>1, <2>1, <2>2, <2>3
<1>4. CliShape /\ cli.spent = {} /\ Inbox = <<>>
  <2>1. CASE provider = "codex" /\ cli = CodexCli
    BY <1>2, <2>1 DEF CliShape, CodexCliSet, CodexCli, Inbox
  <2>2. ASSUME provider = "claude", NEW mute \in BOOLEAN, cli = ClaudeCli(mute)
        PROVE  CliShape /\ cli.spent = {} /\ Inbox = <<>>
    BY <1>2, <2>2 DEF CliShape, ClaudeCliSet, ClaudeCli, Inbox
  <2>3. CASE provider = "cursor" /\ cli = CursorCli
    BY <1>2, <2>3 DEF CliShape, CursorCliSet, CursorCli, Inbox
  <2> QED BY <1>1, <2>1, <2>2, <2>3
<1>5. Knows = {} /\ Shows = {} /\ Hands = {} /\ drv.pending = {}
  BY <1>1, <1>2 DEF Knows, Shows, Hands, CodexKnows, CodexShows, CodexHands, CursorHands, CodexNew,
     ClaudeNew, CursorNew
<1>6. /\ wire \in Seq(Frames) /\ Lacks(wire, Frames \ [is : {"init"}])
      /\ \A a \in Asks : Lacks(wire, {Reply(a)}) /\ Single(wire, {Reply(a)})
  <2>1. [is |-> "init"] \in Frames /\ [is |-> "init"] \in [is : {"init"}]
    BY DEF Frames
  <2>2. \A a \in Asks : [is |-> "init"] # Reply(a)
    BY DEF Reply
  <2>3. CASE wire = <<>>
    BY <2>3 DEF Lacks, Single
  <2>4. CASE wire = <<[is |-> "init"]>>
    <3>1. wire \in Seq(Frames) /\ DOMAIN wire = {1} /\ wire[1] = [is |-> "init"]
      BY <2>1, <2>4
    <3> QED BY <2>1, <2>2, <3>1 DEF Lacks, Single
  <2> QED BY <1>1, <2>3, <2>4
<1>7. WayShape
  <2>1. <<>> \in Seq(Steps) /\ <<>> \in Seq(Lines)
    OBVIOUS
  <2> QED BY <1>1, <1>6, <2>1, ReaderIsNoCaller DEF WayShape
<1>8. Shape
  BY <1>1, <1>3, <1>4, <1>5, <1>7 DEF Shape
<1>9. ASSUME NEW a \in Asks PROVE AskOnce(a)
  <2>1. \A t \in Threads : Lacks(todo[t], ReplyOf(a)) /\ Single(todo[t], ReplyOf(a))
    BY <1>1 DEF Lacks, Single
  <2>2. Lacks(wire, {Reply(a)}) /\ Single(wire, {Reply(a)})
    BY <1>6
  <2>3. NoReply(a) /\ OneReply(a)
    BY <2>1, <2>2 DEF NoReply, OneReply, Clear, AtMostOne
  <2>4. ~AskedOf(a) /\ Single(lines, AskLines(a))
    BY <1>1 DEF AskedOf, Lacks, Single
  <2> QED BY <1>1, <1>5, <2>3, <2>4 DEF AskOnce
<1> QED BY <1>1, <1>4, <1>5, <1>6, <1>8, <1>9 DEF AsksOnce

LEMMA NotYetAsked ==
    ASSUME Shape, AsksOnce, lines # <<>>, Head(lines).is = "ask"
    PROVE  Head(lines).ask \notin drv.pending
<1> DEFINE a == Head(lines).ask
<1>1. lines \in Seq(Lines) /\ Head(lines) = lines[1] /\ 1 \in DOMAIN lines /\ Head(lines) \in Lines
  BY DEF Shape, WayShape
<1>2. a \in Asks
  BY <1>1, LineFields
<1>3. AskedOf(a)
  BY <1>1 DEF AskedOf, Lacks, AskLines
<1> QED BY <1>2, <1>3 DEF AsksOnce, AskOnce

LEMMA ShapeKept ==
    ASSUME Shape, AsksOnce, [Next]_vars
    PROVE  Shape' /\ AsksOnce'
<1>1. ASSUME NEW t, NEW new, NEW steps, Called(t, new, steps) PROVE Shape' /\ AsksOnce'
  BY <1>1, ShapeCalled, AskCalled DEF AsksOnce
<1>2. CASE OnLine
  <2>1. PICK steps : Heard(steps)
    BY <1>2, LineIs, NotYetAsked DEF OnLine
  <2> QED BY <2>1, ShapeHeard, AskHeard DEF AsksOnce
<1>3. ASSUME NEW t \in Threads, EmitStep(t) \/ WriteStep(t) \/ BrokenPipe(t) PROVE Shape' /\ AsksOnce'
  BY <1>3, ShapeThread, AskThread DEF AsksOnce
<1>4. CASE Far
  BY <1>4, ShapeFar, AskFar DEF AsksOnce
<1>5. CASE Rests
  <2>1. Shape'
    BY <1>5, ShapeRests
  <2> QED BY <1>5, <2>1, AskRests DEF AsksOnce
<1> QED BY <1>1, <1>2, <1>3, <1>4, <1>5, StepIs

-----------------------------------------------------------------------------
(* A message is in one place as far as the screen goes: held by the driver *)
(* to be shown, about to be, or shown.                                     *)

NoEcho(m) == Clear(EchoOf(m), {})
OneEcho(m) == AtMostOne(EchoOf(m), {})

EchoOnce(m) ==
    /\ OneEcho(m) /\ echoed[m] < 2
    /\ m \in Shows => NoEcho(m) /\ echoed[m] = 0
    /\ ~NoEcho(m) => echoed[m] = 0
    /\ m \notin called => m \notin Shows /\ NoEcho(m) /\ echoed[m] = 0

LEMMA EchoSends ==
    ASSUME NEW m \in Msgs
    PROVE  Sends(EchoOf(m), {})
  BY DEF Sends, EchoOf, Echo, Emit

LEMMA EchoDealt ==
    ASSUME NEW t \in Threads, NEW steps, NEW new, NEW back, NEW asks, WayShape,
           DriverMoves(t, steps, new, back, asks), todo[t] = <<>>, wire' = wire,
           NEW m \in Msgs, OneEcho(m), m \in Shows \cup new => NoEcho(m)
    PROVE  /\ OneEcho(m)'
           /\ NoEcho(m) /\ m \notin Shows \cup new => NoEcho(m)' /\ m \notin Shows'
           /\ m \in Shows' => NoEcho(m)' /\ m \in Shows \cup new
<1>1. PICK e, p, q : Bears(steps, e, p, q) /\ Moved(e, Shows \cup new, Shows')
  BY DEF DriverMoves, Deals
<1>2. e \subseteq Shows \cup new /\ Shows' = (Shows \cup new) \ e
  BY <1>1 DEF Moved
<1>3. Single(steps, EchoOf(m)) /\ (Lacks(steps, EchoOf(m)) <=> m \notin e) /\ steps \in Seq(Steps)
  BY <1>1 DEF Bears
<1> DEFINE r == [drv |-> drv', steps |-> steps]
<1>4. Compute(t, r) /\ r.steps = steps
  BY DEF Compute, DriverMoves
<1> HIDE DEF r
<1>5. Lacks(steps, EchoOf(m)) \/ NoEcho(m)
  BY <1>2, <1>3
<1>6. /\ AtMostOne(EchoOf(m), {}) => AtMostOne(EchoOf(m), {})'
      /\ Lacks(r.steps, EchoOf(m)) /\ Clear(EchoOf(m), {}) => Clear(EchoOf(m), {})'
  BY <1>3, <1>4, <1>5, ComputeFlows DEF NoEcho
<1>7. OneEcho(m)' /\ (Lacks(steps, EchoOf(m)) /\ NoEcho(m) => NoEcho(m)')
  BY <1>4, <1>6 DEF OneEcho, NoEcho, EchoOf
<1> QED BY <1>2, <1>3, <1>7

LEMMA EchoCalled ==
    ASSUME Shape, NEW t, NEW new, NEW steps, Called(t, new, steps), NEW m \in Msgs, EchoOnce(m)
    PROVE  EchoOnce(m)'
<1>1. t \in Threads /\ todo[t] = <<>> /\ wire' = wire /\ DriverMoves(t, steps, new, {}, {})
  BY DEF Called, Shape, WayShape, Threads
<1>2. new \subseteq {t} /\ t \notin called /\ called' = called \cup {t} /\ echoed' = echoed
  BY DEF Called
<1>3. WayShape /\ OneEcho(m) /\ (m \in Shows \cup new => NoEcho(m))
  BY <1>2 DEF Shape, EchoOnce
<1>4. /\ OneEcho(m)'
      /\ NoEcho(m) /\ m \notin Shows \cup new => NoEcho(m)' /\ m \notin Shows'
      /\ m \in Shows' => NoEcho(m)' /\ m \in Shows \cup new
  BY <1>1, <1>3, EchoDealt
<1> QED BY <1>2, <1>4 DEF EchoOnce

LEMMA EchoHeard ==
    ASSUME Shape, NEW steps, Heard(steps), NEW m \in Msgs, EchoOnce(m)
    PROVE  EchoOnce(m)'
<1>1. /\ "reader" \in Threads /\ todo["reader"] = <<>> /\ wire' = wire
      /\ DriverMoves("reader", steps, {}, Back(Head(lines)), NewAsks(Head(lines)))
  BY DEF Heard, Threads
<1>2. WayShape /\ OneEcho(m) /\ (m \in Shows \cup {} => NoEcho(m))
  BY DEF Shape, EchoOnce
<1>3. /\ OneEcho(m)'
      /\ NoEcho(m) /\ m \notin Shows => NoEcho(m)' /\ m \notin Shows'
      /\ m \in Shows' => NoEcho(m)' /\ m \in Shows
  BY <1>1, <1>2, EchoDealt
<1>4. echoed' = echoed /\ called' = called
  BY DEF Heard
<1> QED BY <1>3, <1>4 DEF EchoOnce

LEMMA EchoThread ==
    ASSUME Shape, NEW t \in Threads, EmitStep(t) \/ WriteStep(t) \/ BrokenPipe(t),
           NEW m \in Msgs, EchoOnce(m)
    PROVE  EchoOnce(m)'
<1>1. UNCHANGED <<called, drv, provider>>
  BY DEF EmitStep, WriteStep, BrokenPipe, procVars
<1>2. WayShape /\ Sends(EchoOf(m), {})
  BY EchoSends DEF Shape
<1>3. /\ AtMostOne(EchoOf(m), {}) => AtMostOne(EchoOf(m), {})'
      /\ Clear(EchoOf(m), {}) => Clear(EchoOf(m), {})'
      /\ EmitStep(t) /\ AtMostOne(EchoOf(m), {}) /\ Head(todo[t]) \in EchoOf(m) => Clear(EchoOf(m), {})'
  BY <1>2, EmitFlows, WriteFlows, BrokenFlows
<1>4. /\ OneEcho(m) => OneEcho(m)'
      /\ NoEcho(m) => NoEcho(m)'
      /\ EmitStep(t) /\ OneEcho(m) /\ Head(todo[t]) = Echo(m) => NoEcho(m)'
  BY <1>3 DEF OneEcho, NoEcho, EchoOf
<1>5. Shows' = Shows
  BY <1>1, DriverStays
<1>6. CASE echoed' = echoed
  BY <1>1, <1>4, <1>5, <1>6 DEF EchoOnce
<1>7. CASE EmitStep(t)
  <2> DEFINE x == Head(todo[t])
  <2>1. x \in Steps /\ x.do = "emit" /\ Show(x.it) /\ todo[t] \in Seq(Steps) /\ todo[t] # <<>>
    <3>1. todo[t] \in Seq(Steps) /\ todo[t] # <<>>
      BY <1>2, <1>7 DEF WayShape, EmitStep
    <3> QED BY <1>7, <3>1, TailFacts DEF EmitStep
  <2>2. x.it \in Events /\ x = Emit(x.it)
    BY <2>1, StepFields
  <2>3. CASE x.it.is # "echo"
    BY <1>6, <2>1, <2>3 DEF Show
  <2>4. CASE x.it.is = "echo"
    <3>1. x.it.msg \in Msgs /\ x = Echo(x.it.msg) /\ echoed' = [echoed EXCEPT ![x.it.msg] = Once(@)]
      BY <2>1, <2>2, <2>4, EventFields DEF Show
    <3>2. echoed \in [Msgs -> 0..2]
      BY DEF Shape, UserShape
    <3> HIDE DEF x
    <3>3. CASE x.it.msg # m
      <4>1. echoed'[m] = echoed[m]
        BY <3>1, <3>2, <3>3
      <4> QED BY <1>1, <1>4, <1>5, <4>1 DEF EchoOnce
    <3>4. CASE x.it.msg = m
      <4>1. ~NoEcho(m)
        <5>1. Head(todo[t]) \in EchoOf(m)
          BY <3>1, <3>4 DEF x, EchoOf
        <5>2. ~Lacks(todo[t], EchoOf(m))
          BY <2>1, <5>1, TailFacts
        <5> QED BY <5>2 DEF NoEcho, Clear
      <4>2. NoEcho(m)'
        BY <1>4, <1>7, <3>1, <3>4 DEF EchoOnce, x
      <4>3. echoed'[m] = 1
        BY <3>1, <3>2, <3>4, <4>1 DEF EchoOnce, Once
      <4> QED BY <1>1, <1>4, <1>5, <4>1, <4>2, <4>3 DEF EchoOnce
    <3> QED BY <3>3, <3>4
  <2> QED BY <2>3, <2>4
<1>8. CASE WriteStep(t)
  BY <1>6, <1>8 DEF WriteStep, userVars
<1>9. CASE BrokenPipe(t)
  BY <1>6, <1>9 DEF BrokenPipe, userVars, Show
<1> QED BY <1>7, <1>8, <1>9

LEMMA FarWire ==
    ASSUME Shape, Far, NEW S, NEW F
    PROVE  /\ AtMostOne(S, F) => AtMostOne(S, F)'
           /\ Clear(S, F) => Clear(S, F)'
<1>1. todo' = todo /\ (wire' = wire \/ (wire # <<>> /\ wire' = Tail(wire))) /\ WayShape
  BY DEF Far, FarShape, Elsewhere, Shape
<1>2. CASE wire' = wire
  BY <1>1, <1>2, StillFlows
<1>3. CASE wire # <<>> /\ wire' = Tail(wire)
  BY <1>1, <1>3, ReadFlows
<1> QED BY <1>1, <1>2, <1>3

LEMMA EchoFar ==
    ASSUME Shape, Far, NEW m \in Msgs, EchoOnce(m)
    PROVE  EchoOnce(m)'
<1>1. UNCHANGED <<called, drv, provider, echoed>>
  BY DEF Far, FarShape, Elsewhere, userVars
<1>2. /\ AtMostOne(EchoOf(m), {}) => AtMostOne(EchoOf(m), {})'
      /\ Clear(EchoOf(m), {}) => Clear(EchoOf(m), {})'
  BY FarWire
<1>3. (OneEcho(m) => OneEcho(m)') /\ (NoEcho(m) => NoEcho(m)')
  BY <1>2 DEF OneEcho, NoEcho, EchoOf
<1>4. Shows' = Shows
  BY <1>1, DriverStays
<1> QED BY <1>1, <1>3, <1>4 DEF EchoOnce

LEMMA EchoRests ==
    ASSUME Rests, NEW m \in Msgs, EchoOnce(m)
    PROVE  EchoOnce(m)'
<1>1. UNCHANGED <<called, drv, provider, echoed, todo, wire>>
  BY DEF Rests
<1>2. Shows' = Shows
  BY <1>1, DriverStays
<1> QED BY <1>1, <1>2 DEF EchoOnce, NoEcho, OneEcho, Clear, AtMostOne, Lacks, Single, EchoOf

LEMMA EchoKept ==
    ASSUME Shape, AsksOnce, [Next]_vars, NEW m \in Msgs, EchoOnce(m)
    PROVE  EchoOnce(m)'
<1>1. CASE OnLine
  <2>1. PICK steps : Heard(steps)
    BY <1>1, LineIs, NotYetAsked DEF OnLine
  <2> QED BY <2>1, EchoHeard
<1> QED BY <1>1, StepIs, EchoCalled, EchoThread, EchoFar, EchoRests

LEMMA EchoStarts ==
    ASSUME Init, NEW m \in Msgs
    PROVE  EchoOnce(m)
<1>1. /\ todo = [t \in Threads |-> <<>>] /\ Shows = {} /\ echoed = [n \in Msgs |-> 0]
  BY Start
<1>2. \A t \in Threads : Lacks(todo[t], EchoOf(m)) /\ Single(todo[t], EchoOf(m))
  BY <1>1 DEF Lacks, Single
<1>3. Lacks(wire, {}) /\ Single(wire, {})
  BY DEF Lacks, Single
<1> QED BY <1>1, <1>2, <1>3 DEF EchoOnce, NoEcho, OneEcho, Clear, AtMostOne

-----------------------------------------------------------------------------
(* And in one place on its way to the model: held by the driver to be      *)
(* handed over, in a frame, in the CLI's inbox, or in a turn.              *)

FramesOf(m) == {f \in Frames : Brings(f, m)}
NoPrompt(m) == Clear(PromptOf(m), FramesOf(m))
OnePrompt(m) == AtMostOne(PromptOf(m), FramesOf(m))
Waits(m) == ~Lacks(Inbox, Carries(m))
Unused(m) == m \notin Hands /\ NoPrompt(m) /\ ~Waits(m) /\ turns[m] = 0

PromptOnce(m) ==
    /\ OnePrompt(m) /\ Single(Inbox, Carries(m)) /\ turns[m] < 2
    /\ m \in Hands => NoPrompt(m) /\ ~Waits(m) /\ turns[m] = 0
    /\ ~NoPrompt(m) => ~Waits(m) /\ turns[m] = 0
    /\ Waits(m) => turns[m] = 0
    /\ m \notin called => Unused(m)

Waiting == IF provider = "codex" THEN Msgs ELSE Users

LEMMA InboxType ==
    ASSUME Shape
    PROVE  Inbox \in Seq(Waiting)
<1>1. DriverShape /\ CliShape /\ <<>> \in Seq(Users)
  BY DEF Shape
<1>2. CASE provider = "codex"
  BY <1>1, <1>2, CodexCliFields DEF CliShape, Inbox, Waiting, Turn
<1>3. CASE provider = "claude"
  BY <1>1, <1>3, ClaudeCliFields DEF CliShape, Inbox, Waiting
<1>4. CASE provider = "cursor"
  BY <1>1, <1>4 DEF Inbox, Waiting
<1> QED BY <1>1, <1>2, <1>3, <1>4 DEF DriverShape

LEMMA PromptSends ==
    ASSUME NEW m \in Msgs
    PROVE  Sends(PromptOf(m), FramesOf(m))
<1>1. ASSUME NEW x \in Steps, x.do = "write" PROVE x \in PromptOf(m) <=> x.it \in FramesOf(m)
  <2>1. x.it \in Frames
    BY <1>1, StepFields DEF Emit
  <2> QED BY <1>1, <2>1 DEF PromptOf, FramesOf
<1> QED BY <1>1 DEF Sends

LEMMA PromptDealt ==
    ASSUME NEW t \in Threads, NEW steps, NEW new, NEW back, NEW asks, WayShape,
           DriverMoves(t, steps, new, back, asks), todo[t] = <<>>, wire' = wire,
           NEW m \in Msgs, OnePrompt(m), m \in Hands \cup new \cup back => NoPrompt(m)
    PROVE  /\ OnePrompt(m)'
           /\ NoPrompt(m) /\ m \notin Hands \cup new \cup back => NoPrompt(m)' /\ m \notin Hands'
           /\ m \in Hands' => NoPrompt(m)' /\ m \in Hands \cup new \cup back
<1>1. PICK e, p, q : Bears(steps, e, p, q) /\ Moved(p, Hands \cup new \cup back, Hands')
  BY DEF DriverMoves, Deals
<1>2. p \subseteq Hands \cup new \cup back /\ Hands' = (Hands \cup new \cup back) \ p
  BY <1>1 DEF Moved
<1>3. Single(steps, PromptOf(m)) /\ (Lacks(steps, PromptOf(m)) <=> m \notin p) /\ steps \in Seq(Steps)
  BY <1>1 DEF Bears
<1> DEFINE r == [drv |-> drv', steps |-> steps]
<1>4. Compute(t, r) /\ r.steps = steps
  BY DEF Compute, DriverMoves
<1> HIDE DEF r
<1>5. Lacks(steps, PromptOf(m)) \/ NoPrompt(m)
  BY <1>2, <1>3
<1>6. /\ AtMostOne(PromptOf(m), FramesOf(m)) => AtMostOne(PromptOf(m), FramesOf(m))'
      /\ Lacks(r.steps, PromptOf(m)) /\ Clear(PromptOf(m), FramesOf(m)) => Clear(PromptOf(m), FramesOf(m))'
  BY <1>3, <1>4, <1>5, ComputeFlows DEF NoPrompt
<1>7. OnePrompt(m)' /\ (Lacks(steps, PromptOf(m)) /\ NoPrompt(m) => NoPrompt(m)')
  BY <1>4, <1>6 DEF OnePrompt, NoPrompt, PromptOf, FramesOf
<1> QED BY <1>2, <1>3, <1>7

LEMMA InboxStays ==
    ASSUME cli' = cli, provider' = provider
    PROVE  /\ Inbox' = Inbox
           /\ \A m \in Msgs : Waits(m)' = Waits(m) /\ Single(Inbox, Carries(m))' = Single(Inbox, Carries(m))
  BY DEF Inbox, Waits, Carries, Single, Lacks

LEMMA PromptCalled ==
    ASSUME Shape, NEW t, NEW new, NEW steps, Called(t, new, steps), NEW m \in Msgs, PromptOnce(m)
    PROVE  PromptOnce(m)'
<1>1. t \in Threads /\ todo[t] = <<>> /\ wire' = wire /\ DriverMoves(t, steps, new, {}, {})
  BY DEF Called, Shape, WayShape, Threads
<1>2. new \subseteq {t} /\ t \notin called /\ called' = called \cup {t} /\ turns' = turns
  BY DEF Called
<1>3. WayShape /\ OnePrompt(m) /\ (m \in Hands \cup new \cup {} => NoPrompt(m))
  BY <1>2 DEF Shape, PromptOnce, Unused
<1>4. /\ OnePrompt(m)'
      /\ NoPrompt(m) /\ m \notin Hands \cup new => NoPrompt(m)' /\ m \notin Hands'
      /\ m \in Hands' => NoPrompt(m)' /\ m \in Hands \cup new
  BY <1>1, <1>3, PromptDealt
<1>5. Waits(m)' = Waits(m) /\ Single(Inbox, Carries(m))' = Single(Inbox, Carries(m))
  BY InboxStays DEF Called
<1> QED BY <1>2, <1>4, <1>5 DEF PromptOnce, Unused

LEMMA PromptHeard ==
    ASSUME Shape, NEW steps, Heard(steps), NEW m \in Msgs, PromptOnce(m),
           m \in Back(Head(lines)) => Unused(m) /\ m \in called
    PROVE  PromptOnce(m)'
<1> DEFINE back == Back(Head(lines))
<1>1. /\ "reader" \in Threads /\ todo["reader"] = <<>> /\ wire' = wire
      /\ DriverMoves("reader", steps, {}, back, NewAsks(Head(lines)))
  BY DEF Heard, Threads
<1> HIDE DEF back
<1>2. WayShape /\ OnePrompt(m) /\ (m \in Hands \cup {} \cup back => NoPrompt(m))
  BY DEF Shape, PromptOnce, Unused, back
<1>3. /\ OnePrompt(m)'
      /\ NoPrompt(m) /\ m \notin Hands \cup back => NoPrompt(m)' /\ m \notin Hands'
      /\ m \in Hands' => NoPrompt(m)' /\ m \in Hands \cup back
  BY <1>1, <1>2, PromptDealt
<1>4. turns' = turns /\ called' = called
  BY DEF Heard
<1>5. Waits(m)' = Waits(m) /\ Single(Inbox, Carries(m))' = Single(Inbox, Carries(m))
  BY InboxStays DEF Heard
<1> QED BY <1>3, <1>4, <1>5 DEF PromptOnce, Unused, back

LEMMA PromptThread ==
    ASSUME Shape, NEW t \in Threads, EmitStep(t) \/ WriteStep(t) \/ BrokenPipe(t),
           NEW m \in Msgs, PromptOnce(m)
    PROVE  PromptOnce(m)'
<1>1. UNCHANGED <<called, drv, provider, cli, turns>>
  BY DEF EmitStep, WriteStep, BrokenPipe, procVars
<1>2. WayShape /\ Sends(PromptOf(m), FramesOf(m))
  BY PromptSends DEF Shape
<1>3. /\ AtMostOne(PromptOf(m), FramesOf(m)) => AtMostOne(PromptOf(m), FramesOf(m))'
      /\ Clear(PromptOf(m), FramesOf(m)) => Clear(PromptOf(m), FramesOf(m))'
  BY <1>2, EmitFlows, WriteFlows, BrokenFlows
<1>4. (OnePrompt(m) => OnePrompt(m)') /\ (NoPrompt(m) => NoPrompt(m)')
  BY <1>3 DEF OnePrompt, NoPrompt, PromptOf, FramesOf
<1>5. Hands' = Hands /\ Waits(m)' = Waits(m) /\ Single(Inbox, Carries(m))' = Single(Inbox, Carries(m))
  BY <1>1, DriverStays, InboxStays
<1> QED BY <1>1, <1>4, <1>5 DEF PromptOnce, Unused

LEMMA PromptRests ==
    ASSUME Rests, NEW m \in Msgs, PromptOnce(m)
    PROVE  PromptOnce(m)'
<1>1. UNCHANGED <<called, drv, provider, cli, turns, todo, wire>>
  BY DEF Rests
<1>2. Hands' = Hands /\ Waits(m)' = Waits(m) /\ Single(Inbox, Carries(m))' = Single(Inbox, Carries(m))
  BY <1>1, DriverStays, InboxStays
<1>3. NoPrompt(m)' = NoPrompt(m) /\ OnePrompt(m)' = OnePrompt(m)
  BY <1>1 DEF NoPrompt, OnePrompt, Clear, AtMostOne, Lacks, Single, PromptOf, FramesOf
<1> QED BY <1>1, <1>2, <1>3 DEF PromptOnce, Unused

LEMMA PromptFar ==
    ASSUME Shape, Far, NEW m \in Msgs, PromptOnce(m)
    PROVE  PromptOnce(m)'
<1>1. PICK new : FarShape(new) /\ FarPrompts
  BY DEF Far
<1>2. UNCHANGED <<drv, todo, called, provider>> /\ WayShape
  BY <1>1 DEF FarShape, Elsewhere, Shape
<1>3. Hands' = Hands /\ Carries(m)' = Carries(m) /\ turns \in [Msgs -> 0..2]
  BY <1>2, DriverStays DEF Carries, Shape, UserShape
<1>4. /\ AtMostOne(PromptOf(m), FramesOf(m)) => AtMostOne(PromptOf(m), FramesOf(m))'
      /\ Clear(PromptOf(m), FramesOf(m)) => Clear(PromptOf(m), FramesOf(m))'
  BY FarWire
<1>5. (OnePrompt(m) => OnePrompt(m)') /\ (NoPrompt(m) => NoPrompt(m)')
  BY <1>4 DEF OnePrompt, NoPrompt, PromptOf, FramesOf
<1>6. ASSUME wire # <<>>, wire' = Tail(wire), Brings(Head(wire), m)
      PROVE  NoPrompt(m)' /\ ~NoPrompt(m)
  <2>1. wire \in Seq(Frames)
    BY <1>2 DEF WayShape
  <2>2. Head(wire) \in FramesOf(m)
    BY <1>6, <2>1, TailFacts DEF FramesOf
  <2>3. Clear(PromptOf(m), FramesOf(m))' /\ ~Clear(PromptOf(m), FramesOf(m))
    BY <1>2, <1>6, <2>2, ReadFlows DEF PromptOnce, OnePrompt
  <2> QED BY <2>3 DEF NoPrompt, PromptOf, FramesOf
<1>7. Inbox \in Seq(Waiting)
  BY InboxType
<1>8. (Waits(m)' <=> ~Lacks(Inbox', Carries(m))) /\ (Single(Inbox, Carries(m))' <=> Single(Inbox', Carries(m)))
  BY <1>3 DEF Waits, Lacks, Single
<1>9. CASE /\ wire # <<>> /\ wire' = Tail(wire) /\ Inbox' = Inbox
           /\ turns' = [n \in Msgs |-> IF n \in Taken(Head(wire)) THEN Once(turns[n]) ELSE turns[n]]
  <2>1. m \in Taken(Head(wire)) <=> Brings(Head(wire), m)
    BY DEF Taken
  <2>2. Waits(m)' = Waits(m) /\ (Single(Inbox, Carries(m))' <=> Single(Inbox, Carries(m)))
    BY <1>8, <1>9 DEF Waits
  <2>3. CASE Brings(Head(wire), m)
    <3>1. turns'[m] = Once(turns[m])
      BY <1>9, <2>1, <2>3
    <3>2. NoPrompt(m)' /\ ~NoPrompt(m)
      BY <1>6, <1>9, <2>3
    <3>3. turns'[m] = 1
      BY <3>1, <3>2 DEF PromptOnce, Once
    <3> QED BY <1>2, <1>3, <1>5, <2>2, <3>2, <3>3 DEF PromptOnce, Unused
  <2>4. CASE ~Brings(Head(wire), m)
    <3>1. turns'[m] = turns[m]
      BY <1>9, <2>1, <2>4
    <3> QED BY <1>2, <1>3, <1>5, <2>2, <3>1 DEF PromptOnce, Unused
  <2> QED BY <2>3, <2>4
<1>10. CASE /\ wire # <<>> /\ wire' = Tail(wire) /\ turns' = turns
            /\ \E x : /\ Inbox' = Append(Inbox, x)
                      /\ x \in (IF provider = "codex" THEN Msgs ELSE Users)
                      /\ \A n \in Msgs : x \in Carries(n) <=> Brings(Head(wire), n)
  <2>1. PICK x : /\ Inbox' = Append(Inbox, x) /\ x \in Waiting
                 /\ x \in Carries(m) <=> Brings(Head(wire), m)
    BY <1>10 DEF Waiting
  <2>2. /\ Lacks(Inbox', Carries(m)) <=> Lacks(Inbox, Carries(m)) /\ x \notin Carries(m)
        /\ Single(Inbox, Carries(m)) /\ (Lacks(Inbox, Carries(m)) \/ x \notin Carries(m))
              => Single(Inbox', Carries(m))
    BY <1>7, <2>1, AppendFacts
  <2>3. CASE Brings(Head(wire), m)
    <3>1. NoPrompt(m)' /\ ~NoPrompt(m)
      BY <1>6, <1>10, <2>3
    <3> QED BY <1>2, <1>3, <1>5, <1>8, <1>10, <2>2, <3>1 DEF PromptOnce, Unused, Waits
  <2>4. CASE ~Brings(Head(wire), m)
    <3>1. (Waits(m)' <=> Waits(m)) /\ Single(Inbox, Carries(m))'
      BY <1>8, <2>1, <2>2, <2>4 DEF PromptOnce, Waits
    <3> QED BY <1>2, <1>3, <1>5, <1>10, <3>1 DEF PromptOnce, Unused
  <2> QED BY <2>3, <2>4
<1>11. CASE /\ wire' = wire /\ Inbox # <<>> /\ Inbox' = Tail(Inbox)
            /\ turns' = [n \in Msgs |-> IF Head(Inbox) \in Carries(n) THEN Once(turns[n]) ELSE turns[n]]
  <2>1. /\ Lacks(Inbox, Carries(m)) => Lacks(Inbox', Carries(m)) /\ Head(Inbox) \notin Carries(m)
        /\ Single(Inbox, Carries(m)) => Single(Inbox', Carries(m))
        /\ Single(Inbox, Carries(m)) /\ Head(Inbox) \in Carries(m) => Lacks(Inbox', Carries(m))
    BY <1>7, <1>11, TailFacts
  <2>2. CASE Head(Inbox) \in Carries(m)
    <3>1. Waits(m) /\ ~Waits(m)'
      BY <1>8, <2>1, <2>2 DEF PromptOnce, Waits
    <3>2. turns'[m] = Once(turns[m])
      BY <1>11, <2>2
    <3>3. turns'[m] = 1
      BY <3>1, <3>2 DEF PromptOnce, Once
    <3> QED BY <1>2, <1>3, <1>5, <1>8, <2>1, <3>1, <3>3 DEF PromptOnce, Unused
  <2>3. CASE Head(Inbox) \notin Carries(m)
    <3>1. turns'[m] = turns[m]
      BY <1>11, <2>3
    <3>2. (Waits(m)' => Waits(m)) /\ Single(Inbox, Carries(m))'
      BY <1>8, <2>1 DEF PromptOnce, Waits
    <3> QED BY <1>2, <1>3, <1>5, <3>1, <3>2 DEF PromptOnce, Unused
  <2> QED BY <2>2, <2>3
<1>12. CASE turns' = turns /\ (Inbox' = Inbox \/ Inbox' = <<>>)
  <2>1. Lacks(<<>>, Carries(m)) /\ Single(<<>>, Carries(m))
    BY DEF Lacks, Single
  <2>2. (Waits(m)' => Waits(m)) /\ Single(Inbox, Carries(m))'
    BY <1>8, <1>12, <2>1 DEF PromptOnce, Waits
  <2> QED BY <1>2, <1>3, <1>5, <1>12, <2>2 DEF PromptOnce, Unused
<1> QED BY <1>1, <1>9, <1>10, <1>11, <1>12 DEF FarPrompts

LEMMA PromptStarts ==
    ASSUME Init, NEW m \in Msgs
    PROVE  PromptOnce(m)
<1>1. /\ todo = [t \in Threads |-> <<>>] /\ Hands = {} /\ turns = [n \in Msgs |-> 0] /\ Inbox = <<>>
      /\ Lacks(wire, Frames \ [is : {"init"}]) /\ Shape
  BY Start
<1>2. \A t \in Threads : Lacks(todo[t], PromptOf(m)) /\ Single(todo[t], PromptOf(m))
  BY <1>1 DEF Lacks, Single
<1>3. FramesOf(m) \subseteq Frames \ [is : {"init"}]
  BY DEF FramesOf, Brings
<1>4. Lacks(wire, FramesOf(m))
  BY <1>1, <1>3 DEF Lacks
<1>5. Single(wire, FramesOf(m))
  BY <1>4 DEF Lacks, Single
<1>6. NoPrompt(m) /\ OnePrompt(m)
  BY <1>2, <1>4, <1>5 DEF NoPrompt, OnePrompt, Clear, AtMostOne
<1>7. ~Waits(m) /\ Single(Inbox, Carries(m))
  BY <1>1 DEF Waits, Lacks, Single
<1> QED BY <1>1, <1>6, <1>7 DEF PromptOnce, Unused

-----------------------------------------------------------------------------
(* A Codex session: where a steered message is, and what the driver knows  *)
(* of the turn that the app server runs.                                   *)

Writing(F) == {x \in Steps : x.do = "write" /\ x.it \in F}
Free(F) == Clear(Writing(F), F)

SteerFrames(m) == {f \in Frames : f.is = "turn/steer" /\ f.msg = m}
StartFrames(m) == {f \in FramesOf(m) : f.is # "turn/steer"}
SteersTo(T) == {f \in Frames : f.is = "turn/steer" /\ f.turn = T}
Blank == {f \in Frames : f.is \in {"turn/start", "compact"} /\ f.msgs = <<>>}

\* In a list of lines: none of Q follows one of P; x comes before any of Q.
NoneAfter(s, P, Q) == \A i, j \in DOMAIN s : s[i] \in P /\ s[j] \in Q => j <= i
Comes(s, x, Q) == \E i \in DOMAIN s : s[i] = x /\ \A j \in DOMAIN s : s[j] \in Q => i < j

Item(m) == [is |-> "item", msg |-> m]
Opens(T) == {l \in Opening : l.turn = T}
Worked(T) == \E m \in Msgs : m \in ToSet(T) /\ turns[m] # 0
Live == drv.active # None /\ Lacks(lines, Completions)

\* A message that was steered and not read yet, as far as the driver knows.
SteerAsked(m) ==
    ~Free(SteerFrames(m)) => m \in drv.unanswered /\ m \notin cli.acks /\ Lacks(lines, SteerLines(m))
SteerRefused(m) ==
    ~Lacks(lines, {SteerNo(m)}) => ~Waits(m) /\ (m \in drv.steers => turns[m] = 0)
SteerHeld(m) ==
    m \in drv.steers =>
        /\ Free(StartFrames(m))
        /\ Waits(m) => Live
        /\ turns[m] # 0 => drv.active # None /\ Comes(lines, Item(m), Completions)
SteerUnasked(m) == m \notin called => m \notin cli.acks /\ Lacks(lines, SteerLines(m))

SteerPlace(m) == SteerAsked(m) /\ SteerRefused(m) /\ SteerHeld(m) /\ SteerUnasked(m)

\* A turn that the driver takes for active, hears of or steers to has been worked on.
TurnKnown(T) ==
    drv.active = T \/ ~Lacks(lines, Opens(T)) \/ ~Free(SteersTo(T)) => Worked(T)

\* The end of the turn that runs is not told before it ends.
TurnRuns(T) ==
    cli.turn = T =>
        /\ drv.active = T => Lacks(lines, Completions)
        /\ NoneAfter(lines, Opens(T), Completions)
        /\ ~Free(SteersTo(T)) => Live

CodexPlace ==
    /\ \A m \in Msgs : SteerPlace(m)
    /\ \A T \in Turn : TurnKnown(T) /\ TurnRuns(T)
    /\ Free(Blank)

LEMMA WritingSends ==
    ASSUME NEW F
    PROVE  Sends(Writing(F), F)
  BY DEF Sends, Writing

LEMMA FreeLess ==
    ASSUME NEW F, NEW G, F \subseteq G, Free(G)
    PROVE  Free(F)
<1>1. Writing(F) \subseteq Writing(G)
  BY DEF Writing
<1> QED BY <1>1 DEF Free, Clear, Lacks

LEMMA FreeFrames ==
    ASSUME NEW m \in Msgs
    PROVE  /\ NoPrompt(m) => Free(StartFrames(m)) /\ Free(SteerFrames(m))
           /\ Free(StartFrames(m)) /\ Free(SteerFrames(m)) => NoPrompt(m)
<1>1. Writing(FramesOf(m)) = PromptOf(m)
  <2>1. ASSUME NEW x \in Steps, x.do = "write" PROVE x.it \in Frames
    BY <2>1, StepFields DEF Emit
  <2> QED BY <2>1 DEF Writing, FramesOf, PromptOf
<1>2. NoPrompt(m) <=> Free(FramesOf(m))
  BY <1>1 DEF NoPrompt, Free
<1>3. /\ StartFrames(m) \subseteq FramesOf(m) /\ SteerFrames(m) \subseteq FramesOf(m)
  BY DEF StartFrames, SteerFrames, FramesOf, Brings
<1>4. FramesOf(m) \subseteq StartFrames(m) \cup SteerFrames(m)
  BY DEF StartFrames, SteerFrames, FramesOf, Brings
<1>5. ASSUME Free(StartFrames(m)), Free(SteerFrames(m)) PROVE Free(FramesOf(m))
  <2>1. Writing(FramesOf(m)) \subseteq Writing(StartFrames(m)) \cup Writing(SteerFrames(m))
    BY <1>4 DEF Writing
  <2> QED BY <1>4, <1>5, <2>1 DEF Free, Clear, Lacks
<1> QED BY <1>2, <1>3, <1>5, FreeLess

\* What becomes of a frame that is not on its way.
LEMMA FreeRead ==
    ASSUME Shape, NEW F, Free(F), wire # <<>>
    PROVE  Head(wire) \notin F
<1>1. wire \in Seq(Frames)
  BY DEF Shape, WayShape
<1>2. Lacks(wire, F)
  BY DEF Free, Clear
<1> QED BY <1>1, <1>2, TailFacts

LEMMA FreeFar ==
    ASSUME Shape, Far, NEW F, Free(F)
    PROVE  Free(F)'
<1>1. Clear(Writing(F), F) => Clear(Writing(F), F)'
  BY FarWire
<1> QED BY <1>1 DEF Free, Writing

LEMMA FreeThread ==
    ASSUME Shape, NEW t \in Threads, EmitStep(t) \/ WriteStep(t) \/ BrokenPipe(t), NEW F, Free(F)
    PROVE  Free(F)'
<1>1. WayShape /\ Sends(Writing(F), F)
  BY WritingSends DEF Shape
<1>2. Clear(Writing(F), F) => Clear(Writing(F), F)'
  BY <1>1, EmitFlows, WriteFlows, BrokenFlows
<1> QED BY <1>2 DEF Free, Writing

LEMMA FreeRests ==
    ASSUME Rests, NEW F
    PROVE  Free(F)' = Free(F)
  BY DEF Rests, Free, Clear, Lacks, Writing

LEMMA FreeMoves ==
    ASSUME WayShape, NEW t \in Threads, NEW steps, NEW new, NEW back, NEW asks,
           DriverMoves(t, steps, new, back, asks), todo[t] = <<>>, wire' = wire,
           NEW F, Free(F), Lacks(steps, Writing(F))
    PROVE  Free(F)'
<1>1. steps \in Seq(Steps)
  BY StepsDealt
<1> DEFINE r == [drv |-> drv', steps |-> steps]
<1>2. Compute(t, r) /\ r.steps = steps
  BY DEF Compute, DriverMoves
<1> HIDE DEF r
<1>3. Single(steps, Writing(F))
  BY DEF Single, Lacks
<1>4. Lacks(r.steps, Writing(F)) /\ Clear(Writing(F), F) => Clear(Writing(F), F)'
  BY <1>2, <1>3, ComputeFlows DEF Free
<1> QED BY <1>2, <1>4 DEF Free, Writing

\* Lists of lines that lose their head, or grow.
LEMMA TailOrder ==
    ASSUME NEW A, NEW s \in Seq(A), s # <<>>, NEW P, NEW Q, NEW x
    PROVE  /\ NoneAfter(s, P, Q) => NoneAfter(Tail(s), P, Q)
           /\ NoneAfter(s, P, Q) /\ Head(s) \in P => Lacks(Tail(s), Q)
           /\ Comes(s, x, Q) /\ Head(s) # x => Head(s) \notin Q /\ Comes(Tail(s), x, Q)
           /\ Comes(s, x, Q) /\ x \notin Q => Head(s) \notin Q
<1>1. /\ Len(s) \in Nat /\ Len(s) > 0 /\ DOMAIN s = 1 .. Len(s) /\ DOMAIN Tail(s) = 1 .. (Len(s) - 1)
      /\ \A i \in DOMAIN Tail(s) : Tail(s)[i] = s[i + 1] /\ i + 1 \in DOMAIN s
      /\ Head(s) = s[1] /\ 1 \in DOMAIN s
  OBVIOUS
<1>2. ASSUME NoneAfter(s, P, Q) PROVE NoneAfter(Tail(s), P, Q)
  <2>1. ASSUME NEW i \in DOMAIN Tail(s), NEW j \in DOMAIN Tail(s), Tail(s)[i] \in P, Tail(s)[j] \in Q
        PROVE  j <= i
    <3>1. i + 1 \in DOMAIN s /\ j + 1 \in DOMAIN s /\ s[i + 1] \in P /\ s[j + 1] \in Q
      BY <1>1, <2>1
    <3>2. j + 1 <= i + 1
      BY <1>2, <3>1 DEF NoneAfter
    <3> QED BY <1>1, <3>2
  <2> QED BY <2>1 DEF NoneAfter
<1>3. ASSUME NoneAfter(s, P, Q), Head(s) \in P PROVE Lacks(Tail(s), Q)
  <2>1. ASSUME NEW j \in DOMAIN Tail(s), Tail(s)[j] \in Q PROVE FALSE
    <3>1. j + 1 \in DOMAIN s /\ s[1] \in P /\ s[j + 1] \in Q
      BY <1>1, <1>3, <2>1
    <3>2. j + 1 <= 1
      BY <1>1, <1>3, <3>1 DEF NoneAfter
    <3> QED BY <1>1, <3>2
  <2> QED BY <2>1 DEF Lacks
<1>4. ASSUME Comes(s, x, Q)
      PROVE  /\ Head(s) # x => Head(s) \notin Q /\ Comes(Tail(s), x, Q)
             /\ x \notin Q => Head(s) \notin Q
  <2>1. PICK i \in DOMAIN s : s[i] = x /\ \A j \in DOMAIN s : s[j] \in Q => i < j
    BY <1>4 DEF Comes
  <2>2. s[1] \notin Q
    BY <1>1, <2>1
  <2>3. ASSUME Head(s) # x PROVE Comes(Tail(s), x, Q)
    <3>1. i \in 1 .. Len(s) /\ i # 1
      BY <1>1, <2>1, <2>3
    <3>2. i - 1 \in DOMAIN Tail(s) /\ Tail(s)[i - 1] = x
      BY <1>1, <2>1, <3>1
    <3>3. ASSUME NEW j \in DOMAIN Tail(s), Tail(s)[j] \in Q PROVE i - 1 < j
      <4>1. j + 1 \in DOMAIN s /\ s[j + 1] \in Q
        BY <1>1, <3>3
      <4>2. i < j + 1
        BY <2>1, <4>1
      <4> QED BY <1>1, <3>1, <4>2
    <3> QED BY <3>2, <3>3 DEF Comes
  <2> QED BY <1>1, <2>2, <2>3
<1> QED BY <1>2, <1>3, <1>4

LEMMA JoinOrder ==
    ASSUME NEW A, NEW s \in Seq(A), NEW t \in Seq(A), NEW P, NEW Q, NEW x
    PROVE  /\ NoneAfter(s, P, Q) /\ Lacks(t, Q) => NoneAfter(s \o t, P, Q)
           /\ Lacks(s, P) /\ Lacks(t, Q) => NoneAfter(s \o t, P, Q)
           /\ Comes(s, x, Q) => Comes(s \o t, x, Q)
           /\ Lacks(s, Q) /\ x \notin Q => Comes(s \o <<x>>, x, Q)
<1>1. /\ Len(s) \in Nat /\ Len(t) \in Nat /\ DOMAIN s = 1 .. Len(s) /\ DOMAIN t = 1 .. Len(t)
      /\ DOMAIN (s \o t) = 1 .. (Len(s) + Len(t))
      /\ \A i \in DOMAIN (s \o t) : \/ i \in DOMAIN s /\ (s \o t)[i] = s[i]
                                    \/ i - Len(s) \in DOMAIN t /\ i > Len(s) /\ (s \o t)[i] = t[i - Len(s)]
      /\ \A i \in DOMAIN s : (s \o t)[i] = s[i] /\ i \in DOMAIN (s \o t)
  OBVIOUS
<1>2. ASSUME NoneAfter(s, P, Q) \/ Lacks(s, P), Lacks(t, Q) PROVE NoneAfter(s \o t, P, Q)
  <2>1. ASSUME NEW i \in DOMAIN (s \o t), NEW j \in DOMAIN (s \o t), (s \o t)[i] \in P, (s \o t)[j] \in Q
        PROVE  j <= i
    <3>1. j \in DOMAIN s /\ s[j] \in Q
      BY <1>1, <1>2, <2>1 DEF Lacks
    <3>2. CASE i \in DOMAIN s /\ s[i] \in P
      BY <1>2, <3>1, <3>2 DEF NoneAfter, Lacks
    <3>3. CASE i > Len(s)
      BY <1>1, <3>1, <3>3, <2>1
    <3> QED BY <1>1, <2>1, <3>2, <3>3
  <2> HIDE <1>1
  <2> QED BY <2>1 DEF NoneAfter
<1>3. ASSUME Comes(s, x, Q) PROVE Comes(s \o t, x, Q)
  <2>1. PICK i \in DOMAIN s : s[i] = x /\ \A j \in DOMAIN s : s[j] \in Q => i < j
    BY <1>3 DEF Comes
  <2>2. i \in DOMAIN (s \o t) /\ (s \o t)[i] = x
    BY <1>1, <2>1
  <2>3. ASSUME NEW j \in DOMAIN (s \o t), (s \o t)[j] \in Q PROVE i < j
    BY <1>1, <2>1, <2>3
  <2> HIDE <1>1
  <2> QED BY <2>2, <2>3 DEF Comes
<1>4. ASSUME Lacks(s, Q), x \notin Q PROVE Comes(s \o <<x>>, x, Q)
  <2> DEFINE u == s \o <<x>>
  <2>1. /\ DOMAIN u = 1 .. (Len(s) + 1) /\ u[Len(s) + 1] = x /\ \A i \in 1 .. Len(s) : u[i] = s[i]
    OBVIOUS
  <2> HIDE DEF u
  <2>2. \A j \in DOMAIN u : u[j] \notin Q
    BY <1>1, <1>4, <2>1 DEF Lacks
  <2>3. Len(s) + 1 \in DOMAIN u
    BY <1>1, <2>1
  <2>4. Comes(u, x, Q)
    BY <2>1, <2>2, <2>3 DEF Comes
  <2> QED BY <2>4 DEF u
<1> QED BY <1>2, <1>3, <1>4

LEMMA LacksLess == \A s, S, T : Lacks(s, T) /\ S \subseteq T => Lacks(s, S)
  BY DEF Lacks

\* What the steps of a Codex driver do not write.
LEMMA FitsLack ==
    ASSUME NEW active, NEW c, NEW new, NEW steps, Lacks(steps, Unfit(active, c, new))
    PROVE  /\ \A m \in c.steers : Lacks(steps, Writing(StartFrames(m)))
           /\ Lacks(steps, Writing(Blank))
           /\ \A m : m \notin new \/ m \notin c.unanswered => Lacks(steps, Writing(SteerFrames(m)))
           /\ \A T : new = {} \/ active = None \/ T # active => Lacks(steps, Writing(SteersTo(T)))
<1> DEFINE U == Unfit(active, c, new)
<1>1. ASSUME NEW m \in c.steers PROVE Writing(StartFrames(m)) \subseteq U
  BY DEF Writing, StartFrames, FramesOf, Unfit
<1>2. Writing(Blank) \subseteq U
  BY DEF Writing, Blank, Unfit
<1>3. ASSUME NEW m, m \notin new \/ m \notin c.unanswered PROVE Writing(SteerFrames(m)) \subseteq U
  BY <1>3 DEF Writing, SteerFrames, Unfit
<1>4. ASSUME NEW T, new = {} \/ active = None \/ T # active PROVE Writing(SteersTo(T)) \subseteq U
  BY <1>4 DEF Writing, SteersTo, Unfit
<1> HIDE DEF U
<1>5. Lacks(steps, U)
  BY DEF U
<1> QED BY <1>1, <1>2, <1>3, <1>4, <1>5, LacksLess

LEMMA SteerFacts ==
    ASSUME Shape, provider = "codex"
    PROVE  /\ drv \in CodexDrv /\ CodexNeat(drv) /\ cli \in CodexCliSet
           /\ drv.active \in Turn \cup {None} /\ None \notin Turn
           /\ drv.steers \subseteq Msgs /\ drv.unanswered \subseteq Msgs /\ drv.steers \subseteq called
           /\ cli.turn \in Turn \cup {None} /\ cli.inbox \in Turn /\ cli.acks \subseteq Msgs
           /\ lines \in Seq(Lines) /\ wire \in Seq(Frames) /\ turns \in [Msgs -> 0..2]
           /\ \A m : Waits(m) <=> ~Lacks(cli.inbox, {m})
<1>1. drv \in CodexDrv /\ CodexNeat(drv) /\ cli \in CodexCliSet /\ Knows = CodexKnows(drv) /\ Knows \subseteq called
  BY DEF Shape, DriverShape, CliShape, Knows
<1>2. /\ drv.active \in Turn \cup {None} /\ drv.steers \subseteq Msgs /\ drv.unanswered \subseteq Msgs
  BY <1>1, CodexFields
<1>3. cli.turn \in Turn \cup {None} /\ cli.inbox \in Turn /\ cli.acks \subseteq Msgs
  BY <1>1, CodexCliFields
<1>4. None \notin Turn
  BY SessionAssumption DEF Turn
<1>5. lines \in Seq(Lines) /\ wire \in Seq(Frames) /\ turns \in [Msgs -> 0..2]
  BY DEF Shape, WayShape, UserShape
<1>6. \A m : Waits(m) <=> ~Lacks(cli.inbox, {m})
  BY DEF Waits, Inbox, Carries
<1>7. drv.steers \subseteq called
  BY <1>1 DEF CodexKnows
<1> QED BY <1>1, <1>2, <1>3, <1>4, <1>5, <1>6, <1>7

LEMMA CodexCalled ==
    ASSUME Shape, provider = "codex", CodexPlace, \A m \in Msgs : PromptOnce(m),
           NEW t, NEW new, NEW steps, Called(t, new, steps)
    PROVE  CodexPlace'
<1>1. /\ CallFits(new, steps) /\ new \cap called = {} /\ new \subseteq Msgs /\ called \subseteq called'
      /\ UNCHANGED <<lines, cli, turns, provider>>
  BY DEF Called
<1>2. /\ Lacks(steps, Unfit(drv.active, drv', new)) /\ drv'.steers \subseteq drv.steers \cup new
      /\ drv'.active = drv.active /\ drv.unanswered \subseteq drv'.unanswered
  BY <1>1 DEF CallFits
<1>3. ASSUME NEW F, Free(F), Lacks(steps, Writing(F)) PROVE Free(F)'
  <2>1. t \in Threads /\ todo[t] = <<>> /\ wire' = wire /\ DriverMoves(t, steps, new, {}, {}) /\ WayShape
    BY DEF Called, Shape, WayShape, Threads
  <2> QED BY <1>3, <2>1, FreeMoves
<1>4. /\ \A m \in drv'.steers : Lacks(steps, Writing(StartFrames(m)))
      /\ Lacks(steps, Writing(Blank))
      /\ \A m : m \notin new \/ m \notin drv'.unanswered => Lacks(steps, Writing(SteerFrames(m)))
      /\ \A T : new = {} \/ drv.active = None \/ T # drv.active => Lacks(steps, Writing(SteersTo(T)))
  BY <1>2, FitsLack
<1>5. \A m \in Msgs : m \in new => /\ ~Waits(m) /\ turns[m] = 0 /\ m \notin cli.acks /\ Lacks(lines, SteerLines(m))
                                   /\ Free(StartFrames(m)) /\ Lacks(lines, {SteerNo(m)})
  <2>1. ASSUME NEW m \in Msgs, m \in new PROVE Lacks(lines, {SteerNo(m)}) /\ Lacks(lines, SteerLines(m)) /\ m \notin cli.acks
    <3>1. Lacks(lines, SteerLines(m)) /\ m \notin cli.acks
      BY <1>1, <2>1 DEF CodexPlace, SteerPlace, SteerUnasked
    <3>2. SteerNo(m) \in SteerLines(m)
      BY LinesSaid DEF SteerLines, SteerNo
    <3> QED BY <3>1, <3>2, LacksLess
  <2>2. ASSUME NEW m \in Msgs, m \in new PROVE ~Waits(m) /\ turns[m] = 0 /\ Free(StartFrames(m))
    <3>1. Unused(m)
      BY <1>1, <2>2 DEF PromptOnce
    <3> QED BY <3>1, FreeFrames DEF Unused
  <2> QED BY <2>1, <2>2
<1>6. Live' = Live /\ \A m \in Msgs : Waits(m)' = Waits(m)
  BY <1>1, <1>2, InboxStays DEF Live, Lacks, Completions
<1>7. ASSUME NEW m \in Msgs PROVE SteerPlace(m)'
  <2>0. SteerAsked(m) /\ SteerRefused(m) /\ SteerHeld(m) /\ SteerUnasked(m)
    BY DEF CodexPlace, SteerPlace
  <2>1. SteerAsked(m)'
    <3>1. CASE Free(SteerFrames(m)) /\ ~(m \in new /\ m \in drv'.unanswered)
      <4>1. Free(SteerFrames(m))'
        BY <1>3, <1>4, <3>1
      <4> QED BY <4>1 DEF SteerAsked, Free, Clear, Writing, SteerFrames
    <3>2. CASE m \in new /\ m \in drv'.unanswered
      BY <1>1, <1>5, <3>2 DEF SteerAsked, Lacks, SteerLines
    <3>3. CASE ~Free(SteerFrames(m))
      BY <1>1, <1>2, <2>0, <3>3 DEF SteerAsked, Lacks, SteerLines
    <3> QED BY <3>1, <3>2, <3>3
  <2>2. SteerRefused(m)'
    BY <1>1, <1>2, <1>5, <1>6, <2>0 DEF SteerRefused, Lacks
  <2>3. SteerHeld(m)'
    <3>1. ASSUME m \in drv'.steers PROVE Free(StartFrames(m))'
      BY <1>2, <1>3, <1>4, <1>5, <2>0, <3>1 DEF SteerHeld
    <3>2. ASSUME m \in drv'.steers
          PROVE  /\ Waits(m)' => Live'
                 /\ turns'[m] # 0 => drv'.active # None /\ Comes(lines', Item(m), Completions)
      BY <1>1, <1>2, <1>5, <1>6, <2>0, <3>2 DEF SteerHeld
    <3> QED BY <3>1, <3>2 DEF SteerHeld, Comes, Completions, Item
  <2>4. SteerUnasked(m)'
    BY <1>1, <2>0 DEF SteerUnasked, Lacks, SteerLines
  <2> QED BY <2>1, <2>2, <2>3, <2>4 DEF SteerPlace
<1>8. ASSUME NEW T \in Turn PROVE TurnKnown(T)' /\ TurnRuns(T)'
  <2>0. TurnKnown(T) /\ TurnRuns(T) /\ None \notin Turn
    BY SteerFacts DEF CodexPlace
  <2>1. ASSUME Free(SteersTo(T)), drv.active # T PROVE Free(SteersTo(T))'
    BY <1>3, <1>4, <2>1
  <2>2. Worked(T)' = Worked(T) /\ Lacks(lines, Opens(T))' = Lacks(lines, Opens(T))
    BY <1>1 DEF Worked, Lacks, Opens, Opening
  <2>3. TurnKnown(T)'
    BY <1>2, <2>0, <2>1, <2>2 DEF TurnKnown
  <2>4. ASSUME cli.turn = T PROVE /\ drv.active = T => Lacks(lines, Completions)'
                                  /\ NoneAfter(lines, Opens(T), Completions)'
    BY <1>1, <2>0, <2>4 DEF TurnRuns, Lacks, NoneAfter, Opens, Opening, Completions
  <2>5. ASSUME cli.turn = T, ~(Free(SteersTo(T))') PROVE Live'
    BY <1>6, <2>0, <2>1, <2>5 DEF TurnRuns, Live
  <2> QED BY <1>1, <1>2, <2>3, <2>4, <2>5 DEF TurnRuns
<1>9. Free(Blank)'
  BY <1>3, <1>4 DEF CodexPlace
<1> QED BY <1>7, <1>8, <1>9 DEF CodexPlace

LEMMA CodexHeard ==
    ASSUME Shape, provider = "codex", CodexPlace, NEW steps, Heard(steps)
    PROVE  CodexPlace'
<1> DEFINE line == Head(lines)
<1>1. /\ LineFits(steps) /\ lines # <<>> /\ lines' = Tail(lines) /\ lines \in Seq(Lines) /\ line \in Lines
      /\ UNCHANGED <<cli, turns, provider, called>>
  BY DEF Heard, Shape, WayShape
<1>2. /\ Lacks(steps, Unfit(drv.active, drv', {})) /\ drv'.steers \subseteq drv.steers
      /\ \A m \in drv.unanswered : line \notin SteerLines(m) => m \in drv'.unanswered
      /\ drv'.active # drv.active => \/ line \in Completions /\ drv'.active = None
                                     \/ line \in Opening /\ drv'.active = line.turn
      /\ \A m \in Msgs : line = Item(m) => m \notin drv'.steers
  BY <1>1 DEF LineFits, LineDoes, CodexWrites, Item
<1>3. ASSUME NEW F, Free(F), Lacks(steps, Writing(F)) PROVE Free(F)'
  <2>1. /\ "reader" \in Threads /\ todo["reader"] = <<>> /\ wire' = wire /\ WayShape
        /\ DriverMoves("reader", steps, {}, Back(line), NewAsks(line))
    BY DEF Heard, Threads, Shape
  <2> QED BY <1>3, <2>1, FreeMoves
<1>4. /\ \A m \in drv'.steers : Lacks(steps, Writing(StartFrames(m)))
      /\ Lacks(steps, Writing(Blank))
      /\ \A m : Lacks(steps, Writing(SteerFrames(m)))
      /\ \A T : Lacks(steps, Writing(SteersTo(T)))
  BY <1>2, FitsLack
<1>5. \A S : Lacks(lines, S) => Lacks(lines', S) /\ line \notin S
  BY <1>1, TailFacts
<1>6. \A P, Q, x : /\ NoneAfter(lines, P, Q) => NoneAfter(lines', P, Q)
                   /\ NoneAfter(lines, P, Q) /\ line \in P => Lacks(lines', Q)
                   /\ Comes(lines, x, Q) /\ line # x => line \notin Q /\ Comes(lines', x, Q)
                   /\ Comes(lines, x, Q) /\ x \notin Q => line \notin Q
  BY <1>1, TailOrder
<1>7. None \notin Turn /\ (line \in Opening => line.turn \in Turn) /\ drv.steers \subseteq Msgs
  BY <1>1, SteerFacts, LineFields DEF Opening
<1> HIDE DEF line
<1>8. drv.active # None /\ line \notin Completions => drv'.active # None
  BY <1>2, <1>7
<1>9. Live => Live'
  <2>1. Lacks(lines, Completions) => Lacks(lines', Completions) /\ line \notin Completions
    BY <1>5
  <2> QED BY <1>8, <2>1 DEF Live, Lacks, Completions
<1>10. \A m \in Msgs : Waits(m)' = Waits(m)
  BY <1>1, InboxStays
<1>11. ASSUME NEW m \in Msgs PROVE SteerPlace(m)'
  <2>0. SteerAsked(m) /\ SteerRefused(m) /\ SteerHeld(m) /\ SteerUnasked(m)
    BY DEF CodexPlace, SteerPlace
  <2>1. SteerAsked(m)'
    <3>1. CASE Free(SteerFrames(m))
      <4>1. Free(SteerFrames(m))'
        BY <1>3, <1>4, <3>1
      <4> QED BY <4>1 DEF SteerAsked, Free, Clear, Writing, SteerFrames
    <3>2. CASE ~Free(SteerFrames(m))
      <4>1. m \in drv.unanswered /\ m \notin cli.acks /\ Lacks(lines, SteerLines(m))
        BY <2>0, <3>2 DEF SteerAsked
      <4>2. m \in drv'.unanswered /\ m \notin cli'.acks /\ Lacks(lines', SteerLines(m))
        BY <1>1, <1>2, <1>5, <4>1
      <4> QED BY <4>2 DEF SteerAsked, Lacks, SteerLines
    <3> QED BY <3>1, <3>2
  <2>2. SteerRefused(m)'
    <3>1. ~Lacks(lines', {SteerNo(m)}) => ~Lacks(lines, {SteerNo(m)})
      BY <1>5
    <3>2. ~Lacks(lines', {SteerNo(m)}) => ~Waits(m)' /\ (m \in drv'.steers => turns'[m] = 0)
      BY <1>1, <1>2, <1>10, <2>0, <3>1 DEF SteerRefused
    <3> QED BY <3>2 DEF SteerRefused, Lacks, SteerNo
  <2>3. SteerHeld(m)'
    <3>1. ASSUME m \in drv'.steers PROVE Free(StartFrames(m))'
      BY <1>2, <1>3, <1>4, <2>0, <3>1 DEF SteerHeld
    <3>2. ASSUME m \in drv'.steers, Waits(m)' PROVE Live'
      BY <1>2, <1>9, <1>10, <2>0, <3>2 DEF SteerHeld
    <3>3. ASSUME m \in drv'.steers, turns'[m] # 0
          PROVE  drv'.active # None /\ Comes(lines', Item(m), Completions)
      <4>1. drv.active # None /\ Comes(lines, Item(m), Completions)
        BY <1>1, <1>2, <2>0, <3>3 DEF SteerHeld
      <4>2. line # Item(m)
        BY <1>2, <3>3
      <4>3. line \notin Completions /\ Comes(lines', Item(m), Completions)
        BY <1>6, <4>1, <4>2
      <4> QED BY <1>8, <4>1, <4>3
    <3> QED BY <3>1, <3>2, <3>3 DEF SteerHeld, Comes, Completions, Item
  <2>4. SteerUnasked(m)'
    <3>1. m \notin called' => m \notin cli'.acks /\ Lacks(lines', SteerLines(m))
      BY <1>1, <1>5, <2>0 DEF SteerUnasked
    <3> QED BY <3>1 DEF SteerUnasked, Lacks, SteerLines
  <2> QED BY <2>1, <2>2, <2>3, <2>4 DEF SteerPlace
<1>12. ASSUME NEW T \in Turn PROVE TurnKnown(T)' /\ TurnRuns(T)'
  <2>0. TurnKnown(T) /\ TurnRuns(T)
    BY DEF CodexPlace
  <2>1. Free(SteersTo(T)) => Free(SteersTo(T))'
    BY <1>3, <1>4
  <2>2. (Worked(T)' <=> Worked(T)) /\ (Lacks(lines, Opens(T))' <=> Lacks(lines', Opens(T)))
    BY <1>1 DEF Worked, Lacks, Opens, Opening
  <2>3. Lacks(lines, Opens(T)) => Lacks(lines', Opens(T)) /\ line \notin Opens(T)
    BY <1>5
  <2>4. ASSUME drv'.active = T PROVE drv.active = T \/ line \in Opens(T)
    BY <1>2, <1>7, <2>4 DEF Opens
  <2>5. TurnKnown(T)'
    BY <2>0, <2>1, <2>2, <2>3, <2>4 DEF TurnKnown
  <2>6. ASSUME cli.turn = T, drv'.active = T PROVE Lacks(lines', Completions)
    BY <1>5, <1>6, <2>0, <2>4, <2>6 DEF TurnRuns
  <2>7. ASSUME cli.turn = T PROVE NoneAfter(lines', Opens(T), Completions)
    BY <1>6, <2>0, <2>7 DEF TurnRuns
  <2>8. ASSUME cli.turn = T, ~(Free(SteersTo(T))') PROVE Live'
    BY <1>9, <2>0, <2>1, <2>8 DEF TurnRuns
  <2>9. (Lacks(lines, Completions)' <=> Lacks(lines', Completions))
        /\ (NoneAfter(lines, Opens(T), Completions)' <=> NoneAfter(lines', Opens(T), Completions))
    BY DEF Lacks, Completions, NoneAfter, Opens, Opening
  <2> QED BY <1>1, <2>5, <2>6, <2>7, <2>8, <2>9 DEF TurnRuns
<1>13. Free(Blank)'
  BY <1>3, <1>4 DEF CodexPlace
<1> QED BY <1>11, <1>12, <1>13 DEF CodexPlace

LEMMA CodexThread ==
    ASSUME Shape, provider = "codex", CodexPlace,
           NEW t \in Threads, EmitStep(t) \/ WriteStep(t) \/ BrokenPipe(t)
    PROVE  CodexPlace'
<1>1. UNCHANGED <<lines, cli, drv, called, provider, turns>>
  BY DEF EmitStep, WriteStep, BrokenPipe, procVars
<1>2. \A F : Free(F) => Free(F)'
  BY FreeThread
<1>3. Live' = Live /\ \A m \in Msgs : Waits(m)' = Waits(m)
  BY <1>1, InboxStays DEF Live, Lacks, Completions
<1>4. ASSUME NEW m \in Msgs PROVE SteerPlace(m)'
  <2>0. SteerAsked(m) /\ SteerRefused(m) /\ SteerHeld(m) /\ SteerUnasked(m)
    BY DEF CodexPlace, SteerPlace
  <2>1. SteerAsked(m)'
    <3>1. Free(SteerFrames(m)) => Free(SteerFrames(m))'
      BY <1>2
    <3> QED BY <1>1, <2>0, <3>1 DEF SteerAsked, Lacks, SteerLines
  <2>2. SteerRefused(m)' /\ SteerUnasked(m)'
    BY <1>1, <1>3, <2>0 DEF SteerRefused, SteerUnasked, Lacks, SteerLines, SteerNo
  <2>3. SteerHeld(m)'
    <3>1. Free(StartFrames(m)) => Free(StartFrames(m))'
      BY <1>2
    <3> QED BY <1>1, <1>3, <2>0, <3>1 DEF SteerHeld, Comes, Completions, Item
  <2> QED BY <2>1, <2>2, <2>3 DEF SteerPlace
<1>5. ASSUME NEW T \in Turn PROVE TurnKnown(T)' /\ TurnRuns(T)'
  <2>0. TurnKnown(T) /\ TurnRuns(T)
    BY DEF CodexPlace
  <2>1. Free(SteersTo(T)) => Free(SteersTo(T))'
    BY <1>2
  <2>2. Worked(T)' = Worked(T) /\ Lacks(lines, Opens(T))' = Lacks(lines, Opens(T))
    BY <1>1 DEF Worked, Lacks, Opens, Opening
  <2>3. TurnKnown(T)'
    BY <1>1, <2>0, <2>1, <2>2 DEF TurnKnown
  <2>4. TurnRuns(T)'
    BY <1>1, <1>3, <2>0, <2>1 DEF TurnRuns, Lacks, NoneAfter, Opens, Opening, Completions
  <2> QED BY <2>3, <2>4
<1>6. Free(Blank)'
  BY <1>2 DEF CodexPlace
<1> QED BY <1>4, <1>5, <1>6 DEF CodexPlace

-----------------------------------------------------------------------------
(* What the app server does, for the invariant above.                      *)

Reading(f) == wire # <<>> /\ wire' = Tail(wire) /\ Head(wire) = f
Saying(new) == new \in Seq(Lines) /\ lines' = lines \o new

\* It starts a turn.
Begins ==
    \E f, new :
        /\ f \in Frames /\ Reading(f) /\ Saying(new) /\ f.is \in {"turn/start", "compact"}
        /\ \A i \in DOMAIN new : new[i] \in Opens(f.msgs)
        /\ cli'.turn = f.msgs /\ cli'.inbox = cli.inbox /\ cli'.acks = cli.acks
        /\ Take(ToSet(f.msgs))

\* It accepts a steer, or refuses it.
Accepts ==
    \E f \in Frames :
        /\ Reading(f) /\ Saying(<<>>) /\ f.is = "turn/steer" /\ cli.turn = f.turn
        /\ cli'.turn = cli.turn /\ cli'.inbox = Append(cli.inbox, f.msg) /\ cli'.acks = cli.acks \cup {f.msg}
        /\ turns' = turns

Refuses ==
    \E f \in Frames :
        /\ Reading(f) /\ Saying(<<SteerNo(f.msg)>>) /\ f.is = "turn/steer"
        /\ cli' = cli /\ turns' = turns

\* It ends its turn.
Ends ==
    \E new :
        /\ Saying(new) /\ \A i \in DOMAIN new : new[i].is \in {"completed", "resolved"}
        /\ cli'.turn = None /\ cli'.inbox = <<>> /\ cli'.acks = cli.acks
        /\ turns' = turns

\* It acknowledges a steer; its model reads one.
Acks(m) ==
    /\ m \in cli.acks /\ Saying(<<SteerOk(m)>>)
    /\ cli'.turn = cli.turn /\ cli'.inbox = cli.inbox /\ cli'.acks = cli.acks \ {m}
    /\ turns' = turns

Reads(m) ==
    /\ cli.inbox # <<>> /\ m = Head(cli.inbox) /\ Saying(<<Item(m)>>)
    /\ cli'.turn = cli.turn /\ cli'.inbox = Tail(cli.inbox) /\ cli'.acks = cli.acks
    /\ Take({m})

\* It says something else.
Murmurs ==
    \E new :
        /\ Saying(new)
        /\ \A i \in DOMAIN new : new[i] \notin Opening /\ new[i].is \notin {"completed", "steer"}
        /\ cli'.turn = cli.turn /\ cli'.inbox = cli.inbox /\ cli'.acks = cli.acks
        /\ turns' = turns

CodexDoes ==
    /\ UNCHANGED <<provider, drv, called>>
    /\ \/ Begins \/ Accepts \/ Refuses \/ Ends \/ Murmurs
       \/ \E m \in Msgs : Acks(m) \/ Reads(m)

\* A message that none of this is about.
LEMMA SteerStays ==
    ASSUME Shape, provider = "codex", Far, UNCHANGED <<provider, drv, called>>,
           NEW m \in Msgs, SteerPlace(m), NEW new, Saying(new), Lacks(new, SteerLines(m)),
           m \in cli'.acks => m \in cli.acks,
           Waits(m)' => Waits(m) /\ Lacks(new, Completions),
           turns'[m] = turns[m] \/ m \notin drv.steers
    PROVE  SteerPlace(m)'
<1>0. SteerAsked(m) /\ SteerRefused(m) /\ SteerHeld(m) /\ SteerUnasked(m)
  BY DEF SteerPlace
<1>1. lines \in Seq(Lines) /\ new \in Seq(Lines) /\ lines' = lines \o new
  BY SteerFacts DEF Saying
<1>2. /\ \A S : Lacks(lines', S) <=> Lacks(lines, S) /\ Lacks(new, S)
      /\ \A x, Q : Comes(lines, x, Q) => Comes(lines', x, Q)
  BY <1>1, LacksFacts, JoinOrder
<1>3. Lacks(new, {SteerNo(m)})
  <2>1. SteerNo(m) \in SteerLines(m)
    BY LinesSaid DEF SteerLines, SteerNo
  <2> QED BY <2>1, LacksLess
<1>4. SteerAsked(m)'
  <2>1. Free(SteerFrames(m)) => Free(SteerFrames(m))'
    BY FreeFar
  <2>2. CASE Free(SteerFrames(m))
    BY <2>1, <2>2 DEF SteerAsked, Free, Clear, Writing, SteerFrames
  <2>3. CASE ~Free(SteerFrames(m))
    <3>1. m \in drv'.unanswered /\ m \notin cli'.acks /\ Lacks(lines', SteerLines(m))
      BY <1>0, <1>2, <2>3 DEF SteerAsked
    <3> QED BY <3>1 DEF SteerAsked, Lacks, SteerLines
  <2> QED BY <2>2, <2>3
<1>5. SteerRefused(m)'
  <2>1. ~Lacks(lines', {SteerNo(m)}) => ~Waits(m)' /\ (m \in drv'.steers => turns'[m] = 0)
    BY <1>0, <1>2, <1>3 DEF SteerRefused
  <2> QED BY <2>1 DEF SteerRefused, Lacks, SteerNo
<1>6. SteerHeld(m)'
  <2>1. Free(StartFrames(m)) => Free(StartFrames(m))'
    BY FreeFar
  <2>2. Live /\ Lacks(new, Completions) => Live'
    <3>1. Lacks(lines, Completions) /\ Lacks(new, Completions) => Lacks(lines', Completions)
      BY <1>2
    <3> QED BY <3>1 DEF Live, Lacks, Completions
  <2>3. Comes(lines, Item(m), Completions) => Comes(lines', Item(m), Completions)
    BY <1>2
  <2>4. ASSUME m \in drv'.steers
        PROVE  /\ Free(StartFrames(m))' /\ (Waits(m)' => Live')
               /\ turns'[m] # 0 => drv'.active # None /\ Comes(lines', Item(m), Completions)
    BY <1>0, <2>1, <2>2, <2>3, <2>4 DEF SteerHeld
  <2> QED BY <2>4 DEF SteerHeld, Comes, Completions, Item
<1>7. SteerUnasked(m)'
  <2>1. m \notin called' => m \notin cli'.acks /\ Lacks(lines', SteerLines(m))
    BY <1>0, <1>2 DEF SteerUnasked
  <2> QED BY <2>1 DEF SteerUnasked, Lacks, SteerLines
<1> QED BY <1>4, <1>5, <1>6, <1>7 DEF SteerPlace

\* A turn that does not start.
LEMMA TurnStays ==
    ASSUME Shape, provider = "codex", Far, UNCHANGED <<provider, drv, called>>,
           NEW T \in Turn, TurnKnown(T), TurnRuns(T), NEW new, Saying(new), Lacks(new, Opening),
           cli'.turn = T => cli.turn = T /\ Lacks(new, Completions),
           \A m \in Msgs : turns[m] # 0 => turns'[m] # 0
    PROVE  TurnKnown(T)' /\ TurnRuns(T)'
<1>1. lines \in Seq(Lines) /\ new \in Seq(Lines) /\ lines' = lines \o new
  BY SteerFacts DEF Saying
<1>2. /\ \A S : Lacks(lines', S) <=> Lacks(lines, S) /\ Lacks(new, S)
      /\ \A P, Q : NoneAfter(lines, P, Q) /\ Lacks(new, Q) => NoneAfter(lines', P, Q)
  BY <1>1, LacksFacts, JoinOrder
<1>3. Lacks(new, Opens(T))
  BY LacksLess DEF Opens
<1>4. Free(SteersTo(T)) => Free(SteersTo(T))'
  BY FreeFar
<1>5. (Worked(T) => Worked(T)') /\ (Lacks(lines, Opens(T))' <=> Lacks(lines', Opens(T)))
  BY DEF Worked, Lacks, Opens, Opening
<1>6. TurnKnown(T)'
  <2>1. Lacks(lines, Opens(T)) => Lacks(lines', Opens(T))
    BY <1>2, <1>3
  <2> QED BY <1>4, <1>5, <2>1 DEF TurnKnown
<1>7. ASSUME cli'.turn = T
      PROVE  /\ drv.active = T => Lacks(lines', Completions)
             /\ NoneAfter(lines', Opens(T), Completions)
             /\ ~(Free(SteersTo(T))') => Live'
  <2>1. Live => Live'
    <3>1. Lacks(lines, Completions) => Lacks(lines', Completions)
      BY <1>2, <1>7
    <3> QED BY <3>1 DEF Live, Lacks, Completions
  <2> QED BY <1>2, <1>4, <1>7, <2>1 DEF TurnRuns
<1>8. (Lacks(lines, Completions)' <=> Lacks(lines', Completions))
      /\ (NoneAfter(lines, Opens(T), Completions)' <=> NoneAfter(lines', Opens(T), Completions))
  BY DEF Lacks, Completions, NoneAfter, Opens, Opening
<1> QED BY <1>6, <1>7, <1>8 DEF TurnRuns

\* Lists of lines that are of no concern to a steer, a turn or an ending.
LEMMA Unheard ==
    ASSUME NEW m, NEW T
    PROVE  /\ \A new : (\A i \in DOMAIN new : new[i] \in Opens(T)) => Lacks(new, SteerLines(m)) /\ Lacks(new, Completions)
           /\ \A new : (\A i \in DOMAIN new : new[i].is \in {"completed", "resolved"})
                          => Lacks(new, SteerLines(m)) /\ Lacks(new, Opening)
           /\ \A new : (\A i \in DOMAIN new : new[i] \notin Opening /\ new[i].is \notin {"completed", "steer"})
                          => Lacks(new, SteerLines(m)) /\ Lacks(new, Opening) /\ Lacks(new, Completions)
           /\ \A n, ok : LET new == <<[is |-> "steer", ok |-> ok, msg |-> n]>>
                         IN  /\ n # m => Lacks(new, SteerLines(m))
                             /\ Lacks(new, Opening) /\ Lacks(new, Completions)
           /\ \A n : LET new == <<Item(n)>>
                     IN  Lacks(new, SteerLines(m)) /\ Lacks(new, Opening) /\ Lacks(new, Completions)
           /\ Lacks(<<>>, SteerLines(m)) /\ Lacks(<<>>, Opening) /\ Lacks(<<>>, Completions)
  BY DEF Lacks, SteerLines, Opening, Opens, Completions, Item

LEMMA TakenTurns ==
    ASSUME NEW ms, Take(ms), turns \in [Msgs -> 0..2]
    PROVE  /\ \A m \in Msgs : m \notin ms => turns'[m] = turns[m]
           /\ \A m \in Msgs : m \in ms => turns'[m] # 0
           /\ \A m \in Msgs : turns[m] # 0 => turns'[m] # 0
  BY DEF Take, Once

LEMMA CodexBegins ==
    ASSUME Shape, provider = "codex", CodexPlace, \A m \in Msgs : PromptOnce(m), Far,
           UNCHANGED <<provider, drv, called>>, Begins
    PROVE  CodexPlace'
<1>1. PICK f, new :
        /\ f \in Frames /\ Reading(f) /\ Saying(new) /\ f.is \in {"turn/start", "compact"}
        /\ \A i \in DOMAIN new : new[i] \in Opens(f.msgs)
        /\ cli'.turn = f.msgs /\ cli'.inbox = cli.inbox /\ cli'.acks = cli.acks
        /\ Take(ToSet(f.msgs))
  BY DEF Begins
<1> DEFINE T0 == f.msgs
<1>2. /\ T0 \in Turn /\ wire # <<>> /\ Head(wire) = f /\ f.is # "turn/steer"
      /\ lines \in Seq(Lines) /\ new \in Seq(Lines) /\ lines' = lines \o new /\ turns \in [Msgs -> 0..2]
  BY <1>1, FrameFields, SteerFacts DEF Reading, Saying
<1>3. \A F : Free(F) => Free(F)' /\ f \notin F
  BY <1>2, FreeFar, FreeRead
<1>4. /\ \A m \in Msgs : m \notin ToSet(T0) => turns'[m] = turns[m]
      /\ \A m \in Msgs : m \in ToSet(T0) => turns'[m] # 0
      /\ \A m \in Msgs : turns[m] # 0 => turns'[m] # 0
  BY <1>1, <1>2, TakenTurns
<1>5. \A m \in Msgs : m \in ToSet(T0) => f \in StartFrames(m) /\ f \in FramesOf(m)
  BY <1>1 DEF StartFrames, FramesOf, Brings
<1>6. \A m \in Msgs : m \in ToSet(T0) => turns[m] = 0
  <2>1. ASSUME NEW m \in Msgs, m \in ToSet(T0) PROVE ~NoPrompt(m)
    <3>1. Free(StartFrames(m)) => f \notin StartFrames(m)
      BY <1>3
    <3> QED BY <1>5, <2>1, <3>1, FreeFrames
  <2> QED BY <2>1 DEF PromptOnce
<1>7. ~Worked(T0)
  BY <1>6 DEF Worked
<1>8. \E m \in Msgs : m \in ToSet(T0)
  <2>1. f \notin Blank
    BY <1>3 DEF CodexPlace
  <2>2. T0 # <<>>
    BY <1>1, <2>1 DEF Blank
  <2> QED BY <1>2, <2>2, MembersFacts DEF Turn
<1>9. \A m : Lacks(new, SteerLines(m)) /\ Lacks(new, Completions)
  BY <1>1, Unheard
<1>10. \A m \in Msgs : Waits(m)' = Waits(m)
  BY <1>1, SteerFacts DEF Waits, Lacks, Inbox, Carries
<1>11. ASSUME NEW m \in Msgs PROVE SteerPlace(m)'
  <2>1. SteerPlace(m)
    BY DEF CodexPlace
  <2>2. m \in drv.steers => m \notin ToSet(T0)
    <3>1. m \in drv.steers => Free(StartFrames(m))
      BY <2>1 DEF SteerPlace, SteerHeld
    <3>2. Free(StartFrames(m)) => f \notin StartFrames(m)
      BY <1>3
    <3> QED BY <1>5, <3>1, <3>2
  <2>3. turns'[m] = turns[m] \/ m \notin drv.steers
    BY <1>4, <2>2
  <2> QED BY <1>1, <1>9, <1>10, <2>1, <2>3, SteerStays
<1>12. ASSUME NEW T \in Turn PROVE TurnKnown(T)' /\ TurnRuns(T)'
  <2>0. TurnKnown(T) /\ TurnRuns(T)
    BY DEF CodexPlace
  <2>1. (Worked(T) => Worked(T)') /\ Worked(T0)'
    BY <1>4, <1>8 DEF Worked
  <2>2. (Lacks(lines', Opens(T)) <=> Lacks(lines, Opens(T)) /\ Lacks(new, Opens(T)))
        /\ (Lacks(lines, Opens(T))' <=> Lacks(lines', Opens(T)))
    <3>1. Lacks(lines', Opens(T)) <=> Lacks(lines, Opens(T)) /\ Lacks(new, Opens(T))
      BY <1>2, LacksFacts
    <3> QED BY <3>1 DEF Lacks, Opens, Opening
  <2>3. Free(SteersTo(T)) => Free(SteersTo(T))'
    BY <1>3
  <2>4. T # T0 => Lacks(new, Opens(T))
    BY <1>1 DEF Opens, Lacks
  <2> HIDE DEF T0
  <2>5. TurnKnown(T)'
    BY <2>0, <2>1, <2>2, <2>3, <2>4 DEF TurnKnown
  <2>6. ASSUME cli'.turn = T
        PROVE  /\ drv.active # T /\ Free(SteersTo(T))'
               /\ NoneAfter(lines', Opens(T), Completions)
    <3>1. T = T0
      BY <1>1, <2>6 DEF T0
    <3>2. drv.active # T /\ Lacks(lines, Opens(T)) /\ Free(SteersTo(T))
      BY <1>7, <2>0, <3>1 DEF TurnKnown
    <3> QED BY <1>2, <1>9, <2>3, <3>2, JoinOrder
  <2>7. NoneAfter(lines, Opens(T), Completions)' <=> NoneAfter(lines', Opens(T), Completions)
    BY DEF Completions, NoneAfter, Opens, Opening
  <2> QED BY <2>5, <2>6, <2>7 DEF TurnRuns
<1>13. Free(Blank)'
  BY <1>3 DEF CodexPlace
<1> QED BY <1>11, <1>12, <1>13 DEF CodexPlace

\* A steer that is read is in no other frame, nor in the inbox or a turn.
LEMMA SteerRead ==
    ASSUME Shape, provider = "codex", CodexPlace, NEW f \in Frames, Reading(f), f.is = "turn/steer",
           UNCHANGED <<provider, drv, todo, called>>, PromptOnce(f.msg)
    PROVE  /\ f.msg \in Msgs /\ f.msg \in called /\ Free(SteerFrames(f.msg))'
           /\ ~Waits(f.msg) /\ turns[f.msg] = 0
           /\ f.msg \in drv.unanswered /\ f.msg \notin cli.acks /\ Lacks(lines, SteerLines(f.msg))
<1> DEFINE m == f.msg
<1>1. m \in Msgs /\ f \in SteerFrames(m) /\ f \in FramesOf(m)
  BY FrameFields DEF SteerFrames, FramesOf, Brings
<1>2. ~Free(SteerFrames(m)) /\ ~NoPrompt(m)
  <2>1. Free(SteerFrames(m)) => f \notin SteerFrames(m)
    BY FreeRead DEF Reading
  <2> QED BY <1>1, <2>1, FreeFrames
<1>3. ~Waits(m) /\ turns[m] = 0 /\ m \in called /\ OnePrompt(m)
  BY <1>1, <1>2 DEF PromptOnce, Unused
<1>4. Free(SteerFrames(m))'
  <2>1. Clear(PromptOf(m), FramesOf(m))'
    BY <1>1, <1>3, ReadFlows DEF OnePrompt, Reading, Shape
  <2>2. SteerFrames(m) \subseteq FramesOf(m) /\ Writing(SteerFrames(m)) \subseteq PromptOf(m)
    BY DEF SteerFrames, FramesOf, Brings, Writing, PromptOf
  <2> QED BY <2>1, <2>2 DEF Free, Clear, Lacks, Writing, SteerFrames, PromptOf, FramesOf
<1>5. m \in drv.unanswered /\ m \notin cli.acks /\ Lacks(lines, SteerLines(m))
  BY <1>1, <1>2 DEF CodexPlace, SteerPlace, SteerAsked
<1> QED BY <1>1, <1>3, <1>4, <1>5

LEMMA CodexAccepts ==
    ASSUME Shape, provider = "codex", CodexPlace, \A m \in Msgs : PromptOnce(m), Far,
           UNCHANGED <<provider, drv, todo, called>>, Accepts
    PROVE  CodexPlace'
<1>1. PICK f \in Frames :
        /\ Reading(f) /\ Saying(<<>>) /\ f.is = "turn/steer" /\ cli.turn = f.turn
        /\ cli'.turn = cli.turn /\ cli'.inbox = Append(cli.inbox, f.msg) /\ cli'.acks = cli.acks \cup {f.msg}
        /\ turns' = turns
  BY DEF Accepts
<1> DEFINE x == f.msg
<1>2. /\ x \in Msgs /\ x \in called /\ Free(SteerFrames(x))'
      /\ ~Waits(x) /\ turns[x] = 0
      /\ x \in drv.unanswered /\ x \notin cli.acks /\ Lacks(lines, SteerLines(x))
  <2>1. f.msg \in Msgs
    BY <1>1, FrameFields
  <2> QED BY <1>1, <2>1, SteerRead
<1>3. /\ lines' = lines /\ UNCHANGED <<drv, called, provider, turns>> /\ None \notin Turn
      /\ cli.inbox \in Seq(Msgs) /\ f.turn \in Turn
  BY <1>1, SteerFacts, FrameFields DEF Saying, Turn
<1>4. \A F : Free(F) => Free(F)'
  BY FreeFar
<1>5. Lacks(<<>>, Opening) /\ Lacks(<<>>, Completions) /\ \A m : Lacks(<<>>, SteerLines(m))
  BY Unheard
<1>6. \A m \in Msgs : m # x => (Waits(m)' <=> Waits(m))
  <2>1. \A m \in Msgs : m # x => (Lacks(cli'.inbox, {m}) <=> Lacks(cli.inbox, {m}))
    BY <1>1, <1>2, <1>3, AppendFacts
  <2> QED BY <1>3, <2>1 DEF Waits, Lacks, Inbox, Carries
<1>7. Live' = Live
  BY <1>3 DEF Live, Lacks, Completions
<1>8. Live
  <2>1. f \in SteersTo(f.turn)
    BY <1>1 DEF SteersTo
  <2>2. ~Free(SteersTo(f.turn))
    BY <1>1, <2>1, FreeRead DEF Reading
  <2> QED BY <1>1, <1>3, <2>2 DEF CodexPlace, TurnRuns
<1>9. ASSUME NEW m \in Msgs, m # x PROVE SteerPlace(m)'
  BY <1>1, <1>3, <1>5, <1>6, <1>9, SteerStays DEF CodexPlace
<1>10. SteerPlace(x)'
  <2>0. SteerHeld(x)
    BY <1>2 DEF CodexPlace, SteerPlace
  <2>1. SteerAsked(x)'
    BY <1>2 DEF SteerAsked, Free, Clear, Writing, SteerFrames
  <2>2. Lacks(lines, {SteerNo(x)})
    <3>1. SteerNo(x) \in SteerLines(x)
      BY <1>2, LinesSaid DEF SteerLines, SteerNo
    <3> QED BY <1>2, <3>1, LacksLess
  <2>3. SteerRefused(x)'
    BY <1>3, <2>2 DEF SteerRefused, Lacks, SteerNo
  <2>4. Free(StartFrames(x)) => Free(StartFrames(x))'
    BY <1>4
  <2>5. SteerHeld(x)'
    BY <1>2, <1>3, <1>7, <1>8, <2>0, <2>4 DEF SteerHeld
  <2>6. SteerUnasked(x)'
    BY <1>2, <1>3 DEF SteerUnasked
  <2> QED BY <2>1, <2>3, <2>5, <2>6 DEF SteerPlace
<1>11. ASSUME NEW T \in Turn PROVE TurnKnown(T)' /\ TurnRuns(T)'
  BY <1>1, <1>3, <1>5, TurnStays DEF CodexPlace
<1>12. Free(Blank)'
  BY <1>4 DEF CodexPlace
<1> QED BY <1>9, <1>10, <1>11, <1>12 DEF CodexPlace

LEMMA CodexRefuses ==
    ASSUME Shape, provider = "codex", CodexPlace, \A m \in Msgs : PromptOnce(m), Far,
           UNCHANGED <<provider, drv, todo, called>>, Refuses
    PROVE  CodexPlace'
<1>1. PICK f \in Frames :
        /\ Reading(f) /\ Saying(<<SteerNo(f.msg)>>) /\ f.is = "turn/steer"
        /\ cli' = cli /\ turns' = turns
  BY DEF Refuses
<1> DEFINE x == f.msg
           new == <<SteerNo(x)>>
<1>2. /\ x \in Msgs /\ x \in called /\ Free(SteerFrames(x))'
      /\ ~Waits(x) /\ turns[x] = 0
      /\ x \in drv.unanswered /\ x \notin cli.acks /\ Lacks(lines, SteerLines(x))
  <2>1. f.msg \in Msgs
    BY <1>1, FrameFields
  <2> QED BY <1>1, <2>1, SteerRead
<1>3. lines' = lines \o new /\ lines \in Seq(Lines) /\ new \in Seq(Lines) /\ Saying(new)
  BY <1>1, SteerFacts DEF Saying
<1>4. /\ \A m : x # m => Lacks(new, SteerLines(m))
      /\ Lacks(new, Opening) /\ Lacks(new, Completions)
  BY Unheard DEF SteerNo
<1> HIDE DEF new
<1>5. \A F : Free(F) => Free(F)'
  BY FreeFar
<1>6. \A m \in Msgs : Waits(m)' = Waits(m)
  BY <1>1, InboxStays
<1>7. ASSUME NEW m \in Msgs, m # x PROVE SteerPlace(m)'
  <2>1. Lacks(new, SteerLines(m))
    BY <1>4, <1>7
  <2> QED BY <1>1, <1>3, <1>4, <1>6, <2>1, SteerStays DEF CodexPlace
<1>8. SteerPlace(x)'
  <2>0. SteerHeld(x)
    BY <1>2 DEF CodexPlace, SteerPlace
  <2>1. SteerAsked(x)'
    BY <1>2 DEF SteerAsked, Free, Clear, Writing, SteerFrames
  <2>2. SteerRefused(x)'
    BY <1>1, <1>2, <1>6 DEF SteerRefused
  <2>3. Free(StartFrames(x)) => Free(StartFrames(x))'
    BY <1>5
  <2>4. SteerHeld(x)'
    BY <1>1, <1>2, <1>6, <2>0, <2>3 DEF SteerHeld
  <2>5. SteerUnasked(x)'
    BY <1>2 DEF SteerUnasked
  <2> QED BY <2>1, <2>2, <2>4, <2>5 DEF SteerPlace
<1>9. ASSUME NEW T \in Turn PROVE TurnKnown(T)' /\ TurnRuns(T)'
  BY <1>1, <1>3, <1>4, TurnStays DEF CodexPlace
<1>10. Free(Blank)'
  BY <1>5 DEF CodexPlace
<1> QED BY <1>7, <1>8, <1>9, <1>10 DEF CodexPlace

LEMMA CodexStops ==
    ASSUME Shape, provider = "codex", CodexPlace, Far, UNCHANGED <<provider, drv, todo, called>>,
           Ends \/ Murmurs
    PROVE  CodexPlace'
<1>1. PICK new :
        /\ Saying(new) /\ turns' = turns /\ cli'.acks = cli.acks
        /\ \A m : Lacks(new, SteerLines(m))
        /\ Lacks(new, Opening)
        /\ \/ cli'.turn = None /\ cli'.inbox = <<>>
           \/ Lacks(new, Completions) /\ cli'.turn = cli.turn /\ cli'.inbox = cli.inbox
  <2>1. CASE Ends
    <3>1. PICK new :
            /\ Saying(new) /\ \A i \in DOMAIN new : new[i].is \in {"completed", "resolved"}
            /\ cli'.turn = None /\ cli'.inbox = <<>> /\ cli'.acks = cli.acks
            /\ turns' = turns
      BY <2>1 DEF Ends
    <3>2. Lacks(new, Opening) /\ \A m : Lacks(new, SteerLines(m))
      BY <3>1, Unheard
    <3> QED BY <3>1, <3>2
  <2>2. CASE Murmurs
    <3>1. PICK new :
            /\ Saying(new)
            /\ \A i \in DOMAIN new : new[i] \notin Opening /\ new[i].is \notin {"completed", "steer"}
            /\ cli'.turn = cli.turn /\ cli'.inbox = cli.inbox /\ cli'.acks = cli.acks
            /\ turns' = turns
      BY <2>2 DEF Murmurs
    <3>2. Lacks(new, Opening) /\ Lacks(new, Completions) /\ \A m : Lacks(new, SteerLines(m))
      BY <3>1, Unheard
    <3> QED BY <3>1, <3>2
  <2> QED BY <2>1, <2>2
<1>2. None \notin Turn /\ Free(Blank)'
  BY SteerFacts, FreeFar DEF CodexPlace
<1>3. \A m \in Msgs : Waits(m)' => Waits(m) /\ Lacks(new, Completions)
  BY <1>1 DEF Waits, Lacks, Inbox, Carries
<1>4. ASSUME NEW m \in Msgs PROVE SteerPlace(m)'
  BY <1>1, <1>3, SteerStays DEF CodexPlace
<1>5. ASSUME NEW T \in Turn PROVE TurnKnown(T)' /\ TurnRuns(T)'
  <2>1. cli'.turn = T => cli.turn = T /\ Lacks(new, Completions)
    BY <1>1, <1>2
  <2> QED BY <1>1, <2>1, TurnStays DEF CodexPlace
<1> QED BY <1>2, <1>4, <1>5 DEF CodexPlace

LEMMA CodexAcks ==
    ASSUME Shape, provider = "codex", CodexPlace, Far, UNCHANGED <<provider, drv, todo, called>>,
           NEW x \in Msgs, Acks(x)
    PROVE  CodexPlace'
<1> DEFINE new == <<SteerOk(x)>>
<1>1. /\ x \in cli.acks /\ Saying(new) /\ turns' = turns
      /\ cli'.turn = cli.turn /\ cli'.inbox = cli.inbox /\ cli'.acks = cli.acks \ {x}
      /\ lines' = lines \o new /\ lines \in Seq(Lines) /\ new \in Seq(Lines)
  BY SteerFacts DEF Acks, Saying
<1>2. /\ \A m : x # m => Lacks(new, SteerLines(m))
      /\ Lacks(new, Opening) /\ Lacks(new, Completions)
  BY Unheard DEF SteerOk
<1>3. Lacks(new, {SteerNo(x)})
  BY DEF Lacks, SteerNo, SteerOk
<1> HIDE DEF new
<1>4. \A F : Free(F) => Free(F)'
  BY FreeFar
<1>5. \A m \in Msgs : Waits(m)' = Waits(m)
  BY <1>1 DEF Waits, Lacks, Inbox, Carries
<1>6. ASSUME NEW m \in Msgs, m # x PROVE SteerPlace(m)'
  <2>1. Lacks(new, SteerLines(m))
    BY <1>2, <1>6
  <2> QED BY <1>1, <1>2, <1>5, <2>1, SteerStays DEF CodexPlace
<1>7. SteerPlace(x)'
  <2>0. SteerAsked(x) /\ SteerRefused(x) /\ SteerHeld(x) /\ SteerUnasked(x)
    BY DEF CodexPlace, SteerPlace
  <2>1. Free(SteerFrames(x))'
    BY <1>1, <1>4, <2>0 DEF SteerAsked
  <2>2. SteerAsked(x)'
    BY <2>1 DEF SteerAsked, Free, Clear, Writing, SteerFrames
  <2>3. SteerRefused(x)'
    <3>1. Lacks(lines', {SteerNo(x)}) <=> Lacks(lines, {SteerNo(x)})
      BY <1>1, <1>3, LacksFacts
    <3>2. ~Lacks(lines', {SteerNo(x)}) => ~Waits(x)' /\ (x \in drv'.steers => turns'[x] = 0)
      BY <1>1, <1>5, <2>0, <3>1 DEF SteerRefused
    <3> QED BY <3>2 DEF SteerRefused, Lacks, SteerNo
  <2>4. SteerHeld(x)'
    <3>1. Free(StartFrames(x)) => Free(StartFrames(x))'
      BY <1>4
    <3>2. Live => Live'
      <4>1. Lacks(lines, Completions) => Lacks(lines', Completions)
        BY <1>1, <1>2, LacksFacts
      <4> QED BY <4>1 DEF Live, Lacks, Completions
    <3>3. Comes(lines, Item(x), Completions) => Comes(lines', Item(x), Completions)
      BY <1>1, JoinOrder
    <3>4. x \in drv.steers =>
            /\ Free(StartFrames(x))' /\ (Waits(x)' => Live')
            /\ turns'[x] # 0 => drv.active # None /\ Comes(lines', Item(x), Completions)
      BY <1>1, <1>5, <2>0, <3>1, <3>2, <3>3 DEF SteerHeld
    <3> QED BY <3>4 DEF SteerHeld, Comes, Completions, Item
  <2>5. SteerUnasked(x)'
    BY <1>1, <2>0 DEF SteerUnasked
  <2> QED BY <2>2, <2>3, <2>4, <2>5 DEF SteerPlace
<1>8. ASSUME NEW T \in Turn PROVE TurnKnown(T)' /\ TurnRuns(T)'
  BY <1>1, <1>2, TurnStays DEF CodexPlace
<1>9. Free(Blank)'
  BY <1>4 DEF CodexPlace
<1> QED BY <1>6, <1>7, <1>8, <1>9 DEF CodexPlace

LEMMA CodexReads ==
    ASSUME Shape, provider = "codex", CodexPlace, Far, UNCHANGED <<provider, drv, todo, called>>,
           NEW x \in Msgs, Reads(x)
    PROVE  CodexPlace'
<1> DEFINE new == <<Item(x)>>
<1>1. /\ cli.inbox # <<>> /\ x = Head(cli.inbox) /\ Saying(new) /\ Take({x})
      /\ cli'.turn = cli.turn /\ cli'.inbox = Tail(cli.inbox) /\ cli'.acks = cli.acks
      /\ lines' = lines \o new /\ lines \in Seq(Lines) /\ new \in Seq(Lines)
      /\ cli.inbox \in Seq(Msgs) /\ turns \in [Msgs -> 0..2]
  BY SteerFacts DEF Reads, Saying, Turn
<1>2. /\ \A m : Lacks(new, SteerLines(m))
      /\ Lacks(new, Opening) /\ Lacks(new, Completions)
  BY Unheard
<1>3. Item(x) \notin Completions /\ lines' = lines \o <<Item(x)>>
  BY <1>1 DEF Item, Completions
<1> HIDE DEF new
<1>4. \A F : Free(F) => Free(F)'
  BY FreeFar
<1>5. /\ \A m \in Msgs : Waits(m)' => Waits(m)
      /\ Waits(x)
  <2>1. /\ \A S : Lacks(cli.inbox, S) => Lacks(cli'.inbox, S) /\ x \notin S
    BY <1>1, TailFacts
  <2>2. \A m \in Msgs : Lacks(cli.inbox, {m}) => Lacks(cli'.inbox, {m})
    BY <2>1
  <2>3. ~Lacks(cli.inbox, {x})
    BY <2>1
  <2> QED BY <2>2, <2>3 DEF Waits, Lacks, Inbox, Carries
<1>6. /\ \A m \in Msgs : m \notin {x} => turns'[m] = turns[m]
      /\ \A m \in Msgs : turns[m] # 0 => turns'[m] # 0
  BY <1>1, TakenTurns
<1>7. ASSUME NEW m \in Msgs, m # x PROVE SteerPlace(m)'
  <2>1. turns'[m] = turns[m] /\ Lacks(new, SteerLines(m)) /\ SteerPlace(m)
    BY <1>2, <1>6, <1>7 DEF CodexPlace
  <2> QED BY <1>1, <1>2, <1>5, <2>1, SteerStays
<1>8. SteerPlace(x)'
  <2>0. SteerAsked(x) /\ SteerRefused(x) /\ SteerHeld(x) /\ SteerUnasked(x)
    BY DEF CodexPlace, SteerPlace
  <2>1. \A S : Lacks(lines', S) <=> Lacks(lines, S) /\ Lacks(new, S)
    BY <1>1, LacksFacts
  <2>2. SteerAsked(x)'
    <3>1. CASE Free(SteerFrames(x))
      <4>1. Free(SteerFrames(x))'
        BY <1>4, <3>1
      <4> QED BY <4>1 DEF SteerAsked, Free, Clear, Writing, SteerFrames
    <3>2. CASE ~Free(SteerFrames(x))
      <4>1. x \in drv'.unanswered /\ x \notin cli'.acks /\ Lacks(lines', SteerLines(x))
        BY <1>1, <1>2, <2>0, <2>1, <3>2 DEF SteerAsked
      <4> QED BY <4>1 DEF SteerAsked, Lacks, SteerLines
    <3> QED BY <3>1, <3>2
  <2>3. SteerRefused(x)'
    <3>1. Lacks(lines, {SteerNo(x)})
      BY <1>5, <2>0 DEF SteerRefused
    <3>2. Lacks(new, {SteerNo(x)})
      BY DEF new, Lacks, SteerNo, Item
    <3>3. Lacks(lines', {SteerNo(x)})
      BY <2>1, <3>1, <3>2
    <3> QED BY <3>3 DEF SteerRefused, Lacks, SteerNo
  <2>4. SteerHeld(x)'
    <3>1. Free(StartFrames(x)) => Free(StartFrames(x))'
      BY <1>4
    <3>2. x \in drv.steers => Free(StartFrames(x)) /\ Live
      BY <1>5, <2>0 DEF SteerHeld
    <3>3. Live => drv.active # None /\ Lacks(lines, Completions) /\ Lacks(lines', Completions)
      BY <1>2, <2>1 DEF Live
    <3>4. Lacks(lines, Completions) => Comes(lines', Item(x), Completions)
      BY <1>1, <1>3, JoinOrder
    <3>5. x \in drv.steers => /\ Free(StartFrames(x))' /\ drv.active # None /\ Lacks(lines', Completions)
                              /\ Comes(lines', Item(x), Completions)
      BY <3>1, <3>2, <3>3, <3>4
    <3> QED BY <3>5 DEF SteerHeld, Live, Lacks, Comes, Completions, Item
  <2>5. SteerUnasked(x)'
    <3>1. x \notin called' => x \notin cli'.acks /\ Lacks(lines', SteerLines(x))
      BY <1>1, <1>2, <2>0, <2>1 DEF SteerUnasked
    <3> QED BY <3>1 DEF SteerUnasked, Lacks, SteerLines
  <2> QED BY <2>2, <2>3, <2>4, <2>5 DEF SteerPlace
<1>9. ASSUME NEW T \in Turn PROVE TurnKnown(T)' /\ TurnRuns(T)'
  BY <1>1, <1>2, <1>6, TurnStays DEF CodexPlace
<1>10. Free(Blank)'
  BY <1>4 DEF CodexPlace
<1> QED BY <1>7, <1>8, <1>9, <1>10 DEF CodexPlace

LEMMA CodexFar ==
    ASSUME Shape, provider = "codex", CodexPlace, \A m \in Msgs : PromptOnce(m), Far, CodexDoes
    PROVE  CodexPlace'
<1>1. UNCHANGED <<provider, drv, todo, called>>
  BY DEF Far, FarShape, Elsewhere
<1> QED BY <1>1, CodexBegins, CodexAccepts, CodexRefuses, CodexStops, CodexAcks, CodexReads DEF CodexDoes

-----------------------------------------------------------------------------
LEMMA CodexRests ==
    ASSUME Rests, provider = "codex", CodexPlace
    PROVE  CodexPlace'
<1>1. UNCHANGED <<lines, cli, drv, called, provider, turns>>
  BY DEF Rests
<1>2. \A F : Free(F)' = Free(F)
  BY FreeRests
<1>3. Live' = Live /\ \A m \in Msgs : Waits(m)' = Waits(m)
  BY <1>1, InboxStays DEF Live, Lacks, Completions
<1>4. ASSUME NEW m \in Msgs PROVE SteerPlace(m)'
  <2>0. SteerPlace(m)
    BY DEF CodexPlace
  <2>1. (Free(SteerFrames(m))' <=> Free(SteerFrames(m))) /\ (Free(StartFrames(m))' <=> Free(StartFrames(m)))
    BY <1>2
  <2> QED BY <1>1, <1>3, <2>0, <2>1
          DEF SteerPlace, SteerAsked, SteerRefused, SteerHeld, SteerUnasked, Lacks, Comes, SteerLines,
              SteerNo, Completions, Item
<1>5. ASSUME NEW T \in Turn PROVE TurnKnown(T)' /\ TurnRuns(T)'
  <2>0. TurnKnown(T) /\ TurnRuns(T)
    BY DEF CodexPlace
  <2>1. Free(SteersTo(T))' <=> Free(SteersTo(T))
    BY <1>2
  <2> QED BY <1>1, <1>3, <2>0, <2>1
          DEF TurnKnown, TurnRuns, Worked, Lacks, NoneAfter, Opens, Opening, Completions
<1>6. Free(Blank)'
  BY <1>2 DEF CodexPlace
<1> QED BY <1>4, <1>5, <1>6 DEF CodexPlace

\* The app server's actions are what has been said of them.
LEMMA CodexServeIs ==
    ASSUME Shape, CodexServe
    PROVE  CodexDoes
<1> DEFINE f == Head(wire)
<1>0. /\ provider = "codex" /\ Reading(f) /\ wire # <<>> /\ UNCHANGED <<provider, drv, called>>
  BY DEF CodexServe, Elsewhere, Reading
<1>1. f \in Frames
  <2>1. wire \in Seq(Frames)
    BY DEF Shape, WayShape
  <2> QED BY <1>0, <2>1, TailFacts
<1>2. cli \in CodexCliSet /\ lines \in Seq(Lines)
  BY <1>0, SteerFacts
<1>3. \/ /\ f.is \in {"init", "open"} /\ UNCHANGED <<cli, turns>>
         /\ \E ok \in BOOLEAN : Says(<<[is |-> f.is, ok |-> ok]>>)
      \/ /\ f.is \in {"turn/start", "compact"}
         /\ cli' = [cli EXCEPT !.turn = f.msgs]
         /\ Says((IF f.is = "compact" THEN <<>> ELSE <<StartOk(f.msgs)>>)
                  \o <<[is |-> "started", turn |-> f.msgs]>>)
         /\ Take(ToSet(f.msgs))
      \/ /\ f.is \in {"turn/start", "compact"} /\ UNCHANGED <<cli, turns>>
         /\ Says(<<IF f.is = "compact" THEN [is |-> "error"] ELSE StartNo(f.msgs)>>)
      \/ /\ f.is = "turn/steer" /\ UNCHANGED <<turns, lines>> /\ cli.turn = f.turn
         /\ cli' = [cli EXCEPT !.inbox = Append(@, f.msg), !.acks = @ \cup {f.msg}]
      \/ /\ f.is = "turn/steer" /\ UNCHANGED <<turns, cli>>
         /\ Says(<<SteerNo(f.msg)>>)
      \/ f.is = "interrupt" /\ UNCHANGED turns /\ CodexEnd(FALSE)
      \/ f.is = "interrupt" /\ UNCHANGED <<turns, cli>> /\ Says(<<[is |-> "error"]>>)
      \/ /\ f.is = "reply" /\ UNCHANGED <<lines, turns>>
         /\ cli' = [cli EXCEPT !.asked = @ \ {f.ask}]
  BY DEF CodexServe, Ok, No
<1> HIDE DEF f
<1>4. ASSUME NEW x \in Lines, x \notin Opening, x.is \notin {"completed", "steer"}, Says(<<x>>),
             UNCHANGED <<cli, turns>>
      PROVE  Murmurs
  <2>1. Saying(<<x>>) /\ \A i \in DOMAIN <<x>> : <<x>>[i] = x
    BY <1>4 DEF Saying, Says
  <2> QED BY <1>4, <2>1 DEF Murmurs
<1>5. CASE /\ f.is \in {"init", "open"} /\ UNCHANGED <<cli, turns>>
           /\ \E ok \in BOOLEAN : Says(<<[is |-> f.is, ok |-> ok]>>)
  <2>1. PICK ok \in BOOLEAN : Says(<<[is |-> f.is, ok |-> ok]>>)
    BY <1>5
  <2>2. [is |-> f.is, ok |-> ok] \in Lines
    BY <1>5, LinesSaid
  <2>3. [is |-> f.is, ok |-> ok] \notin Opening
    BY <1>5 DEF Opening
  <2>4. Murmurs
    BY <1>4, <1>5, <2>1, <2>2, <2>3
  <2> QED BY <1>0, <2>4 DEF CodexDoes
<1>6. CASE /\ f.is \in {"turn/start", "compact"}
           /\ cli' = [cli EXCEPT !.turn = f.msgs]
           /\ Says((IF f.is = "compact" THEN <<>> ELSE <<StartOk(f.msgs)>>)
                    \o <<[is |-> "started", turn |-> f.msgs]>>)
           /\ Take(ToSet(f.msgs))
  <2> DEFINE s == IF f.is = "compact" THEN <<>> ELSE <<StartOk(f.msgs)>>
             u == <<[is |-> "started", turn |-> f.msgs]>>
             new == s \o u
  <2>0. f.msgs \in Turn
    BY <1>1, <1>6, FrameFields
  <2>1. StartOk(f.msgs) \in Opens(f.msgs) /\ [is |-> "started", turn |-> f.msgs] \in Opens(f.msgs)
    BY <2>0, LinesSaid DEF StartOk, Opens, Opening
  <2>2. Opens(f.msgs) \subseteq Lines
    BY DEF Opens, Opening
  <2>3. s \in Seq(Opens(f.msgs)) /\ u \in Seq(Opens(f.msgs))
    BY <2>1, ShortFacts
  <2>4. lines' = lines \o new
    BY <1>6 DEF Says
  <2> HIDE DEF s, u
  <2>5. new \in Seq(Opens(f.msgs))
    BY <2>3
  <2> HIDE DEF new
  <2>6. new \in Seq(Lines) /\ \A i \in DOMAIN new : new[i] \in Opens(f.msgs)
    BY <2>2, <2>5, Wider
  <2>7. cli'.turn = f.msgs /\ cli'.inbox = cli.inbox /\ cli'.acks = cli.acks
    BY <1>2, <1>6 DEF CodexCliSet
  <2>8. Begins
    BY <1>0, <1>1, <1>6, <2>4, <2>6, <2>7 DEF Begins, Saying
  <2> QED BY <1>0, <2>8 DEF CodexDoes
<1>7. CASE /\ f.is \in {"turn/start", "compact"} /\ UNCHANGED <<cli, turns>>
           /\ Says(<<IF f.is = "compact" THEN [is |-> "error"] ELSE StartNo(f.msgs)>>)
  <2> DEFINE x == IF f.is = "compact" THEN [is |-> "error"] ELSE StartNo(f.msgs)
  <2>1. f.msgs \in Turn
    BY <1>1, <1>7, FrameFields
  <2>2. x \in Lines /\ x \notin Opening /\ x.is \notin {"completed", "steer"}
    BY <2>1, LinesSaid DEF StartNo, Opening
  <2>3. Murmurs
    BY <1>4, <1>7, <2>2
  <2> QED BY <1>0, <2>3 DEF CodexDoes
<1>8. CASE /\ f.is = "turn/steer" /\ UNCHANGED <<turns, lines>> /\ cli.turn = f.turn
           /\ cli' = [cli EXCEPT !.inbox = Append(@, f.msg), !.acks = @ \cup {f.msg}]
  <2>1. cli'.turn = cli.turn /\ cli'.inbox = Append(cli.inbox, f.msg) /\ cli'.acks = cli.acks \cup {f.msg}
    BY <1>2, <1>8 DEF CodexCliSet
  <2>2. Saying(<<>>)
    BY <1>2, <1>8 DEF Saying
  <2>3. Accepts
    BY <1>0, <1>1, <1>8, <2>1, <2>2 DEF Accepts
  <2> QED BY <1>0, <2>3 DEF CodexDoes
<1>9. CASE f.is = "turn/steer" /\ UNCHANGED <<turns, cli>> /\ Says(<<SteerNo(f.msg)>>)
  <2>1. f.msg \in Msgs
    BY <1>1, <1>9, FrameFields
  <2>2. <<SteerNo(f.msg)>> \in Seq(Lines)
    <3>1. SteerNo(f.msg) \in Lines
      BY <2>1, LinesSaid
    <3> QED BY <3>1, ShortFacts
  <2>3. Refuses
    BY <1>0, <1>1, <1>9, <2>2 DEF Refuses, Saying, Says
  <2> QED BY <1>0, <2>3 DEF CodexDoes
<1>10. CASE f.is = "interrupt" /\ UNCHANGED turns /\ CodexEnd(FALSE)
  <2>1. Ends
    BY <1>0, <1>10, CodexEnds DEF Ends, Saying
  <2> QED BY <1>0, <2>1 DEF CodexDoes
<1>11. CASE f.is = "interrupt" /\ UNCHANGED <<turns, cli>> /\ Says(<<[is |-> "error"]>>)
  <2>1. [is |-> "error"] \in Lines /\ [is |-> "error"] \notin Opening
    BY LinesSaid DEF Opening
  <2>2. Murmurs
    BY <1>4, <1>11, <2>1
  <2> QED BY <1>0, <2>2 DEF CodexDoes
<1>12. CASE /\ f.is = "reply" /\ UNCHANGED <<lines, turns>>
            /\ cli' = [cli EXCEPT !.asked = @ \ {f.ask}]
  <2>1. cli'.turn = cli.turn /\ cli'.inbox = cli.inbox /\ cli'.acks = cli.acks
    BY <1>2, <1>12 DEF CodexCliSet
  <2>2. Saying(<<>>)
    BY <1>2, <1>12 DEF Saying
  <2>3. Murmurs
    BY <1>12, <2>1, <2>2 DEF Murmurs
  <2> QED BY <1>0, <2>3 DEF CodexDoes
<1> QED BY <1>3, <1>5, <1>6, <1>7, <1>8, <1>9, <1>10, <1>11, <1>12

LEMMA CodexWorkIs ==
    ASSUME Shape, provider = "codex", Serve \/ Work \/ Asking \/ Finish
    PROVE  CodexDoes
<1>0. cli \in CodexCliSet /\ lines \in Seq(Lines) /\ cli.acks \subseteq Msgs /\ cli.inbox \in Turn
  BY SteerFacts
<1>1. \/ CodexServe
      \/ \E m \in Msgs : CodexAck(m)
      \/ CodexRead
      \/ \E a \in Asks, kind \in Kinds : CodexAsks(a, kind)
      \/ \E failed \in BOOLEAN : CodexFinish(failed)
  BY DEF Serve, Work, Asking, Finish, ClaudeServe, CursorServe, ClaudeFold, ClaudeNextTurn, ClaudeError,
         ClaudeAsks, CursorAsks, ClaudeFinish, CursorFinish
<1>2. CASE CodexServe
  BY <1>2, CodexServeIs
<1>3. ASSUME NEW m \in Msgs, CodexAck(m) PROVE CodexDoes
  <2>1. cli'.turn = cli.turn /\ cli'.inbox = cli.inbox /\ cli'.acks = cli.acks \ {m}
    BY <1>0, <1>3 DEF CodexAck, CodexCliSet
  <2>2. <<SteerOk(m)>> \in Seq(Lines)
    <3>1. SteerOk(m) \in Lines
      BY LinesSaid
    <3> QED BY <3>1, ShortFacts
  <2>3. Acks(m) /\ UNCHANGED <<provider, drv, called>>
    BY <1>3, <2>1, <2>2 DEF Acks, CodexAck, Saying, Says, Elsewhere
  <2> QED BY <2>3 DEF CodexDoes
<1>4. CASE CodexRead
  <2> DEFINE m == Head(cli.inbox)
  <2>1. m \in Msgs
    BY <1>0, <1>4, TailFacts DEF CodexRead, Turn
  <2>2. cli'.turn = cli.turn /\ cli'.inbox = Tail(cli.inbox) /\ cli'.acks = cli.acks
    BY <1>0, <1>4 DEF CodexRead, CodexCliSet
  <2>3. <<Item(m)>> \in Seq(Lines)
    <3>1. Item(m) \in Lines
      BY <2>1, LinesSaid DEF Item
    <3> QED BY <3>1, ShortFacts
  <2>4. Reads(m) /\ UNCHANGED <<provider, drv, called>>
    BY <1>4, <2>2, <2>3 DEF Reads, CodexRead, Saying, Says, Elsewhere, Item
  <2> QED BY <2>1, <2>4 DEF CodexDoes
<1>5. ASSUME NEW a \in Asks, NEW kind \in Kinds, CodexAsks(a, kind) PROVE CodexDoes
  <2>1. cli'.turn = cli.turn /\ cli'.inbox = cli.inbox /\ cli'.acks = cli.acks
    BY <1>0, <1>5 DEF CodexAsks, CodexCliSet
  <2>2. kind \in AskKinds
    BY <1>5, KindsAreFew DEF Shape
  <2>3. Ask(a, kind) \in Lines /\ Ask(a, kind) \notin Opening /\ Ask(a, kind).is \notin {"completed", "steer"}
    BY <2>2, LinesSaid DEF Ask, Opening
  <2>4. Saying(<<Ask(a, kind)>>) /\ \A i \in DOMAIN <<Ask(a, kind)>> : <<Ask(a, kind)>>[i] = Ask(a, kind)
    BY <1>5, <2>3 DEF Saying, Says, CodexAsks
  <2>5. Murmurs /\ UNCHANGED <<provider, drv, called>>
    BY <1>5, <2>1, <2>3, <2>4 DEF Murmurs, CodexAsks, Elsewhere
  <2> QED BY <2>5 DEF CodexDoes
<1>6. ASSUME NEW failed \in BOOLEAN, CodexFinish(failed) PROVE CodexDoes
  <2>1. CodexEnd(failed) /\ turns' = turns /\ UNCHANGED <<provider, drv, called>>
    BY <1>6 DEF CodexFinish, Elsewhere
  <2>2. Ends
    BY <2>1, CodexEnds DEF Ends, Saying
  <2> QED BY <2>1, <2>2 DEF CodexDoes
<1> QED BY <1>1, <1>2, <1>3, <1>4, <1>5, <1>6

-----------------------------------------------------------------------------
LEMMA PlaceStarts ==
    ASSUME Init, provider = "codex"
    PROVE  CodexPlace
<1>1. /\ drv = CodexNew /\ cli = CodexCli /\ lines = <<>> /\ Shape /\ turns = [m \in Msgs |-> 0]
      /\ todo = [t \in Threads |-> <<>>] /\ Lacks(wire, Frames \ [is : {"init"}])
  BY Start
<1>2. ASSUME NEW F, F \subseteq Frames \ [is : {"init"}] PROVE Free(F)
  <2>1. Lacks(wire, F)
    BY <1>1, <1>2, LacksLess
  <2>2. \A t \in Threads : Lacks(todo[t], Writing(F))
    BY <1>1 DEF Lacks
  <2> QED BY <2>1, <2>2 DEF Free, Clear
<1>3. /\ drv.active = None /\ drv.steers = {} /\ cli.turn = None /\ cli.acks = {} /\ cli.inbox = <<>>
      /\ None \notin Turn
  BY <1>1, SteerFacts DEF CodexNew, CodexCli
<1>4. \A S : Lacks(lines, S)
  BY <1>1 DEF Lacks
<1>5. ASSUME NEW m \in Msgs PROVE SteerPlace(m)
  <2>1. Free(SteerFrames(m))
    <3>1. SteerFrames(m) \subseteq Frames \ [is : {"init"}]
      BY DEF SteerFrames
    <3> QED BY <1>2, <3>1
  <2> QED BY <1>3, <1>4, <2>1 DEF SteerPlace, SteerAsked, SteerRefused, SteerHeld, SteerUnasked
<1>6. ASSUME NEW T \in Turn PROVE TurnKnown(T) /\ TurnRuns(T)
  <2>1. Free(SteersTo(T))
    <3>1. SteersTo(T) \subseteq Frames \ [is : {"init"}]
      BY DEF SteersTo
    <3> QED BY <1>2, <3>1
  <2> QED BY <1>3, <1>4, <2>1 DEF TurnKnown, TurnRuns
<1>7. Free(Blank)
  <2>1. Blank \subseteq Frames \ [is : {"init"}]
    BY DEF Blank
  <2> QED BY <1>2, <2>1
<1> QED BY <1>5, <1>6, <1>7 DEF CodexPlace

\* A message that comes back to the driver is nowhere else.
LEMMA BackUnused ==
    ASSUME Shape, provider = "codex", CodexPlace, lines # <<>>, NEW m \in Msgs, m \in Back(Head(lines))
    PROVE  Unused(m) /\ m \in called
<1> DEFINE line == Head(lines)
<1>0. /\ CodexNeat(drv) /\ drv.steers \subseteq called /\ lines \in Seq(Lines)
      /\ m \in CodexBack(drv, line) /\ Hands = CodexHands(drv)
  BY SteerFacts DEF Back, Hands
<1>1. line \in Lines /\ \A S : Lacks(lines, S) => line \notin S
  BY <1>0, TailFacts
<1>2. \A x, Q : Comes(lines, x, Q) /\ x \notin Q => line \notin Q
  BY <1>0, TailOrder
<1> HIDE DEF line
<1>3. m \in drv.steers
  BY <1>0 DEF CodexBack
<1>4. m \notin Hands /\ m \in called
  BY <1>0, <1>3 DEF CodexNeat, CodexHands
<1>5. SteerAsked(m) /\ SteerRefused(m) /\ SteerHeld(m)
  BY DEF CodexPlace, SteerPlace
<1>6. \/ line.is = "steer" /\ line.msg = m /\ (~line.ok \/ drv.active = None)
      \/ line.is = "completed" /\ m \notin drv.unanswered
  BY <1>0 DEF CodexBack
<1>7. Free(SteerFrames(m))
  <2>1. line \in SteerLines(m) \/ m \notin drv.unanswered
    BY <1>1, <1>6 DEF SteerLines
  <2> QED BY <1>1, <1>5, <2>1 DEF SteerAsked
<1>8. Item(m) \notin Completions
  BY DEF Item, Completions
<1>9. ~Waits(m) /\ turns[m] = 0
  <2>1. CASE line.is = "steer" /\ line.msg = m /\ ~line.ok
    <3>1. line = SteerNo(m)
      BY <1>1, <2>1 DEF Lines, SteerNo
    <3>2. ~Lacks(lines, {SteerNo(m)})
      BY <1>1, <3>1
    <3> QED BY <1>3, <1>5, <3>2 DEF SteerRefused
  <2>2. CASE drv.active = None
    BY <1>3, <1>5, <2>2 DEF SteerHeld, Live
  <2>3. CASE line.is = "completed"
    <3>1. line \in Completions
      BY <1>1, <2>3 DEF Completions
    <3> QED BY <1>1, <1>2, <1>3, <1>5, <1>8, <3>1 DEF SteerHeld, Live
  <2> QED BY <1>6, <2>1, <2>2, <2>3
<1>10. NoPrompt(m)
  BY <1>3, <1>5, <1>7, FreeFrames DEF SteerHeld
<1> QED BY <1>4, <1>9, <1>10 DEF Unused

-----------------------------------------------------------------------------
(* The inductive invariant of a session, whatever its provider.            *)
SessionInv ==
    /\ Shape /\ AsksOnce
    /\ \A m \in Msgs : EchoOnce(m) /\ PromptOnce(m)
    /\ provider = "codex" => CodexPlace

\* It holds at first, and every step keeps it.
LEMMA SessionStarts == Init => SessionInv
<1> SUFFICES ASSUME Init PROVE SessionInv
  OBVIOUS
<1>1. Shape /\ AsksOnce
  BY Start
<1>2. \A m \in Msgs : EchoOnce(m) /\ PromptOnce(m)
  BY EchoStarts, PromptStarts
<1>3. ASSUME provider = "codex" PROVE CodexPlace
  BY <1>3, PlaceStarts
<1> QED BY <1>1, <1>2, <1>3 DEF SessionInv

LEMMA SessionKept == SessionInv /\ [Next]_vars => SessionInv'
<1> SUFFICES ASSUME SessionInv, [Next]_vars PROVE SessionInv'
  OBVIOUS
<1>1. Shape /\ AsksOnce /\ Shape' /\ AsksOnce'
  BY ShapeKept DEF SessionInv
<1>2. \A m \in Msgs : EchoOnce(m)'
  BY EchoKept DEF SessionInv
<1>3. (\A m \in Msgs : PromptOnce(m)) /\ (provider = "codex" => CodexPlace)
  BY DEF SessionInv
<1>4. (\A m \in Msgs : PromptOnce(m)') /\ (provider' = "codex" => CodexPlace')
  <2>1. ASSUME NEW t, NEW new, NEW steps, Called(t, new, steps)
        PROVE  (\A m \in Msgs : PromptOnce(m)') /\ (provider' = "codex" => CodexPlace')
    <3>1. provider' = provider
      BY <2>1 DEF Called
    <3>2. \A m \in Msgs : PromptOnce(m)'
      BY <1>1, <1>3, <2>1, PromptCalled
    <3> QED BY <1>1, <1>3, <2>1, <3>1, <3>2, CodexCalled
  <2>2. CASE OnLine
    <3>1. Head(lines).is = "ask" => Head(lines).ask \notin drv.pending
      BY <1>1, <2>2, NotYetAsked DEF OnLine
    <3>2. PICK steps : Heard(steps)
      BY <1>1, <2>2, <3>1, LineIs
    <3>3. provider' = provider /\ lines # <<>>
      BY <3>2 DEF Heard
    <3>4. ASSUME NEW m \in Msgs PROVE PromptOnce(m)'
      <4>1. m \in Back(Head(lines)) => Unused(m) /\ m \in called
        BY <1>1, <1>3, <3>3, BackUnused DEF Back
      <4> QED BY <1>1, <1>3, <3>2, <4>1, PromptHeard
    <3> QED BY <1>1, <1>3, <3>2, <3>3, <3>4, CodexHeard
  <2>3. ASSUME NEW t \in Threads, EmitStep(t) \/ WriteStep(t) \/ BrokenPipe(t)
        PROVE  (\A m \in Msgs : PromptOnce(m)') /\ (provider' = "codex" => CodexPlace')
    <3>1. provider' = provider
      BY <2>3 DEF EmitStep, WriteStep, BrokenPipe
    <3>2. \A m \in Msgs : PromptOnce(m)'
      BY <1>1, <1>3, <2>3, PromptThread
    <3> QED BY <1>1, <1>3, <2>3, <3>1, <3>2, CodexThread
  <2>4. CASE Far /\ (Serve \/ Work \/ Asking \/ Finish)
    <3>1. provider' = provider
      BY <2>4 DEF Far, FarShape, Elsewhere
    <3>2. \A m \in Msgs : PromptOnce(m)'
      BY <1>1, <1>3, <2>4, PromptFar
    <3> QED BY <1>1, <1>3, <2>4, <3>1, <3>2, CodexWorkIs, CodexFar
  <2>5. CASE Rests
    <3>1. provider' = provider
      BY <2>5 DEF Rests
    <3>2. \A m \in Msgs : PromptOnce(m)'
      BY <1>3, <2>5, PromptRests
    <3> QED BY <1>3, <2>5, <3>1, <3>2, CodexRests
  <2> QED BY <1>1, <2>1, <2>2, <2>3, <2>4, <2>5, StepIs
<1> QED BY <1>1, <1>2, <1>4 DEF SessionInv

\* What has one place is there once.
LEMMA SessionIsOK == SessionInv => SessionsOK
<1> SUFFICES ASSUME SessionInv PROVE SessionsOK
  OBVIOUS
<1>1. /\ provider \in {"codex", "claude", "cursor"} /\ called \subseteq Callers
      /\ todo \in [Threads -> Seq(Steps)] /\ UserShape
  BY DEF SessionInv, Shape, DriverShape, WayShape
<1>2. drv.pending \subseteq Asks
  <2>1. CASE provider = "codex"
    BY <2>1, CodexFields DEF SessionInv, Shape, DriverShape
  <2>2. CASE provider = "claude"
    BY <2>2, ClaudeFields DEF SessionInv, Shape, DriverShape
  <2>3. CASE provider = "cursor"
    BY <2>3, CursorFields DEF SessionInv, Shape, DriverShape
  <2> QED BY <1>1, <2>1, <2>2, <2>3
<1>3. TypeOK
  BY <1>1, <1>2 DEF TypeOK, UserShape
<1>4. OncePerMessage
  BY DEF SessionInv, EchoOnce, PromptOnce, OncePerMessage
<1>5. OncePerAsk
  BY DEF SessionInv, AsksOnce, AskOnce, OncePerAsk
<1> QED BY <1>3, <1>4, <1>5 DEF SessionsOK

(* Whatever is carried over, queued, clicked in two windows, stopped or    *)
(* abandoned: no driver puts a message in a turn twice, shows it twice, or *)
(* answers an approval twice, for any number of these.                     *)
THEOREM SessionsAreOK == Spec => []SessionsOK
<1>1. Spec => []SessionInv
  BY SessionStarts, SessionKept, PTL DEF Spec
<1> QED BY <1>1, SessionIsOK, PTL
=============================================================================
